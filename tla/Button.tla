------------------------------- MODULE Button -------------------------------
(***************************************************************************)
(* The dock's button (src/rust/src/gpio.rs, src/src/gpio/gpio.cpp).  Each  *)
(* edge of the pin restarts two one-shot timers from the interrupt: one to *)
(* debounce, one for a long press.  Starting a timer posts a command to    *)
(* the bounded queue of the kernel's timer task, which also runs both      *)
(* callbacks.  Time is counted in ticks of a scaled clock that wraps as    *)
(* the 32-bit tick count does; the subtraction is that of the release      *)
(* profile, where it wraps too.                                            *)
(*                                                                         *)
(* A callback is one step.  Its engine::send does not wait for room; when  *)
(* there is none it logs (engine.rs:128) and may wait for the logger's     *)
(* String (logger.rs:24) and for the ring (usb_device.cpp:34).  That comes *)
(* after all the callback does to the button, so such a wait is no more    *)
(* than a timer task that is late, which MaxLag bounds.  Whether the       *)
(* message found room is the engine queue's business (EngineQueue!Send):   *)
(* here a report is an attempt to send it.                                 *)
(***************************************************************************)
EXTENDS Naturals, Sequences

CONSTANTS Debounce, Short, Long,  \* DURATION_*, in ticks
          Wrap,          \* values of the tick counter (2^32 in the kernel)
          CmdQueueLen,   \* configTIMER_QUEUE_LENGTH
          EdgesPerTick,  \* bound: edges a bouncing contact makes in a tick
          MaxLag         \* bound: ticks the timer task may be behind

(* Bound: a press ends this many ticks after it began, or never. (Held for  *)
(* all of the counter's 49 days, it could be taken for a short one.)        *)
PressLimit == Wrap - (Debounce + MaxLag + 1)

ASSUME ButtonAssumption ==
    /\ {Debounce, Short, Long, Wrap, CmdQueueLen, EdgesPerTick, MaxLag} \subseteq Nat
    /\ 0 < Debounce /\ Debounce < Short /\ Short + Debounce <= Long
    /\ Long < PressLimit

VARIABLES level,    \* is the button held down, as the pin shows it?
          irq,      \* an edge's interrupt is pending
          cmds,     \* timer commands posted and not yet received
          due,      \* ticks until each active timer expires
          now,      \* the tick count
          pressed,  \* BUTTON_PRESSED
          time,     \* BUTTON_TIME
          panicked, \* an unwrap in the interrupt failed
          shorts, longs,  \* reports made, modulo 2
          \* History variables.
          edges,    \* edges in this tick
          lag,      \* ticks since the timer task was last up to date
          heldFor,  \* ticks since the debounced press, up to Wrap
          quietFor, \* ticks since the last edge, up to Long
          longSent  \* was this press reported as long?

pinVars == <<level, irq, edges>>
clockVars == <<now, lag, quietFor>>
debounced == <<pressed, time, heldFor, longSent, shorts, longs>>
buttonVars == <<pinVars, clockVars, debounced, cmds, due, panicked>>

Period == [debounce |-> Debounce, long |-> Long]
Timers == DOMAIN Period

ButtonInit ==
    /\ level = FALSE /\ irq = FALSE /\ edges = 0
    /\ now = 0 /\ lag = 0 /\ quietFor = 0
    /\ pressed = FALSE /\ time = 0 /\ heldFor = 0 /\ longSent = FALSE
    /\ shorts = 0 /\ longs = 0
    /\ cmds = <<>> /\ due = <<>> /\ panicked = FALSE

-----------------------------------------------------------------------------
UpToDate == cmds = <<>> /\ \A t \in DOMAIN due : due[t] > 0

(* The pin changes; edges before the interrupt is served share it. *)
Edge ==
    /\ ~panicked /\ edges < EdgesPerTick
    /\ pressed => heldFor < PressLimit
    /\ level' = ~level /\ irq' = TRUE /\ edges' = edges + 1 /\ quietFor' = 0
    /\ UNCHANGED <<now, lag, debounced, cmds, due, panicked>>

Start(t) == [timer |-> t, due |-> Period[t]]

(* Mutant: the timers are stopped before they are started. *)
StopAndStartTimers == <<Start("debounce"), Start("debounce"), Start("long"), Start("long")>>

(* Mutant: a press that is being timed is left to run. *)
StartTimersOnce ==
    <<Start("debounce")>> \o IF "long" \in DOMAIN due THEN <<>> ELSE <<Start("long")>>

(* What the interrupt posts. *)
StartTimers == <<Start("debounce"), Start("long")>>

(* button_isr; the timers exist, since InitGpio runs after rust_init. *)
ButtonIsr ==
    /\ irq /\ irq' = FALSE
    /\ IF Len(cmds) + Len(StartTimers) <= CmdQueueLen
       THEN cmds' = cmds \o StartTimers /\ UNCHANGED panicked
       ELSE panicked' = TRUE /\ UNCHANGED cmds
    /\ UNCHANGED <<level, edges, clockVars, debounced, due>>

-----------------------------------------------------------------------------
(* Mutant: the difference of the tick counts taken as if they never wrapped. *)
ElapsedNoWrap == IF now >= time THEN now - time ELSE 0

Elapsed == (now + Wrap - time) % Wrap

Store == pressed' = level /\ time' = now /\ heldFor' = 0

(* Mutant: a release after a long hold is reported too. *)
TaskDebounceAnyRelease ==
    \/ level = pressed /\ UNCHANGED debounced
    \/ level /\ ~pressed /\ Store /\ longSent' = FALSE /\ UNCHANGED <<shorts, longs>>
    \/ ~level /\ pressed /\ Store /\ shorts' = 1 - shorts /\ UNCHANGED <<longs, longSent>>

(* Mutant: it returns once it has reported. *)
TaskDebounceReturnsEarly ==
    \/ level = pressed /\ UNCHANGED debounced
    \/ level /\ ~pressed /\ Store /\ longSent' = FALSE /\ UNCHANGED <<shorts, longs>>
    \/ /\ ~level /\ pressed
       /\ IF Elapsed < Short
          THEN shorts' = 1 - shorts /\ UNCHANGED <<pressed, time, heldFor>>
          ELSE Store /\ UNCHANGED shorts
       /\ UNCHANGED <<longs, longSent>>

(* task_debounce *)
TaskDebounce ==
    \/ level = pressed /\ UNCHANGED debounced
    \/ level /\ ~pressed /\ Store /\ longSent' = FALSE /\ UNCHANGED <<shorts, longs>>
    \/ /\ ~level /\ pressed /\ Store
       /\ shorts' = IF Elapsed < Short THEN 1 - shorts ELSE shorts
       /\ UNCHANGED <<longs, longSent>>

(* Mutant: it asks how long the debounced press has lasted. *)
TaskLongIfElapsed ==
    IF level /\ pressed /\ Elapsed >= Long
    THEN /\ longs' = 1 - longs /\ longSent' = TRUE
         /\ UNCHANGED <<pressed, time, heldFor, shorts>>
    ELSE UNCHANGED debounced

(* task_long *)
TaskLong ==
    IF level
    THEN /\ longs' = 1 - longs /\ longSent' = TRUE
         /\ UNCHANGED <<pressed, time, heldFor, shorts>>
    ELSE UNCHANGED debounced

Callback(t) == IF t = "debounce" THEN TaskDebounce ELSE TaskLong

Stopped(t) == [u \in DOMAIN due \ {t} |-> due[u]]
Running(t, d) == [u \in DOMAIN due \cup {t} |-> IF u = t THEN d ELSE due[u]]

(* The timer task runs a timer that expired. *)
Expire(t) ==
    /\ t \in DOMAIN due /\ due[t] = 0
    /\ due' = Stopped(t)
    /\ Callback(t)
    /\ UNCHANGED <<pinVars, clockVars, cmds, panicked>>

(* It receives a start: the timer counts from the interrupt, and runs at   *)
(* once if it would have expired meanwhile.                                *)
Receive ==
    /\ cmds # <<>> /\ cmds' = Tail(cmds)
    /\ LET c == Head(cmds) IN
       IF c.due = 0 THEN due' = Stopped(c.timer) /\ Callback(c.timer)
                    ELSE due' = Running(c.timer, c.due) /\ UNCHANGED debounced
    /\ UNCHANGED <<pinVars, clockVars, panicked>>

-----------------------------------------------------------------------------
Lower(n) == IF n = 0 THEN 0 ELSE n - 1
AtMost(n, max) == IF n < max THEN n ELSE max

(* The timer task has the highest priority: no tick passes it by, but for  *)
(* MaxLag of them.                                                         *)
Tick ==
    /\ ~irq /\ ~panicked
    /\ UpToDate \/ lag < MaxLag
    /\ now' = (now + 1) % Wrap
    /\ lag' = IF UpToDate THEN 0 ELSE lag + 1
    /\ quietFor' = AtMost(quietFor + 1, Long)
    /\ edges' = 0
    /\ heldFor' = IF pressed THEN AtMost(heldFor + 1, Wrap) ELSE 0
    /\ due' = [t \in DOMAIN due |-> Lower(due[t])]
    /\ cmds' = [i \in DOMAIN cmds |-> [cmds[i] EXCEPT !.due = Lower(@)]]
    /\ UNCHANGED <<level, irq, pressed, time, longSent, shorts, longs, panicked>>

TimerTask == Receive \/ \E t \in Timers : Expire(t)
ButtonNext == Edge \/ ButtonIsr \/ TimerTask \/ Tick

(* Interrupts are served, the timer task outranks every other, time passes. *)
ButtonSpec ==
    /\ ButtonInit /\ [][ButtonNext]_buttonVars
    /\ WF_buttonVars(ButtonIsr) /\ WF_buttonVars(TimerTask) /\ WF_buttonVars(Tick)

-----------------------------------------------------------------------------
ButtonTypeOK ==
    /\ {level, irq, pressed, panicked, longSent} \subseteq BOOLEAN
    /\ {now, time} \subseteq 0 .. Wrap - 1 /\ heldFor \in 0 .. Wrap
    /\ DOMAIN due \subseteq Timers /\ \A t \in DOMAIN due : due[t] \in 0 .. Period[t]
    /\ Len(cmds) <= CmdQueueLen
    /\ \A i \in DOMAIN cmds : cmds[i].due \in 0 .. Period[cmds[i].timer]
    /\ edges \in 0 .. EdgesPerTick /\ lag \in 0 .. MaxLag /\ quietFor \in 0 .. Long
    /\ shorts \in 0 .. 1 /\ longs \in 0 .. 1

(* The interrupt's unwrap never fails: bouncing at the given rate, with the *)
(* timer task that late, does not fill its queue (gpio.rs:55).  Rate and    *)
(* lateness are assumed of the contact and the kernel: nothing in the code  *)
(* bounds them.                                                             *)
NoIsrPanic == ~panicked

(* No edge is lost on the debouncer: when nothing is pending and its timer  *)
(* is not running, BUTTON_PRESSED is what the pin shows.                    *)
SettledAgrees ==
    ~irq /\ UpToDate /\ "debounce" \notin DOMAIN due => pressed = level

(* The end of a press is reported exactly when it lasted less than Short in *)
(* real time, also when the tick count wrapped meanwhile (gpio.rs:27).      *)
ShortIsBrief ==
    [][pressed /\ ~pressed' => (shorts' # shorts <=> heldFor < Short)]_buttonVars

(* A long press is reported only of a button that has been down for the     *)
(* whole time, with no edge meanwhile: every edge restarts the timer        *)
(* (gpio.rs:40, 56).  The timer task cannot know better of an edge that has *)
(* not reached it: whose interrupt is pending or whose start is queued.     *)
LongNeedsHold ==
    [][longs' # longs => level /\ (quietFor >= Long \/ irq \/ cmds' # <<>>)]_buttonVars

(* A button that stays down is reported in the end (gpio.rs:56). *)
LongComes == level ~> ~level \/ longSent

(* "Button is still pressed after this time." (gpio.rs:40): a long press is *)
(* reported only while the debounced button is pressed.                     *)
LongIsPressed == [][longs' # longs => pressed]_buttonVars

(* The reports are those module ButtonReports allows, but for a report made *)
(* while an edge is on its way to the timer task (gpio.rs:20-43).           *)
Reports == INSTANCE ButtonReports
    WITH phase <- IF ~pressed THEN "up" ELSE IF longSent THEN "long" ELSE "down"
EdgeOnItsWay == irq \/ cmds # <<>>
ReportsOfPresses == Reports!Init /\ [][Reports!Next \/ EdgeOnItsWay]_(Reports!vars)
=============================================================================
