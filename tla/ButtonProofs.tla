---------------------------- MODULE ButtonProofs ----------------------------
(***************************************************************************)
(* What holds of the button for every choice of its durations, of the tick *)
(* counter's range, of the rate at which it bounces and of the timer       *)
(* task's delay.                                                           *)
(***************************************************************************)
EXTENDS Button, SequenceTheorems, TLAPS

-----------------------------------------------------------------------------
Commands == [timer : Timers, due : Nat]

LEMMA PeriodFacts ==
    /\ Timers = {"debounce", "long"}
    /\ Period["debounce"] = Debounce /\ Period["long"] = Long
    /\ Debounce \in Nat /\ 0 < Debounce /\ Long \in Nat /\ 0 < Long
    /\ Wrap \in Nat /\ 0 < Wrap /\ MaxLag \in Nat /\ EdgesPerTick \in Nat /\ CmdQueueLen \in Nat
BY ButtonAssumption DEF Period, Timers, ButtonAssumption, PressLimit

(* What the interrupt posts fits the type and is two commands long. *)
LEMMA StartTimersFacts ==
    /\ StartTimers \in Seq(Commands) /\ Len(StartTimers) = 2
    /\ StartTimers[1] = [timer |-> "debounce", due |-> Debounce]
    /\ StartTimers[2] = [timer |-> "long", due |-> Long]
BY PeriodFacts DEF StartTimers, Start, Commands

(* Posting them leaves the commands before them where they were. *)
LEMMA PostedFacts ==
    ASSUME NEW q \in Seq(Commands)
    PROVE  LET p == q \o StartTimers IN
           /\ p \in Seq(Commands) /\ Len(p) = Len(q) + 2
           /\ \A i \in 1 .. Len(q) : p[i] = q[i]
           /\ p[Len(q) + 1] = [timer |-> "debounce", due |-> Debounce]
           /\ p[Len(q) + 2] = [timer |-> "long", due |-> Long]
<1>1. StartTimers \in Seq(Commands) /\ Len(StartTimers) = 2
  BY StartTimersFacts
<1>2. /\ q \o StartTimers \in Seq(Commands) /\ Len(q \o StartTimers) = Len(q) + Len(StartTimers)
      /\ \A i \in 1 .. Len(q) + Len(StartTimers) :
            (q \o StartTimers)[i] = IF i <= Len(q) THEN q[i] ELSE StartTimers[i - Len(q)]
  BY <1>1, ConcatProperties
<1>3. Len(q) \in Nat
  BY LenProperties
<1>4. (q \o StartTimers)[Len(q) + 1] = StartTimers[1] /\ (q \o StartTimers)[Len(q) + 2] = StartTimers[2]
  BY <1>1, <1>2, <1>3
<1> QED BY <1>1, <1>2, <1>3, <1>4, StartTimersFacts

-----------------------------------------------------------------------------
(* Commands are well formed, apart from their number. *)
CmdsOK ==
    /\ cmds \in Seq(Commands)
    /\ \A i \in DOMAIN cmds : cmds[i].due <= Period[cmds[i].timer]

(* The commands waiting come from the edges since the timer task was last up *)
(* to date, two from each, and those of a pending interrupt are still to come. *)
FewCommands ==
    Len(cmds) + (IF irq THEN 2 ELSE 0) <= 2 * (edges + EdgesPerTick * lag)

Core ==
    /\ {level, irq, pressed, panicked, longSent} \subseteq BOOLEAN
    /\ {now, time} \subseteq 0 .. Wrap - 1 /\ heldFor \in 0 .. Wrap
    /\ DOMAIN due \subseteq Timers /\ \A t \in DOMAIN due : due[t] \in 0 .. Period[t]
    /\ Len(cmds) <= CmdQueueLen
    /\ edges \in 0 .. EdgesPerTick /\ lag \in 0 .. MaxLag /\ quietFor \in 0 .. Long
    /\ shorts \in 0 .. 1 /\ longs \in 0 .. 1
    /\ CmdsOK

LEMMA CoreType == Core => ButtonTypeOK
<1> SUFFICES ASSUME Core PROVE \A i \in DOMAIN cmds : cmds[i].due \in 0 .. Period[cmds[i].timer]
  BY DEF Core, ButtonTypeOK
<1>1. \A i \in DOMAIN cmds : cmds[i] \in Commands
  BY DEF Core, CmdsOK
<1> QED BY <1>1, PeriodFacts DEF Core, CmdsOK, Commands

LEMMA CoreInit == ButtonInit => Core /\ FewCommands
<1> SUFFICES ASSUME ButtonInit PROVE Core /\ FewCommands
  OBVIOUS
<1>1. cmds \in Seq(Commands) /\ Len(cmds) = 0 /\ DOMAIN cmds = {} /\ DOMAIN due = {}
  BY DEF ButtonInit
<1>2. EdgesPerTick * 0 = 0
  BY PeriodFacts
<1>3. {level, irq, pressed, panicked, longSent} \subseteq BOOLEAN
  BY DEF ButtonInit
<1>4. Core
  <2>1. {now, time} \subseteq 0 .. Wrap - 1 /\ heldFor \in 0 .. Wrap
    BY PeriodFacts DEF ButtonInit
  <2>2. edges \in 0 .. EdgesPerTick /\ lag \in 0 .. MaxLag /\ quietFor \in 0 .. Long
    BY PeriodFacts DEF ButtonInit
  <2>3. shorts \in 0 .. 1 /\ longs \in 0 .. 1
    BY DEF ButtonInit
  <2> QED BY <1>1, <1>3, <2>1, <2>2, <2>3, PeriodFacts DEF Core, CmdsOK
<1>5. FewCommands
  BY <1>1, <1>2 DEF ButtonInit, FewCommands
<1> QED BY <1>4, <1>5

(* A callback keeps the debouncer's types. *)
LEMMA CallbackType ==
    ASSUME Core, NEW t \in Timers, Callback(t)
    PROVE  /\ {pressed', longSent'} \subseteq BOOLEAN /\ time' \in 0 .. Wrap - 1
           /\ heldFor' \in 0 .. Wrap /\ shorts' \in 0 .. 1 /\ longs' \in 0 .. 1
<1> DEFINE Typed == /\ {pressed', longSent'} \subseteq BOOLEAN /\ time' \in 0 .. Wrap - 1
                    /\ heldFor' \in 0 .. Wrap /\ shorts' \in 0 .. 1 /\ longs' \in 0 .. 1
<1>1. /\ level \in BOOLEAN /\ pressed \in BOOLEAN /\ longSent \in BOOLEAN
      /\ now \in 0 .. Wrap - 1 /\ time \in 0 .. Wrap - 1 /\ heldFor \in 0 .. Wrap
      /\ 0 \in 0 .. Wrap
      /\ shorts \in 0 .. 1 /\ longs \in 0 .. 1 /\ 1 - shorts \in 0 .. 1 /\ 1 - longs \in 0 .. 1
  BY PeriodFacts DEF Core
<1>2. CASE UNCHANGED debounced
  BY <1>1, <1>2 DEF debounced
<1>3. CASE TaskDebounce
  <2>1. CASE UNCHANGED debounced
    BY <1>2, <2>1
  <2>2. CASE Store /\ longSent' = FALSE /\ UNCHANGED <<shorts, longs>>
    BY <1>1, <2>2 DEF Store
  <2>3. CASE /\ Store /\ UNCHANGED <<longs, longSent>>
             /\ shorts' = IF Elapsed < Short THEN 1 - shorts ELSE shorts
    <3>1. shorts' \in 0 .. 1
      BY <1>1, <2>3
    <3> QED BY <1>1, <2>3, <3>1 DEF Store
  <2> QED BY <1>3, <2>1, <2>2, <2>3 DEF TaskDebounce
<1>4. CASE TaskLong
  BY <1>1, <1>2, <1>4 DEF TaskLong
<1> QED BY <1>3, <1>4 DEF Callback

(* The timer task receives the head of its queue. *)
LEMMA ReceiveFacts ==
    ASSUME Core, Receive
    PROVE  /\ cmds # <<>> /\ cmds[1] \in Commands /\ cmds[1].due <= Period[cmds[1].timer]
           /\ cmds' \in Seq(Commands) /\ Len(cmds') = Len(cmds) - 1
           /\ \A i \in DOMAIN cmds' : i + 1 \in DOMAIN cmds /\ cmds'[i] = cmds[i + 1]
           /\ \A i \in DOMAIN cmds : i # 1 => i - 1 \in DOMAIN cmds' /\ cmds'[i - 1] = cmds[i]
           /\ IF cmds[1].due = 0
              THEN due' = Stopped(cmds[1].timer) /\ Callback(cmds[1].timer)
              ELSE /\ DOMAIN due' = {cmds[1].timer} \cup DOMAIN due
                   /\ due'[cmds[1].timer] = cmds[1].due
                   /\ \A t \in DOMAIN due : t # cmds[1].timer => due'[t] = due[t]
                   /\ UNCHANGED debounced
           /\ UNCHANGED <<pinVars, clockVars, panicked>>
<1>1. cmds \in Seq(Commands) /\ cmds # <<>> /\ cmds' = Tail(cmds) /\ Head(cmds) = cmds[1]
  BY DEF Core, CmdsOK, Receive
<1>2. /\ Len(cmds) \in Nat \ {0} /\ DOMAIN cmds = 1 .. Len(cmds)
      /\ cmds' \in Seq(Commands) /\ Len(cmds') = Len(cmds) - 1
      /\ \A i \in 1 .. Len(cmds') : cmds'[i] = cmds[i + 1]
  BY <1>1, HeadTailProperties, EmptySeq, LenProperties
<1>3. DOMAIN cmds' = 1 .. Len(cmds')
  BY <1>2, LenProperties
<1>4. cmds[1] \in Commands /\ cmds[1].due <= Period[cmds[1].timer]
  <2>1. \A i \in DOMAIN cmds : cmds[i] \in Commands /\ cmds[i].due <= Period[cmds[i].timer]
    BY <1>1, <1>2 DEF Core, CmdsOK
  <2>2. 1 \in DOMAIN cmds
    BY <1>2
  <2> QED BY <2>1, <2>2
<1>5. IF cmds[1].due = 0
      THEN due' = Stopped(cmds[1].timer) /\ Callback(cmds[1].timer)
      ELSE due' = Running(cmds[1].timer, cmds[1].due) /\ UNCHANGED debounced
  BY <1>1 DEF Receive
<1>6. UNCHANGED <<pinVars, clockVars, panicked>>
  BY DEF Receive
<1>7. /\ \A i \in DOMAIN cmds' : i + 1 \in DOMAIN cmds /\ cmds'[i] = cmds[i + 1]
      /\ \A i \in DOMAIN cmds : i # 1 => i - 1 \in DOMAIN cmds' /\ cmds'[i - 1] = cmds[i]
  BY <1>2, <1>3
<1>8. IF cmds[1].due = 0
      THEN due' = Stopped(cmds[1].timer) /\ Callback(cmds[1].timer)
      ELSE /\ DOMAIN due' = {cmds[1].timer} \cup DOMAIN due
           /\ due'[cmds[1].timer] = cmds[1].due
           /\ \A t \in DOMAIN due : t # cmds[1].timer => due'[t] = due[t]
           /\ UNCHANGED debounced
  <2>1. CASE cmds[1].due = 0
    BY <1>5, <2>1
  <2>2. CASE cmds[1].due # 0
    <3>1. due' = Running(cmds[1].timer, cmds[1].due) /\ UNCHANGED debounced
      BY <1>5, <2>2
    <3>2. /\ DOMAIN due' = {cmds[1].timer} \cup DOMAIN due
          /\ due'[cmds[1].timer] = cmds[1].due
          /\ \A t \in DOMAIN due : t # cmds[1].timer => due'[t] = due[t]
      BY <3>1 DEF Running
    <3> QED BY <2>2, <3>1, <3>2
  <2> QED BY <2>1, <2>2
<1> QED BY <1>1, <1>2, <1>4, <1>6, <1>7, <1>8

(* A tick counts the commands down and leaves their order and timers. *)
LEMMA TickFacts ==
    ASSUME Core, Tick
    PROVE  /\ cmds' \in Seq(Commands) /\ Len(cmds') = Len(cmds) /\ DOMAIN cmds' = DOMAIN cmds
           /\ \A i \in DOMAIN cmds :
                 cmds'[i].timer = cmds[i].timer /\ cmds'[i].due = Lower(cmds[i].due)
<1>1. cmds \in Seq(Commands) /\ cmds' = [i \in DOMAIN cmds |-> [cmds[i] EXCEPT !.due = Lower(@)]]
  BY DEF Core, CmdsOK, Tick
<1>2. Len(cmds) \in Nat /\ DOMAIN cmds = 1 .. Len(cmds) /\ \A i \in DOMAIN cmds : cmds[i] \in Commands
  BY <1>1, LenProperties
<1>3. \A i \in DOMAIN cmds : /\ cmds'[i] \in Commands /\ cmds'[i].timer = cmds[i].timer
                             /\ cmds'[i].due = Lower(cmds[i].due)
  BY <1>1, <1>2 DEF Commands, Lower
<1>4. cmds' \in [1 .. Len(cmds) -> Commands]
  BY <1>1, <1>2, <1>3
<1>5. cmds' \in Seq(Commands)
  BY <1>2, <1>4
<1>6. DOMAIN cmds' = 1 .. Len(cmds) /\ DOMAIN cmds' = 1 .. Len(cmds') /\ Len(cmds') \in Nat
  BY <1>4, <1>5, LenProperties
<1>7. Len(cmds') = Len(cmds)
  BY <1>2, <1>6
<1> QED BY <1>2, <1>3, <1>5, <1>6, <1>7
LEMMA CountFacts ==
    /\ \A n \in Nat : Lower(n) \in Nat /\ Lower(n) <= n /\ n <= Lower(n) + 1 /\ (n > 0 => n = Lower(n) + 1)
    /\ \A n, max \in Nat : AtMost(n, max) \in 0 .. max /\ (AtMost(n, max) = n \/ AtMost(n, max) = max)
BY DEF Lower, AtMost

LEMMA TickCounts ==
    ASSUME Core, Tick
    PROVE  /\ now' \in 0 .. Wrap - 1 /\ heldFor' \in 0 .. Wrap
           /\ edges' \in 0 .. EdgesPerTick /\ lag' \in 0 .. MaxLag /\ quietFor' \in 0 .. Long
           /\ DOMAIN due' = DOMAIN due
           /\ \A t \in DOMAIN due : due'[t] = Lower(due[t]) /\ due'[t] \in 0 .. Period[t]
<1>1. now' \in 0 .. Wrap - 1
  <2>1. now \in 0 .. Wrap - 1
    BY DEF Core
  <2>2. now' = (now + 1) % Wrap
    BY DEF Tick
  <2> QED BY <2>1, <2>2, PeriodFacts
<1>2. heldFor' \in 0 .. Wrap
  <2>1. heldFor + 1 \in Nat /\ heldFor' = IF pressed THEN AtMost(heldFor + 1, Wrap) ELSE 0
    <3>1. heldFor \in 0 .. Wrap
      BY DEF Core
    <3>2. heldFor' = IF pressed THEN AtMost(heldFor + 1, Wrap) ELSE 0
      BY DEF Tick
    <3> QED BY <3>1, <3>2, PeriodFacts
  <2>2. AtMost(heldFor + 1, Wrap) \in 0 .. Wrap
    BY <2>1, CountFacts, PeriodFacts
  <2> QED BY <2>1, <2>2, PeriodFacts
<1>3. edges' \in 0 .. EdgesPerTick /\ quietFor' \in 0 .. Long
  <2>1. quietFor + 1 \in Nat /\ edges' = 0 /\ quietFor' = AtMost(quietFor + 1, Long)
    <3>1. quietFor \in 0 .. Long
      BY DEF Core
    <3>2. edges' = 0 /\ quietFor' = AtMost(quietFor + 1, Long)
      BY DEF Tick
    <3> QED BY <3>1, <3>2, PeriodFacts
  <2>2. AtMost(quietFor + 1, Long) \in 0 .. Long
    BY <2>1, CountFacts, PeriodFacts
  <2> QED BY <2>1, <2>2, PeriodFacts
<1>4. lag' \in 0 .. MaxLag
  <2>1. lag \in 0 .. MaxLag
    BY DEF Core
  <2>2. lag' = 0 \/ (lag < MaxLag /\ lag' = lag + 1)
    BY DEF Tick
  <2> QED BY <2>1, <2>2, PeriodFacts
<1>5. DOMAIN due' = DOMAIN due /\ \A t \in DOMAIN due : due'[t] = Lower(due[t])
  BY DEF Tick
<1>6. \A t \in DOMAIN due : due'[t] \in 0 .. Period[t]
  <2> SUFFICES ASSUME NEW t \in DOMAIN due PROVE due'[t] \in 0 .. Period[t]
    OBVIOUS
  <2>1. due[t] \in 0 .. Period[t] /\ Period[t] \in Nat
    BY PeriodFacts DEF Core
  <2>2. due[t] \in Nat
    BY <2>1
  <2>3. Lower(due[t]) \in Nat /\ Lower(due[t]) <= due[t]
    BY <2>2, CountFacts
  <2>4. due'[t] = Lower(due[t])
    BY <1>5
  <2> QED BY <2>1, <2>3, <2>4
<1> QED BY <1>1, <1>2, <1>3, <1>4, <1>5, <1>6

LEMMA CoreNext == Core /\ [ButtonNext]_buttonVars => Core'
<1> SUFFICES ASSUME Core, [ButtonNext]_buttonVars PROVE Core'
  OBVIOUS
<1>1. CASE Edge
  <2>1. /\ level' \in BOOLEAN /\ irq' \in BOOLEAN /\ edges' \in 0 .. EdgesPerTick
        /\ quietFor' \in 0 .. Long
    BY <1>1, PeriodFacts DEF Edge, Core
  <2> QED BY <1>1, <2>1 DEF Edge, Core, CmdsOK, clockVars, debounced
<1>2. CASE ButtonIsr
  <2>1. CASE cmds' = cmds \o StartTimers /\ Len(cmds) + Len(StartTimers) <= CmdQueueLen
    <3>1. cmds \in Seq(Commands)
      BY DEF Core, CmdsOK
    <3> DEFINE p == cmds \o StartTimers
    <3>2. /\ p \in Seq(Commands) /\ Len(p) = Len(cmds) + 2 /\ Len(cmds) \in Nat
          /\ DOMAIN p = 1 .. Len(p) /\ DOMAIN cmds = 1 .. Len(cmds)
          /\ \A i \in 1 .. Len(cmds) : p[i] = cmds[i]
          /\ p[Len(cmds) + 1] = [timer |-> "debounce", due |-> Debounce]
          /\ p[Len(cmds) + 2] = [timer |-> "long", due |-> Long]
      BY <3>1, PostedFacts, LenProperties
    <3> HIDE DEF p
    <3>3. \A i \in DOMAIN p : p[i].due <= Period[p[i].timer]
      <4> SUFFICES ASSUME NEW i \in DOMAIN p PROVE p[i].due <= Period[p[i].timer]
        OBVIOUS
      <4>1. i \in 1 .. Len(cmds) \/ i = Len(cmds) + 1 \/ i = Len(cmds) + 2
        BY <3>2
      <4> QED BY <3>2, <4>1, PeriodFacts DEF Core, CmdsOK
    <3>4. CmdsOK' /\ Len(cmds') <= CmdQueueLen
      BY <2>1, <3>2, <3>3, StartTimersFacts DEF CmdsOK, p
    <3> QED BY <1>2, <2>1, <3>4 DEF ButtonIsr, Core, clockVars, debounced
  <2>2. CASE panicked' = TRUE /\ UNCHANGED cmds
    BY <1>2, <2>2 DEF ButtonIsr, Core, CmdsOK, clockVars, debounced
  <2> QED BY <1>2, <2>1, <2>2 DEF ButtonIsr
<1>3. CASE Receive
  <2>1. Len(cmds) \in Nat /\ DOMAIN cmds = 1 .. Len(cmds) /\ \A i \in DOMAIN cmds : cmds[i] \in Commands
    BY LenProperties DEF Core, CmdsOK
  <2>2. CmdsOK' /\ Len(cmds') <= CmdQueueLen
    <3>1. /\ cmds' \in Seq(Commands) /\ Len(cmds') = Len(cmds) - 1
          /\ \A i \in DOMAIN cmds' : i + 1 \in DOMAIN cmds /\ cmds'[i] = cmds[i + 1]
      BY <1>3, ReceiveFacts
    <3>2. Len(cmds) <= CmdQueueLen /\ \A i \in DOMAIN cmds : cmds[i].due <= Period[cmds[i].timer]
      BY DEF Core, CmdsOK
    <3> QED BY <2>1, <3>1, <3>2, PeriodFacts DEF CmdsOK
  <2>3. cmds[1].timer \in Timers /\ cmds[1].due \in Nat
    BY <1>3, ReceiveFacts DEF Commands
  <2>4. CASE cmds[1].due = 0
    <3>1. DOMAIN due' \subseteq Timers /\ \A t \in DOMAIN due' : due'[t] \in 0 .. Period[t]
      BY <1>3, <2>4, ReceiveFacts DEF Core, Stopped
    <3> QED
      BY <1>3, <2>2, <2>3, <2>4, <3>1, ReceiveFacts, CallbackType DEF Core, pinVars, clockVars
  <2>5. CASE cmds[1].due # 0
    <3>1. DOMAIN due' \subseteq Timers /\ \A t \in DOMAIN due' : due'[t] \in 0 .. Period[t]
      <4>1. /\ DOMAIN due' = {cmds[1].timer} \cup DOMAIN due /\ due'[cmds[1].timer] = cmds[1].due
            /\ \A t \in DOMAIN due : t # cmds[1].timer => due'[t] = due[t]
            /\ cmds[1].due <= Period[cmds[1].timer]
        BY <1>3, <2>5, ReceiveFacts
      <4>2. DOMAIN due \subseteq Timers /\ \A t \in DOMAIN due : due[t] \in 0 .. Period[t]
        BY DEF Core
      <4>3. \A t \in Timers : Period[t] \in Nat
        BY PeriodFacts
      <4>4. due'[cmds[1].timer] \in 0 .. Period[cmds[1].timer]
        BY <2>3, <4>1, <4>3
      <4> QED BY <2>3, <4>1, <4>2, <4>4
    <3>2. UNCHANGED <<pinVars, clockVars, panicked, debounced>>
      BY <1>3, <2>5, ReceiveFacts
    <3> QED BY <2>2, <3>1, <3>2 DEF Core, pinVars, clockVars, debounced
  <2> QED BY <2>4, <2>5
<1>4. ASSUME NEW t \in Timers, Expire(t) PROVE Core'
  <2>1. DOMAIN due' \subseteq Timers /\ \A u \in DOMAIN due' : due'[u] \in 0 .. Period[u]
    BY <1>4 DEF Expire, Core, Stopped
  <2>2. Callback(t) /\ UNCHANGED <<pinVars, clockVars, cmds, panicked>>
    BY <1>4 DEF Expire
  <2> QED BY <2>1, <2>2, CallbackType DEF Core, CmdsOK, pinVars, clockVars
<1>5. CASE Tick
  <2>1. \A i \in DOMAIN cmds : cmds[i] \in Commands
    BY DEF Core, CmdsOK
  <2>2. CmdsOK' /\ Len(cmds') <= CmdQueueLen
    <3>1. /\ cmds' \in Seq(Commands) /\ Len(cmds') = Len(cmds) /\ DOMAIN cmds' = DOMAIN cmds
          /\ \A i \in DOMAIN cmds :
                cmds'[i].timer = cmds[i].timer /\ cmds'[i].due = Lower(cmds[i].due)
      BY <1>5, TickFacts
    <3>2. Len(cmds) <= CmdQueueLen /\ \A i \in DOMAIN cmds : cmds[i].due <= Period[cmds[i].timer]
      BY DEF Core, CmdsOK
    <3>3. \A i \in DOMAIN cmds : cmds'[i].due <= Period[cmds'[i].timer]
      <4> SUFFICES ASSUME NEW i \in DOMAIN cmds PROVE cmds'[i].due <= Period[cmds'[i].timer]
        OBVIOUS
      <4>1. cmds[i].due \in Nat /\ cmds[i].timer \in Timers
        BY <2>1 DEF Commands
      <4>2. Period[cmds[i].timer] \in Nat
        BY <4>1, PeriodFacts
      <4>3. Lower(cmds[i].due) \in Nat /\ Lower(cmds[i].due) <= cmds[i].due
        BY <4>1, CountFacts
      <4>4. cmds'[i].due = Lower(cmds[i].due) /\ cmds'[i].timer = cmds[i].timer
        BY <3>1
      <4>5. cmds[i].due <= Period[cmds[i].timer]
        BY <3>2
      <4> QED BY <4>1, <4>2, <4>3, <4>4, <4>5
    <3> QED BY <3>1, <3>2, <3>3 DEF CmdsOK
  <2>3. UNCHANGED <<level, irq, pressed, time, longSent, shorts, longs, panicked>>
    BY <1>5 DEF Tick
  <2> QED BY <1>5, <2>2, <2>3, TickCounts DEF Core
<1>6. CASE UNCHANGED buttonVars
  BY <1>6 DEF buttonVars, pinVars, clockVars, debounced, Core, CmdsOK
<1> QED BY <1>1, <1>2, <1>3, <1>4, <1>5, <1>6 DEF ButtonNext, TimerTask

(* The button's state has its type whatever the bounds: a callback, late or  *)
(* run at once, leaves timers and commands in range.                         *)
THEOREM ButtonTypeCorrect == ButtonSpec => []ButtonTypeOK
<1>1. ButtonSpec => []Core
  BY CoreInit, CoreNext, PTL DEF ButtonSpec
<1> QED BY <1>1, CoreType, PTL
-----------------------------------------------------------------------------
(* The timer task's queue holds what the edges of the ticks it may be behind *)
(* can post.                                                                 *)
Room == 2 * (EdgesPerTick * (MaxLag + 1)) <= CmdQueueLen

(* Then no interrupt panics, and none is forgotten: while the debounced state *)
(* is not the pin's, something is on its way to the debouncer.               *)
DebouncePending ==
    irq \/ (\E i \in DOMAIN cmds : cmds[i].timer = "debounce") \/ "debounce" \in DOMAIN due

EdgesServed ==
    /\ ~panicked
    /\ irq => edges > 0
    /\ pressed = level \/ DebouncePending

ServedInv == Core /\ FewCommands /\ EdgesServed

LEMMA FewCommandsNext == Core /\ FewCommands /\ [ButtonNext]_buttonVars => FewCommands'
<1> SUFFICES ASSUME Core, FewCommands, [ButtonNext]_buttonVars PROVE FewCommands'
  OBVIOUS
<1>1. /\ edges \in Nat /\ lag \in Nat /\ EdgesPerTick \in Nat /\ edges <= EdgesPerTick
      /\ cmds \in Seq(Commands) /\ Len(cmds) \in Nat /\ irq \in BOOLEAN
  BY PeriodFacts, LenProperties DEF Core, CmdsOK
<1>2. EdgesPerTick * lag \in Nat
  BY <1>1
<1>3. CASE Edge
  <2>1. irq' = TRUE /\ edges' = edges + 1 /\ lag' = lag /\ cmds' = cmds
    BY <1>3 DEF Edge, clockVars
  <2> QED BY <1>1, <1>2, <2>1 DEF FewCommands
<1>4. CASE ButtonIsr
  <2>1. irq /\ irq' = FALSE /\ edges' = edges /\ lag' = lag
    BY <1>4 DEF ButtonIsr, clockVars
  <2>2. Len(cmds') = Len(cmds) + 2 \/ Len(cmds') = Len(cmds)
    BY <1>1, <1>4, PostedFacts DEF ButtonIsr
  <2> QED BY <1>1, <1>2, <2>1, <2>2 DEF FewCommands
<1>5. CASE Receive
  <2>1. Len(cmds') = Len(cmds) - 1 /\ irq' = irq /\ edges' = edges /\ lag' = lag
    BY <1>5, ReceiveFacts DEF pinVars, clockVars
  <2> QED BY <1>1, <1>2, <2>1 DEF FewCommands
<1>6. ASSUME NEW t \in Timers, Expire(t) PROVE FewCommands'
  BY <1>6 DEF Expire, FewCommands, pinVars, clockVars
<1>7. CASE Tick
  <2>1. Len(cmds') = Len(cmds) /\ ~irq /\ irq' = irq /\ edges' = 0
    BY <1>7, TickFacts DEF Tick
  <2>2. CASE UpToDate
    <3>1. lag' = 0 /\ Len(cmds) = 0
      BY <1>7, <2>2 DEF Tick, UpToDate
    <3>2. EdgesPerTick * lag' = 0
      BY <1>1, <3>1
    <3> QED BY <2>1, <3>1, <3>2 DEF FewCommands
  <2>3. CASE ~UpToDate
    <3>1. lag' = lag + 1
      BY <1>7, <2>3 DEF Tick
    <3>2. EdgesPerTick * lag' = EdgesPerTick * lag + EdgesPerTick
      BY <1>1, <3>1
    <3> QED BY <1>1, <1>2, <2>1, <3>1, <3>2 DEF FewCommands
  <2> QED BY <2>2, <2>3
<1>8. CASE UNCHANGED buttonVars
  BY <1>8 DEF buttonVars, pinVars, clockVars, FewCommands
<1> QED BY <1>3, <1>4, <1>5, <1>6, <1>7, <1>8 DEF ButtonNext, TimerTask

(* The interrupt always finds room. *)
LEMMA IsrHasRoom ==
    ASSUME Room, Core, FewCommands, irq PROVE Len(cmds) + Len(StartTimers) <= CmdQueueLen
<1>1. /\ edges \in Nat /\ lag \in Nat /\ EdgesPerTick \in Nat /\ edges <= EdgesPerTick
      /\ MaxLag \in Nat /\ lag <= MaxLag /\ CmdQueueLen \in Nat /\ Len(cmds) \in Nat
  BY PeriodFacts, LenProperties DEF Core, CmdsOK
<1>2. EdgesPerTick * lag <= EdgesPerTick * MaxLag /\ EdgesPerTick * lag \in Nat
      /\ EdgesPerTick * MaxLag \in Nat
  BY <1>1
<1>3. EdgesPerTick * (MaxLag + 1) = EdgesPerTick * MaxLag + EdgesPerTick
  BY <1>1
<1>4. Len(cmds) + 2 <= 2 * (edges + EdgesPerTick * lag)
  BY DEF FewCommands
<1> QED BY <1>1, <1>2, <1>3, <1>4, StartTimersFacts DEF Room

(* The debounce callback settles the debounced state; the other leaves it. *)
LEMMA CallbackSettles ==
    ASSUME Core, NEW t \in Timers, Callback(t)
    PROVE  IF t = "debounce" THEN pressed' = level ELSE pressed' = pressed
BY PeriodFacts DEF Core, Callback, TaskDebounce, TaskLong, Store, debounced
LEMMA EdgesServedNext ==
    Room /\ ServedInv /\ [ButtonNext]_buttonVars => EdgesServed'
<1> SUFFICES ASSUME Room, ServedInv, [ButtonNext]_buttonVars PROVE EdgesServed'
  OBVIOUS
<1>1. /\ Core /\ FewCommands /\ ~panicked /\ (irq => edges > 0)
      /\ pressed = level \/ DebouncePending
      /\ edges \in Nat /\ cmds \in Seq(Commands) /\ Len(cmds) \in Nat /\ DOMAIN cmds = 1 .. Len(cmds)
  BY PeriodFacts, LenProperties DEF ServedInv, EdgesServed, Core, CmdsOK
<1>2. CASE Edge
  BY <1>1, <1>2 DEF Edge, EdgesServed, DebouncePending
<1>3. CASE ButtonIsr
  <2>1. /\ cmds' = cmds \o StartTimers /\ UNCHANGED panicked /\ irq' = FALSE
        /\ UNCHANGED debounced
    BY <1>1, <1>3, IsrHasRoom DEF ButtonIsr
  <2> DEFINE p == cmds \o StartTimers
  <2>2. p \in Seq(Commands) /\ Len(p) = Len(cmds) + 2 /\ p[Len(cmds) + 1].timer = "debounce"
    BY <1>1, PostedFacts
  <2>3. Len(cmds) + 1 \in DOMAIN p
    BY <1>1, <2>2, LenProperties
  <2> HIDE DEF p
  <2>4. DebouncePending'
    BY <2>1, <2>2, <2>3 DEF DebouncePending, p
  <2> QED BY <1>1, <2>1, <2>4 DEF EdgesServed
<1>4. CASE Receive
  <2>1. UNCHANGED <<level, irq, edges, panicked>>
    BY <1>1, <1>4, ReceiveFacts DEF pinVars
  <2>2. CASE cmds[1].timer = "debounce"
    <3>1. CASE cmds[1].due = 0
      BY <1>1, <1>4, <2>1, <2>2, <3>1, ReceiveFacts, CallbackSettles, PeriodFacts DEF EdgesServed
    <3>2. CASE cmds[1].due # 0
      BY <1>1, <1>4, <2>1, <2>2, <3>2, ReceiveFacts DEF EdgesServed, DebouncePending
    <3> QED BY <3>1, <3>2
  <2>3. CASE cmds[1].timer # "debounce"
    <3>1. cmds[1].timer = "long" /\ "long" \in Timers
      BY <1>1, <1>4, <2>3, ReceiveFacts, PeriodFacts DEF Commands
    <3>2. pressed' = pressed
      BY <1>1, <1>4, <3>1, ReceiveFacts, CallbackSettles DEF debounced
    <3>3. "debounce" \in DOMAIN due => "debounce" \in DOMAIN due'
      BY <1>1, <1>4, <3>1, ReceiveFacts DEF Stopped
    <3>4. ASSUME NEW i \in DOMAIN cmds, cmds[i].timer = "debounce"
          PROVE  \E j \in DOMAIN cmds' : cmds'[j].timer = "debounce"
      BY <1>1, <1>4, <2>3, <3>4, ReceiveFacts
    <3>5. DebouncePending => DebouncePending'
      BY <2>1, <3>3, <3>4 DEF DebouncePending
    <3> QED BY <1>1, <2>1, <3>2, <3>5 DEF EdgesServed
  <2> QED BY <2>2, <2>3
<1>5. ASSUME NEW t \in Timers, Expire(t) PROVE EdgesServed'
  <2>1. Callback(t) /\ due' = Stopped(t) /\ UNCHANGED <<level, irq, edges, cmds, panicked>>
    BY <1>5 DEF Expire, pinVars
  <2>2. CASE t = "debounce"
    BY <1>1, <2>1, <2>2, CallbackSettles DEF EdgesServed
  <2>3. CASE t # "debounce"
    <3>1. pressed' = pressed
      BY <1>1, <2>1, <2>3, CallbackSettles
    <3>2. DebouncePending => DebouncePending'
      BY <2>1, <2>3 DEF DebouncePending, Stopped
    <3> QED BY <1>1, <2>1, <3>1, <3>2 DEF EdgesServed
  <2> QED BY <2>2, <2>3
<1>6. CASE Tick
  <2>1. UNCHANGED <<level, irq, pressed, panicked>> /\ ~irq
    BY <1>6 DEF Tick
  <2>2. DebouncePending => DebouncePending'
    BY <1>1, <1>6, <2>1, TickFacts, TickCounts DEF DebouncePending
  <2> QED BY <1>1, <2>1, <2>2 DEF EdgesServed
<1>7. CASE UNCHANGED buttonVars
  BY <1>1, <1>7
     DEF buttonVars, pinVars, clockVars, debounced, EdgesServed, DebouncePending
<1> QED BY <1>2, <1>3, <1>4, <1>5, <1>6, <1>7 DEF ButtonNext, TimerTask

LEMMA ServedInvariant == Room => (ButtonSpec => []ServedInv)
<1> SUFFICES ASSUME Room PROVE ButtonSpec => []ServedInv
  OBVIOUS
<1>1. ButtonInit => ServedInv
  BY CoreInit DEF ButtonInit, ServedInv, EdgesServed
<1>2. ServedInv /\ [ButtonNext]_buttonVars => ServedInv'
  BY CoreNext, FewCommandsNext, EdgesServedNext DEF ServedInv
<1> QED BY <1>1, <1>2, PTL DEF ButtonSpec

(* No interrupt panics, for every queue that has room for the commands of    *)
(* the edges in the ticks the timer task may be behind (gpio.rs:55).         *)
THEOREM ButtonNeverPanics == Room => (ButtonSpec => []NoIsrPanic)
<1> SUFFICES ASSUME Room PROVE ButtonSpec => []NoIsrPanic
  OBVIOUS
<1>1. ServedInv => NoIsrPanic
  BY DEF ServedInv, EdgesServed, NoIsrPanic
<1> QED BY <1>1, ServedInvariant, PTL

(* Then no bounce, however timed, leaves the debounced state behind the pin. *)
THEOREM ButtonSettles == Room => (ButtonSpec => []SettledAgrees)
<1> SUFFICES ASSUME Room PROVE ButtonSpec => []SettledAgrees
  OBVIOUS
<1>1. ServedInv => SettledAgrees
  BY DEF ServedInv, EdgesServed, DebouncePending, SettledAgrees, UpToDate
<1> QED BY <1>1, ServedInvariant, PTL
-----------------------------------------------------------------------------
(* The long timer against the time without an edge.  Once its last start is  *)
(* received, what is left of it and the quiet time make up the whole hold;   *)
(* until then that holds of the last start in the queue.  The old timer may  *)
(* run on beside it, and expire early.                                       *)
IsLong(i) == i \in DOMAIN cmds /\ cmds[i].timer = "long"
LongPending == irq \/ \E i \in DOMAIN cmds : IsLong(i)

TimerHolds == ~LongPending /\ "long" \in DOMAIN due => due["long"] + quietFor >= Long
LastStartHolds ==
    ~irq => \A i \in DOMAIN cmds :
        IsLong(i) /\ (\A j \in DOMAIN cmds : IsLong(j) => j <= i) => cmds[i].due + quietFor >= Long

HoldInv == TimerHolds /\ LastStartHolds

LEMMA HoldFacts ==
    ASSUME ServedInv
    PROVE  /\ edges \in Nat /\ lag \in Nat /\ quietFor \in Nat /\ quietFor <= Long
           /\ cmds \in Seq(Commands) /\ Len(cmds) \in Nat /\ DOMAIN cmds = 1 .. Len(cmds)
           /\ \A i \in DOMAIN cmds : cmds[i].due \in Nat /\ cmds[i].timer \in Timers
           /\ \A t \in DOMAIN due : due[t] \in Nat
           /\ Long \in Nat /\ 0 < Long
<1>1. Core
  BY DEF ServedInv
<1>2. edges \in Nat /\ lag \in Nat /\ quietFor \in Nat /\ quietFor <= Long
  BY <1>1, PeriodFacts DEF Core
<1>3. cmds \in Seq(Commands) /\ Len(cmds) \in Nat /\ DOMAIN cmds = 1 .. Len(cmds)
  BY <1>1, LenProperties DEF Core, CmdsOK
<1>4. \A i \in DOMAIN cmds : cmds[i].due \in Nat /\ cmds[i].timer \in Timers
  <2>1. \A i \in DOMAIN cmds : cmds[i] \in Commands
    BY <1>3
  <2> QED BY <2>1 DEF Commands
<1>5. \A t \in DOMAIN due : due[t] \in Nat
  BY <1>1, PeriodFacts DEF Core
<1> QED BY <1>2, <1>3, <1>4, <1>5, PeriodFacts

LEMMA EdgeHolds == ASSUME ServedInv, HoldInv, Edge PROVE HoldInv'
<1>1. irq' = TRUE
  BY DEF Edge
<1> QED BY <1>1 DEF HoldInv, TimerHolds, LastStartHolds, LongPending

LEMMA IsrHolds == ASSUME Room, ServedInv, HoldInv, ButtonIsr PROVE HoldInv'
<1> DEFINE p == cmds \o StartTimers
           n == Len(cmds)
<1>1. /\ p \in Seq(Commands) /\ Len(p) = n + 2 /\ n \in Nat /\ DOMAIN cmds = 1 .. n
      /\ DOMAIN p = 1 .. n + 2
      /\ \A i \in 1 .. n : p[i] = cmds[i]
      /\ p[n + 1] = [timer |-> "debounce", due |-> Debounce]
      /\ p[n + 2] = [timer |-> "long", due |-> Long]
  BY HoldFacts, PostedFacts, LenProperties
<1>2. cmds' = p /\ irq' = FALSE /\ UNCHANGED <<due, lag, edges, quietFor>>
  BY IsrHasRoom DEF ButtonIsr, ServedInv, EdgesServed, clockVars
<1> HIDE DEF p, n
<1>3. n + 2 \in DOMAIN p /\ p[n + 2].timer = "long" /\ p[n + 2].due = Long
  BY <1>1
<1>4. LongPending'
  BY <1>2, <1>3 DEF LongPending, IsLong
<1>5. TimerHolds'
  BY <1>4 DEF TimerHolds
<1>6. LastStartHolds'
  <2> SUFFICES ASSUME NEW i \in DOMAIN p, \A j \in DOMAIN p : p[j].timer = "long" => j <= i
               PROVE  p[i].due + quietFor >= Long
    BY <1>2 DEF LastStartHolds, IsLong
  <2>1. i = n + 2
    BY <1>1, <1>3
  <2> QED BY <1>3, <2>1, HoldFacts
<1> QED BY <1>5, <1>6 DEF HoldInv

LEMMA ExpireHolds ==
    ASSUME ServedInv, HoldInv, NEW t \in Timers, Expire(t) PROVE HoldInv'
<1>1. due' = Stopped(t) /\ UNCHANGED <<irq, edges, lag, quietFor, cmds>>
  BY DEF Expire, pinVars, clockVars
<1>2. \A u \in DOMAIN due' : u \in DOMAIN due /\ due'[u] = due[u]
  BY <1>1 DEF Stopped
<1> QED
  BY <1>1, <1>2
     DEF HoldInv, TimerHolds, LastStartHolds, LongPending, IsLong

LEMMA ReceiveHolds == ASSUME ServedInv, HoldInv, Receive PROVE HoldInv'
<1>1. UNCHANGED <<irq, quietFor>>
  BY ReceiveFacts DEF ServedInv, pinVars, clockVars
<1>2. /\ 1 \in DOMAIN cmds
      /\ \A i \in DOMAIN cmds' : i + 1 \in DOMAIN cmds /\ cmds'[i] = cmds[i + 1]
      /\ \A i \in DOMAIN cmds : i # 1 => i - 1 \in DOMAIN cmds' /\ cmds'[i - 1] = cmds[i]
      /\ DOMAIN cmds' \subseteq Nat /\ DOMAIN cmds \subseteq Nat
  <2>1. cmds # <<>> /\ cmds' \in Seq(Commands)
    BY ReceiveFacts DEF ServedInv
  <2>2. 1 \in DOMAIN cmds /\ DOMAIN cmds \subseteq Nat
    BY <2>1, HoldFacts, EmptySeq
  <2>3. DOMAIN cmds' \subseteq Nat
    BY <2>1, LenProperties
  <2> QED BY <2>2, <2>3, ReceiveFacts DEF ServedInv
<1>3. IF cmds[1].timer = "long" /\ cmds[1].due # 0
      THEN "long" \in DOMAIN due' /\ due'["long"] = cmds[1].due
      ELSE "long" \in DOMAIN due' => "long" \in DOMAIN due /\ due'["long"] = due["long"]
                                    /\ cmds[1].timer # "long"
  BY ReceiveFacts DEF ServedInv, Stopped
<1>4. TimerHolds'
  <2> SUFFICES ASSUME ~LongPending', "long" \in DOMAIN due' PROVE due'["long"] + quietFor >= Long
    BY <1>1 DEF TimerHolds
  <2>1. ~irq /\ \A i \in DOMAIN cmds : IsLong(i) => i = 1
    BY <1>1, <1>2 DEF LongPending, IsLong
  <2>2. CASE cmds[1].timer = "long"
    <3>1. cmds[1].due + quietFor >= Long
      BY <1>2, <2>1, <2>2 DEF HoldInv, LastStartHolds, IsLong
    <3> QED BY <1>3, <2>2, <3>1
  <2>3. CASE cmds[1].timer # "long"
    <3>1. ~LongPending
      BY <2>1, <2>3 DEF LongPending, IsLong
    <3> QED BY <1>3, <2>3, <3>1 DEF HoldInv, TimerHolds
  <2> QED BY <2>2, <2>3
<1>5. LastStartHolds'
  <2> SUFFICES ASSUME ~irq, NEW i \in DOMAIN cmds', cmds'[i].timer = "long",
                      \A j \in DOMAIN cmds' : cmds'[j].timer = "long" => j <= i
               PROVE  cmds'[i].due + quietFor >= Long
    BY <1>1 DEF LastStartHolds, IsLong
  <2>1. i + 1 \in DOMAIN cmds /\ cmds'[i] = cmds[i + 1] /\ i \in Nat
    BY <1>2
  <2>2. ASSUME NEW j \in DOMAIN cmds, cmds[j].timer = "long" PROVE j <= i + 1
    <3>1. CASE j = 1
      BY <2>1, <3>1
    <3>2. CASE j # 1
      <4>1. j - 1 \in DOMAIN cmds' /\ cmds'[j - 1].timer = "long" /\ j \in Nat
        BY <1>2, <2>2, <3>2
      <4>2. j - 1 <= i
        BY <4>1
      <4> QED BY <2>1, <4>1, <4>2
    <3> QED BY <3>1, <3>2
  <2>3. cmds[i + 1].due + quietFor >= Long
    BY <2>1, <2>2 DEF HoldInv, LastStartHolds, IsLong
  <2> QED BY <2>1, <2>3
<1> QED BY <1>4, <1>5 DEF HoldInv

(* After a tick what was counted down is made up by the time that is counted. *)
LEMMA TickTrades ==
    ASSUME ServedInv, Tick, NEW d \in Nat, d + quietFor >= Long
    PROVE  Lower(d) + quietFor' >= Long
<1>1. Lower(d) \in Nat /\ d <= Lower(d) + 1
  BY CountFacts
<1>2. quietFor + 1 \in Nat /\ quietFor \in Nat /\ Long \in Nat
  BY HoldFacts
<1>3. quietFor' = quietFor + 1 \/ quietFor' = Long
  BY <1>2, CountFacts DEF Tick
<1>4. CASE quietFor' = quietFor + 1
  BY <1>1, <1>2, <1>4
<1>5. CASE quietFor' = Long
  BY <1>1, <1>2, <1>5
<1> QED BY <1>3, <1>4, <1>5

LEMMA TickHolds == ASSUME ServedInv, HoldInv, Tick PROVE HoldInv'
<1>1. /\ ~irq /\ irq' = irq
      /\ DOMAIN cmds' = DOMAIN cmds /\ DOMAIN due' = DOMAIN due
      /\ \A i \in DOMAIN cmds : cmds'[i].timer = cmds[i].timer /\ cmds'[i].due = Lower(cmds[i].due)
      /\ \A t \in DOMAIN due : due'[t] = Lower(due[t])
  BY TickFacts, TickCounts DEF Tick, ServedInv
<1>2. TimerHolds'
  <2> SUFFICES ASSUME ~LongPending, "long" \in DOMAIN due
               PROVE  Lower(due["long"]) + quietFor' >= Long
    BY <1>1 DEF TimerHolds, LongPending, IsLong
  <2>1. due["long"] \in Nat /\ due["long"] + quietFor >= Long
    BY HoldFacts DEF HoldInv, TimerHolds
  <2> QED BY <2>1, TickTrades
<1>3. LastStartHolds'
  <2> SUFFICES ASSUME NEW i \in DOMAIN cmds, IsLong(i), \A j \in DOMAIN cmds : IsLong(j) => j <= i
               PROVE  Lower(cmds[i].due) + quietFor' >= Long
    BY <1>1 DEF LastStartHolds, IsLong
  <2>1. cmds[i].due \in Nat /\ cmds[i].due + quietFor >= Long
    BY <1>1, HoldFacts DEF HoldInv, LastStartHolds
  <2> QED BY <2>1, TickTrades
<1> QED BY <1>2, <1>3 DEF HoldInv

LEMMA HoldNext == Room /\ ServedInv /\ HoldInv /\ [ButtonNext]_buttonVars => HoldInv'
<1> SUFFICES ASSUME Room, ServedInv, HoldInv, [ButtonNext]_buttonVars PROVE HoldInv'
  OBVIOUS
<1>1. CASE UNCHANGED buttonVars
  BY <1>1
     DEF buttonVars, pinVars, clockVars, HoldInv, TimerHolds, LastStartHolds, LongPending, IsLong
<1> QED
  BY <1>1, EdgeHolds, IsrHolds, ExpireHolds, ReceiveHolds, TickHolds DEF ButtonNext, TimerTask

LEMMA OnlyLongReports ==
    ASSUME NEW t, Callback(t), longs' # longs PROVE t # "debounce" /\ level
BY DEF Callback, TaskDebounce, TaskLong, Store, debounced

(* A long press is reported only of a button that has been down, without an  *)
(* edge, for the whole time, or while a later edge has not reached the timer *)
(* task (that is the race of run button_race): for every duration, rate of   *)
(* bouncing and delay of the timer task that does not overflow its queue     *)
(* (gpio.rs:40, 56).                                                         *)
THEOREM ButtonLongNeedsHold == Room => (ButtonSpec => LongNeedsHold)
<1> SUFFICES ASSUME Room PROVE ButtonSpec => LongNeedsHold
  OBVIOUS
<1>1. ButtonInit => HoldInv
  <2> SUFFICES ASSUME ButtonInit PROVE HoldInv
    OBVIOUS
  <2>1. DOMAIN cmds = {} /\ DOMAIN due = {}
    BY DEF ButtonInit
  <2> QED BY <2>1 DEF HoldInv, TimerHolds, LastStartHolds
<1>2. ButtonSpec => []HoldInv
  BY <1>1, HoldNext, ServedInvariant, PTL DEF ButtonSpec
<1>3. ServedInv /\ HoldInv /\ [ButtonNext]_buttonVars
      => [longs' # longs => level /\ (quietFor >= Long \/ irq \/ cmds' # <<>>)]_buttonVars
  <2> SUFFICES ASSUME ServedInv, HoldInv, ButtonNext, longs' # longs
               PROVE  level /\ (~irq /\ cmds' = <<>> => quietFor >= Long)
    OBVIOUS
  <2>1. ~Edge /\ ~ButtonIsr /\ ~Tick
    BY DEF Edge, ButtonIsr, Tick, debounced
  <2>2. ASSUME NEW t \in Timers, Expire(t) PROVE level /\ (~irq /\ cmds' = <<>> => quietFor >= Long)
    <3>1. Callback(t) /\ t \in DOMAIN due /\ due[t] = 0 /\ cmds' = cmds
      BY <2>2 DEF Expire
    <3>2. t = "long" /\ level
      BY <3>1, OnlyLongReports, PeriodFacts
    <3>3. ~irq /\ cmds = <<>> => ~LongPending
      BY DEF LongPending
    <3> QED BY <3>1, <3>2, <3>3, HoldFacts DEF HoldInv, TimerHolds
  <2>3. CASE Receive
    <3>1. cmds[1].due = 0 /\ Callback(cmds[1].timer)
      BY <2>3, ReceiveFacts DEF ServedInv, debounced
    <3>2. 1 \in DOMAIN cmds /\ cmds[1].timer = "long" /\ level
      <4>1. cmds # <<>> /\ cmds[1].timer \in Timers
        BY <2>3, ReceiveFacts DEF ServedInv, Commands
      <4> QED BY <3>1, <4>1, OnlyLongReports, PeriodFacts, HoldFacts, EmptySeq
    <3>3. ASSUME ~irq, cmds' = <<>> PROVE quietFor >= Long
      <4>1. Len(cmds) = 1
        BY <2>3, <3>3, ReceiveFacts, HoldFacts DEF ServedInv
      <4>2. \A j \in DOMAIN cmds : j <= 1
        BY <4>1, HoldFacts
      <4> QED BY <3>1, <3>2, <3>3, <4>2, HoldFacts DEF HoldInv, LastStartHolds, IsLong
    <3> QED BY <3>2, <3>3
  <2> QED BY <2>1, <2>2, <2>3 DEF ButtonNext, TimerTask
<1> QED BY <1>2, <1>3, ServedInvariant, PTL DEF ButtonSpec, LongNeedsHold
-----------------------------------------------------------------------------
(* While a button is held, the tick counts tell how long, up to a whole      *)
(* round of the counter.  That is never reached: the edge that ends a press  *)
(* comes before PressLimit, and the debouncer follows it in time.            *)
LastHeld == PressLimit - 1 + Debounce
EndsInTime(d, held, late) ==
    IF d > 0 THEN held + d <= LastHeld ELSE held <= LastHeld + late
TimeTold == now = time + heldFor \/ now + Wrap = time + heldFor
IsDebounce(i) == i \in DOMAIN cmds /\ cmds[i].timer = "debounce"

TimeInv ==
    pressed =>
        /\ heldFor < Wrap => TimeTold
        /\ irq => heldFor < PressLimit
        /\ \A i \in DOMAIN cmds : IsDebounce(i) => EndsInTime(cmds[i].due, heldFor, lag)
        /\ "debounce" \in DOMAIN due => EndsInTime(due["debounce"], heldFor, lag)

LEMMA LimitFacts ==
    /\ PressLimit \in Nat /\ LastHeld \in Nat /\ Short \in Nat /\ Long \in Nat
    /\ Debounce \in Nat /\ Debounce <= LastHeld /\ LastHeld = PressLimit - 1 + Debounce
    /\ LastHeld + MaxLag < Wrap /\ Long < Wrap /\ PressLimit < Wrap
    /\ Debounce < Short /\ Short + Debounce <= Long
BY ButtonAssumption DEF ButtonAssumption, PressLimit, LastHeld

LEMMA HeldFacts ==
    ASSUME Core
    PROVE  /\ pressed \in BOOLEAN /\ level \in BOOLEAN /\ irq \in BOOLEAN /\ longSent \in BOOLEAN
           /\ heldFor \in Nat /\ heldFor <= Wrap /\ now \in 0 .. Wrap - 1 /\ time \in 0 .. Wrap - 1
           /\ lag \in Nat /\ lag <= MaxLag /\ MaxLag \in Nat
           /\ shorts \in 0 .. 1 /\ longs \in 0 .. 1
           /\ cmds \in Seq(Commands) /\ Len(cmds) \in Nat /\ DOMAIN cmds = 1 .. Len(cmds)
           /\ \A i \in DOMAIN cmds : /\ cmds[i].due \in Nat /\ cmds[i].timer \in Timers
                                     /\ cmds[i].due <= Period[cmds[i].timer]
           /\ DOMAIN due \subseteq Timers
           /\ \A t \in DOMAIN due : due[t] \in Nat /\ due[t] <= Period[t]
<1>1. heldFor \in Nat /\ heldFor <= Wrap /\ lag \in Nat /\ lag <= MaxLag /\ MaxLag \in Nat
  BY PeriodFacts DEF Core
<1>2. cmds \in Seq(Commands) /\ Len(cmds) \in Nat /\ DOMAIN cmds = 1 .. Len(cmds)
  BY LenProperties DEF Core, CmdsOK
<1>3. \A i \in DOMAIN cmds : cmds[i].due \in Nat /\ cmds[i].timer \in Timers
  <2>1. \A i \in DOMAIN cmds : cmds[i] \in Commands
    BY <1>2
  <2> QED BY <2>1 DEF Commands
<1>4. \A t \in DOMAIN due : due[t] \in Nat /\ due[t] <= Period[t]
  BY PeriodFacts DEF Core
<1>5. DOMAIN due \subseteq Timers /\ \A i \in DOMAIN cmds : cmds[i].due <= Period[cmds[i].timer]
  BY DEF Core, CmdsOK
<1>6. /\ now \in 0 .. Wrap - 1 /\ time \in 0 .. Wrap - 1 /\ shorts \in 0 .. 1 /\ longs \in 0 .. 1
      /\ pressed \in BOOLEAN /\ level \in BOOLEAN /\ irq \in BOOLEAN /\ longSent \in BOOLEAN
  BY DEF Core
<1> QED BY <1>1, <1>2, <1>3, <1>4, <1>5, <1>6

(* A callback stores a press or a release, or leaves the debounced state.    *)
LEMMA CallbackStores ==
    ASSUME Core, NEW t \in Timers, Callback(t)
    PROVE  \/ UNCHANGED debounced
           \/ /\ t = "debounce" /\ level /\ ~pressed /\ Store
              /\ longSent' = FALSE /\ UNCHANGED <<shorts, longs>>
           \/ /\ t = "debounce" /\ ~level /\ pressed /\ Store
              /\ shorts' = IF Elapsed < Short THEN 1 - shorts ELSE shorts
              /\ UNCHANGED <<longs, longSent>>
           \/ /\ t = "long" /\ level /\ longs' = 1 - longs /\ longSent' = TRUE
              /\ UNCHANGED <<pressed, time, heldFor, shorts>>
<1>1. CASE t = "debounce"
  <2>1. TaskDebounce
    BY <1>1 DEF Callback
  <2> QED BY <1>1, <2>1 DEF TaskDebounce
<1>2. CASE t = "long"
  <2>1. TaskLong
    BY <1>2 DEF Callback
  <2> QED BY <1>2, <2>1 DEF TaskLong
<1> QED BY <1>1, <1>2, PeriodFacts

(* A press just stored is well before its limit. *)
LEMMA FreshPress ==
    ASSUME Core, heldFor' = 0, lag' = lag, NEW d \in Nat, d <= Debounce
    PROVE  EndsInTime(d, heldFor', lag')
BY HeldFacts, LimitFacts DEF EndsInTime

(* What a callback, and the commands and timers that remain, leave of it.    *)
LEMMA CallbackKeepsTime ==
    ASSUME Core, TimeInv, UNCHANGED clockVars, UNCHANGED irq,
           UNCHANGED debounced \/ \E t \in Timers : Callback(t),
           \A i \in DOMAIN cmds' : \E j \in DOMAIN cmds : cmds'[i] = cmds[j],
           "debounce" \in DOMAIN due' =>
              \/ "debounce" \in DOMAIN due /\ due'["debounce"] = due["debounce"]
              \/ \E j \in DOMAIN cmds : IsDebounce(j) /\ due'["debounce"] = cmds[j].due
    PROVE  TimeInv'
<1> DEFINE Cmd(d) == \E j \in DOMAIN cmds : IsDebounce(j) /\ d = cmds[j].due
           Tim(d) == "debounce" \in DOMAIN due /\ d = due["debounce"]
<1>1. lag' = lag /\ now' = now
  BY DEF clockVars
<1>2. /\ \A i \in DOMAIN cmds' : IsDebounce(i)' => Cmd(cmds'[i].due)
      /\ "debounce" \in DOMAIN due' => Tim(due'["debounce"]) \/ Cmd(due'["debounce"])
  BY DEF IsDebounce
<1>3. \A d : Cmd(d) \/ Tim(d) => d \in Nat /\ d <= Debounce
  BY HeldFacts, PeriodFacts DEF IsDebounce
<1>4. pressed => \A d : Cmd(d) \/ Tim(d) => EndsInTime(d, heldFor, lag)
  BY DEF TimeInv
<1>5. CASE UNCHANGED <<pressed, time, heldFor>>
  <2>1. heldFor' = heldFor /\ pressed' = pressed
    BY <1>5
  <2>2. pressed => /\ \A i \in DOMAIN cmds' : IsDebounce(i)' => EndsInTime(cmds'[i].due, heldFor, lag)
                   /\ "debounce" \in DOMAIN due' => EndsInTime(due'["debounce"], heldFor, lag)
    BY <1>2, <1>4
  <2>3. pressed => (heldFor < Wrap => TimeTold) /\ (irq => heldFor < PressLimit)
    BY DEF TimeInv
  <2>4. TimeTold => TimeTold'
    BY <1>1, <1>5 DEF TimeTold
  <2> HIDE DEF Cmd, Tim
  <2> QED BY <1>1, <2>1, <2>2, <2>3, <2>4 DEF TimeInv
<1>6. CASE Store
  <2>1. heldFor' = 0 /\ time' = now
    BY <1>6 DEF Store
  <2>2. \A d : Cmd(d) \/ Tim(d) => EndsInTime(d, heldFor', lag')
    BY <1>1, <1>3, <2>1, FreshPress
  <2>3. TimeTold' /\ heldFor' < PressLimit
    BY <1>1, <2>1, HeldFacts, LimitFacts, PeriodFacts, ButtonAssumption
       DEF TimeTold, ButtonAssumption
  <2> HIDE DEF Cmd, Tim
  <2>4. /\ \A i \in DOMAIN cmds' : IsDebounce(i)' => EndsInTime(cmds'[i].due, heldFor', lag')
        /\ "debounce" \in DOMAIN due' => EndsInTime(due'["debounce"], heldFor', lag')
    BY <1>2, <2>2
  <2> QED BY <2>1, <2>3, <2>4 DEF TimeInv
<1>7. UNCHANGED <<pressed, time, heldFor>> \/ Store
  BY CallbackStores DEF debounced
<1> QED BY <1>5, <1>6, <1>7

(* A count of less than a round, and one of a round more. *)
LEMMA WrapFacts ==
    \A n \in Nat : n < Wrap => n % Wrap = n /\ (n + Wrap) % Wrap = n /\ Wrap % Wrap = 0
<1> SUFFICES ASSUME NEW n \in Nat, n < Wrap
             PROVE  n % Wrap = n /\ (n + Wrap) % Wrap = n /\ Wrap % Wrap = 0
  OBVIOUS
<1>1. Wrap \in Nat /\ 0 < Wrap
  BY PeriodFacts
<1>2. n % Wrap = n
  BY <1>1
<1>3. (n + Wrap) % Wrap = n
  BY <1>1
<1>4. Wrap % Wrap = 0
  BY <1>1
<1> QED BY <1>2, <1>3, <1>4

(* A tick brings the end of a press no further away. *)
LEMMA EndsSooner ==
    ASSUME NEW d \in Nat, NEW h \in Nat, NEW k \in Nat, k <= h + 1,
           NEW l \in Nat, NEW m \in Nat, d = 0 => m = l + 1, EndsInTime(d, h, l)
    PROVE  EndsInTime(Lower(d), k, m)
<1>1. LastHeld \in Nat
  BY LimitFacts
<1>2. CASE d = 0
  BY <1>1, <1>2 DEF EndsInTime, Lower
<1>3. CASE d > 0
  <2>1. Lower(d) = d - 1 /\ h + d <= LastHeld
    BY <1>3 DEF EndsInTime, Lower
  <2>2. k + (d - 1) <= LastHeld /\ k <= LastHeld + m
    BY <1>1, <1>3, <2>1
  <2> QED BY <2>1, <2>2 DEF EndsInTime
<1> QED BY <1>2, <1>3

LEMMA TickKeepsTime == ASSUME Core, TimeInv, Tick PROVE TimeInv'
<1> SUFFICES ASSUME pressed PROVE TimeInv'
  BY DEF Tick, TimeInv
<1>1. /\ heldFor' = AtMost(heldFor + 1, Wrap) /\ now' = (now + 1) % Wrap /\ time' = time
      /\ ~irq' /\ pressed' /\ lag' = IF UpToDate THEN 0 ELSE lag + 1
  BY DEF Tick
<1>2. heldFor' \in Nat /\ heldFor' <= heldFor + 1 /\ (heldFor' < Wrap => heldFor' = heldFor + 1)
  BY <1>1, HeldFacts, PeriodFacts DEF AtMost
<1>3. heldFor' < Wrap => TimeTold'
  <2> SUFFICES ASSUME heldFor' < Wrap PROVE TimeTold'
    OBVIOUS
  <2>1. heldFor' = heldFor + 1 /\ heldFor < Wrap /\ TimeTold
    <3>1. heldFor' = heldFor + 1 /\ heldFor < Wrap
      BY <1>2, HeldFacts, PeriodFacts
    <3> QED BY <3>1 DEF TimeInv
  <2>2. now' = IF now = Wrap - 1 THEN 0 ELSE now + 1
    <3>1. now + 1 \in Nat /\ now + 1 <= Wrap
      BY HeldFacts, PeriodFacts
    <3>2. CASE now = Wrap - 1
      <4>1. now + 1 = Wrap /\ Wrap % Wrap = 0
        BY <3>2, WrapFacts, PeriodFacts
      <4> QED BY <1>1, <3>2, <4>1
    <3>3. CASE now # Wrap - 1
      <4>1. now + 1 < Wrap
        BY <3>1, <3>3, HeldFacts, PeriodFacts
      <4>2. (now + 1) % Wrap = now + 1
        BY <3>1, <4>1, WrapFacts
      <4> QED BY <1>1, <3>3, <4>2
    <3> QED BY <3>2, <3>3
  <2>3. now \in Nat /\ now < Wrap /\ time \in Nat /\ time < Wrap /\ heldFor \in Nat /\ Wrap \in Nat
    BY HeldFacts, PeriodFacts
  <2> QED BY <1>1, <2>1, <2>2, <2>3 DEF TimeTold
<1>4. ASSUME NEW d \in Nat, EndsInTime(d, heldFor, lag), d = 0 => ~UpToDate
      PROVE  EndsInTime(Lower(d), heldFor', lag')
  <2>1. lag \in Nat /\ heldFor \in Nat
    BY HeldFacts
  <2>2. lag' \in Nat /\ (d = 0 => lag' = lag + 1)
    BY <1>1, <1>4, <2>1
  <2> QED BY <1>2, <1>4, <2>1, <2>2, EndsSooner
<1>5. \A i \in DOMAIN cmds' : IsDebounce(i)' => EndsInTime(cmds'[i].due, heldFor', lag')
  <2> SUFFICES ASSUME NEW i \in DOMAIN cmds', IsDebounce(i)' PROVE EndsInTime(cmds'[i].due, heldFor', lag')
    OBVIOUS
  <2>1. i \in DOMAIN cmds /\ IsDebounce(i) /\ cmds'[i].due = Lower(cmds[i].due) /\ ~UpToDate
    BY TickFacts, HeldFacts DEF IsDebounce, UpToDate
  <2>2. EndsInTime(cmds[i].due, heldFor, lag) /\ cmds[i].due \in Nat
    BY <2>1, HeldFacts DEF TimeInv
  <2> QED BY <1>4, <2>1, <2>2
<1>6. "debounce" \in DOMAIN due' => EndsInTime(due'["debounce"], heldFor', lag')
  <2> SUFFICES ASSUME "debounce" \in DOMAIN due' PROVE EndsInTime(due'["debounce"], heldFor', lag')
    OBVIOUS
  <2>1. /\ "debounce" \in DOMAIN due /\ due'["debounce"] = Lower(due["debounce"])
        /\ due["debounce"] = 0 => ~UpToDate
    BY TickCounts DEF UpToDate
  <2>2. EndsInTime(due["debounce"], heldFor, lag) /\ due["debounce"] \in Nat
    BY <2>1, HeldFacts DEF TimeInv
  <2> QED BY <1>4, <2>1, <2>2
<1> QED BY <1>1, <1>3, <1>5, <1>6 DEF TimeInv

LEMMA TimeNext == Core /\ TimeInv /\ [ButtonNext]_buttonVars => TimeInv'
<1> SUFFICES ASSUME Core, TimeInv, [ButtonNext]_buttonVars PROVE TimeInv'
  OBVIOUS
<1>1. CASE Edge \/ UNCHANGED buttonVars
  <2>1. /\ UNCHANGED <<now, lag, debounced, cmds, due>>
        /\ irq' /\ pressed => irq \/ heldFor < PressLimit
    BY <1>1 DEF Edge, buttonVars, pinVars, clockVars
  <2> QED BY <2>1 DEF TimeInv, TimeTold, IsDebounce, debounced
<1>2. CASE ButtonIsr
  <2>1. irq /\ irq' = FALSE /\ UNCHANGED <<clockVars, debounced, due>>
    BY <1>2 DEF ButtonIsr
  <2>2. UNCHANGED <<now, lag, pressed, time, heldFor, due>>
    BY <2>1 DEF clockVars, debounced
  <2>3. pressed => heldFor < PressLimit
    BY <2>1 DEF TimeInv
  <2>4. \A i \in DOMAIN cmds' : IsDebounce(i)' =>
           (IsDebounce(i) /\ cmds'[i] = cmds[i]) \/ cmds'[i].due = Debounce
    <3>1. CASE cmds' = cmds
      BY <3>1 DEF IsDebounce
    <3>2. CASE cmds' = cmds \o StartTimers
      <4> DEFINE p == cmds \o StartTimers
                 n == Len(cmds)
      <4>1. /\ DOMAIN p = 1 .. n + 2 /\ \A i \in 1 .. n : p[i] = cmds[i]
            /\ p[n + 1].due = Debounce /\ p[n + 2].timer = "long"
            /\ n \in Nat /\ DOMAIN cmds = 1 .. n
        BY HeldFacts, PostedFacts, LenProperties
      <4>3. cmds' = p
        BY <3>2
      <4> HIDE DEF p, n
      <4>2. \A i \in DOMAIN p : i \in 1 .. n \/ i = n + 1 \/ i = n + 2
        BY <4>1
      <4> QED BY <4>1, <4>2, <4>3 DEF IsDebounce
    <3> QED BY <1>2, <3>1, <3>2 DEF ButtonIsr
  <2>5. pressed => EndsInTime(Debounce, heldFor, lag)
    BY <2>3, HeldFacts, LimitFacts, PeriodFacts DEF EndsInTime
  <2>6. pressed => /\ \A i \in DOMAIN cmds' : IsDebounce(i)' => EndsInTime(cmds'[i].due, heldFor, lag)
                   /\ "debounce" \in DOMAIN due => EndsInTime(due["debounce"], heldFor, lag)
                   /\ heldFor < Wrap => TimeTold
    <3> SUFFICES ASSUME pressed
                 PROVE  \A i \in DOMAIN cmds' : IsDebounce(i)' => EndsInTime(cmds'[i].due, heldFor, lag)
      BY DEF TimeInv
    <3>1. \A i \in DOMAIN cmds : IsDebounce(i) => EndsInTime(cmds[i].due, heldFor, lag)
      BY DEF TimeInv
    <3>2. \A i : IsDebounce(i) => i \in DOMAIN cmds
      BY DEF IsDebounce
    <3> QED BY <2>4, <2>5, <3>1, <3>2
  <2>7. TimeTold => TimeTold'
    BY <2>2 DEF TimeTold
  <2> QED BY <2>1, <2>2, <2>6, <2>7 DEF TimeInv
<1>3. CASE Receive
  <2>1. /\ UNCHANGED <<clockVars, irq>> /\ cmds[1].timer \in Timers /\ 1 \in DOMAIN cmds
        /\ UNCHANGED debounced \/ Callback(cmds[1].timer)
        /\ \A i \in DOMAIN cmds' : i + 1 \in DOMAIN cmds /\ cmds'[i] = cmds[i + 1]
    <3>1. cmds # <<>> /\ cmds[1] \in Commands
      BY <1>3, ReceiveFacts
    <3>2. 1 \in DOMAIN cmds
      BY <3>1, HeldFacts, EmptySeq
    <3> QED BY <1>3, <3>1, <3>2, ReceiveFacts DEF Commands, pinVars
  <2>2. "debounce" \in DOMAIN due' =>
              \/ "debounce" \in DOMAIN due /\ due'["debounce"] = due["debounce"]
              \/ IsDebounce(1) /\ due'["debounce"] = cmds[1].due
    <3>1. CASE cmds[1].due = 0
      BY <1>3, <3>1, ReceiveFacts DEF Stopped
    <3>2. CASE cmds[1].due # 0
      BY <1>3, <2>1, <3>2, ReceiveFacts DEF IsDebounce
    <3> QED BY <3>1, <3>2
  <2> QED BY <2>1, <2>2, CallbackKeepsTime
<1>4. ASSUME NEW t \in Timers, Expire(t) PROVE TimeInv'
  <2>1. /\ UNCHANGED <<clockVars, irq, cmds>> /\ Callback(t)
        /\ \A u \in DOMAIN due' : u \in DOMAIN due /\ due'[u] = due[u]
    BY <1>4 DEF Expire, Stopped, pinVars
  <2> QED BY <2>1, CallbackKeepsTime
<1>5. CASE Tick
  BY <1>5, TickKeepsTime
<1> QED BY <1>1, <1>2, <1>3, <1>4, <1>5 DEF ButtonNext, TimerTask

LEMMA CoreAndTime == ButtonSpec => [](Core /\ TimeInv)
<1>1. ButtonInit => Core /\ TimeInv
  BY CoreInit DEF ButtonInit, TimeInv
<1> QED BY <1>1, CoreNext, TimeNext, PTL DEF ButtonSpec

(* When a press ends, the difference of the tick counts is its duration.     *)
LEMMA ElapsedIsHeld ==
    ASSUME Core, TimeInv, pressed,
           \/ IsDebounce(1) /\ cmds[1].due = 0
           \/ "debounce" \in DOMAIN due /\ due["debounce"] = 0
    PROVE  Elapsed = heldFor
<1>1. EndsInTime(0, heldFor, lag)
  BY DEF TimeInv, IsDebounce
<1>2. heldFor < Wrap
  BY <1>1, HeldFacts, LimitFacts, PeriodFacts DEF EndsInTime
<1>3. TimeTold
  BY <1>2 DEF TimeInv
<1>4. heldFor \in Nat /\ now \in Nat /\ time \in Nat /\ now < Wrap /\ time < Wrap /\ Wrap \in Nat
  BY HeldFacts, PeriodFacts
<1>5. now + Wrap - time = heldFor \/ now + Wrap - time = heldFor + Wrap
  BY <1>3, <1>4 DEF TimeTold
<1>6. heldFor % Wrap = heldFor /\ (heldFor + Wrap) % Wrap = heldFor
  BY <1>2, <1>4, WrapFacts
<1> QED BY <1>5, <1>6 DEF Elapsed

(* The end of a press is reported exactly when it was short in real time:    *)
(* for every duration, rate of bouncing and delay of the timer task, wherever *)
(* in the press the tick count wraps (gpio.rs:27).                           *)
THEOREM ButtonShortIsBrief == ButtonSpec => ShortIsBrief
<1>1. Core /\ TimeInv /\ [ButtonNext]_buttonVars
      => [pressed /\ ~pressed' => (shorts' # shorts <=> heldFor < Short)]_buttonVars
  <2> SUFFICES ASSUME Core, TimeInv, ButtonNext, pressed, ~pressed'
               PROVE  shorts' # shorts <=> heldFor < Short
    OBVIOUS
  <2>1. ~Edge /\ ~ButtonIsr /\ ~Tick
    BY DEF Edge, ButtonIsr, Tick, debounced
  <2>2. ASSUME NEW t \in Timers, Callback(t)
        PROVE  t = "debounce" /\ shorts' = IF Elapsed < Short THEN 1 - shorts ELSE shorts
    BY <2>2, CallbackStores DEF debounced, Store
  <2>3. ASSUME Elapsed = heldFor, shorts' = IF Elapsed < Short THEN 1 - shorts ELSE shorts
        PROVE  shorts' # shorts <=> heldFor < Short
    BY <2>3, HeldFacts
  <2>4. ASSUME NEW t \in Timers, Expire(t) PROVE shorts' # shorts <=> heldFor < Short
    <3>1. Callback(t) /\ t \in DOMAIN due /\ due[t] = 0
      BY <2>4 DEF Expire
    <3> QED BY <2>2, <2>3, <3>1, ElapsedIsHeld
  <2>5. CASE Receive
    <3>1. cmds # <<>> /\ cmds[1] \in Commands /\ cmds[1].due = 0 /\ Callback(cmds[1].timer)
      BY <2>5, ReceiveFacts DEF debounced
    <3>2. 1 \in DOMAIN cmds /\ cmds[1].timer \in Timers
      BY <3>1, HeldFacts, EmptySeq DEF Commands
    <3> QED BY <2>2, <2>3, <3>1, <3>2, ElapsedIsHeld DEF IsDebounce
  <2> QED BY <2>1, <2>4, <2>5 DEF ButtonNext, TimerTask
<1> QED BY <1>1, CoreAndTime, PTL DEF ButtonSpec, ShortIsBrief
-----------------------------------------------------------------------------
(* The timer task is never so late that a start finds its time already over. *)
OnTime == MaxLag < Debounce

(* What separates the debouncer from the long timer started with it. *)
Gap == Long - Debounce

(* Commands age only while the timer task is behind, and come in pairs, the  *)
(* second of which may be what is left of one.                               *)
AgedByLag == \A i \in DOMAIN cmds : cmds[i].due + lag >= Period[cmds[i].timer]
Paired ==
    \A i \in DOMAIN cmds :
        /\ IsDebounce(i) => IsLong(i + 1) /\ cmds[i + 1].due = cmds[i].due + Gap
        /\ IsLong(i) /\ i + 1 \in DOMAIN cmds => IsDebounce(i + 1)
HalfApart ==
    IsLong(1) => "debounce" \in DOMAIN due /\ cmds[1].due = due["debounce"] + Gap

(* Of one pair, the debouncer runs first, and long before. *)
Apart(d, l, late) == IF d > 0 THEN l >= d + Gap ELSE l + late >= Gap
TimersApart ==
    {"debounce", "long"} \subseteq DOMAIN due /\ ~IsLong(1) =>
        Apart(due["debounce"], due["long"], lag)

PairInv == AgedByLag /\ Paired /\ HalfApart /\ TimersApart

LEMMA GapFacts ==
    /\ Gap \in Nat /\ Long = Debounce + Gap /\ Short <= Gap /\ Short \in Nat /\ Debounce \in Nat
    /\ Long \in Nat /\ 0 < Debounce /\ Short <= Long /\ MaxLag \in Nat
BY LimitFacts, PeriodFacts DEF Gap

(* A command still has time left, and so has the debouncer whose pair is     *)
(* only half received.                                                       *)
LEMMA TimeLeft ==
    ASSUME OnTime, Core, PairInv
    PROVE  /\ \A i \in DOMAIN cmds : cmds[i].due > 0
           /\ IsLong(1) => due["debounce"] > 0
<1>1. /\ lag \in Nat /\ lag < Debounce /\ lag < Long
  <2>1. lag \in Nat /\ lag <= MaxLag
    BY HeldFacts
  <2> QED BY <2>1, GapFacts DEF OnTime
<1>2. \A i \in DOMAIN cmds : cmds[i].due > 0
  <2> SUFFICES ASSUME NEW i \in DOMAIN cmds PROVE cmds[i].due > 0
    OBVIOUS
  <2>1. cmds[i].due \in Nat /\ cmds[i].timer \in Timers /\ cmds[i].due + lag >= Period[cmds[i].timer]
    BY HeldFacts DEF PairInv, AgedByLag
  <2>2. Period[cmds[i].timer] = Debounce \/ Period[cmds[i].timer] = Long
    BY <2>1, PeriodFacts
  <2> QED BY <1>1, <2>1, <2>2, GapFacts
<1>3. ASSUME IsLong(1) PROVE due["debounce"] > 0
  <2>1. cmds[1].due + lag >= Long /\ cmds[1].due = due["debounce"] + Gap /\ due["debounce"] \in Nat
    BY <1>3, HeldFacts, PeriodFacts DEF PairInv, AgedByLag, HalfApart, IsLong
  <2> QED BY <1>1, <2>1, GapFacts
<1> QED BY <1>2, <1>3

LEMMA IsrPairs == ASSUME Room, ServedInv, PairInv, ButtonIsr PROVE PairInv'
<1> DEFINE p == cmds \o StartTimers
<1>0. PICK n \in Nat : n = Len(cmds)
  BY HoldFacts
<1>1. /\ n \in Nat /\ DOMAIN cmds = 1 .. n /\ DOMAIN p = 1 .. n + 2
      /\ \A i \in 1 .. n : p[i] = cmds[i]
      /\ p[n + 1] = [timer |-> "debounce", due |-> Debounce]
      /\ p[n + 2] = [timer |-> "long", due |-> Long]
  BY <1>0, HoldFacts, PostedFacts, LenProperties
<1>2. cmds' = p /\ UNCHANGED <<due, lag>>
  BY IsrHasRoom DEF ButtonIsr, ServedInv, EdgesServed, clockVars
<1> HIDE DEF p
<1>3. \A i \in DOMAIN p : i \in 1 .. n \/ i = n + 1 \/ i = n + 2
  BY <1>1
<1>4. /\ \A i \in 1 .. n : (IsDebounce(i)' <=> IsDebounce(i)) /\ (IsLong(i)' <=> IsLong(i))
      /\ IsDebounce(n + 1)' /\ ~IsLong(n + 1)' /\ IsLong(n + 2)' /\ ~IsDebounce(n + 2)'
  BY <1>1, <1>2 DEF IsDebounce, IsLong
<1>5. lag \in Nat
  BY HoldFacts
<1>6. AgedByLag'
  <2> SUFFICES ASSUME NEW i \in DOMAIN p PROVE p[i].due + lag >= Period[p[i].timer]
    BY <1>2 DEF AgedByLag
  <2>1. CASE i \in 1 .. n
    BY <1>1, <2>1 DEF PairInv, AgedByLag
  <2>2. CASE i = n + 1
    BY <1>1, <1>5, <2>2, PeriodFacts
  <2>3. CASE i = n + 2
    BY <1>1, <1>5, <2>3, PeriodFacts
  <2> QED BY <1>3, <2>1, <2>2, <2>3
<1>7. Paired'
  <2> SUFFICES ASSUME NEW i \in DOMAIN p
               PROVE  /\ IsDebounce(i)' => IsLong(i + 1)' /\ p[i + 1].due = p[i].due + Gap
                      /\ IsLong(i)' /\ i + 1 \in DOMAIN p => IsDebounce(i + 1)'
    BY <1>2 DEF Paired
  <2>1. CASE i \in 1 .. n
    <3>1. CASE IsDebounce(i)
      <4>1. IsLong(i + 1) /\ cmds[i + 1].due = cmds[i].due + Gap
        BY <1>1, <2>1, <3>1 DEF PairInv, Paired
      <4>2. i + 1 \in 1 .. n /\ ~IsLong(i)
        BY <1>1, <3>1, <4>1 DEF IsLong, IsDebounce
      <4> QED BY <1>1, <1>4, <2>1, <4>1, <4>2
    <3>2. CASE ~IsDebounce(i) /\ i = n
      BY <1>4, <2>1, <3>2
    <3>3. CASE ~IsDebounce(i) /\ i # n
      <4>1. i + 1 \in 1 .. n
        BY <1>1, <2>1, <3>3
      <4>2. IsLong(i) => IsDebounce(i + 1)
        BY <1>1, <2>1, <4>1 DEF PairInv, Paired
      <4> QED BY <1>4, <2>1, <3>3, <4>1, <4>2
    <3> QED BY <3>1, <3>2, <3>3
  <2>2. CASE i = n + 1
    <3>1. i + 1 = n + 2 /\ p[n + 2].due = p[n + 1].due + Gap
      BY <1>1, <2>2, GapFacts
    <3> QED BY <1>4, <2>2, <3>1
  <2>3. CASE i = n + 2
    <3>1. i + 1 \notin DOMAIN p
      BY <1>1, <2>3
    <3> QED BY <1>4, <2>3, <3>1
  <2> QED BY <1>3, <2>1, <2>2, <2>3
<1>8. IsLong(1)' <=> IsLong(1)
  <2>1. CASE n = 0
    <3>1. ~IsLong(1) /\ n + 1 = 1
      BY <1>1, <2>1 DEF IsLong
    <3> QED BY <1>4, <3>1
  <2>2. CASE n # 0
    BY <1>1, <1>4, <2>2
  <2> QED BY <2>1, <2>2
<1>9. HalfApart' /\ TimersApart'
  <2>1. IsLong(1) => 1 \in 1 .. n /\ cmds'[1] = cmds[1]
    BY <1>1, <1>2 DEF IsLong
  <2> QED BY <1>2, <1>8, <2>1 DEF PairInv, HalfApart, TimersApart
<1> QED BY <1>6, <1>7, <1>9 DEF PairInv

LEMMA ReceivePairs == ASSUME OnTime, ServedInv, PairInv, Receive PROVE PairInv'
<1>1. /\ Core /\ UNCHANGED lag /\ cmds' \in Seq(Commands) /\ Len(cmds') \in Nat
      /\ 1 \in DOMAIN cmds /\ cmds[1].timer \in Timers /\ cmds[1].due > 0
      /\ DOMAIN cmds' = 1 .. Len(cmds') /\ DOMAIN cmds = 1 .. Len(cmds) /\ Len(cmds) \in Nat
  <2>1. Core /\ cmds # <<>> /\ cmds' \in Seq(Commands) /\ UNCHANGED lag
    BY ReceiveFacts DEF ServedInv, clockVars
  <2>2. 1 \in DOMAIN cmds
    BY <2>1, HeldFacts, EmptySeq
  <2> QED BY <2>1, <2>2, HeldFacts, TimeLeft, LenProperties
<1>2. /\ \A i \in DOMAIN cmds' : i + 1 \in DOMAIN cmds /\ cmds'[i] = cmds[i + 1]
      /\ \A i \in DOMAIN cmds : i # 1 => i - 1 \in DOMAIN cmds' /\ cmds'[i - 1] = cmds[i]
  BY <1>1, ReceiveFacts
<1>3. /\ DOMAIN due' = {cmds[1].timer} \cup DOMAIN due
      /\ due'[cmds[1].timer] = cmds[1].due
      /\ \A t \in DOMAIN due : t # cmds[1].timer => due'[t] = due[t]
  BY <1>1, ReceiveFacts
<1>4. \A i \in Nat : (IsDebounce(i)' <=> i # 0 /\ IsDebounce(i + 1))
                     /\ (IsLong(i)' <=> i # 0 /\ IsLong(i + 1))
  <2> SUFFICES ASSUME NEW i \in Nat
               PROVE  (IsDebounce(i)' <=> i # 0 /\ IsDebounce(i + 1))
                      /\ (IsLong(i)' <=> i # 0 /\ IsLong(i + 1))
    OBVIOUS
  <2>1. i \in DOMAIN cmds' <=> i # 0 /\ i + 1 \in DOMAIN cmds
    <3>1. i \in DOMAIN cmds' => i # 0 /\ i + 1 \in DOMAIN cmds
      BY <1>1, <1>2
    <3>2. i # 0 /\ i + 1 \in DOMAIN cmds => (i + 1) - 1 \in DOMAIN cmds' /\ (i + 1) - 1 = i
      BY <1>2
    <3> QED BY <3>1, <3>2
  <2>2. i \in DOMAIN cmds' => cmds'[i] = cmds[i + 1]
    BY <1>2
  <2> QED BY <2>1, <2>2 DEF IsDebounce, IsLong
<1>5. AgedByLag'
  BY <1>1, <1>2 DEF PairInv, AgedByLag
<1>6. Paired'
  <2> SUFFICES ASSUME NEW i \in DOMAIN cmds'
               PROVE  /\ IsDebounce(i)' => IsLong(i + 1)' /\ cmds'[i + 1].due = cmds'[i].due + Gap
                      /\ IsLong(i)' /\ i + 1 \in DOMAIN cmds' => IsDebounce(i + 1)'
    BY DEF Paired
  <2>1. i \in Nat /\ i # 0 /\ i + 1 \in Nat /\ i + 1 # 0 /\ i + 1 \in DOMAIN cmds
    BY <1>1, <1>2
  <2>2. /\ IsDebounce(i + 1) => IsLong(i + 2) /\ cmds[i + 2].due = cmds[i + 1].due + Gap
        /\ IsLong(i + 1) /\ i + 2 \in DOMAIN cmds => IsDebounce(i + 2)
    BY <2>1 DEF PairInv, Paired
  <2>3. i + 1 \in DOMAIN cmds' => i + 2 \in DOMAIN cmds /\ cmds'[i + 1] = cmds[i + 2]
    BY <1>2, <2>1
  <2>4. (IsLong(i + 1)' <=> IsLong(i + 2)) /\ (IsDebounce(i + 1)' <=> IsDebounce(i + 2))
    BY <1>4, <2>1
  <2>5. IsLong(i + 1)' => i + 1 \in DOMAIN cmds'
    BY DEF IsLong
  <2>6. (IsLong(i)' <=> IsLong(i + 1)) /\ (IsDebounce(i)' <=> IsDebounce(i + 1))
    BY <1>4, <2>1
  <2> QED BY <1>2, <2>2, <2>3, <2>4, <2>5, <2>6
<1>7. CASE cmds[1].timer = "debounce"
  <2>1. IsDebounce(1) /\ 1 + 1 = 2
    BY <1>1, <1>7 DEF IsDebounce
  <2>2. IsLong(2) /\ cmds[2].due = cmds[1].due + Gap
    BY <1>1, <2>1 DEF PairInv, Paired
  <2>3. 2 \in DOMAIN cmds /\ 2 - 1 = 1
    BY <2>2 DEF IsLong
  <2>4. IsLong(1)' /\ cmds'[1] = cmds[2]
    BY <1>2, <1>4, <2>1, <2>2, <2>3
  <2> QED BY <1>3, <1>5, <1>6, <1>7, <2>2, <2>4 DEF PairInv, HalfApart, TimersApart
<1>8. CASE cmds[1].timer = "long"
  <2>1. IsLong(1) /\ 1 + 1 = 2
    BY <1>1, <1>8 DEF IsLong
  <2>2. ~IsLong(2)
    BY <1>1, <2>1 DEF PairInv, Paired, IsLong, IsDebounce
  <2>3. ~IsLong(1)'
    BY <1>4, <2>1, <2>2
  <2>4. "debounce" \in DOMAIN due /\ cmds[1].due = due["debounce"] + Gap
    BY <2>1 DEF PairInv, HalfApart
  <2>5. due'["debounce"] = due["debounce"] /\ due'["long"] = due["debounce"] + Gap
    BY <1>3, <1>8, <2>4
  <2>6. due["debounce"] \in Nat /\ lag \in Nat
    BY <1>1, <2>4, HeldFacts
  <2>7. Apart(due["debounce"], due["debounce"] + Gap, lag)
    BY <2>6, GapFacts DEF Apart
  <2> QED BY <1>1, <1>5, <1>6, <2>3, <2>5, <2>7 DEF PairInv, HalfApart, TimersApart
<1> QED BY <1>1, <1>7, <1>8, PeriodFacts

LEMMA ExpirePairs ==
    ASSUME OnTime, ServedInv, PairInv, NEW t \in Timers, Expire(t) PROVE PairInv'
<1>1. cmds' = cmds /\ lag' = lag /\ due' = Stopped(t) /\ due[t] = 0 /\ t \in DOMAIN due
  BY DEF Expire, clockVars
<1>2. IsLong(1) => t = "long"
  BY <1>1, TimeLeft, PeriodFacts DEF ServedInv
<1>3. DOMAIN due' = DOMAIN due \ {t} /\ \A u \in DOMAIN due' : due'[u] = due[u]
  BY <1>1 DEF Stopped
<1>4. HalfApart'
  <2>1. IsLong(1)' => IsLong(1) /\ "debounce" # t
    BY <1>1, <1>2 DEF IsLong
  <2> QED BY <1>1, <1>3, <2>1 DEF PairInv, HalfApart
<1>5. TimersApart'
  BY <1>3, PeriodFacts DEF TimersApart
<1> QED BY <1>1, <1>4, <1>5 DEF PairInv, AgedByLag, Paired, IsDebounce, IsLong

(* Timers of a pair keep their distance as they run. *)
LEMMA StayApart ==
    ASSUME NEW d \in Nat, NEW l \in Nat, NEW late \in Nat, NEW later \in Nat,
           d = 0 => later = late + 1, Apart(d, l, late)
    PROVE  Apart(Lower(d), Lower(l), later)
<1>1. Gap \in Nat
  BY GapFacts
<1>2. l <= Lower(l) + 1 /\ Lower(l) \in Nat
  BY DEF Lower
<1>3. CASE d = 0
  <2>1. l + late >= Gap /\ Lower(d) = 0 /\ later = late + 1
    BY <1>3 DEF Apart, Lower
  <2>2. Lower(l) + later >= Gap
    BY <1>1, <1>2, <2>1
  <2> QED BY <2>1, <2>2 DEF Apart
<1>4. CASE d > 0
  <2>1. l >= d + Gap /\ Lower(d) = d - 1
    BY <1>4 DEF Apart, Lower
  <2>2. Lower(l) >= (d - 1) + Gap
    BY <1>1, <1>2, <2>1
  <2>3. Lower(l) + later >= Gap
    BY <1>1, <1>2, <1>4, <2>2
  <2> QED BY <2>1, <2>2, <2>3 DEF Apart
<1> QED BY <1>3, <1>4

LEMMA TickPairs == ASSUME OnTime, ServedInv, PairInv, Tick PROVE PairInv'
<1>1. /\ Core /\ lag \in Nat /\ lag' \in Nat /\ lag' = IF UpToDate THEN 0 ELSE lag + 1
      /\ DOMAIN cmds' = DOMAIN cmds /\ DOMAIN due' = DOMAIN due
      /\ \A i \in DOMAIN cmds : cmds'[i].timer = cmds[i].timer /\ cmds'[i].due = Lower(cmds[i].due)
      /\ \A t \in DOMAIN due : due'[t] = Lower(due[t]) /\ due[t] \in Nat
      /\ \A i \in DOMAIN cmds : cmds[i].due \in Nat /\ cmds[i].timer \in Timers
  <2>1. Core
    BY DEF ServedInv
  <2>2. lag \in Nat /\ lag' = IF UpToDate THEN 0 ELSE lag + 1
    BY <2>1, HeldFacts DEF Tick
  <2>3. lag' \in Nat
    BY <2>1, TickCounts
  <2> QED BY <2>1, <2>2, <2>3, HeldFacts, TickFacts, TickCounts
<1>2. \A i \in DOMAIN cmds : lag' = lag + 1 /\ cmds[i].due = cmds'[i].due + 1 /\ cmds'[i].due \in Nat
  <2> SUFFICES ASSUME NEW i \in DOMAIN cmds
               PROVE  lag' = lag + 1 /\ cmds[i].due = cmds'[i].due + 1 /\ cmds'[i].due \in Nat
    OBVIOUS
  <2>1. lag' = lag + 1
    BY <1>1, HeldFacts DEF UpToDate
  <2>2. cmds[i].due \in Nat /\ cmds[i].due > 0 /\ cmds'[i].due = Lower(cmds[i].due)
    BY <1>1, TimeLeft
  <2> QED BY <2>1, <2>2, CountFacts
<1>3. \A i : (IsDebounce(i)' <=> IsDebounce(i)) /\ (IsLong(i)' <=> IsLong(i))
  BY <1>1 DEF IsDebounce, IsLong
<1>4. AgedByLag'
  <2> SUFFICES ASSUME NEW i \in DOMAIN cmds PROVE cmds'[i].due + lag' >= Period[cmds[i].timer]
    BY <1>1 DEF AgedByLag
  <2>1. cmds[i].due + lag >= Period[cmds[i].timer]
    BY DEF PairInv, AgedByLag
  <2>2. cmds'[i].due + lag' = cmds[i].due + lag
    BY <1>1, <1>2
  <2> QED BY <2>1, <2>2
<1>5. Paired'
  <2> SUFFICES ASSUME NEW i \in DOMAIN cmds, IsDebounce(i), IsLong(i + 1),
                      cmds[i + 1].due = cmds[i].due + Gap
               PROVE  cmds'[i + 1].due = cmds'[i].due + Gap
    BY <1>1, <1>3 DEF PairInv, Paired
  <2>1. i + 1 \in DOMAIN cmds
    BY DEF IsLong
  <2>2. /\ cmds[i].due = cmds'[i].due + 1 /\ cmds'[i].due \in Nat
        /\ cmds[i + 1].due = cmds'[i + 1].due + 1 /\ cmds'[i + 1].due \in Nat
    BY <1>2, <2>1
  <2> QED BY <2>2, GapFacts
<1>6. HalfApart'
  <2> SUFFICES ASSUME IsLong(1)
               PROVE  "debounce" \in DOMAIN due /\ cmds'[1].due = due'["debounce"] + Gap
    BY <1>1, <1>3 DEF HalfApart
  <2>1. 1 \in DOMAIN cmds /\ "debounce" \in DOMAIN due /\ cmds[1].due = due["debounce"] + Gap
    BY DEF PairInv, HalfApart, IsLong
  <2>2. /\ cmds[1].due = cmds'[1].due + 1 /\ cmds'[1].due \in Nat
        /\ due["debounce"] \in Nat /\ due["debounce"] > 0 /\ due'["debounce"] = Lower(due["debounce"])
    BY <1>1, <1>2, <2>1, TimeLeft
  <2>3. due["debounce"] = due'["debounce"] + 1 /\ due'["debounce"] \in Nat
    BY <2>2, CountFacts
  <2> QED BY <2>1, <2>2, <2>3, GapFacts
<1>7. TimersApart'
  <2> SUFFICES ASSUME {"debounce", "long"} \subseteq DOMAIN due, ~IsLong(1)
               PROVE  Apart(due'["debounce"], due'["long"], lag')
    BY <1>1, <1>3 DEF TimersApart
  <2>1. /\ Apart(due["debounce"], due["long"], lag) /\ due["debounce"] \in Nat /\ due["long"] \in Nat
        /\ due'["debounce"] = Lower(due["debounce"]) /\ due'["long"] = Lower(due["long"])
    BY <1>1 DEF PairInv, TimersApart
  <2>2. due["debounce"] = 0 => lag' = lag + 1
    BY <1>1 DEF UpToDate
  <2> QED BY <1>1, <2>1, <2>2, StayApart
<1> QED BY <1>4, <1>5, <1>6, <1>7 DEF PairInv

LEMMA PairNext ==
    Room /\ OnTime /\ ServedInv /\ PairInv /\ [ButtonNext]_buttonVars => PairInv'
<1> SUFFICES ASSUME Room, OnTime, ServedInv, PairInv, [ButtonNext]_buttonVars PROVE PairInv'
  OBVIOUS
<1>1. CASE Edge \/ UNCHANGED buttonVars
  <2>1. UNCHANGED <<cmds, due, lag>>
    BY <1>1 DEF Edge, buttonVars, clockVars
  <2> QED
    BY <2>1
       DEF PairInv, AgedByLag, Paired, HalfApart, TimersApart, IsDebounce, IsLong
<1> QED BY <1>1, IsrPairs, ReceivePairs, ExpirePairs, TickPairs DEF ButtonNext, TimerTask
-----------------------------------------------------------------------------
(* A long press is reported at the earliest MaxLag ticks before the press    *)
(* would be too long to be a short one ...                                   *)
LongAhead(d, held) == d + held + MaxLag >= Short
LongInv ==
    pressed =>
        /\ \A i \in DOMAIN cmds : IsLong(i) => LongAhead(cmds[i].due, heldFor)
        /\ "long" \in DOMAIN due => LongAhead(due["long"], heldFor)
        /\ longSent => LongAhead(0, heldFor)

(* ... and the debouncer, which ends the press, takes longer than that after *)
(* the edge.                                                                 *)
EndsLate(d, held) == d + held >= Short
LastDebounce(i) == IsDebounce(i) /\ \A j \in DOMAIN cmds : IsDebounce(j) => j <= i
ReleaseInv ==
    pressed /\ longSent /\ ~level /\ ~irq =>
        /\ \A i \in DOMAIN cmds : LastDebounce(i) => EndsLate(cmds[i].due, heldFor)
        /\ "debounce" \in DOMAIN due /\ (\A j \in DOMAIN cmds : ~IsDebounce(j))
              => EndsLate(due["debounce"], heldFor)

ReportInv == PairInv /\ LongInv /\ ReleaseInv

LEMMA IsrReports == ASSUME Room, OnTime, ServedInv, ReportInv, ButtonIsr PROVE LongInv' /\ ReleaseInv'
<1> DEFINE p == cmds \o StartTimers
<1>0. PICK n \in Nat : n = Len(cmds)
  BY HoldFacts
<1>1. /\ DOMAIN cmds = 1 .. n /\ DOMAIN p = 1 .. n + 2
      /\ \A i \in 1 .. n : p[i] = cmds[i]
      /\ p[n + 1] = [timer |-> "debounce", due |-> Debounce]
      /\ p[n + 2] = [timer |-> "long", due |-> Long]
  BY <1>0, HoldFacts, PostedFacts, LenProperties
<1>2. cmds' = p /\ UNCHANGED <<due, level>> /\ UNCHANGED debounced
  BY IsrHasRoom DEF ButtonIsr, ServedInv, EdgesServed
<1> HIDE DEF p
<1>3. UNCHANGED <<pressed, longSent, heldFor>>
  BY <1>2 DEF debounced
<1>4. \A i \in DOMAIN p : i \in 1 .. n \/ i = n + 1 \/ i = n + 2
  BY <1>1
<1>5. heldFor \in Nat
  BY HeldFacts DEF ServedInv
<1>6. LongInv'
  <2> SUFFICES ASSUME pressed, NEW i \in DOMAIN p, p[i].timer = "long"
               PROVE  LongAhead(p[i].due, heldFor)
    BY <1>2, <1>3 DEF ReportInv, LongInv, IsLong
  <2>1. CASE i \in 1 .. n
    BY <1>1, <2>1 DEF ReportInv, LongInv, IsLong
  <2>2. CASE i = n + 2
    BY <1>1, <1>5, <2>2, GapFacts DEF LongAhead
  <2> QED BY <1>1, <1>4, <2>1, <2>2
<1>7. ReleaseInv'
  <2> SUFFICES ASSUME pressed, longSent
               PROVE  /\ \A i \in DOMAIN p : LastDebounce(i)' => EndsLate(p[i].due, heldFor)
                      /\ IsDebounce(n + 1)' /\ n + 1 \in DOMAIN p
    BY <1>2, <1>3 DEF ReleaseInv
  <2>1. IsDebounce(n + 1)' /\ n + 1 \in DOMAIN p /\ ~IsDebounce(n + 2)'
    BY <1>1, <1>2 DEF IsDebounce
  <2>2. ASSUME NEW i \in DOMAIN p, LastDebounce(i)' PROVE i = n + 1
    <3>1. n + 1 <= i /\ i # n + 2
      BY <1>2, <2>1, <2>2 DEF LastDebounce
    <3> QED BY <1>4, <3>1
  <2>3. heldFor + MaxLag >= Short
    BY <1>5, GapFacts DEF ReportInv, LongInv, LongAhead
  <2>4. EndsLate(Debounce, heldFor)
    BY <1>5, <2>3, GapFacts DEF EndsLate, OnTime
  <2> QED BY <1>1, <2>1, <2>2, <2>4
<1> QED BY <1>6, <1>7

LEMMA ReceiveReports == ASSUME OnTime, ServedInv, ReportInv, Receive PROVE LongInv' /\ ReleaseInv'
<1>1. /\ Core /\ 1 \in DOMAIN cmds /\ cmds[1].due > 0 /\ cmds[1].timer \in Timers
      /\ DOMAIN cmds \subseteq Nat /\ DOMAIN cmds' \subseteq Nat
      /\ \A i \in DOMAIN cmds' : i + 1 \in DOMAIN cmds /\ cmds'[i] = cmds[i + 1]
      /\ \A i \in DOMAIN cmds : i # 1 => i - 1 \in DOMAIN cmds' /\ cmds'[i - 1] = cmds[i]
  <2>1. /\ Core /\ cmds # <<>> /\ cmds' \in Seq(Commands)
        /\ \A i \in DOMAIN cmds' : i + 1 \in DOMAIN cmds /\ cmds'[i] = cmds[i + 1]
        /\ \A i \in DOMAIN cmds : i # 1 => i - 1 \in DOMAIN cmds' /\ cmds'[i - 1] = cmds[i]
    BY ReceiveFacts DEF ServedInv
  <2>2. 1 \in DOMAIN cmds /\ DOMAIN cmds \subseteq Nat /\ DOMAIN cmds' \subseteq Nat
    BY <2>1, HeldFacts, EmptySeq, LenProperties
  <2> QED BY <2>1, <2>2, TimeLeft, HeldFacts DEF ReportInv
<1>2. /\ DOMAIN due' = {cmds[1].timer} \cup DOMAIN due
      /\ due'[cmds[1].timer] = cmds[1].due
      /\ \A t \in DOMAIN due : t # cmds[1].timer => due'[t] = due[t]
      /\ UNCHANGED <<pressed, longSent, heldFor, level, irq>>
  BY <1>1, ReceiveFacts DEF pinVars, debounced
<1>3. LongInv'
  <2> SUFFICES ASSUME pressed
               PROVE  /\ \A i \in DOMAIN cmds' : IsLong(i)' => LongAhead(cmds'[i].due, heldFor)
                      /\ "long" \in DOMAIN due' => LongAhead(due'["long"], heldFor)
    BY <1>2 DEF ReportInv, LongInv
  <2>1. \A i \in DOMAIN cmds' : IsLong(i)' => IsLong(i + 1) /\ cmds'[i] = cmds[i + 1]
    BY <1>1 DEF IsLong
  <2>2. \A i : IsLong(i) => LongAhead(cmds[i].due, heldFor)
    BY DEF ReportInv, LongInv, IsLong
  <2>3. "long" \in DOMAIN due' => LongAhead(due'["long"], heldFor)
    <3>1. CASE cmds[1].timer = "long"
      BY <1>1, <1>2, <2>2, <3>1 DEF IsLong
    <3>2. CASE cmds[1].timer # "long"
      BY <1>2, <3>2 DEF ReportInv, LongInv
    <3> QED BY <3>1, <3>2
  <2> QED BY <2>1, <2>2, <2>3
<1>4. ReleaseInv'
  <2> SUFFICES ASSUME pressed, longSent, ~level, ~irq
               PROVE  /\ \A i \in DOMAIN cmds' : LastDebounce(i)' => EndsLate(cmds'[i].due, heldFor)
                      /\ "debounce" \in DOMAIN due' /\ (\A j \in DOMAIN cmds' : ~IsDebounce(j)')
                            => EndsLate(due'["debounce"], heldFor)
    BY <1>2 DEF ReleaseInv
  <2>1. \A i \in DOMAIN cmds : LastDebounce(i) => EndsLate(cmds[i].due, heldFor)
    BY DEF ReportInv, ReleaseInv
  <2>2. ASSUME NEW i \in DOMAIN cmds', LastDebounce(i)' PROVE EndsLate(cmds'[i].due, heldFor)
    <3>1. i + 1 \in DOMAIN cmds /\ cmds'[i] = cmds[i + 1] /\ i \in Nat /\ IsDebounce(i + 1)
      BY <1>1, <2>2 DEF LastDebounce, IsDebounce
    <3>2. ASSUME NEW j \in DOMAIN cmds, IsDebounce(j) PROVE j <= i + 1
      <4>1. CASE j = 1
        BY <3>1, <4>1
      <4>2. CASE j # 1
        <5>1. j - 1 \in DOMAIN cmds' /\ IsDebounce(j - 1)' /\ j \in Nat
          BY <1>1, <3>2, <4>2 DEF IsDebounce
        <5>2. j - 1 <= i
          BY <2>2, <5>1 DEF LastDebounce
        <5> QED BY <3>1, <5>1, <5>2
      <4> QED BY <4>1, <4>2
    <3> QED BY <2>1, <3>1, <3>2 DEF LastDebounce
  <2>3. ASSUME "debounce" \in DOMAIN due', \A j \in DOMAIN cmds' : ~IsDebounce(j)'
        PROVE  EndsLate(due'["debounce"], heldFor)
    <3>1. \A j \in DOMAIN cmds : IsDebounce(j) => j = 1
      <4> SUFFICES ASSUME NEW j \in DOMAIN cmds, IsDebounce(j), j # 1 PROVE FALSE
        OBVIOUS
      <4>1. j - 1 \in DOMAIN cmds' /\ cmds'[j - 1] = cmds[j]
        BY <1>1
      <4> QED BY <2>3, <4>1 DEF IsDebounce
    <3>2. CASE cmds[1].timer = "debounce"
      <4>1. LastDebounce(1)
        BY <1>1, <3>1, <3>2 DEF LastDebounce, IsDebounce
      <4> QED BY <1>1, <1>2, <2>1, <3>2, <4>1
    <3>3. CASE cmds[1].timer # "debounce"
      <4>1. \A j \in DOMAIN cmds : ~IsDebounce(j)
        BY <3>1, <3>3 DEF IsDebounce
      <4> QED BY <1>2, <2>3, <3>3, <4>1 DEF ReportInv, ReleaseInv
    <3> QED BY <3>2, <3>3
  <2> QED BY <2>2, <2>3
<1> QED BY <1>3, <1>4

LEMMA ExpireReports ==
    ASSUME OnTime, ServedInv, ReportInv, NEW t \in Timers, Expire(t) PROVE LongInv' /\ ReleaseInv'
<1>1. /\ Core /\ UNCHANGED <<cmds, level, irq, lag>> /\ Callback(t)
      /\ t \in DOMAIN due /\ due[t] = 0 /\ due' = Stopped(t)
  BY DEF Expire, ServedInv, pinVars, clockVars
<1>2. DOMAIN due' = DOMAIN due \ {t} /\ \A u \in DOMAIN due' : due'[u] = due[u]
  BY <1>1 DEF Stopped
<1>3. \A i : (IsLong(i)' <=> IsLong(i)) /\ (IsDebounce(i)' <=> IsDebounce(i))
             /\ (LastDebounce(i)' <=> LastDebounce(i))
  BY <1>1 DEF IsLong, IsDebounce, LastDebounce
<1>4. CASE UNCHANGED <<pressed, longSent, heldFor>>
  <2>1. LongInv'
    BY <1>1, <1>2, <1>3, <1>4 DEF ReportInv, LongInv
  <2>2. ReleaseInv'
    BY <1>1, <1>2, <1>3, <1>4 DEF ReportInv, ReleaseInv
  <2> QED BY <2>1, <2>2
<1>5. CASE t = "debounce" /\ level /\ ~pressed /\ Store /\ longSent' = FALSE
  <2>1. heldFor' = 0 /\ ~longSent' /\ MaxLag \in Nat
    BY <1>5, GapFacts DEF Store
  <2>2. \A i \in DOMAIN cmds : IsLong(i) => LongAhead(cmds[i].due, 0)
    <3> SUFFICES ASSUME NEW i \in DOMAIN cmds, IsLong(i) PROVE LongAhead(cmds[i].due, 0)
      OBVIOUS
    <3>1. cmds[i].due + lag >= Long /\ cmds[i].due \in Nat /\ lag \in Nat /\ lag <= MaxLag
      BY <1>1, HeldFacts, PeriodFacts DEF ReportInv, PairInv, AgedByLag, IsLong
    <3> QED BY <3>1, GapFacts DEF LongAhead
  <2>3. "long" \in DOMAIN due => LongAhead(due["long"], 0)
    <3> SUFFICES ASSUME "long" \in DOMAIN due PROVE LongAhead(due["long"], 0)
      OBVIOUS
    <3>1. ~IsLong(1)
      <4>1. due["debounce"] = 0
        BY <1>1, <1>5
      <4> QED BY <1>1, <4>1, TimeLeft DEF ReportInv
    <3>2. Apart(0, due["long"], lag)
      BY <1>1, <1>5, <3>1 DEF ReportInv, PairInv, TimersApart
    <3>3. due["long"] \in Nat /\ lag \in Nat /\ lag <= MaxLag
      BY <1>1, HeldFacts
    <3> QED BY <3>2, <3>3, GapFacts DEF Apart, LongAhead
  <2>4. LongInv'
    BY <1>1, <1>2, <1>3, <2>1, <2>2, <2>3 DEF LongInv
  <2>5. ReleaseInv'
    BY <2>1 DEF ReleaseInv
  <2> QED BY <2>4, <2>5
<1>6. CASE t = "debounce" /\ ~level /\ pressed /\ Store
  <2>1. ~pressed'
    BY <1>6 DEF Store
  <2> QED BY <2>1 DEF LongInv, ReleaseInv
<1>7. CASE t = "long" /\ level /\ longSent' = TRUE /\ UNCHANGED <<pressed, heldFor>>
  <2>1. pressed => LongAhead(0, heldFor)
    BY <1>1, <1>7 DEF ReportInv, LongInv
  <2>2. LongInv'
    BY <1>1, <1>2, <1>3, <1>7, <2>1 DEF ReportInv, LongInv
  <2>3. ReleaseInv'
    BY <1>1, <1>7 DEF ReleaseInv
  <2> QED BY <2>2, <2>3
<1>8. \/ UNCHANGED <<pressed, longSent, heldFor>>
      \/ t = "debounce" /\ level /\ ~pressed /\ Store /\ longSent' = FALSE
      \/ t = "debounce" /\ ~level /\ pressed /\ Store
      \/ t = "long" /\ level /\ longSent' = TRUE /\ UNCHANGED <<pressed, heldFor>>
  BY <1>1, CallbackStores DEF debounced
<1> QED BY <1>4, <1>5, <1>6, <1>7, <1>8

(* What a timer has left and a press has lasted do not become less together. *)
LEMMA LaterThen ==
    ASSUME NEW d \in Nat, NEW h \in Nat
    PROVE  LET k == AtMost(h + 1, Wrap) IN
           /\ LongAhead(d, h) => LongAhead(Lower(d), k)
           /\ EndsLate(d, h) => EndsLate(Lower(d), k)
<1> DEFINE k == AtMost(h + 1, Wrap)
<1>1. Wrap \in Nat /\ Short \in Nat /\ Short <= Wrap /\ MaxLag \in Nat
  BY LimitFacts, PeriodFacts
<1>2. k \in Nat /\ (k = h + 1 \/ k = Wrap)
  BY <1>1 DEF AtMost
<1>3. Lower(d) \in Nat /\ d <= Lower(d) + 1
  BY DEF Lower
<1> HIDE DEF k
<1>4. LongAhead(d, h) => LongAhead(Lower(d), k)
  <2>1. CASE k = h + 1
    BY <1>1, <1>3, <2>1 DEF LongAhead
  <2>2. CASE k = Wrap
    BY <1>1, <1>3, <2>2 DEF LongAhead
  <2> QED BY <1>2, <2>1, <2>2
<1>5. EndsLate(d, h) => EndsLate(Lower(d), k)
  <2>1. CASE k = h + 1
    BY <1>1, <1>3, <2>1 DEF EndsLate
  <2>2. CASE k = Wrap
    BY <1>1, <1>3, <2>2 DEF EndsLate
  <2> QED BY <1>2, <2>1, <2>2
<1> QED BY <1>4, <1>5 DEF k

LEMMA TickReports == ASSUME ServedInv, ReportInv, Tick PROVE LongInv' /\ ReleaseInv'
<1> SUFFICES ASSUME pressed PROVE LongInv' /\ ReleaseInv'
  BY DEF Tick, LongInv, ReleaseInv
<1>1. /\ Core /\ UNCHANGED <<pressed, longSent, level, irq>> /\ heldFor' = AtMost(heldFor + 1, Wrap)
      /\ DOMAIN cmds' = DOMAIN cmds /\ DOMAIN due' = DOMAIN due
      /\ \A i \in DOMAIN cmds : cmds'[i].timer = cmds[i].timer /\ cmds'[i].due = Lower(cmds[i].due)
      /\ \A t \in DOMAIN due : due'[t] = Lower(due[t])
  BY TickFacts, TickCounts DEF Tick, ServedInv
<1>2. /\ heldFor \in Nat /\ \A i \in DOMAIN cmds : cmds[i].due \in Nat
      /\ \A t \in DOMAIN due : due[t] \in Nat
  BY <1>1, HeldFacts
<1>3. \A i : (IsLong(i)' <=> IsLong(i)) /\ (IsDebounce(i)' <=> IsDebounce(i))
             /\ (LastDebounce(i)' <=> LastDebounce(i))
  BY <1>1 DEF IsLong, IsDebounce, LastDebounce
<1>4. \A d \in Nat : /\ LongAhead(d, heldFor) => LongAhead(Lower(d), heldFor')
                     /\ EndsLate(d, heldFor) => EndsLate(Lower(d), heldFor')
  BY <1>1, <1>2, LaterThen
<1>5. LongInv'
  <2>1. longSent => LongAhead(0, heldFor')
    <3>1. Lower(0) = 0
      BY DEF Lower
    <3> QED BY <1>4, <3>1 DEF ReportInv, LongInv
  <2>2. \A i \in DOMAIN cmds : IsLong(i) => LongAhead(cmds'[i].due, heldFor')
    BY <1>1, <1>2, <1>4 DEF ReportInv, LongInv
  <2>3. "long" \in DOMAIN due => LongAhead(due'["long"], heldFor')
    BY <1>1, <1>2, <1>4 DEF ReportInv, LongInv
  <2> QED BY <1>1, <1>3, <2>1, <2>2, <2>3 DEF LongInv
<1>6. ReleaseInv'
  <2> SUFFICES ASSUME longSent, ~level, ~irq
               PROVE  /\ \A i \in DOMAIN cmds : LastDebounce(i) => EndsLate(cmds'[i].due, heldFor')
                      /\ "debounce" \in DOMAIN due /\ (\A j \in DOMAIN cmds : ~IsDebounce(j))
                            => EndsLate(due'["debounce"], heldFor')
    BY <1>1, <1>3 DEF ReleaseInv
  <2> QED BY <1>1, <1>2, <1>4 DEF ReportInv, ReleaseInv
<1> QED BY <1>5, <1>6

LEMMA ReportNext ==
    Room /\ OnTime /\ ServedInv /\ ReportInv /\ [ButtonNext]_buttonVars => ReportInv'
<1> SUFFICES ASSUME Room, OnTime, ServedInv, ReportInv, [ButtonNext]_buttonVars PROVE ReportInv'
  OBVIOUS
<1>1. PairInv'
  BY PairNext DEF ReportInv
<1>2. CASE Edge \/ UNCHANGED buttonVars
  <2>1. /\ UNCHANGED <<cmds, due, pressed, longSent, heldFor>>
        /\ irq' \/ (level' = level /\ irq' = irq)
    BY <1>2 DEF Edge, buttonVars, pinVars, debounced
  <2>2. LongInv'
    BY <2>1 DEF ReportInv, LongInv, IsLong
  <2>3. ReleaseInv'
    BY <2>1 DEF ReportInv, ReleaseInv, LastDebounce, IsDebounce
  <2> QED BY <1>1, <2>2, <2>3 DEF ReportInv
<1>3. CASE ButtonNext /\ ~Edge
  BY <1>1, <1>3, IsrReports, ReceiveReports, ExpireReports, TickReports
     DEF ReportInv, ButtonNext, TimerTask
<1> QED BY <1>2, <1>3

(* The button implements ButtonReports, but for a report made while an edge  *)
(* has not reached the timer task (that is the race of run button_race),     *)
(* also if that task is late by less than the time of debouncing: every      *)
(* other report belongs to a press, which is reported once if short and      *)
(* never as short after it was reported as long (gpio.rs:20-43).             *)
THEOREM ButtonImplementsReports == Room /\ OnTime => (ButtonSpec => ReportsOfPresses)
<1> SUFFICES ASSUME Room, OnTime PROVE ButtonSpec => ReportsOfPresses
  OBVIOUS
<1>1. ButtonInit => ReportInv /\ Reports!Init
  <2> SUFFICES ASSUME ButtonInit PROVE ReportInv /\ Reports!Init
    OBVIOUS
  <2>1. DOMAIN cmds = {} /\ DOMAIN due = {} /\ pressed = FALSE /\ shorts = 0 /\ longs = 0
    BY DEF ButtonInit
  <2>2. PairInv /\ LongInv /\ ReleaseInv
    BY <2>1
       DEF PairInv, AgedByLag, Paired, HalfApart, TimersApart, LongInv, ReleaseInv, IsLong, IsDebounce
  <2> QED BY <2>1, <2>2 DEF ReportInv, Reports!Init
<1>2. ServedInv /\ TimeInv /\ ReportInv /\ [ButtonNext]_buttonVars
      => [Reports!Next \/ EdgeOnItsWay]_(Reports!vars)
  <2> SUFFICES ASSUME ServedInv, TimeInv, ReportInv, [ButtonNext]_buttonVars, ~EdgeOnItsWay,
                      ~UNCHANGED <<pressed, longSent, shorts, longs>>
               PROVE  Reports!Next
    BY DEF Reports!vars
  <2>1. Core /\ ~irq /\ cmds = <<>> /\ lag \in Nat /\ lag <= MaxLag
    BY HeldFacts DEF EdgeOnItsWay, ServedInv
  <2>2. ~Edge /\ ~ButtonIsr /\ ~Tick /\ ~Receive /\ ~UNCHANGED buttonVars
    BY <2>1 DEF Edge, ButtonIsr, Tick, Receive, debounced, buttonVars
  <2>3. PICK t \in Timers : Expire(t)
    BY <2>2 DEF ButtonNext, TimerTask
  <2>4. Callback(t) /\ t \in DOMAIN due /\ due[t] = 0
    BY <2>3 DEF Expire
  <2>5. DOMAIN cmds = {} /\ ~IsLong(1) /\ (\A j : ~IsDebounce(j))
    BY <2>1 DEF IsLong, IsDebounce
  <2>6. /\ shorts \in 0 .. 1 /\ longs \in 0 .. 1 /\ pressed \in BOOLEAN /\ heldFor \in Nat
        /\ 1 - shorts = (shorts + 1) % 2 /\ 1 - longs = (longs + 1) % 2
    <3>1. shorts \in {0, 1} /\ longs \in {0, 1} /\ pressed \in BOOLEAN /\ heldFor \in Nat
      BY <2>1, HeldFacts
    <3> QED BY <3>1
  <2>7. CASE t = "debounce" /\ level /\ ~pressed /\ Store /\ longSent' = FALSE
             /\ UNCHANGED <<shorts, longs>>
    <3>1. pressed' /\ ~longSent'
      BY <2>7 DEF Store
    <3> QED BY <2>7, <3>1 DEF Reports!Next, Reports!Press
  <2>8. CASE /\ t = "debounce" /\ ~level /\ pressed /\ Store
             /\ shorts' = IF Elapsed < Short THEN 1 - shorts ELSE shorts
             /\ UNCHANGED <<longs, longSent>>
    <3>1. ~pressed'
      BY <2>8 DEF Store
    <3>2. Elapsed = heldFor
      BY <2>1, <2>4, <2>8, ElapsedIsHeld
    <3>3. longSent => ~(heldFor < Short)
      <4>1. longSent => EndsLate(0, heldFor)
        BY <2>1, <2>4, <2>5, <2>8 DEF ReportInv, ReleaseInv
      <4> QED BY <2>6, <4>1, GapFacts DEF EndsLate
    <3>4. CASE heldFor < Short
      BY <2>6, <2>8, <3>1, <3>2, <3>3, <3>4 DEF Reports!Next, Reports!ReportShort
    <3>5. CASE ~(heldFor < Short)
      BY <2>8, <3>1, <3>2, <3>5 DEF Reports!Next, Reports!Release
    <3> QED BY <3>4, <3>5
  <2>9. CASE /\ t = "long" /\ level /\ longs' = 1 - longs /\ longSent' = TRUE
             /\ UNCHANGED <<pressed, time, heldFor, shorts>>
    <3>1. "debounce" \notin DOMAIN due
      <4> SUFFICES ASSUME "debounce" \in DOMAIN due PROVE FALSE
        OBVIOUS
      <4>1. Apart(due["debounce"], 0, lag) /\ due["debounce"] \in Nat
        BY <2>1, <2>4, <2>5, <2>9, HeldFacts DEF ReportInv, PairInv, TimersApart
      <4>2. Gap > MaxLag /\ Gap \in Nat /\ MaxLag \in Nat
        BY GapFacts, LimitFacts DEF OnTime
      <4> QED BY <2>1, <4>1, <4>2 DEF Apart
    <3>2. pressed
      BY <2>1, <2>5, <2>9, <3>1 DEF ServedInv, EdgesServed, DebouncePending
    <3> QED BY <2>6, <2>9, <3>2 DEF Reports!Next, Reports!ReportLong
  <2> QED BY <2>1, <2>4, <2>7, <2>8, <2>9, CallbackStores DEF debounced
<1>3. ButtonSpec => []ReportInv
  BY <1>1, ReportNext, ServedInvariant, PTL DEF ButtonSpec
<1> QED BY <1>1, <1>2, <1>3, ServedInvariant, CoreAndTime, PTL DEF ButtonSpec, ReportsOfPresses
=============================================================================
