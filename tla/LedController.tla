--------------------------- MODULE LedController ---------------------------
(***************************************************************************)
(* The LED task (src/rust/src/led.rs).  Any task may ask for an LED state  *)
(* (`set') or withdraw the request (`unset') by posting to a bounded       *)
(* queue, blocking while it is full.  The LED task counts the outstanding  *)
(* requests of each state and shows the most important one.                *)
(*                                                                         *)
(* No entry of STATE_MAP has a `repeat', so the transient branch of        *)
(* handle_message and the `terminated' result of do_behavior cannot occur  *)
(* and are not modelled.  Colours are abstracted to the state whose colour *)
(* is showing, or "Off".                                                   *)
(***************************************************************************)
EXTENDS Naturals, Sequences

CONSTANTS LedQueueLen,  \* capacity of the LED queue (8 in the code)
          MaxCount      \* bound: requests of one state the clients keep open

ASSUME LedAssumption ==
    /\ LedQueueLen \in Nat \ {0}
    /\ MaxCount \in Nat

VARIABLES ledQueue,  \* messages posted and not yet received
          counts,    \* outstanding requests of each state
          ledState,  \* the state being shown, "None" before the first one
          lit        \* the colour last written to the LED

ledVars == <<ledQueue, counts, ledState, lit>>

-----------------------------------------------------------------------------
(* Positions in the state map, a smaller one being more important; "None" is *)
(* not in the map and yields to every state.                                 *)
Priority ==
    [Dfu |-> 1, BluetoothPairing |-> 2, DockActive |-> 3, Standby |-> 4, None |-> 5]
LedStates == {"Dfu", "BluetoothPairing", "DockActive", "Standby"}
Blinking == {"BluetoothPairing"}

LedMessage(state, set) == [state |-> state, set |-> set]
LedMessages == [state : LedStates, set : BOOLEAN]

(* Does `state' take over from what is shown now? *)
TakesOver(state, current) == Priority[state] < Priority[current]

(* Mutant: the map searched from its end. *)
ComputeLastState(c) ==
    IF \E s \in LedStates : c[s] > 0
    THEN CHOOSE s \in LedStates :
            /\ c[s] > 0
            /\ \A t \in LedStates : c[t] > 0 => Priority[s] >= Priority[t]
    ELSE "None"

(* compute_new_state: the first entry of the map that is still wanted. *)
ComputeNewState(c) ==
    IF \E s \in LedStates : c[s] > 0
    THEN CHOOSE s \in LedStates :
            /\ c[s] > 0
            /\ \A t \in LedStates : c[t] > 0 => Priority[s] <= Priority[t]
    ELSE "None"

-----------------------------------------------------------------------------
(* rust_init posts Standby before the scheduler starts. *)
LedInit ==
    /\ ledQueue = <<LedMessage("Standby", TRUE)>>
    /\ counts = [s \in LedStates |-> 0]
    /\ ledState = "None"
    /\ lit = "Off"

(* set / unset: the caller blocks until there is room. *)
LedSend(state, set) ==
    /\ Len(ledQueue) < LedQueueLen
    /\ ledQueue' = Append(ledQueue, LedMessage(state, set))
    /\ UNCHANGED <<counts, ledState, lit>>

-----------------------------------------------------------------------------
(* What the run loop does with the LED once handle_message returns. *)

(* Mutant: a behaviour that starts by waiting and not by writing its colour. *)
StartWithoutColour(state) == UNCHANGED lit

(* The behaviour of the new state starts; "None" writes no colour. *)
StartBehavior(state) == lit' = IF state = "None" THEN lit ELSE state

(* The wait inside do_behavior returned false: a blink goes on to its other  *)
(* half, even when a message and not the timeout ended the wait.             *)
ContinueBehavior ==
    lit' = IF ledState \in Blinking
           THEN IF lit = "Off" THEN ledState ELSE "Off"
           ELSE lit

LedReceive(state, set) ==
    /\ ledQueue # <<>>
    /\ Head(ledQueue) = LedMessage(state, set)
    /\ ledQueue' = Tail(ledQueue)

(* A newly set state that is more important than the one shown. *)
SetTakesOver(s) ==
    /\ LedReceive(s, TRUE)
    /\ counts[s] = 0 /\ TakesOver(s, ledState)
    /\ counts' = [counts EXCEPT ![s] = 1]
    /\ ledState' = s
    /\ StartBehavior(s)

(* Mutant: a less important request is not received before it can be shown. *)
SetCountedAgain(s) ==
    /\ LedReceive(s, TRUE)
    /\ counts[s] > 0
    /\ counts' = [counts EXCEPT ![s] = @ + 1]
    /\ UNCHANGED ledState
    /\ ContinueBehavior

(* Any other set is only counted. *)
SetCounted(s) ==
    /\ LedReceive(s, TRUE)
    /\ counts[s] > 0 \/ ~TakesOver(s, ledState)
    /\ counts' = [counts EXCEPT ![s] = @ + 1]
    /\ UNCHANGED ledState
    /\ ContinueBehavior

(* The last request of the state being shown is withdrawn. *)
UnsetShown(s) ==
    /\ LedReceive(s, FALSE)
    /\ counts[s] = 1 /\ ledState = s
    /\ counts' = [counts EXCEPT ![s] = 0]
    /\ ledState' = ComputeNewState(counts')
    /\ StartBehavior(ledState')

(* A request is withdrawn and what is shown stays wanted. *)
UnsetCounted(s) ==
    /\ LedReceive(s, FALSE)
    /\ counts[s] > 0
    /\ counts[s] > 1 \/ ledState # s
    /\ counts' = [counts EXCEPT ![s] = @ - 1]
    /\ UNCHANGED ledState
    /\ ContinueBehavior

(* Mutant: a withdrawal too many is counted like the others. *)
UnsetUnchecked(s) ==
    /\ LedReceive(s, FALSE)
    /\ counts[s] = 0
    /\ counts' = [counts EXCEPT ![s] = @ - 1]
    /\ UNCHANGED ledState
    /\ ContinueBehavior

(* Mutant: a withdrawal too many is put back to be tried again. *)
UnsetRetried(s) ==
    /\ ledQueue # <<>>
    /\ Head(ledQueue) = LedMessage(s, FALSE)
    /\ counts[s] = 0
    /\ UNCHANGED <<ledQueue, counts, ledState>>
    /\ ContinueBehavior

(* "Led state underflow": more withdrawals than requests. *)
UnsetUnderflow(s) ==
    /\ LedReceive(s, FALSE)
    /\ counts[s] = 0
    /\ UNCHANGED <<counts, ledState>>
    /\ ContinueBehavior

(* The half period of a blink runs out with no message waiting. *)
BlinkTimeout ==
    /\ ledState \in Blinking
    /\ ledQueue = <<>>
    /\ ContinueBehavior
    /\ UNCHANGED <<ledQueue, counts, ledState>>

HandleLedMessage ==
    \E s \in LedStates :
        \/ SetTakesOver(s)
        \/ SetCounted(s)
        \/ UnsetShown(s)
        \/ UnsetCounted(s)
        \/ UnsetUnderflow(s)

-----------------------------------------------------------------------------
(* The controller under clients that set and unset any state at any time.  *)
LedClient ==
    \E s \in LedStates :
        \/ counts[s] < MaxCount /\ LedSend(s, TRUE)
        \/ LedSend(s, FALSE)

LedNext == HandleLedMessage \/ BlinkTimeout \/ LedClient

(* The LED task is always scheduled again: it runs at the default priority, *)
(* time-sliced with its equals, and every task above it blocks.             *)
LedSpec == LedInit /\ [][LedNext]_ledVars /\ WF_ledVars(HandleLedMessage)

-----------------------------------------------------------------------------
LedTypeOK ==
    /\ ledQueue \in Seq(LedMessages) /\ Len(ledQueue) <= LedQueueLen
    /\ counts \in [LedStates -> Nat]
    /\ ledState \in LedStates \cup {"None"}
    /\ lit \in LedStates \cup {"Off"}

(* The state shown is wanted and nothing more important is (handle_message  *)
(* keeps it incrementally; only compute_new_state looks at every count).    *)
ShowsTopPriority ==
    /\ ledState = "None" => \A s \in LedStates : counts[s] = 0
    /\ ledState # "None" =>
         /\ counts[ledState] > 0
         /\ \A t \in LedStates : counts[t] > 0 => Priority[ledState] <= Priority[t]

(* The colour on the LED is the one of the state shown, or off in the dark   *)
(* half of a blink: a change of state never leaves the old colour behind.    *)
LitAgrees ==
    ledState # "None" => lit = ledState \/ (lit = "Off" /\ ledState \in Blinking)
=============================================================================
