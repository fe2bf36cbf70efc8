----------------------------- MODULE LedProofs -----------------------------
(***************************************************************************)
(* For every queue capacity and every behaviour of its clients, the LED    *)
(* task keeps its types, shows the most important state that is wanted and *)
(* leaves the colour of that state on the LED.                             *)
(***************************************************************************)
EXTENDS LedController, SequenceTheorems, TLAPS

(* What compute_new_state returns: a wanted state with nothing wanted above *)
(* it, or "None" when nothing is wanted.                                    *)
LEMMA ComputeNewStateIsTop ==
    ASSUME NEW c \in [LedStates -> Nat]
    PROVE  /\ ComputeNewState(c) \in LedStates \cup {"None"}
           /\ ComputeNewState(c) = "None" => \A s \in LedStates : c[s] = 0
           /\ ComputeNewState(c) # "None" =>
                /\ c[ComputeNewState(c)] > 0
                /\ \A t \in LedStates :
                      c[t] > 0 => Priority[ComputeNewState(c)] <= Priority[t]
<1> DEFINE Top(s) == /\ c[s] > 0
                     /\ \A t \in LedStates : c[t] > 0 => Priority[s] <= Priority[t]
<1>1. CASE \E s \in LedStates : c[s] > 0
  <2>1. \E s \in LedStates : Top(s)
    <3>1. CASE c["Dfu"] > 0
      BY <3>1 DEF LedStates, Priority
    <3>2. CASE ~(c["Dfu"] > 0) /\ c["BluetoothPairing"] > 0
      BY <3>2 DEF LedStates, Priority
    <3>3. CASE ~(c["Dfu"] > 0) /\ ~(c["BluetoothPairing"] > 0) /\ c["DockActive"] > 0
      BY <3>3 DEF LedStates, Priority
    <3>4. CASE ~(c["Dfu"] > 0) /\ ~(c["BluetoothPairing"] > 0) /\ ~(c["DockActive"] > 0)
      BY <1>1, <3>4 DEF LedStates, Priority
    <3> QED BY <3>1, <3>2, <3>3, <3>4
  <2>2. PICK s \in LedStates : s = (CHOOSE x \in LedStates : Top(x)) /\ Top(s)
    BY <2>1
  <2>3. ComputeNewState(c) = s
    BY <1>1, <2>2 DEF ComputeNewState
  <2>4. s # "None"
    BY DEF LedStates
  <2> QED BY <2>2, <2>3, <2>4
<1>2. CASE ~\E s \in LedStates : c[s] > 0
  <2>1. ComputeNewState(c) = "None"
    BY <1>2 DEF ComputeNewState
  <2>2. \A s \in LedStates : c[s] = 0
    BY <1>2
  <2> QED BY <2>1, <2>2
<1> QED BY <1>1, <1>2

(* The message received leaves a queue of messages, one shorter. *)
LEMMA ReceiveShortens ==
    ASSUME LedTypeOK, NEW s, NEW b, LedReceive(s, b)
    PROVE  ledQueue' \in Seq(LedMessages) /\ Len(ledQueue') <= LedQueueLen
<1>1. ledQueue \in Seq(LedMessages) /\ ledQueue # <<>> /\ ledQueue' = Tail(ledQueue)
  BY DEF LedReceive, LedTypeOK
<1>2. ledQueue' \in Seq(LedMessages) /\ Len(ledQueue') = Len(ledQueue) - 1
  BY <1>1, HeadTailProperties
<1> QED BY <1>1, <1>2, LedAssumption, LenProperties DEF LedTypeOK, LedAssumption

(* Going on with the current behaviour shows a colour. *)
LEMMA ContinueKeepsColour ==
    ASSUME LedTypeOK, ContinueBehavior PROVE lit' \in LedStates \cup {"Off"}
BY DEF LedTypeOK, ContinueBehavior, Blinking, LedStates

(* The three facts are kept together: which branch of handle_message runs   *)
(* depends on the counts and the state agreeing, and the colour follows the *)
(* state.                                                                   *)
LedInv == LedTypeOK /\ ShowsTopPriority /\ LitAgrees

LEMMA LedInitInv == LedInit => LedInv
<1> SUFFICES ASSUME LedInit PROVE LedInv
  OBVIOUS
<1>1. <<LedMessage("Standby", TRUE)>> \in Seq(LedMessages)
  BY DEF LedMessage, LedMessages, LedStates
<1>2. Len(<<LedMessage("Standby", TRUE)>>) <= LedQueueLen
  BY LedAssumption DEF LedAssumption
<1>3. counts \in [LedStates -> Nat]
  BY DEF LedInit
<1>4. LedTypeOK
  BY <1>1, <1>2, <1>3 DEF LedInit, LedTypeOK, LedStates
<1> QED BY <1>4 DEF LedInit, LedInv, ShowsTopPriority, LitAgrees

LEMMA ClientKeepsLedInv ==
    ASSUME LedInv, NEW s \in LedStates, NEW b \in BOOLEAN, LedSend(s, b)
    PROVE  LedInv'
<1>1. LedMessage(s, b) \in LedMessages
  BY DEF LedMessage, LedMessages
<1>2. ledQueue' \in Seq(LedMessages) /\ Len(ledQueue') <= LedQueueLen
  BY <1>1, AppendProperties, LenProperties, LedAssumption
     DEF LedSend, LedInv, LedTypeOK, LedAssumption
<1> QED BY <1>2 DEF LedSend, LedInv, LedTypeOK, ShowsTopPriority, LitAgrees

LEMMA HandleKeepsLedInv ==
    ASSUME LedInv, HandleLedMessage PROVE LedInv'
<1> USE DEF LedInv
<1> PICK s \in LedStates : \/ SetTakesOver(s) \/ SetCounted(s) \/ UnsetShown(s)
                           \/ UnsetCounted(s) \/ UnsetUnderflow(s)
  BY DEF HandleLedMessage
<1>1. CASE SetTakesOver(s)
  <2>1. ledQueue' \in Seq(LedMessages) /\ Len(ledQueue') <= LedQueueLen
    BY <1>1, ReceiveShortens DEF SetTakesOver
  <2>2. LedTypeOK'
    BY <1>1, <2>1 DEF SetTakesOver, StartBehavior, LedTypeOK
  <2>3. ShowsTopPriority'
    BY <1>1 DEF SetTakesOver, TakesOver, LedTypeOK, ShowsTopPriority, Priority, LedStates
  <2>4. LitAgrees'
    BY <1>1 DEF SetTakesOver, StartBehavior, LitAgrees, LedStates
  <2> QED BY <2>2, <2>3, <2>4
<1>2. CASE SetCounted(s)
  <2>1. ledQueue' \in Seq(LedMessages) /\ Len(ledQueue') <= LedQueueLen
    BY <1>2, ReceiveShortens DEF SetCounted
  <2>2. LedTypeOK'
    BY <1>2, <2>1, ContinueKeepsColour DEF SetCounted, LedTypeOK
  <2>3. ShowsTopPriority'
    BY <1>2 DEF SetCounted, TakesOver, LedTypeOK, ShowsTopPriority, Priority, LedStates
  <2>4. LitAgrees'
    BY <1>2 DEF SetCounted, ContinueBehavior, LitAgrees
  <2> QED BY <2>2, <2>3, <2>4
<1>3. CASE UnsetShown(s)
  <2>1. ledQueue' \in Seq(LedMessages) /\ Len(ledQueue') <= LedQueueLen
    BY <1>3, ReceiveShortens DEF UnsetShown
  <2>2. counts' \in [LedStates -> Nat]
    BY <1>3 DEF UnsetShown, LedTypeOK
  <2>3. ledState' = ComputeNewState(counts')
    BY <1>3 DEF UnsetShown
  <2>4. LedTypeOK'
    BY <1>3, <2>1, <2>2, <2>3, ComputeNewStateIsTop DEF UnsetShown, StartBehavior, LedTypeOK
  <2>5. ShowsTopPriority'
    BY <2>2, <2>3, ComputeNewStateIsTop DEF ShowsTopPriority
  <2>6. LitAgrees'
    BY <1>3 DEF UnsetShown, StartBehavior, LitAgrees
  <2> QED BY <2>4, <2>5, <2>6
<1>4. CASE UnsetCounted(s)
  <2>1. ledQueue' \in Seq(LedMessages) /\ Len(ledQueue') <= LedQueueLen
    BY <1>4, ReceiveShortens DEF UnsetCounted
  <2>2. LedTypeOK'
    BY <1>4, <2>1, ContinueKeepsColour DEF UnsetCounted, LedTypeOK
  <2>3. ShowsTopPriority'
    BY <1>4 DEF UnsetCounted, LedTypeOK, ShowsTopPriority, LedStates
  <2>4. LitAgrees'
    BY <1>4 DEF UnsetCounted, ContinueBehavior, LitAgrees
  <2> QED BY <2>2, <2>3, <2>4
<1>5. CASE UnsetUnderflow(s)
  <2>1. ledQueue' \in Seq(LedMessages) /\ Len(ledQueue') <= LedQueueLen
    BY <1>5, ReceiveShortens DEF UnsetUnderflow
  <2>2. LedTypeOK'
    BY <1>5, <2>1, ContinueKeepsColour DEF UnsetUnderflow, LedTypeOK
  <2>3. ShowsTopPriority'
    BY <1>5 DEF UnsetUnderflow, ShowsTopPriority
  <2>4. LitAgrees'
    BY <1>5 DEF UnsetUnderflow, ContinueBehavior, LitAgrees
  <2> QED BY <2>2, <2>3, <2>4
<1> QED BY <1>1, <1>2, <1>3, <1>4, <1>5

LEMMA BlinkTimeoutKeepsLedInv ==
    ASSUME LedInv, BlinkTimeout PROVE LedInv'
<1>1. LedTypeOK'
  BY ContinueKeepsColour DEF BlinkTimeout, LedInv, LedTypeOK
<1>2. ShowsTopPriority'
  BY DEF BlinkTimeout, LedInv, ShowsTopPriority
<1>3. LitAgrees'
  BY DEF BlinkTimeout, ContinueBehavior, LedInv, LitAgrees
<1> QED BY <1>1, <1>2, <1>3 DEF LedInv

LEMMA LedInvInductive == LedInv /\ [LedNext]_ledVars => LedInv'
<1> SUFFICES ASSUME LedInv, [LedNext]_ledVars PROVE LedInv'
  OBVIOUS
<1>1. CASE HandleLedMessage
  BY <1>1, HandleKeepsLedInv
<1>2. CASE BlinkTimeout
  BY <1>2, BlinkTimeoutKeepsLedInv
<1>3. CASE LedClient
  BY <1>3, ClientKeepsLedInv DEF LedClient
<1>4. CASE UNCHANGED ledVars
  BY <1>4 DEF ledVars, LedInv, LedTypeOK, ShowsTopPriority, LitAgrees
<1> QED BY <1>1, <1>2, <1>3, <1>4 DEF LedNext

(* The queue never holds more than its capacity and every variable keeps     *)
(* its type, for every capacity.                                             *)
THEOREM LedTypeCorrect == LedSpec => []LedTypeOK
<1>1. LedInv => LedTypeOK
  BY DEF LedInv
<1> QED BY <1>1, LedInitInv, LedInvInductive, PTL DEF LedSpec

(* handle_message always leaves the most important wanted state showing,     *)
(* in whatever order sets and unsets arrive.                                 *)
THEOREM LedShowsTopPriority == LedSpec => []ShowsTopPriority
<1>1. LedInv => ShowsTopPriority
  BY DEF LedInv
<1> QED BY <1>1, LedInitInv, LedInvInductive, PTL DEF LedSpec

(* The colour on the LED never belongs to a state that is no longer shown.   *)
THEOREM LedColourAgrees == LedSpec => []LitAgrees
<1>1. LedInv => LitAgrees
  BY DEF LedInv
<1> QED BY <1>1, LedInitInv, LedInvInductive, PTL DEF LedSpec
=============================================================================
