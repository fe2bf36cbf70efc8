---------------------------- MODULE EngineProofs ----------------------------
(***************************************************************************)
(* What holds of the engine for every queue capacity, every set of gamepads *)
(* and every behaviour of the tasks around it: its types and its link to   *)
(* the handheld; then its sessions, what bounds the packet queue, what     *)
(* pairing keeps going, and how its LED sessions alternate and balance.    *)
(***************************************************************************)
EXTENDS Engine, LedProofs, FiniteSetTheorems

-----------------------------------------------------------------------------
(* The inductive invariant.  Between two handlers the pin and the packet     *)
(* queue agree with the state; inside one, the calls still to be made will   *)
(* make them agree, and no packet is pushed for a handheld that is gone.     *)
CallsDriveHdmi ==
    \A i \in DOMAIN todo : todo[i].op = "SetHdmi" => (todo[i].on <=> handheld = "Active")

NoPushUndocked ==
    handheld = "None" => \A i \in DOMAIN todo : todo[i].op # "Push"

EngineInv ==
    /\ EngineTypeOK /\ IsFiniteSet(gamepads) /\ LedInv
    /\ CallsDriveHdmi /\ HdmiTracksDock
    /\ NoPushUndocked /\ TxEmptyUndocked

-----------------------------------------------------------------------------
(* Queues. *)

(* The engine's queue loses its head. *)
LEMMA ReceiveKeepsQueue ==
    ASSUME QueueTypeOK, NEW m, NEW calls, Receive(m, calls) PROVE QueueTypeOK'
<1>1. queue \in Seq(Messages) /\ queue # <<>> /\ queue' = Tail(queue)
  BY DEF Receive, QueueTypeOK
<1>2. queue' \in Seq(Messages) /\ Len(queue') = Len(queue) - 1
  BY <1>1, HeadTailProperties
<1>3. Len(queue') <= QueueLen
  BY <1>1, <1>2, LenProperties, QueueAssumption DEF QueueTypeOK, QueueAssumption
<1> QED BY <1>2, <1>3 DEF Receive, QueueTypeOK

(* send drops what does not fit. *)
LEMMA SendKeepsQueue ==
    ASSUME QueueTypeOK, NEW m \in Messages, Send(m) PROVE QueueTypeOK'
<1>1. CASE Len(queue) < QueueLen
  <2>1. queue' = Append(queue, m) /\ lost' = lost
    BY <1>1 DEF Send
  <2>2. queue' \in Seq(Messages) /\ Len(queue') = Len(queue) + 1
    BY <2>1, AppendProperties DEF QueueTypeOK
  <2>3. Len(queue') <= QueueLen
    BY <1>1, <2>2, LenProperties, QueueAssumption DEF QueueTypeOK, QueueAssumption
  <2> QED BY <2>1, <2>2, <2>3 DEF QueueTypeOK
<1>2. CASE ~(Len(queue) < QueueLen)
  BY <1>2 DEF Send, QueueTypeOK
<1> QED BY <1>1, <1>2

(* The packet queue stays a queue of packets, whether the packet is appended *)
(* or replaces the one at the back.                                          *)
LEMMA PushedType ==
    ASSUME NEW q \in Seq(Packets), NEW p \in Packets PROVE Pushed(q, p) \in Seq(Packets)
<1>1. CASE p.request = "DATA" /\ q # <<>> /\ q[Len(q)].request = "DATA"
  <2>1. Len(q) \in 1 .. Len(q)
    BY <1>1, EmptySeq
  <2>2. [q EXCEPT ![Len(q)] = p] \in Seq(Packets)
    BY <2>1, ExceptSeq
  <2> QED BY <1>1, <2>2 DEF Pushed
<1>2. CASE ~(p.request = "DATA" /\ q # <<>> /\ q[Len(q)].request = "DATA")
  BY <1>2, AppendProperties DEF Pushed
<1> QED BY <1>1, <1>2

(* Making a call leaves the calls behind it. *)
LEMMA CallShortens ==
    ASSUME todo \in Seq(Calls), NEW c, Call(c)
    PROVE  /\ c = todo[1] /\ c \in Calls /\ 1 \in DOMAIN todo
           /\ todo' \in Seq(Calls)
           /\ \A i \in DOMAIN todo' : i + 1 \in DOMAIN todo /\ todo'[i] = todo[i + 1]
           /\ \A i \in DOMAIN todo : i # 1 => i - 1 \in DOMAIN todo' /\ todo'[i - 1] = todo[i]
<1>1. todo # <<>> /\ c = Head(todo) /\ todo' = Tail(todo)
  BY DEF Call
<1>2. Len(todo) \in Nat \ {0} /\ DOMAIN todo = 1 .. Len(todo)
  BY <1>1, EmptySeq, LenProperties
<1>3. todo' \in Seq(Calls) /\ Len(todo') = Len(todo) - 1
      /\ \A i \in 1 .. Len(todo') : todo'[i] = todo[i + 1]
  BY <1>1, HeadTailProperties
<1>4. DOMAIN todo' = 1 .. Len(todo')
  BY <1>3, LenProperties
<1>5. c = todo[1] /\ c \in Calls
  BY <1>1, <1>2, HeadTailProperties
<1> QED BY <1>2, <1>3, <1>4, <1>5

-----------------------------------------------------------------------------
(* Receiving a message keeps the invariant when the handler's calls drive    *)
(* the pin as the new state says, a change of "docked" drives it at all, and *)
(* a handheld that goes away has its packets reset and gets no more.         *)
LEMMA ReceiveKeepsInv ==
    ASSUME EngineInv,
           NEW m, NEW calls \in Seq(Calls), Receive(m, calls),
           handheld' \in HandheldStates,
           gamepads' \subseteq GamepadId, IsFiniteSet(gamepads'), pairing' \in BOOLEAN,
           \A i \in DOMAIN calls :
               calls[i].op = "SetHdmi" => (calls[i].on <=> handheld' = "Active"),
           (handheld' = "Active" <=> handheld = "Active")
               \/ \E i \in DOMAIN calls : calls[i].op = "SetHdmi",
           handheld' = "None" => \A i \in DOMAIN calls : calls[i].op # "Push",
           handheld' # "None" \/ handheld = "None"
               \/ \E i \in DOMAIN calls : calls[i].op = "ResetTx"
    PROVE  EngineInv'
<1>1. QueueTypeOK'
  BY ReceiveKeepsQueue DEF EngineInv, EngineTypeOK
<1>2. /\ todo = <<>> /\ todo' = calls
      /\ UNCHANGED <<lost, tx, ledVars, hdmi, scanning, btReady>>
  BY DEF Receive
<1>3. LedInv' /\ LedTypeOK'
  BY <1>2 DEF EngineInv, LedInv, LedTypeOK, ShowsTopPriority, LitAgrees, ledVars
<1>4. EngineTypeOK'
  BY <1>1, <1>2, <1>3 DEF EngineInv, EngineTypeOK
<1>5. CallsDriveHdmi'
  BY <1>2 DEF CallsDriveHdmi
<1>6. DOMAIN todo = {}
  BY <1>2
<1>7. HdmiTracksDock'
  BY <1>2, <1>6 DEF HdmiTracksDock, EngineInv
<1>8. NoPushUndocked'
  BY <1>2 DEF NoPushUndocked
<1>9. TxEmptyUndocked'
  BY <1>2, <1>6 DEF TxEmptyUndocked, EngineInv
<1> QED BY <1>3, <1>4, <1>5, <1>7, <1>8, <1>9 DEF EngineInv

(* The calls that announce the gamepads are pushes, whatever their order. *)
LEMMA AnnouncementsType ==
    ASSUME gamepads \subseteq GamepadId, IsFiniteSet(gamepads), NEW a \in Announcements
    PROVE  a \in Seq(Calls) /\ \A i \in DOMAIN a : a[i].op = "Push"
<1> DEFINE n == Cardinality(gamepads)
<1>1. n \in Nat
  BY FS_CardinalityType
<1>2. PICK order \in [1 .. n -> gamepads] : a = [i \in 1 .. n |-> Push("CONNECT", order[i])]
  BY DEF Announcements
<1>3. \A i \in 1 .. n : Push("CONNECT", order[i]) \in Calls
  <2> TAKE i \in 1 .. n
  <2>1. Packet("CONNECT", order[i]) \in Packets
    BY DEF Packet, Packets
  <2> QED BY <2>1 DEF Push, Calls
<1>4. a \in [1 .. n -> Calls]
  BY <1>2, <1>3
<1>5. a \in Seq(Calls)
  BY <1>1, <1>4
<1> QED BY <1>2, <1>5 DEF Push

(* Each call is one of Calls. *)
LEMMA CallTypes ==
    /\ ResetTx \in Calls
    /\ \A on \in BOOLEAN : SetHdmi(on) \in Calls
    /\ \A on \in BOOLEAN : EnablePairing(on) \in Calls
    /\ \A s \in LedStates, b \in BOOLEAN : PostLed(s, b) \in Calls
    /\ \A r \in Requests : Control(r) \in Calls
    /\ \A p \in Packets : [op |-> "Push", packet |-> p] \in Calls
BY DEF Calls

(* Short programs of calls. *)
LEMMA ShortPrograms ==
    ASSUME NEW a \in Calls, NEW b \in Calls, NEW c \in Calls
    PROVE  /\ <<a>> \in Seq(Calls) /\ DOMAIN <<a>> = {1}
           /\ <<a, b>> \in Seq(Calls) /\ DOMAIN <<a, b>> = {1, 2}
           /\ <<a, b, c>> \in Seq(Calls) /\ DOMAIN <<a, b, c>> = {1, 2, 3}
OBVIOUS

(* A handler that makes no call and moves no state. *)
LEMMA QuietHandlerKeepsInv ==
    ASSUME EngineInv, NEW m, Receive(m, <<>>), UNCHANGED engineOnly PROVE EngineInv'
<1>1. <<>> \in Seq(Calls) /\ DOMAIN <<>> = {}
  OBVIOUS
<1> QED BY <1>1, ReceiveKeepsInv DEF engineOnly, EngineInv, EngineTypeOK

LEMMA MountKeepsInv ==
    ASSUME EngineInv, HandleMount PROVE EngineInv'
<1> DEFINE calls == <<ResetTx, Control("GET_INFO")>>
<1>1. calls \in Seq(Calls) /\ DOMAIN calls = {1, 2}
  BY CallTypes DEF Requests
<1>2. \A i \in DOMAIN calls : calls[i].op # "SetHdmi"
  BY <1>1 DEF ResetTx, Control
<1>3. handheld = "None" /\ handheld' = "WaitForGetInfo" /\ Receive(Mount, calls)
  BY DEF HandleMount
<1> HIDE DEF calls
<1> QED BY <1>1, <1>2, <1>3, ReceiveKeepsInv
        DEF HandleMount, HandheldStates, EngineInv, EngineTypeOK

LEMMA UnmountKeepsInv ==
    ASSUME EngineInv, HandleUnmount PROVE EngineInv'
<1>1. CASE handheld = "None" /\ Receive(Unmount, <<>>)
  BY <1>1, QuietHandlerKeepsInv DEF HandleUnmount, engineOnly
<1> DEFINE Kept == /\ handheld' = "None" /\ handheld' \in HandheldStates
                   /\ gamepads' \subseteq GamepadId /\ IsFiniteSet(gamepads')
                   /\ pairing' \in BOOLEAN
<1>2. Kept
  BY DEF HandleUnmount, HandheldStates, EngineInv, EngineTypeOK
<1>3. ResetTx \in Calls /\ SetHdmi(FALSE) \in Calls /\ PostLed("DockActive", FALSE) \in Calls
  BY CallTypes DEF LedStates
<1>4. CASE Receive(Unmount, <<ResetTx, SetHdmi(FALSE)>>)
  <2> DEFINE calls == <<ResetTx, SetHdmi(FALSE)>>
  <2>1. calls \in Seq(Calls) /\ DOMAIN calls = {1, 2}
    BY <1>3, ShortPrograms
  <2>2. calls[1].op = "ResetTx" /\ calls[2].op = "SetHdmi" /\ calls[2].on = FALSE
    BY DEF ResetTx, SetHdmi
  <2>3. Receive(Unmount, calls)
    BY <1>4
  <2> HIDE DEF calls
  <2> QED BY <1>2, <2>1, <2>2, <2>3, ReceiveKeepsInv
<1>5. CASE Receive(Unmount, <<ResetTx, SetHdmi(FALSE), PostLed("DockActive", FALSE)>>)
  <2> DEFINE calls == <<ResetTx, SetHdmi(FALSE), PostLed("DockActive", FALSE)>>
  <2>1. calls \in Seq(Calls) /\ DOMAIN calls = {1, 2, 3}
    <3>1. \A x, y, z \in Calls : <<x, y, z>> \in Seq(Calls) /\ DOMAIN <<x, y, z>> = {1, 2, 3}
      BY ShortPrograms
    <3> QED BY <1>3, <3>1, Zenon
  <2>2. /\ calls[1].op = "ResetTx"
        /\ calls[2].op = "SetHdmi" /\ calls[2].on = FALSE
        /\ calls[3].op = "PostLed"
    BY DEF ResetTx, SetHdmi, PostLed
  <2>3. Receive(Unmount, calls)
    BY <1>5
  <2> HIDE DEF calls
  <2> QED BY <1>2, <2>1, <2>2, <2>3, ReceiveKeepsInv
<1> QED BY <1>1, <1>4, <1>5 DEF HandleUnmount

LEMMA GetInfoKeepsInv ==
    ASSUME EngineInv, HandleGetInfo PROVE EngineInv'
<1>1. /\ handheld = "WaitForGetInfo" /\ handheld' \in {"WaitForDockBegin", "Error"}
      /\ handheld' \in HandheldStates
      /\ gamepads' \subseteq GamepadId /\ IsFiniteSet(gamepads') /\ pairing' \in BOOLEAN
  BY DEF HandleGetInfo, HandheldStates, EngineInv, EngineTypeOK
<1>2. CASE Receive(XferComplete("GET_INFO", "ok"), <<Control("DOCK_BEGIN")>>)
  <2> DEFINE calls == <<Control("DOCK_BEGIN")>>
  <2>1. calls \in Seq(Calls) /\ DOMAIN calls = {1}
    BY CallTypes, ShortPrograms DEF Requests
  <2>2. calls[1].op = "Control"
    BY DEF Control
  <2>3. Receive(XferComplete("GET_INFO", "ok"), calls)
    BY <1>2
  <2> HIDE DEF calls
  <2> QED BY <1>1, <2>1, <2>2, <2>3, ReceiveKeepsInv
<1>3. ASSUME NEW o, Receive(XferComplete("GET_INFO", o), <<>>) PROVE EngineInv'
  <2>1. <<>> \in Seq(Calls) /\ DOMAIN <<>> = {}
    OBVIOUS
  <2> QED BY <1>1, <1>3, <2>1, ReceiveKeepsInv
<1> QED BY <1>2, <1>3 DEF HandleGetInfo

LEMMA DockBeginKeepsInv ==
    ASSUME EngineInv, HandleDockBegin PROVE EngineInv'
<1>1. /\ handheld = "WaitForDockBegin" /\ handheld' \in {"Active", "Error"}
      /\ handheld' \in HandheldStates
      /\ gamepads' \subseteq GamepadId /\ IsFiniteSet(gamepads') /\ pairing' \in BOOLEAN
      /\ gamepads \subseteq GamepadId /\ IsFiniteSet(gamepads)
  BY DEF HandleDockBegin, HandheldStates, EngineInv, EngineTypeOK
<1> DEFINE opening == <<SetHdmi(TRUE), PostLed("DockActive", TRUE)>>
<1>2. ASSUME NEW o, NEW announce \in Announcements,
             Receive(XferComplete("DOCK_BEGIN", o), opening \o announce),
             handheld' = "Active"
      PROVE  EngineInv'
  <2> DEFINE calls == opening \o announce
  <2>1. opening \in Seq(Calls) /\ DOMAIN opening = {1, 2} /\ Len(opening) = 2
    BY CallTypes, ShortPrograms DEF LedStates
  <2>2. /\ opening[1].op = "SetHdmi" /\ opening[1].on = TRUE
        /\ opening[2].op = "PostLed"
    BY DEF SetHdmi, PostLed
  <2>3. announce \in Seq(Calls) /\ \A i \in DOMAIN announce : announce[i].op = "Push"
    BY <1>1, AnnouncementsType
  <2>4. Receive(XferComplete("DOCK_BEGIN", o), calls)
    BY <1>2
  <2> HIDE DEF opening
  <2>5. /\ calls \in Seq(Calls) /\ Len(calls) = 2 + Len(announce)
        /\ \A i \in 1 .. 2 + Len(announce) :
              calls[i] = IF i <= 2 THEN opening[i] ELSE announce[i - 2]
    <3>1. opening \in Seq(Calls) /\ announce \in Seq(Calls)
      BY <2>1, <2>3
    <3>2. /\ calls \in Seq(Calls) /\ Len(calls) = Len(opening) + Len(announce)
          /\ \A i \in 1 .. Len(opening) + Len(announce) :
                calls[i] = IF i <= Len(opening) THEN opening[i]
                           ELSE announce[i - Len(opening)]
      BY <3>1, ConcatProperties
    <3> HIDE DEF calls
    <3> QED BY <2>1, <3>2
  <2> HIDE DEF calls
  <2>6. Len(announce) \in Nat /\ DOMAIN announce = 1 .. Len(announce)
        /\ DOMAIN calls = 1 .. 2 + Len(announce)
    BY <2>3, <2>5, LenProperties
  <2>7. /\ 1 \in DOMAIN calls /\ calls[1].op = "SetHdmi" /\ calls[1].on = TRUE
        /\ \A i \in DOMAIN calls : i # 1 => calls[i].op # "SetHdmi"
    <3>1. 1 \in DOMAIN calls /\ calls[1].op = "SetHdmi" /\ calls[1].on = TRUE
      BY <2>2, <2>5, <2>6
    <3>2. ASSUME NEW i \in DOMAIN calls, i # 1 PROVE calls[i].op # "SetHdmi"
      <4>1. CASE i = 2
        BY <2>2, <2>5, <2>6, <4>1
      <4>2. CASE i # 2
        <5>1. i - 2 \in DOMAIN announce /\ calls[i] = announce[i - 2]
          BY <2>5, <2>6, <3>2, <4>2
        <5> QED BY <2>3, <5>1
      <4> QED BY <4>1, <4>2
    <3> QED BY <3>1, <3>2
  <2>8. calls \in Seq(Calls)
    BY <2>5
  <2> QED BY <1>1, <1>2, <2>4, <2>7, <2>8, ReceiveKeepsInv
<1>3. ASSUME NEW o, Receive(XferComplete("DOCK_BEGIN", o), <<>>), handheld' = "Error"
      PROVE EngineInv'
  <2>1. <<>> \in Seq(Calls) /\ DOMAIN <<>> = {}
    OBVIOUS
  <2> QED BY <1>1, <1>3, <2>1, ReceiveKeepsInv
<1> QED BY <1>2, <1>3 DEF HandleDockBegin

(* A program of the engine about pairing or about one gamepad touches        *)
(* neither the pin nor the reset, asks the handheld for nothing, and pushes  *)
(* only if there is a handheld.                                              *)
PlainProgram(calls) ==
    /\ calls \in Seq(Calls)
    /\ \A i \in DOMAIN calls :
          /\ calls[i].op \notin {"SetHdmi", "ResetTx", "Control"}
          /\ handheld = "None" => calls[i].op # "Push"

LEMMA PlainHandlerKeepsInv ==
    ASSUME EngineInv, NEW m, NEW calls, PlainProgram(calls), Receive(m, calls),
           gamepads' \subseteq GamepadId, IsFiniteSet(gamepads'), pairing' \in BOOLEAN,
           handheld' = handheld
    PROVE  EngineInv'
BY ReceiveKeepsInv DEF PlainProgram, EngineInv, EngineTypeOK

LEMMA TellIsPlain ==
    ASSUME NEW id \in GamepadId, NEW r \in {"CONNECT", "DISCONNECT", "DATA"}
    PROVE  PlainProgram(Tell(r, id))
<1>1. Push(r, id) \in Calls
  BY CallTypes DEF Push, Packet, Packets
<1>2. Push(r, id).op = "Push"
  BY DEF Push
<1>3. CASE handheld = "None"
  BY <1>3 DEF Tell, PlainProgram
<1>4. CASE handheld # "None"
  <2>1. Tell(r, id) = <<Push(r, id)>>
    BY <1>4 DEF Tell
  <2>2. <<Push(r, id)>> \in Seq(Calls) /\ DOMAIN <<Push(r, id)>> = {1}
        /\ <<Push(r, id)>>[1] = Push(r, id)
    BY <1>1, ShortPrograms
  <2> QED BY <1>2, <1>4, <2>1, <2>2 DEF PlainProgram
<1> QED BY <1>3, <1>4

LEMMA PairingIsPlain == PlainProgram(BeginPairing) /\ PlainProgram(EndPairing)
<1>1. ASSUME NEW on \in BOOLEAN
      PROVE PlainProgram(<<EnablePairing(on), PostLed("BluetoothPairing", on)>>)
  <2> DEFINE a == EnablePairing(on)
             b == PostLed("BluetoothPairing", on)
  <2>1. a \in Calls /\ b \in Calls
    BY CallTypes DEF LedStates
  <2>2. a.op = "EnablePairing" /\ b.op = "PostLed"
    BY DEF EnablePairing, PostLed
  <2> HIDE DEF a, b
  <2>3. <<a, b>> \in Seq(Calls) /\ DOMAIN <<a, b>> = {1, 2}
    BY <2>1, ShortPrograms
  <2>4. PlainProgram(<<a, b>>)
    BY <2>2, <2>3 DEF PlainProgram
  <2> QED BY <2>4 DEF a, b
<1> QED BY <1>1 DEF BeginPairing, EndPairing

LEMMA PlainConcat ==
    ASSUME NEW s, NEW t, PlainProgram(s), PlainProgram(t) PROVE PlainProgram(s \o t)
<1>1. s \in Seq(Calls) /\ t \in Seq(Calls)
  BY DEF PlainProgram
<1>2. /\ s \o t \in Seq(Calls) /\ Len(s \o t) = Len(s) + Len(t)
      /\ \A i \in 1 .. Len(s) + Len(t) :
            (s \o t)[i] = IF i <= Len(s) THEN s[i] ELSE t[i - Len(s)]
  BY <1>1, ConcatProperties
<1>3. /\ Len(s) \in Nat /\ Len(t) \in Nat
      /\ DOMAIN s = 1 .. Len(s) /\ DOMAIN t = 1 .. Len(t)
      /\ DOMAIN (s \o t) = 1 .. Len(s) + Len(t)
  BY <1>1, <1>2, LenProperties
<1>4. ASSUME NEW i \in DOMAIN (s \o t)
      PROVE  \/ i \in DOMAIN s /\ (s \o t)[i] = s[i]
             \/ i - Len(s) \in DOMAIN t /\ (s \o t)[i] = t[i - Len(s)]
  BY <1>2, <1>3
<1> QED BY <1>2, <1>4 DEF PlainProgram

LEMMA ConnectedKeepsInv ==
    ASSUME EngineInv, NEW id \in GamepadId, NEW wired \in BOOLEAN, HandleConnected(id, wired)
    PROVE  EngineInv'
<1> DEFINE ending == IF ~wired /\ pairing THEN EndPairing ELSE <<>>
<1>1. PlainProgram(ending)
  BY PairingIsPlain DEF PlainProgram
<1>2. PlainProgram(Tell("CONNECT", id))
  BY TellIsPlain
<1>3. PlainProgram(ending \o Tell("CONNECT", id))
  BY <1>1, <1>2, PlainConcat
<1>4. Receive(Connected(id, wired), ending \o Tell("CONNECT", id))
  BY DEF HandleConnected
<1>5. gamepads' \subseteq GamepadId /\ pairing' \in BOOLEAN /\ handheld' = handheld
  BY DEF HandleConnected, EngineInv, EngineTypeOK
<1>6. IsFiniteSet(gamepads')
  BY FS_AddElement DEF HandleConnected, EngineInv
<1> HIDE DEF ending
<1> QED BY <1>3, <1>4, <1>5, <1>6, PlainHandlerKeepsInv

LEMMA DisconnectedKeepsInv ==
    ASSUME EngineInv, NEW id \in GamepadId, HandleDisconnected(id) PROVE EngineInv'
<1>1. PlainProgram(Tell("DISCONNECT", id))
  BY TellIsPlain
<1>2. gamepads' \subseteq GamepadId /\ pairing' \in BOOLEAN /\ handheld' = handheld
  BY DEF HandleDisconnected, EngineInv, EngineTypeOK
<1>3. IsFiniteSet(gamepads')
  BY FS_RemoveElement DEF HandleDisconnected, EngineInv
<1> QED BY <1>1, <1>2, <1>3, PlainHandlerKeepsInv DEF HandleDisconnected

LEMMA DataKeepsInv ==
    ASSUME EngineInv, NEW id \in GamepadId, HandleData(id) PROVE EngineInv'
<1>1. PlainProgram(Tell("DATA", id))
  BY TellIsPlain
<1>2. gamepads' \subseteq GamepadId /\ pairing' \in BOOLEAN /\ handheld' = handheld
      /\ IsFiniteSet(gamepads')
  BY DEF HandleData, engineOnly, EngineInv, EngineTypeOK
<1> QED BY <1>1, <1>2, PlainHandlerKeepsInv DEF HandleData

LEMMA LongPressKeepsInv ==
    ASSUME EngineInv, HandleLongPress PROVE EngineInv'
<1> DEFINE calls == IF pairing THEN EndPairing ELSE BeginPairing
<1>1. PlainProgram(calls)
  BY PairingIsPlain
<1>2. gamepads' \subseteq GamepadId /\ pairing' \in BOOLEAN /\ handheld' = handheld
      /\ IsFiniteSet(gamepads')
  BY DEF HandleLongPress, EngineInv, EngineTypeOK
<1>3. Receive(LongPress, calls)
  BY DEF HandleLongPress
<1> HIDE DEF calls
<1> QED BY <1>1, <1>2, <1>3, PlainHandlerKeepsInv

LEMMA HandleKeepsInv == ASSUME EngineInv, Handle PROVE EngineInv'
<1>1. CASE HandleUnexpectedMount
  BY <1>1, QuietHandlerKeepsInv DEF HandleUnexpectedMount
<1>2. CASE HandleOtherXfer
  BY <1>2, QuietHandlerKeepsInv DEF HandleOtherXfer
<1>3. CASE HandleShortPress
  BY <1>3, QuietHandlerKeepsInv DEF HandleShortPress
<1> QED
  BY <1>1, <1>2, <1>3, MountKeepsInv, UnmountKeepsInv, GetInfoKeepsInv, DockBeginKeepsInv,
     ConnectedKeepsInv, DisconnectedKeepsInv, DataKeepsInv, LongPressKeepsInv DEF Handle

-----------------------------------------------------------------------------
(* Making a call keeps the invariant when it drives the pin if it is the one *)
(* that should, resets the packets if it is the reset, and otherwise leaves  *)
(* both as they were.                                                        *)
LEMMA CallKeepsInv ==
    ASSUME EngineInv, NEW c, Call(c), UNCHANGED engineOnly,
           QueueTypeOK', LedInv', tx' \in Seq(Packets),
           hdmi' \in BOOLEAN, scanning' \in BOOLEAN, btReady' \in BOOLEAN,
           IF c.op = "SetHdmi" THEN hdmi' <=> c.on ELSE hdmi' = hdmi,
           c.op = "ResetTx" => tx' = <<>>,
           tx' = tx \/ tx' = <<>> \/ c.op = "Push"
    PROVE  EngineInv'
<1>1. /\ c = todo[1] /\ 1 \in DOMAIN todo /\ todo' \in Seq(Calls)
      /\ \A i \in DOMAIN todo' : i + 1 \in DOMAIN todo /\ todo'[i] = todo[i + 1]
      /\ \A i \in DOMAIN todo : i # 1 => i - 1 \in DOMAIN todo' /\ todo'[i - 1] = todo[i]
  BY CallShortens DEF EngineInv, EngineTypeOK
<1>2. handheld' = handheld /\ gamepads' = gamepads /\ pairing' = pairing
  BY DEF engineOnly
<1>3. EngineTypeOK' /\ IsFiniteSet(gamepads')
  BY <1>1, <1>2 DEF EngineInv, EngineTypeOK, LedInv
<1>4. CallsDriveHdmi'
  BY <1>1, <1>2 DEF EngineInv, CallsDriveHdmi
<1>5. HdmiTracksDock'
  <2>1. SUFFICES ASSUME \A i \in DOMAIN todo' : todo'[i].op # "SetHdmi"
                 PROVE  hdmi' <=> handheld' = "Active"
    BY DEF HdmiTracksDock
  <2>2. CASE c.op = "SetHdmi"
    BY <1>1, <1>2, <2>2 DEF EngineInv, CallsDriveHdmi
  <2>3. CASE c.op # "SetHdmi"
    <3>1. \A i \in DOMAIN todo : todo[i].op # "SetHdmi"
      BY <1>1, <2>1, <2>3
    <3> QED BY <1>2, <2>3, <3>1 DEF EngineInv, HdmiTracksDock
  <2> QED BY <2>2, <2>3
<1>6. NoPushUndocked'
  BY <1>1, <1>2 DEF EngineInv, NoPushUndocked
<1>7. TxEmptyUndocked'
  <2>1. SUFFICES ASSUME handheld = "None", \A i \in DOMAIN todo' : todo'[i].op # "ResetTx"
                 PROVE  tx' = <<>>
    BY <1>2 DEF TxEmptyUndocked
  <2>2. c.op # "Push"
    BY <1>1, <2>1 DEF EngineInv, NoPushUndocked
  <2>3. CASE c.op # "ResetTx"
    <3>1. \A i \in DOMAIN todo : todo[i].op # "ResetTx"
      BY <1>1, <2>1, <2>3
    <3> QED BY <2>1, <2>2, <3>1 DEF EngineInv, TxEmptyUndocked
  <2> QED BY <2>3
<1> QED BY <1>3, <1>4, <1>5, <1>6, <1>7 DEF EngineInv

(* What a step leaves of the LED variables keeps the LED's invariant. *)
LEMMA LedUnchanged == ASSUME LedInv, UNCHANGED ledVars PROVE LedInv'
BY DEF LedInv, LedTypeOK, ShowsTopPriority, LitAgrees, ledVars

LEMMA MakeCallKeepsInv == ASSUME EngineInv, MakeCall PROVE EngineInv'
<1> USE DEF EngineInv
<1>0. QueueTypeOK /\ LedInv /\ tx \in Seq(Packets)
      /\ hdmi \in BOOLEAN /\ scanning \in BOOLEAN /\ btReady \in BOOLEAN
  BY DEF EngineTypeOK
<1>1. ASSUME UNCHANGED <<queue, lost>> PROVE QueueTypeOK'
  BY <1>0, <1>1 DEF QueueTypeOK
<1>2. CASE DoResetTx
  <2>1. ResetTx.op = "ResetTx" /\ <<>> \in Seq(Packets)
    BY DEF ResetTx
  <2> QED BY <1>0, <1>1, <1>2, <2>1, LedUnchanged, CallKeepsInv DEF DoResetTx, Reset
<1>3. CASE DoPush
  <2>1. PICK p \in Packets : Call([op |-> "Push", packet |-> p]) /\ tx' = Pushed(tx, p)
    BY <1>3 DEF DoPush, PushBack
  <2>2. [op |-> "Push", packet |-> p].op = "Push" /\ tx' \in Seq(Packets)
    BY <1>0, <2>1, PushedType
  <2> QED BY <1>0, <1>1, <1>3, <2>1, <2>2, LedUnchanged, CallKeepsInv DEF DoPush
<1>4. CASE DoSetHdmi
  <2>1. PICK on \in BOOLEAN : Call(SetHdmi(on)) /\ hdmi' = on
    BY <1>4 DEF DoSetHdmi
  <2>2. SetHdmi(on).op = "SetHdmi" /\ SetHdmi(on).on = on
    BY DEF SetHdmi
  <2> QED BY <1>0, <1>1, <1>4, <2>1, <2>2, LedUnchanged, CallKeepsInv DEF DoSetHdmi
<1>5. CASE DoEnablePairing
  <2>1. PICK on \in BOOLEAN : Call(EnablePairing(on)) /\ scanning' = on
    BY <1>5 DEF DoEnablePairing
  <2>2. EnablePairing(on).op = "EnablePairing"
    BY DEF EnablePairing
  <2> QED BY <1>0, <1>1, <1>5, <2>1, <2>2, LedUnchanged, CallKeepsInv DEF DoEnablePairing
<1>6. CASE DoPostLed
  <2>1. PICK s \in LedStates, b \in BOOLEAN : Call(PostLed(s, b)) /\ LedSend(s, b)
    BY <1>6 DEF DoPostLed
  <2>2. PostLed(s, b).op = "PostLed"
    BY DEF PostLed
  <2>3. LedInv'
    BY <2>1, ClientKeepsLedInv
  <2> QED BY <1>0, <1>1, <1>6, <2>1, <2>2, <2>3, CallKeepsInv DEF DoPostLed
<1>7. CASE DoControl
  <2>1. PICK r \in Requests : StartControl(r) \/ RefuseControlOut(r)
    BY <1>7 DEF DoControl
  <2>2. Control(r).op = "Control"
    BY DEF Control
  <2>3. CASE StartControl(r)
    BY <1>0, <1>1, <2>2, <2>3, LedUnchanged, CallKeepsInv DEF StartControl
  <2>4. CASE RefuseControlOut(r)
    <3>1. XferComplete(r, "failed") \in Messages
      BY DEF Messages, Outcomes
    <3>2. QueueTypeOK'
      BY <1>0, <2>4, <3>1, SendKeepsQueue DEF RefuseControlOut
    <3> QED BY <1>0, <2>2, <2>4, <3>2, LedUnchanged, CallKeepsInv DEF RefuseControlOut
  <2> QED BY <2>1, <2>3, <2>4
<1> QED BY <1>2, <1>3, <1>4, <1>5, <1>6, <1>7 DEF MakeCall, LocalCall

-----------------------------------------------------------------------------
(* The other tasks touch only queues, the LED and the Bluetooth stack. *)
LEMMA OthersKeepInv ==
    ASSUME EngineInv, UNCHANGED <<engineOnly, todo, hdmi>>,
           QueueTypeOK', LedInv', tx' \in Seq(Packets), tx' = tx \/ tx # <<>>,
           scanning' \in BOOLEAN, btReady' \in BOOLEAN
    PROVE  EngineInv'
<1>1. /\ handheld' = handheld /\ gamepads' = gamepads /\ pairing' = pairing
      /\ todo' = todo /\ hdmi' = hdmi
  BY DEF engineOnly
<1>2. EngineTypeOK' /\ IsFiniteSet(gamepads')
  BY <1>1 DEF EngineInv, EngineTypeOK, LedInv
<1>3. CallsDriveHdmi' /\ HdmiTracksDock' /\ NoPushUndocked'
  BY <1>1 DEF EngineInv, CallsDriveHdmi, HdmiTracksDock, NoPushUndocked
<1>4. TxEmptyUndocked'
  BY <1>1 DEF EngineInv, TxEmptyUndocked
<1> QED BY <1>2, <1>3, <1>4 DEF EngineInv

LEMMA NextKeepsInv == EngineInv /\ [EngineOpenNext]_engineVars => EngineInv'
<1> SUFFICES ASSUME EngineInv, [EngineOpenNext]_engineVars PROVE EngineInv'
  OBVIOUS
<1>0. QueueTypeOK /\ LedInv /\ tx \in Seq(Packets)
      /\ scanning \in BOOLEAN /\ btReady \in BOOLEAN
  BY DEF EngineInv, EngineTypeOK
<1>1. ASSUME UNCHANGED <<queue, lost>> PROVE QueueTypeOK'
  BY <1>0, <1>1 DEF QueueTypeOK
<1>2. CASE Handle
  BY <1>2, HandleKeepsInv
<1>3. CASE MakeCall
  BY <1>3, MakeCallKeepsInv
<1>4. ASSUME NEW m \in Messages, Arrive(m) PROVE EngineInv'
  <2>1. QueueTypeOK'
    BY <1>0, <1>4, SendKeepsQueue DEF Arrive
  <2> QED BY <1>0, <1>4, <2>1, LedUnchanged, OthersKeepInv DEF Arrive
<1>5. CASE TakePacket
  <2>1. tx # <<>> /\ tx' = Tail(tx)
    BY <1>5 DEF TakePacket, PopFront
  <2>2. tx' \in Seq(Packets)
    BY <1>0, <2>1, HeadTailProperties
  <2> QED BY <1>0, <1>1, <1>5, <2>1, <2>2, LedUnchanged, OthersKeepInv DEF TakePacket
<1>6. CASE LedTask
  <2>1. LedInv'
    BY <1>0, <1>6, LedInvInductive DEF LedTask, LedNext
  <2> QED BY <1>0, <1>1, <1>6, <2>1, OthersKeepInv DEF LedTask
<1>7. CASE BtInitComplete
  BY <1>0, <1>1, <1>7, LedUnchanged, OthersKeepInv DEF BtInitComplete
<1>8. CASE UNCHANGED engineVars
  BY <1>0, <1>1, <1>8, LedUnchanged, OthersKeepInv DEF engineVars
<1> QED BY <1>2, <1>3, <1>4, <1>5, <1>6, <1>7, <1>8 DEF EngineOpenNext

LEMMA InitInv == EngineInit => EngineInv
<1> SUFFICES ASSUME EngineInit PROVE EngineInv
  OBVIOUS
<1>1. QueueTypeOK
  BY QueueAssumption DEF EngineInit, QueueInit, QueueTypeOK, QueueAssumption
<1>2. LedInv
  BY LedInitInv DEF EngineInit
<1>3. DOMAIN todo = {} /\ todo \in Seq(Calls) /\ tx \in Seq(Packets)
  BY DEF EngineInit
<1>4. EngineTypeOK /\ IsFiniteSet(gamepads)
  BY <1>1, <1>2, <1>3, FS_EmptySet DEF EngineInit, EngineTypeOK, LedInv, HandheldStates
<1>5. CallsDriveHdmi /\ HdmiTracksDock /\ NoPushUndocked /\ TxEmptyUndocked
  BY <1>3 DEF EngineInit, CallsDriveHdmi, HdmiTracksDock, NoPushUndocked, TxEmptyUndocked
<1> QED BY <1>2, <1>4, <1>5 DEF EngineInv

(* The engine of the runs is the engine with no bound on what arrives. *)
LEMMA EngineIsOpen == EngineSpec => EngineOpen
<1>1. [EngineNext]_engineVars => [EngineOpenNext]_engineVars
  BY DEF EngineNext, EngineOpenNext, Post
<1> QED BY <1>1, PTL DEF EngineSpec, EngineOpen

LEMMA OpenInv == EngineOpen => []EngineInv
BY InitInv, NextKeepsInv, PTL DEF EngineOpen

(* Every variable of the engine and of the queues it shares keeps its type.  *)
THEOREM EngineTypeCorrect == EngineSpec => []EngineTypeOK
<1>1. EngineInv => EngineTypeOK
  BY DEF EngineInv
<1> QED BY <1>1, OpenInv, EngineIsOpen, PTL

(* However docking, undocking, failures and lost messages follow each other, *)
(* the picture is on exactly while the handheld is docked.                   *)
THEOREM HdmiFollowsDock == EngineSpec => []HdmiTracksDock
<1>1. EngineInv => HdmiTracksDock
  BY DEF EngineInv
<1> QED BY <1>1, OpenInv, EngineIsOpen, PTL

(* No packet of one handheld is left in the queue for the next.              *)
THEOREM NoPacketsUndocked == EngineSpec => []TxEmptyUndocked
<1>1. EngineInv => TxEmptyUndocked
  BY DEF EngineInv
<1> QED BY <1>1, OpenInv, EngineIsOpen, PTL

(* Driven by the engine and its neighbours too, the LED shows the most       *)
(* important state that is wanted, in that state's colour.                   *)
THEOREM EngineLed == EngineSpec => [](ShowsTopPriority /\ LitAgrees)
<1>1. EngineInv => ShowsTopPriority /\ LitAgrees
  BY DEF EngineInv, LedInv
<1> QED BY <1>1, OpenInv, EngineIsOpen, PTL

-----------------------------------------------------------------------------
(* The packet queue. *)
Sparse(q) == \A i \in 1 .. Len(q) - 1 : q[i].request # "DATA" \/ q[i + 1].request # "DATA"

(* push_back never makes two data packets neighbours. *)
LEMMA PushedSparse ==
    ASSUME NEW q \in Seq(Packets), NEW p \in Packets, Sparse(q) PROVE Sparse(Pushed(q, p))
<1>1. Len(q) \in Nat /\ DOMAIN q = 1 .. Len(q)
  BY LenProperties
<1>2. CASE p.request = "DATA" /\ q # <<>> /\ q[Len(q)].request = "DATA"
  <2>1. Len(q) \in 1 .. Len(q)
    BY <1>2, EmptySeq
  <2>2. Pushed(q, p) = [q EXCEPT ![Len(q)] = p]
    BY <1>2 DEF Pushed
  <2>3. /\ Len(Pushed(q, p)) = Len(q)
        /\ \A i \in 1 .. Len(q) : Pushed(q, p)[i] = IF i = Len(q) THEN p ELSE q[i]
    BY <2>1, <2>2, ExceptSeq
  <2>4. \A i \in 1 .. Len(q) : Pushed(q, p)[i].request = q[i].request
    BY <1>2, <2>3
  <2> SUFFICES ASSUME NEW i \in 1 .. Len(q) - 1
               PROVE  Pushed(q, p)[i].request # "DATA" \/ Pushed(q, p)[i + 1].request # "DATA"
    BY <2>3 DEF Sparse
  <2>5. i \in 1 .. Len(q) /\ i + 1 \in 1 .. Len(q)
    BY <1>1
  <2>6. q[i].request # "DATA" \/ q[i + 1].request # "DATA"
    BY DEF Sparse
  <2> QED BY <2>4, <2>5, <2>6
<1>3. CASE ~(p.request = "DATA" /\ q # <<>> /\ q[Len(q)].request = "DATA")
  <2>1. Pushed(q, p) = Append(q, p)
    BY <1>3 DEF Pushed
  <2>2. /\ Len(Pushed(q, p)) = Len(q) + 1 /\ Pushed(q, p)[Len(q) + 1] = p
        /\ \A i \in 1 .. Len(q) : Pushed(q, p)[i] = q[i]
    BY <2>1, AppendProperties
  <2> SUFFICES ASSUME NEW i \in 1 .. Len(q)
               PROVE  Pushed(q, p)[i].request # "DATA" \/ Pushed(q, p)[i + 1].request # "DATA"
    BY <1>1, <2>2 DEF Sparse
  <2>3. CASE i = Len(q)
    <3>1. q # <<>>
      BY <1>1, <2>3
    <3> QED BY <1>1, <1>3, <2>2, <2>3, <3>1
  <2>4. CASE i # Len(q)
    BY <1>1, <2>2, <2>4 DEF Sparse
  <2> QED BY <2>3, <2>4
<1> QED BY <1>2, <1>3

(* Neither does taking the packet at the front. *)
LEMMA TailSparse ==
    ASSUME NEW q \in Seq(Packets), q # <<>>, Sparse(q) PROVE Sparse(Tail(q))
<1>1. /\ Len(q) \in Nat /\ Len(Tail(q)) = Len(q) - 1
      /\ \A i \in 1 .. Len(Tail(q)) : Tail(q)[i] = q[i + 1]
  BY HeadTailProperties, LenProperties
<1> QED BY <1>1 DEF Sparse

(* Every step leaves the packets alone, pushes one, takes one or drops all. *)
LEMMA StepsOfTx ==
    ASSUME EngineInv, [EngineOpenNext]_engineVars
    PROVE  \/ tx' = tx
           \/ \E p \in Packets : tx' = Pushed(tx, p)
           \/ tx # <<>> /\ tx' = Tail(tx)
           \/ tx' = <<>>
<1>1. CASE Handle
  BY <1>1
     DEF Handle, HandleMount, HandleUnexpectedMount, HandleUnmount, HandleGetInfo, HandleDockBegin,
         HandleOtherXfer, HandleConnected, HandleDisconnected, HandleData, HandleShortPress,
         HandleLongPress, Receive
<1>2. CASE MakeCall
  BY <1>2
     DEF MakeCall, LocalCall, DoResetTx, Reset, DoPush, PushBack, DoSetHdmi, DoEnablePairing,
         DoPostLed, DoControl, StartControl, RefuseControlOut
<1>3. CASE (\E m \in Messages : Arrive(m)) \/ TakePacket \/ LedTask \/ BtInitComplete
  BY <1>3 DEF Arrive, TakePacket, PopFront, LedTask, BtInitComplete
<1>4. CASE UNCHANGED engineVars
  BY <1>4 DEF engineVars
<1> QED BY <1>1, <1>2, <1>3, <1>4 DEF EngineOpenNext

LEMMA OpenNoAdjacentData == EngineOpen => []NoAdjacentData
<1>1. EngineInit => NoAdjacentData
  <2> SUFFICES ASSUME EngineInit PROVE Len(tx) = 0
    BY DEF NoAdjacentData
  <2> QED BY DEF EngineInit
<1>2. ASSUME EngineInv, NoAdjacentData, [EngineOpenNext]_engineVars PROVE NoAdjacentData'
  <2>1. tx \in Seq(Packets) /\ Sparse(tx)
    BY <1>2 DEF EngineInv, EngineTypeOK, NoAdjacentData, Sparse
  <2>2. Sparse(<<>>)
    BY DEF Sparse
  <2>3. Sparse(tx')
    BY <1>2, <2>1, <2>2, StepsOfTx, PushedSparse, TailSparse
  <2> QED BY <2>3 DEF NoAdjacentData, Sparse
<1> QED BY <1>1, <1>2, InitInv, NextKeepsInv, PTL DEF EngineOpen

(* Data packets alone cannot make the queue grow, whatever the gamepads and  *)
(* the handheld do: between two of them there is a connect or a disconnect.  *)
THEOREM TxNoAdjacentData == EngineSpec => []NoAdjacentData
BY OpenNoAdjacentData, EngineIsOpen, PTL

-----------------------------------------------------------------------------
(* Sessions.  The dock's session lasts while the handheld is docked, the     *)
(* pairing session as long as the engine keeps it.                           *)
Sessions == {"DockActive", "BluetoothPairing"}
Open(s) == IF s = "DockActive" THEN handheld = "Active" ELSE pairing
OpenNext(s) == IF s = "DockActive" THEN handheld' = "Active" ELSE pairing'

(* What the calls of a handler say of the sessions it opens and closes: each *)
(* EnablePairing brings scanning where the session is, and an LED message is *)
(* among them exactly when the session it is about opens or closes.          *)
Program(calls) ==
    /\ calls \in Seq(Calls)
    /\ \A i \in DOMAIN calls :
          /\ calls[i].op = "EnablePairing" => (calls[i].on <=> pairing')
          /\ calls[i].op = "PostLed" =>
                /\ calls[i].state \in Sessions
                /\ calls[i].set <=> OpenNext(calls[i].state)
                /\ \A j \in DOMAIN calls : calls[j].op = "PostLed" => i = j
    /\ (pairing' <=> pairing) \/ \E i \in DOMAIN calls : calls[i].op = "EnablePairing"
    /\ \A s \in Sessions :
          ~(OpenNext(s) <=> Open(s)) <=>
              \E i \in DOMAIN calls : calls[i].op = "PostLed" /\ calls[i].state = s

(* Calls that are about neither session. *)
Aside(calls) ==
    /\ calls \in Seq(Calls)
    /\ \A i \in DOMAIN calls : calls[i].op \notin {"EnablePairing", "PostLed"}

LEMMA AsideIsProgram ==
    ASSUME NEW calls, Aside(calls), (handheld' = "Active") <=> (handheld = "Active"),
           pairing' <=> pairing
    PROVE  Program(calls)
BY DEF Aside, Program, Open, OpenNext

LEMMA NothingIsAside == Aside(<<>>)
BY DEF Aside

LEMMA ProgramThenAside ==
    ASSUME NEW s, NEW t, Program(s), Aside(t) PROVE Program(s \o t)
<1>1. s \in Seq(Calls) /\ t \in Seq(Calls)
  BY DEF Program, Aside
<1>2. /\ s \o t \in Seq(Calls) /\ Len(s \o t) = Len(s) + Len(t)
      /\ \A i \in 1 .. Len(s) + Len(t) :
            (s \o t)[i] = IF i <= Len(s) THEN s[i] ELSE t[i - Len(s)]
  BY <1>1, ConcatProperties
<1>3. /\ Len(s) \in Nat /\ Len(t) \in Nat
      /\ DOMAIN s = 1 .. Len(s) /\ DOMAIN t = 1 .. Len(t)
      /\ DOMAIN (s \o t) = 1 .. Len(s) + Len(t)
  BY <1>1, <1>2, LenProperties
<1>4. ASSUME NEW i \in DOMAIN (s \o t)
      PROVE  \/ i \in DOMAIN s /\ (s \o t)[i] = s[i]
             \/ (s \o t)[i].op \notin {"EnablePairing", "PostLed"}
  <2>1. CASE i \in DOMAIN s
    BY <1>2, <1>3, <2>1
  <2>2. CASE i \notin DOMAIN s
    <3>1. i - Len(s) \in DOMAIN t /\ (s \o t)[i] = t[i - Len(s)]
      BY <1>2, <1>3, <2>2
    <3> QED BY <3>1 DEF Aside
  <2> QED BY <2>1, <2>2
<1>5. \A i \in DOMAIN s : i \in DOMAIN (s \o t) /\ (s \o t)[i] = s[i]
  BY <1>2, <1>3
<1> DEFINE c == s \o t
<1>6. /\ c \in Seq(Calls)
      /\ \A i \in DOMAIN c : \/ i \in DOMAIN s /\ c[i] = s[i]
                             \/ c[i].op \notin {"EnablePairing", "PostLed"}
      /\ \A i \in DOMAIN s : i \in DOMAIN c /\ c[i] = s[i]
  BY <1>2, <1>4, <1>5
<1> HIDE DEF c
<1>7. Program(c)
  BY <1>6 DEF Program
<1> QED BY <1>7 DEF c

(* The calls that open and close a pairing session. *)
LEMMA PairingProgram ==
    ASSUME NEW on \in BOOLEAN, pairing' <=> on, ~(pairing <=> on), handheld' = handheld
    PROVE  Program(<<EnablePairing(on), PostLed("BluetoothPairing", on)>>)
<1> DEFINE a == EnablePairing(on)
           b == PostLed("BluetoothPairing", on)
<1>1. a \in Calls /\ b \in Calls
  BY CallTypes DEF LedStates
<1>2. /\ a.op = "EnablePairing" /\ a.on = on
      /\ b.op = "PostLed" /\ b.state = "BluetoothPairing" /\ b.set = on
  BY DEF EnablePairing, PostLed
<1> HIDE DEF a, b
<1>3. <<a, b>> \in Seq(Calls) /\ DOMAIN <<a, b>> = {1, 2}
      /\ <<a, b>>[1] = a /\ <<a, b>>[2] = b
  BY <1>1, ShortPrograms
<1> DEFINE c == <<a, b>>
<1> HIDE DEF c
<1>4. c \in Seq(Calls) /\ DOMAIN c = {1, 2} /\ c[1] = a /\ c[2] = b
  BY <1>3 DEF c
<1>5. Program(c)
  BY <1>2, <1>4 DEF Program, Open, OpenNext, Sessions
<1> QED BY <1>5 DEF a, b, c

LEMMA TellIsAside ==
    ASSUME NEW id \in GamepadId, NEW r \in {"CONNECT", "DISCONNECT", "DATA"}
    PROVE  Aside(Tell(r, id))
<1>1. Push(r, id) \in Calls /\ Push(r, id).op = "Push"
  BY CallTypes DEF Push, Packet, Packets
<1>2. <<Push(r, id)>> \in Seq(Calls) /\ DOMAIN <<Push(r, id)>> = {1}
      /\ <<Push(r, id)>>[1] = Push(r, id)
  BY <1>1, ShortPrograms
<1>3. Aside(<<Push(r, id)>>)
  BY <1>1, <1>2 DEF Aside
<1> QED BY <1>3, NothingIsAside DEF Tell

(* Every handler's calls are such a program. *)
Received == \E m, calls : Receive(m, calls) /\ Program(calls)

LEMMA QuietReceives ==
    ASSUME NEW m, Receive(m, <<>>), (handheld' = "Active") <=> (handheld = "Active"),
           pairing' = pairing
    PROVE  Received
BY NothingIsAside, AsideIsProgram DEF Received

LEMMA MountReceives == ASSUME HandleMount PROVE Received
<1> DEFINE calls == <<ResetTx, Control("GET_INFO")>>
<1>1. ResetTx \in Calls /\ Control("GET_INFO") \in Calls
  BY CallTypes DEF Requests
<1>2. ResetTx.op = "ResetTx" /\ Control("GET_INFO").op = "Control"
  BY DEF ResetTx, Control
<1>3. calls \in Seq(Calls) /\ DOMAIN calls = {1, 2}
      /\ calls[1] = ResetTx /\ calls[2] = Control("GET_INFO")
  BY <1>1, ShortPrograms
<1>4. Receive(Mount, calls) /\ handheld = "None" /\ handheld' = "WaitForGetInfo"
      /\ pairing' = pairing
  BY DEF HandleMount
<1> HIDE DEF calls
<1>5. Aside(calls)
  BY <1>2, <1>3 DEF Aside
<1> QED BY <1>4, <1>5, AsideIsProgram DEF Received

LEMMA UnmountReceives == ASSUME HandleUnmount PROVE Received
<1> DEFINE start == <<ResetTx, SetHdmi(FALSE)>>
           last == PostLed("DockActive", FALSE)
           calls == <<ResetTx, SetHdmi(FALSE), last>>
<1>1. ResetTx \in Calls /\ SetHdmi(FALSE) \in Calls /\ last \in Calls
  BY CallTypes DEF LedStates
<1>2. /\ ResetTx.op = "ResetTx" /\ SetHdmi(FALSE).op = "SetHdmi"
      /\ last.op = "PostLed" /\ last.state = "DockActive" /\ last.set = FALSE
  BY DEF ResetTx, SetHdmi, PostLed
<1>3. handheld' = "None" /\ pairing' = pairing
  BY DEF HandleUnmount
<1>4. CASE handheld = "None" /\ Receive(Unmount, <<>>)
  BY <1>3, <1>4, QuietReceives
<1>5. CASE handheld \in {"WaitForGetInfo", "WaitForDockBegin", "Error"} /\ Receive(Unmount, start)
  <2>1. start \in Seq(Calls) /\ DOMAIN start = {1, 2}
        /\ start[1] = ResetTx /\ start[2] = SetHdmi(FALSE)
    BY <1>1, ShortPrograms
  <2> HIDE DEF start
  <2>2. Aside(start)
    BY <1>2, <2>1 DEF Aside
  <2> QED BY <1>3, <1>5, <2>2, AsideIsProgram DEF Received
<1>6. CASE handheld = "Active" /\ Receive(Unmount, calls)
  <2> DEFINE reset == ResetTx
             hdmi0 == SetHdmi(FALSE)
  <2>1. calls \in Seq(Calls) /\ DOMAIN calls = {1, 2, 3}
        /\ calls[1] = ResetTx /\ calls[2] = SetHdmi(FALSE) /\ calls[3] = last
    <3>1. reset \in Calls /\ hdmi0 \in Calls /\ last \in Calls
      BY <1>1
    <3> HIDE DEF reset, hdmi0, last
    <3>2. <<reset, hdmi0, last>> \in Seq(Calls)
      BY <3>1
    <3>3. DOMAIN <<reset, hdmi0, last>> = {1, 2, 3}
      OBVIOUS
    <3> QED BY <3>2, <3>3 DEF reset, hdmi0
  <2> HIDE DEF last, calls
  <2>2. Program(calls)
    BY <1>2, <1>3, <1>6, <2>1 DEF Program, Open, OpenNext, Sessions
  <2> QED BY <1>6, <2>2 DEF Received
<1> QED BY <1>4, <1>5, <1>6 DEF HandleUnmount

LEMMA GetInfoReceives == ASSUME HandleGetInfo PROVE Received
<1> DEFINE calls == <<Control("DOCK_BEGIN")>>
<1>1. calls \in Seq(Calls) /\ DOMAIN calls = {1} /\ calls[1] = Control("DOCK_BEGIN")
  BY CallTypes, ShortPrograms DEF Requests
<1>2. Control("DOCK_BEGIN").op = "Control"
  BY DEF Control
<1>3. handheld # "Active" /\ handheld' # "Active" /\ pairing' = pairing
  BY DEF HandleGetInfo
<1>4. \/ Receive(XferComplete("GET_INFO", "ok"), calls)
      \/ \E o \in Outcomes : Receive(XferComplete("GET_INFO", o), <<>>)
  BY DEF HandleGetInfo, Outcomes
<1> HIDE DEF calls
<1>5. Aside(calls)
  BY <1>1, <1>2 DEF Aside
<1> QED BY <1>3, <1>4, <1>5, AsideIsProgram, QuietReceives DEF Received

LEMMA DockBeginReceives == ASSUME EngineInv, HandleDockBegin PROVE Received
<1> DEFINE led == PostLed("DockActive", TRUE)
           opening == <<SetHdmi(TRUE), led>>
<1>1. handheld # "Active" /\ pairing' = pairing
  BY DEF HandleDockBegin
<1>2. CASE handheld' = "Error" /\ Receive(XferComplete("DOCK_BEGIN", "failed"), <<>>)
  BY <1>1, <1>2, QuietReceives
<1>3. ASSUME NEW o \in Outcomes, NEW announce \in Announcements,
             Receive(XferComplete("DOCK_BEGIN", o), opening \o announce), handheld' = "Active"
      PROVE  Received
  <2>1. SetHdmi(TRUE) \in Calls /\ led \in Calls
    BY CallTypes DEF LedStates
  <2>2. /\ SetHdmi(TRUE).op = "SetHdmi"
        /\ led.op = "PostLed" /\ led.state = "DockActive" /\ led.set = TRUE
    BY DEF SetHdmi, PostLed
  <2> HIDE DEF led
  <2>3. opening \in Seq(Calls) /\ DOMAIN opening = {1, 2}
        /\ opening[1] = SetHdmi(TRUE) /\ opening[2] = led
    BY <2>1, ShortPrograms
  <2> HIDE DEF opening
  <2>4. Program(opening)
    BY <1>1, <1>3, <2>2, <2>3 DEF Program, Open, OpenNext, Sessions
  <2>5. Aside(announce)
    BY AnnouncementsType DEF EngineInv, EngineTypeOK, Aside
  <2> QED BY <1>3, <2>4, <2>5, ProgramThenAside DEF Received
<1> QED BY <1>2, <1>3 DEF HandleDockBegin, Outcomes

LEMMA ConnectedReceives ==
    ASSUME NEW id \in GamepadId, NEW wired \in BOOLEAN, HandleConnected(id, wired)
    PROVE  Received
<1> DEFINE ending == IF ~wired /\ pairing THEN EndPairing ELSE <<>>
<1>1. handheld' = handheld /\ pairing' = (pairing /\ wired)
      /\ Receive(Connected(id, wired), ending \o Tell("CONNECT", id))
  BY DEF HandleConnected
<1>2. Program(ending)
  <2>1. CASE ~wired /\ pairing
    BY <1>1, <2>1, PairingProgram DEF EndPairing
  <2>2. CASE ~(~wired /\ pairing)
    BY <1>1, <2>2, NothingIsAside, AsideIsProgram
  <2> QED BY <2>1, <2>2
<1> HIDE DEF ending
<1> QED BY <1>1, <1>2, TellIsAside, ProgramThenAside DEF Received

LEMMA LongPressReceives == ASSUME EngineInv, HandleLongPress PROVE Received
<1>1. handheld' = handheld /\ pairing' = ~pairing /\ pairing \in BOOLEAN
      /\ Receive(LongPress, IF pairing THEN EndPairing ELSE BeginPairing)
  BY DEF HandleLongPress, EngineInv, EngineTypeOK
<1>2. CASE pairing
  BY <1>1, <1>2, PairingProgram DEF EndPairing, Received
<1>3. CASE ~pairing
  BY <1>1, <1>3, PairingProgram DEF BeginPairing, Received
<1> QED BY <1>2, <1>3

LEMMA HandleReceives == ASSUME EngineInv, Handle PROVE Received
<1>1. ASSUME NEW m, Receive(m, <<>>), UNCHANGED engineOnly PROVE Received
  BY <1>1, QuietReceives DEF engineOnly
<1>2. ASSUME NEW id \in GamepadId, HandleDisconnected(id) PROVE Received
  BY <1>2, TellIsAside, AsideIsProgram DEF HandleDisconnected, Received
<1>3. ASSUME NEW id \in GamepadId, HandleData(id) PROVE Received
  BY <1>3, TellIsAside, AsideIsProgram DEF HandleData, engineOnly, Received
<1>4. CASE HandleUnexpectedMount \/ HandleOtherXfer \/ HandleShortPress
  BY <1>1, <1>4 DEF HandleUnexpectedMount, HandleOtherXfer, HandleShortPress
<1> QED
  BY <1>2, <1>3, <1>4, MountReceives, UnmountReceives, GetInfoReceives, DockBeginReceives,
     ConnectedReceives, LongPressReceives DEF Handle

-----------------------------------------------------------------------------
(* Scanning follows the pairing session. *)
CallsScan == \A i \in DOMAIN todo : todo[i].op = "EnablePairing" => (todo[i].on <=> pairing)
ScanInv == CallsScan /\ PairingScans

LEMMA InitScan == EngineInit => ScanInv
BY DEF EngineInit, ScanInv, CallsScan, PairingScans

LEMMA NextKeepsScan == ASSUME EngineInv, ScanInv, [EngineOpenNext]_engineVars PROVE ScanInv'
<1>1. todo \in Seq(Calls)
  BY DEF EngineInv, EngineTypeOK
<1>2. CASE Handle
  <2>1. PICK m, calls : Receive(m, calls) /\ Program(calls)
    BY <1>2, HandleReceives DEF Received
  <2>2. todo' = calls /\ DOMAIN todo = {} /\ scanning' = scanning
    BY <2>1 DEF Receive
  <2>3. CallsScan'
    BY <2>1, <2>2 DEF CallsScan, Program
  <2>4. PairingScans'
    BY <2>1, <2>2 DEF ScanInv, PairingScans, Program
  <2> QED BY <2>3, <2>4 DEF ScanInv
<1>3. ASSUME NEW c, Call(c), pairing' = pairing,
             IF c.op = "EnablePairing" THEN scanning' <=> c.on ELSE scanning' = scanning
      PROVE  ScanInv'
  <2>1. /\ c = todo[1] /\ 1 \in DOMAIN todo
        /\ \A i \in DOMAIN todo' : i + 1 \in DOMAIN todo /\ todo'[i] = todo[i + 1]
        /\ \A i \in DOMAIN todo : i # 1 => i - 1 \in DOMAIN todo' /\ todo'[i - 1] = todo[i]
    BY <1>1, <1>3, CallShortens
  <2>2. CallsScan'
    BY <1>3, <2>1 DEF ScanInv, CallsScan
  <2>3. CASE c.op = "EnablePairing"
    <3>1. c.on <=> pairing
      BY <2>1, <2>3 DEF ScanInv, CallsScan
    <3>2. pairing' => scanning'
      BY <1>3, <2>3, <3>1
    <3>3. PairingScans'
      BY <3>2 DEF PairingScans
    <3> QED BY <2>2, <3>3 DEF ScanInv
  <2>4. CASE c.op # "EnablePairing"
    <3>1. ASSUME \A i \in DOMAIN todo' : todo'[i].op # "EnablePairing"
          PROVE  \A i \in DOMAIN todo : todo[i].op # "EnablePairing"
      BY <2>1, <2>4, <3>1
    <3>2. PairingScans'
      BY <1>3, <2>4, <3>1 DEF ScanInv, PairingScans
    <3> QED BY <2>2, <3>2 DEF ScanInv
  <2> QED BY <2>2, <2>3, <2>4 DEF ScanInv
<1>4. CASE DoEnablePairing
  <2>1. PICK on \in BOOLEAN : Call(EnablePairing(on)) /\ scanning' = on
    BY <1>4 DEF DoEnablePairing
  <2>2. EnablePairing(on).op = "EnablePairing" /\ EnablePairing(on).on = on
    BY DEF EnablePairing
  <2> QED BY <1>3, <1>4, <2>1, <2>2 DEF DoEnablePairing, engineOnly
<1>5. CASE MakeCall /\ ~DoEnablePairing
  <2>1. PICK c : Call(c) /\ c.op # "EnablePairing"
    <3>1. /\ ResetTx.op # "EnablePairing"
          /\ \A on : SetHdmi(on).op # "EnablePairing"
          /\ \A s, b : PostLed(s, b).op # "EnablePairing"
          /\ \A r : Control(r).op # "EnablePairing"
          /\ \A p : [op |-> "Push", packet |-> p].op # "EnablePairing"
      BY DEF ResetTx, SetHdmi, PostLed, Control
    <3> QED
      BY <1>5, <3>1
         DEF MakeCall, LocalCall, DoResetTx, DoPush, DoSetHdmi, DoPostLed, DoControl,
             StartControl, RefuseControlOut
  <2>2. pairing' = pairing /\ scanning' = scanning
    BY <1>5
       DEF MakeCall, LocalCall, DoResetTx, DoPush, DoSetHdmi, DoPostLed, DoControl,
           StartControl, RefuseControlOut, engineOnly
  <2> QED BY <1>3, <2>1, <2>2
<1>6. CASE BtInitComplete
  BY <1>6 DEF BtInitComplete, engineOnly, ScanInv, CallsScan, PairingScans
<1>7. CASE (\E m \in Messages : Arrive(m)) \/ TakePacket \/ LedTask \/ UNCHANGED engineVars
  BY <1>7
     DEF Arrive, TakePacket, LedTask, engineVars, engineOnly, ScanInv, CallsScan, PairingScans
<1> QED BY <1>2, <1>4, <1>5, <1>6, <1>7 DEF EngineOpenNext

LEMMA OpenPairingScans == EngineOpen => []PairingScans
<1>1. EngineInv /\ ScanInv /\ [EngineOpenNext]_engineVars => (EngineInv /\ ScanInv)'
  BY NextKeepsInv, NextKeepsScan
<1>2. ScanInv => PairingScans
  BY DEF ScanInv
<1> QED BY <1>1, <1>2, InitInv, InitScan, PTL DEF EngineOpen

(* While a pairing session is open Bluetooth scans, whatever else the engine *)
(* does in between and whenever the stack's own start completes.             *)
THEOREM PairingKeepsScanning == EngineSpec => []PairingScans
BY OpenPairingScans, EngineIsOpen, PTL

-----------------------------------------------------------------------------
(* The LED messages of one state are a chain: the first changes what the LED *)
(* task has counted so far (`held'), each changes what the one before it     *)
(* said, and the last says what the engine wants in the end (`wanted').      *)
First(q, s, i) == q[i].state = s /\ \A k \in 1 .. i - 1 : q[k].state # s
Final(q, s, i) == q[i].state = s /\ \A k \in i + 1 .. Len(q) : q[k].state # s
Follows(q, s, i, j) ==
    q[i].state = s /\ q[j].state = s /\ i < j /\ \A k \in i + 1 .. j - 1 : q[k].state # s

Chain(q, s, held, wanted) ==
    /\ \A i \in 1 .. Len(q) : First(q, s, i) => (q[i].set <=> ~held)
    /\ \A i, j \in 1 .. Len(q) : Follows(q, s, i, j) => (q[i].set <=> ~q[j].set)
    /\ \A i \in 1 .. Len(q) : Final(q, s, i) => (q[i].set <=> wanted)
    /\ (\A i \in 1 .. Len(q) : q[i].state # s) => (held <=> wanted)

(* A message of another state changes nothing about the chain. *)
LEMMA ChainAppendOther ==
    ASSUME NEW q \in Seq(LedMessages), NEW m \in LedMessages, NEW s,
           NEW held \in BOOLEAN, NEW wanted \in BOOLEAN,
           Chain(q, s, held, wanted), m.state # s
    PROVE  Chain(Append(q, m), s, held, wanted)
<1> DEFINE a == Append(q, m)
<1>1. /\ Len(q) \in Nat /\ Len(a) = Len(q) + 1 /\ a[Len(q) + 1] = m
      /\ \A i \in 1 .. Len(q) : a[i] = q[i]
  BY AppendProperties, LenProperties
<1> HIDE DEF a
<1>2. \A i \in 1 .. Len(a) : i = Len(q) + 1 \/ i \in 1 .. Len(q)
  BY <1>1
<1>3. ASSUME NEW i \in 1 .. Len(a), First(a, s, i) PROVE a[i].set <=> ~held
  <2>1. i \in 1 .. Len(q)
    BY <1>1, <1>2, <1>3 DEF First
  <2>2. First(q, s, i)
    BY <1>1, <1>3, <2>1 DEF First
  <2> QED BY <1>1, <2>1, <2>2 DEF Chain
<1>4. ASSUME NEW i \in 1 .. Len(a), NEW j \in 1 .. Len(a), Follows(a, s, i, j)
      PROVE  a[i].set <=> ~a[j].set
  <2>1. i \in 1 .. Len(q) /\ j \in 1 .. Len(q)
    BY <1>1, <1>2, <1>4 DEF Follows
  <2>2. Follows(q, s, i, j)
    <3>1. q[i].state = s /\ q[j].state = s /\ i < j
      BY <1>1, <1>4, <2>1 DEF Follows
    <3>2. ASSUME NEW k \in i + 1 .. j - 1 PROVE q[k].state # s
      <4>1. k \in 1 .. Len(q)
        BY <1>1, <2>1
      <4> QED BY <1>1, <1>4, <4>1 DEF Follows
    <3> QED BY <3>1, <3>2 DEF Follows
  <2> QED BY <1>1, <2>1, <2>2 DEF Chain
<1>5. ASSUME NEW i \in 1 .. Len(a), Final(a, s, i) PROVE a[i].set <=> wanted
  <2>1. i \in 1 .. Len(q)
    BY <1>1, <1>2, <1>5 DEF Final
  <2>2. Final(q, s, i)
    BY <1>1, <1>5, <2>1 DEF Final
  <2> QED BY <1>1, <2>1, <2>2 DEF Chain
<1>6. (\A i \in 1 .. Len(a) : a[i].state # s) => (held <=> wanted)
  BY <1>1 DEF Chain
<1>7. Chain(a, s, held, wanted)
  BY <1>3, <1>4, <1>5, <1>6 DEF Chain
<1> QED BY <1>7 DEF a

(* A message that changes what is wanted lengthens it. *)
LEMMA ChainAppend ==
    ASSUME NEW q \in Seq(LedMessages), NEW m \in LedMessages, NEW s,
           NEW held \in BOOLEAN, NEW wanted \in BOOLEAN,
           Chain(q, s, held, wanted), m.state = s, m.set <=> ~wanted
    PROVE  Chain(Append(q, m), s, held, ~wanted)
<1> DEFINE a == Append(q, m)
           n == Len(q)
<1>1. /\ n \in Nat /\ Len(a) = n + 1 /\ a[n + 1] = m
      /\ \A i \in 1 .. n : a[i] = q[i]
  BY AppendProperties, LenProperties
<1> HIDE DEF a
<1>2. \A i \in 1 .. Len(a) : i = n + 1 \/ i \in 1 .. n
  BY <1>1
<1>3. ASSUME NEW i \in 1 .. Len(a), First(a, s, i) PROVE a[i].set <=> ~held
  <2>1. CASE i \in 1 .. n
    <3>1. First(q, s, i)
      BY <1>1, <1>3, <2>1 DEF First
    <3> QED BY <1>1, <2>1, <3>1 DEF Chain
  <2>2. CASE i = n + 1
    <3>1. \A k \in 1 .. n : q[k].state # s
      BY <1>1, <1>3, <2>2 DEF First
    <3> QED BY <1>1, <2>2, <3>1 DEF Chain
  <2> QED BY <1>2, <2>1, <2>2
<1>4. ASSUME NEW i \in 1 .. Len(a), NEW j \in 1 .. Len(a), Follows(a, s, i, j)
      PROVE  a[i].set <=> ~a[j].set
  <2>1. i \in 1 .. n
    BY <1>1, <1>2, <1>4 DEF Follows
  <2>2. CASE j \in 1 .. n
    <3>1. Follows(q, s, i, j)
      BY <1>1, <1>4, <2>1, <2>2 DEF Follows
    <3> QED BY <1>1, <2>1, <2>2, <3>1 DEF Chain
  <2>3. CASE j = n + 1
    <3>1. q[i].state = s /\ \A k \in i + 1 .. n : k \in 1 .. n /\ a[k].state # s
      BY <1>1, <1>4, <2>1, <2>3 DEF Follows
    <3>2. Final(q, s, i)
      BY <1>1, <3>1 DEF Final
    <3>3. q[i].set <=> wanted
      BY <2>1, <3>2 DEF Chain
    <3> QED BY <1>1, <2>1, <2>3, <3>3
  <2> QED BY <1>2, <2>2, <2>3
<1>5. ASSUME NEW i \in 1 .. Len(a), Final(a, s, i) PROVE a[i].set <=> ~wanted
  <2>1. CASE i \in 1 .. n
    <3>1. n + 1 \in i + 1 .. Len(a)
      BY <1>1, <2>1
    <3> QED BY <1>1, <1>5, <3>1 DEF Final
  <2> QED BY <1>1, <1>2, <2>1
<1>6. \E i \in 1 .. Len(a) : a[i].state = s
  <2>1. n + 1 \in 1 .. Len(a)
    BY <1>1
  <2> QED BY <1>1, <2>1
<1>7. Chain(a, s, held, ~wanted)
  BY <1>3, <1>4, <1>5, <1>6 DEF Chain
<1> QED BY <1>7 DEF a

(* Taking the message at the front: the chain goes on from what it said. *)
LEMMA ChainTail ==
    ASSUME NEW q \in Seq(LedMessages), q # <<>>, NEW s,
           NEW held \in BOOLEAN, NEW wanted \in BOOLEAN, Chain(q, s, held, wanted)
    PROVE  /\ Head(q).state = s =>
                 (Head(q).set <=> ~held) /\ Chain(Tail(q), s, ~held, wanted)
           /\ Head(q).state # s => Chain(Tail(q), s, held, wanted)
<1> DEFINE t == Tail(q)
           n == Len(q)
<1>1. /\ n \in Nat /\ n >= 1 /\ Len(t) = n - 1 /\ Head(q) = q[1]
      /\ \A i \in 1 .. Len(t) : t[i] = q[i + 1]
  BY HeadTailProperties, LenProperties, EmptySeq
<1> HIDE DEF t
<1>2. \A i \in 1 .. Len(t) : i + 1 \in 1 .. n
  BY <1>1
<1>3. ASSUME NEW i \in 1 .. Len(t), NEW j \in 1 .. Len(t), Follows(t, s, i, j)
      PROVE  t[i].set <=> ~t[j].set
  <2>1. \A k \in i + 2 .. j : k - 1 \in i + 1 .. j - 1 /\ t[k - 1] = q[k]
    BY <1>1
  <2>2. t[i] = q[i + 1] /\ t[j] = q[j + 1] /\ i \in Nat /\ j \in Nat
    BY <1>1
  <2>3. \A k \in i + 2 .. j : q[k].state # s
    BY <1>3, <2>1 DEF Follows
  <2>4. (i + 1) + 1 = i + 2 /\ (j + 1) - 1 = j
    BY <2>2
  <2>5. q[i + 1].state = s /\ q[j + 1].state = s /\ i + 1 < j + 1
    BY <1>3, <2>2 DEF Follows
  <2>6. Follows(q, s, i + 1, j + 1)
    BY <2>3, <2>4, <2>5 DEF Follows
  <2> QED BY <1>2, <2>2, <2>6 DEF Chain
<1>4. ASSUME NEW i \in 1 .. Len(t), Final(t, s, i) PROVE t[i].set <=> wanted
  <2>1. \A k \in i + 2 .. n : k - 1 \in i + 1 .. Len(t) /\ t[k - 1] = q[k]
    BY <1>1
  <2>2. Final(q, s, i + 1)
    BY <1>1, <1>4, <2>1 DEF Final
  <2> QED BY <1>1, <1>2, <2>2 DEF Chain
<1>5. \A k \in 2 .. n : k - 1 \in 1 .. Len(t) /\ t[k - 1] = q[k]
  BY <1>1
<1>6. CASE Head(q).state = s
  <2>1. 1 \in 1 .. n /\ First(q, s, 1)
    BY <1>1, <1>6 DEF First
  <2>2. Head(q).set <=> ~held
    BY <1>1, <2>1 DEF Chain
  <2>3. ASSUME NEW i \in 1 .. Len(t), First(t, s, i) PROVE t[i].set <=> held
    <3>1. \A k \in 2 .. i : k \in 2 .. n /\ k - 1 \in 1 .. i - 1
      BY <1>1
    <3>2. Follows(q, s, 1, i + 1)
      BY <1>1, <1>5, <1>6, <2>3, <3>1 DEF Follows, First
    <3>3. q[1].set <=> ~q[i + 1].set
      BY <1>2, <2>1, <3>2 DEF Chain
    <3> QED BY <1>1, <2>2, <3>3
  <2>4. ASSUME \A i \in 1 .. Len(t) : t[i].state # s PROVE ~held <=> wanted
    <3>1. Final(q, s, 1)
      BY <1>1, <1>5, <1>6, <2>4 DEF Final
    <3>2. q[1].set <=> wanted
      BY <2>1, <3>1 DEF Chain
    <3> QED BY <1>1, <2>2, <3>2
  <2>5. Chain(t, s, ~held, wanted)
    BY <1>3, <1>4, <2>3, <2>4 DEF Chain
  <2> QED BY <1>6, <2>2, <2>5 DEF t
<1>7. CASE Head(q).state # s
  <2>1. ASSUME NEW i \in 1 .. Len(t), First(t, s, i) PROVE t[i].set <=> ~held
    <3>1. \A k \in 2 .. i : k \in 2 .. n /\ k - 1 \in 1 .. i - 1
      BY <1>1
    <3>2. \A k \in 1 .. i : k = 1 \/ k \in 2 .. i
      BY <1>1
    <3>3. \A k \in 1 .. i : q[k].state # s
      BY <1>1, <1>5, <1>7, <2>1, <3>1, <3>2 DEF First
    <3>4. (i + 1) - 1 = i /\ q[i + 1] = t[i]
      BY <1>1
    <3>5. First(q, s, i + 1)
      BY <2>1, <3>3, <3>4 DEF First
    <3> QED BY <1>2, <3>4, <3>5 DEF Chain
  <2>2. ASSUME \A i \in 1 .. Len(t) : t[i].state # s PROVE held <=> wanted
    <3>1. \A i \in 1 .. n : i = 1 \/ i \in 2 .. n
      BY <1>1
    <3>2. \A i \in 1 .. n : q[i].state # s
      BY <1>1, <1>5, <1>7, <2>2, <3>1
    <3> QED BY <3>2 DEF Chain
  <2>3. Chain(t, s, held, wanted)
    BY <1>3, <1>4, <2>1, <2>2 DEF Chain
  <2> QED BY <1>7, <2>3 DEF t
<1> QED BY <1>6, <1>7

-----------------------------------------------------------------------------
(* The engine's LED messages.  The handler that is running holds at most     *)
(* one, about a session it has just opened or closed; those it has posted    *)
(* form a chain for each session; every other state is only ever asked for.  *)
Pending(s) == \E i \in DOMAIN todo : todo[i].op = "PostLed" /\ todo[i].state = s
Wanted(s) == IF Pending(s) THEN ~Open(s) ELSE Open(s)

CallsPost ==
    \A i \in DOMAIN todo : todo[i].op = "PostLed" =>
        /\ todo[i].state \in Sessions
        /\ todo[i].set <=> Open(todo[i].state)
        /\ \A j \in DOMAIN todo : todo[j].op = "PostLed" => i = j

Chained ==
    \A s \in Sessions : counts[s] \in {0, 1} /\ Chain(ledQueue, s, counts[s] = 1, Wanted(s))

OthersOnlySet ==
    \A i \in DOMAIN ledQueue : ledQueue[i].state \notin Sessions => ledQueue[i].set

SessionInv == CallsPost /\ Chained /\ OthersOnlySet

LEMMA InitSession == EngineInit => SessionInv
<1> SUFFICES ASSUME EngineInit PROVE SessionInv
  OBVIOUS
<1>1. /\ ledQueue = <<LedMessage("Standby", TRUE)>> /\ counts = [s \in LedStates |-> 0]
      /\ todo = <<>> /\ handheld = "None" /\ pairing = FALSE
  BY DEF EngineInit, LedInit
<1>2. CallsPost
  BY <1>1 DEF CallsPost
<1>3. /\ Len(ledQueue) = 1 /\ DOMAIN ledQueue = {1}
      /\ ledQueue[1].state = "Standby" /\ ledQueue[1].set = TRUE
  BY <1>1 DEF LedMessage
<1>4. OthersOnlySet
  BY <1>3 DEF OthersOnlySet
<1>5. ASSUME NEW s \in Sessions
      PROVE  counts[s] \in {0, 1} /\ Chain(ledQueue, s, counts[s] = 1, Wanted(s))
  <2>1. counts[s] = 0
    BY <1>1, <1>5 DEF Sessions, LedStates
  <2>2. ~Wanted(s)
    BY <1>1 DEF Wanted, Pending, Open
  <2>3. \A i \in 1 .. 1 : ledQueue[i].state # s
    BY <1>3, <1>5 DEF Sessions
  <2> QED BY <1>3, <2>1, <2>2, <2>3 DEF Chain, First, Final, Follows
<1> QED BY <1>2, <1>4, <1>5 DEF SessionInv, Chained

LEMMA WantedType == EngineInv => \A s : Wanted(s) \in BOOLEAN /\ Open(s) \in BOOLEAN
BY DEF EngineInv, EngineTypeOK, Wanted, Open

(* A handler opens and closes sessions and holds the messages that say so:   *)
(* what the LED task is told in the end stays as it was until they are sent. *)
LEMMA HandleKeepsSession == ASSUME EngineInv, SessionInv, Handle PROVE SessionInv'
<1>1. PICK m, calls : Receive(m, calls) /\ Program(calls)
  BY HandleReceives DEF Received
<1>2. todo' = calls /\ todo = <<>> /\ DOMAIN todo = {}
      /\ ledQueue' = ledQueue /\ counts' = counts
  BY <1>1 DEF Receive, ledVars
<1>3. CallsPost'
  BY <1>1, <1>2 DEF CallsPost, Program, Open, OpenNext
<1>4. ASSUME NEW s \in Sessions PROVE Wanted(s)' <=> Wanted(s)
  <2>1. Pending(s)' <=> ~(OpenNext(s) <=> Open(s))
    BY <1>1, <1>2 DEF Program, Pending
  <2>3. Open(s)' <=> OpenNext(s)
    BY DEF Open, OpenNext
  <2>2. ~Pending(s)
    BY <1>2 DEF Pending
  <2> QED BY <2>1, <2>2, <2>3 DEF Wanted
<1>5. Chained'
  BY <1>2, <1>4 DEF SessionInv, Chained, Chain
<1>6. OthersOnlySet'
  BY <1>2 DEF SessionInv, OthersOnlySet
<1> QED BY <1>3, <1>5, <1>6 DEF SessionInv

(* A call that posts nothing. *)
LEMMA OtherCallKeepsSession ==
    ASSUME EngineInv, SessionInv, NEW c, Call(c), c.op # "PostLed",
           UNCHANGED <<ledVars, engineOnly>>
    PROVE  SessionInv'
<1>1. /\ c = todo[1] /\ 1 \in DOMAIN todo
      /\ \A i \in DOMAIN todo' : i + 1 \in DOMAIN todo /\ todo'[i] = todo[i + 1]
      /\ \A i \in DOMAIN todo : i # 1 => i - 1 \in DOMAIN todo' /\ todo'[i - 1] = todo[i]
      /\ DOMAIN todo' \subseteq Nat
  BY CallShortens, LenProperties DEF EngineInv, EngineTypeOK
<1>2. /\ ledQueue' = ledQueue /\ counts' = counts
      /\ handheld' = handheld /\ pairing' = pairing
  BY DEF ledVars, engineOnly
<1>3. \A s : Open(s)' <=> Open(s)
  BY <1>2 DEF Open
<1>4. CallsPost'
  <2> SUFFICES ASSUME NEW i \in DOMAIN todo', todo'[i].op = "PostLed"
               PROVE  /\ todo'[i].state \in Sessions
                      /\ todo'[i].set <=> OpenNext(todo'[i].state)
                      /\ \A j \in DOMAIN todo' : todo'[j].op = "PostLed" => i = j
    BY DEF CallsPost, Open, OpenNext
  <2>1. i + 1 \in DOMAIN todo /\ todo'[i] = todo[i + 1]
    BY <1>1
  <2>2. todo'[i].state \in Sessions /\ (todo'[i].set <=> Open(todo'[i].state))
    BY <2>1 DEF SessionInv, CallsPost
  <2>3. todo'[i].set <=> OpenNext(todo'[i].state)
    BY <1>2, <2>2 DEF Open, OpenNext
  <2>4. ASSUME NEW j \in DOMAIN todo', todo'[j].op = "PostLed" PROVE i = j
    <3>1. i + 1 = j + 1
      BY <1>1, <2>1, <2>4 DEF SessionInv, CallsPost
    <3> QED BY <1>1, <3>1
  <2> QED BY <2>2, <2>3, <2>4
<1>5. \A s : Pending(s)' <=> Pending(s)
  <2>1. ASSUME NEW s, Pending(s) PROVE Pending(s)'
    <3>1. PICK i \in DOMAIN todo : todo[i].op = "PostLed" /\ todo[i].state = s
      BY <2>1 DEF Pending
    <3>2. i - 1 \in DOMAIN todo' /\ todo'[i - 1] = todo[i]
      BY <1>1, <3>1
    <3> QED BY <3>1, <3>2 DEF Pending
  <2>2. ASSUME NEW s, Pending(s)' PROVE Pending(s)
    BY <1>1, <2>2 DEF Pending
  <2> QED BY <2>1, <2>2
<1>6. Chained'
  BY <1>2, <1>3, <1>5 DEF SessionInv, Chained, Chain, Wanted
<1>7. OthersOnlySet'
  BY <1>2 DEF SessionInv, OthersOnlySet
<1> QED BY <1>4, <1>6, <1>7 DEF SessionInv

(* The message is posted: it is the next of its session's chain. *)
LEMMA PostLedKeepsSession == ASSUME EngineInv, SessionInv, DoPostLed PROVE SessionInv'
<1>1. PICK s \in LedStates, b \in BOOLEAN : Call(PostLed(s, b)) /\ LedSend(s, b)
  BY DEF DoPostLed
<1> DEFINE c == PostLed(s, b)
           m == LedMessage(s, b)
<1>2. c.op = "PostLed" /\ c.state = s /\ c.set = b
  BY DEF PostLed
<1>3. m \in LedMessages /\ m.state = s /\ m.set = b
  BY DEF LedMessage, LedMessages
<1>4. ledQueue' = Append(ledQueue, m) /\ counts' = counts /\ ledQueue \in Seq(LedMessages)
  BY <1>1 DEF LedSend, EngineInv, EngineTypeOK, LedTypeOK
<1>5. handheld' = handheld /\ pairing' = pairing
  BY DEF DoPostLed, engineOnly
<1> HIDE DEF c, m
<1>6. Call(c)
  BY <1>1 DEF c
<1>7. /\ c = todo[1] /\ 1 \in DOMAIN todo
      /\ \A i \in DOMAIN todo' : i + 1 \in DOMAIN todo /\ todo'[i] = todo[i + 1]
      /\ DOMAIN todo' \subseteq Nat \ {0}
  BY <1>6, CallShortens, LenProperties DEF EngineInv, EngineTypeOK
<1>8. s \in Sessions /\ (b <=> Open(s))
      /\ \A j \in DOMAIN todo : todo[j].op = "PostLed" => j = 1
  BY <1>2, <1>7 DEF SessionInv, CallsPost
<1>9. \A i \in DOMAIN todo' : todo'[i].op # "PostLed"
  <2> SUFFICES ASSUME NEW i \in DOMAIN todo', todo'[i].op = "PostLed" PROVE FALSE
    OBVIOUS
  <2>1. i + 1 = 1
    BY <1>7, <1>8
  <2> QED BY <1>7, <2>1
<1>10. CallsPost'
  BY <1>9 DEF CallsPost
<1>11. \A t : ~Pending(t)' /\ (Pending(t) <=> t = s)
  BY <1>2, <1>7, <1>8, <1>9 DEF Pending
<1>12. \A t : Open(t)' <=> Open(t)
  BY <1>5 DEF Open
<1>13. \A t : Wanted(t) \in BOOLEAN /\ Open(t) \in BOOLEAN
  BY WantedType
<1>14. ASSUME NEW t \in Sessions PROVE Chain(ledQueue', t, counts'[t] = 1, Wanted(t)')
  <2>1. Chain(ledQueue, t, counts[t] = 1, Wanted(t)) /\ (counts[t] = 1) \in BOOLEAN
    BY <1>14 DEF SessionInv, Chained
  <2>2. CASE t = s
    <3>1. Wanted(s) <=> ~b
      BY <1>8, <1>11, <1>13 DEF Wanted
    <3>2. Chain(ledQueue', s, counts[s] = 1, ~Wanted(s))
      BY <1>3, <1>4, <1>13, <2>1, <2>2, <3>1, ChainAppend
    <3>3. Wanted(s)' <=> ~Wanted(s)
      BY <1>11, <1>12, <1>13 DEF Wanted
    <3> QED BY <1>4, <2>2, <3>2, <3>3 DEF Chain
  <2>3. CASE t # s
    <3> DEFINE held == (counts[t] = 1)
               wanted == Wanted(t)
    <3>1. Chain(ledQueue', t, counts[t] = 1, Wanted(t))
      <4>1. held \in BOOLEAN /\ wanted \in BOOLEAN /\ Chain(ledQueue, t, held, wanted)
        BY <1>13, <2>1
      <4> HIDE DEF held, wanted
      <4>2. Chain(Append(ledQueue, m), t, held, wanted)
        BY <1>3, <1>4, <2>3, <4>1, ChainAppendOther
      <4> QED BY <1>4, <4>2 DEF held, wanted
    <3>2. Wanted(t)' <=> Wanted(t)
      BY <1>11, <1>12, <2>3 DEF Wanted
    <3> QED BY <1>4, <3>1, <3>2 DEF Chain
  <2> QED BY <2>2, <2>3
<1>15. Chained'
  BY <1>4, <1>14 DEF SessionInv, Chained
<1>16. OthersOnlySet'
  <2>1. /\ Len(ledQueue) \in Nat /\ DOMAIN ledQueue = 1 .. Len(ledQueue)
        /\ DOMAIN ledQueue' = 1 .. Len(ledQueue) + 1
        /\ ledQueue'[Len(ledQueue) + 1] = m
        /\ \A i \in 1 .. Len(ledQueue) : ledQueue'[i] = ledQueue[i]
    BY <1>3, <1>4, AppendProperties, LenProperties
  <2>2. \A i \in DOMAIN ledQueue' : i = Len(ledQueue) + 1 \/ i \in DOMAIN ledQueue
    BY <2>1
  <2> QED BY <1>3, <1>8, <2>1, <2>2 DEF SessionInv, OthersOnlySet
<1> QED BY <1>10, <1>15, <1>16 DEF SessionInv

(* The LED task takes a message, and counts it unless nothing is left of its *)
(* state to withdraw.                                                        *)
LEMMA LedReceives ==
    ASSUME counts \in [LedStates -> Nat], HandleLedMessage
    PROVE  \E s \in LedStates, v \in BOOLEAN :
              /\ LedReceive(s, v)
              /\ \/ v /\ counts' = [counts EXCEPT ![s] = counts[s] + 1]
                 \/ ~v /\ counts[s] > 0 /\ counts' = [counts EXCEPT ![s] = counts[s] - 1]
                 \/ ~v /\ counts[s] = 0 /\ counts' = counts
<1>1. PICK s \in LedStates :
         SetTakesOver(s) \/ SetCounted(s) \/ UnsetShown(s) \/ UnsetCounted(s)
             \/ UnsetUnderflow(s)
  BY DEF HandleLedMessage
<1>2. CASE SetTakesOver(s)
  <2>1. LedReceive(s, TRUE) /\ counts[s] = 0 /\ counts' = [counts EXCEPT ![s] = 1]
    BY <1>2 DEF SetTakesOver
  <2>2. counts[s] + 1 = 1
    BY <2>1
  <2> QED BY <2>1, <2>2
<1>3. CASE SetCounted(s)
  <2>1. LedReceive(s, TRUE) /\ counts' = [counts EXCEPT ![s] = counts[s] + 1]
    BY <1>3 DEF SetCounted
  <2> QED BY <2>1
<1>4. CASE UnsetShown(s)
  <2>1. LedReceive(s, FALSE) /\ counts[s] = 1 /\ counts' = [counts EXCEPT ![s] = 0]
    BY <1>4 DEF UnsetShown
  <2>2. counts[s] > 0 /\ counts[s] - 1 = 0
    BY <2>1
  <2> QED BY <2>1, <2>2
<1>5. CASE UnsetCounted(s)
  <2>1. LedReceive(s, FALSE) /\ counts[s] > 0
            /\ counts' = [counts EXCEPT ![s] = counts[s] - 1]
    BY <1>5 DEF UnsetCounted
  <2> QED BY <2>1
<1>6. CASE UnsetUnderflow(s)
  BY <1>6 DEF UnsetUnderflow
<1> QED BY <1>1, <1>2, <1>3, <1>4, <1>5, <1>6

(* The LED task takes the first message of a chain, and counts what it says. *)
LEMMA LedTaskKeepsSession ==
    ASSUME EngineInv, SessionInv, LedTask PROVE SessionInv'
<1>1. todo' = todo /\ handheld' = handheld /\ pairing' = pairing
  BY DEF LedTask, engineOnly
<1>2. CallsPost' /\ \A s : Wanted(s)' <=> Wanted(s)
  BY <1>1 DEF SessionInv, CallsPost, Wanted, Pending, Open
<1>3. ledQueue \in Seq(LedMessages) /\ counts \in [LedStates -> Nat]
  BY DEF EngineInv, EngineTypeOK, LedTypeOK
<1>4. CASE BlinkTimeout
  <2>1. ledQueue' = ledQueue /\ counts' = counts
    BY <1>4 DEF BlinkTimeout
  <2> QED BY <1>2, <2>1 DEF SessionInv, Chained, Chain, OthersOnlySet
<1>5. CASE HandleLedMessage
  <2>1. PICK s \in LedStates, v \in BOOLEAN :
           /\ LedReceive(s, v)
           /\ \/ v /\ counts' = [counts EXCEPT ![s] = counts[s] + 1]
              \/ ~v /\ counts[s] > 0 /\ counts' = [counts EXCEPT ![s] = counts[s] - 1]
              \/ ~v /\ counts[s] = 0 /\ counts' = counts
    BY <1>3, <1>5, LedReceives
  <2>2. /\ ledQueue # <<>> /\ ledQueue' = Tail(ledQueue)
        /\ Head(ledQueue).state = s /\ Head(ledQueue).set = v
    BY <2>1 DEF LedReceive, LedMessage
  <2>3. OthersOnlySet'
    <3>1. /\ Len(ledQueue) \in Nat /\ DOMAIN ledQueue = 1 .. Len(ledQueue)
          /\ DOMAIN ledQueue' = 1 .. Len(ledQueue) - 1
          /\ \A i \in 1 .. Len(ledQueue) - 1 : ledQueue'[i] = ledQueue[i + 1]
      BY <1>3, <2>2, HeadTailProperties, LenProperties
    <3>2. \A i \in DOMAIN ledQueue' : i + 1 \in DOMAIN ledQueue
      BY <3>1
    <3> QED BY <3>1, <3>2 DEF SessionInv, OthersOnlySet
  <2>4. ASSUME NEW t \in Sessions
        PROVE  counts'[t] \in {0, 1} /\ Chain(ledQueue', t, counts'[t] = 1, Wanted(t)')
    <3> DEFINE held == (counts[t] = 1)
               wanted == Wanted(t)
    <3>1. /\ counts[t] \in {0, 1} /\ held \in BOOLEAN /\ t \in LedStates
          /\ Chain(ledQueue, t, held, wanted) /\ wanted \in BOOLEAN
      BY <2>4, WantedType DEF SessionInv, Chained, Sessions, LedStates
    <3>4. held <=> counts[t] = 1
      OBVIOUS
    <3>5. wanted <=> Wanted(t)
      OBVIOUS
    <3> HIDE DEF held, wanted
    <3>6. /\ t = s => (v <=> ~held) /\ Chain(ledQueue', t, ~held, wanted)
          /\ t # s => Chain(ledQueue', t, held, wanted)
      BY <1>3, <2>2, <3>1, ChainTail
    <3>2. CASE t = s
      <4>1. counts'[t] \in {0, 1} /\ (counts'[t] = 1 <=> ~held)
        BY <1>3, <2>1, <3>1, <3>2, <3>4, <3>6
      <4> QED BY <1>2, <3>2, <3>5, <3>6, <4>1 DEF Chain
    <3>3. CASE t # s
      <4>1. counts'[t] = counts[t]
        BY <1>3, <2>1, <3>1, <3>3
      <4> QED BY <1>2, <3>1, <3>3, <3>4, <3>5, <3>6, <4>1 DEF Chain
    <3> QED BY <3>2, <3>3
  <2> QED BY <1>2, <2>3, <2>4 DEF SessionInv, Chained
<1> QED BY <1>4, <1>5 DEF LedTask

(* Every call but one posts nothing to the LED task. *)
LEMMA QuietCalls ==
    ASSUME MakeCall, ~DoPostLed
    PROVE  (\E c : Call(c) /\ c.op # "PostLed") /\ UNCHANGED <<ledVars, engineOnly>>
<1>1. \E c : Call(c) /\ c.op # "PostLed"
  <2>1. /\ ResetTx.op # "PostLed"
        /\ \A on : SetHdmi(on).op # "PostLed" /\ EnablePairing(on).op # "PostLed"
        /\ \A r : Control(r).op # "PostLed"
        /\ \A p : [op |-> "Push", packet |-> p].op # "PostLed"
    BY DEF ResetTx, SetHdmi, EnablePairing, Control
  <2> QED
    BY <2>1
       DEF MakeCall, LocalCall, DoResetTx, DoPush, DoSetHdmi, DoEnablePairing, DoControl,
           StartControl, RefuseControlOut
<1>2. UNCHANGED <<ledVars, engineOnly>>
  BY
     DEF MakeCall, LocalCall, DoResetTx, DoPush, DoSetHdmi, DoEnablePairing, DoControl,
         StartControl, RefuseControlOut
<1> QED BY <1>1, <1>2

LEMMA NextKeepsSession ==
    ASSUME EngineInv, SessionInv, [EngineOpenNext]_engineVars PROVE SessionInv'
<1>1. CASE MakeCall /\ ~DoPostLed
  BY <1>1, QuietCalls, OtherCallKeepsSession
<1>2. CASE (\E m \in Messages : Arrive(m)) \/ TakePacket \/ BtInitComplete \/ UNCHANGED engineVars
  <2>1. UNCHANGED <<ledVars, engineOnly, todo>>
    BY <1>2 DEF Arrive, TakePacket, BtInitComplete, engineVars
  <2>2. ledQueue' = ledQueue /\ counts' = counts /\ UNCHANGED <<todo, handheld, pairing>>
    BY <2>1 DEF ledVars, engineOnly
  <2> QED BY <2>2
          DEF SessionInv, CallsPost, Chained, Chain, Wanted, Pending, Open, OthersOnlySet
<1> QED BY <1>1, <1>2, HandleKeepsSession, PostLedKeepsSession, LedTaskKeepsSession
        DEF EngineOpenNext

LEMMA SessionNeverUnderflows == ASSUME EngineInv, SessionInv PROVE NoLedUnderflow
<1> SUFFICES ASSUME ledQueue # <<>>, ~Head(ledQueue).set
             PROVE  counts[Head(ledQueue).state] > 0
  BY DEF NoLedUnderflow
<1>1. ledQueue \in Seq(LedMessages)
  BY DEF EngineInv, EngineTypeOK, LedTypeOK
<1>2. 1 \in DOMAIN ledQueue /\ Head(ledQueue) = ledQueue[1]
  BY <1>1, HeadTailProperties, EmptySeq, LenProperties
<1>3. Head(ledQueue).state \in Sessions
  BY <1>2 DEF SessionInv, OthersOnlySet
<1> DEFINE s == Head(ledQueue).state
<1>4. counts[s] \in {0, 1} /\ Chain(ledQueue, s, counts[s] = 1, Wanted(s))
      /\ Wanted(s) \in BOOLEAN
  BY <1>3, WantedType DEF SessionInv, Chained
<1>5. Head(ledQueue).set <=> ~(counts[s] = 1)
  BY <1>1, <1>4, ChainTail
<1> QED BY <1>4, <1>5

LEMMA OpenNeverUnderflows == EngineOpen => []NoLedUnderflow
<1>1. EngineInv /\ SessionInv /\ [EngineOpenNext]_engineVars => (EngineInv /\ SessionInv)'
  BY NextKeepsInv, NextKeepsSession
<1> QED BY <1>1, SessionNeverUnderflows, InitInv, InitSession, PTL DEF EngineOpen

(* "Led state underflow" is never logged for the engine's sessions: whatever *)
(* order docking, pairing and disconnection come in, a withdrawal reaches    *)
(* the LED task only after the request it undoes, and only once.             *)
THEOREM LedNeverUnderflows == EngineSpec => []NoLedUnderflow
BY OpenNeverUnderflows, EngineIsOpen, PTL

-----------------------------------------------------------------------------
(* How often a message is in a queue. *)
LEMMA CountEmpty == \A m : Count(<<>>, m) = 0
BY FS_EmptySet DEF Count

LEMMA CountType ==
    ASSUME NEW S, NEW q \in Seq(S), NEW m
    PROVE  IsFiniteSet({i \in DOMAIN q : q[i] = m}) /\ Count(q, m) \in Nat
<1>1. Len(q) \in Nat /\ DOMAIN q = 1 .. Len(q)
  BY LenProperties
<1>2. IsFiniteSet(1 .. Len(q))
  BY <1>1, FS_Interval
<1>3. IsFiniteSet({i \in DOMAIN q : q[i] = m})
  BY <1>1, <1>2, FS_Subset
<1> QED BY <1>3, FS_CardinalityType DEF Count

LEMMA CountAppend ==
    ASSUME NEW S, NEW q \in Seq(S), NEW e \in S, NEW m
    PROVE  Count(Append(q, e), m) = Count(q, m) + IF e = m THEN 1 ELSE 0
<1> DEFINE a == Append(q, e)
           n == Len(q)
           old == {i \in DOMAIN q : q[i] = m}
           new == {i \in DOMAIN a : a[i] = m}
<1>1. /\ n \in Nat /\ DOMAIN q = 1 .. n /\ DOMAIN a = 1 .. n + 1 /\ a[n + 1] = e
      /\ \A i \in 1 .. n : a[i] = q[i]
  BY AppendProperties, LenProperties
<1>2. IsFiniteSet(old) /\ Count(q, m) \in Nat /\ Count(q, m) = Cardinality(old)
  BY CountType DEF Count
<1>3. n + 1 \notin old
  BY <1>1
<1>4. Count(a, m) = Cardinality(new)
  BY DEF Count
<1>5. CASE e = m
  <2>1. new = old \cup {n + 1}
    BY <1>1, <1>5
  <2> HIDE DEF new, old
  <2>2. Cardinality(new) = Cardinality(old) + 1
    BY <1>2, <1>3, <2>1, FS_AddElement
  <2> QED BY <1>2, <1>4, <1>5, <2>2
<1>6. CASE e # m
  <2>1. new = old
    BY <1>1, <1>6
  <2> HIDE DEF new, old
  <2> QED BY <1>2, <1>4, <1>6, <2>1
<1> QED BY <1>5, <1>6

LEMMA CountTail ==
    ASSUME NEW S, NEW q \in Seq(S), q # <<>>, NEW m
    PROVE  Count(q, m) = Count(Tail(q), m) + IF Head(q) = m THEN 1 ELSE 0
<1> DEFINE t == Tail(q)
           n == Len(q)
           rest == {i \in DOMAIN t : t[i] = m}
           later == {i \in 2 .. n : q[i] = m}
           all == {i \in DOMAIN q : q[i] = m}
           next == [i \in rest |-> i + 1]
<1>1. /\ n \in Nat /\ n >= 1 /\ t \in Seq(S) /\ Head(q) = q[1]
      /\ DOMAIN q = 1 .. n /\ DOMAIN t = 1 .. n - 1
      /\ \A i \in 1 .. n - 1 : t[i] = q[i + 1]
  BY HeadTailProperties, LenProperties, EmptySeq
<1>2. IsFiniteSet(rest) /\ Count(t, m) \in Nat /\ Count(t, m) = Cardinality(rest)
  BY <1>1, CountType DEF Count
<1>3. IsFiniteSet(later) /\ Cardinality(later) = Cardinality(rest)
  <2>1. \A i \in rest : i + 1 \in later
    BY <1>1
  <2>2. next \in [rest -> later]
    BY <2>1
  <2>3. \A i, j \in rest : next[i] = next[j] => i = j
    BY <1>1
  <2>4. \A k \in later : \E i \in rest : next[i] = k
    <3> TAKE k \in later
    <3>1. k - 1 \in rest /\ (k - 1) + 1 = k
      BY <1>1
    <3>2. next[k - 1] = k
      BY <3>1
    <3> QED BY <3>1, <3>2
  <2> HIDE DEF next, rest, later
  <2>5. next \in Bijection(rest, later)
    BY <2>2, <2>3, <2>4 DEF Bijection, Injection, IsInjective, Surjection
  <2> QED BY <1>2, <2>5, FS_Bijection DEF ExistsBijection
<1>4. 1 \notin later
  OBVIOUS
<1>5. Count(q, m) = Cardinality(all)
  BY DEF Count
<1>6. CASE Head(q) = m
  <2>1. all = later \cup {1}
    BY <1>1, <1>6
  <2> HIDE DEF all, later, rest
  <2>2. Cardinality(all) = Cardinality(later) + 1
    BY <1>3, <1>4, <2>1, FS_AddElement
  <2> QED BY <1>2, <1>3, <1>5, <1>6, <2>2
<1>7. CASE Head(q) # m
  <2>1. all = later
    BY <1>1, <1>7
  <2> HIDE DEF all, later, rest
  <2> QED BY <1>2, <1>3, <1>5, <1>7, <2>1
<1> QED BY <1>6, <1>7

(* The balance of a session's LED requests. *)
Due(s) == IF Open(s) THEN 1 ELSE 0
Balanced == \A s \in Sessions : LedBalance(s) = LedWithdrawals(s) + Due(s)

LEMMA LedRecords ==
    ASSUME NEW s, NEW b
    PROVE  /\ \A t, v : LedMessage(s, b) = LedMessage(t, v) <=> s = t /\ b = v
           /\ \A t, v : PostLed(s, b) = PostLed(t, v) <=> s = t /\ b = v
           /\ \A c, v : c = PostLed(s, v) => c.op = "PostLed" /\ c.state = s /\ c.set = v
BY DEF LedMessage, PostLed

LEMMA PostLedCall ==
    ASSUME NEW c \in Calls, c.op = "PostLed" PROVE c = PostLed(c.state, c.set)
BY DEF Calls, ResetTx, SetHdmi, EnablePairing, PostLed, Control

LEMMA CountTypes ==
    ASSUME EngineInv
    PROVE  /\ ledQueue \in Seq(LedMessages) /\ todo \in Seq(Calls)
           /\ counts \in [LedStates -> Nat] /\ Sessions \subseteq LedStates
           /\ \A m : Count(ledQueue, m) \in Nat /\ Count(todo, m) \in Nat
<1>1. ledQueue \in Seq(LedMessages) /\ todo \in Seq(Calls) /\ counts \in [LedStates -> Nat]
  BY DEF EngineInv, EngineTypeOK, LedTypeOK
<1> QED BY <1>1, CountType DEF Sessions, LedStates

(* A handler's calls hold the message about a session it opens or closes,    *)
(* once, and no other.                                                       *)
LEMMA ProgramCounts ==
    ASSUME EngineInv, NEW calls, Program(calls), NEW s \in Sessions, NEW b \in BOOLEAN
    PROVE  Count(calls, PostLed(s, b)) =
               IF (OpenNext(s) <=> b) /\ (Open(s) <=> ~b) THEN 1 ELSE 0
<1> DEFINE at == {i \in DOMAIN calls : calls[i] = PostLed(s, b)}
<1>1. Count(calls, PostLed(s, b)) = Cardinality(at)
  BY DEF Count
<1>2. \A i \in DOMAIN calls : calls[i] \in Calls
  BY DEF Program
<1>3. \A i \in at : calls[i].op = "PostLed" /\ calls[i].state = s /\ calls[i].set = b
  BY LedRecords
<1>4. CASE (OpenNext(s) <=> b) /\ (Open(s) <=> ~b)
  <2>1. PICK i \in DOMAIN calls : calls[i].op = "PostLed" /\ calls[i].state = s
    BY <1>4 DEF Program
  <2>2. calls[i] = PostLed(s, calls[i].set) /\ calls[i].set \in BOOLEAN
    <3>1. calls[i] = PostLed(s, calls[i].set)
      BY <1>2, <2>1, PostLedCall
    <3>2. calls[i].set \in BOOLEAN
      BY <1>2, <2>1 DEF Calls, ResetTx, SetHdmi, EnablePairing, PostLed, Control
    <3> QED BY <3>1, <3>2
  <2>3. calls[i].set <=> b
    BY <1>4, <2>1 DEF Program
  <2>4. i \in at
    BY <2>1, <2>2, <2>3
  <2>5. at = {i}
    BY <1>3, <2>4 DEF Program
  <2>6. Cardinality({i}) = 1
    BY FS_Singleton
  <2> QED BY <1>1, <1>4, <2>5, <2>6
<1>5. CASE ~((OpenNext(s) <=> b) /\ (Open(s) <=> ~b))
  <2>1. ASSUME NEW i \in at PROVE FALSE
    <3>1. (OpenNext(s) <=> b) /\ ~(OpenNext(s) <=> Open(s))
      BY <1>3, <2>1 DEF Program
    <3> QED BY <1>5, <3>1
  <2>2. at = {}
    BY <2>1
  <2> QED BY <1>1, <1>5, <2>2, FS_EmptySet
<1> QED BY <1>4, <1>5

LEMMA InitBalance == EngineInit => Balanced
<1> SUFFICES ASSUME EngineInit, NEW s \in Sessions
             PROVE  LedBalance(s) = LedWithdrawals(s) + Due(s)
  BY DEF Balanced
<1>1. /\ ledQueue = <<LedMessage("Standby", TRUE)>> /\ todo = <<>>
      /\ counts[s] = 0 /\ ~Open(s) /\ s # "Standby"
  BY DEF EngineInit, LedInit, Open, Sessions, LedStates
<1>2. \A b \in BOOLEAN : Count(ledQueue, LedMessage(s, b)) = 0
  <2> TAKE b \in BOOLEAN
  <2> DEFINE standby == LedMessage("Standby", TRUE)
             m == LedMessage(s, b)
  <2>1. standby # m /\ standby \in LedMessages
    BY <1>1, LedRecords DEF LedMessage, LedMessages, LedStates
  <2>2. ledQueue = <<standby>>
    BY <1>1
  <2> DEFINE none == <<>>
  <2> HIDE DEF standby, m
  <2>3. none \in Seq(LedMessages) /\ ledQueue = Append(none, standby) /\ Count(none, m) = 0
    BY <2>2, CountEmpty
  <2> HIDE DEF none
  <2>4. Count(Append(none, standby), m) = Count(none, m) + IF standby = m THEN 1 ELSE 0
    BY <2>1, <2>3, CountAppend
  <2>5. Count(ledQueue, m) = 0
    BY <2>1, <2>3, <2>4
  <2> QED BY <2>5 DEF m
<1>3. \A b \in BOOLEAN : Count(todo, PostLed(s, b)) = 0
  BY <1>1, CountEmpty
<1> QED BY <1>1, <1>2, <1>3 DEF LedBalance, LedWithdrawals, Due

LEMMA HandleKeepsBalance == ASSUME EngineInv, Balanced, Handle PROVE Balanced'
<1>1. PICK m, calls : Receive(m, calls) /\ Program(calls)
  BY HandleReceives DEF Received
<1>2. todo' = calls /\ todo = <<>> /\ ledQueue' = ledQueue /\ counts' = counts
  BY <1>1 DEF Receive, ledVars
<1> SUFFICES ASSUME NEW s \in Sessions
             PROVE  LedBalance(s)' = LedWithdrawals(s)' + Due(s)'
  BY DEF Balanced
<1>3. \A b \in BOOLEAN :
         Count(todo', PostLed(s, b)) =
             IF (OpenNext(s) <=> b) /\ (Open(s) <=> ~b) THEN 1 ELSE 0
  BY <1>1, <1>2, ProgramCounts
<1>4. \A b \in BOOLEAN : Count(todo, PostLed(s, b)) = 0
  BY <1>2, CountEmpty
<1>5. Due(s)' = (IF OpenNext(s) THEN 1 ELSE 0)
  BY DEF Due, Open, OpenNext
<1>6. LedBalance(s) = LedWithdrawals(s) + Due(s)
  BY DEF Balanced
<1> DEFINE held == counts[s]
           sets == Count(ledQueue, LedMessage(s, TRUE))
           unsets == Count(ledQueue, LedMessage(s, FALSE))
           opened == Count(todo', PostLed(s, TRUE))
           closed == Count(todo', PostLed(s, FALSE))
<1>7. held \in Nat /\ sets \in Nat /\ unsets \in Nat
  BY CountTypes
<1>8. /\ opened = (IF OpenNext(s) /\ ~Open(s) THEN 1 ELSE 0)
      /\ closed = (IF ~OpenNext(s) /\ Open(s) THEN 1 ELSE 0)
  BY <1>3
<1>9. held + sets + 0 = unsets + 0 + (IF Open(s) THEN 1 ELSE 0)
  BY <1>4, <1>6 DEF LedBalance, LedWithdrawals, Due
<1>10. LedBalance(s)' = held + sets + opened /\ LedWithdrawals(s)' = unsets + closed
  BY <1>2 DEF LedBalance, LedWithdrawals
<1> HIDE DEF held, sets, unsets, opened, closed
<1>11. held + sets + opened = unsets + closed + (IF OpenNext(s) THEN 1 ELSE 0)
  BY <1>7, <1>8, <1>9
<1> QED BY <1>5, <1>10, <1>11

LEMMA OtherCallKeepsBalance ==
    ASSUME EngineInv, Balanced, NEW c, Call(c), c.op # "PostLed",
           UNCHANGED <<ledVars, engineOnly>>
    PROVE  Balanced'
<1>1. /\ todo # <<>> /\ c = Head(todo) /\ todo' = Tail(todo) /\ todo \in Seq(Calls)
      /\ ledQueue' = ledQueue /\ counts' = counts /\ handheld' = handheld /\ pairing' = pairing
  BY CountTypes DEF Call, ledVars, engineOnly
<1>2. ASSUME NEW s \in Sessions, NEW b \in BOOLEAN
      PROVE  Count(todo', PostLed(s, b)) = Count(todo, PostLed(s, b))
  <2> DEFINE p == PostLed(s, b)
  <2>1. c # p
    BY LedRecords
  <2> HIDE DEF p
  <2>2. Count(todo, p) = Count(Tail(todo), p) + 0
    BY <1>1, <2>1, CountTail
  <2>3. Tail(todo) \in Seq(Calls)
    BY <1>1, HeadTailProperties
  <2>4. Count(Tail(todo), p) \in Nat
    BY <2>3, CountType
  <2> QED BY <1>1, <2>2, <2>4 DEF p
<1>3. \A s \in Sessions : Due(s)' = Due(s)
  BY <1>1 DEF Due, Open
<1> QED BY <1>1, <1>2, <1>3 DEF Balanced, LedBalance, LedWithdrawals

LEMMA PostLedKeepsBalance == ASSUME EngineInv, Balanced, DoPostLed PROVE Balanced'
<1>1. PICK t \in LedStates, v \in BOOLEAN : Call(PostLed(t, v)) /\ LedSend(t, v)
  BY DEF DoPostLed
<1>2. /\ todo # <<>> /\ PostLed(t, v) = Head(todo) /\ todo' = Tail(todo) /\ todo \in Seq(Calls)
      /\ ledQueue' = Append(ledQueue, LedMessage(t, v)) /\ ledQueue \in Seq(LedMessages)
      /\ counts' = counts /\ handheld' = handheld /\ pairing' = pairing
      /\ LedMessage(t, v) \in LedMessages
  BY <1>1, CountTypes DEF Call, LedSend, DoPostLed, engineOnly, LedMessage, LedMessages
<1> SUFFICES ASSUME NEW s \in Sessions
             PROVE  LedBalance(s)' = LedWithdrawals(s)' + Due(s)'
  BY DEF Balanced
<1>3. ASSUME NEW b \in BOOLEAN
      PROVE  Count(todo', PostLed(s, b)) + Count(ledQueue', LedMessage(s, b))
                 = Count(todo, PostLed(s, b)) + Count(ledQueue, LedMessage(s, b))
  <2> DEFINE p == PostLed(s, b)
             m == LedMessage(s, b)
             n == LedMessage(t, v)
  <2>1. (Head(todo) = p <=> t = s /\ v = b) /\ (n = m <=> t = s /\ v = b)
    BY <1>2, LedRecords
  <2>2. n \in LedMessages /\ ledQueue' = Append(ledQueue, n)
    BY <1>2
  <2> HIDE DEF p, m, n
  <2>3. Count(todo, p) = Count(Tail(todo), p) + IF Head(todo) = p THEN 1 ELSE 0
    BY <1>2, CountTail
  <2>4. Count(ledQueue', m) = Count(ledQueue, m) + IF n = m THEN 1 ELSE 0
    BY <1>2, <2>2, CountAppend
  <2>5. Tail(todo) \in Seq(Calls)
    BY <1>2, HeadTailProperties
  <2>6. Count(Tail(todo), p) \in Nat /\ Count(ledQueue, m) \in Nat
    BY <2>5, CountType, CountTypes
  <2>7. Count(todo', p) + Count(ledQueue', m) = Count(todo, p) + Count(ledQueue, m)
    BY <1>2, <2>1, <2>3, <2>4, <2>6
  <2> QED BY <2>7 DEF p, m
<1>4. Due(s)' = Due(s) /\ Due(s) \in Nat
  BY <1>2 DEF Due, Open
<1>5. /\ counts[s] \in Nat
      /\ \A b : Count(ledQueue, LedMessage(s, b)) \in Nat /\ Count(todo, PostLed(s, b)) \in Nat
      /\ \A b : Count(ledQueue', LedMessage(s, b)) \in Nat /\ Count(todo', PostLed(s, b)) \in Nat
  <2>1. EngineInv'
    BY NextKeepsInv DEF EngineOpenNext, MakeCall, LocalCall
  <2>2. todo' \in Seq(Calls) /\ ledQueue' \in Seq(LedMessages)
    BY <2>1 DEF EngineInv, EngineTypeOK, LedTypeOK
  <2> QED BY <2>2, CountType, CountTypes
<1>6. LedBalance(s) = LedWithdrawals(s) + Due(s)
  BY DEF Balanced
<1> DEFINE q1 == Count(ledQueue, LedMessage(s, TRUE))
           q0 == Count(ledQueue, LedMessage(s, FALSE))
           c1 == Count(todo, PostLed(s, TRUE))
           c0 == Count(todo, PostLed(s, FALSE))
           q1Next == Count(ledQueue', LedMessage(s, TRUE))
           q0Next == Count(ledQueue', LedMessage(s, FALSE))
           c1Next == Count(todo', PostLed(s, TRUE))
           c0Next == Count(todo', PostLed(s, FALSE))
<1>7. /\ LedBalance(s) = counts[s] + q1 + c1 /\ LedWithdrawals(s) = q0 + c0
      /\ LedBalance(s)' = counts[s] + q1Next + c1Next
      /\ LedWithdrawals(s)' = q0Next + c0Next
  BY <1>2 DEF LedBalance, LedWithdrawals
<1>8. /\ c1Next + q1Next = c1 + q1
      /\ c0Next + q0Next = c0 + q0
  BY <1>3
<1>9. /\ counts[s] \in Nat /\ q1 \in Nat /\ q0 \in Nat
      /\ c1 \in Nat /\ c0 \in Nat /\ q1Next \in Nat /\ q0Next \in Nat
      /\ c1Next \in Nat /\ c0Next \in Nat
  BY <1>5
<1> HIDE DEF q1, q0, c1, c0, q1Next, q0Next, c1Next, c0Next
<1> QED BY <1>4, <1>6, <1>7, <1>8, <1>9

LEMMA LedTaskKeepsBalance ==
    ASSUME EngineInv, SessionInv, Balanced, LedTask PROVE Balanced'
<1>1. todo' = todo /\ handheld' = handheld /\ pairing' = pairing
  BY DEF LedTask, engineOnly
<1> SUFFICES ASSUME NEW s \in Sessions
             PROVE  LedBalance(s)' = LedWithdrawals(s)' + Due(s)'
  BY DEF Balanced
<1>2. LedBalance(s) = LedWithdrawals(s) + Due(s) /\ Due(s)' = Due(s) /\ Due(s) \in Nat
  BY <1>1 DEF Balanced, Due, Open
<1> DEFINE held == counts[s]
           q1 == Count(ledQueue, LedMessage(s, TRUE))
           q0 == Count(ledQueue, LedMessage(s, FALSE))
           c1 == Count(todo, PostLed(s, TRUE))
           c0 == Count(todo, PostLed(s, FALSE))
           heldNext == counts'[s]
           q1Next == Count(ledQueue', LedMessage(s, TRUE))
           q0Next == Count(ledQueue', LedMessage(s, FALSE))
<1>3. /\ LedBalance(s) = held + q1 + c1 /\ LedWithdrawals(s) = q0 + c0
      /\ LedBalance(s)' = heldNext + q1Next + c1 /\ LedWithdrawals(s)' = q0Next + c0
  BY <1>1 DEF LedBalance, LedWithdrawals
<1>4. /\ ledQueue \in Seq(LedMessages) /\ s \in LedStates /\ counts \in [LedStates -> Nat]
      /\ held \in Nat /\ q1 \in Nat /\ q0 \in Nat /\ c1 \in Nat /\ c0 \in Nat
  BY CountTypes
<1>5. CASE BlinkTimeout
  <2>1. heldNext = held /\ q1Next = q1 /\ q0Next = q0
    BY <1>5 DEF BlinkTimeout
  <2> HIDE DEF held, q1, q0, c1, c0, heldNext, q1Next, q0Next
  <2> QED BY <1>2, <1>3, <1>4, <2>1
<1>6. CASE HandleLedMessage
  <2>1. PICK t \in LedStates, v \in BOOLEAN :
           /\ LedReceive(t, v)
           /\ \/ v /\ counts' = [counts EXCEPT ![t] = counts[t] + 1]
              \/ ~v /\ counts[t] > 0 /\ counts' = [counts EXCEPT ![t] = counts[t] - 1]
              \/ ~v /\ counts[t] = 0 /\ counts' = counts
    BY <1>4, <1>6, LedReceives
  <2>2. /\ ledQueue # <<>> /\ ledQueue' = Tail(ledQueue) /\ Head(ledQueue) = LedMessage(t, v)
    BY <2>1 DEF LedReceive
  <2>3. ASSUME NEW b \in BOOLEAN
        PROVE  Count(ledQueue, LedMessage(s, b)) =
                   Count(ledQueue', LedMessage(s, b)) + IF t = s /\ v = b THEN 1 ELSE 0
    <3> DEFINE m == LedMessage(s, b)
    <3>1. Head(ledQueue) = m <=> t = s /\ v = b
      BY <2>2, LedRecords
    <3> HIDE DEF m
    <3>2. Count(ledQueue, m) = Count(Tail(ledQueue), m) + IF Head(ledQueue) = m THEN 1 ELSE 0
      BY <1>4, <2>2, CountTail
    <3>3. Count(ledQueue, m) = Count(ledQueue', m) + IF t = s /\ v = b THEN 1 ELSE 0
      BY <2>2, <3>1, <3>2
    <3> QED BY <3>3 DEF m
  <2>4. /\ t # s => q1 = q1Next + 0 /\ q0 = q0Next + 0
        /\ t = s /\ v => q1 = q1Next + 1 /\ q0 = q0Next + 0
        /\ t = s /\ ~v => q1 = q1Next + 0 /\ q0 = q0Next + 1
    BY <2>3
  <2>5. q1Next \in Nat /\ q0Next \in Nat
    <3>1. ledQueue' \in Seq(LedMessages)
      BY <1>4, <2>2, HeadTailProperties
    <3> QED BY <3>1, CountType
  <2>6. ~v /\ t = s => counts[t] > 0
    <3> SUFFICES ASSUME ~v, t = s PROVE counts[t] > 0
      OBVIOUS
    <3>1. Head(ledQueue).state = s /\ Head(ledQueue).set = v
      BY <2>2 DEF LedMessage
    <3> QED BY <2>2, <3>1, SessionNeverUnderflows DEF NoLedUnderflow
  <2>7. /\ t # s => heldNext = held
        /\ t = s /\ v => heldNext = held + 1
        /\ t = s /\ ~v => heldNext = held - 1
    BY <1>4, <2>1, <2>6
  <2> HIDE DEF held, q1, q0, c1, c0, heldNext, q1Next, q0Next
  <2>8. \/ heldNext = held /\ q1 = q1Next + 0 /\ q0 = q0Next + 0
        \/ heldNext = held + 1 /\ q1 = q1Next + 1 /\ q0 = q0Next + 0
        \/ heldNext = held - 1 /\ q1 = q1Next + 0 /\ q0 = q0Next + 1
    BY <2>4, <2>7, Zenon
  <2>9. held \in Int /\ heldNext \in Int /\ q1Next \in Nat /\ q0Next \in Nat
    BY <1>4, <2>5, <2>8
  <2>10. heldNext + q1Next + q0 = held + q1 + q0Next
    BY <2>8, <2>9
  <2>11. held + q1 + c1 = q0 + c0 + Due(s)
    BY <1>2, <1>3
  <2>12. heldNext + q1Next + c1 = q0Next + c0 + Due(s)
    BY <1>2, <1>4, <2>5, <2>9, <2>10, <2>11
  <2> QED BY <1>2, <1>3, <2>12
<1> QED BY <1>5, <1>6 DEF LedTask

LEMMA NextKeepsBalance ==
    ASSUME EngineInv, SessionInv, Balanced, [EngineOpenNext]_engineVars PROVE Balanced'
<1>1. CASE MakeCall /\ ~DoPostLed
  BY <1>1, QuietCalls, OtherCallKeepsBalance
<1>2. CASE (\E m \in Messages : Arrive(m)) \/ TakePacket \/ BtInitComplete \/ UNCHANGED engineVars
  <2>1. UNCHANGED <<ledVars, engineOnly, todo>>
    BY <1>2 DEF Arrive, TakePacket, BtInitComplete, engineVars
  <2>2. ledQueue' = ledQueue /\ counts' = counts /\ UNCHANGED <<todo, handheld, pairing>>
    BY <2>1 DEF ledVars, engineOnly
  <2> QED BY <2>2 DEF Balanced, LedBalance, LedWithdrawals, Due, Open
<1> QED BY <1>1, <1>2, HandleKeepsBalance, PostLedKeepsBalance, LedTaskKeepsBalance
        DEF EngineOpenNext

LEMMA OpenLedFollows == EngineOpen => []LedFollowsSessions
<1>1. EngineInv /\ SessionInv /\ Balanced /\ [EngineOpenNext]_engineVars
         => (EngineInv /\ SessionInv /\ Balanced)'
  BY NextKeepsInv, NextKeepsSession, NextKeepsBalance
<1>2. Balanced => LedFollowsSessions
  BY DEF Balanced, LedFollowsSessions, Sessions, Due, Open
<1> QED BY <1>1, <1>2, InitInv, InitSession, InitBalance, PTL DEF EngineOpen

(* Every LED session the engine opens is closed once and only once: what the *)
(* LED task has counted, with all that is still on its way to it, comes to   *)
(* one request per open session.                                             *)
THEOREM LedBalances == EngineSpec => []LedFollowsSessions
BY OpenLedFollows, EngineIsOpen, PTL
=============================================================================
