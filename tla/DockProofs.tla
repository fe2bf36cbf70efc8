----------------------------- MODULE DockProofs -----------------------------
(***************************************************************************)
(* What holds of the whole dock for every queue capacity, every set of     *)
(* gamepads and any number of handhelds, presses and failures.             *)
(***************************************************************************)
EXTENDS Dock, EngineProofs, UsbProofs

-----------------------------------------------------------------------------
(* The gamepad drivers keep their types. *)
PadTypeInv == GamepadTypeOK /\ IsFiniteSet(xinput) /\ IsFiniteSet(hid)

(* A driver's slots: one more if there is room, fewer when a device goes. *)
LEMMA SlotTaken ==
    ASSUME NEW Devs, NEW slots \in SUBSET [dev : Devs, id : GamepadId], IsFiniteSet(slots),
           NEW limit \in Nat, Cardinality(slots) < limit, NEW d \in Devs, NEW id \in GamepadId
    PROVE  /\ slots \cup {[dev |-> d, id |-> id]} \in SUBSET [dev : Devs, id : GamepadId]
           /\ IsFiniteSet(slots \cup {[dev |-> d, id |-> id]})
           /\ Cardinality(slots \cup {[dev |-> d, id |-> id]}) <= limit
<1> DEFINE s == [dev |-> d, id |-> id]
<1>1. /\ IsFiniteSet(slots \cup {s}) /\ Cardinality(slots) \in Nat
      /\ Cardinality(slots \cup {s}) = Cardinality(slots)
            \/ Cardinality(slots \cup {s}) = Cardinality(slots) + 1
  BY FS_AddElement, FS_CardinalityType
<1>2. slots \cup {s} \in SUBSET [dev : Devs, id : GamepadId]
  OBVIOUS
<1> HIDE DEF s
<1>3. Cardinality(slots \cup {s}) <= limit
  BY <1>1
<1> QED BY <1>1, <1>2, <1>3 DEF s

LEMMA SlotFreed ==
    ASSUME NEW slots, IsFiniteSet(slots), NEW limit \in Nat, Cardinality(slots) <= limit, NEW d
    PROVE  /\ Freed(slots, d) \subseteq slots /\ IsFiniteSet(Freed(slots, d))
           /\ Cardinality(Freed(slots, d)) <= limit
<1>1. Freed(slots, d) \subseteq slots
  BY DEF Freed
<1>2. /\ IsFiniteSet(Freed(slots, d)) /\ Cardinality(Freed(slots, d)) <= Cardinality(slots)
      /\ Cardinality(slots) \in Nat /\ Cardinality(Freed(slots, d)) \in Nat
  BY <1>1, FS_Subset, FS_CardinalityType
<1> QED BY <1>1, <1>2

(* An id that is allocated is one a gamepad may have. *)
LEMMA Allocated ==
    ASSUME GamepadTypeOK, Allocate
    PROVE  nextId \in GamepadId /\ nextId' = nextId + 1 /\ nextId' \in 1 .. MaxId + 1
BY GamepadAssumption DEF GamepadTypeOK, Allocate, GamepadAssumption

LEMMA InitPadType == GamepadInit => PadTypeInv
<1> SUFFICES ASSUME GamepadInit PROVE PadTypeInv
  OBVIOUS
<1>1. xinput = {} /\ hid = {} /\ plugged = {} /\ nextId = 1
      /\ bt = [d \in BtDevs |-> NoPad]
  BY DEF GamepadInit
<1>2. IsFiniteSet({}) /\ Cardinality({}) = 0
  BY FS_EmptySet
<1>3. NoPad \in [connected : BOOLEAN, ready : BOOLEAN, id : GamepadId] /\ nextId \in 1 .. MaxId + 1
  BY <1>1, GamepadAssumption DEF NoPad, GamepadAssumption
<1> QED BY <1>1, <1>2, <1>3, GamepadAssumption DEF PadTypeInv, GamepadTypeOK, GamepadAssumption

LEMMA PadTypeInductive == ASSUME PadTypeInv, [GamepadNext]_gamepadVars PROVE PadTypeInv'
<1> USE DEF PadTypeInv
<1>0. XinputSlots \in Nat /\ HidSlots \in Nat
  BY GamepadAssumption DEF GamepadAssumption
<1>1. ASSUME NEW d \in XinputDevs, XinputMountCb(d) PROVE PadTypeInv'
  <2>1. plugged' = plugged \cup {d} /\ hid' = hid /\ bt' = bt
    BY <1>1 DEF XinputMountCb
  <2>2. CASE UNCHANGED <<nextId, xinput>>
    BY <2>1, <2>2 DEF GamepadTypeOK
  <2>3. CASE Allocate /\ Cardinality(xinput) < XinputSlots
              /\ xinput' = xinput \cup {[dev |-> d, id |-> nextId]}
    <3>1. nextId \in GamepadId /\ nextId' \in 1 .. MaxId + 1
      BY <2>3, Allocated
    <3>2. /\ xinput' \subseteq [dev : XinputDevs, id : GamepadId] /\ IsFiniteSet(xinput')
          /\ Cardinality(xinput') <= XinputSlots
      BY <1>0, <1>1, <2>3, <3>1, SlotTaken DEF GamepadTypeOK
    <3> QED BY <2>1, <3>1, <3>2 DEF GamepadTypeOK
  <2>4. CASE Allocate /\ xinput' = xinput
    BY <2>1, <2>4, Allocated DEF GamepadTypeOK
  <2> QED BY <1>1, <2>2, <2>3, <2>4 DEF XinputMountCb
<1>2. ASSUME NEW d \in HidDevs, HidMountCb(d) PROVE PadTypeInv'
  <2>1. plugged' = plugged \cup {d} /\ xinput' = xinput /\ bt' = bt
    BY <1>2 DEF HidMountCb
  <2>2. CASE UNCHANGED <<nextId, hid>>
    BY <2>1, <2>2 DEF GamepadTypeOK
  <2>3. CASE Allocate /\ Cardinality(hid) < HidSlots
              /\ hid' = hid \cup {[dev |-> d, id |-> nextId]}
    <3>1. nextId \in GamepadId /\ nextId' \in 1 .. MaxId + 1
      BY <2>3, Allocated
    <3>2. /\ hid' \subseteq [dev : HidDevs, id : GamepadId] /\ IsFiniteSet(hid')
          /\ Cardinality(hid') <= HidSlots
      BY <1>0, <1>2, <2>3, <3>1, SlotTaken DEF GamepadTypeOK
    <3> QED BY <2>1, <3>1, <3>2 DEF GamepadTypeOK
  <2> QED BY <1>2, <2>2, <2>3 DEF HidMountCb
<1>3. ASSUME NEW d, XinputUmountCb(d) PROVE PadTypeInv'
  <2>1. /\ plugged' = plugged \ {d} /\ xinput' = Freed(xinput, d)
        /\ UNCHANGED <<nextId, hid, bt>>
    BY <1>3 DEF XinputUmountCb
  <2> QED BY <1>0, <2>1, SlotFreed DEF GamepadTypeOK
<1>4. ASSUME NEW d, HidUmountCb(d) PROVE PadTypeInv'
  <2>1. /\ plugged' = plugged \ {d} /\ hid' = Freed(hid, d)
        /\ UNCHANGED <<nextId, xinput, bt>>
    BY <1>4 DEF HidUmountCb
  <2> QED BY <1>0, <2>1, SlotFreed DEF GamepadTypeOK
<1>5. ASSUME NEW d \in BtDevs, BtConnect(d) PROVE PadTypeInv'
  BY <1>5 DEF BtConnect, GamepadTypeOK
<1>6. ASSUME NEW d \in BtDevs, BtReady(d) PROVE PadTypeInv'
  <2>1. nextId \in GamepadId /\ nextId' \in 1 .. MaxId + 1
    BY <1>6, Allocated DEF BtReady
  <2> QED BY <1>6, <2>1 DEF BtReady, GamepadTypeOK
<1>7. ASSUME NEW d \in BtDevs, BtDisconnected(d) PROVE PadTypeInv'
  BY <1>7 DEF BtDisconnected, GamepadTypeOK
<1>8. CASE UNCHANGED gamepadVars
  BY <1>8 DEF gamepadVars, GamepadTypeOK
<1> QED BY <1>1, <1>2, <1>3, <1>4, <1>5, <1>6, <1>7, <1>8
        DEF GamepadNext, XinputReport, BtData

-----------------------------------------------------------------------------
(* What the other tasks do to the engine's queue and to the packets: they    *)
(* send one message, or take one packet, or neither.                         *)
UsbMessages == {Mount, Unmount} \cup {XferComplete(r, o) : r \in Requests, o \in Outcomes}

LEMMA UsbMessagesAreMessages == UsbMessages \subseteq Messages
BY DEF UsbMessages, Messages

Sends(what) == tx' = tx /\ \E m \in what : Send(m)
SendsNothing == UNCHANGED <<queue, lost>>
Takes == tx # <<>> /\ PopFront(Head(tx))

LEMMA SendNextTakes == ASSUME NEW thePort, SendNext(thePort) PROVE tx' = tx \/ Takes
BY DEF SendNext, Takes

LEMMA UsbSends ==
    ASSUME UsbTask \/ User
    PROVE  Sends(UsbMessages) \/ (SendsNothing /\ (tx' = tx \/ Takes))
<1>1. CASE MountCb \/ ConfigFailed \/ User
  BY <1>1 DEF MountCb, ConfigFailed, User, Attach, Detach, SendsNothing
<1>2. CASE UmountCb
  BY <1>2 DEF UmountCb, Sends, SendsNothing, UsbMessages
<1>3. CASE ConfigComplete
  <2>1. tx' = tx /\ (Send(Mount) \/ SendsNothing)
    BY <1>3, Zenon DEF ConfigComplete, SendsNothing
  <2> QED BY <2>1 DEF Sends, UsbMessages
<1>4. ASSUME NEW o \in Outcomes, ControlComplete(o) PROVE Sends(UsbMessages)
  <2>1. PICK x \in ctl : x.request \in Requests /\ Send(XferComplete(x.request, o))
    BY <1>4, Zenon DEF ControlComplete
  <2>2. XferComplete(x.request, o) \in UsbMessages
    BY <2>1 DEF UsbMessages
  <2>3. tx' = tx
    BY <1>4 DEF ControlComplete
  <2> QED BY <2>1, <2>2, <2>3 DEF Sends
<1>5. CASE Pump
  BY <1>5, SendNextTakes DEF Pump, SendsNothing
<1>6. CASE BulkComplete
  BY <1>6, SendNextTakes DEF BulkComplete, SendsNothing
<1>7. CASE BulkFailed
  BY <1>7 DEF BulkFailed, Sends, SendsNothing, UsbMessages
<1> QED BY <1>1, <1>2, <1>3, <1>4, <1>5, <1>6, <1>7 DEF UsbTask, ControlDone, BulkDone

PadMessages ==
    {Connected(id, w) : id \in GamepadId, w \in BOOLEAN}
        \cup {Disconnected(id) : id \in GamepadId} \cup {Data(id) : id \in GamepadId}

LEMMA PadMessagesAreMessages == PadMessages \subseteq Messages
BY DEF PadMessages, Messages

LEMMA PadSends ==
    ASSUME GamepadTypeOK, GamepadNext
    PROVE  SendsNothing \/ \E m \in PadMessages : Send(m)
<1> DEFINE Posted == SendsNothing \/ \E m \in PadMessages : Send(m)
<1>1. ASSUME Allocate, NEW w \in BOOLEAN, Send(Connected(nextId, w)) PROVE Posted
  BY <1>1, Allocated DEF PadMessages
<1>2. ASSUME NEW id \in GamepadId, Send(Disconnected(id)) \/ Send(Data(id)) PROVE Posted
  BY <1>2 DEF PadMessages
<1>3. ASSUME NEW slots, slots = xinput \/ slots = hid, NEW d, Report(slots, d) PROVE Posted
  <2>1. \A s \in slots : s.id \in GamepadId
    BY <1>3 DEF GamepadTypeOK
  <2> QED BY <1>2, <1>3, <2>1 DEF Report, SendsNothing
<1>4. \A d \in BtDevs : bt[d].id \in GamepadId
  BY DEF GamepadTypeOK
<1>5. ASSUME NEW d \in XinputDevs, XinputMountCb(d) \/ XinputUmountCb(d) \/ XinputReport(d)
      PROVE  Posted
  <2>1. \A s \in xinput : s.id \in GamepadId
    BY DEF GamepadTypeOK
  <2>2. CASE XinputMountCb(d)
    BY <1>1, <2>2 DEF XinputMountCb, SendsNothing
  <2>3. CASE XinputUmountCb(d)
    BY <1>3, <2>3 DEF XinputUmountCb
  <2>4. CASE XinputReport(d)
    BY <1>2, <2>1, <2>4 DEF XinputReport
  <2> QED BY <1>5, <2>2, <2>3, <2>4
<1>6. ASSUME NEW d \in HidDevs, HidMountCb(d) \/ HidUmountCb(d) PROVE Posted
  <2>1. CASE HidMountCb(d)
    BY <1>1, <2>1 DEF HidMountCb, SendsNothing
  <2>2. CASE HidUmountCb(d)
    BY <1>3, <2>2 DEF HidUmountCb
  <2> QED BY <1>6, <2>1, <2>2
<1>7. ASSUME NEW d \in BtDevs, BtConnect(d) \/ BtReady(d) \/ BtDisconnected(d) \/ BtData(d)
      PROVE  Posted
  <2>1. CASE BtConnect(d)
    BY <2>1 DEF BtConnect, SendsNothing
  <2>2. CASE BtReady(d)
    BY <1>1, <2>2 DEF BtReady
  <2>3. CASE BtDisconnected(d) \/ BtData(d)
    BY <1>2, <1>4, <2>3 DEF BtDisconnected, BtData
  <2> QED BY <1>7, <2>1, <2>2, <2>3
<1> QED BY <1>5, <1>6, <1>7 DEF GamepadNext

-----------------------------------------------------------------------------
(* The refinement.  The variables of the engine are those of Engine, and     *)
(* each step of the dock is a step of its engine, an arrival of a message, a *)
(* packet taken, or none of its business.                                    *)
DockTypeInv ==
    /\ EngineInv /\ UsbInv /\ PadTypeInv
    /\ presses \in 0 .. MaxPresses /\ stale \in BOOLEAN

LEMMA SendArrives ==
    ASSUME NEW m \in Messages, Send(m), UNCHANGED <<tx, engineRest>> PROVE EngineOpenNext
<1>1. Arrive(m)
  BY DEF Arrive, engineRest
<1> QED BY <1>1 DEF EngineOpenNext

LEMMA DockStepsEngine ==
    ASSUME DockTypeInv, [DockNext]_dockVars PROVE [EngineOpenNext]_engineVars
<1>1. ASSUME SendsNothing, tx' = tx, UNCHANGED engineRest PROVE UNCHANGED engineVars
  BY <1>1 DEF SendsNothing, engineRest, engineVars
<1>2. CASE UsbStep
  <2>1. UNCHANGED engineRest
    BY <1>2 DEF UsbStep
  <2>2. CASE Sends(UsbMessages)
    BY <2>1, <2>2, UsbMessagesAreMessages, SendArrives DEF Sends
  <2>3. CASE SendsNothing /\ tx' = tx
    BY <1>1, <2>1, <2>3
  <2>4. CASE SendsNothing /\ Takes
    <3>1. Head(tx) \in Packets /\ PopFront(Head(tx))
      BY <2>4, HeadTailProperties DEF Takes, DockTypeInv, EngineInv, EngineTypeOK
    <3>2. TakePacket
      BY <2>1, <2>4, <3>1 DEF TakePacket, SendsNothing, engineRest
    <3> QED BY <3>2 DEF EngineOpenNext
  <2> QED BY <1>2, <2>2, <2>3, <2>4, UsbSends DEF UsbStep
<1>3. CASE EngineStep
  BY <1>3 DEF EngineStep, EngineOpenNext, MakeCall
<1>4. CASE BeginControl
  BY <1>1, <1>4 DEF BeginControl, ControlLoad, SendsNothing
<1>5. CASE EndControl
  BY <1>5 DEF EndControl, EngineOpenNext, MakeCall
<1>6. CASE LedStep
  BY <1>6 DEF LedStep, EngineOpenNext
<1>7. CASE GamepadStep
  <2>1. GamepadNext /\ UNCHANGED <<tx, engineRest>>
    BY <1>7 DEF GamepadStep
  <2> QED BY <1>1, <2>1, PadSends, PadMessagesAreMessages, SendArrives
          DEF DockTypeInv, PadTypeInv
<1>8. CASE BluetoothStart
  BY <1>8 DEF BluetoothStart, EngineOpenNext
<1>9. CASE PressButton
  <2>1. ShortPress \in Messages /\ LongPress \in Messages
    BY DEF Messages
  <2> QED BY <1>9, <2>1, SendArrives DEF PressButton
<1>10. CASE UNCHANGED dockVars
  BY <1>10 DEF dockVars
<1> QED BY <1>2, <1>3, <1>4, <1>5, <1>6, <1>7, <1>8, <1>9, <1>10 DEF DockNext

(* The USB side and the drivers take their own steps, or none. *)
LEMMA DockStepsUsb == ASSUME [DockNext]_dockVars PROVE [UsbNext]_usbOnly
<1>1. CASE UsbStep
  BY <1>1 DEF UsbStep, UsbNext
<1>2. CASE BeginControl
  BY <1>2 DEF BeginControl, UsbNext
<1>3. CASE EndControl
  BY <1>3 DEF EndControl, UsbNext
<1>4. CASE UNCHANGED usbOnly
  BY <1>4
<1> QED BY <1>1, <1>2, <1>3, <1>4
        DEF DockNext, EngineStep, LedStep, GamepadStep, BluetoothStart, PressButton, dockVars

LEMMA DockStepsPads == ASSUME [DockNext]_dockVars PROVE [GamepadNext]_gamepadVars
BY DEF DockNext, UsbStep, EngineStep, BeginControl, EndControl, LedStep, GamepadStep,
       BluetoothStart, PressButton, dockVars

LEMMA InitDockType == DockInit => DockTypeInv
<1>1. 0 \in 0 .. MaxPresses
  BY DockAssumption DEF DockAssumption
<1> QED BY <1>1, InitInv, InitUsbInv, InitPadType DEF DockInit, DockTypeInv

LEMMA DockTypeInductive == DockTypeInv /\ [DockNext]_dockVars => DockTypeInv'
<1> SUFFICES ASSUME DockTypeInv, [DockNext]_dockVars PROVE DockTypeInv'
  OBVIOUS
<1>1. EngineInv'
  BY DockStepsEngine, NextKeepsInv DEF DockTypeInv
<1>2. UsbInv'
  BY DockStepsUsb, UsbInvInductive DEF DockTypeInv, EngineInv, EngineTypeOK
<1>3. PadTypeInv'
  BY DockStepsPads, PadTypeInductive DEF DockTypeInv
<1>4. presses' \in 0 .. MaxPresses
  <2>1. presses' = presses \/ (presses < MaxPresses /\ presses' = presses + 1)
    BY DEF DockNext, UsbStep, EngineStep, BeginControl, EndControl, LedStep, GamepadStep,
           BluetoothStart, PressButton, dockVars
  <2> QED BY <2>1, DockAssumption DEF DockTypeInv, DockAssumption
<1>5. stale' \in BOOLEAN
  <2>1. stale' = stale \/ stale' \in BOOLEAN
    BY DEF DockNext, UsbStep, EngineStep, BeginControl, EndControl, LedStep, GamepadStep,
           BluetoothStart, PressButton, dockVars
  <2> QED BY <2>1 DEF DockTypeInv
<1> QED BY <1>1, <1>2, <1>3, <1>4, <1>5 DEF DockTypeInv

(* Every variable of the dock keeps its type, the records of devices, ports  *)
(* and slots included.                                                       *)
THEOREM DockTypeCorrect == DockSpec => []DockTypeOK
<1>1. DockTypeInv => DockTypeOK
  BY DEF DockTypeInv, DockTypeOK, EngineInv, UsbInv, PadTypeInv
<1> QED BY <1>1, InitDockType, DockTypeInductive, PTL DEF DockSpec

(* The engine inside the dock is the engine of module Engine, whatever the   *)
(* USB host, the drivers, the button and the port do.                        *)
THEOREM DockRefinesEngine == DockSpec => EngineOpen
<1>1. DockInit => EngineInit
  BY DEF DockInit
<1>2. DockTypeInv /\ [DockNext]_dockVars => [EngineOpenNext]_engineVars
  BY DockStepsEngine
<1> QED BY <1>1, <1>2, InitDockType, DockTypeInductive, PTL DEF DockSpec, EngineOpen

(* So what was proved of the engine alone holds inside the dock: the picture *)
(* follows docking, no packet is left for the next handheld, stick movements *)
(* do not pile up, pairing scans, and every LED session is closed once.      *)
THEOREM DockEngineSafe ==
    DockSpec => [](/\ HdmiTracksDock /\ TxEmptyUndocked /\ NoAdjacentData
                   /\ PairingScans /\ NoLedUnderflow /\ LedFollowsSessions)
<1>1. EngineInv => HdmiTracksDock /\ TxEmptyUndocked
  BY DEF EngineInv
<1> QED BY <1>1, DockRefinesEngine, OpenInv, OpenNoAdjacentData, OpenPairingScans,
           OpenNeverUnderflows, OpenLedFollows, PTL

-----------------------------------------------------------------------------
(* A busy flag stands for a packet in flight, with any number of handhelds   *)
(* coming and going: a dropped transfer never blocks the next one's packets. *)
THEOREM DockBusyMeansInFlight == DockSpec => []BusyMeansInFlight
<1>1. DockTypeInv => BusyMeansInFlight
  BY UsbInvMeans DEF DockTypeInv
<1> QED BY <1>1, InitDockType, DockTypeInductive, PTL DEF DockSpec

(* The device is still known when its configuration arrives, as              *)
(* config_descriptor_xfer_complete_cb expects.                               *)
THEOREM DockConfigHasDevice == DockSpec => []ConfigHasDevice
<1>1. DockTypeInv => ConfigHasDevice
  BY UsbInvMeans DEF DockTypeInv
<1> QED BY <1>1, InitDockType, DockTypeInductive, PTL DEF DockSpec

-----------------------------------------------------------------------------
(* Switches: what a message sent, or received, makes of how a queue ends.    *)
LEMMA EndsOnAppend ==
    ASSUME NEW M, NEW q \in Seq(M), NEW m \in M, NEW on, NEW off, on \cap off = {},
           NEW start \in BOOLEAN
    PROVE  EndsOn(Append(q, m), on, off, start) <=>
               (m \in on \/ (m \notin off /\ EndsOn(q, on, off, start)))
<1> DEFINE a == Append(q, m)
           n == Len(q)
<1>1. /\ n \in Nat /\ Len(a) = n + 1 /\ a[n + 1] = m
      /\ \A i \in 1 .. n : a[i] = q[i]
  BY AppendProperties, LenProperties
<1> HIDE DEF a
<1>2. \A i \in 1 .. Len(a) : i = n + 1 \/ i \in 1 .. n
  BY <1>1
<1>3. n + 1 \in 1 .. Len(a) /\ \A i \in 1 .. n : i \in 1 .. Len(a) /\ n + 1 > i
  BY <1>1
<1>4. CASE m \in on
  <2>1. \A j \in 1 .. Len(a) : ~(j > n + 1)
    BY <1>1
  <2> QED BY <1>1, <1>3, <1>4, <2>1 DEF EndsOn, a
<1>5. CASE m \in off
  <2>1. ~EndsOn(a, on, off, start)
    BY <1>1, <1>2, <1>3, <1>5 DEF EndsOn
  <2> QED BY <1>5, <2>1 DEF a
<1>6. CASE m \notin on \cup off
  <2>1. EndsOn(a, on, off, start) => EndsOn(q, on, off, start)
    BY <1>1, <1>2, <1>3, <1>6 DEF EndsOn
  <2>2. ASSUME EndsOn(q, on, off, start) PROVE EndsOn(a, on, off, start)
    <3>1. CASE start /\ \A i \in 1 .. n : q[i] \notin on \cup off
      BY <1>1, <1>2, <1>6, <3>1 DEF EndsOn
    <3>2. ASSUME NEW i \in 1 .. n,
                 q[i] \in on /\ \A j \in 1 .. n : j > i => q[j] \notin on \cup off
          PROVE  EndsOn(a, on, off, start)
      <4>1. \A j \in 1 .. Len(a) : j > i => a[j] \notin on \cup off
        BY <1>1, <1>2, <1>6, <3>2
      <4>2. i \in 1 .. Len(a) /\ a[i] \in on
        BY <1>1, <1>3, <3>2
      <4> QED BY <4>1, <4>2 DEF EndsOn
    <3> QED BY <2>2, <3>1, <3>2 DEF EndsOn
  <2>3. EndsOn(a, on, off, start) <=> EndsOn(q, on, off, start)
    BY <2>1, <2>2
  <2> QED BY <1>6, <2>3 DEF a
<1> QED BY <1>4, <1>5, <1>6

LEMMA EndsOnTail ==
    ASSUME NEW M, NEW q \in Seq(M), q # <<>>, NEW on, NEW off, on \cap off = {},
           NEW start \in BOOLEAN, NEW next \in BOOLEAN,
           next <=> (Head(q) \in on \/ (Head(q) \notin off /\ start))
    PROVE  EndsOn(Tail(q), on, off, next) <=> EndsOn(q, on, off, start)
<1> DEFINE t == Tail(q)
           n == Len(q)
<1>1. /\ n \in Nat /\ n >= 1 /\ Len(t) = n - 1 /\ Head(q) = q[1]
      /\ \A i \in 1 .. Len(t) : t[i] = q[i + 1]
  BY HeadTailProperties, LenProperties, EmptySeq
<1> HIDE DEF t
<1>2. /\ 1 \in 1 .. n
      /\ \A i \in 1 .. n : i = 1 \/ (i - 1 \in 1 .. Len(t) /\ t[i - 1] = q[i])
      /\ \A i \in 1 .. Len(t) : i + 1 \in 1 .. n /\ t[i] = q[i + 1] /\ i + 1 > 1
      /\ \A i, j \in 1 .. Len(t) : j > i <=> j + 1 > i + 1
      /\ \A i, j \in 1 .. n : j > i <=> j - 1 > i - 1
  BY <1>1
<1> DEFINE quiet(s) == \A i \in 1 .. Len(s) : s[i] \notin on \cup off
           last(s, i) == s[i] \in on /\ \A j \in 1 .. Len(s) : j > i => s[j] \notin on \cup off
<1>3. quiet(q) <=> Head(q) \notin on \cup off /\ quiet(t)
  BY <1>1, <1>2
<1>4. \A i \in 1 .. Len(t) : last(t, i) <=> last(q, i + 1)
  <2> TAKE i \in 1 .. Len(t)
  <2>1. ASSUME last(t, i), NEW j \in 1 .. n, j > i + 1 PROVE q[j] \notin on \cup off
    <3>1. j - 1 \in 1 .. Len(t) /\ t[j - 1] = q[j] /\ j - 1 > i
      BY <1>1, <2>1
    <3> QED BY <2>1, <3>1
  <2>2. ASSUME last(q, i + 1), NEW j \in 1 .. Len(t), j > i PROVE t[j] \notin on \cup off
    BY <1>2, <2>2
  <2> QED BY <1>2, <2>1, <2>2
<1>5. last(q, 1) <=> Head(q) \in on /\ quiet(t)
  <2>1. \A j \in 1 .. n : j > 1 => j - 1 \in 1 .. Len(t) /\ t[j - 1] = q[j]
    BY <1>1, <1>2
  <2>2. \A j \in 1 .. Len(t) : j + 1 \in 1 .. n /\ j + 1 > 1 /\ t[j] = q[j + 1]
    BY <1>2
  <2> QED BY <1>1, <2>1, <2>2
<1> HIDE DEF quiet, last
<1>6. (\E i \in 1 .. n : last(q, i)) <=> last(q, 1) \/ \E i \in 1 .. Len(t) : last(t, i)
  <2>1. ASSUME NEW i \in 1 .. n, last(q, i), i # 1 PROVE \E k \in 1 .. Len(t) : last(t, k)
    <3>1. i - 1 \in 1 .. Len(t) /\ (i - 1) + 1 = i
      BY <1>1, <2>1
    <3> QED BY <1>4, <2>1, <3>1
  <2> QED BY <1>2, <1>4, <2>1
<1>7. EndsOn(q, on, off, start) <=> (start /\ quiet(q)) \/ \E i \in 1 .. n : last(q, i)
  BY DEF EndsOn, quiet, last
<1>8. EndsOn(t, on, off, next) <=> (next /\ quiet(t)) \/ \E i \in 1 .. Len(t) : last(t, i)
  BY DEF EndsOn, quiet, last
<1> QED BY <1>3, <1>5, <1>6, <1>7, <1>8 DEF t

-----------------------------------------------------------------------------
(* Messages are told apart by their kind. *)
LEMMA MessageKinds ==
    /\ Mount.kind = "HandheldMount" /\ Unmount.kind = "HandheldUnmount"
    /\ ShortPress.kind = "ButtonShortPress" /\ LongPress.kind = "ButtonLongPress"
    /\ \A r, o : XferComplete(r, o).kind = "HandheldXferComplete"
    /\ \A id, w : Connected(id, w).kind = "GamepadConnected"
    /\ \A id : Disconnected(id).kind = "GamepadDisconnected"
    /\ \A id : Data(id).kind = "GamepadData"
BY DEF Mount, Unmount, ShortPress, LongPress, XferComplete, Connected, Disconnected, Data

(* The completions by which a handheld agrees to be docked. *)
Accepts == {XferComplete("DOCK_BEGIN", o) : o \in {"ok", "short"}}

LEMMA AcceptsXfer ==
    ASSUME NEW r, NEW o, XferComplete(r, o) \in Accepts
    PROVE  r = "DOCK_BEGIN" /\ o # "failed"
<1>1. PICK p \in {"ok", "short"} : XferComplete(r, o) = XferComplete("DOCK_BEGIN", p)
  BY DEF Accepts
<1>2. /\ XferComplete(r, o).request = r /\ XferComplete(r, o).outcome = o
      /\ XferComplete("DOCK_BEGIN", p).request = "DOCK_BEGIN"
      /\ XferComplete("DOCK_BEGIN", p).outcome = p
  BY DEF XferComplete
<1> QED BY <1>1, <1>2

LEMMA AcceptsKind == \A m \in Accepts : m.kind = "HandheldXferComplete"
BY MessageKinds DEF Accepts

(* What a handler makes of the message it receives. *)
TurnsHandheld(m) ==
    /\ (handheld' # "None") <=> (m = Mount \/ (m # Unmount /\ handheld # "None"))
    /\ handheld' = "Active" => m \in Accepts \/ (handheld = "Active" /\ m # Unmount)

LEMMA HandleTurnsHandheld ==
    ASSUME EngineInv, Handle
    PROVE  \E m, calls : Receive(m, calls) /\ TurnsHandheld(m)
<1>1. handheld \in HandheldStates
  BY DEF EngineInv, EngineTypeOK
<1>2. ASSUME NEW m, m.kind \notin {"HandheldMount", "HandheldUnmount"}, handheld' = handheld
      PROVE  TurnsHandheld(m)
  <2>1. m # Mount /\ m # Unmount
    BY <1>2, MessageKinds
  <2> QED BY <1>2, <2>1 DEF TurnsHandheld
<1>3. CASE HandleMount
  <2>1. handheld = "None" /\ handheld' = "WaitForGetInfo"
    BY <1>3 DEF HandleMount
  <2>2. TurnsHandheld(Mount)
    BY <2>1 DEF TurnsHandheld
  <2> QED BY <1>3, <2>2 DEF HandleMount
<1>4. CASE HandleUnexpectedMount
  <2>1. handheld # "None" /\ handheld' = handheld /\ Mount # Unmount
    BY <1>4, MessageKinds DEF HandleUnexpectedMount, engineOnly
  <2>2. TurnsHandheld(Mount)
    BY <2>1 DEF TurnsHandheld
  <2> QED BY <1>4, <2>2 DEF HandleUnexpectedMount
<1>5. CASE HandleUnmount
  <2>1. handheld' = "None" /\ Unmount # Mount
    BY <1>5, MessageKinds DEF HandleUnmount
  <2>2. TurnsHandheld(Unmount)
    BY <2>1 DEF TurnsHandheld
  <2> QED BY <1>5, <2>2 DEF HandleUnmount
<1>6. CASE HandleGetInfo
  <2>1. PICK o, calls : Receive(XferComplete("GET_INFO", o), calls)
    BY <1>6 DEF HandleGetInfo
  <2> DEFINE m == XferComplete("GET_INFO", o)
  <2>2. m # Mount /\ m # Unmount
    BY MessageKinds
  <2>3. handheld = "WaitForGetInfo" /\ handheld' \in {"WaitForDockBegin", "Error"}
    BY <1>6 DEF HandleGetInfo
  <2>4. TurnsHandheld(m)
    BY <2>2, <2>3 DEF TurnsHandheld
  <2> QED BY <2>1, <2>4
<1>7. CASE HandleDockBegin
  <2>1. handheld = "WaitForDockBegin"
    BY <1>7 DEF HandleDockBegin
  <2>2. CASE handheld' = "Active"
    <3>1. PICK calls : \E o \in {"ok", "short"} : Receive(XferComplete("DOCK_BEGIN", o), calls)
      BY <1>7, <2>2 DEF HandleDockBegin
    <3>2. PICK o \in {"ok", "short"} : Receive(XferComplete("DOCK_BEGIN", o), calls)
      BY <3>1
    <3> DEFINE m == XferComplete("DOCK_BEGIN", o)
    <3>3. m # Mount /\ m # Unmount /\ m \in Accepts
      BY MessageKinds DEF Accepts
    <3>4. TurnsHandheld(m)
      BY <2>1, <2>2, <3>3 DEF TurnsHandheld
    <3> QED BY <3>2, <3>4
  <2>3. CASE handheld' # "Active"
    <3>1. handheld' = "Error" /\ Receive(XferComplete("DOCK_BEGIN", "failed"), <<>>)
      BY <1>7, <2>3 DEF HandleDockBegin
    <3> DEFINE m == XferComplete("DOCK_BEGIN", "failed")
    <3>2. m # Mount /\ m # Unmount
      BY MessageKinds
    <3>3. TurnsHandheld(m)
      BY <2>1, <3>1, <3>2 DEF TurnsHandheld
    <3> QED BY <3>1, <3>3
  <2> QED BY <2>2, <2>3
<1>8. CASE HandleOtherXfer
  <2>1. PICK r \in Requests, o \in Outcomes : Receive(XferComplete(r, o), <<>>)
    BY <1>8 DEF HandleOtherXfer
  <2>2. TurnsHandheld(XferComplete(r, o))
    BY <1>2, <1>8, MessageKinds DEF HandleOtherXfer, engineOnly
  <2> QED BY <2>1, <2>2
<1>9. ASSUME NEW id \in GamepadId, NEW w \in BOOLEAN, HandleConnected(id, w)
      PROVE  \E m, calls : Receive(m, calls) /\ TurnsHandheld(m)
  <2>1. TurnsHandheld(Connected(id, w))
    BY <1>2, <1>9, MessageKinds DEF HandleConnected
  <2> QED BY <1>9, <2>1 DEF HandleConnected
<1>10. ASSUME NEW id \in GamepadId, HandleDisconnected(id)
      PROVE  \E m, calls : Receive(m, calls) /\ TurnsHandheld(m)
  <2>1. TurnsHandheld(Disconnected(id))
    BY <1>2, <1>10, MessageKinds DEF HandleDisconnected
  <2> QED BY <1>10, <2>1 DEF HandleDisconnected
<1>11. ASSUME NEW id \in GamepadId, HandleData(id)
      PROVE  \E m, calls : Receive(m, calls) /\ TurnsHandheld(m)
  <2>1. TurnsHandheld(Data(id))
    BY <1>2, <1>11, MessageKinds DEF HandleData, engineOnly
  <2> QED BY <1>11, <2>1 DEF HandleData
<1>12. CASE HandleShortPress
  <2>1. TurnsHandheld(ShortPress)
    BY <1>2, <1>12, MessageKinds DEF HandleShortPress, engineOnly
  <2> QED BY <1>12, <2>1 DEF HandleShortPress
<1>13. CASE HandleLongPress
  <2>1. TurnsHandheld(LongPress)
    BY <1>2, <1>13, MessageKinds DEF HandleLongPress
  <2> QED BY <1>13, <2>1 DEF HandleLongPress
<1> QED BY <1>3, <1>4, <1>5, <1>6, <1>7, <1>8, <1>9, <1>10, <1>11, <1>12, <1>13 DEF Handle

-----------------------------------------------------------------------------
(* What a step means to the two sides that must agree about the handheld:    *)
(* the device the USB host has told the engine of, the messages on their     *)
(* way, and what the engine makes of them.                                   *)
DockedKept == port.docked => port'.docked \/ ~device'.told

Stays == SendsNothing /\ (device'.told <=> device.told) /\ DockedKept
Announces == Send(Mount) /\ ~device.told /\ device'.told
Withdraws == Send(Unmount) /\ ~device'.told
Posts(m) ==
    /\ Send(m) /\ m \in Messages \ {Mount, Unmount}
    /\ (device'.told <=> device.told) /\ DockedKept
    /\ m \in Accepts => port'.docked
HandheldStep == Stays \/ Announces \/ Withdraws \/ \E m : Posts(m)

LEMMA SendNextKeepsDocked ==
    ASSUME NEW thePort \in Ports, SendNext(thePort) PROVE port'.docked = thePort.docked
BY DEF SendNext, Ports

LEMMA UsbHandheldStep == ASSUME UsbInv, UsbTask \/ User PROVE HandheldStep
<1> USE DEF HandheldStep
<1>1. device \in Devices /\ port \in Ports
  BY DEF UsbInv, UsbTypeOK
<1>2. device.told => device.present /\ Enumerated(device.addr)
  BY DEF UsbInv, ToldIsPresent, DeviceAtPort
<1>3. CASE MountCb
  <2>1. ~device.told
    BY <1>2, <1>3 DEF MountCb, Enumerated
  <2>2. ~device'.told
    BY <1>3, <1>1, NewDeviceType DEF MountCb, Ports
  <2> QED BY <1>3, <2>1, <2>2 DEF MountCb, Stays, SendsNothing, DockedKept
<1>4. CASE UmountCb
  <2>1. ASSUME device' = NoDevice, Send(Unmount) PROVE Withdraws
    BY <2>1, EmptyRecords DEF Withdraws
  <2>2. ASSUME ~(device.present /\ device.addr = port.addr) PROVE Stays
    BY <1>2, <1>4, <2>2 DEF UmountCb, Enumerated, Stays, SendsNothing, DockedKept
  <2> QED BY <1>4, <2>1, <2>2 DEF UmountCb
<1>5. CASE ConfigComplete
  <2>1. port' = port
    BY <1>5 DEF ConfigComplete
  <2>2. CASE device.present
    <3>1. ~device.told
      BY <1>5 DEF ConfigComplete, UsbInv, ConfigComesFirst
    <3>2. Send(Mount) /\ \E o \in BOOLEAN : device' = [device EXCEPT !.open = o, !.told = TRUE]
      BY <1>5, <2>2 DEF ConfigComplete
    <3>3. device'.told
      BY <1>1, <3>2 DEF Devices
    <3> QED BY <3>1, <3>2, <3>3 DEF Announces
  <2>3. CASE ~device.present
    BY <1>5, <2>1, <2>3 DEF ConfigComplete, Stays, SendsNothing, DockedKept
  <2> QED BY <2>2, <2>3
<1>6. CASE ConfigFailed
  BY <1>6 DEF ConfigFailed, Stays, SendsNothing, DockedKept
<1>7. ASSUME NEW o \in Outcomes, ControlComplete(o) PROVE HandheldStep
  <2>1. PICK x \in ctl :
          /\ x.request \in Requests
          /\ port' = [port EXCEPT
                        !.docked = @ \/ (x.request = "DOCK_BEGIN" /\ o # "failed")]
          /\ Send(XferComplete(x.request, o))
    BY <1>7 DEF ControlComplete
  <2> DEFINE m == XferComplete(x.request, o)
  <2>2. m \in Messages /\ m # Mount /\ m # Unmount
    BY <2>1, MessageKinds DEF Messages
  <2>3. port'.docked <=> (port.docked \/ (x.request = "DOCK_BEGIN" /\ o # "failed"))
    BY <1>1, <2>1 DEF Ports
  <2>4. m \in Accepts => port'.docked
    BY <2>3, AcceptsXfer
  <2>5. device' = device
    BY <1>7 DEF ControlComplete
  <2>6. Posts(m)
    BY <2>1, <2>2, <2>3, <2>4, <2>5 DEF Posts, DockedKept
  <2> QED BY <2>6
<1>8. CASE Pump
  BY <1>1, <1>8, SendNextKeepsDocked DEF Pump, Stays, SendsNothing, DockedKept
<1>9. CASE BulkComplete
  <2>1. \A p : Delivered(p) \in Ports => Delivered(p).docked = port.docked
    BY <1>1 DEF Delivered, Ports
  <2>2. PICK x \in bulk :
          \/ /\ device' = [device EXCEPT !.failures = 0]
             /\ SendNext(Delivered(x.packet))
          \/ port' = Delivered(x.packet) /\ device' = device
    BY <1>9 DEF BulkComplete
  <2>3. Delivered(x.packet) \in Ports
    BY <1>1, DeliveredPort DEF UsbInv, UsbTypeOK
  <2>4. port'.docked = port.docked
    BY <2>1, <2>2, <2>3, SendNextKeepsDocked
  <2>5. device'.told <=> device.told
    BY <1>1, <2>2 DEF Devices
  <2> QED BY <1>9, <2>4, <2>5 DEF BulkComplete, Stays, SendsNothing, DockedKept
<1>10. CASE BulkFailed
  <2>1. port'.docked = port.docked
    BY <1>1, <1>10 DEF BulkFailed, Ports
  <2>2. ASSUME device' = NoDevice, Send(Unmount) PROVE Withdraws
    BY <2>2, EmptyRecords DEF Withdraws
  <2>3. ASSUME device' = [device EXCEPT !.failures = IF device.present THEN @ + 1 ELSE @],
               UNCHANGED <<queue, lost>>
        PROVE  Stays
    <3>1. device'.told <=> device.told
      BY <1>1, <2>3 DEF Devices
    <3> QED BY <2>1, <2>3, <3>1 DEF Stays, SendsNothing, DockedKept
  <2> QED BY <1>10, <2>2, <2>3 DEF BulkFailed
<1>11. CASE User
  <2>1. CASE port.phase = "mounted" /\ Detach
    <3>1. port'.docked = port.docked
      BY <1>1, <2>1 DEF Detach, Ports
    <3> QED BY <2>1, <3>1 DEF Detach, Stays, SendsNothing, DockedKept
  <2>2. CASE ~(port.phase = "mounted" /\ Detach)
    BY <1>2, <1>11, <2>2 DEF User, Attach, Detach, Enumerated, Stays, SendsNothing, DockedKept
  <2> QED BY <2>1, <2>2
<1> QED BY <1>3, <1>4, <1>5, <1>6, <1>7, <1>8, <1>9, <1>10, <1>11 DEF UsbTask, ControlDone, BulkDone

(* The engine reads one message, or keeps its idea of the handheld while the *)
(* USB side takes such a step.                                               *)
LEMMA DockHandheldStep ==
    ASSUME DockTypeInv, [DockNext]_dockVars
    PROVE  \/ Handle /\ UNCHANGED <<device, port>>
           \/ handheld' = handheld /\ HandheldStep
<1>1. ASSUME handheld' = handheld, SendsNothing, UNCHANGED <<device, port>>
      PROVE  handheld' = handheld /\ HandheldStep
  BY <1>1 DEF HandheldStep, Stays, DockedKept
<1>2. ASSUME NEW m \in Messages \ {Mount, Unmount}, m \notin Accepts, Send(m),
             handheld' = handheld, UNCHANGED <<device, port>>
      PROVE  handheld' = handheld /\ HandheldStep
  BY <1>2 DEF HandheldStep, Posts, DockedKept
<1>3. CASE UsbStep
  BY <1>3, UsbHandheldStep DEF UsbStep, engineRest, engineOnly, DockTypeInv
<1>4. CASE EngineStep
  <2>1. UNCHANGED <<device, port>>
    BY <1>4 DEF EngineStep, usbOnly
  <2>2. CASE LocalCall
    BY <1>1, <2>1, <2>2
       DEF LocalCall, DoResetTx, DoPush, DoSetHdmi, DoEnablePairing, DoPostLed, engineOnly,
           SendsNothing
  <2> QED BY <1>4, <2>1, <2>2 DEF EngineStep
<1>5. CASE BeginControl
  BY <1>1, <1>5 DEF BeginControl, ControlLoad, engineRest, engineOnly, SendsNothing
<1>6. CASE EndControl
  <2>1. handheld' = handheld /\ UNCHANGED <<device, port>>
    BY <1>6 DEF EndControl, DoControl, StartControl, RefuseControlOut, ControlSubmit, engineOnly
  <2>2. SendsNothing \/ \E x \in loaded : Send(XferComplete(x.request, "failed"))
    BY <1>6 DEF EndControl, ControlSubmit, SendsNothing
  <2>3. ASSUME NEW x \in loaded, Send(XferComplete(x.request, "failed"))
        PROVE  handheld' = handheld /\ HandheldStep
    <3> DEFINE m == XferComplete(x.request, "failed")
    <3>1. x.request \in Requests
      BY DEF DockTypeInv, UsbInv, UsbTypeOK, Transfers
    <3>2. m \in Messages /\ m # Mount /\ m # Unmount /\ m \notin Accepts
      BY <3>1, MessageKinds, AcceptsXfer DEF Messages, Outcomes
    <3> QED BY <1>2, <2>1, <2>3, <3>2
  <2> QED BY <1>1, <2>1, <2>2, <2>3
<1>7. CASE LedStep
  BY <1>1, <1>7 DEF LedStep, LedTask, usbOnly, engineOnly, SendsNothing
<1>8. CASE GamepadStep
  <2>1. handheld' = handheld /\ UNCHANGED <<device, port>>
    BY <1>8 DEF GamepadStep, engineRest, engineOnly, usbOnly
  <2>2. SendsNothing \/ \E m \in PadMessages : Send(m)
    BY <1>8, PadSends DEF GamepadStep, DockTypeInv, PadTypeInv
  <2>3. \A m \in PadMessages : m \in Messages \ {Mount, Unmount} /\ m \notin Accepts
    BY MessageKinds, AcceptsKind, PadMessagesAreMessages DEF PadMessages
  <2> QED BY <1>1, <1>2, <2>1, <2>2, <2>3
<1>9. CASE BluetoothStart
  BY <1>1, <1>9 DEF BluetoothStart, BtInitComplete, usbOnly, engineOnly, SendsNothing
<1>10. CASE PressButton
  <2>1. handheld' = handheld /\ UNCHANGED <<device, port>>
    BY <1>10 DEF PressButton, engineRest, engineOnly, usbOnly
  <2>2. \A m \in {ShortPress, LongPress} : m \in Messages \ {Mount, Unmount} /\ m \notin Accepts
    BY MessageKinds, AcceptsKind DEF Messages
  <2> QED BY <1>2, <1>10, <2>1, <2>2 DEF PressButton
<1>11. CASE UNCHANGED dockVars
  BY <1>1, <1>11 DEF dockVars, engineVars, usbOnly, engineOnly, SendsNothing
<1> QED BY <1>3, <1>4, <1>5, <1>6, <1>7, <1>8, <1>9, <1>10, <1>11 DEF DockNext

-----------------------------------------------------------------------------
(* Between two Mounts in the queue there is an Unmount, and before the first *)
(* one too if there is a handheld now.                                       *)
Apart(q, start) ==
    \A j \in 1 .. Len(q) : q[j] = Mount =>
        /\ start => \E k \in 1 .. Len(q) : k < j /\ q[k] = Unmount
        /\ \A i \in 1 .. Len(q) : i < j /\ q[i] = Mount =>
              \E k \in 1 .. Len(q) : i < k /\ k < j /\ q[k] = Unmount

LEMMA ApartAppend ==
    ASSUME NEW q \in Seq(Messages), NEW m \in Messages, NEW start \in BOOLEAN, Apart(q, start),
           m = Mount => ~EndsOn(q, {Mount}, {Unmount}, start)
    PROVE  Apart(Append(q, m), start)
<1> DEFINE a == Append(q, m)
           n == Len(q)
<1>1. /\ n \in Nat /\ Len(a) = n + 1 /\ a[n + 1] = m
      /\ \A i \in 1 .. n : a[i] = q[i]
  BY AppendProperties, LenProperties
<1> HIDE DEF a
<1>2. /\ \A i \in 1 .. Len(a) : i = n + 1 \/ i \in 1 .. n
      /\ \A i \in 1 .. n : i \in 1 .. Len(a) /\ i < n + 1 /\ ~(n + 1 < i)
  BY <1>1
<1> SUFFICES ASSUME NEW j \in 1 .. Len(a), a[j] = Mount
             PROVE  /\ start => \E k \in 1 .. Len(a) : k < j /\ a[k] = Unmount
                    /\ \A i \in 1 .. Len(a) : i < j /\ a[i] = Mount =>
                          \E k \in 1 .. Len(a) : i < k /\ k < j /\ a[k] = Unmount
  BY DEF Apart, a
<1>3. CASE j \in 1 .. n
  <2>1. q[j] = Mount
    BY <1>1, <1>3
  <2>2. ASSUME NEW i \in 1 .. Len(a), i < j PROVE i \in 1 .. n /\ a[i] = q[i]
    BY <1>1, <1>2, <1>3, <2>2
  <2>3. start => \E k \in 1 .. Len(a) : k < j /\ a[k] = Unmount
    BY <1>1, <1>2, <1>3, <2>1 DEF Apart
  <2>4. ASSUME NEW i \in 1 .. Len(a), i < j, a[i] = Mount
        PROVE  \E k \in 1 .. Len(a) : i < k /\ k < j /\ a[k] = Unmount
    <3>1. i \in 1 .. n /\ q[i] = Mount
      BY <2>2, <2>4
    <3>2. PICK k \in 1 .. n : i < k /\ k < j /\ q[k] = Unmount
      BY <1>3, <2>1, <2>4, <3>1 DEF Apart
    <3> QED BY <1>1, <1>2, <3>2
  <2> QED BY <2>3, <2>4
<1>4. CASE j = n + 1
  <2>1. ~EndsOn(q, {Mount}, {Unmount}, start)
    BY <1>1, <1>4
  <2>2. start => \E k \in 1 .. n : q[k] = Unmount
    <3>1. ASSUME start PROVE \E k \in 1 .. n : q[k] \in {Mount, Unmount}
      BY <2>1, <3>1 DEF EndsOn
    <3> QED BY <3>1 DEF Apart
  <2>3. ASSUME NEW i \in 1 .. n, q[i] = Mount
        PROVE  \E k \in 1 .. n : i < k /\ q[k] = Unmount
    <3>1. PICK k \in 1 .. n : k > i /\ q[k] \in {Mount, Unmount}
      BY <2>1, <2>3 DEF EndsOn
    <3>2. CASE q[k] = Mount
      BY <2>3, <3>1, <3>2 DEF Apart
    <3> QED BY <3>1, <3>2
  <2>4. start => \E k \in 1 .. Len(a) : k < j /\ a[k] = Unmount
    BY <1>1, <1>2, <1>4, <2>2
  <2>5. ASSUME NEW i \in 1 .. Len(a), i < j, a[i] = Mount
        PROVE  \E k \in 1 .. Len(a) : i < k /\ k < j /\ a[k] = Unmount
    <3>1. i \in 1 .. n /\ q[i] = Mount
      BY <1>1, <1>2, <1>4, <2>5
    <3>2. PICK k \in 1 .. n : i < k /\ q[k] = Unmount
      BY <2>3, <3>1
    <3> QED BY <1>1, <1>2, <1>4, <3>2
  <2> QED BY <2>4, <2>5
<1> QED BY <1>2, <1>3, <1>4

LEMMA ApartTail ==
    ASSUME NEW q \in Seq(Messages), q # <<>>, NEW start \in BOOLEAN, NEW next \in BOOLEAN,
           Apart(q, start),
           next <=> (Head(q) = Mount \/ (Head(q) # Unmount /\ start))
    PROVE  Apart(Tail(q), next) /\ (Head(q) = Mount => ~start)
<1> DEFINE t == Tail(q)
           n == Len(q)
<1>1. /\ n \in Nat /\ n >= 1 /\ Len(t) = n - 1 /\ Head(q) = q[1]
      /\ \A i \in 1 .. Len(t) : t[i] = q[i + 1]
  BY HeadTailProperties, LenProperties, EmptySeq
<1> HIDE DEF t
<1>2. /\ 1 \in 1 .. n /\ \A k \in 1 .. n : ~(k < 1)
      /\ \A k \in 1 .. n : k = 1 \/ (k - 1 \in 1 .. Len(t) /\ t[k - 1] = q[k])
      /\ \A i \in 1 .. Len(t) : i + 1 \in 1 .. n /\ t[i] = q[i + 1] /\ 1 < i + 1
  BY <1>1
<1>3. Head(q) = Mount => ~start
  BY <1>1, <1>2 DEF Apart
<1>4. ASSUME NEW j \in 1 .. Len(t), t[j] = Mount, NEW i \in 1 .. n, i < j + 1,
             \E k \in 1 .. n : i < k /\ k < j + 1 /\ q[k] = Unmount
      PROVE  \E k \in 1 .. Len(t) : i - 1 < k /\ k < j /\ t[k] = Unmount
  <2>1. PICK k \in 1 .. n : i < k /\ k < j + 1 /\ q[k] = Unmount
    BY <1>4
  <2>2. k - 1 \in 1 .. Len(t) /\ t[k - 1] = Unmount /\ i - 1 < k - 1 /\ k - 1 < j
    BY <1>1, <1>2, <2>1
  <2> QED BY <2>2
<1>5. ASSUME NEW j \in 1 .. Len(t), t[j] = Mount, next
      PROVE  \E k \in 1 .. Len(t) : k < j /\ t[k] = Unmount
  <2>1. j + 1 \in 1 .. n /\ q[j + 1] = Mount /\ 1 < j + 1
    BY <1>2, <1>5
  <2>2. CASE Head(q) = Mount
    <3>1. \E k \in 1 .. n : 1 < k /\ k < j + 1 /\ q[k] = Unmount
      BY <1>1, <1>2, <2>1, <2>2 DEF Apart
    <3> QED BY <1>2, <1>4, <1>5, <2>1, <3>1
  <2>3. CASE Head(q) # Mount /\ Head(q) # Unmount /\ start
    <3>1. PICK k \in 1 .. n : k < j + 1 /\ q[k] = Unmount
      BY <2>1, <2>3 DEF Apart
    <3>2. k # 1
      BY <1>1, <2>3, <3>1
    <3>3. k - 1 \in 1 .. Len(t) /\ t[k - 1] = Unmount /\ k - 1 < j
      BY <1>1, <1>2, <3>1, <3>2
    <3> QED BY <3>3
  <2> QED BY <1>5, <2>2, <2>3
<1>6. ASSUME NEW j \in 1 .. Len(t), t[j] = Mount, NEW i \in 1 .. Len(t), i < j, t[i] = Mount
      PROVE  \E k \in 1 .. Len(t) : i < k /\ k < j /\ t[k] = Unmount
  <2>1. /\ j + 1 \in 1 .. n /\ q[j + 1] = Mount /\ i + 1 \in 1 .. n /\ q[i + 1] = Mount
        /\ i + 1 < j + 1 /\ (i + 1) - 1 = i
    BY <1>2, <1>6
  <2>2. \E k \in 1 .. n : i + 1 < k /\ k < j + 1 /\ q[k] = Unmount
    BY <2>1 DEF Apart
  <2> QED BY <1>4, <1>6, <2>1, <2>2
<1>7. Apart(t, next)
  BY <1>5, <1>6 DEF Apart
<1> QED BY <1>3, <1>7 DEF t

-----------------------------------------------------------------------------
(* What the two sides agree on.  The engine will have a handheld exactly if  *)
(* it was told of one, unless a Mount or Unmount was dropped; it can only    *)
(* miss Mounts as long as no Unmount was; and a docked handheld, now or once *)
(* the queue is read, is one that accepted DOCK_BEGIN.                       *)
Agrees ==
    lost \cap {"HandheldMount", "HandheldUnmount"} = {} => (WillHaveHandheld <=> device.told)

MountsApart ==
    "HandheldUnmount" \notin lost =>
        (WillHaveHandheld => device.told) /\ Apart(queue, handheld # "None")

WillDock == ~EndsOn(queue, {Mount, Unmount}, Accepts, handheld # "Active")
AcceptedByPort == lost = {} /\ device.told /\ WillDock => port.docked

HandheldInv == Agrees /\ MountsApart /\ AcceptedByPort

LEMMA Switches ==
    /\ {Mount} \cap {Unmount} = {} /\ {Mount, Unmount} \cap Accepts = {}
    /\ Mount \in Messages /\ Unmount \in Messages
    /\ {"HandheldMount", "HandheldUnmount"} \subseteq Tracked
    /\ "HandheldXferComplete" \in Tracked
BY MessageKinds, AcceptsKind, DockAssumption DEF DockAssumption, Messages

(* What posting a message does, as a receiver of the queue will see it. *)
LEMMA SendSwitches ==
    ASSUME QueueTypeOK, NEW m \in Messages, Send(m)
    PROVE  \/ queue' = Append(queue, m) /\ lost' = lost
           \/ queue' = queue /\ lost' = lost \cup ({m.kind} \cap Tracked)
BY DEF Send, QueueTypeOK

LEMMA InitHandheld == DockInit => HandheldInv
<1> SUFFICES ASSUME DockInit PROVE HandheldInv
  OBVIOUS
<1>1. queue = <<>> /\ handheld = "None" /\ ~device.told
  BY EmptyRecords DEF DockInit, EngineInit, QueueInit, UsbInit
<1>2. Len(queue) = 0 /\ \A i : i \notin 1 .. Len(queue)
  BY <1>1
<1>3. ~WillHaveHandheld /\ Apart(queue, handheld # "None")
  BY <1>1, <1>2 DEF WillHaveHandheld, EndsOn, Apart
<1> QED BY <1>1, <1>3 DEF HandheldInv, Agrees, MountsApart, AcceptedByPort

LEMMA AppendedMessage ==
    ASSUME QueueTypeOK, NEW m \in Messages, queue' = Append(queue, m), handheld' = handheld
    PROVE  /\ WillHaveHandheld' <=> (m = Mount \/ (m # Unmount /\ WillHaveHandheld))
           /\ Apart(queue, handheld # "None") /\ (m = Mount => ~WillHaveHandheld)
                 => Apart(queue, handheld # "None")'
           /\ WillDock' <=> (m \notin {Mount, Unmount} /\ (m \in Accepts \/ WillDock))
<1> DEFINE start == handheld # "None"
           mounts == {Mount}
           unmounts == {Unmount}
           events == {Mount, Unmount}
           idle == handheld # "Active"
<1>1. queue \in Seq(Messages) /\ start \in BOOLEAN /\ idle \in BOOLEAN
  BY DEF QueueTypeOK
<1>2. WillHaveHandheld' <=> EndsOn(Append(queue, m), mounts, unmounts, start)
  BY DEF WillHaveHandheld, EndsOn
<1>3. WillDock' <=> ~EndsOn(Append(queue, m), events, Accepts, idle)
  BY DEF WillDock, EndsOn
<1>4. Apart(queue, handheld # "None")' <=> Apart(Append(queue, m), start)
  BY DEF Apart
<1>5. /\ WillHaveHandheld <=> EndsOn(queue, mounts, unmounts, start)
      /\ WillDock <=> ~EndsOn(queue, events, Accepts, idle)
  BY DEF WillHaveHandheld, WillDock
<1>6. /\ mounts \cap unmounts = {} /\ events \cap Accepts = {}
      /\ m \in mounts <=> m = Mount
      /\ m \in unmounts <=> m = Unmount
      /\ m \in events <=> m \in {Mount, Unmount}
  BY Switches
<1> HIDE DEF start, idle, mounts, unmounts, events
<1>7. EndsOn(Append(queue, m), mounts, unmounts, start) <=>
          (m \in mounts \/ (m \notin unmounts /\ EndsOn(queue, mounts, unmounts, start)))
  BY <1>1, <1>6, EndsOnAppend
<1>8. EndsOn(Append(queue, m), events, Accepts, idle) <=>
          \/ m \in events
          \/ m \notin Accepts /\ EndsOn(queue, events, Accepts, idle)
  BY <1>1, <1>6, EndsOnAppend
<1>9. /\ Apart(queue, start)
      /\ m = Mount => ~EndsOn(queue, mounts, unmounts, start)
      => Apart(Append(queue, m), start)
  BY <1>1, ApartAppend DEF mounts, unmounts
<1> QED BY <1>2, <1>3, <1>4, <1>5, <1>7, <1>8, <1>9, <1>6 DEF start

LEMMA EndsOnMonotone ==
    ASSUME NEW q, NEW on, NEW off, NEW start, NEW next, start => next, EndsOn(q, on, off, start)
    PROVE  EndsOn(q, on, off, next)
BY Zenon DEF EndsOn

LEMMA SameMessages ==
    ASSUME queue' = queue, handheld' = handheld
    PROVE  /\ WillHaveHandheld' <=> WillHaveHandheld
           /\ Apart(queue, handheld # "None")' <=> Apart(queue, handheld # "None")
           /\ WillDock' <=> WillDock
BY DEF WillHaveHandheld, WillDock, Apart, EndsOn

LEMMA ReadMessage ==
    ASSUME QueueTypeOK, NEW m, NEW calls, Receive(m, calls), TurnsHandheld(m)
    PROVE  /\ WillHaveHandheld' <=> WillHaveHandheld
           /\ Apart(queue, handheld # "None") => Apart(queue, handheld # "None")'
           /\ Apart(queue, handheld # "None") /\ WillDock' => WillDock
<1> DEFINE start == handheld # "None"
           mounts == {Mount}
           unmounts == {Unmount}
           events == {Mount, Unmount}
           idle == handheld # "Active"
           next == handheld' # "None"
           idleNext == handheld' # "Active"
           idles == m \in events \/ (m \notin Accepts /\ idle)
<1>1. /\ queue \in Seq(Messages) /\ queue # <<>> /\ m = Head(queue) /\ queue' = Tail(queue)
      /\ start \in BOOLEAN /\ next \in BOOLEAN /\ idle \in BOOLEAN /\ idleNext \in BOOLEAN
      /\ idles \in BOOLEAN
  BY DEF QueueTypeOK, Receive
<1>2. WillHaveHandheld' <=> EndsOn(Tail(queue), mounts, unmounts, next)
  BY <1>1 DEF WillHaveHandheld, EndsOn
<1>3. Apart(queue, handheld # "None")' <=> Apart(Tail(queue), next)
  BY <1>1 DEF Apart
<1>4. /\ WillHaveHandheld <=> EndsOn(queue, mounts, unmounts, start)
      /\ WillDock <=> ~EndsOn(queue, events, Accepts, idle)
  BY DEF WillHaveHandheld, WillDock
<1>5. next <=> (m = Mount \/ (m # Unmount /\ start))
  BY DEF TurnsHandheld
<1>6. handheld' = "Active" => m \in Accepts \/ (~idle /\ m # Unmount)
  BY DEF TurnsHandheld
<1>7. WillDock' <=> ~EndsOn(Tail(queue), events, Accepts, idleNext)
  BY <1>1 DEF WillDock, EndsOn
<1>8. ~start => idle
  OBVIOUS
<1>9. idles <=> (m \in events \/ (m \notin Accepts /\ idle))
  OBVIOUS
<1>10. ~idleNext => m \in Accepts \/ (~idle /\ m # Unmount)
  BY <1>6
<1>11. /\ mounts \cap unmounts = {} /\ events \cap Accepts = {}
       /\ m \in mounts <=> m = Mount
       /\ m \in unmounts <=> m = Unmount
       /\ m \in events <=> m = Mount \/ m = Unmount
       /\ m \in events => m \notin Accepts
  BY Switches
<1> HIDE DEF start, idle, next, idleNext, idles, mounts, unmounts, events
<1>12. EndsOn(Tail(queue), mounts, unmounts, next) <=>
           EndsOn(queue, mounts, unmounts, start)
  BY <1>1, <1>5, <1>11, EndsOnTail
<1>13. Apart(queue, start) => Apart(Tail(queue), next) /\ (m = Mount => ~start)
  BY <1>1, <1>5, ApartTail
<1>14. EndsOn(Tail(queue), events, Accepts, idles) <=>
           EndsOn(queue, events, Accepts, idle)
  BY <1>1, <1>9, <1>11, EndsOnTail
<1>15. Apart(queue, start) => (idles => idleNext)
  BY <1>8, <1>9, <1>10, <1>11, <1>13, Zenon
<1>16. (idles => idleNext) /\ EndsOn(Tail(queue), events, Accepts, idles)
          => EndsOn(Tail(queue), events, Accepts, idleNext)
  BY EndsOnMonotone
<1> QED BY <1>2, <1>3, <1>4, <1>7, <1>12, <1>13, <1>14, <1>15, <1>16 DEF start

LEMMA HandheldInductive ==
    ASSUME DockTypeInv, HandheldInv, [DockNext]_dockVars PROVE HandheldInv'
<1>1. QueueTypeOK
  BY DEF DockTypeInv, EngineInv, EngineTypeOK
<1>2. CASE Handle /\ UNCHANGED <<device, port>>
  <2>1. PICK m, calls : Receive(m, calls) /\ TurnsHandheld(m)
    BY <1>2, HandleTurnsHandheld DEF DockTypeInv
  <2>2. lost' = lost
    BY <2>1 DEF Receive
  <2> QED BY <1>1, <1>2, <2>1, <2>2, ReadMessage
          DEF HandheldInv, Agrees, MountsApart, AcceptedByPort
<1>3. CASE handheld' = handheld /\ Stays
  BY <1>3, SameMessages
     DEF HandheldInv, Agrees, MountsApart, AcceptedByPort, Stays, SendsNothing, DockedKept
<1>4. ASSUME NEW m \in Messages, handheld' = handheld, Send(m), m = Mount \/ m = Unmount,
             m = Mount => ~device.told /\ device'.told, m = Unmount => ~device'.told
      PROVE  HandheldInv'
  <2>1. m.kind \in {"HandheldMount", "HandheldUnmount"} \cap Tracked
        /\ Mount.kind = "HandheldMount" /\ Unmount.kind = "HandheldUnmount"
        /\ Mount # Unmount
    BY <1>4, Switches, MessageKinds
  <2>2. CASE queue' = queue /\ lost' = lost \cup ({m.kind} \cap Tracked)
    <3>1. lost \subseteq lost' /\ m.kind \in lost'
      BY <2>1, <2>2
    <3>2. CASE m = Unmount
      BY <2>1, <3>1, <3>2 DEF HandheldInv, Agrees, MountsApart, AcceptedByPort
    <3>3. CASE m = Mount
      BY <1>4, <2>1, <2>2, <3>1, <3>3, SameMessages
         DEF HandheldInv, Agrees, MountsApart, AcceptedByPort
    <3> QED BY <1>4, <3>2, <3>3
  <2>3. CASE queue' = Append(queue, m) /\ lost' = lost
    BY <1>1, <1>4, <2>1, <2>3, AppendedMessage
       DEF HandheldInv, Agrees, MountsApart, AcceptedByPort
  <2> QED BY <1>1, <1>4, <2>2, <2>3, SendSwitches
<1>5. ASSUME NEW m, handheld' = handheld, Posts(m) PROVE HandheldInv'
  <2>1. /\ m \in Messages /\ m # Mount /\ m # Unmount /\ Send(m)
        /\ (device'.told <=> device.told) /\ DockedKept /\ (m \in Accepts => port'.docked)
    BY <1>5 DEF Posts
  <2>2. CASE queue' = Append(queue, m) /\ lost' = lost
    BY <1>1, <1>5, <2>1, <2>2, AppendedMessage
       DEF HandheldInv, Agrees, MountsApart, AcceptedByPort, DockedKept
  <2>3. CASE queue' = queue /\ lost' = lost \cup ({m.kind} \cap Tracked)
    <3>1. lost \subseteq lost'
      BY <2>3
    <3> QED BY <1>5, <2>1, <2>3, <3>1, SameMessages
            DEF HandheldInv, Agrees, MountsApart, AcceptedByPort, DockedKept
  <2> QED BY <1>1, <2>1, <2>2, <2>3, SendSwitches
<1> QED
  BY <1>2, <1>3, <1>4, <1>5, DockHandheldStep, Switches DEF HandheldStep, Announces, Withdraws

LEMMA DockInvariants == DockSpec => [](DockTypeInv /\ HandheldInv)
<1>1. DockTypeInv /\ HandheldInv /\ [DockNext]_dockVars => (DockTypeInv /\ HandheldInv)'
  BY DockTypeInductive, HandheldInductive
<1> QED BY <1>1, InitDockType, InitHandheld, PTL DEF DockSpec

(* Unless a Mount or Unmount was dropped at a full queue, the engine ends up *)
(* with a handheld exactly if the USB host has announced one, whatever the   *)
(* order of plugging, unplugging, failed transfers and giving up.            *)
THEOREM EngineAgreesWithUsb == DockSpec => []EngineWillKnow
<1>1. ASSUME DockTypeInv, HandheldInv PROVE EngineWillKnow
  <2>1. device.told \in BOOLEAN /\ WillHaveHandheld \in BOOLEAN
    BY <1>1 DEF DockTypeInv, UsbInv, UsbTypeOK, Devices, WillHaveHandheld, EndsOn
  <2>2. ASSUME lost \cap {"HandheldMount", "HandheldUnmount"} = {}
        PROVE  WillHaveHandheld = device.told
    <3>1. WillHaveHandheld <=> device.told
      BY <1>1, <2>2 DEF HandheldInv, Agrees
    <3> QED BY <2>1, <3>1, Zenon
  <2> QED BY <2>2 DEF EngineWillKnow
<1> QED BY <1>1, DockInvariants, PTL

(* "Unexpected handheld mount" is logged only after an Unmount was dropped.  *)
THEOREM MountsAlternate == DockSpec => []UnexpectedMountAfterLoss
<1>1. ASSUME DockTypeInv, HandheldInv PROVE UnexpectedMountAfterLoss
  <2> SUFFICES ASSUME MountUnexpected, "HandheldUnmount" \notin lost PROVE FALSE
    BY DEF UnexpectedMountAfterLoss
  <2>1. queue \in Seq(Messages) /\ queue # <<>> /\ Head(queue) = Mount /\ handheld # "None"
    BY <1>1 DEF MountUnexpected, DockTypeInv, EngineInv, EngineTypeOK, QueueTypeOK
  <2>2. queue[1] = Mount /\ 1 \in 1 .. Len(queue) /\ \A k \in 1 .. Len(queue) : ~(k < 1)
    BY <2>1, HeadTailProperties, EmptySeq, LenProperties
  <2> QED BY <1>1, <2>1, <2>2 DEF HandheldInv, MountsApart, Apart
<1> QED BY <1>1, DockInvariants, PTL

(* The engine docks only a handheld that accepted DOCK_BEGIN: a completion   *)
(* that belongs to the one before it cannot turn the picture on.             *)
THEOREM DockedByPort == DockSpec => []ActiveMeansDocked
<1>1. ASSUME DockTypeInv, HandheldInv PROVE ActiveMeansDocked
  <2> SUFFICES ASSUME handheld = "Active", ~HandheldEventPending, lost = {} PROVE port.docked
    BY DEF ActiveMeansDocked
  <2>1. \A i \in 1 .. Len(queue) : queue[i] \notin {Mount, Unmount}
    <3>1. DOMAIN queue = 1 .. Len(queue)
      BY <1>1, LenProperties DEF DockTypeInv, EngineInv, EngineTypeOK, QueueTypeOK
    <3> QED BY <3>1 DEF HandheldEventPending
  <2>2. WillDock /\ WillHaveHandheld
    BY <2>1 DEF WillDock, WillHaveHandheld, EndsOn
  <2>3. device.told
    BY <1>1, <2>2 DEF HandheldInv, Agrees
  <2> QED BY <1>1, <2>2, <2>3 DEF HandheldInv, AcceptedByPort
<1> QED BY <1>1, DockInvariants, PTL

-----------------------------------------------------------------------------
(* What makes a gamepad's id its own.  A driver has at most one slot for a   *)
(* device, which is plugged in; no two gamepads have the same id, a gamepad  *)
(* that left included as long as its entry of the Bluetooth table remembers  *)
(* it; and every id held has been allocated.                                 *)
OneSlotEach(slots) == \A s, t \in slots : s.id = t.id \/ s.dev = t.dev => s = t

PadOwned ==
    /\ \A s \in xinput \cup hid : s.id \in 1 .. nextId - 1 /\ s.dev \in plugged
    /\ \A d \in BtDevs : /\ bt[d].id \in 0 .. nextId - 1
                         /\ bt[d].ready => bt[d].connected /\ bt[d].id # 0

IdsApart ==
    /\ OneSlotEach(xinput) /\ OneSlotEach(hid)
    /\ \A s \in xinput, t \in hid : s.id # t.id
    /\ \A s \in xinput \cup hid, d \in BtDevs : s.id # bt[d].id
    /\ \A d, e \in BtDevs : bt[d].id = bt[e].id => bt[d].id = 0 \/ d = e

PadInv == PadTypeInv /\ PadOwned /\ IdsApart

SlotIds(slots) == {s.id : s \in slots}
ReadyIds == {bt[d].id : d \in {e \in BtDevs : bt[e].ready}}

LEMMA LiveIdsParts == LiveIds = SlotIds(xinput) \cup SlotIds(hid) \cup ReadyIds
BY DEF LiveIds, SlotIds, ReadyIds

(* A slot taken with a new id, and the slot of a device freed. *)
LEMMA SlotTakenApart ==
    ASSUME NEW slots, NEW d, NEW n \in Nat, OneSlotEach(slots),
           \A s \in slots : s.id \in 1 .. n - 1 /\ s.dev # d
    PROVE  /\ OneSlotEach(slots \cup {[dev |-> d, id |-> n]})
           /\ SlotIds(slots \cup {[dev |-> d, id |-> n]}) = SlotIds(slots) \cup {n}
<1> DEFINE new == [dev |-> d, id |-> n]
<1>1. new.dev = d /\ new.id = n
  OBVIOUS
<1>2. \A s \in slots : s.id # n /\ s.dev # d
  OBVIOUS
<1> HIDE DEF new
<1>3. OneSlotEach(slots \cup {new})
  BY <1>1, <1>2 DEF OneSlotEach
<1>4. SlotIds(slots \cup {new}) = SlotIds(slots) \cup {n}
  BY <1>1 DEF SlotIds
<1> QED BY <1>3, <1>4 DEF new

LEMMA SlotFreedApart ==
    ASSUME NEW slots, NEW d, OneSlotEach(slots)
    PROVE  /\ OneSlotEach(Freed(slots, d))
           /\ \A s \in slots : s.dev = d =>
                 SlotIds(Freed(slots, d)) = SlotIds(slots) \ {s.id}
           /\ (\A s \in slots : s.dev # d) => Freed(slots, d) = slots
BY DEF OneSlotEach, Freed, SlotIds

(* What a step of the drivers means to the engine's list: nothing, a gamepad *)
(* with a new id, or the departure of one that has none of the others' ids.  *)
PadStays == LiveIds' = LiveIds /\ nextId' \in {nextId, nextId + 1} /\ SendsNothing
PadReports(id) == LiveIds' = LiveIds /\ nextId' = nextId /\ Send(Data(id))
PadComes(w) ==
    /\ nextId' = nextId + 1 /\ LiveIds' = LiveIds \cup {nextId}
    /\ Send(Connected(nextId, w))
PadGoes(id) ==
    /\ nextId' = nextId /\ LiveIds' = LiveIds \ {id} /\ id \in 0 .. nextId - 1
    /\ Send(Disconnected(id))
PadStep ==
    \/ PadStays
    \/ \E id \in GamepadId : PadReports(id) \/ PadGoes(id)
    \/ \E w \in BOOLEAN : PadComes(w)

LEMMA InitPad == GamepadInit => PadInv
<1> SUFFICES ASSUME GamepadInit PROVE PadInv
  OBVIOUS
<1>1. nextId = 1 /\ xinput = {} /\ hid = {} /\ bt = [d \in BtDevs |-> NoPad]
  BY DEF GamepadInit
<1>2. \A d \in BtDevs : bt[d].id = 0 /\ ~bt[d].ready
  BY <1>1 DEF NoPad
<1> QED BY <1>1, <1>2, InitPadType DEF PadInv, PadOwned, IdsApart, OneSlotEach

LEMMA SameLiveIds ==
    ASSUME UNCHANGED <<xinput, hid, bt>> PROVE LiveIds' = LiveIds
BY DEF LiveIds

LEMMA SamePads ==
    ASSUME PadInv, UNCHANGED <<xinput, hid, bt>>, nextId' \in {nextId, nextId + 1},
           \A s \in xinput \cup hid : s.dev \in plugged'
    PROVE  PadOwned' /\ IdsApart'
<1>1. nextId \in Nat
  BY DEF PadInv, PadTypeInv, GamepadTypeOK
<1> QED BY <1>1 DEF PadInv, PadOwned, IdsApart, OneSlotEach

(* One lemma per handler: the ids stay apart, and what is posted says which  *)
(* gamepad came or went.                                                     *)
LEMMA XinputMountStep ==
    ASSUME PadInv, NEW d \in XinputDevs, XinputMountCb(d)
    PROVE  PadOwned' /\ IdsApart' /\ PadStep
<1>1. /\ nextId \in Nat /\ nextId >= 1 /\ d \notin plugged /\ plugged' = plugged \cup {d}
      /\ hid' = hid /\ bt' = bt
  BY DEF PadInv, PadTypeInv, GamepadTypeOK, XinputMountCb
<1>2. \A s \in xinput \cup hid : s.dev \in plugged'
  BY <1>1 DEF PadInv, PadOwned
<1>3. CASE xinput' = xinput /\ SendsNothing /\ nextId' \in {nextId, nextId + 1}
  BY <1>1, <1>2, <1>3, SamePads, SameLiveIds DEF PadStep, PadStays
<1>4. CASE /\ nextId' = nextId + 1 /\ xinput' = xinput \cup {[dev |-> d, id |-> nextId]}
           /\ Send(Connected(nextId, TRUE))
  <2> DEFINE new == [dev |-> d, id |-> nextId]
  <2>1. new.dev = d /\ new.id = nextId /\ xinput' = xinput \cup {new}
    BY <1>4
  <2>2. \A s \in xinput : s.id \in 1 .. nextId - 1 /\ s.dev # d
    BY <1>1 DEF PadInv, PadOwned
  <2>3. OneSlotEach(xinput') /\ SlotIds(xinput') = SlotIds(xinput) \cup {nextId}
    BY <1>1, <1>4, <2>2, SlotTakenApart DEF PadInv, IdsApart
  <2> HIDE DEF new
  <2>4. PadOwned'
    BY <1>1, <1>4, <2>1 DEF PadInv, PadOwned
  <2>5. IdsApart'
    <3>1. /\ \A t \in hid : t.id \in 1 .. nextId - 1
          /\ \A e \in BtDevs : bt[e].id \in 0 .. nextId - 1
      BY DEF PadInv, PadOwned
    <3>2. (\A t \in hid : t.id # nextId) /\ (\A e \in BtDevs : bt[e].id # nextId)
      BY <1>1, <3>1
    <3>3. \A s \in xinput' : s \in xinput \/ s.id = nextId
      BY <2>1
    <3>4. /\ \A s \in xinput', t \in hid : s.id # t.id
          /\ \A s \in xinput' \cup hid, e \in BtDevs : s.id # bt[e].id
      BY <3>2, <3>3 DEF PadInv, IdsApart
    <3> QED BY <1>1, <2>3, <3>4 DEF PadInv, IdsApart, OneSlotEach
  <2>6. LiveIds' = LiveIds \cup {nextId}
    <3>1. LiveIds' = SlotIds(xinput') \cup SlotIds(hid') \cup ReadyIds'
      BY DEF LiveIds, SlotIds, ReadyIds
    <3>2. ReadyIds' = ReadyIds /\ SlotIds(hid') = SlotIds(hid)
      BY <1>1 DEF ReadyIds
    <3> QED BY <2>3, <3>1, <3>2, LiveIdsParts
  <2> QED BY <1>4, <2>4, <2>5, <2>6 DEF PadStep, PadComes
<1> QED BY <1>3, <1>4 DEF XinputMountCb, Allocate, SendsNothing

LEMMA HidMountStep ==
    ASSUME PadInv, NEW d \in HidDevs, HidMountCb(d)
    PROVE  PadOwned' /\ IdsApart' /\ PadStep
<1>1. /\ nextId \in Nat /\ nextId >= 1 /\ d \notin plugged /\ plugged' = plugged \cup {d}
      /\ xinput' = xinput /\ bt' = bt
  BY DEF PadInv, PadTypeInv, GamepadTypeOK, HidMountCb
<1>2. \A s \in xinput \cup hid : s.dev \in plugged'
  BY <1>1 DEF PadInv, PadOwned
<1>3. CASE hid' = hid /\ SendsNothing /\ nextId' \in {nextId, nextId + 1}
  BY <1>1, <1>2, <1>3, SamePads, SameLiveIds DEF PadStep, PadStays
<1>4. CASE /\ nextId' = nextId + 1 /\ hid' = hid \cup {[dev |-> d, id |-> nextId]}
           /\ Send(Connected(nextId, TRUE))
  <2> DEFINE new == [dev |-> d, id |-> nextId]
  <2>1. new.dev = d /\ new.id = nextId /\ hid' = hid \cup {new}
    BY <1>4
  <2>2. \A s \in hid : s.id \in 1 .. nextId - 1 /\ s.dev # d
    BY <1>1 DEF PadInv, PadOwned
  <2>3. OneSlotEach(hid') /\ SlotIds(hid') = SlotIds(hid) \cup {nextId}
    BY <1>1, <1>4, <2>2, SlotTakenApart DEF PadInv, IdsApart
  <2> HIDE DEF new
  <2>4. PadOwned'
    BY <1>1, <1>4, <2>1 DEF PadInv, PadOwned
  <2>5. IdsApart'
    <3>1. /\ \A t \in xinput : t.id \in 1 .. nextId - 1
          /\ \A e \in BtDevs : bt[e].id \in 0 .. nextId - 1
      BY DEF PadInv, PadOwned
    <3>2. (\A t \in xinput : t.id # nextId) /\ (\A e \in BtDevs : bt[e].id # nextId)
      BY <1>1, <3>1
    <3>3. \A s \in hid' : s \in hid \/ s.id = nextId
      BY <2>1
    <3>4. /\ \A s \in xinput, t \in hid' : s.id # t.id
          /\ \A s \in xinput \cup hid', e \in BtDevs : s.id # bt[e].id
      BY <3>2, <3>3 DEF PadInv, IdsApart
    <3> QED BY <1>1, <2>3, <3>4 DEF PadInv, IdsApart, OneSlotEach
  <2>6. LiveIds' = LiveIds \cup {nextId}
    <3>1. LiveIds' = SlotIds(xinput') \cup SlotIds(hid') \cup ReadyIds'
      BY DEF LiveIds, SlotIds, ReadyIds
    <3>2. ReadyIds' = ReadyIds /\ SlotIds(xinput') = SlotIds(xinput)
      BY <1>1 DEF ReadyIds
    <3> QED BY <2>3, <3>1, <3>2, LiveIdsParts
  <2> QED BY <1>4, <2>4, <2>5, <2>6 DEF PadStep, PadComes
<1> QED BY <1>3, <1>4 DEF HidMountCb, Allocate, SendsNothing

(* A driver frees the slot of a device that was unplugged, if it had one.    *)
LEMMA UnmountReports ==
    ASSUME NEW slots, NEW d, OneSlotEach(slots), Report(slots, d)
    PROVE  \/ SendsNothing /\ Freed(slots, d) = slots
           \/ \E s \in slots : /\ s.dev = d /\ Send(Disconnected(s.id))
                               /\ SlotIds(Freed(slots, d)) = SlotIds(slots) \ {s.id}
BY SlotFreedApart DEF Report, SendsNothing

LEMMA SlotsHeld ==
    ASSUME PadInv, NEW s \in xinput \cup hid
    PROVE  s.id \in GamepadId /\ s.id \in 0 .. nextId - 1
BY DEF PadInv, PadTypeInv, GamepadTypeOK, PadOwned

(* An id that a slot has is not one of another kind of gamepad. *)
LEMMA SlotIdsApart ==
    ASSUME PadInv
    PROVE  /\ \A s \in xinput : s.id \notin SlotIds(hid) \cup ReadyIds
           /\ \A s \in hid : s.id \notin SlotIds(xinput) \cup ReadyIds
BY DEF PadInv, IdsApart, SlotIds, ReadyIds

LEMMA FewerSlots ==
    ASSUME IdsApart, \A s \in xinput' : s \in xinput, \A s \in hid' : s \in hid, bt' = bt
    PROVE  IdsApart'
<1>1. OneSlotEach(xinput)' /\ OneSlotEach(hid)'
  BY DEF IdsApart, OneSlotEach
<1>2. \A s \in xinput', u \in hid' : s.id # u.id
  BY DEF IdsApart
<1>3. \A s \in xinput' \cup hid', d \in BtDevs : s.id # bt'[d].id
  BY DEF IdsApart
<1> QED BY <1>1, <1>2, <1>3 DEF IdsApart

LEMMA XinputUmountStep ==
    ASSUME PadInv, NEW d \in XinputDevs, XinputUmountCb(d)
    PROVE  PadOwned' /\ IdsApart' /\ PadStep
<1>1. /\ plugged' = plugged \ {d} /\ xinput' = Freed(xinput, d) /\ Report(xinput, d)
      /\ nextId' = nextId /\ hid' = hid /\ bt' = bt
  BY DEF XinputUmountCb
<1>2. d \notin HidDevs /\ \A s \in hid : s.dev \in HidDevs
  BY GamepadAssumption DEF GamepadAssumption, PadInv, PadTypeInv, GamepadTypeOK
<1>3. \A s \in xinput' : s \in xinput /\ s.dev # d
  BY <1>1 DEF Freed
<1>4. PadOwned'
  BY <1>1, <1>2, <1>3 DEF PadInv, PadOwned
<1>5. IdsApart'
  BY <1>1, <1>3, FewerSlots DEF PadInv
<1>6. LiveIds' = SlotIds(xinput') \cup SlotIds(hid) \cup ReadyIds
  BY <1>1 DEF LiveIds, SlotIds, ReadyIds
<1>7. CASE SendsNothing /\ xinput' = xinput
  <2>1. LiveIds' = LiveIds
    BY <1>1, <1>7, SameLiveIds
  <2>2. PadStays
    BY <1>1, <1>7, <2>1 DEF PadStays
  <2> QED BY <1>4, <1>5, <2>2 DEF PadStep
<1>8. ASSUME NEW s \in xinput, Send(Disconnected(s.id)),
             SlotIds(xinput') = SlotIds(xinput) \ {s.id}
      PROVE  PadStep
  <2>1. LiveIds' = LiveIds \ {s.id}
    BY <1>6, <1>8, SlotIdsApart, LiveIdsParts
  <2>2. s.id \in GamepadId /\ PadGoes(s.id)
    BY <1>1, <1>8, <2>1, SlotsHeld DEF PadGoes
  <2> QED BY <2>2 DEF PadStep
<1>9. OneSlotEach(xinput)
  BY DEF PadInv, IdsApart
<1> QED BY <1>1, <1>4, <1>5, <1>7, <1>8, <1>9, UnmountReports

LEMMA HidUmountStep ==
    ASSUME PadInv, NEW d \in HidDevs, HidUmountCb(d)
    PROVE  PadOwned' /\ IdsApart' /\ PadStep
<1>1. /\ plugged' = plugged \ {d} /\ hid' = Freed(hid, d) /\ Report(hid, d)
      /\ nextId' = nextId /\ xinput' = xinput /\ bt' = bt
  BY DEF HidUmountCb
<1>2. d \notin XinputDevs /\ \A s \in xinput : s.dev \in XinputDevs
  BY GamepadAssumption DEF GamepadAssumption, PadInv, PadTypeInv, GamepadTypeOK
<1>3. \A s \in hid' : s \in hid /\ s.dev # d
  BY <1>1 DEF Freed
<1>4. PadOwned'
  BY <1>1, <1>2, <1>3 DEF PadInv, PadOwned
<1>5. IdsApart'
  BY <1>1, <1>3, FewerSlots DEF PadInv
<1>6. LiveIds' = SlotIds(xinput) \cup SlotIds(hid') \cup ReadyIds
  BY <1>1 DEF LiveIds, SlotIds, ReadyIds
<1>7. CASE SendsNothing /\ hid' = hid
  <2>1. LiveIds' = LiveIds
    BY <1>1, <1>7, SameLiveIds
  <2>2. PadStays
    BY <1>1, <1>7, <2>1 DEF PadStays
  <2> QED BY <1>4, <1>5, <2>2 DEF PadStep
<1>8. ASSUME NEW s \in hid, Send(Disconnected(s.id)),
             SlotIds(hid') = SlotIds(hid) \ {s.id}
      PROVE  PadStep
  <2>1. LiveIds' = LiveIds \ {s.id}
    BY <1>6, <1>8, SlotIdsApart, LiveIdsParts
  <2>2. s.id \in GamepadId /\ PadGoes(s.id)
    BY <1>1, <1>8, <2>1, SlotsHeld DEF PadGoes
  <2> QED BY <2>2 DEF PadStep
<1>9. OneSlotEach(hid)
  BY DEF PadInv, IdsApart
<1> QED BY <1>1, <1>4, <1>5, <1>7, <1>8, <1>9, UnmountReports

LEMMA BtStep ==
    ASSUME PadInv, NEW d \in BtDevs, BtConnect(d) \/ BtReady(d) \/ BtDisconnected(d) \/ BtData(d)
    PROVE  PadOwned' /\ IdsApart' /\ PadStep
<1>1. /\ nextId \in Nat /\ nextId >= 1
      /\ bt \in [BtDevs -> [connected : BOOLEAN, ready : BOOLEAN, id : GamepadId]]
  BY DEF PadInv, PadTypeInv, GamepadTypeOK
<1>2. bt[d].id \in GamepadId /\ bt[d].id \in 0 .. nextId - 1
  BY <1>1 DEF PadInv, PadOwned
<1>3. CASE BtConnect(d)
  <2>1. UNCHANGED <<nextId, plugged, xinput, hid>> /\ SendsNothing
        /\ bt' = [bt EXCEPT ![d].connected = TRUE]
    BY <1>3 DEF BtConnect, SendsNothing
  <2>2. \A e \in BtDevs : /\ bt'[e].id = bt[e].id /\ (bt'[e].ready <=> bt[e].ready)
                          /\ bt[e].connected => bt'[e].connected
    BY <1>1, <2>1
  <2>3. PadOwned'
    BY <2>1, <2>2 DEF PadInv, PadOwned
  <2>4. IdsApart'
    BY <2>1, <2>2 DEF PadInv, IdsApart, OneSlotEach
  <2>5. LiveIds' = LiveIds
    BY <2>1, <2>2 DEF LiveIds
  <2> QED BY <2>1, <2>3, <2>4, <2>5 DEF PadStep, PadStays
<1>4. CASE BtReady(d)
  <2>1. /\ UNCHANGED <<plugged, xinput, hid>> /\ nextId' = nextId + 1
        /\ bt' = [bt EXCEPT ![d].ready = TRUE, ![d].id = nextId]
        /\ bt[d].connected /\ ~bt[d].ready /\ Send(Connected(nextId, FALSE))
    BY <1>4 DEF BtReady, Allocate
  <2>2. /\ bt'[d].connected /\ bt'[d].ready /\ bt'[d].id = nextId
        /\ \A e \in BtDevs : e # d => bt'[e] = bt[e]
    BY <1>1, <2>1
  <2>3. /\ \A s \in xinput \cup hid : s.id \in 1 .. nextId - 1
        /\ \A e \in BtDevs : bt[e].id \in 0 .. nextId - 1
    BY DEF PadInv, PadOwned
  <2>4. (\A s \in xinput \cup hid : s.id # nextId) /\ (\A e \in BtDevs : bt[e].id # nextId)
    BY <1>1, <2>3
  <2>5. PadOwned'
    <3>1. \A e \in BtDevs : /\ bt'[e].id \in 0 .. nextId' - 1
                            /\ bt'[e].ready => bt'[e].connected /\ bt'[e].id # 0
      BY <1>1, <2>1, <2>2, <2>3 DEF PadInv, PadOwned
    <3>2. \A s \in xinput \cup hid : s.id \in 1 .. nextId' - 1
      BY <1>1, <2>1, <2>3
    <3> QED BY <2>1, <3>1, <3>2 DEF PadInv, PadOwned
  <2>6. IdsApart'
    <3>1. \A s \in xinput \cup hid, e \in BtDevs : s.id # bt'[e].id
      BY <2>2, <2>4 DEF PadInv, IdsApart
    <3>2. \A e, f \in BtDevs : bt'[e].id = bt'[f].id => bt'[e].id = 0 \/ e = f
      BY <2>2, <2>4 DEF PadInv, IdsApart
    <3>3. xinput' = xinput /\ hid' = hid
      BY <2>1
    <3> HIDE <2>1, <2>2
    <3> QED BY <3>1, <3>2, <3>3 DEF PadInv, IdsApart, OneSlotEach
  <2>7. ReadyIds' = ReadyIds \cup {nextId}
    <3>1. \A e \in BtDevs : bt'[e].ready <=> bt[e].ready \/ e = d
      BY <2>2
    <3>2. \A e \in BtDevs : bt'[e].id = IF e = d THEN nextId ELSE bt[e].id
      BY <2>2
    <3>3. ~bt[d].ready
      BY <2>1
    <3> HIDE <2>1, <2>2
    <3> QED BY <3>1, <3>2, <3>3 DEF ReadyIds
  <2>8. LiveIds' = LiveIds \cup {nextId}
    BY <2>1, <2>7, LiveIdsParts DEF LiveIds, SlotIds, ReadyIds
  <2> QED BY <2>1, <2>5, <2>6, <2>8 DEF PadStep, PadComes
<1>5. CASE BtDisconnected(d)
  <2>1. /\ UNCHANGED <<nextId, plugged, xinput, hid>> /\ Send(Disconnected(bt[d].id))
        /\ bt' = [bt EXCEPT ![d].connected = FALSE, ![d].ready = FALSE]
    BY <1>5 DEF BtDisconnected
  <2>2. /\ \A e \in BtDevs : bt'[e].id = bt[e].id
        /\ ~bt'[d].ready /\ \A e \in BtDevs : e # d => bt'[e] = bt[e]
    BY <1>1, <2>1
  <2>3. PadOwned'
    BY <2>1, <2>2 DEF PadInv, PadOwned
  <2>4. IdsApart'
    <3>1. xinput' = xinput /\ hid' = hid /\ \A e \in BtDevs : bt'[e].id = bt[e].id
      BY <2>1, <2>2
    <3> HIDE <2>1, <2>2
    <3> QED BY <3>1 DEF PadInv, IdsApart, OneSlotEach
  <2>5. ReadyIds' = ReadyIds \ {bt[d].id}
    <3>1. \A e \in BtDevs : bt[e].ready /\ bt[e].id = bt[d].id => e = d
      BY DEF PadInv, PadOwned, IdsApart
    <3>2. \A e \in BtDevs : bt'[e].ready <=> bt[e].ready /\ e # d
      BY <1>1, <2>2
    <3> QED BY <2>2, <3>1, <3>2 DEF ReadyIds
  <2>6. bt[d].id \notin SlotIds(xinput) \cup SlotIds(hid)
    BY DEF PadInv, IdsApart, SlotIds
  <2>7. LiveIds' = SlotIds(xinput) \cup SlotIds(hid) \cup ReadyIds'
    BY <2>1 DEF LiveIds, SlotIds, ReadyIds
  <2>8. LiveIds' = LiveIds \ {bt[d].id}
    BY <2>5, <2>6, <2>7, LiveIdsParts
  <2>9. PadGoes(bt[d].id)
    BY <1>2, <2>1, <2>8 DEF PadGoes
  <2> QED BY <1>2, <2>3, <2>4, <2>9 DEF PadStep
<1>6. CASE BtData(d)
  <2>1. nextId' = nextId /\ UNCHANGED <<plugged, xinput, hid, bt>> /\ Send(Data(bt[d].id))
    BY <1>6 DEF BtData, gamepadVars
  <2>2. PadOwned' /\ IdsApart'
    BY <2>1 DEF PadInv, PadOwned, IdsApart, OneSlotEach
  <2> QED BY <1>2, <2>1, <2>2, SameLiveIds DEF PadStep, PadReports
<1> QED BY <1>3, <1>4, <1>5, <1>6

LEMMA PadsStep ==
    ASSUME PadInv, GamepadNext PROVE PadInv' /\ PadStep
<1>1. PadTypeInv'
  BY PadTypeInductive DEF PadInv
<1>2. ASSUME NEW d, XinputReport(d) PROVE PadOwned' /\ IdsApart' /\ PadStep
  <2>1. /\ nextId' = nextId /\ UNCHANGED <<plugged, xinput, hid, bt>>
        /\ \E s \in xinput : Send(Data(s.id))
    BY <1>2 DEF XinputReport, gamepadVars
  <2>2. PadOwned' /\ IdsApart'
    BY <2>1 DEF PadInv, PadOwned, IdsApart, OneSlotEach
  <2> QED BY <2>1, <2>2, SameLiveIds, SlotsHeld DEF PadStep, PadReports
<1> QED BY <1>1, <1>2, XinputMountStep, HidMountStep, XinputUmountStep, HidUmountStep, BtStep
        DEF GamepadNext, PadInv

-----------------------------------------------------------------------------
(* What the engine's list and the drivers agree on.  A departure on its way  *)
(* is that of a gamepad that left; and unless an arrival or a departure was  *)
(* dropped, the engine will list exactly the gamepads the drivers hold once  *)
(* it has read its queue.                                                    *)
Arrivals(id) == {Connected(id, w) : w \in BOOLEAN}
WillHave(id) == EndsOn(queue, Arrivals(id), {Disconnected(id)}, id \in gamepads)

Gone(m) == m.kind = "GamepadDisconnected" => m.id \in 0 .. nextId - 1 /\ m.id \notin LiveIds
GoneAreGone == \A i \in 1 .. Len(queue) : Gone(queue[i])

ListAgrees ==
    lost \cap {"GamepadConnected", "GamepadDisconnected"} = {} =>
        \A id \in GamepadId : WillHave(id) <=> id \in LiveIds

PadListInv == GoneAreGone /\ ListAgrees

LEMMA PadKinds ==
    /\ \A id \in GamepadId : Arrivals(id) \cap {Disconnected(id)} = {}
    /\ \A m, id : m \in Arrivals(id) => m.kind = "GamepadConnected" /\ m.id = id
    /\ \A id : Disconnected(id).kind = "GamepadDisconnected" /\ Disconnected(id).id = id
    /\ \A id, w : Connected(id, w).kind = "GamepadConnected" /\ Connected(id, w).id = id
    /\ \A id : \A w \in BOOLEAN : Connected(id, w) \in Arrivals(id)
    /\ {"GamepadConnected", "GamepadDisconnected"} \subseteq Tracked
BY DockAssumption DEF Arrivals, Connected, Disconnected, DockAssumption

(* What the engine makes of its list when it receives a message. *)
TurnsList(m) ==
    \A id \in GamepadId :
        id \in gamepads' <=> m \in Arrivals(id) \/ (m # Disconnected(id) /\ id \in gamepads)

OtherKind(m) == m.kind \notin {"GamepadConnected", "GamepadDisconnected"}

LEMMA OthersKeepList ==
    ASSUME NEW m, OtherKind(m), gamepads' = gamepads PROVE TurnsList(m)
BY PadKinds DEF TurnsList, OtherKind

LEMMA HandleTurnsList ==
    ASSUME Handle PROVE \E m, calls : Receive(m, calls) /\ TurnsList(m)
<1>1. CASE HandleMount \/ HandleUnexpectedMount
  <2>1. gamepads' = gamepads /\ \E calls : Receive(Mount, calls)
    BY <1>1 DEF HandleMount, HandleUnexpectedMount, engineOnly
  <2> QED BY <2>1, MessageKinds, OthersKeepList DEF OtherKind
<1>2. CASE HandleUnmount
  <2>1. gamepads' = gamepads /\ \E calls : Receive(Unmount, calls)
    BY <1>2 DEF HandleUnmount
  <2> QED BY <2>1, MessageKinds, OthersKeepList DEF OtherKind
<1>3. CASE HandleGetInfo \/ HandleDockBegin \/ HandleOtherXfer
  <2>1. gamepads' = gamepads
    BY <1>3 DEF HandleGetInfo, HandleDockBegin, HandleOtherXfer, engineOnly
  <2>2. \E r, o, calls : Receive(XferComplete(r, o), calls)
    BY <1>3 DEF HandleGetInfo, HandleDockBegin, HandleOtherXfer
  <2> QED BY <2>1, <2>2, MessageKinds, OthersKeepList DEF OtherKind
<1>4. ASSUME NEW id \in GamepadId, NEW w \in BOOLEAN, HandleConnected(id, w)
      PROVE  \E m, calls : Receive(m, calls) /\ TurnsList(m)
  <2>1. gamepads' = gamepads \cup {id} /\ \E calls : Receive(Connected(id, w), calls)
    BY <1>4 DEF HandleConnected
  <2>2. ASSUME NEW o \in GamepadId
        PROVE  /\ Connected(id, w) \in Arrivals(o) <=> o = id
               /\ Connected(id, w) # Disconnected(o)
    <3>1. Connected(id, w) \in Arrivals(o) => o = id
      BY PadKinds
    <3>2. Connected(id, w) \in Arrivals(id)
      BY PadKinds, Zenon
    <3>3. Connected(id, w) # Disconnected(o)
      BY PadKinds
    <3> QED BY <3>1, <3>2, <3>3
  <2>3. TurnsList(Connected(id, w))
    BY <2>1, <2>2 DEF TurnsList
  <2> QED BY <2>1, <2>3
<1>5. ASSUME NEW id \in GamepadId, HandleDisconnected(id)
      PROVE  \E m, calls : Receive(m, calls) /\ TurnsList(m)
  <2>1. gamepads' = gamepads \ {id} /\ \E calls : Receive(Disconnected(id), calls)
    BY <1>5 DEF HandleDisconnected
  <2>2. ASSUME NEW o \in GamepadId
        PROVE  /\ Disconnected(id) \notin Arrivals(o)
               /\ Disconnected(id) = Disconnected(o) <=> o = id
    BY PadKinds
  <2>3. TurnsList(Disconnected(id))
    BY <2>1, <2>2 DEF TurnsList
  <2> QED BY <2>1, <2>3
<1>6. ASSUME NEW id \in GamepadId, HandleData(id)
      PROVE  \E m, calls : Receive(m, calls) /\ TurnsList(m)
  <2>1. gamepads' = gamepads /\ \E calls : Receive(Data(id), calls)
    BY <1>6 DEF HandleData, engineOnly
  <2> QED BY <2>1, MessageKinds, OthersKeepList DEF OtherKind
<1>7. CASE HandleShortPress
  <2>1. gamepads' = gamepads /\ \E calls : Receive(ShortPress, calls)
    BY <1>7 DEF HandleShortPress, engineOnly
  <2> QED BY <2>1, MessageKinds, OthersKeepList DEF OtherKind
<1>8. CASE HandleLongPress
  <2>1. gamepads' = gamepads /\ \E calls : Receive(LongPress, calls)
    BY <1>8 DEF HandleLongPress
  <2> QED BY <2>1, MessageKinds, OthersKeepList DEF OtherKind
<1> QED BY <1>1, <1>2, <1>3, <1>4, <1>5, <1>6, <1>7, <1>8 DEF Handle

(* A step of the dock, for the list: the engine reads a message, the drivers *)
(* take a step, or somebody may post a message about something else.         *)
OthersPost ==
    UNCHANGED gamepadVars /\ (SendsNothing \/ \E m \in Messages : OtherKind(m) /\ Send(m))

LEMMA DockListStep ==
    ASSUME DockTypeInv, [DockNext]_dockVars
    PROVE  \/ Handle /\ UNCHANGED gamepadVars
           \/ gamepads' = gamepads /\ (GamepadNext \/ OthersPost)
<1>1. CASE UsbStep
  <2>1. gamepads' = gamepads /\ UNCHANGED gamepadVars
    BY <1>1 DEF UsbStep, engineRest, engineOnly
  <2>2. SendsNothing \/ \E m \in UsbMessages : Send(m)
    BY <1>1, UsbSends DEF UsbStep, Sends
  <2>3. \A m \in UsbMessages : m \in Messages /\ OtherKind(m)
    BY MessageKinds, UsbMessagesAreMessages DEF UsbMessages, OtherKind
  <2> QED BY <2>1, <2>2, <2>3 DEF OthersPost
<1>2. CASE EngineStep
  <2>1. UNCHANGED gamepadVars
    BY <1>2 DEF EngineStep
  <2>2. CASE LocalCall
    BY <2>1, <2>2
       DEF LocalCall, DoResetTx, DoPush, DoSetHdmi, DoEnablePairing, DoPostLed, engineOnly,
           SendsNothing, OthersPost
  <2> QED BY <1>2, <2>1, <2>2 DEF EngineStep
<1>3. CASE BeginControl
  BY <1>3 DEF BeginControl, ControlLoad, engineRest, engineOnly, SendsNothing, OthersPost
<1>4. CASE EndControl
  <2>1. gamepads' = gamepads /\ UNCHANGED gamepadVars
    BY <1>4 DEF EndControl, DoControl, StartControl, RefuseControlOut, engineOnly
  <2>2. SendsNothing \/ \E x \in loaded : Send(XferComplete(x.request, "failed"))
    BY <1>4 DEF EndControl, ControlSubmit, SendsNothing
  <2>3. ASSUME NEW x \in loaded
        PROVE  /\ XferComplete(x.request, "failed") \in Messages
               /\ OtherKind(XferComplete(x.request, "failed"))
    <3>1. x.request \in Requests
      BY DEF DockTypeInv, UsbInv, UsbTypeOK, Transfers
    <3>2. XferComplete(x.request, "failed") \in Messages
      BY <3>1 DEF Messages, Outcomes
    <3> QED BY <3>2, MessageKinds DEF OtherKind
  <2> QED BY <2>1, <2>2, <2>3 DEF OthersPost
<1>5. CASE LedStep
  BY <1>5 DEF LedStep, LedTask, engineOnly, SendsNothing, OthersPost
<1>6. CASE GamepadStep
  BY <1>6 DEF GamepadStep, engineRest, engineOnly
<1>7. CASE BluetoothStart
  BY <1>7 DEF BluetoothStart, BtInitComplete, engineOnly, SendsNothing, OthersPost
<1>8. CASE PressButton
  <2>1. gamepads' = gamepads /\ UNCHANGED gamepadVars
    BY <1>8 DEF PressButton, engineRest, engineOnly
  <2>2. \A m \in {ShortPress, LongPress} : m \in Messages /\ OtherKind(m)
    BY MessageKinds DEF Messages, OtherKind
  <2> QED BY <1>8, <2>1, <2>2 DEF PressButton, OthersPost
<1>9. CASE UNCHANGED dockVars
  BY <1>9 DEF dockVars, engineVars, engineOnly, SendsNothing, OthersPost
<1> QED BY <1>1, <1>2, <1>3, <1>4, <1>5, <1>6, <1>7, <1>8, <1>9 DEF DockNext

(* How the end of the queue changes with a message sent, and one received.   *)
LEMMA AppendedToList ==
    ASSUME QueueTypeOK, NEW m \in Messages, queue' = Append(queue, m), gamepads' = gamepads,
           NEW id \in GamepadId
    PROVE  WillHave(id)' <=> m \in Arrivals(id) \/ (m # Disconnected(id) /\ WillHave(id))
<1> DEFINE start == id \in gamepads
           on == Arrivals(id)
           off == {Disconnected(id)}
<1>1. queue \in Seq(Messages) /\ start \in BOOLEAN /\ on \cap off = {}
      /\ (m \in off <=> m = Disconnected(id))
  BY PadKinds DEF QueueTypeOK
<1>2. WillHave(id)' <=> EndsOn(Append(queue, m), on, off, start)
  BY DEF WillHave, EndsOn
<1>3. WillHave(id) <=> EndsOn(queue, on, off, start)
  BY DEF WillHave
<1> HIDE DEF start, on, off
<1>4. EndsOn(Append(queue, m), on, off, start) <=>
          (m \in on \/ (m \notin off /\ EndsOn(queue, on, off, start)))
  BY <1>1, EndsOnAppend
<1> QED BY <1>1, <1>2, <1>3, <1>4 DEF on

LEMMA ReadFromList ==
    ASSUME QueueTypeOK, NEW m, NEW calls, Receive(m, calls), TurnsList(m), NEW id \in GamepadId
    PROVE  WillHave(id)' <=> WillHave(id)
<1> DEFINE start == id \in gamepads
           next == id \in gamepads'
           on == Arrivals(id)
           off == {Disconnected(id)}
<1>1. /\ queue \in Seq(Messages) /\ queue # <<>> /\ m = Head(queue) /\ queue' = Tail(queue)
      /\ start \in BOOLEAN /\ next \in BOOLEAN /\ on \cap off = {}
      /\ (m \in off <=> m = Disconnected(id))
  BY PadKinds DEF QueueTypeOK, Receive
<1>2. WillHave(id)' <=> EndsOn(Tail(queue), on, off, next)
  BY <1>1 DEF WillHave, EndsOn
<1>3. WillHave(id) <=> EndsOn(queue, on, off, start)
  BY DEF WillHave
<1>4. next <=> m \in on \/ (m # Disconnected(id) /\ start)
  BY DEF TurnsList
<1> HIDE DEF start, next, on, off
<1>5. EndsOn(Tail(queue), on, off, next) <=> EndsOn(queue, on, off, start)
  BY <1>1, <1>4, EndsOnTail
<1> QED BY <1>2, <1>3, <1>5

LEMMA SameList ==
    ASSUME queue' = queue, gamepads' = gamepads, NEW id PROVE WillHave(id)' <=> WillHave(id)
BY DEF WillHave, EndsOn

LEMMA InitPadList == DockInit => PadListInv
<1> SUFFICES ASSUME DockInit PROVE PadListInv
  OBVIOUS
<1>1. queue = <<>> /\ gamepads = {} /\ xinput = {} /\ hid = {}
      /\ bt = [d \in BtDevs |-> NoPad]
  BY DEF DockInit, EngineInit, QueueInit, GamepadInit
<1>2. Len(queue) = 0 /\ \A i : i \notin 1 .. Len(queue)
  BY <1>1
<1>3. LiveIds = {}
  BY <1>1 DEF LiveIds, NoPad
<1>4. \A id : ~WillHave(id)
  BY <1>1, <1>2 DEF WillHave, EndsOn
<1> QED BY <1>2, <1>3, <1>4 DEF PadListInv, GoneAreGone, ListAgrees

(* Departures stay those of gamepads that left: ids are never given twice.   *)
LEMMA StillGone ==
    ASSUME nextId \in Nat, nextId' \in {nextId, nextId + 1}, LiveIds' \subseteq LiveIds \cup {nextId},
           NEW m, Gone(m)
    PROVE  Gone(m)'
BY DEF Gone

LEMMA GoneInductive ==
    ASSUME QueueTypeOK, GoneAreGone, nextId \in Nat, nextId' \in {nextId, nextId + 1},
           LiveIds' \subseteq LiveIds \cup {nextId},
           \/ queue' = queue
           \/ queue # <<>> /\ queue' = Tail(queue)
           \/ \E m \in Messages : queue' = Append(queue, m) /\ Gone(m)'
    PROVE  GoneAreGone'
<1>1. \A m : Gone(m) => Gone(m)'
  BY StillGone
<1>2. queue \in Seq(Messages) /\ Len(queue) \in Nat
  BY LenProperties DEF QueueTypeOK
<1>3. CASE queue' = queue
  BY <1>1, <1>3 DEF GoneAreGone, Gone
<1>4. CASE queue # <<>> /\ queue' = Tail(queue)
  <2>1. \A i \in 1 .. Len(queue') : i + 1 \in 1 .. Len(queue) /\ queue'[i] = queue[i + 1]
    BY <1>2, <1>4, HeadTailProperties
  <2> QED BY <1>1, <2>1 DEF GoneAreGone, Gone
<1>5. ASSUME NEW m \in Messages, queue' = Append(queue, m), Gone(m)' PROVE GoneAreGone'
  <2>1. \A i \in 1 .. Len(queue') :
           (i \in 1 .. Len(queue) /\ queue'[i] = queue[i]) \/ queue'[i] = m
    BY <1>2, <1>5, AppendProperties
  <2> QED BY <1>1, <1>5, <2>1 DEF GoneAreGone, Gone
<1> QED BY <1>3, <1>4, <1>5

LEMMA PadListInductive ==
    ASSUME DockTypeInv, PadInv, PadListInv, [DockNext]_dockVars PROVE PadListInv'
<1>1. QueueTypeOK /\ nextId \in Nat /\ GoneAreGone /\ ListAgrees
  BY DEF DockTypeInv, EngineInv, EngineTypeOK, PadTypeInv, GamepadTypeOK, PadListInv
<1>2. CASE Handle /\ UNCHANGED gamepadVars
  <2>1. PICK m, calls : Receive(m, calls) /\ TurnsList(m)
    BY <1>2, HandleTurnsList
  <2>2. lost' = lost /\ queue # <<>> /\ queue' = Tail(queue)
    BY <2>1 DEF Receive
  <2>3. nextId' = nextId /\ LiveIds' = LiveIds
    BY <1>2, SameLiveIds DEF gamepadVars
  <2>4. \A id \in GamepadId : WillHave(id)' <=> WillHave(id)
    BY <1>1, <2>1, ReadFromList
  <2>5. GoneAreGone'
    BY <1>1, <2>2, <2>3, GoneInductive
  <2>6. ListAgrees'
    BY <1>1, <2>2, <2>3, <2>4 DEF ListAgrees
  <2> QED BY <2>5, <2>6 DEF PadListInv
<1>3. ASSUME SendsNothing, gamepads' = gamepads, LiveIds' = LiveIds,
             nextId' \in {nextId, nextId + 1}
      PROVE  PadListInv'
  <2>1. queue' = queue /\ lost' = lost
    BY <1>3 DEF SendsNothing
  <2>2. GoneAreGone'
    BY <1>1, <1>3, <2>1, GoneInductive
  <2>3. ListAgrees'
    BY <1>1, <1>3, <2>1, SameList DEF ListAgrees
  <2> QED BY <2>2, <2>3 DEF PadListInv
<1>4. ASSUME NEW m \in Messages, Send(m), gamepads' = gamepads,
             nextId' \in {nextId, nextId + 1}, LiveIds' \subseteq LiveIds \cup {nextId}, Gone(m)',
             OtherKind(m) => LiveIds' = LiveIds,
             \A id \in GamepadId : id \in LiveIds' <=>
                 m \in Arrivals(id) \/ (m # Disconnected(id) /\ id \in LiveIds)
      PROVE  PadListInv'
  <2>1. CASE queue' = Append(queue, m) /\ lost' = lost
    <3>1. GoneAreGone'
      BY <1>1, <1>4, <2>1, GoneInductive
    <3>2. \A id \in GamepadId :
             WillHave(id)' <=> m \in Arrivals(id) \/ (m # Disconnected(id) /\ WillHave(id))
      BY <1>1, <1>4, <2>1, AppendedToList
    <3>3. ListAgrees'
      BY <1>1, <1>4, <2>1, <3>2 DEF ListAgrees
    <3> QED BY <3>1, <3>3 DEF PadListInv
  <2>2. CASE queue' = queue /\ lost' = lost \cup ({m.kind} \cap Tracked)
    <3>1. GoneAreGone'
      BY <1>1, <1>4, <2>2, GoneInductive
    <3>2. CASE OtherKind(m)
      <4>1. \A id \in GamepadId : WillHave(id)' <=> WillHave(id)
        BY <1>4, <2>2, SameList
      <4>2. lost \subseteq lost'
        BY <2>2
      <4>3. ListAgrees'
        BY <1>1, <1>4, <3>2, <4>1, <4>2 DEF ListAgrees
      <4> QED BY <3>1, <4>3 DEF PadListInv
    <3>3. CASE ~OtherKind(m)
      <4>1. m.kind \in {"GamepadConnected", "GamepadDisconnected"} \cap lost'
        BY <2>2, <3>3, PadKinds DEF OtherKind
      <4>2. ListAgrees'
        BY <4>1 DEF ListAgrees
      <4> QED BY <3>1, <4>2 DEF PadListInv
    <3> QED BY <3>2, <3>3
  <2> QED BY <1>1, <1>4, <2>1, <2>2, SendSwitches
<1>5. ASSUME gamepads' = gamepads, NEW m \in Messages, OtherKind(m), Send(m),
             nextId' = nextId, LiveIds' = LiveIds
      PROVE  PadListInv'
  <2>1. Gone(m)'
    BY <1>5 DEF Gone, OtherKind
  <2>2. \A id \in GamepadId : m \notin Arrivals(id) /\ m # Disconnected(id)
    BY <1>5, PadKinds DEF OtherKind
  <2> QED BY <1>4, <1>5, <2>1, <2>2
<1>6. ASSUME gamepads' = gamepads, OthersPost PROVE PadListInv'
  <2>1. nextId' = nextId /\ LiveIds' = LiveIds
    BY <1>6, SameLiveIds DEF OthersPost, gamepadVars
  <2> QED BY <1>3, <1>5, <1>6, <2>1 DEF OthersPost
<1>7. ASSUME gamepads' = gamepads, NEW id \in GamepadId, PadReports(id) PROVE PadListInv'
  <2>1. Data(id) \in Messages /\ OtherKind(Data(id))
    BY MessageKinds DEF Messages, OtherKind
  <2> QED BY <1>5, <1>7, <2>1 DEF PadReports
<1>8. ASSUME gamepads' = gamepads, NEW id \in GamepadId, PadGoes(id) PROVE PadListInv'
  <2>1. /\ nextId' = nextId /\ LiveIds' = LiveIds \ {id} /\ id \in 0 .. nextId - 1
        /\ Send(Disconnected(id)) /\ Disconnected(id) \in Messages
    BY <1>8 DEF PadGoes, Messages
  <2>2. Gone(Disconnected(id))'
    BY <2>1, PadKinds DEF Gone
  <2>3. \A o \in GamepadId : /\ Disconnected(id) \notin Arrivals(o)
                             /\ Disconnected(id) = Disconnected(o) <=> o = id
    BY PadKinds
  <2>4. ~OtherKind(Disconnected(id))
    BY PadKinds DEF OtherKind
  <2> DEFINE m == Disconnected(id)
  <2>5. \A o \in GamepadId : o \in LiveIds' <=>
            m \in Arrivals(o) \/ (m # Disconnected(o) /\ o \in LiveIds)
    BY <2>1, <2>3
  <2> HIDE DEF m
  <2> QED BY <1>4, <1>8, <2>1, <2>2, <2>4, <2>5 DEF m
<1>9. ASSUME gamepads' = gamepads, NEW w \in BOOLEAN, PadComes(w),
             NEW id \in GamepadId, id = nextId
      PROVE  PadListInv'
  <2> DEFINE m == Connected(id, w)
  <2>1. /\ nextId' = nextId + 1 /\ LiveIds' = LiveIds \cup {id}
        /\ Send(m) /\ m \in Messages
    BY <1>9 DEF PadComes, Messages
  <2>2. Gone(m)'
    BY PadKinds DEF Gone
  <2>3. ASSUME NEW o \in GamepadId
        PROVE  (m \in Arrivals(o) <=> o = id) /\ m # Disconnected(o)
    <3>1. m \in Arrivals(o) => o = id
      BY PadKinds
    <3>2. m \in Arrivals(id)
      BY PadKinds, Zenon
    <3>3. m # Disconnected(o)
      BY PadKinds
    <3> QED BY <3>1, <3>2, <3>3
  <2>4. ~OtherKind(m)
    BY PadKinds DEF OtherKind
  <2>5. \A o \in GamepadId : o \in LiveIds' <=>
            m \in Arrivals(o) \/ (m # Disconnected(o) /\ o \in LiveIds)
    BY <2>1, <2>3
  <2> HIDE DEF m
  <2> QED BY <1>4, <1>9, <2>1, <2>2, <2>4, <2>5
<1>10. CASE gamepads' = gamepads /\ GamepadNext
  <2>1. PadStep
    BY <1>10, PadsStep
  <2>2. PadStays => PadListInv'
    BY <1>3, <1>10 DEF PadStays
  <2>3. ASSUME NEW w \in BOOLEAN, PadComes(w) PROVE nextId \in GamepadId
    <3>1. nextId \in 1 .. MaxId + 1 /\ nextId' \in 1 .. MaxId + 1 /\ nextId' = nextId + 1
      BY <1>10, <2>3, PadsStep DEF PadComes, PadInv, PadTypeInv, GamepadTypeOK
    <3>2. nextId \in 0 .. MaxId
      BY <3>1, GamepadAssumption DEF GamepadAssumption
    <3> QED BY <3>2, GamepadAssumption DEF GamepadAssumption
  <2> QED BY <1>7, <1>8, <1>9, <1>10, <2>1, <2>2, <2>3 DEF PadStep
<1> QED BY <1>2, <1>6, <1>10, DockListStep

LEMMA DockPadInvariants == DockSpec => [](DockTypeInv /\ PadInv /\ PadListInv)
<1>1. DockInit => PadInv
  BY InitPad DEF DockInit
<1>2. ASSUME PadInv, [GamepadNext]_gamepadVars PROVE PadInv'
  <2>1. CASE UNCHANGED gamepadVars
    <3>1. UNCHANGED <<nextId, plugged, xinput, hid, bt>>
      BY <2>1 DEF gamepadVars
    <3>2. \A s \in xinput \cup hid : s.dev \in plugged'
      BY <1>2, <3>1 DEF PadInv, PadOwned
    <3>3. PadOwned' /\ IdsApart'
      BY <1>2, <3>1, <3>2, SamePads
    <3> QED BY <1>2, <3>3, PadTypeInductive DEF PadInv
  <2> QED BY <1>2, <2>1, PadsStep
<1>3. DockTypeInv /\ PadInv /\ PadListInv /\ [DockNext]_dockVars
          => (DockTypeInv /\ PadInv /\ PadListInv)'
  BY <1>2, DockStepsPads, DockTypeInductive, PadListInductive
<1> QED BY <1>1, <1>3, InitDockType, InitPadList, PTL DEF DockSpec

LEMMA ListIsLive ==
    ASSUME DockTypeInv, PadInv, PadListInv, queue = <<>>, lost = {} PROVE gamepads = LiveIds
<1>1. \A id \in GamepadId : WillHave(id) <=> id \in LiveIds
  BY DEF PadListInv, ListAgrees
<1>2. Len(queue) = 0 /\ \A i : i \notin 1 .. Len(queue)
  OBVIOUS
<1>3. \A id : WillHave(id) <=> id \in gamepads
  BY <1>2 DEF WillHave, EndsOn
<1>4. gamepads \subseteq GamepadId
  BY DEF DockTypeInv, EngineInv, EngineTypeOK
<1>5. LiveIds \subseteq GamepadId
  BY DEF LiveIds, PadInv, PadTypeInv, GamepadTypeOK
<1> QED BY <1>1, <1>3, <1>4, <1>5

(* Unless a message was dropped, the engine's list of gamepads is what the   *)
(* drivers hold whenever its queue is empty: with any number of devices      *)
(* plugged, unplugged, paired and dropped in any order.                      *)
THEOREM GamepadListFollows == DockSpec => []GamepadListAgrees
<1>1. DockTypeInv /\ PadInv /\ PadListInv => GamepadListAgrees
  BY ListIsLive DEF GamepadListAgrees
<1> QED BY <1>1, DockPadInvariants, PTL

(* No gamepad is disconnected in another's name, a Bluetooth entry that is   *)
(* used again with the id of its last gamepad included.                      *)
THEOREM NoLiveGamepadDisconnected == DockSpec => []NoLiveDisconnect
<1>1. ASSUME DockTypeInv, PadListInv PROVE NoLiveDisconnect
  <2>1. DOMAIN queue = 1 .. Len(queue)
    BY <1>1, LenProperties DEF DockTypeInv, EngineInv, EngineTypeOK, QueueTypeOK
  <2> QED BY <1>1, <2>1 DEF NoLiveDisconnect, PadListInv, GoneAreGone, Gone
<1> QED BY <1>1, DockPadInvariants, PTL

-----------------------------------------------------------------------------
(* What the handheld will know.  A packet reaches it through the engine's    *)
(* calls, the packet queue and the transfer in flight; each is a switch for  *)
(* every gamepad, and the three are read one after the other.                *)
Told(calls, id, before) == EndsOn(calls, {Push("CONNECT", id)}, {Push("DISCONNECT", id)}, before)
ToldByTx(q, id, before) ==
    EndsOn(q, {Packet("CONNECT", id)}, {Packet("DISCONNECT", id)}, before)
ToldByBulk(id) ==
    \/ \E x \in bulk : x.packet = Packet("CONNECT", id)
    \/ id \in port.view /\ \A x \in bulk : x.packet # Packet("DISCONNECT", id)
WillBeIn(id) == ToldByTx(tx, id, ToldByBulk(id))
WillKnow(id) == Told(todo, id, WillBeIn(id))

LEMMA SwitchPackets ==
    ASSUME NEW id
    PROVE  /\ {Packet("CONNECT", id)} \cap {Packet("DISCONNECT", id)} = {}
           /\ {Push("CONNECT", id)} \cap {Push("DISCONNECT", id)} = {}
           /\ Packet("CONNECT", id).request = "CONNECT"
           /\ Packet("DISCONNECT", id).request = "DISCONNECT"
           /\ Push("CONNECT", id).op = "Push" /\ Push("DISCONNECT", id).op = "Push"
           /\ Push("CONNECT", id).packet = Packet("CONNECT", id)
           /\ Push("DISCONNECT", id).packet = Packet("DISCONNECT", id)
<1>1. /\ Packet("CONNECT", id).request = "CONNECT"
      /\ Packet("DISCONNECT", id).request = "DISCONNECT"
  BY DEF Packet
<1>2. /\ Push("CONNECT", id).op = "Push" /\ Push("DISCONNECT", id).op = "Push"
      /\ Push("CONNECT", id).packet = Packet("CONNECT", id)
      /\ Push("DISCONNECT", id).packet = Packet("DISCONNECT", id)
  BY DEF Push
<1>3. Packet("CONNECT", id) # Packet("DISCONNECT", id)
  BY <1>1
<1>4. Push("CONNECT", id) # Push("DISCONNECT", id)
  BY <1>2, <1>3
<1> QED BY <1>1, <1>2, <1>3, <1>4

(* Messages that switch nothing. *)
LEMMA EndsOnNeutral ==
    ASSUME NEW q, NEW on, NEW off, NEW start, \A i \in 1 .. Len(q) : q[i] \notin on \cup off
    PROVE  EndsOn(q, on, off, start) <=> start
BY DEF EndsOn

LEMMA EndsOnSame ==
    ASSUME NEW q, NEW on, NEW off, NEW start, NEW next, start <=> next
    PROVE  EndsOn(q, on, off, start) <=> EndsOn(q, on, off, next)
BY EndsOnMonotone

(* A last message that switches nothing is replaced by another such. *)
LEMMA EndsOnReplaced ==
    ASSUME NEW M, NEW q \in Seq(M), NEW m \in M, q # <<>>, NEW on, NEW off, NEW start,
           q[Len(q)] \notin on \cup off, m \notin on \cup off
    PROVE  EndsOn([q EXCEPT ![Len(q)] = m], on, off, start) <=> EndsOn(q, on, off, start)
<1> DEFINE r == [q EXCEPT ![Len(q)] = m]
<1>1. Len(q) \in Nat /\ Len(q) \in 1 .. Len(q)
  BY LenProperties, EmptySeq
<1>2. /\ Len(r) = Len(q)
      /\ \A i \in 1 .. Len(q) : r[i] = IF i = Len(q) THEN m ELSE q[i]
  <2> DEFINE n == Len(q)
  <2>1. n \in 1 .. Len(q)
    BY <1>1
  <2> HIDE DEF n
  <2>2. /\ Len([q EXCEPT ![n] = m]) = Len(q)
        /\ \A i \in 1 .. Len(q) : [q EXCEPT ![n] = m][i] = IF i = n THEN m ELSE q[i]
    BY <2>1, ExceptSeq
  <2> QED BY <2>2 DEF n
<1> HIDE DEF r
<1>3. \A i \in 1 .. Len(q) : (r[i] \in on <=> q[i] \in on) /\ (r[i] \in off <=> q[i] \in off)
  BY <1>2
<1>4. EndsOn(r, on, off, start) <=> EndsOn(q, on, off, start)
  BY <1>1, <1>2, <1>3 DEF EndsOn
<1> QED BY <1>4 DEF r

(* A packet pushed: data, wherever it goes, says nothing of who is there.    *)
LEMMA PushedTells ==
    ASSUME NEW q \in Seq(Packets), NEW p \in Packets, NEW id, NEW b \in BOOLEAN
    PROVE  ToldByTx(Pushed(q, p), id, b) <=>
               p = Packet("CONNECT", id) \/ (p # Packet("DISCONNECT", id) /\ ToldByTx(q, id, b))
<1> DEFINE on == {Packet("CONNECT", id)}
           off == {Packet("DISCONNECT", id)}
<1>1. /\ on \cap off = {} /\ (p \in on <=> p = Packet("CONNECT", id))
      /\ (p \in off <=> p = Packet("DISCONNECT", id))
      /\ \A x \in on \cup off : x.request # "DATA"
  BY SwitchPackets
<1>2. \A s : ToldByTx(s, id, b) <=> EndsOn(s, on, off, b)
  BY DEF ToldByTx
<1> HIDE DEF on, off
<1>3. CASE p.request = "DATA" /\ q # <<>> /\ q[Len(q)].request = "DATA"
  <2>1. q[Len(q)] \notin on \cup off /\ p \notin on \cup off
    BY <1>1, <1>3
  <2>2. EndsOn([q EXCEPT ![Len(q)] = p], on, off, b) <=> EndsOn(q, on, off, b)
    BY <1>3, <2>1, EndsOnReplaced
  <2>3. Pushed(q, p) = [q EXCEPT ![Len(q)] = p]
    BY <1>3 DEF Pushed
  <2> QED BY <1>1, <1>2, <2>1, <2>2, <2>3
<1>4. CASE ~(p.request = "DATA" /\ q # <<>> /\ q[Len(q)].request = "DATA")
  <2>1. Pushed(q, p) = Append(q, p)
    BY <1>4 DEF Pushed
  <2>2. EndsOn(Append(q, p), on, off, b) <=>
            (p \in on \/ (p \notin off /\ EndsOn(q, on, off, b)))
    BY <1>1, EndsOnAppend
  <2> QED BY <1>1, <1>2, <2>1, <2>2
<1> QED BY <1>3, <1>4

(* Of the packets at the head of the queue, and of the calls. *)
LEMMA TxTailTells ==
    ASSUME NEW q \in Seq(Packets), q # <<>>, NEW id, NEW b \in BOOLEAN, NEW c \in BOOLEAN,
           c <=> Head(q) = Packet("CONNECT", id) \/ (Head(q) # Packet("DISCONNECT", id) /\ b)
    PROVE  ToldByTx(Tail(q), id, c) <=> ToldByTx(q, id, b)
<1> DEFINE on == {Packet("CONNECT", id)}
           off == {Packet("DISCONNECT", id)}
<1>1. on \cap off = {} /\ (c <=> (Head(q) \in on \/ (Head(q) \notin off /\ b)))
  BY SwitchPackets
<1>2. \A s, d : ToldByTx(s, id, d) <=> EndsOn(s, on, off, d)
  BY DEF ToldByTx
<1> HIDE DEF on, off
<1>3. EndsOn(Tail(q), on, off, c) <=> EndsOn(q, on, off, b)
  BY <1>1, EndsOnTail
<1> QED BY <1>2, <1>3

LEMMA CallTailTells ==
    ASSUME NEW calls \in Seq(Calls), calls # <<>>, NEW id, NEW b \in BOOLEAN, NEW c \in BOOLEAN,
           c <=> Head(calls) = Push("CONNECT", id) \/ (Head(calls) # Push("DISCONNECT", id) /\ b)
    PROVE  Told(Tail(calls), id, c) <=> Told(calls, id, b)
<1> DEFINE on == {Push("CONNECT", id)}
           off == {Push("DISCONNECT", id)}
<1>1. on \cap off = {} /\ (c <=> (Head(calls) \in on \/ (Head(calls) \notin off /\ b)))
  BY SwitchPackets
<1>2. \A s, d : Told(s, id, d) <=> EndsOn(s, on, off, d)
  BY DEF Told
<1> HIDE DEF on, off
<1>3. EndsOn(Tail(calls), on, off, c) <=> EndsOn(calls, on, off, b)
  BY <1>1, EndsOnTail
<1> QED BY <1>2, <1>3

LEMMA CallAppendTells ==
    ASSUME NEW calls \in Seq(Calls), NEW c \in Calls, NEW id, NEW b \in BOOLEAN
    PROVE  Told(Append(calls, c), id, b) <=>
               c = Push("CONNECT", id) \/ (c # Push("DISCONNECT", id) /\ Told(calls, id, b))
<1> DEFINE on == {Push("CONNECT", id)}
           off == {Push("DISCONNECT", id)}
<1>1. /\ on \cap off = {} /\ (c \in on <=> c = Push("CONNECT", id))
      /\ (c \in off <=> c = Push("DISCONNECT", id))
  BY SwitchPackets
<1>2. \A s, d : Told(s, id, d) <=> EndsOn(s, on, off, d)
  BY DEF Told
<1> HIDE DEF on, off
<1>3. EndsOn(Append(calls, c), on, off, b) <=>
          (c \in on \/ (c \notin off /\ EndsOn(calls, on, off, b)))
  BY <1>1, EndsOnAppend
<1> QED BY <1>1, <1>2, <1>3

(* Calls among which there is no push. *)
Silent(calls) == calls \in Seq(Calls) /\ \A i \in 1 .. Len(calls) : calls[i].op # "Push"

LEMMA SilentTells ==
    ASSUME NEW calls, Silent(calls), NEW id, NEW b PROVE Told(calls, id, b) <=> b
<1>1. \A i \in 1 .. Len(calls) :
         calls[i] \notin {Push("CONNECT", id)} \cup {Push("DISCONNECT", id)}
  BY SwitchPackets DEF Silent
<1> QED BY <1>1, EndsOnNeutral DEF Told

-----------------------------------------------------------------------------
(* What the calls of a handler tell a handheld, if it has one afterwards:    *)
(* nothing it should not know of the gamepads there are, and if it is docked *)
(* all there is to know.                                                     *)
Tracking(calls) ==
    \A id \in GamepadId, b \in BOOLEAN :
        /\ Told(calls, id, b) /\ (b => id \in gamepads) => id \in gamepads'
        /\ /\ handheld' = "Active" /\ (handheld = "Active" /\ id \in gamepads => b)
           /\ id \in gamepads'
           => Told(calls, id, b)

LEMMA SilentTracks ==
    ASSUME NEW calls, Silent(calls), gamepads' = gamepads,
           handheld' = "Active" => handheld = "Active"
    PROVE  Tracking(calls)
BY SilentTells DEF Tracking

LEMMA SilentPrograms ==
    /\ Silent(<<>>) /\ Silent(BeginPairing) /\ Silent(EndPairing)
    /\ \A r \in Requests : Silent(<<Control(r)>>) /\ Silent(<<ResetTx, Control(r)>>)
    /\ Silent(<<SetHdmi(TRUE), PostLed("DockActive", TRUE)>>)
<1>1. ASSUME NEW a \in Calls, a.op # "Push" PROVE Silent(<<a>>)
  BY <1>1 DEF Silent
<1>2. ASSUME NEW a \in Calls, a.op # "Push", NEW b \in Calls, b.op # "Push"
      PROVE  Silent(<<a, b>>)
  BY <1>2 DEF Silent
<1>3. ResetTx \in Calls /\ ResetTx.op # "Push"
  BY CallTypes DEF ResetTx
<1>4. \A r \in Requests : Control(r) \in Calls /\ Control(r).op # "Push"
  BY CallTypes DEF Control
<1>5. \A b \in BOOLEAN : /\ EnablePairing(b) \in Calls /\ EnablePairing(b).op # "Push"
                         /\ SetHdmi(b) \in Calls /\ SetHdmi(b).op # "Push"
  BY CallTypes DEF EnablePairing, SetHdmi
<1>6. \A s \in LedStates, b \in BOOLEAN : PostLed(s, b) \in Calls /\ PostLed(s, b).op # "Push"
  BY CallTypes DEF PostLed
<1>7. "DockActive" \in LedStates /\ "BluetoothPairing" \in LedStates
  BY DEF LedStates
<1>8. Silent(<<>>)
  BY DEF Silent
<1>9. Silent(BeginPairing) /\ Silent(EndPairing)
  BY <1>2, <1>5, <1>6, <1>7 DEF BeginPairing, EndPairing
<1>10. \A r \in Requests : Silent(<<Control(r)>>) /\ Silent(<<ResetTx, Control(r)>>)
  BY <1>1, <1>2, <1>3, <1>4
<1>11. Silent(<<SetHdmi(TRUE), PostLed("DockActive", TRUE)>>)
  BY <1>2, <1>5, <1>6, <1>7
<1> QED BY <1>8, <1>9, <1>10, <1>11

(* One gamepad announced, withdrawn or moved. *)
LEMMA OneTold ==
    ASSUME NEW calls, Silent(calls), NEW r \in {"CONNECT", "DISCONNECT", "DATA"},
           NEW id \in GamepadId, handheld # "None", NEW o, NEW b \in BOOLEAN
    PROVE  Told(calls \o Tell(r, id), o, b) <=>
               (r = "CONNECT" /\ o = id) \/ (~(r = "DISCONNECT" /\ o = id) /\ b)
<1>1. Push(r, id) \in Calls /\ calls \in Seq(Calls)
  BY CallTypes DEF Push, Packet, Packets, Silent
<1>2. calls \o Tell(r, id) = Append(calls, Push(r, id))
  BY <1>1, AppendIsConcat DEF Tell
<1>3. Told(Append(calls, Push(r, id)), o, b) <=>
          \/ Push(r, id) = Push("CONNECT", o)
          \/ Push(r, id) # Push("DISCONNECT", o) /\ b
  BY <1>1, CallAppendTells, SilentTells
<1>4. \A s : Push(r, id) = Push(s, o) <=> r = s /\ id = o
  <2>1. /\ \A t, i : Push(t, i).packet = Packet(t, i)
        /\ \A t, i : Packet(t, i).request = t /\ Packet(t, i).id = i
    BY DEF Push, Packet
  <2> QED BY <2>1
<1> QED BY <1>2, <1>3, <1>4

(* All gamepads announced, each once, in whatever order. *)
LEMMA AllTold ==
    ASSUME EngineInv, NEW announce \in Announcements, NEW calls, Silent(calls),
           NEW id, NEW b \in BOOLEAN
    PROVE  Told(calls \o announce, id, b) <=> id \in gamepads \/ b
<1> DEFINE n == Cardinality(gamepads)
           k == Len(calls)
           all == calls \o announce
<1>1. n \in Nat /\ IsFiniteSet(gamepads)
  BY FS_CardinalityType DEF EngineInv
<1>2. PICK order \in [1 .. n -> gamepads] :
         /\ announce = [i \in 1 .. n |-> Push("CONNECT", order[i])]
         /\ \A i, j \in 1 .. n : order[i] = order[j] => i = j
  BY DEF Announcements
<1>3. \A g \in gamepads : \E i \in 1 .. n : order[i] = g
  <2>1. order \in Injection(1 .. n, gamepads)
    BY <1>2 DEF Injection, IsInjective
  <2>2. Cardinality(1 .. n) = n
    BY <1>1, FS_Interval
  <2>3. order \in Surjection(1 .. n, gamepads)
    BY <1>1, <2>1, <2>2, FS_Injection
  <2> QED BY <2>3 DEF Surjection
<1>4. announce \in Seq(Calls) /\ calls \in Seq(Calls)
  BY <1>1, AnnouncementsType DEF EngineInv, EngineTypeOK, Silent
<1>5. /\ k \in Nat /\ Len(announce) = n /\ Len(all) = k + n
      /\ \A i \in 1 .. k : i \in 1 .. k + n /\ all[i] = calls[i]
      /\ \A i \in 1 .. n : k + i \in 1 .. k + n /\ all[k + i] = Push("CONNECT", order[i])
      /\ \A i \in 1 .. k + n : i \in 1 .. k \/ \E j \in 1 .. n : i = k + j
  <2>1. /\ Len(all) = Len(calls) + Len(announce)
        /\ \A i \in 1 .. Len(calls) + Len(announce) :
              all[i] = IF i <= Len(calls) THEN calls[i] ELSE announce[i - Len(calls)]
    BY <1>4, ConcatProperties
  <2>2. k \in Nat /\ Len(announce) = n
    BY <1>1, <1>2, <1>4, LenProperties
  <2> HIDE DEF all, n, k
  <2>3. \A i \in 1 .. k : i \in 1 .. k + n /\ all[i] = calls[i]
    BY <1>1, <2>1, <2>2 DEF k
  <2>4. \A i \in 1 .. n : k + i \in 1 .. k + n /\ ~(k + i <= k) /\ (k + i) - k = i
    BY <1>1, <2>2
  <2>5. \A i \in 1 .. n : all[k + i] = announce[i]
    BY <2>1, <2>2, <2>4 DEF k
  <2>6. \A i \in 1 .. k + n : i \in 1 .. k \/ (i - k \in 1 .. n /\ i = k + (i - k))
    BY <1>1, <2>2
  <2> QED BY <1>2, <2>1, <2>2, <2>3, <2>4, <2>5, <2>6 DEF n, k
<1> DEFINE on == {Push("CONNECT", id)}
           off == {Push("DISCONNECT", id)}
<1>6. /\ \A i \in 1 .. k : calls[i] \notin on \cup off
      /\ \A g : Push("CONNECT", g) \notin off /\ (Push("CONNECT", g) \in on <=> g = id)
  <2>1. \A t, g : Push(t, g).packet.request = t /\ Push(t, g).packet.id = g
    BY DEF Push, Packet
  <2>2. \A g : Push("CONNECT", g) = Push("CONNECT", id) <=> g = id
    BY <2>1
  <2>3. \A g : Push("CONNECT", g) # Push("DISCONNECT", id)
    BY <2>1
  <2> QED BY <2>2, <2>3, SwitchPackets DEF Silent
<1>7. Told(all, id, b) <=> EndsOn(all, on, off, b)
  BY DEF Told
<1> HIDE DEF all, n, k, on, off
<1>8. CASE id \in gamepads
  <2>1. PICK i \in 1 .. n : order[i] = id
    BY <1>3, <1>8
  <2>2. k + i \in 1 .. Len(all) /\ all[k + i] \in on
    BY <1>5, <1>6, <2>1
  <2>3. ASSUME NEW j \in 1 .. Len(all), j > k + i PROVE all[j] \notin on \cup off
    <3>1. j \notin 1 .. k
      BY <1>1, <1>5, <2>3
    <3>2. PICK m \in 1 .. n : j = k + m
      BY <1>5, <2>3, <3>1
    <3>3. m # i
      BY <1>1, <1>5, <2>3, <3>2
    <3>4. order[m] # id
      BY <1>2, <2>1, <3>3
    <3> QED BY <1>5, <1>6, <3>2, <3>4
  <2> QED BY <1>7, <1>8, <2>2, <2>3 DEF EndsOn, all
<1>9. CASE id \notin gamepads
  <2>1. ASSUME NEW j \in 1 .. Len(all) PROVE all[j] \notin on \cup off
    <3>1. CASE j \in 1 .. k
      BY <1>5, <1>6, <3>1
    <3>2. ASSUME NEW m \in 1 .. n, j = k + m PROVE all[j] \notin on \cup off
      <4>1. order[m] # id
        BY <1>2, <1>9
      <4> QED BY <1>5, <1>6, <3>2, <4>1
    <3> QED BY <1>5, <3>1, <3>2
  <2>2. EndsOn(all, on, off, b) <=> b
    BY <2>1, EndsOnNeutral
  <2> QED BY <1>7, <1>9, <2>2 DEF all
<1> QED BY <1>8, <1>9

LEMMA HandleTracks ==
    ASSUME EngineInv, Handle, handheld' # "None"
    PROVE  \E m, calls : Receive(m, calls) /\ Tracking(calls)
<1> USE SilentPrograms
<1>1. CASE HandleMount
  <2>1. /\ Receive(Mount, <<ResetTx, Control("GET_INFO")>>) /\ gamepads' = gamepads
        /\ handheld' # "Active"
    BY <1>1 DEF HandleMount
  <2>2. Tracking(<<ResetTx, Control("GET_INFO")>>)
    BY <2>1, SilentTracks DEF Requests
  <2> QED BY <2>1, <2>2
<1>2. ASSUME NEW m, Receive(m, <<>>), gamepads' = gamepads,
             handheld' = "Active" => handheld = "Active"
      PROVE  \E n, calls : Receive(n, calls) /\ Tracking(calls)
  BY <1>2, SilentTracks
<1>3. CASE HandleGetInfo
  <2>1. gamepads' = gamepads /\ handheld' # "Active"
    BY <1>3 DEF HandleGetInfo
  <2>2. CASE Receive(XferComplete("GET_INFO", "ok"), <<Control("DOCK_BEGIN")>>)
    <3>1. Tracking(<<Control("DOCK_BEGIN")>>)
      BY <2>1, SilentTracks DEF Requests
    <3> QED BY <2>2, <3>1
  <2> QED BY <1>2, <1>3, <2>1, <2>2 DEF HandleGetInfo
<1>4. CASE HandleDockBegin
  <2> DEFINE start == <<SetHdmi(TRUE), PostLed("DockActive", TRUE)>>
  <2>1. gamepads' = gamepads /\ handheld = "WaitForDockBegin"
    BY <1>4 DEF HandleDockBegin
  <2>2. ASSUME NEW o, NEW announce \in Announcements,
               Receive(XferComplete("DOCK_BEGIN", o), start \o announce)
        PROVE  \E m, calls : Receive(m, calls) /\ Tracking(calls)
    <3>1. Silent(start)
      OBVIOUS
    <3> HIDE DEF start
    <3>2. Tracking(start \o announce)
      BY <2>1, <3>1, AllTold DEF Tracking
    <3> QED BY <2>2, <3>2
  <2>3. CASE Receive(XferComplete("DOCK_BEGIN", "failed"), <<>>) /\ handheld' = "Error"
    BY <1>2, <2>1, <2>3
  <2> QED BY <1>4, <2>2, <2>3 DEF HandleDockBegin
<1>5. CASE HandleUnexpectedMount \/ HandleOtherXfer \/ HandleShortPress
  <2>1. gamepads' = gamepads /\ handheld' = handheld /\ \E m : Receive(m, <<>>)
    BY <1>5 DEF HandleUnexpectedMount, HandleOtherXfer, HandleShortPress, engineOnly
  <2> QED BY <1>2, <2>1
<1>6. ASSUME NEW id \in GamepadId, NEW wired \in BOOLEAN, HandleConnected(id, wired)
      PROVE  \E m, calls : Receive(m, calls) /\ Tracking(calls)
  <2> DEFINE ending == IF ~wired /\ pairing THEN EndPairing ELSE <<>>
  <2>1. /\ Receive(Connected(id, wired), ending \o Tell("CONNECT", id))
        /\ gamepads' = gamepads \cup {id} /\ handheld' = handheld
    BY <1>6 DEF HandleConnected
  <2>2. Silent(ending)
    OBVIOUS
  <2> HIDE DEF ending
  <2>3. \A o : \A b \in BOOLEAN : Told(ending \o Tell("CONNECT", id), o, b) <=> o = id \/ b
    BY <2>1, <2>2, OneTold
  <2>4. Tracking(ending \o Tell("CONNECT", id))
    BY <2>1, <2>3 DEF Tracking
  <2> QED BY <2>1, <2>4
<1>7. \A c : <<>> \o <<c>> = <<c>>
  OBVIOUS
<1>8. ASSUME NEW id \in GamepadId, HandleDisconnected(id)
      PROVE  \E m, calls : Receive(m, calls) /\ Tracking(calls)
  <2> DEFINE none == <<>>
             calls == none \o Tell("DISCONNECT", id)
  <2>1. /\ Receive(Disconnected(id), Tell("DISCONNECT", id))
        /\ gamepads' = gamepads \ {id} /\ handheld' = handheld
    BY <1>8 DEF HandleDisconnected
  <2>2. Silent(none) /\ calls = Tell("DISCONNECT", id)
    BY <1>7, <2>1 DEF Tell
  <2> HIDE DEF none
  <2>3. \A o : \A b \in BOOLEAN : Told(calls, o, b) <=> o # id /\ b
    BY <2>1, <2>2, OneTold
  <2> HIDE DEF calls
  <2>4. Tracking(calls)
    BY <2>1, <2>3 DEF Tracking
  <2> QED BY <2>1, <2>2, <2>4
<1>9. ASSUME NEW id \in GamepadId, HandleData(id)
      PROVE  \E m, calls : Receive(m, calls) /\ Tracking(calls)
  <2> DEFINE none == <<>>
             calls == none \o Tell("DATA", id)
  <2>1. /\ Receive(Data(id), Tell("DATA", id))
        /\ gamepads' = gamepads /\ handheld' = handheld
    BY <1>9 DEF HandleData, engineOnly
  <2>2. Silent(none) /\ calls = Tell("DATA", id)
    BY <1>7, <2>1 DEF Tell
  <2> HIDE DEF none
  <2>3. \A o : \A b \in BOOLEAN : Told(calls, o, b) <=> b
    BY <2>1, <2>2, OneTold
  <2> HIDE DEF calls
  <2>4. Tracking(calls)
    BY <2>1, <2>3 DEF Tracking
  <2> QED BY <2>1, <2>2, <2>4
<1>10. CASE HandleLongPress
  <2> DEFINE turn == IF pairing THEN EndPairing ELSE BeginPairing
  <2>1. Receive(LongPress, turn) /\ gamepads' = gamepads /\ handheld' = handheld
    BY <1>10 DEF HandleLongPress
  <2>2. Silent(turn)
    OBVIOUS
  <2> HIDE DEF turn
  <2> QED BY <2>1, <2>2, SilentTracks
<1>11. ~HandleUnmount
  BY DEF HandleUnmount
<1> QED BY <1>1, <1>3, <1>4, <1>5, <1>6, <1>8, <1>9, <1>10, <1>11 DEF Handle

-----------------------------------------------------------------------------
(* A step of anybody but a handler leaves alone what the handheld will know, *)
(* unless it goes or a packet for it is lost.                                *)
PipeTypes ==
    /\ tx \in Seq(Packets) /\ todo \in Seq(Calls)
    /\ \A x, y \in bulk : x = y
    /\ port \in Ports

LEMMA SendNextTells ==
    ASSUME PipeTypes, NEW thePort \in Ports, SendNext(thePort), ~port'.missed,
           NEW id, id \in thePort.view <=> ToldByBulk(id)
    PROVE  WillBeIn(id)' <=> WillBeIn(id)
<1> DEFINE b == ToldByBulk(id)
           c == ToldByBulk(id)'
<1>1. b \in BOOLEAN /\ c \in BOOLEAN
  BY DEF ToldByBulk
<1>2. (WillBeIn(id)' <=> ToldByTx(tx', id, c)) /\ (WillBeIn(id) <=> ToldByTx(tx, id, b))
  BY DEF WillBeIn, ToldByTx, EndsOn
<1>3. CASE tx = <<>>
  <2>1. tx' = tx /\ bulk' = {} /\ port' = thePort
    BY <1>3 DEF SendNext
  <2>2. c <=> b
    BY <2>1 DEF ToldByBulk
  <2> QED BY <1>2, <2>1, <2>2, EndsOnSame DEF ToldByTx
<1>4. CASE tx # <<>>
  <2>1. [thePort EXCEPT !.missed = TRUE, !.stuck = device.open].missed
    BY DEF Ports
  <2>2. /\ tx' = Tail(tx) /\ port' = thePort
        /\ bulk' = {[addr |-> device.addr, packet |-> Head(tx)]}
    BY <1>4, <2>1 DEF SendNext, PopFront
  <2>3. c <=> Head(tx) = Packet("CONNECT", id) \/ (Head(tx) # Packet("DISCONNECT", id) /\ b)
    BY <2>2 DEF ToldByBulk
  <2>4. tx \in Seq(Packets)
    BY DEF PipeTypes
  <2> HIDE DEF b, c
  <2>5. ToldByTx(Tail(tx), id, c) <=> ToldByTx(tx, id, b)
    BY <1>1, <1>4, <2>3, <2>4, TxTailTells
  <2> QED BY <1>2, <2>2, <2>5
<1> QED BY <1>3, <1>4

LEMMA SamePipe ==
    ASSUME UNCHANGED <<tx, bulk>>, port'.view = port.view, NEW id
    PROVE  WillBeIn(id)' <=> WillBeIn(id)
BY DEF WillBeIn, ToldByTx, ToldByBulk, EndsOn

LEMMA SameCalls ==
    ASSUME todo' = todo, NEW id, WillBeIn(id)' <=> WillBeIn(id)
    PROVE  WillKnow(id)' <=> WillKnow(id)
<1> DEFINE b == WillBeIn(id)
           c == WillBeIn(id)'
<1>1. (WillKnow(id)' <=> Told(todo, id, c)) /\ (WillKnow(id) <=> Told(todo, id, b))
  BY DEF WillKnow, Told, EndsOn
<1> HIDE DEF b, c
<1> QED BY <1>1, EndsOnSame DEF Told, b, c

LEMMA DeliveredTells ==
    ASSUME PipeTypes, bulk \subseteq [addr : Addr \cup {NoAddr}, packet : Packets]
    PROVE  \A x \in bulk : \A id :
              /\ id \in Delivered(x.packet).view <=> ToldByBulk(id)
              /\ Delivered(x.packet).missed = port.missed
<1> TAKE x \in bulk
<1> TAKE id
<1> DEFINE p == x.packet
<1>1. p \in Packets /\ \A y \in bulk : y = x
  BY DEF PipeTypes
<1>2. /\ p = Packet("CONNECT", id) <=> p.request = "CONNECT" /\ p.id = id
      /\ p = Packet("DISCONNECT", id) <=> p.request = "DISCONNECT" /\ p.id = id
  BY <1>1 DEF Packet, Packets
<1>3. ToldByBulk(id) <=>
          p = Packet("CONNECT", id) \/ (id \in port.view /\ p # Packet("DISCONNECT", id))
  BY <1>1 DEF ToldByBulk
<1> HIDE DEF p
<1>4. port \in Ports
  BY DEF PipeTypes
<1>5. Delivered(p).missed = port.missed
  BY <1>4 DEF Delivered, Ports
<1>6. id \in Delivered(p).view <=>
          \/ p.request = "CONNECT" /\ p.id = id
          \/ id \in port.view /\ ~(p.request = "DISCONNECT" /\ p.id = id)
  <2>1. CASE p.request = "CONNECT"
    BY <1>4, <2>1 DEF Delivered, Ports
  <2>2. CASE p.request = "DISCONNECT"
    BY <1>4, <2>2 DEF Delivered, Ports
  <2>3. CASE p.request \notin {"CONNECT", "DISCONNECT"}
    BY <1>4, <2>3 DEF Delivered, Ports
  <2> QED BY <2>1, <2>2, <2>3
<1> QED BY <1>2, <1>3, <1>5, <1>6 DEF p

LEMMA SendNextMissed ==
    ASSUME NEW thePort \in Ports, SendNext(thePort)
    PROVE  /\ thePort.missed => port'.missed
           /\ tx # <<>> /\ ~device.open => port'.missed
           /\ port'.phase = thePort.phase
           /\ tx # <<>> => tx' = Tail(tx)
BY DEF SendNext, PopFront, Ports

LEMMA UsbTells ==
    ASSUME UsbInv, PipeTypes, UsbTask \/ User, device'.told, ~port'.missed, NEW id
    PROVE  (WillBeIn(id)' <=> WillBeIn(id)) /\ ~port.missed
<1>1. device \in Devices /\ port \in Ports
  BY DEF UsbInv, UsbTypeOK
<1>2. device.told => device.present /\ Enumerated(device.addr)
  BY DEF UsbInv, ToldIsPresent, DeviceAtPort
<1>3. ASSUME UNCHANGED <<tx, bulk>>, port'.view = port.view, port'.missed = port.missed
      PROVE  (WillBeIn(id)' <=> WillBeIn(id)) /\ ~port.missed
  BY <1>3, SamePipe
<1>4. CASE MountCb
  BY <1>1, <1>4, NewDeviceType DEF MountCb, Ports
<1>5. CASE UmountCb
  <2>1. ~NoDevice.told
    BY EmptyRecords
  <2> QED BY <1>2, <1>5, <2>1 DEF UmountCb, Enumerated
<1>6. CASE ConfigComplete \/ ConfigFailed
  BY <1>3, <1>6 DEF ConfigComplete, ConfigFailed
<1>7. ASSUME NEW o \in Outcomes, ControlComplete(o)
      PROVE  (WillBeIn(id)' <=> WillBeIn(id)) /\ ~port.missed
  <2>1. UNCHANGED <<tx, bulk>>
    BY <1>7 DEF ControlComplete
  <2>2. \E d : port' = [port EXCEPT !.docked = d]
    BY <1>7 DEF ControlComplete
  <2>3. port'.view = port.view /\ port'.missed = port.missed
    BY <1>1, <2>2 DEF Ports
  <2> QED BY <1>3, <2>1, <2>3
<1>8. CASE Pump
  <2>1. tx # <<>> /\ SendNext(port) /\ ~outBusy /\ device.present
    BY <1>8 DEF Pump
  <2>2. device.open /\ ~port.missed
    BY <1>1, <2>1, SendNextMissed DEF Devices
  <2>3. bulk = {}
    BY <2>1, <2>2 DEF UsbInv, BusyMeansInFlight
  <2>4. id \in port.view <=> ToldByBulk(id)
    BY <2>3 DEF ToldByBulk
  <2> QED BY <1>1, <2>1, <2>2, <2>4, SendNextTells
<1>9. CASE BulkComplete
  <2>1. device.present
    BY <1>2, <1>9 DEF BulkComplete
  <2>2. PICK x \in bulk : SendNext(Delivered(x.packet))
    BY <1>9, <2>1 DEF BulkComplete
  <2>3. bulk \subseteq [addr : Addr \cup {NoAddr}, packet : Packets] /\ x.packet \in Packets
    BY DEF UsbInv, UsbTypeOK
  <2>4. Delivered(x.packet) \in Ports
    BY <2>3, DeliveredPort DEF UsbInv
  <2>5. /\ id \in Delivered(x.packet).view <=> ToldByBulk(id)
        /\ Delivered(x.packet).missed = port.missed
    BY <2>2, <2>3, DeliveredTells
  <2>6. ~port.missed
    BY <2>2, <2>4, <2>5, SendNextMissed
  <2>7. WillBeIn(id)' <=> WillBeIn(id)
    BY <2>2, <2>4, <2>5, SendNextTells
  <2> QED BY <2>6, <2>7
<1>10. CASE BulkFailed
  BY <1>1, <1>10 DEF BulkFailed, Ports
<1>11. CASE User
  <2>1. CASE port.phase = "mounted" /\ Detach
    <3>1. UNCHANGED <<tx, bulk>> /\ port' = [port EXCEPT !.phase = "removed"]
      BY <2>1 DEF Detach
    <3> QED BY <1>1, <1>3, <3>1 DEF Ports
  <2>2. CASE ~(port.phase = "mounted" /\ Detach)
    BY <1>2, <1>11, <2>2 DEF User, Attach, Detach, Enumerated
  <2> QED BY <2>1, <2>2
<1> QED BY <1>4, <1>5, <1>6, <1>7, <1>8, <1>9, <1>10, <1>11 DEF UsbTask, ControlDone, BulkDone

-----------------------------------------------------------------------------
(* The packet in flight.  There is one at a time, and only for a handheld    *)
(* the engine was told of.  Until the engine was told of it, or has read so, *)
(* the handheld at the port knows of no gamepad and no packet is on its way  *)
(* to it, unless it was sent one that was left for the handheld before it.   *)
OpenIsTold == device.open => device.told
MountPending == \E i \in 1 .. Len(queue) : queue[i] = Mount
FreshPort ==
    ~port.missed /\ (~device.told \/ (MountPending /\ ~stale)) => port.view = {} /\ bulk = {}

FlightInv == (\A x, y \in bulk : x = y) /\ OpenIsTold /\ FreshPort

LEMMA QueuePending ==
    ASSUME DockTypeInv
    PROVE  HandheldEventPending <=> MountPending \/ \E i \in 1 .. Len(queue) : queue[i] = Unmount
<1>1. DOMAIN queue = 1 .. Len(queue)
  BY LenProperties DEF DockTypeInv, EngineInv, EngineTypeOK, QueueTypeOK
<1> QED BY <1>1 DEF HandheldEventPending, MountPending

(* Mounts come from announcements. *)
LEMMA NoNewMount ==
    ASSUME DockTypeInv, [DockNext]_dockVars, device'.told <=> device.told, MountPending'
    PROVE  MountPending
<1>1. QueueTypeOK /\ queue \in Seq(Messages)
  BY DEF DockTypeInv, EngineInv, EngineTypeOK, QueueTypeOK
<1>2. PICK i \in 1 .. Len(queue') : queue'[i] = Mount
  BY DEF MountPending
<1>3. ASSUME NEW m \in Messages, m # Mount, Send(m) PROVE MountPending
  <2>1. CASE queue' = queue
    BY <1>2, <2>1 DEF MountPending
  <2>2. CASE queue' = Append(queue, m)
    <3>1. Len(queue') = Len(queue) + 1 /\ queue'[Len(queue) + 1] = m
          /\ \A j \in 1 .. Len(queue) : queue'[j] = queue[j]
      BY <1>1, <2>2, AppendProperties
    <3>2. i \in 1 .. Len(queue)
      BY <1>1, <1>2, <1>3, <3>1, LenProperties
    <3> QED BY <1>2, <3>1, <3>2 DEF MountPending
  <2> QED BY <1>1, <1>3, <2>1, <2>2, SendSwitches
<1>4. CASE Handle
  <2>1. PICK m, calls : Receive(m, calls)
    BY <1>4, HandleTurnsHandheld DEF DockTypeInv
  <2>2. queue # <<>> /\ queue' = Tail(queue)
    BY <2>1 DEF Receive
  <2>3. /\ Len(queue') = Len(queue) - 1 /\ Len(queue) \in Nat
        /\ \A j \in 1 .. Len(queue) - 1 : queue'[j] = queue[j + 1]
    BY <1>1, <2>2, HeadTailProperties, LenProperties
  <2>4. i + 1 \in 1 .. Len(queue) /\ queue[i + 1] = Mount
    BY <1>2, <2>3
  <2> QED BY <2>4 DEF MountPending
<1>5. CASE HandheldStep
  <2>1. CASE Stays
    BY <1>2, <2>1 DEF Stays, SendsNothing, MountPending
  <2>2. CASE Withdraws
    BY <1>3, <2>2, Switches, MessageKinds DEF Withdraws
  <2>3. ASSUME NEW m, Posts(m) PROVE MountPending
    BY <1>3, <2>3 DEF Posts
  <2> QED BY <1>5, <2>1, <2>2, <2>3 DEF HandheldStep, Announces
<1> QED BY <1>4, <1>5, DockHandheldStep

LEMMA UsbKeepsFlight == ASSUME DockTypeInv, FlightInv, UsbStep PROVE FlightInv'
<1>1. UsbInv /\ device \in Devices /\ port \in Ports
  BY DEF DockTypeInv, UsbInv, UsbTypeOK
<1>2. MountPending' /\ (device'.told <=> device.told) => MountPending
  BY NoNewMount DEF DockNext
<1>3. /\ device.present => port.phase \in {"mounted", "removed"} /\ Enumerated(device.addr)
      /\ device.told => device.present
      /\ port.phase \notin {"mounted", "removed"} => bulk = {}
  BY <1>1 DEF UsbInv, DeviceAtPort, ToldIsPresent, TransfersAtPort, Enumerated
<1>4. /\ stale /\ port'.phase # "empty" => stale'
      /\ MountPending /\ tx' # tx /\ port'.phase # "empty" => stale'
  BY QueuePending DEF UsbStep
<1>5. ASSUME bulk' = bulk, port'.view = port.view, port'.missed = port.missed,
             port'.phase # "empty", device'.told <=> device.told, device'.open => device.open
      PROVE  FlightInv'
  BY <1>2, <1>4, <1>5 DEF FlightInv, OpenIsTold, FreshPort
<1>6. ASSUME port'.view = {}, bulk' = {}, device'.open => device'.told PROVE FlightInv'
  BY <1>6 DEF FlightInv, OpenIsTold, FreshPort
<1>7. EmptyPort.view = {}
  BY DEF EmptyPort
<1>8. CASE User
  <2>1. UNCHANGED <<device, bulk>>
    BY <1>8 DEF User, Attach, Detach
  <2>2. ASSUME NEW a \in Addr, Attach(a) PROVE FlightInv'
    <3>1. port.phase = "empty" /\ port'.view = {}
      BY <2>2, <1>7, EmptyRecords DEF Attach, Ports
    <3> QED BY <1>3, <1>6, <2>1, <3>1 DEF FlightInv, OpenIsTold
  <2>3. CASE port.phase = "enumerating" /\ port' = EmptyPort
    BY <1>3, <1>6, <1>7, <2>1, <2>3 DEF FlightInv, OpenIsTold
  <2>4. CASE port.phase = "mounted" /\ port' = [port EXCEPT !.phase = "removed"]
    <3>1. port'.view = port.view /\ port'.missed = port.missed /\ port'.phase # "empty"
      BY <1>1, <2>4 DEF Ports
    <3> QED BY <1>5, <2>1, <3>1
  <2> QED BY <1>8, <2>2, <2>3, <2>4 DEF User, Detach
<1>9. CASE MountCb
  <2>1. /\ port.phase = "enumerating" /\ port' = [port EXCEPT !.phase = "mounted"]
        /\ device' = NewDevice(port.addr) /\ bulk' = bulk
    BY <1>9 DEF MountCb
  <2>2. ~device'.open /\ ~device'.told
    BY <1>1, <2>1, NewDeviceType DEF Ports
  <2>3. ~device.told /\ bulk' = {}
    BY <1>3, <2>1
  <2>4. port'.view = port.view /\ port'.missed = port.missed
    BY <1>1, <2>1 DEF Ports
  <2> QED BY <2>2, <2>3, <2>4 DEF FlightInv, OpenIsTold, FreshPort
<1>10. CASE UmountCb
  <2>1. port.phase = "removed" /\ port' = EmptyPort /\ bulk' = {x \in bulk : x.addr # port.addr}
    BY <1>10 DEF UmountCb
  <2>2. bulk' = {}
    BY <1>1, <2>1 DEF UsbInv, TransfersAtPort, Enumerated
  <2>3. device' = NoDevice \/ device' = device
    BY <1>10 DEF UmountCb
  <2>4. ~NoDevice.open
    BY DEF NoDevice
  <2> QED BY <1>6, <1>7, <2>1, <2>2, <2>3, <2>4 DEF FlightInv, OpenIsTold
<1>11. CASE ConfigComplete
  <2>1. bulk' = bulk /\ port' = port
    BY <1>11 DEF ConfigComplete
  <2>2. PICK x \in ctl : x.request = "CONFIG"
    BY <1>11 DEF ConfigComplete
  <2>3. device.present /\ ~device.told
    BY <1>1, <2>2 DEF UsbInv, ConfigComesFirst
  <2>4. device'.told
    BY <1>1, <1>11, <2>3 DEF ConfigComplete, Devices
  <2> QED BY <2>1, <2>3, <2>4 DEF FlightInv, OpenIsTold, FreshPort
<1>12. CASE ConfigFailed
  <2>1. /\ \E x \in ctl : x.request = "CONFIG"
        /\ UNCHANGED <<device, bulk, port>>
    BY <1>12 DEF ConfigFailed
  <2>2. port.phase # "empty"
    BY <1>1, <2>1 DEF UsbInv, TransfersAtPort, Enumerated
  <2> QED BY <1>5, <2>1, <2>2
<1>13. ASSUME NEW o \in Outcomes, ControlComplete(o) PROVE FlightInv'
  <2>1. UNCHANGED <<device, bulk>> /\ \E x \in ctl : TRUE
    BY <1>13 DEF ControlComplete
  <2>2. \E d : port' = [port EXCEPT !.docked = d]
    BY <1>13 DEF ControlComplete
  <2>3. port'.view = port.view /\ port'.missed = port.missed /\ port'.phase = port.phase
    BY <1>1, <2>2 DEF Ports
  <2>4. port.phase # "empty"
    BY <1>1, <2>1 DEF UsbInv, TransfersAtPort, Enumerated
  <2> QED BY <1>5, <2>1, <2>3, <2>4
<1>14. CASE Pump \/ BulkComplete
  <2>1. ASSUME NEW thePort \in Ports, SendNext(thePort), device.told,
               device'.told <=> device.told, device'.open <=> device.open,
               ~port'.missed => ~(MountPending /\ ~stale) \/ (tx # <<>> /\ tx' = Tail(tx)),
               thePort.phase = port.phase
        PROVE  FlightInv'
    <3>1. \A x, y \in bulk' : x = y
      BY <2>1 DEF SendNext
    <3>2. port'.phase # "empty"
      BY <1>3, <2>1, SendNextMissed
    <3>3. tx # <<>> => Tail(tx) # tx
      <4>1. tx \in Seq(Packets)
        BY DEF DockTypeInv, EngineInv, EngineTypeOK
      <4> QED BY <4>1, HeadTailProperties, LenProperties
    <3>4. ~port'.missed => ~(MountPending' /\ ~stale')
      BY <1>2, <1>4, <2>1, <3>2, <3>3
    <3> QED BY <2>1, <3>1, <3>4 DEF FlightInv, OpenIsTold, FreshPort
  <2>2. ASSUME port'.missed, device'.open <=> device.open, device'.told <=> device.told,
               \A x, y \in bulk' : x = y
        PROVE  FlightInv'
    BY <2>2 DEF FlightInv, OpenIsTold, FreshPort
  <2>3. CASE Pump
    <3>1. SendNext(port) /\ tx # <<>> /\ device' = device
      BY <2>3 DEF Pump
    <3>2. \A x, y \in bulk' : x = y
      BY <3>1 DEF SendNext
    <3>3. /\ ~device.open => port'.missed
          /\ tx' = Tail(tx)
      BY <1>1, <3>1, SendNextMissed
    <3>4. CASE device.open
      BY <1>1, <2>1, <3>1, <3>3, <3>4 DEF FlightInv, OpenIsTold
    <3>5. CASE ~device.open
      BY <2>2, <3>1, <3>2, <3>3, <3>5
    <3> QED BY <3>4, <3>5
  <2>4. CASE BulkComplete
    <3>1. PICK x \in bulk :
             IF device.present
             THEN device' = [device EXCEPT !.failures = 0] /\ SendNext(Delivered(x.packet))
             ELSE bulk' = {} /\ port' = Delivered(x.packet) /\ UNCHANGED device
      BY <2>4 DEF BulkComplete
    <3>2. x.packet \in Packets
      BY <1>1 DEF UsbInv, UsbTypeOK
    <3>3. /\ Delivered(x.packet) \in Ports
          /\ Delivered(x.packet).phase = port.phase
          /\ Delivered(x.packet).missed = port.missed
      <4>1. Delivered(x.packet).missed = port.missed
        BY <1>1, <3>2 DEF Delivered, Ports
      <4> QED BY <1>1, <3>2, <4>1, DeliveredPort DEF UsbInv
    <3>4. port.missed \/ (device.told /\ ~(MountPending /\ ~stale))
      BY <3>1 DEF FlightInv, FreshPort
    <3>5. CASE device.present
      <4>1. (device'.told <=> device.told) /\ (device'.open <=> device.open)
        BY <1>1, <3>1, <3>5 DEF Devices
      <4>2. SendNext(Delivered(x.packet)) /\ \A y, z \in bulk' : y = z
        BY <3>1, <3>5 DEF SendNext
      <4>3. CASE port.missed
        <5>1. port'.missed
          BY <3>3, <4>2, <4>3, SendNextMissed
        <5> QED BY <2>2, <4>1, <4>2, <5>1
      <4>4. CASE ~port.missed
        BY <2>1, <3>3, <3>4, <4>1, <4>2, <4>4
      <4> QED BY <4>3, <4>4
    <3>6. CASE ~device.present
      BY <1>3, <2>2, <3>1, <3>3, <3>4, <3>6
    <3> QED BY <3>5, <3>6
  <2> QED BY <1>14, <2>3, <2>4
<1>15. CASE BulkFailed
  <2>1. port'.missed /\ bulk' = {}
    BY <1>1, <1>15 DEF BulkFailed, Ports
  <2>2. device'.open => device'.told
    <3>1. ~NoDevice.open
      BY DEF NoDevice
    <3>2. device' = NoDevice \/ \E n : device' = [device EXCEPT !.failures = n]
      BY <1>15 DEF BulkFailed
    <3> QED BY <1>1, <3>1, <3>2 DEF FlightInv, OpenIsTold, Devices
  <2> QED BY <2>1, <2>2 DEF FlightInv, OpenIsTold, FreshPort
<1> QED BY <1>8, <1>9, <1>10, <1>11, <1>12, <1>13, <1>14, <1>15
        DEF UsbStep, UsbTask, ControlDone, BulkDone

LEMMA InitFlight == DockInit => FlightInv
BY EmptyRecords DEF DockInit, UsbInit, FlightInv, OpenIsTold, FreshPort, NoDevice, EmptyPort

LEMMA FlightInductive == ASSUME DockTypeInv, FlightInv, [DockNext]_dockVars PROVE FlightInv'
<1>1. CASE UNCHANGED <<device, bulk, port, stale>>
  BY <1>1, NoNewMount DEF FlightInv, OpenIsTold, FreshPort
<1>2. CASE ~UsbStep
  BY <1>1, <1>2
     DEF DockNext, EngineStep, BeginControl, ControlLoad, EndControl, ControlSubmit, LedStep,
         GamepadStep, BluetoothStart, PressButton, dockVars, usbOnly
<1> QED BY <1>2, UsbKeepsFlight

-----------------------------------------------------------------------------
(* Packets are reset only where there are none: of a handler's calls only    *)
(* the first resets them, and if it is for a new handheld the old one's are  *)
(* gone.                                                                     *)
ResetFirst ==
    \A i \in 1 .. Len(todo) : todo[i].op = "ResetTx" => i = 1 /\ (handheld # "None" => tx = <<>>)

LEMMA NoReset == ASSUME \A i \in 1 .. Len(todo) : todo[i].op # "ResetTx" PROVE ResetFirst
BY DEF ResetFirst

LEMMA FirstOnly ==
    ASSUME NEW a, NEW b, b.op # "ResetTx", NEW c, c.op # "ResetTx",
           NEW q \in {<<a, b>>, <<a, b, c>>}, NEW i \in 1 .. Len(q), q[i].op = "ResetTx"
    PROVE  i = 1
<1>1. CASE q = <<a, b>>
  <2>1. Len(q) = 2 /\ q[2] = b
    BY <1>1
  <2> QED BY <2>1
<1>2. CASE q = <<a, b, c>>
  <2>1. Len(q) = 3 /\ q[2] = b /\ q[3] = c
    BY <1>2
  <2> QED BY <2>1
<1> QED BY <1>1, <1>2

(* Only the handlers of a handheld's Mount, Unmount and GET_INFO reset the   *)
(* packets or ask the handheld for something.                                *)
LEMMA HandlePrograms ==
    ASSUME EngineInv, Handle
    PROVE  \/ HandleMount \/ HandleGetInfo \/ HandleUnmount
           \/ \A i \in 1 .. Len(todo') : todo'[i].op \notin {"ResetTx", "Control"}
<1> DEFINE these == {"ResetTx", "Control"}
<1> SUFFICES ASSUME ~HandleMount, ~HandleGetInfo, ~HandleUnmount,
                    NEW i \in 1 .. Len(todo'), todo'[i].op \in these
             PROVE  FALSE
  OBVIOUS
<1>1. \A b, s : SetHdmi(b).op = "SetHdmi" /\ PostLed(s, b).op = "PostLed"
  BY DEF SetHdmi, PostLed
<1>2. ASSUME NEW m, Receive(m, <<>>) PROVE FALSE
  BY <1>2 DEF Receive
<1>3. ASSUME NEW m, NEW calls, Receive(m, calls), PlainProgram(calls) PROVE FALSE
  <2>1. todo' = calls /\ calls \in Seq(Calls)
    BY <1>3 DEF Receive, PlainProgram
  <2>2. i \in DOMAIN calls
    BY <2>1, LenProperties
  <2> QED BY <1>3, <2>1, <2>2 DEF PlainProgram
<1>4. CASE HandleDockBegin
  <2> DEFINE on == SetHdmi(TRUE)
             set == PostLed("DockActive", TRUE)
             start == <<on, set>>
  <2>1. ASSUME NEW o, NEW announce \in Announcements,
               Receive(XferComplete("DOCK_BEGIN", o), start \o announce)
        PROVE  FALSE
    <3>1. announce \in Seq(Calls) /\ \A j \in DOMAIN announce : announce[j].op = "Push"
      BY AnnouncementsType DEF EngineInv, EngineTypeOK
    <3>2. on \in Calls /\ set \in Calls /\ on.op \notin these /\ set.op \notin these
      BY <1>1, CallTypes DEF LedStates
    <3>3. todo' = start \o announce
      BY <2>1 DEF Receive
    <3> HIDE DEF on, set
    <3>4. start \in Seq(Calls) /\ Len(start) = 2 /\ start[1] = on /\ start[2] = set
      BY <3>2
    <3> HIDE DEF start
    <3>5. /\ Len(start \o announce) = Len(start) + Len(announce)
          /\ \A j \in 1 .. Len(start) + Len(announce) :
                (start \o announce)[j] =
                    IF j <= Len(start) THEN start[j] ELSE announce[j - Len(start)]
          /\ DOMAIN announce = 1 .. Len(announce) /\ Len(announce) \in Nat
      BY <3>1, <3>4, ConcatProperties, LenProperties
    <3>6. /\ Len(todo') = 2 + Len(announce)
          /\ todo'[i] = IF i <= 2 THEN start[i] ELSE announce[i - 2]
      BY <3>3, <3>4, <3>5
    <3>7. CASE i <= 2
      <4>1. todo'[i] = start[i]
        BY <3>6, <3>7
      <4>2. i = 1 \/ i = 2
        BY <3>5, <3>6, <3>7
      <4> QED BY <3>2, <3>4, <4>1, <4>2
    <3>8. CASE ~(i <= 2)
      <4>1. i - 2 \in DOMAIN announce /\ todo'[i] = announce[i - 2]
        BY <3>5, <3>6, <3>8
      <4> QED BY <3>1, <4>1
    <3> QED BY <3>7, <3>8
  <2> QED BY <1>2, <1>4, <2>1 DEF HandleDockBegin
<1>5. CASE HandleUnexpectedMount \/ HandleOtherXfer \/ HandleShortPress
  BY <1>2, <1>5 DEF HandleUnexpectedMount, HandleOtherXfer, HandleShortPress
<1>6. ASSUME NEW id \in GamepadId, NEW wired \in BOOLEAN, HandleConnected(id, wired)
       PROVE  FALSE
  <2> DEFINE ending == IF ~wired /\ pairing THEN EndPairing ELSE <<>>
  <2>1. PlainProgram(ending) /\ PlainProgram(Tell("CONNECT", id))
    BY PairingIsPlain, TellIsPlain DEF PlainProgram
  <2>2. PlainProgram(ending \o Tell("CONNECT", id))
    BY <2>1, PlainConcat
  <2>3. Receive(Connected(id, wired), ending \o Tell("CONNECT", id))
    BY <1>6 DEF HandleConnected
  <2> QED BY <1>3, <2>2, <2>3
<1>7. ASSUME NEW id \in GamepadId, HandleDisconnected(id) \/ HandleData(id) PROVE FALSE
  <2>1. PlainProgram(Tell("DISCONNECT", id)) /\ PlainProgram(Tell("DATA", id))
    BY TellIsPlain
  <2> QED BY <1>3, <1>7, <2>1 DEF HandleDisconnected, HandleData
<1>8. CASE HandleLongPress
  BY <1>3, <1>8, PairingIsPlain DEF HandleLongPress
<1> QED BY <1>4, <1>5, <1>6, <1>7, <1>8 DEF Handle

LEMMA HandleResets == ASSUME EngineInv, Handle PROVE ResetFirst'
<1> SUFFICES ASSUME NEW i \in 1 .. Len(todo'), todo'[i].op = "ResetTx"
             PROVE  i = 1 /\ (handheld' # "None" => tx' = <<>>)
  BY DEF ResetFirst
<1>1. \A b, s : SetHdmi(b).op = "SetHdmi" /\ PostLed(s, b).op = "PostLed"
  BY DEF SetHdmi, PostLed
<1>2. \A r : Control(r).op = "Control"
  BY DEF Control
<1>3. CASE HandleMount
  <2>1. /\ handheld = "None" /\ todo = <<>> /\ tx' = tx
        /\ todo' = <<ResetTx, Control("GET_INFO")>>
    BY <1>3 DEF HandleMount, Receive
  <2>2. i \in {1, 2} /\ (i = 2 => todo'[i] = Control("GET_INFO"))
    BY <2>1
  <2>3. i = 1
    BY <1>2, <2>2
  <2>4. tx = <<>>
    BY <2>1 DEF EngineInv, TxEmptyUndocked
  <2> QED BY <2>1, <2>3, <2>4
<1>4. CASE HandleUnmount
  <2> DEFINE off == SetHdmi(FALSE)
             unset == PostLed("DockActive", FALSE)
  <2>1. /\ handheld' = "None"
        /\ todo' \in {<<>>, <<ResetTx, off>>, <<ResetTx, off, unset>>}
    BY <1>4 DEF HandleUnmount, Receive
  <2>2. off.op # "ResetTx" /\ unset.op # "ResetTx"
    BY <1>1
  <2> HIDE DEF off, unset
  <2>3. todo' # <<>>
    OBVIOUS
  <2> QED BY <2>1, <2>2, <2>3, FirstOnly
<1>5. CASE HandleGetInfo
  <2>1. todo' = <<Control("DOCK_BEGIN")>> \/ todo' = <<>>
    BY <1>5 DEF HandleGetInfo, Receive
  <2>2. todo'[i] = Control("DOCK_BEGIN")
    BY <2>1
  <2> QED BY <1>2, <2>2
<1> QED BY <1>3, <1>4, <1>5, HandlePrograms

(* A step of anybody but a handler: a call of the engine's, or a step with   *)
(* which the calls to come stay what they are.                               *)
LEMMA OtherSteps ==
    ASSUME DockTypeInv, [DockNext]_dockVars, ~Handle
    PROVE  /\ UNCHANGED engineOnly
           /\ \/ (\E c : Call(c)) /\ UNCHANGED <<device, bulk, port, stale>>
              \/ todo' = todo /\ UNCHANGED <<tx, bulk, port, stale, device>>
              \/ UsbStep /\ todo' = todo /\ (tx' = tx \/ Takes)
<1>1. CASE UsbStep
  BY <1>1, UsbSends DEF UsbStep, engineRest, Sends, DockTypeInv
<1>2. CASE EngineStep
  BY <1>2
     DEF EngineStep, LocalCall, DoResetTx, DoPush, DoSetHdmi, DoEnablePairing, DoPostLed, usbOnly
<1>3. CASE BeginControl
  BY <1>3 DEF BeginControl, ControlLoad, engineRest
<1>4. CASE EndControl
  BY <1>4 DEF EndControl, DoControl, StartControl, RefuseControlOut, ControlSubmit
<1>5. CASE LedStep
  BY <1>5 DEF LedStep, LedTask, usbOnly
<1>6. CASE GamepadStep
  BY <1>6 DEF GamepadStep, engineRest, usbOnly
<1>7. CASE BluetoothStart
  BY <1>7 DEF BluetoothStart, BtInitComplete, usbOnly
<1>8. CASE PressButton
  BY <1>8 DEF PressButton, engineRest, usbOnly
<1>9. CASE UNCHANGED dockVars
  BY <1>9 DEF dockVars, engineVars, usbOnly
<1> QED BY <1>1, <1>2, <1>3, <1>4, <1>5, <1>6, <1>7, <1>8, <1>9 DEF DockNext

LEMMA ResetInductive == ASSUME DockTypeInv, ResetFirst, [DockNext]_dockVars PROVE ResetFirst'
<1>1. CASE Handle
  BY <1>1, HandleResets DEF DockTypeInv
<1>2. CASE ~Handle
  <2>1. handheld' = handheld
    BY <1>2, OtherSteps DEF engineOnly
  <2>2. ASSUME NEW c, Call(c) PROVE ResetFirst'
    <3>1. /\ todo \in Seq(Calls) /\ todo # <<>> /\ todo' = Tail(todo)
      BY <2>2 DEF Call, DockTypeInv, EngineInv, EngineTypeOK
    <3>2. /\ Len(todo) \in Nat /\ Len(todo') = Len(todo) - 1
          /\ \A i \in 1 .. Len(todo') : todo'[i] = todo[i + 1]
      BY <3>1, HeadTailProperties, LenProperties
    <3>3. \A i \in 1 .. Len(todo') : i + 1 \in 1 .. Len(todo) /\ i + 1 # 1
      BY <3>2
    <3> QED BY <3>2, <3>3 DEF ResetFirst
  <2>3. ASSUME todo' = todo, tx' = tx \/ Takes PROVE ResetFirst'
    BY <2>1, <2>3 DEF ResetFirst, Takes
  <2> QED BY <1>2, <2>2, <2>3, OtherSteps
<1> QED BY <1>1, <1>2

-----------------------------------------------------------------------------
(* Nothing but a handler changes what the handheld will know.                *)
LEMMA CallKeepsWillKnow ==
    ASSUME DockTypeInv, ResetFirst, handheld # "None", [DockNext]_dockVars, ~Handle,
           NEW c, Call(c), UNCHANGED <<device, bulk, port, stale>>, NEW id
    PROVE  WillKnow(id)' <=> WillKnow(id)
<1> DEFINE bulked == ToldByBulk(id)
           was == WillBeIn(id)
           is == WillBeIn(id)'
<1>1. was \in BOOLEAN /\ is \in BOOLEAN /\ bulked \in BOOLEAN
  BY DEF WillBeIn, ToldByTx, EndsOn, ToldByBulk
<1>2. /\ todo \in Seq(Calls) /\ tx \in Seq(Packets) /\ todo # <<>> /\ c = Head(todo)
      /\ todo' = Tail(todo)
  BY DEF DockTypeInv, EngineInv, EngineTypeOK, Call
<1>3. (was <=> ToldByTx(tx, id, bulked)) /\ (is <=> ToldByTx(tx', id, bulked))
  BY DEF WillBeIn, ToldByTx, ToldByBulk, EndsOn
<1>4. (WillKnow(id) <=> Told(todo, id, was)) /\ (WillKnow(id)' <=> Told(Tail(todo), id, is))
  BY <1>2 DEF WillKnow, Told, EndsOn
<1>5. is <=> c = Push("CONNECT", id) \/ (c # Push("DISCONNECT", id) /\ was)
  <2>1. CASE tx' = tx /\ c.op # "Push"
    BY <1>3, <2>1, SwitchPackets
  <2>2. ASSUME NEW p \in Packets, c = [op |-> "Push", packet |-> p], tx' = Pushed(tx, p)
        PROVE  is <=> c = Push("CONNECT", id) \/ (c # Push("DISCONNECT", id) /\ was)
    <3>1. \A r : c = Push(r, id) <=> p = Packet(r, id)
      BY <2>2 DEF Push
    <3> HIDE DEF was, is, bulked
    <3>2. ToldByTx(Pushed(tx, p), id, bulked) <=>
              p = Packet("CONNECT", id) \/ (p # Packet("DISCONNECT", id) /\ ToldByTx(tx, id, bulked))
      BY <1>1, <1>2, PushedTells
    <3> QED BY <1>3, <2>2, <3>1, <3>2
  <2>3. CASE DoResetTx
    <3>1. c = ResetTx /\ c = todo[1] /\ 1 \in 1 .. Len(todo) /\ tx' = <<>>
      BY <1>2, <2>3, HeadTailProperties, EmptySeq, LenProperties DEF DoResetTx, Call, Reset
    <3>2. c.op = "ResetTx"
      BY <3>1 DEF ResetTx
    <3>3. tx = <<>>
      BY <3>1, <3>2 DEF ResetFirst
    <3> QED BY <2>1, <3>1, <3>2, <3>3
  <2>4. CASE DoPush
    BY <1>2, <2>2, <2>4 DEF DoPush, Call, PushBack
  <2>5. CASE DoSetHdmi \/ DoEnablePairing \/ DoPostLed \/ DoControl
    <3>1. tx' = tx
      BY <2>5 DEF DoSetHdmi, DoEnablePairing, DoPostLed, DoControl, StartControl, RefuseControlOut
    <3>2. \A d, on, s, r : d \in {SetHdmi(on), EnablePairing(on), PostLed(s, on), Control(r)}
                              => d.op # "Push"
      BY DEF SetHdmi, EnablePairing, PostLed, Control
    <3>3. \E on, s, r : c \in {SetHdmi(on), EnablePairing(on), PostLed(s, on), Control(r)}
      BY <1>2, <2>5
         DEF DoSetHdmi, DoEnablePairing, DoPostLed, DoControl, StartControl, RefuseControlOut, Call
    <3> QED BY <2>1, <3>1, <3>2, <3>3
  <2>6. LocalCall \/ DoControl
    <3>1. todo' # todo
      BY <1>2, HeadTailProperties, LenProperties
    <3> QED BY <3>1
            DEF DockNext, UsbStep, EngineStep, BeginControl, EndControl, LedStep, LedTask,
                GamepadStep, BluetoothStart, BtInitComplete, PressButton, engineRest, dockVars,
                engineVars
  <2> QED BY <2>3, <2>4, <2>5, <2>6 DEF LocalCall
<1> HIDE DEF was, is, bulked
<1>6. Told(Tail(todo), id, is) <=> Told(todo, id, was)
  BY <1>1, <1>2, <1>5, CallTailTells
<1> QED BY <1>4, <1>6

LEMMA OthersKeepWillKnow ==
    ASSUME DockTypeInv, FlightInv, ResetFirst, handheld # "None",
           [DockNext]_dockVars, ~Handle, device'.told, ~port'.missed, NEW id
    PROVE  (WillKnow(id)' <=> WillKnow(id)) /\ ~port.missed
<1>1. ASSUME NEW c, Call(c), UNCHANGED <<device, bulk, port, stale>>
      PROVE  (WillKnow(id)' <=> WillKnow(id)) /\ ~port.missed
  BY <1>1, CallKeepsWillKnow
<1>2. CASE todo' = todo /\ UNCHANGED <<tx, bulk, port>>
  BY <1>2, SamePipe, SameCalls
<1>3. CASE UsbStep /\ todo' = todo
  <2>1. PipeTypes /\ UsbInv
    BY DEF PipeTypes, FlightInv, DockTypeInv, EngineInv, EngineTypeOK, UsbInv, UsbTypeOK
  <2>2. (WillBeIn(id)' <=> WillBeIn(id)) /\ ~port.missed
    BY <1>3, <2>1, UsbTells DEF UsbStep
  <2> QED BY <1>3, <2>2, SameCalls
<1> QED BY <1>1, <1>2, <1>3, OtherSteps

(* With nothing lost, the handheld will know of no gamepad that is not       *)
(* there, and once docked of all that are.                                   *)
Aware(id, told) == (told => id \in gamepads) /\ (handheld = "Active" /\ id \in gamepads => told)
Unbroken ==
    /\ lost = {} /\ ~HandheldEventPending /\ device.told /\ ~port.missed /\ ~stale
    /\ handheld # "None"
Tracks == Unbroken => \A id \in GamepadId : Aware(id, WillKnow(id))

(* No step mends what is broken. *)
LEMMA OthersKeepUnbroken ==
    ASSUME DockTypeInv, DockTypeInv', [DockNext]_dockVars, ~Handle, ~port.missed, Unbroken'
    PROVE  Unbroken
<1>1. QueueTypeOK /\ queue \in Seq(Messages)
  BY DEF DockTypeInv, EngineInv, EngineTypeOK, QueueTypeOK
<1>2. /\ lost' = {} /\ ~HandheldEventPending' /\ device'.told /\ ~stale' /\ handheld' # "None"
      /\ DOMAIN queue' = 1 .. Len(queue') /\ DOMAIN queue = 1 .. Len(queue)
  BY LenProperties DEF Unbroken, DockTypeInv, EngineInv, EngineTypeOK, QueueTypeOK
<1>3. ASSUME NEW m \in Messages, Send(m)
      PROVE  /\ lost = {} /\ ~HandheldEventPending
             /\ m \notin {Mount, Unmount}
  <2>1. CASE queue' = Append(queue, m) /\ lost' = lost
    <3>1. Len(queue') = Len(queue) + 1 /\ queue'[Len(queue) + 1] = m /\ Len(queue) \in Nat
          /\ \A j \in 1 .. Len(queue) : j \in 1 .. Len(queue') /\ queue'[j] = queue[j]
      BY <1>1, <2>1, AppendProperties, LenProperties
    <3>2. Len(queue) + 1 \in DOMAIN queue'
      BY <1>2, <3>1
    <3> QED BY <1>2, <2>1, <3>1, <3>2 DEF HandheldEventPending
  <2>2. CASE queue' = queue /\ lost' = lost \cup ({m.kind} \cap Tracked)
    <3>1. m.kind \notin Tracked /\ lost = {}
      BY <1>2, <2>2
    <3>2. m # Mount /\ m # Unmount
      BY <3>1, Switches, MessageKinds
    <3> QED BY <1>2, <2>2, <3>1, <3>2 DEF HandheldEventPending
  <2> QED BY <1>1, <1>3, <2>1, <2>2, SendSwitches
<1>4. handheld' = handheld /\ HandheldStep
  BY DockHandheldStep
<1>5. lost = {} /\ ~HandheldEventPending /\ device.told
  <2>1. CASE Stays
    BY <1>2, <2>1 DEF Stays, SendsNothing, HandheldEventPending
  <2>2. CASE Announces
    BY <1>3, <2>2, Switches DEF Announces
  <2>3. CASE Withdraws
    BY <1>2, <2>3 DEF Withdraws
  <2>4. ASSUME NEW m, Posts(m) PROVE lost = {} /\ ~HandheldEventPending /\ device.told
    BY <1>2, <1>3, <2>4 DEF Posts
  <2> QED BY <1>4, <2>1, <2>2, <2>3, <2>4 DEF HandheldStep
<1>6. ~stale
  <2>1. CASE UsbStep
    <3>1. port'.phase # "empty"
      BY <1>2 DEF DockTypeInv, UsbInv, ToldIsPresent, DeviceAtPort, Enumerated
    <3> QED BY <1>2, <2>1, <3>1 DEF UsbStep
  <2> QED BY <1>2, <2>1, OtherSteps
<1> QED BY <1>2, <1>4, <1>5, <1>6 DEF Unbroken

(* A handler starts from a handheld that knows what it should, or from a new *)
(* one that knows of no gamepad.                                             *)
LEMMA HandleFollows ==
    ASSUME DockTypeInv, HandheldInv, FlightInv, Tracks, Handle, Unbroken',
           UNCHANGED <<device, bulk, port, stale>>, NEW id \in GamepadId
    PROVE  Aware(id, WillBeIn(id))
<1>1. PICK m, calls : Receive(m, calls) /\ TurnsHandheld(m)
  BY HandleTurnsHandheld DEF DockTypeInv
<1>2. /\ queue \in Seq(Messages) /\ queue # <<>> /\ m = Head(queue) /\ queue' = Tail(queue)
      /\ todo = <<>> /\ lost' = lost
  BY <1>1 DEF Receive, DockTypeInv, EngineInv, EngineTypeOK, QueueTypeOK
<1>3. /\ m = queue[1] /\ 1 \in 1 .. Len(queue) /\ Len(queue) \in Nat
      /\ Len(queue') = Len(queue) - 1
      /\ \A j \in 1 .. Len(queue) - 1 : queue'[j] = queue[j + 1]
      /\ DOMAIN queue' = 1 .. Len(queue') /\ DOMAIN queue = 1 .. Len(queue)
  <2>1. queue' \in Seq(Messages)
    BY <1>2, HeadTailProperties
  <2> QED BY <1>2, <2>1, HeadTailProperties, EmptySeq, LenProperties
<1>4. lost = {} /\ device.told /\ ~port.missed /\ ~stale /\ handheld' # "None"
      /\ ~HandheldEventPending'
  BY <1>2 DEF Unbroken
<1>5. m = Mount \/ (m # Unmount /\ handheld # "None")
  BY <1>1, <1>4 DEF TurnsHandheld
<1>6. CASE m = Mount
  <2>1. MountPending
    BY <1>3, <1>6 DEF MountPending
  <2>2. port.view = {} /\ bulk = {}
    BY <1>4, <2>1 DEF FlightInv, FreshPort
  <2>3. handheld = "None"
    <3>1. Apart(queue, handheld # "None")
      BY <1>4 DEF HandheldInv, MountsApart
    <3>2. \A k \in 1 .. Len(queue) : ~(k < 1)
      BY <1>3
    <3> QED BY <1>3, <1>6, <3>1, <3>2 DEF Apart
  <2>4. tx = <<>>
    BY <1>2, <2>3 DEF DockTypeInv, EngineInv, TxEmptyUndocked
  <2>5. ~ToldByBulk(id) /\ Len(tx) = 0 /\ \A i : i \notin 1 .. Len(tx)
    BY <2>2, <2>4 DEF ToldByBulk
  <2>6. ~WillBeIn(id)
    BY <2>5 DEF WillBeIn, ToldByTx, EndsOn
  <2> QED BY <2>3, <2>6 DEF Aware
<1>7. CASE m # Mount /\ m # Unmount /\ handheld # "None"
  <2>1. \A i \in 1 .. Len(queue) : i = 1 \/ (i - 1 \in 1 .. Len(queue') /\ queue'[i - 1] = queue[i])
    BY <1>3
  <2>2. ~HandheldEventPending
    BY <1>3, <1>4, <1>7, <2>1 DEF HandheldEventPending
  <2>3. Aware(id, WillKnow(id))
    BY <1>4, <1>7, <2>2 DEF Tracks, Unbroken
  <2>4. \A i : i \notin 1 .. Len(todo)
    BY <1>2
  <2>5. WillKnow(id) <=> WillBeIn(id)
    BY <2>4 DEF WillKnow, Told, EndsOn
  <2> QED BY <2>3, <2>5 DEF Aware
<1> QED BY <1>5, <1>6, <1>7

LEMMA TracksInductive ==
    ASSUME DockTypeInv, DockTypeInv', HandheldInv, FlightInv, ResetFirst, Tracks,
           [DockNext]_dockVars
    PROVE  Tracks'
<1> SUFFICES ASSUME Unbroken', NEW id \in GamepadId PROVE Aware(id, WillKnow(id))'
  BY DEF Tracks
<1>1. CASE ~Handle
  <2>1. UNCHANGED engineOnly
    BY <1>1, OtherSteps
  <2>2. handheld # "None" /\ device'.told /\ ~port'.missed
    BY <2>1 DEF Unbroken, engineOnly
  <2>3. (WillKnow(id)' <=> WillKnow(id)) /\ ~port.missed
    BY <1>1, <2>2, OthersKeepWillKnow
  <2>4. Unbroken
    BY <1>1, <2>3, OthersKeepUnbroken
  <2>5. Aware(id, WillKnow(id))
    BY <2>4 DEF Tracks
  <2> QED BY <2>1, <2>3, <2>5 DEF Aware, engineOnly
<1>2. CASE Handle
  <2>1. UNCHANGED <<device, bulk, port, stale>>
    <3>1. queue # <<>> /\ queue' = Tail(queue) /\ queue \in Seq(Messages) /\ todo = <<>>
      BY <1>2, HandleTurnsHandheld
         DEF Receive, DockTypeInv, EngineInv, EngineTypeOK, QueueTypeOK
    <3>2. Len(queue') = Len(queue) - 1 /\ Len(queue) \in Nat
      BY <3>1, HeadTailProperties, LenProperties
    <3>3. ~UsbStep
      <4>1. ASSUME NEW m \in Messages, Send(m) PROVE FALSE
        <5>1. queue' = queue \/ queue' = Append(queue, m)
          BY <4>1 DEF Send
        <5>2. Len(Append(queue, m)) = Len(queue) + 1
          BY <3>1, AppendProperties
        <5> QED BY <3>2, <5>1, <5>2
      <4>2. SendsNothing => FALSE
        BY <3>2 DEF SendsNothing
      <4> QED BY <4>1, <4>2, UsbSends, UsbMessagesAreMessages
              DEF UsbStep, Sends, SendsNothing, DockTypeInv
    <3> QED BY <3>3
            DEF DockNext, EngineStep, BeginControl, ControlLoad, EndControl, ControlSubmit,
                LedStep, GamepadStep, BluetoothStart, PressButton, dockVars, usbOnly
  <2>2. handheld' # "None"
    BY DEF Unbroken
  <2>3. PICK m, calls : Receive(m, calls) /\ Tracking(calls)
    BY <1>2, <2>2, HandleTracks DEF DockTypeInv
  <2>4. todo' = calls /\ tx' = tx
    BY <2>3 DEF Receive
  <2> DEFINE was == WillBeIn(id)
             is == WillBeIn(id)'
  <2>5. was \in BOOLEAN /\ is \in BOOLEAN
    BY DEF WillBeIn, ToldByTx, EndsOn
  <2>6. is <=> was
    BY <2>1, <2>4, SamePipe
  <2>7. Aware(id, was)
    BY <1>2, <2>1, HandleFollows
  <2>8. WillKnow(id)' <=> Told(calls, id, is)
    BY <2>4 DEF WillKnow, Told, EndsOn
  <2> HIDE DEF was, is
  <2>9. is = was
    BY <2>5, <2>6
  <2>10. Told(calls, id, is) => id \in gamepads'
    BY <2>3, <2>5, <2>7, <2>9 DEF Tracking, Aware
  <2>11. handheld' = "Active" /\ id \in gamepads' => Told(calls, id, is)
    BY <2>3, <2>5, <2>7, <2>9 DEF Tracking, Aware
  <2> QED BY <2>8, <2>10, <2>11 DEF Aware
<1> QED BY <1>1, <1>2

LEMMA DockTracks ==
    DockSpec => [](/\ DockTypeInv /\ HandheldInv /\ PadInv /\ PadListInv
                   /\ FlightInv /\ ResetFirst /\ Tracks)
<1>1. ASSUME DockInit PROVE ResetFirst /\ Tracks
  <2>1. Len(todo) = 0 /\ handheld = "None"
    BY <1>1 DEF DockInit, EngineInit
  <2>2. \A i : i \notin 1 .. Len(todo)
    BY <2>1
  <2> QED BY <2>1, <2>2 DEF ResetFirst, Tracks, Unbroken
<1>2. DockTypeInv /\ FlightInv /\ [DockNext]_dockVars => FlightInv'
  BY FlightInductive
<1>3. DockTypeInv /\ ResetFirst /\ [DockNext]_dockVars => ResetFirst'
  BY ResetInductive
<1>4. /\ DockTypeInv /\ DockTypeInv' /\ HandheldInv /\ FlightInv /\ ResetFirst /\ Tracks
      /\ [DockNext]_dockVars
      => Tracks'
  BY TracksInductive
<1> QED BY <1>1, <1>2, <1>3, <1>4, InitFlight, DockInvariants, DockPadInvariants, PTL
        DEF DockSpec

(* When everything has settled and nothing was lost, a docked handheld knows *)
(* of exactly the gamepads there are: whatever was plugged, unplugged, moved *)
(* and paired while it was being docked, and whichever handheld the packets  *)
(* on their way were meant for.                                              *)
THEOREM HandheldKnows == DockSpec => []HandheldKnowsGamepads
<1>1. ASSUME DockTypeInv, HandheldInv, PadInv, PadListInv, Tracks
      PROVE  HandheldKnowsGamepads
  <2> SUFFICES ASSUME Settled, handheld = "Active", device.present PROVE port.view = LiveIds
    BY DEF HandheldKnowsGamepads
  <2>1. /\ Len(queue) = 0 /\ Len(todo) = 0 /\ Len(tx) = 0 /\ DOMAIN queue = {}
        /\ bulk = {} /\ lost = {} /\ ~port.missed /\ ~stale /\ queue = <<>>
    BY DEF Settled
  <2>2. \A i : i \notin 1 .. Len(queue) /\ i \notin 1 .. Len(todo) /\ i \notin 1 .. Len(tx)
    BY <2>1
  <2>3. WillHaveHandheld
    BY <2>2 DEF WillHaveHandheld, EndsOn
  <2>4. device.told
    BY <1>1, <2>1, <2>3 DEF HandheldInv, Agrees
  <2>5. \A id \in GamepadId : Aware(id, WillKnow(id))
    BY <1>1, <2>1, <2>4 DEF Tracks, Unbroken, HandheldEventPending
  <2>6. \A id : WillKnow(id) <=> id \in port.view
    BY <2>1, <2>2 DEF WillKnow, Told, WillBeIn, ToldByTx, ToldByBulk, EndsOn
  <2>7. port.view \subseteq GamepadId /\ gamepads \subseteq GamepadId
    BY <1>1 DEF DockTypeInv, UsbInv, UsbTypeOK, Ports, EngineInv, EngineTypeOK
  <2>8. port.view = gamepads
    BY <2>5, <2>6, <2>7 DEF Aware
  <2>9. gamepads = LiveIds
    BY <1>1, <2>1, ListIsLive
  <2> QED BY <2>8, <2>9
<1> QED BY <1>1, DockTracks, PTL

-----------------------------------------------------------------------------
(* The answers.  In a state in which the engine waits for the answer to a    *)
(* request, the request is still to be made, in flight, or its answer is on  *)
(* its way; the call that is half made is the one the engine is making.      *)
OneTransfer == \A x, y \in ctl : x = y
LoadedIsNext == \A x \in loaded : todo # <<>> /\ Head(todo) = Control(x.request)

InCalls(r) == \E i \in 1 .. Len(todo) : todo[i] = Control(r)
Answered(r) ==
    \E i \in 1 .. Len(queue) : queue[i].kind = "HandheldXferComplete" /\ queue[i].request = r
Coming(s, r) ==
    lost = {} /\ ~HandheldEventPending /\ handheld = s =>
        InCalls(r) \/ (\E x \in ctl : x.request = r) \/ Answered(r)

Waits == {<<"WaitForGetInfo", "GET_INFO">>, <<"WaitForDockBegin", "DOCK_BEGIN">>}

AnswerInv == OneTransfer /\ LoadedIsNext /\ Coming("WaitForDockBegin", "DOCK_BEGIN")

LEMMA WaitsAre ==
    ASSUME NEW s, NEW r, <<s, r>> \in Waits
    PROVE  \/ s = "WaitForGetInfo" /\ r = "GET_INFO"
           \/ s = "WaitForDockBegin" /\ r = "DOCK_BEGIN"
BY DEF Waits

LEMMA CallsApart ==
    /\ \A r, s : Control(r) = Control(s) => r = s
    /\ \A r : Control(r).op = "Control"
BY DEF Control

LEMMA OneTransferInductive == ASSUME OneTransfer, [DockNext]_dockVars PROVE OneTransfer'
<1>1. CASE ctl' \subseteq ctl
  BY <1>1 DEF OneTransfer
<1>2. CASE \E x : ctl' = {x}
  BY <1>2 DEF OneTransfer
<1>3. CASE UsbStep
  BY <1>1, <1>2, <1>3
     DEF UsbStep, UsbTask, User, Attach, Detach, MountCb, UmountCb, ControlDone, ConfigComplete,
         ConfigFailed, ControlComplete, BulkDone, BulkComplete, BulkFailed, Pump
<1>4. CASE EndControl
  BY <1>1, <1>2, <1>4 DEF EndControl, ControlSubmit
<1>5. CASE BeginControl
  BY <1>1, <1>5 DEF BeginControl, ControlLoad
<1> QED BY <1>1, <1>3, <1>4, <1>5
        DEF DockNext, EngineStep, LedStep, GamepadStep, BluetoothStart, PressButton, dockVars,
            usbOnly

LEMMA LoadedInductive ==
    ASSUME DockTypeInv, LoadedIsNext, [DockNext]_dockVars PROVE LoadedIsNext'
<1>1. CASE UNCHANGED <<loaded, todo>>
  BY <1>1 DEF LoadedIsNext
<1>2. CASE EngineStep
  <2>1. loaded' = loaded
    BY <1>2 DEF EngineStep, usbOnly
  <2>2. loaded = {}
    <3>1. CASE Handle
      BY <3>1, HandleTurnsHandheld DEF LoadedIsNext, Receive, DockTypeInv
    <3>2. CASE LocalCall
      <4>1. \A r, on, s, p :
               /\ Control(r) # ResetTx /\ Control(r) # SetHdmi(on)
               /\ Control(r) # EnablePairing(on) /\ Control(r) # PostLed(s, on)
               /\ Control(r) # [op |-> "Push", packet |-> p]
        <5>1. /\ ResetTx.op = "ResetTx" /\ \A r : Control(r).op = "Control"
              /\ \A on : SetHdmi(on).op = "SetHdmi" /\ EnablePairing(on).op = "EnablePairing"
              /\ \A s, on : PostLed(s, on).op = "PostLed"
              /\ \A p : [op |-> "Push", packet |-> p].op = "Push"
          BY DEF ResetTx, Control, SetHdmi, EnablePairing, PostLed
        <5>2. \A r : /\ Control(r) # ResetTx
                     /\ \A on : Control(r) # SetHdmi(on) /\ Control(r) # EnablePairing(on)
          BY <5>1
        <5>3. \A r, on, s, p : /\ Control(r) # PostLed(s, on)
                               /\ Control(r) # [op |-> "Push", packet |-> p]
          BY <5>1
        <5> QED BY <5>2, <5>3
      <4>2. \A r : Head(todo) # Control(r)
        BY <3>2, <4>1
           DEF LocalCall, DoResetTx, DoPush, DoSetHdmi, DoEnablePairing, DoPostLed, Call
      <4> QED BY <4>2 DEF LoadedIsNext
    <3> QED BY <1>2, <3>1, <3>2 DEF EngineStep
  <2> QED BY <2>1, <2>2 DEF LoadedIsNext
<1>3. CASE BeginControl
  <2>1. PICK r \in Requests : todo # <<>> /\ Head(todo) = Control(r) /\ ControlLoad(r)
    BY <1>3 DEF BeginControl
  <2>2. PICK a : loaded' = {[addr |-> a, request |-> r]}
    BY <2>1 DEF ControlLoad
  <2>3. todo' = todo
    BY <1>3 DEF BeginControl, engineRest
  <2> QED BY <2>1, <2>2, <2>3 DEF LoadedIsNext
<1>4. CASE EndControl
  BY <1>4 DEF EndControl, ControlSubmit, LoadedIsNext
<1>5. CASE UsbStep
  BY <1>1, <1>5
     DEF UsbStep, engineRest, UsbTask, User, Attach, Detach, MountCb, UmountCb, ControlDone,
         ConfigComplete, ConfigFailed, ControlComplete, BulkDone, BulkComplete, BulkFailed, Pump
<1>6. CASE LedStep \/ GamepadStep \/ BluetoothStart \/ PressButton \/ UNCHANGED dockVars
  BY <1>1, <1>6
     DEF LedStep, LedTask, GamepadStep, BluetoothStart, BtInitComplete, PressButton, engineRest,
         usbOnly, dockVars, engineVars
<1> QED BY <1>2, <1>3, <1>4, <1>5, <1>6 DEF DockNext

(* Calls wait until they are made, and messages until they are read. *)
LEMMA CallMade ==
    ASSUME DockTypeInv, NEW c, Call(c)
    PROVE  /\ Len(todo) \in Nat /\ 1 \in 1 .. Len(todo) /\ todo[1] = c
           /\ Len(todo') = Len(todo) - 1
           /\ \A i \in 1 .. Len(todo') : i + 1 \in 1 .. Len(todo) /\ todo'[i] = todo[i + 1]
<1>1. /\ todo \in Seq(Calls) /\ todo # <<>> /\ c = todo[1] /\ todo' = Tail(todo)
  BY HeadTailProperties, EmptySeq DEF Call, DockTypeInv, EngineInv, EngineTypeOK
<1>2. /\ Len(todo) \in Nat /\ Len(todo) # 0 /\ Len(todo') = Len(todo) - 1
      /\ \A j \in 1 .. Len(todo) - 1 : todo'[j] = todo[j + 1]
  BY <1>1, HeadTailProperties, LenProperties, EmptySeq
<1> QED BY <1>1, <1>2

LEMMA CallsWait ==
    ASSUME DockTypeInv, NEW c, Call(c), NEW r, InCalls(r), c # Control(r) PROVE InCalls(r)'
<1>1. PICK i \in 1 .. Len(todo) : todo[i] = Control(r) /\ i # 1
  BY CallMade DEF InCalls
<1>2. i - 1 \in 1 .. Len(todo') /\ todo'[i - 1] = todo[i]
  BY <1>1, CallMade
<1> QED BY <1>1, <1>2 DEF InCalls

LEMMA AnswersWait ==
    ASSUME DockTypeInv, NEW m, Send(m), m \in Messages, lost' = {}
    PROVE  /\ \A r : Answered(r) => Answered(r)'
           /\ m.kind = "HandheldXferComplete" => Answered(m.request)'
           /\ m \in {Mount, Unmount} \/ HandheldEventPending => HandheldEventPending'
           /\ lost = {}
<1>1. QueueTypeOK /\ queue \in Seq(Messages)
  BY DEF DockTypeInv, EngineInv, EngineTypeOK, QueueTypeOK
<1>2. CASE queue' = Append(queue, m) /\ lost' = lost
  <2>1. queue' \in Seq(Messages)
    BY <1>1, <1>2, AppendProperties
  <2>2. /\ Len(queue) \in Nat /\ Len(queue') = Len(queue) + 1
        /\ queue'[Len(queue) + 1] = m
        /\ \A j \in 1 .. Len(queue) : queue'[j] = queue[j]
        /\ DOMAIN queue = 1 .. Len(queue) /\ DOMAIN queue' = 1 .. Len(queue')
    BY <1>1, <1>2, <2>1, AppendProperties, LenProperties
  <2>3. /\ Len(queue) + 1 \in 1 .. Len(queue')
        /\ \A j \in 1 .. Len(queue) : j \in 1 .. Len(queue')
    BY <2>2
  <2>4. \A r : Answered(r) => Answered(r)'
    BY <2>2, <2>3 DEF Answered
  <2>5. m.kind = "HandheldXferComplete" => Answered(m.request)'
    BY <2>2, <2>3 DEF Answered
  <2>6. m \in {Mount, Unmount} \/ HandheldEventPending => HandheldEventPending'
    BY <2>2, <2>3 DEF HandheldEventPending
  <2> QED BY <1>2, <2>4, <2>5, <2>6
<1>3. CASE queue' = queue /\ lost' = lost \cup ({m.kind} \cap Tracked)
  <2>1. lost = {} /\ m.kind \notin Tracked
    BY <1>3
  <2>2. m.kind \notin {"HandheldMount", "HandheldUnmount", "HandheldXferComplete"}
    BY <2>1, Switches
  <2> QED BY <1>3, <2>1, <2>2, MessageKinds DEF Answered, HandheldEventPending
<1> QED BY <1>1, <1>2, <1>3, SendSwitches

(* The engine has a handheld and no news of it: so it is there, and if it    *)
(* goes there will be news.                                                  *)
LEMMA QuietHandheldIsThere ==
    ASSUME DockTypeInv, HandheldInv, lost = {}, ~HandheldEventPending, handheld # "None"
    PROVE  device.told /\ device.present /\ Enumerated(device.addr)
<1>1. DOMAIN queue = 1 .. Len(queue)
  BY LenProperties DEF DockTypeInv, EngineInv, EngineTypeOK, QueueTypeOK
<1>2. WillHaveHandheld
  BY <1>1 DEF HandheldEventPending, WillHaveHandheld, EndsOn
<1>3. device.told
  BY <1>2 DEF HandheldInv, Agrees
<1> QED BY <1>3 DEF DockTypeInv, UsbInv, ToldIsPresent, DeviceAtPort

LEMMA HandleKeepsComing ==
    ASSUME NEW s, NEW r, <<s, r>> \in Waits,
           DockTypeInv, HandheldInv, Coming(s, r), Handle, ctl' = ctl
    PROVE  Coming(s, r)'
<1> SUFFICES ASSUME lost' = {}, ~HandheldEventPending', handheld' = s
             PROVE  InCalls(r)' \/ Answered(r)' \/ \E x \in ctl' : x.request = r
  BY DEF Coming
<1>1. PICK m, calls : Receive(m, calls) /\ TurnsHandheld(m)
  BY HandleTurnsHandheld DEF DockTypeInv
<1>2. /\ queue \in Seq(Messages) /\ queue # <<>> /\ m = Head(queue) /\ queue' = Tail(queue)
      /\ todo = <<>> /\ todo' = calls /\ lost = {}
  BY <1>1 DEF Receive, DockTypeInv, EngineInv, EngineTypeOK, QueueTypeOK
<1>3. /\ m = queue[1] /\ 1 \in 1 .. Len(queue) /\ Len(queue) \in Nat
      /\ Len(queue') = Len(queue) - 1
      /\ \A j \in 1 .. Len(queue) - 1 : queue'[j] = queue[j + 1]
      /\ DOMAIN queue' = 1 .. Len(queue') /\ DOMAIN queue = 1 .. Len(queue)
  <2>1. queue' \in Seq(Messages)
    BY <1>2, HeadTailProperties
  <2> QED BY <1>2, <2>1, HeadTailProperties, EmptySeq, LenProperties
<1>4. \A i \in 1 .. Len(queue) : i = 1 \/ (i - 1 \in 1 .. Len(queue') /\ queue'[i - 1] = queue[i])
  BY <1>3
<1>5. CASE handheld # s
  <2>1. HandleGetInfo \/ HandleMount
    BY <1>5, WaitsAre
       DEF Handle, HandleUnexpectedMount, HandleUnmount, HandleDockBegin,
           HandleOtherXfer, HandleConnected, HandleDisconnected, HandleData, HandleShortPress,
           HandleLongPress, engineOnly
  <2>2. CASE HandleGetInfo
    <3>1. todo' = <<Control(r)>>
      BY <1>5, <2>2, WaitsAre DEF HandleGetInfo, Receive
    <3>2. 1 \in 1 .. Len(todo') /\ todo'[1] = Control(r)
      BY <3>1
    <3> QED BY <3>2 DEF InCalls
  <2>3. CASE HandleMount
    <3>1. todo' = <<ResetTx, Control(r)>>
      BY <2>3, WaitsAre DEF HandleMount, Receive
    <3>2. 2 \in 1 .. Len(todo') /\ todo'[2] = Control(r)
      BY <3>1
    <3> QED BY <3>2 DEF InCalls
  <2> QED BY <2>1, <2>2, <2>3
<1>6. CASE handheld = s
  <2>1. m # Unmount
    BY <1>1, WaitsAre, MessageKinds DEF TurnsHandheld
  <2>2. m # Mount
    <3>1. Apart(queue, handheld # "None")
      BY <1>2 DEF HandheldInv, MountsApart
    <3>2. \A k \in 1 .. Len(queue) : ~(k < 1)
      BY <1>3
    <3> QED BY <1>3, <1>6, <3>1, <3>2, WaitsAre DEF Apart
  <2>3. ~HandheldEventPending
    BY <1>3, <1>4, <2>1, <2>2 DEF HandheldEventPending
  <2>4. ~InCalls(r)
    BY <1>2 DEF InCalls
  <2>5. ~(m.kind = "HandheldXferComplete" /\ m.request = r)
    <3> SUFFICES ASSUME m.kind = "HandheldXferComplete", m.request = r PROVE FALSE
      OBVIOUS
    <3>1. \A q, o : XferComplete(q, o).request = q
      BY DEF XferComplete
    <3>2. CASE HandleOtherXfer
      <4>1. PICK q \in Requests, o \in Outcomes :
               /\ <<handheld, q>> \notin Waits
               /\ Receive(XferComplete(q, o), <<>>)
        BY <3>2 DEF HandleOtherXfer, Waits
      <4>2. m = XferComplete(q, o)
        BY <1>2, <4>1 DEF Receive
      <4> QED BY <1>6, <3>1, <4>1, <4>2
    <3>3. HandleOtherXfer
      <4>1. \A m2 : (\E c2 : Receive(m2, c2)) => m2 = m
        BY <1>2 DEF Receive
      <4>2. ~HandleMount /\ ~HandleGetInfo
        BY <1>6, WaitsAre DEF HandleMount, HandleGetInfo
      <4>3. ~HandleUnmount /\ ~HandleDockBegin
        BY <1>6, WaitsAre DEF HandleUnmount, HandleDockBegin
      <4>4. ~HandleUnexpectedMount
        BY <2>2, <4>1 DEF HandleUnexpectedMount
      <4>5. \A i, w : ~HandleConnected(i, w) /\ ~HandleDisconnected(i) /\ ~HandleData(i)
        <5> SUFFICES ASSUME NEW i, NEW w
                     PROVE ~HandleConnected(i, w) /\ ~HandleDisconnected(i) /\ ~HandleData(i)
          OBVIOUS
        <5>1. m # Connected(i, w) /\ m # Disconnected(i) /\ m # Data(i)
          BY MessageKinds
        <5> QED BY <4>1, <5>1 DEF HandleConnected, HandleDisconnected, HandleData
      <4>6. m # ShortPress /\ m # LongPress
        BY MessageKinds
      <4>7. ~HandleShortPress /\ ~HandleLongPress
        BY <4>1, <4>6 DEF HandleShortPress, HandleLongPress
      <4> QED BY <4>2, <4>3, <4>4, <4>5, <4>7 DEF Handle
    <3> QED BY <3>2, <3>3
  <2>6. Answered(r) => Answered(r)'
    BY <1>3, <1>4, <2>5 DEF Answered
  <2> QED BY <1>2, <1>6, <2>3, <2>4, <2>6 DEF Coming
<1> QED BY <1>5, <1>6

LEMMA SendKeepsComing ==
    ASSUME NEW s, NEW r, DockTypeInv, Coming(s, r),
           NEW m \in Messages, Send(m), handheld' = handheld,
           InCalls(r) => InCalls(r)' \/ Answered(r)' \/ \E x \in ctl' : x.request = r,
           \A x \in ctl : x \in ctl' \/ m \in {Mount, Unmount}
                          \/ (m.kind = "HandheldXferComplete" /\ m.request = x.request)
    PROVE  Coming(s, r)'
<1> SUFFICES ASSUME lost' = {}, ~HandheldEventPending', handheld = s
             PROVE  InCalls(r)' \/ Answered(r)' \/ \E x \in ctl' : x.request = r
  BY DEF Coming
<1>1. /\ Answered(r) => Answered(r)'
      /\ m.kind = "HandheldXferComplete" => Answered(m.request)'
      /\ m \notin {Mount, Unmount} /\ ~HandheldEventPending /\ lost = {}
  BY AnswersWait
<1>2. ASSUME NEW x \in ctl, x.request = r
      PROVE  Answered(r)' \/ \E y \in ctl' : y.request = r
  BY <1>1, <1>2
<1> QED BY <1>1, <1>2 DEF Coming

LEMMA QuietKeepsComing ==
    ASSUME NEW s, NEW r, Coming(s, r), SendsNothing, handheld' = handheld,
           InCalls(r) => InCalls(r)' \/ \E x \in ctl' : x.request = r,
           \A x \in ctl : x.request = r => x \in ctl'
    PROVE  Coming(s, r)'
BY DEF Coming, SendsNothing, Answered, HandheldEventPending

LEMMA UsbKeepsComing ==
    ASSUME NEW s, NEW r, <<s, r>> \in Waits,
           DockTypeInv, HandheldInv, OneTransfer, Coming(s, r), UsbStep
    PROVE  Coming(s, r)'
<1>1. /\ handheld' = handheld /\ todo' = todo
      /\ InCalls(r) => InCalls(r)'
  BY DEF UsbStep, engineRest, engineOnly, InCalls
<1>2. Mount \in Messages /\ Unmount \in Messages
  BY Switches
<1>3. ASSUME ctl' = ctl, SendsNothing \/ \E m \in {Mount, Unmount} : Send(m)
      PROVE  Coming(s, r)'
  BY <1>1, <1>2, <1>3, SendKeepsComing, QuietKeepsComing
<1>4. CASE MountCb
  <2>1. SendsNothing /\ ctl \subseteq ctl'
    BY <1>4 DEF MountCb, SendsNothing
  <2> QED BY <1>1, <2>1, QuietKeepsComing
<1>5. CASE UmountCb
  <2>1. CASE Send(Unmount)
    BY <1>1, <1>2, <2>1, SendKeepsComing
  <2>2. CASE SendsNothing /\ ~(device.present /\ device.addr = port.addr)
    <3>1. lost = {} /\ ~HandheldEventPending => handheld # s
      BY <2>2, QuietHandheldIsThere, WaitsAre DEF Enumerated
    <3> QED BY <1>1, <2>2, <3>1 DEF Coming, SendsNothing, HandheldEventPending
  <2> QED BY <1>5, <2>1, <2>2 DEF UmountCb, SendsNothing
<1>6. CASE ConfigComplete \/ ConfigFailed
  <2>1. PICK x \in ctl : x.request = "CONFIG"
    BY <1>6 DEF ConfigComplete, ConfigFailed
  <2>2. \A y \in ctl : y.request # r
    BY <2>1, WaitsAre DEF OneTransfer
  <2>3. CASE SendsNothing
    BY <1>1, <2>2, <2>3, QuietKeepsComing
  <2>4. CASE Send(Mount)
    BY <1>1, <1>2, <2>4, SendKeepsComing
  <2> QED BY <1>6, <2>3, <2>4 DEF ConfigComplete, ConfigFailed, SendsNothing
<1>7. ASSUME NEW o \in Outcomes, ControlComplete(o) PROVE Coming(s, r)'
  <2>1. PICK x \in ctl : x.request \in Requests /\ Send(XferComplete(x.request, o))
    BY <1>7 DEF ControlComplete
  <2> DEFINE m == XferComplete(x.request, o)
  <2>2. m \in Messages /\ m.kind = "HandheldXferComplete" /\ m.request = x.request
    BY <2>1 DEF Messages, XferComplete
  <2>3. \A y \in ctl : y = x
    BY DEF OneTransfer
  <2> HIDE DEF m
  <2>4. Send(m)
    BY <2>1 DEF m
  <2> QED BY <1>1, <2>2, <2>3, <2>4, SendKeepsComing
<1>8. CASE BulkDone \/ Pump \/ User
  <2>1. ctl' = ctl
    BY <1>8 DEF BulkDone, BulkComplete, BulkFailed, Pump, User, Attach, Detach
  <2>2. SendsNothing \/ Send(Unmount)
    BY <1>8 DEF BulkDone, BulkComplete, BulkFailed, Pump, User, Attach, Detach, SendsNothing
  <2> QED BY <1>3, <2>1, <2>2
<1> QED BY <1>4, <1>5, <1>6, <1>7, <1>8 DEF UsbStep, UsbTask, ControlDone

(* A control call that is not refused without an answer. *)
LEMMA ControlKeepsComing ==
    ASSUME NEW s, NEW r, DockTypeInv, OneTransfer, LoadedIsNext, Coming(s, r), EndControl,
           \/ r = "DOCK_BEGIN"
           \/ lost = {} /\ ~HandheldEventPending /\ handheld = s /\ InCalls(r) =>
                 ctl = {} /\ ~Contention /\ \A x \in loaded : Enumerated(x.addr)
    PROVE  Coming(s, r)'
<1>1. PICK q \in Requests : Call(Control(q))
  BY DEF EndControl, DoControl, StartControl, RefuseControlOut
<1>2. handheld' = handheld
  BY DEF EndControl, DoControl, StartControl, RefuseControlOut, engineOnly
<1>3. PICK x \in loaded :
         \/ MayStart(x.addr) /\ ctl' = {x} /\ SendsNothing
         \/ /\ ctl' = ctl /\ MayRefuse(x.addr)
            /\ \/ x.request = "DOCK_BEGIN" /\ Send(XferComplete(x.request, "failed"))
               \/ x.request # "DOCK_BEGIN" /\ SendsNothing
  BY DEF EndControl, ControlSubmit, SendsNothing
<1>4. x.request = q
  BY <1>1, CallsApart DEF LoadedIsNext, Call
<1>5. q # r /\ InCalls(r) => InCalls(r)'
  BY <1>1, CallsWait, CallsApart
<1>6. CASE MayStart(x.addr) /\ ctl' = {x} /\ SendsNothing
  BY <1>2, <1>4, <1>5, <1>6, QuietKeepsComing DEF MayStart
<1>7. CASE ctl' = ctl /\ x.request # "DOCK_BEGIN" /\ SendsNothing /\ MayRefuse(x.addr)
  <2>1. CASE q # r
    BY <1>2, <1>5, <1>7, <2>1, QuietKeepsComing
  <2>2. CASE q = r
    <3> SUFFICES ASSUME lost = {}, ~HandheldEventPending, handheld = s PROVE FALSE
      BY <1>2, <1>7 DEF Coming, SendsNothing, HandheldEventPending
    <3>1. r # "DOCK_BEGIN" /\ InCalls(r)
      <4>1. todo \in Seq(Calls) /\ todo # <<>> /\ todo[1] = Control(r)
        BY <1>1, <2>2, HeadTailProperties
           DEF Call, DockTypeInv, EngineInv, EngineTypeOK
      <4>2. 1 \in 1 .. Len(todo)
        BY <4>1, EmptySeq, LenProperties
      <4> QED BY <1>4, <1>7, <2>2, <4>1, <4>2 DEF InCalls
    <3> QED BY <1>7, <3>1 DEF MayRefuse, MayStart
  <2> QED BY <2>1, <2>2
<1>8. CASE ctl' = ctl /\ x.request = "DOCK_BEGIN" /\ Send(XferComplete(x.request, "failed"))
  <2> DEFINE m == XferComplete(x.request, "failed")
  <2>1. m \in Messages /\ m.kind = "HandheldXferComplete" /\ m.request = q
    BY <1>4, <1>8 DEF Messages, XferComplete, Requests, Outcomes
  <2> HIDE DEF m
  <2>2. Send(m)
    BY <1>8 DEF m
  <2>3. InCalls(r) /\ lost' = {} => InCalls(r)' \/ Answered(r)'
    BY <1>5, <2>1, <2>2, AnswersWait
  <2> SUFFICES ASSUME lost' = {} PROVE Coming(s, r)'
    BY DEF Coming
  <2> QED BY <1>2, <1>8, <2>1, <2>2, <2>3, SendKeepsComing
<1> QED BY <1>3, <1>6, <1>7, <1>8

LEMMA ComingInductive ==
    ASSUME NEW s, NEW r, <<s, r>> \in Waits, DockTypeInv, HandheldInv, OneTransfer, LoadedIsNext,
           Coming(s, r), [DockNext]_dockVars, EndControl => Coming(s, r)'
    PROVE  Coming(s, r)'
<1>2. CASE UsbStep
  BY <1>2, UsbKeepsComing
<1>3. CASE EndControl
  BY <1>3
<1>4. ASSUME ctl' = ctl, handheld' = handheld, InCalls(r) => InCalls(r)',
             SendsNothing \/ \E m \in Messages : Send(m)
      PROVE  Coming(s, r)'
  BY <1>4, SendKeepsComing, QuietKeepsComing
<1>5. CASE EngineStep
  <2>1. ctl' = ctl
    BY <1>5 DEF EngineStep, usbOnly
  <2>2. CASE Handle
    BY <2>1, <2>2, HandleKeepsComing
  <2>3. CASE LocalCall
    <3>1. SendsNothing /\ handheld' = handheld
      BY <2>3 DEF LocalCall, DoResetTx, DoPush, DoSetHdmi, DoEnablePairing, DoPostLed,
                  engineOnly, SendsNothing
    <3>2. /\ ResetTx.op # "Control" /\ \A p : [op |-> "Push", packet |-> p].op # "Control"
          /\ \A on : SetHdmi(on).op # "Control" /\ EnablePairing(on).op # "Control"
          /\ \A led, on : PostLed(led, on).op # "Control"
      BY DEF ResetTx, SetHdmi, EnablePairing, PostLed
    <3>3. PICK c : Call(c) /\ c.op # "Control"
      BY <2>3, <3>2 DEF LocalCall, DoResetTx, DoPush, DoSetHdmi, DoEnablePairing, DoPostLed
    <3>4. InCalls(r) => InCalls(r)'
      BY <3>3, CallsWait, CallsApart
    <3> QED BY <1>4, <2>1, <3>1, <3>4
  <2> QED BY <1>5, <2>2, <2>3 DEF EngineStep
<1>6. CASE BeginControl
  <2>1. ctl' = ctl /\ handheld' = handheld /\ todo' = todo /\ SendsNothing
    BY <1>6 DEF BeginControl, ControlLoad, engineRest, engineOnly, SendsNothing
  <2> QED BY <1>4, <2>1 DEF InCalls
<1>7. CASE GamepadStep
  <2>1. ctl' = ctl /\ handheld' = handheld /\ todo' = todo
    BY <1>7 DEF GamepadStep, engineRest, engineOnly, usbOnly
  <2>2. SendsNothing \/ \E m \in Messages : Send(m)
    BY <1>7, PadSends, PadMessagesAreMessages DEF GamepadStep, DockTypeInv, PadTypeInv
  <2> QED BY <1>4, <2>1, <2>2 DEF InCalls
<1>8. CASE PressButton
  <2>1. ctl' = ctl /\ handheld' = handheld /\ todo' = todo
    BY <1>8 DEF PressButton, engineRest, engineOnly, usbOnly
  <2>2. \E m \in Messages : Send(m)
    BY <1>8 DEF PressButton, Messages
  <2> QED BY <1>4, <2>1, <2>2 DEF InCalls
<1>9. CASE LedStep \/ BluetoothStart \/ UNCHANGED dockVars
  <2>1. ctl' = ctl /\ handheld' = handheld /\ todo' = todo /\ SendsNothing
    BY <1>9
       DEF LedStep, LedTask, BluetoothStart, BtInitComplete, dockVars, engineVars, engineOnly,
           usbOnly, SendsNothing
  <2> QED BY <1>4, <2>1 DEF InCalls
<1> QED BY <1>2, <1>3, <1>5, <1>6, <1>7, <1>8, <1>9 DEF DockNext

LEMMA AnswersInductive ==
    ASSUME DockTypeInv, HandheldInv, AnswerInv, [DockNext]_dockVars PROVE AnswerInv'
<1>1. <<"WaitForDockBegin", "DOCK_BEGIN">> \in Waits
  BY DEF Waits
<1>2. EndControl => Coming("WaitForDockBegin", "DOCK_BEGIN")'
  BY ControlKeepsComing DEF AnswerInv
<1> QED BY <1>1, <1>2, ComingInductive, OneTransferInductive, LoadedInductive DEF AnswerInv

LEMMA InitAnswers == DockInit => AnswerInv
<1> SUFFICES ASSUME DockInit PROVE AnswerInv
  OBVIOUS
<1>1. ctl = {} /\ loaded = {} /\ handheld = "None"
  BY DEF DockInit, UsbInit, EngineInit
<1> QED BY <1>1 DEF AnswerInv, OneTransfer, LoadedIsNext, Coming

LEMMA ComingIsEnough ==
    ASSUME DockTypeInv, NEW r, Coming(handheld, r), r \in Awaited, todo = <<>>, lost = {},
           ~HandheldEventPending
    PROVE  \/ \E x \in ctl : x.request = r
           \/ \E i \in DOMAIN queue : queue[i].kind = "HandheldXferComplete"
                                      /\ queue[i].request = r
<1>1. ~InCalls(r) /\ DOMAIN queue = 1 .. Len(queue)
  <2>1. Len(todo) = 0 /\ \A i : i \notin 1 .. Len(todo)
    OBVIOUS
  <2> QED BY <2>1, LenProperties DEF InCalls, DockTypeInv, EngineInv, EngineTypeOK, QueueTypeOK
<1> QED BY <1>1 DEF Coming, Answered

(* An engine that waits for the answer to DOCK_BEGIN never waits in vain: it *)
(* is in flight or in the queue, unless news of the handheld is there or a   *)
(* message was lost.  Any replug, refusal or failure between the decision to *)
(* send it and its completion ends in one of these.                          *)
THEOREM DockBeginIsAnswered ==
    DockSpec => [](handheld # "WaitForGetInfo" => AnswerComing)
<1>1. ASSUME DockTypeInv, AnswerInv PROVE handheld # "WaitForGetInfo" => AnswerComing
  <2> SUFFICES ASSUME handheld # "WaitForGetInfo", todo = <<>>, lost = {},
                      ~HandheldEventPending, NEW r \in Awaited
               PROVE  \/ \E x \in ctl : x.request = r
                      \/ \E i \in DOMAIN queue : queue[i].kind = "HandheldXferComplete"
                                                 /\ queue[i].request = r
    BY DEF AnswerComing
  <2>1. handheld = "WaitForDockBegin" /\ r = "DOCK_BEGIN"
    BY DEF Awaited
  <2> QED BY <1>1, <2>1, ComingIsEnough DEF AnswerInv
<1>2. DockTypeInv /\ HandheldInv /\ AnswerInv /\ [DockNext]_dockVars => AnswerInv'
  BY AnswersInductive
<1> QED BY <1>1, <1>2, InitAnswers, DockInvariants, PTL DEF DockSpec

-----------------------------------------------------------------------------
(* A refused GET_INFO has no answer, so that half of the promise depends on  *)
(* the control pipe being free when the engine asks.  It is for a handheld   *)
(* that is plugged in once, with nobody else at the pipe: until the engine   *)
(* has heard of the handheld only its configuration is fetched, and that is  *)
(* over when the engine hears.                                               *)
OnePlugIn == MaxAttach <= 1 /\ ~Contention

OneMount == \A i, j \in 1 .. Len(queue) : queue[i] = Mount /\ queue[j] = Mount => i = j
NoControl == \A i \in 1 .. Len(todo) : todo[i].op # "Control"

NotYetMounted == attaches = 0 \/ port.phase = "enumerating"
Configuring == \E x \in ctl : x.request = "CONFIG"

FirstPlugIn ==
    /\ attaches = 0 => port.phase = "empty"
    /\ NotYetMounted => ctl = {} /\ ~MountPending
    /\ Configuring => ~MountPending
    /\ MountPending => ctl = {}
    /\ OneMount
    /\ NotYetMounted \/ Configuring \/ MountPending => handheld = "None" /\ NoControl

(* The call to the handheld is the last of a handler's. *)
ControlLast == \A i \in 1 .. Len(todo) : todo[i].op = "Control" => i = Len(todo)

(* The engine asks GET_INFO of the device it was told of, at a free pipe.    *)
PipeFree == InCalls("GET_INFO") => ctl = {}
LoadedIsDevice ==
    lost = {} /\ ~HandheldEventPending /\ handheld # "None" =>
        \A x \in loaded : x.addr = device.addr

InfoInv ==
    /\ FirstPlugIn /\ ControlLast /\ PipeFree /\ LoadedIsDevice
    /\ Coming("WaitForGetInfo", "GET_INFO")

(* Of the handlers those of Mount and GET_INFO ask the handheld, at their    *)
(* end.                                                                      *)
LEMMA HandleAsks ==
    ASSUME EngineInv, Handle, NEW i \in 1 .. Len(todo'), todo'[i].op = "Control"
    PROVE  /\ i = Len(todo')
           /\ handheld = "None" \/ todo'[i] = Control("GET_INFO") => HandleMount
<1>1. CASE HandleMount
  <2>1. todo' = <<ResetTx, Control("GET_INFO")>> /\ ResetTx.op # "Control"
    BY <1>1 DEF HandleMount, Receive, ResetTx
  <2>2. Len(todo') = 2 /\ todo'[1] = ResetTx
    BY <2>1
  <2> QED BY <1>1, <2>1, <2>2
<1>2. CASE HandleGetInfo
  <2>1. handheld # "None" /\ (todo' = <<Control("DOCK_BEGIN")>> \/ todo' = <<>>)
    BY <1>2 DEF HandleGetInfo, Receive
  <2>2. Len(todo') = 1 /\ i = 1 /\ todo'[1] = Control("DOCK_BEGIN")
    BY <2>1
  <2>3. Control("DOCK_BEGIN") # Control("GET_INFO")
    BY CallsApart
  <2> QED BY <2>1, <2>2, <2>3
<1>3. CASE HandleUnmount
  <2> DEFINE off == SetHdmi(FALSE)
             unset == PostLed("DockActive", FALSE)
  <2>1. todo' \in {<<>>, <<ResetTx, off>>, <<ResetTx, off, unset>>}
    BY <1>3 DEF HandleUnmount, Receive
  <2>2. ResetTx.op # "Control" /\ off.op # "Control" /\ unset.op # "Control"
    BY DEF ResetTx, SetHdmi, PostLed
  <2> HIDE DEF off, unset
  <2>3. CASE todo' = <<ResetTx, off>>
    <3>1. Len(todo') = 2 /\ todo'[1] = ResetTx /\ todo'[2] = off
      BY <2>3
    <3> QED BY <2>2, <3>1
  <2>4. CASE todo' = <<ResetTx, off, unset>>
    <3>1. Len(todo') = 3 /\ todo'[1] = ResetTx /\ todo'[2] = off /\ todo'[3] = unset
      BY <2>4
    <3> QED BY <2>2, <3>1
  <2> QED BY <2>1, <2>3, <2>4
<1> QED BY <1>1, <1>2, <1>3, HandlePrograms

LEMMA ControlLastInductive ==
    ASSUME DockTypeInv, ControlLast, [DockNext]_dockVars PROVE ControlLast'
<1>1. CASE Handle
  BY <1>1, HandleAsks DEF ControlLast, DockTypeInv
<1>2. ASSUME NEW c, Call(c) PROVE ControlLast'
  BY <1>2, CallMade DEF ControlLast
<1>3. CASE todo' = todo
  BY <1>3 DEF ControlLast
<1> QED BY <1>1, <1>2, <1>3, OtherSteps

(* A handler leaves the USB side alone: it alone takes from the queue, while *)
(* no call is being made.                                                    *)
LEMMA HandleLeavesUsb ==
    ASSUME DockTypeInv, [DockNext]_dockVars, Handle PROVE UNCHANGED usbOnly
<1>1. PICK m, calls : Receive(m, calls)
  BY HandleTurnsHandheld DEF DockTypeInv
<1>2. todo = <<>> /\ queue # <<>> /\ queue' = Tail(queue) /\ QueueTypeOK
  BY <1>1 DEF Receive, DockTypeInv, EngineInv, EngineTypeOK
<1>3. CASE UsbStep
  <2>1. Len(queue) \in Nat /\ Len(queue') = Len(queue) - 1 /\ queue \in Seq(Messages)
    BY <1>2, HeadTailProperties, LenProperties DEF QueueTypeOK
  <2>2. queue' # queue
    BY <2>1
  <2>3. \A n \in Messages : queue' # Append(queue, n)
    BY <2>1, AppendProperties
  <2>4. SendsNothing \/ \E n \in Messages : Send(n)
    BY <1>3, UsbSends, UsbMessagesAreMessages DEF UsbStep, Sends
  <2> QED BY <1>2, <2>2, <2>3, <2>4, SendSwitches DEF SendsNothing
<1>4. ~BeginControl /\ ~EndControl
  BY <1>2 DEF BeginControl, EndControl, DoControl, StartControl, RefuseControlOut, Call
<1> QED BY <1>3, <1>4
        DEF DockNext, EngineStep, LedStep, GamepadStep, BluetoothStart, PressButton, dockVars,
            usbOnly

(* Steps of the port: it begins to enumerate only the first handheld.        *)
LEMMA PortStep ==
    ASSUME OnePlugIn, DockTypeInv, [DockNext]_dockVars
    PROVE  /\ attaches' = 0 => attaches = 0
           /\ attaches' = 0 /\ port.phase = "empty" => port'.phase = "empty"
           /\ port'.phase = "enumerating" => NotYetMounted
<1> USE DEF NotYetMounted
<1>1. /\ port \in Ports /\ attaches \in Nat /\ MaxAttach \in Nat /\ UsbTypeOK /\ DeviceAtPort
      /\ tx \in Seq(Packets) /\ EmptyPort.phase = "empty"
  <2>1. UsbTypeOK /\ DeviceAtPort /\ tx \in Seq(Packets)
    BY DEF DockTypeInv, UsbInv, EngineInv, EngineTypeOK
  <2>2. MaxAttach \in Nat /\ port \in Ports /\ attaches \in 0 .. MaxAttach
    BY <2>1, UsbAssumption DEF UsbTypeOK, UsbAssumption
  <2>3. EmptyPort.phase = "empty"
    BY DEF EmptyPort
  <2> QED BY <2>1, <2>2, <2>3
<1>2. CASE attaches' = attaches /\ port'.phase = port.phase
  BY <1>2
<1>3. CASE UsbStep
  <2>1. CASE User
    <3>1. ASSUME NEW a \in Addr, Attach(a) PROVE attaches' # 0 /\ attaches = 0
      BY <1>1, <3>1 DEF Attach, OnePlugIn
    <3>2. CASE Detach
      <4>1. port'.phase \in {"empty", "removed"} /\ attaches' = attaches
        BY <1>1, <3>2 DEF Detach, Ports
      <4> QED BY <3>2, <4>1 DEF Detach
    <3> QED BY <2>1, <3>1, <3>2 DEF User
  <2>2. CASE MountCb
    BY <1>1, <2>2 DEF MountCb, Ports
  <2>3. CASE UmountCb
    BY <1>1, <2>3 DEF UmountCb
  <2>4. CASE ControlDone
    <3>1. attaches' = attaches /\ port'.phase = port.phase
      BY <1>1, <2>4 DEF ControlDone, ConfigComplete, ConfigFailed, ControlComplete, Ports
    <3> QED BY <1>2, <3>1
  <2>5. CASE Pump
    <3>1. port'.phase = port.phase /\ attaches' = attaches
      BY <1>1, <2>5, SendNextKeepsPhase DEF Pump
    <3> QED BY <1>2, <3>1
  <2>6. CASE BulkComplete
    <3>1. PICK x \in bulk :
            IF device.present THEN SendNext(Delivered(x.packet)) ELSE port' = Delivered(x.packet)
      BY <2>6 DEF BulkComplete
    <3>2. Delivered(x.packet) \in Ports /\ Delivered(x.packet).phase = port.phase
      BY <1>1, DeliveredPort DEF UsbTypeOK
    <3>3. port'.phase = port.phase /\ attaches' = attaches
      BY <1>1, <2>6, <3>1, <3>2, SendNextKeepsPhase DEF BulkComplete
    <3> QED BY <1>2, <3>3
  <2>7. CASE BulkFailed
    <3>1. attaches' = attaches /\ port'.phase = port.phase
      BY <1>1, <2>7 DEF BulkFailed, Ports
    <3> QED BY <1>2, <3>1
  <2> QED BY <1>3, <2>1, <2>2, <2>3, <2>4, <2>5, <2>6, <2>7 DEF UsbStep, UsbTask, BulkDone
<1>4. CASE ~UsbStep
  <2>1. attaches' = attaches /\ port' = port
    BY <1>4
       DEF DockNext, EngineStep, BeginControl, ControlLoad, EndControl, ControlSubmit, LedStep,
           GamepadStep, BluetoothStart, PressButton, dockVars, usbOnly
  <2> QED BY <1>2, <2>1
<1> QED BY <1>3, <1>4

(* Of the steps that are not handlers only ConfigComplete sends a Mount, and *)
(* only MountCb and the engine's control calls start a control transfer.     *)
SendsNoMount == SendsNothing \/ \E m \in Messages \ {Mount} : Send(m)
NoNewTransfer ==
    ctl' \subseteq ctl \/ (~NoControl /\ \A x \in ctl' : x.request # "CONFIG")

LEMMA PlainStep ==
    ASSUME DockTypeInv, LoadedIsNext, [DockNext]_dockVars, ~Handle,
           ~(UsbStep /\ MountCb), ~(UsbStep /\ ConfigComplete)
    PROVE  SendsNoMount /\ NoNewTransfer
<1>1. CASE UsbStep
  <2>1. ctl' \subseteq ctl
    BY <1>1, Zenon
       DEF UsbStep, UsbTask, User, Attach, Detach, UmountCb, ControlDone, ConfigFailed,
           ControlComplete, BulkDone, BulkComplete, BulkFailed, Pump
  <2>2. Unmount \in Messages \ {Mount}
    BY Switches
  <2>3. ASSUME NEW o \in Outcomes, ControlComplete(o) PROVE SendsNoMount
    <3>1. PICK x \in ctl : x.request \in Requests /\ Send(XferComplete(x.request, o))
      BY <2>3 DEF ControlComplete
    <3>2. XferComplete(x.request, o) \in Messages \ {Mount}
      BY <3>1, MessageKinds DEF Messages
    <3> QED BY <3>1, <3>2 DEF SendsNoMount
  <2>4. CASE ConfigFailed \/ UmountCb \/ BulkDone \/ Pump \/ User
    <3>1. SendsNothing \/ Send(Unmount)
      BY <2>4
         DEF User, Attach, Detach, UmountCb, ConfigFailed, BulkDone, BulkComplete, BulkFailed,
             Pump, SendsNothing
    <3> QED BY <2>1, <2>2, <3>1 DEF SendsNoMount, NoNewTransfer
  <2>5. (UsbTask \/ User) /\ ~MountCb /\ ~ConfigComplete
    BY <1>1 DEF UsbStep
  <2>6. CASE ControlDone
    BY <2>1, <2>3, <2>4, <2>5, <2>6 DEF ControlDone, NoNewTransfer
  <2> QED BY <2>4, <2>5, <2>6 DEF UsbTask
<1>2. CASE ~UsbStep
  <2>1. device' = device
    BY <1>2
       DEF DockNext, EngineStep, BeginControl, ControlLoad, EndControl, ControlSubmit, LedStep,
           GamepadStep, BluetoothStart, PressButton, dockVars, usbOnly
  <2>2. SendsNoMount
    BY <2>1, DockHandheldStep, Switches
       DEF HandheldStep, Stays, Announces, Withdraws, Posts, SendsNoMount
  <2>3. CASE EndControl
    <3>1. PICK r \in Requests : Call(Control(r))
      BY <2>3 DEF EndControl, DoControl, StartControl, RefuseControlOut
    <3>2. ~NoControl
      BY <3>1, CallMade, CallsApart DEF NoControl
    <3>3. PICK x \in loaded : ctl' = ctl \/ ctl' = {x}
      BY <2>3 DEF EndControl, ControlSubmit
    <3>4. x.request # "CONFIG"
      BY DEF DockTypeInv, UsbInv, UsbTypeOK, Transfers, Requests
    <3> QED BY <2>2, <3>2, <3>3, <3>4 DEF NoNewTransfer
  <2>4. CASE ~EndControl
    <3>1. ctl' = ctl
      BY <1>2, <2>4
         DEF DockNext, EngineStep, BeginControl, ControlLoad, LedStep, GamepadStep,
             BluetoothStart, PressButton, dockVars, usbOnly
    <3> QED BY <2>2, <3>1 DEF NoNewTransfer
  <2> QED BY <2>3, <2>4
<1> QED BY <1>1, <1>2

(* What the queue holds of Mounts, as a Mount is sent or a message read.     *)
LEMMA SendCountsMounts ==
    ASSUME DockTypeInv, SendsNoMount, OneMount
    PROVE  OneMount' /\ (MountPending' => MountPending)
<1>1. QueueTypeOK /\ queue \in Seq(Messages)
  BY DEF DockTypeInv, EngineInv, EngineTypeOK, QueueTypeOK
<1>2. CASE queue' = queue
  BY <1>2 DEF OneMount, MountPending
<1>3. ASSUME NEW m \in Messages \ {Mount}, queue' = Append(queue, m)
      PROVE  OneMount' /\ (MountPending' => MountPending)
  <2>1. /\ Len(queue) \in Nat /\ Len(queue') = Len(queue) + 1 /\ queue'[Len(queue) + 1] = m
        /\ \A i \in 1 .. Len(queue) : queue'[i] = queue[i]
    BY <1>1, <1>3, AppendProperties, LenProperties
  <2>2. \A i \in 1 .. Len(queue') : queue'[i] = Mount => i \in 1 .. Len(queue) /\ queue[i] = Mount
    BY <1>3, <2>1
  <2> QED BY <2>2 DEF OneMount, MountPending
<1> QED BY <1>1, <1>2, <1>3, SendSwitches DEF SendsNoMount, SendsNothing

LEMMA FirstMount ==
    ASSUME DockTypeInv, ~MountPending, Send(Mount) PROVE OneMount'
<1>1. QueueTypeOK /\ queue \in Seq(Messages) /\ Mount \in Messages
  BY Switches DEF DockTypeInv, EngineInv, EngineTypeOK, QueueTypeOK
<1>2. CASE queue' = queue
  BY <1>2 DEF OneMount, MountPending
<1>3. CASE queue' = Append(queue, Mount)
  <2>1. /\ Len(queue) \in Nat /\ Len(queue') = Len(queue) + 1
        /\ \A i \in 1 .. Len(queue) : queue'[i] = queue[i]
    BY <1>1, <1>3, AppendProperties, LenProperties
  <2>2. \A i \in 1 .. Len(queue') : queue'[i] = Mount => i = Len(queue')
    BY <2>1 DEF MountPending
  <2> QED BY <2>2 DEF OneMount
<1> QED BY <1>1, <1>2, <1>3, SendSwitches

LEMMA ReadCountsMounts ==
    ASSUME DockTypeInv, NEW m, NEW calls, Receive(m, calls), OneMount
    PROVE  OneMount' /\ (MountPending' => MountPending /\ m # Mount) /\ (m = Mount => MountPending)
<1>1. queue \in Seq(Messages) /\ queue # <<>> /\ m = Head(queue) /\ queue' = Tail(queue)
  BY DEF Receive, DockTypeInv, EngineInv, EngineTypeOK, QueueTypeOK
<1>2. /\ Len(queue) \in Nat /\ 1 \in 1 .. Len(queue) /\ m = queue[1]
      /\ \A i \in 1 .. Len(queue') :
            i + 1 \in 1 .. Len(queue) /\ i + 1 # 1 /\ queue'[i] = queue[i + 1]
  BY <1>1, HeadTailProperties, EmptySeq, LenProperties
<1>3. OneMount'
  <2> SUFFICES ASSUME NEW i \in 1 .. Len(queue'), NEW j \in 1 .. Len(queue'),
                      queue'[i] = Mount, queue'[j] = Mount
               PROVE  i = j
    BY DEF OneMount
  <2>1. /\ i + 1 \in 1 .. Len(queue) /\ queue[i + 1] = Mount
        /\ j + 1 \in 1 .. Len(queue) /\ queue[j + 1] = Mount
    BY <1>2
  <2>2. i + 1 = j + 1
    BY <2>1 DEF OneMount
  <2> QED BY <2>2
<1>4. MountPending' => MountPending /\ m # Mount
  BY <1>2 DEF OneMount, MountPending
<1>5. m = Mount => MountPending
  BY <1>2 DEF MountPending
<1> QED BY <1>3, <1>4, <1>5

LEMMA FirstPlugInInductive ==
    ASSUME OnePlugIn, DockTypeInv, LoadedIsNext, FirstPlugIn, [DockNext]_dockVars
    PROVE  FirstPlugIn'
<1>1. /\ attaches' = 0 => port'.phase = "empty"
      /\ NotYetMounted' => NotYetMounted
  BY PortStep DEF FirstPlugIn, NotYetMounted
<1>2. /\ NotYetMounted => ctl = {} /\ ~MountPending
      /\ Configuring => ~MountPending /\ ~NotYetMounted
      /\ MountPending => ctl = {} /\ ~NotYetMounted
      /\ OneMount
      /\ NotYetMounted \/ Configuring \/ MountPending => handheld = "None" /\ NoControl
  BY DEF FirstPlugIn, Configuring
<1>3. CASE Handle
  <2>1. UNCHANGED <<ctl, port, attaches>>
    BY <1>3, HandleLeavesUsb DEF usbOnly
  <2>2. PICK m, calls : Receive(m, calls) /\ TurnsHandheld(m)
    BY <1>3, HandleTurnsHandheld DEF DockTypeInv
  <2>3. OneMount' /\ (MountPending' => MountPending /\ m # Mount) /\ (m = Mount => MountPending)
    BY <1>2, <2>2, ReadCountsMounts
  <2>4. (NotYetMounted' <=> NotYetMounted) /\ (Configuring' <=> Configuring)
    BY <2>1 DEF NotYetMounted, Configuring
  <2>5. ASSUME NotYetMounted' \/ Configuring' \/ MountPending'
        PROVE  handheld' = "None" /\ NoControl'
    <3>1. m # Mount /\ handheld = "None"
      BY <1>2, <2>3, <2>4, <2>5 DEF Configuring
    <3>2. handheld' = "None"
      BY <2>2, <3>1 DEF TurnsHandheld
    <3>3. ~HandleMount
      BY <2>2, <3>1 DEF HandleMount, Receive
    <3>4. NoControl'
      BY <1>3, <3>1, <3>3, HandleAsks DEF NoControl, DockTypeInv
    <3> QED BY <3>2, <3>4
  <2> QED BY <1>1, <1>2, <2>1, <2>3, <2>4, <2>5 DEF FirstPlugIn
<1>4. ASSUME UsbStep PROVE handheld' = handheld /\ (NoControl' <=> NoControl)
  BY <1>4 DEF UsbStep, engineRest, engineOnly, NoControl
<1>5. CASE UsbStep /\ MountCb
  <2>1. /\ NotYetMounted /\ queue' = queue /\ attaches' = attaches
        /\ port'.phase = "mounted" /\ port.phase # "empty"
    <3>1. port \in Ports
      BY DEF DockTypeInv, UsbInv, UsbTypeOK
    <3> QED BY <1>5, <3>1 DEF MountCb, NotYetMounted, Ports
  <2>2. ~NotYetMounted' /\ ~MountPending' /\ OneMount'
    BY <1>2, <2>1 DEF FirstPlugIn, NotYetMounted, MountPending, OneMount
  <2> QED BY <1>1, <1>2, <1>4, <1>5, <2>1, <2>2 DEF FirstPlugIn
<1>6. CASE UsbStep /\ ConfigComplete
  <2>1. Configuring /\ ctl' = {} /\ ~Configuring'
    BY <1>6 DEF ConfigComplete, Configuring
  <2>2. OneMount'
    <3>1. Send(Mount) \/ queue' = queue
      BY <1>6 DEF ConfigComplete
    <3> QED BY <1>2, <2>1, <3>1, FirstMount DEF OneMount
  <2> QED BY <1>1, <1>2, <1>4, <1>6, <2>1, <2>2 DEF FirstPlugIn
<1>7. CASE ~Handle /\ ~(UsbStep /\ MountCb) /\ ~(UsbStep /\ ConfigComplete)
  <2>1. SendsNoMount /\ NoNewTransfer
    BY <1>7, PlainStep
  <2>2. OneMount' /\ (MountPending' => MountPending)
    BY <1>2, <2>1, SendCountsMounts
  <2>3. handheld' = handheld /\ (NoControl => NoControl')
    <3>1. ASSUME NEW c, Call(c), NoControl PROVE NoControl'
      BY <3>1, CallMade DEF NoControl
    <3>2. todo' = todo /\ NoControl => NoControl'
      BY DEF NoControl
    <3> QED BY <1>7, <3>1, <3>2, OtherSteps DEF engineOnly
  <2>4. CASE ctl' \subseteq ctl
    <3>1. Configuring' => Configuring
      BY <2>4 DEF Configuring
    <3>2. ctl = {} => ctl' = {}
      BY <2>4
    <3> QED BY <1>1, <1>2, <2>2, <2>3, <3>1, <3>2 DEF FirstPlugIn
  <2>5. CASE ~NoControl /\ \A x \in ctl' : x.request # "CONFIG"
    <3>1. ~NotYetMounted' /\ ~MountPending' /\ ~Configuring'
      BY <1>1, <1>2, <2>2, <2>5 DEF Configuring
    <3> QED BY <1>1, <2>2, <3>1 DEF FirstPlugIn
  <2> QED BY <2>1, <2>4, <2>5 DEF NoNewTransfer
<1> QED BY <1>3, <1>5, <1>6, <1>7

(* The pipe stays free from the engine's deciding to ask to its asking.      *)
LEMMA PipeFreeInductive ==
    ASSUME OnePlugIn, DockTypeInv, LoadedIsNext, FirstPlugIn, ControlLast, PipeFree,
           [DockNext]_dockVars
    PROVE  PipeFree'
<1>1. CASE Handle
  <2> SUFFICES ASSUME InCalls("GET_INFO")' PROVE ctl' = {}
    BY DEF PipeFree
  <2>1. PICK i \in 1 .. Len(todo') : todo'[i] = Control("GET_INFO")
    BY DEF InCalls
  <2>2. todo'[i].op = "Control"
    BY <2>1, CallsApart
  <2>3. HandleMount
    BY <1>1, <2>1, <2>2, HandleAsks DEF DockTypeInv
  <2>4. MountPending
    <3>1. Receive(Mount, <<ResetTx, Control("GET_INFO")>>)
      BY <2>3 DEF HandleMount
    <3> QED BY <3>1, ReadCountsMounts DEF FirstPlugIn
  <2>5. ctl' = ctl
    BY <1>1, HandleLeavesUsb DEF usbOnly
  <2> QED BY <2>4, <2>5 DEF FirstPlugIn
<1>2. CASE UsbStep
  <2>1. InCalls("GET_INFO")' <=> InCalls("GET_INFO")
    BY <1>2 DEF UsbStep, engineRest, InCalls
  <2>2. CASE MountCb
    <3>1. NoControl
      BY <2>2 DEF MountCb, FirstPlugIn, NotYetMounted
    <3>2. ~InCalls("GET_INFO")
      BY <3>1, CallsApart DEF NoControl, InCalls
    <3> QED BY <2>1, <3>2 DEF PipeFree
  <2>3. CASE ~MountCb
    <3>1. ctl' \subseteq ctl
      BY <1>2, <2>3
         DEF UsbStep, UsbTask, User, Attach, Detach, UmountCb, ControlDone, ConfigComplete,
             ConfigFailed, ControlComplete, BulkDone, BulkComplete, BulkFailed, Pump
    <3> QED BY <2>1, <3>1 DEF PipeFree
  <2> QED BY <2>2, <2>3
<1>3. CASE EndControl
  <2>1. PICK r \in Requests : Call(Control(r))
    BY <1>3 DEF EndControl, DoControl, StartControl, RefuseControlOut
  <2>2. Len(todo') = 0
    BY <2>1, CallMade, CallsApart DEF ControlLast
  <2>3. \A i : i \notin 1 .. Len(todo')
    BY <2>2
  <2> QED BY <2>3 DEF PipeFree, InCalls
<1>4. ASSUME ctl' = ctl, ~Handle PROVE PipeFree'
  <2>1. InCalls("GET_INFO")' => InCalls("GET_INFO")
    <3>1. ASSUME NEW c, Call(c), InCalls("GET_INFO")' PROVE InCalls("GET_INFO")
      BY <3>1, CallMade DEF InCalls
    <3>2. todo' = todo /\ InCalls("GET_INFO")' => InCalls("GET_INFO")
      BY DEF InCalls
    <3> QED BY <1>4, <3>1, <3>2, OtherSteps
  <2> QED BY <1>4, <2>1 DEF PipeFree
<1>5. CASE ~UsbStep /\ ~EndControl
  <2>1. ctl' = ctl
    BY <1>5
       DEF DockNext, EngineStep, BeginControl, ControlLoad, LedStep, GamepadStep,
           BluetoothStart, PressButton, dockVars, usbOnly
  <2> QED BY <1>1, <1>4, <2>1
<1> QED BY <1>2, <1>3, <1>5

(* A call that is half made is for the device the engine was told of.        *)
LEMMA LoadedIsDeviceInductive ==
    ASSUME OnePlugIn, DockTypeInv, HandheldInv, LoadedIsNext, FirstPlugIn, LoadedIsDevice,
           [DockNext]_dockVars
    PROVE  LoadedIsDevice'
<1> SUFFICES ASSUME lost' = {}, ~HandheldEventPending', handheld' # "None", NEW x \in loaded'
             PROVE  x.addr = device'.addr
  BY DEF LoadedIsDevice
<1>1. CASE Handle
  <2>1. loaded' = loaded /\ todo = <<>>
    BY <1>1, HandleLeavesUsb, HandleTurnsHandheld DEF usbOnly, DockTypeInv, Receive
  <2> QED BY <2>1 DEF LoadedIsNext
<1>2. ASSUME SendsNothing \/ \E m \in Messages : Send(m)
      PROVE  lost = {} /\ ~HandheldEventPending
  BY <1>2, AnswersWait DEF SendsNothing, HandheldEventPending
<1>3. ASSUME loaded' = loaded, handheld' = handheld, device'.addr = device.addr,
             SendsNothing \/ \E m \in Messages : Send(m)
      PROVE  x.addr = device'.addr
  BY <1>2, <1>3 DEF LoadedIsDevice
<1>4. CASE UsbStep
  <2>1. loaded' = loaded /\ handheld' = handheld
    BY <1>4
       DEF UsbStep, engineRest, engineOnly, UsbTask, User, Attach, Detach, MountCb, UmountCb,
           ControlDone, ConfigComplete, ConfigFailed, ControlComplete, BulkDone, BulkComplete,
           BulkFailed, Pump
  <2>2. SendsNothing \/ \E m \in Messages : Send(m)
    BY <1>4, UsbSends, UsbMessagesAreMessages DEF UsbStep, Sends
  <2>3. handheld # "None" => ~MountCb
    BY DEF MountCb, FirstPlugIn, NotYetMounted
  <2>4. ~Send(Unmount)
    BY AnswersWait, Switches
  <2>5. device \in Devices
    BY DEF DockTypeInv, UsbInv, UsbTypeOK
  <2>6. device'.addr = device.addr
    BY <1>4, <2>1, <2>3, <2>4, <2>5
       DEF UsbStep, UsbTask, User, Attach, Detach, UmountCb, ControlDone, ConfigComplete,
           ConfigFailed, ControlComplete, BulkDone, BulkComplete, BulkFailed, Pump, Devices
  <2> QED BY <1>3, <2>1, <2>2, <2>6
<1>5. CASE BeginControl
  <2>1. PICK r : ControlLoad(r)
    BY <1>5 DEF BeginControl
  <2>2. SendsNothing /\ device' = device /\ handheld' = handheld
    BY <1>5, <2>1 DEF BeginControl, ControlLoad, engineRest, engineOnly, SendsNothing
  <2>3. device.present
    BY <1>2, <2>2, QuietHandheldIsThere
  <2>4. loaded' = {[addr |-> device.addr, request |-> r]}
    BY <2>1, <2>3 DEF ControlLoad
  <2> QED BY <2>2, <2>4
<1>6. CASE EndControl
  BY <1>6 DEF EndControl, ControlSubmit
<1>7. CASE ~Handle /\ ~UsbStep /\ ~BeginControl /\ ~EndControl
  <2>1. UNCHANGED usbOnly
    BY <1>7
       DEF DockNext, EngineStep, LedStep, GamepadStep, BluetoothStart, PressButton, dockVars
  <2>2. handheld' = handheld
    BY <1>7, OtherSteps DEF engineOnly
  <2>3. SendsNothing \/ \E m \in Messages : Send(m)
    BY <1>7, PlainStep DEF SendsNoMount
  <2> QED BY <1>3, <2>1, <2>2, <2>3 DEF usbOnly
<1> QED BY <1>1, <1>4, <1>5, <1>6, <1>7

LEMMA InfoInductive ==
    ASSUME OnePlugIn, DockTypeInv, HandheldInv, AnswerInv, InfoInv, [DockNext]_dockVars
    PROVE  InfoInv'
<1>1. OneTransfer /\ LoadedIsNext
  BY DEF AnswerInv
<1>2. FirstPlugIn' /\ ControlLast' /\ PipeFree' /\ LoadedIsDevice'
  BY <1>1, FirstPlugInInductive, ControlLastInductive, PipeFreeInductive,
     LoadedIsDeviceInductive DEF InfoInv
<1>3. ASSUME lost = {}, ~HandheldEventPending, handheld = "WaitForGetInfo", InCalls("GET_INFO")
      PROVE  ctl = {} /\ ~Contention /\ \A x \in loaded : Enumerated(x.addr)
  <2>1. Enumerated(device.addr)
    BY <1>3, QuietHandheldIsThere
  <2> QED BY <1>3, <2>1 DEF InfoInv, PipeFree, LoadedIsDevice, OnePlugIn
<1>4. <<"WaitForGetInfo", "GET_INFO">> \in Waits
  BY DEF Waits
<1>5. EndControl => Coming("WaitForGetInfo", "GET_INFO")'
  BY <1>1, <1>3, ControlKeepsComing DEF InfoInv
<1>6. Coming("WaitForGetInfo", "GET_INFO")'
  BY <1>1, <1>4, <1>5, ComingInductive DEF InfoInv
<1> QED BY <1>2, <1>6 DEF InfoInv

(* The engine's whole promise to the handheld: whichever answer it waits     *)
(* for, the transfer is in flight or its completion in the queue, unless     *)
(* news of the handheld is there or a message was lost.  It holds for a      *)
(* handheld that is plugged in once while nobody else uses the control pipe, *)
(* however it answers or goes and whatever the gamepads and the button do;   *)
(* usb_host.cpp:186 reports a refused GET_INFO to nobody, so it can fail     *)
(* without that.                                                             *)
THEOREM EngineIsAnswered == OnePlugIn => (DockSpec => []AnswerComing)
<1> SUFFICES ASSUME OnePlugIn PROVE DockSpec => []AnswerComing
  OBVIOUS
<1>1. ASSUME DockTypeInv, AnswerInv, InfoInv PROVE AnswerComing
  <2> SUFFICES ASSUME todo = <<>>, lost = {}, ~HandheldEventPending, NEW r \in Awaited
               PROVE  \/ \E x \in ctl : x.request = r
                      \/ \E i \in DOMAIN queue : queue[i].kind = "HandheldXferComplete"
                                                 /\ queue[i].request = r
    BY DEF AnswerComing
  <2>1. \/ handheld = "WaitForGetInfo" /\ r = "GET_INFO"
        \/ handheld = "WaitForDockBegin" /\ r = "DOCK_BEGIN"
    BY DEF Awaited
  <2>2. Coming(handheld, r)
    BY <1>1, <2>1 DEF AnswerInv, InfoInv
  <2> QED BY <1>1, <2>2, ComingIsEnough
<1>2. DockInit => AnswerInv /\ InfoInv
  <2> SUFFICES ASSUME DockInit PROVE AnswerInv /\ InfoInv
    OBVIOUS
  <2>1. AnswerInv
    BY InitAnswers
  <2>2. /\ ctl = {} /\ loaded = {} /\ handheld = "None" /\ queue = <<>> /\ todo = <<>>
        /\ port.phase = "empty"
    BY DEF DockInit, UsbInit, EngineInit, QueueInit, EmptyPort
  <2>3. \A i : i \notin 1 .. Len(queue) /\ i \notin 1 .. Len(todo)
    BY <2>2
  <2>4. ~MountPending /\ OneMount /\ NoControl /\ ControlLast /\ ~InCalls("GET_INFO")
    BY <2>3 DEF MountPending, OneMount, NoControl, ControlLast, InCalls
  <2>5. FirstPlugIn
    BY <2>2, <2>4 DEF FirstPlugIn, Configuring
  <2> QED BY <2>1, <2>2, <2>4, <2>5 DEF InfoInv, PipeFree, LoadedIsDevice, Coming
<1>3. DockTypeInv /\ HandheldInv /\ AnswerInv /\ InfoInv /\ [DockNext]_dockVars
        => (AnswerInv /\ InfoInv)'
  BY AnswersInductive, InfoInductive
<1> QED BY <1>1, <1>2, <1>3, DockInvariants, PTL DEF DockSpec
=============================================================================
