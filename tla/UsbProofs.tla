------------------------------ MODULE UsbProofs ------------------------------
(***************************************************************************)
(* What holds of the handheld's half of the USB host, for any number of    *)
(* handhelds, addresses and failures, under engines that make any control  *)
(* transfer at any time.                                                   *)
(***************************************************************************)
EXTENDS UsbHandheld, SequenceTheorems, TLAPS

(* Everything that touches the variables of the USB side. *)
UsbNext ==
    \/ UsbTask \/ User
    \/ (\E r \in Requests : ControlLoad(r)) \/ ControlSubmit

-----------------------------------------------------------------------------
(* The inductive invariant.  Whatever is in flight belongs to the device at  *)
(* the port; handheld_device, when it is there, is that device; and while    *)
(* its configuration is being fetched it has no packets and no announcement. *)
DeviceAtPort == device.present => Enumerated(device.addr)

ToldIsPresent == device.told => device.present

TransfersAtPort == \A x \in ctl \cup bulk : Enumerated(x.addr)

ConfigComesFirst ==
    \A x \in ctl : x.request = "CONFIG" =>
        device.present /\ ~device.open /\ ~device.told /\ bulk = {}

(* A stuck packet is the device's of this port, with its endpoint open.      *)
StuckIsOpen ==
    port.stuck =>
        /\ bulk = {} /\ port.phase \in {"mounted", "removed"}
        /\ device.present => device.open

UsbInv ==
    /\ UsbTypeOK
    /\ DeviceAtPort /\ ToldIsPresent /\ TransfersAtPort /\ ConfigComesFirst
    /\ StuckIsOpen /\ BusyMeansInFlight

(* The records the callbacks build. *)
LEMMA EmptyRecords ==
    /\ NoDevice \in Devices /\ ~NoDevice.present /\ ~NoDevice.told
    /\ EmptyPort \in Ports /\ ~EmptyPort.stuck
<1>1. 0 \in 0 .. MaxTransferFailures - 1
  BY UsbAssumption DEF UsbAssumption
<1> QED BY <1>1 DEF NoDevice, Devices, EmptyPort, Ports

LEMMA NewDeviceType ==
    ASSUME NEW a \in Addr \cup {NoAddr}
    PROVE  /\ NewDevice(a) \in Devices
           /\ NewDevice(a).present /\ NewDevice(a).addr = a
           /\ ~NewDevice(a).open /\ ~NewDevice(a).told
<1>1. NewDevice(a) = [NoDevice EXCEPT !.present = TRUE, !.addr = a]
  BY DEF NewDevice
<1>2. ~NoDevice.open
  BY DEF NoDevice
<1> QED BY <1>1, <1>2, EmptyRecords DEF Devices

LEMMA AttachedPort ==
    ASSUME NEW a \in Addr
    PROVE  /\ [EmptyPort EXCEPT !.phase = "enumerating", !.addr = a] \in Ports
           /\ ~[EmptyPort EXCEPT !.phase = "enumerating", !.addr = a].stuck
BY EmptyRecords DEF Ports

LEMMA PortMoves ==
    ASSUME NEW p \in Ports, NEW phase \in {"mounted", "removed"}
    PROVE  /\ [p EXCEPT !.phase = phase] \in Ports
           /\ [p EXCEPT !.phase = phase].phase = phase
           /\ [p EXCEPT !.phase = phase].addr = p.addr
           /\ [p EXCEPT !.phase = phase].stuck = p.stuck
BY DEF Ports

LEMMA NothingChanges == ASSUME UsbInv, UNCHANGED usbOnly PROVE UsbInv'
BY DEF UsbInv, UsbTypeOK, DeviceAtPort, ToldIsPresent, TransfersAtPort, ConfigComesFirst,
       StuckIsOpen, BusyMeansInFlight, Enumerated, usbOnly

(* A handheld is plugged in: nothing is left of the one before it. *)
LEMMA AttachKeepsUsbInv == ASSUME UsbInv, NEW a \in Addr, Attach(a) PROVE UsbInv'
<1>1. /\ port.phase = "empty" /\ port' = [EmptyPort EXCEPT !.phase = "enumerating", !.addr = a]
      /\ attaches < MaxAttach /\ attaches' = attaches + 1
      /\ UNCHANGED <<device, outBusy, loaded, ctl, bulk>>
  BY DEF Attach
<1>2. ~device.present /\ ~device.told /\ ctl = {} /\ bulk = {}
  BY <1>1 DEF UsbInv, DeviceAtPort, ToldIsPresent, TransfersAtPort, Enumerated
<1>3. UsbTypeOK' /\ ~port'.stuck
  <2>1. port' \in Ports /\ ~port'.stuck
    BY <1>1, AttachedPort
  <2>2. attaches' \in 0 .. MaxAttach
    BY <1>1, UsbAssumption DEF UsbInv, UsbTypeOK, UsbAssumption
  <2> QED BY <1>1, <2>1, <2>2 DEF UsbInv, UsbTypeOK
<1>4. BusyMeansInFlight' /\ StuckIsOpen' /\ DeviceAtPort' /\ ToldIsPresent' /\ TransfersAtPort' /\ ConfigComesFirst'
  BY <1>1, <1>2, <1>3
     DEF BusyMeansInFlight, StuckIsOpen, DeviceAtPort, ToldIsPresent, TransfersAtPort, ConfigComesFirst
<1> QED BY <1>3, <1>4 DEF UsbInv

LEMMA DetachKeepsUsbInv == ASSUME UsbInv, Detach PROVE UsbInv'
<1>1. UNCHANGED <<device, outBusy, loaded, ctl, bulk, attaches>>
  BY DEF Detach
<1>2. CASE port.phase = "enumerating" /\ port' = EmptyPort
  <2>1. ~device.present /\ ~device.told /\ ctl = {} /\ bulk = {}
    BY <1>2 DEF UsbInv, DeviceAtPort, ToldIsPresent, TransfersAtPort, Enumerated
  <2>2. UsbTypeOK' /\ ~port'.stuck
    BY <1>1, <1>2, EmptyRecords DEF UsbInv, UsbTypeOK
  <2> QED BY <1>1, <2>1, <2>2
          DEF UsbInv, BusyMeansInFlight, StuckIsOpen, DeviceAtPort, ToldIsPresent, TransfersAtPort,
              ConfigComesFirst
<1>3. CASE port.phase = "mounted" /\ port' = [port EXCEPT !.phase = "removed"]
  <2>1. UsbTypeOK' /\ port'.stuck = port.stuck /\ port'.phase = "removed"
    BY <1>1, <1>3, PortMoves DEF UsbInv, UsbTypeOK
  <2>2. \A a : Enumerated(a) => Enumerated(a)'
    BY <1>3, PortMoves DEF Enumerated, UsbInv, UsbTypeOK
  <2> QED BY <1>1, <2>1, <2>2
          DEF UsbInv, BusyMeansInFlight, StuckIsOpen, DeviceAtPort, ToldIsPresent, TransfersAtPort,
              ConfigComesFirst
<1> QED BY <1>2, <1>3 DEF Detach

LEMMA MountCbKeepsUsbInv == ASSUME UsbInv, MountCb PROVE UsbInv'
<1>1. /\ port.phase = "enumerating" /\ port' = [port EXCEPT !.phase = "mounted"]
      /\ device' = NewDevice(port.addr)
      /\ UNCHANGED <<outBusy, loaded, bulk, attaches>>
      /\ ctl' = {[addr |-> port.addr, request |-> "CONFIG"]} \/ ctl' = ctl
  BY DEF MountCb
<1>2. ctl = {} /\ bulk = {} /\ ~port.stuck
  BY <1>1 DEF UsbInv, TransfersAtPort, StuckIsOpen, Enumerated
<1>3. /\ device'.present /\ device'.addr = port.addr /\ ~device'.open /\ ~device'.told
      /\ port'.phase = "mounted" /\ port'.addr = port.addr /\ port'.stuck = port.stuck
  <2>1. port \in Ports /\ port.addr \in Addr \cup {NoAddr}
    BY DEF UsbInv, UsbTypeOK, Ports
  <2> QED BY <1>1, <2>1, NewDeviceType, PortMoves
<1>4. UsbTypeOK'
  <2>1. port \in Ports /\ port.addr \in Addr \cup {NoAddr}
    BY DEF UsbInv, UsbTypeOK, Ports
  <2>2. port' \in Ports /\ device' \in Devices
    BY <1>1, <2>1, NewDeviceType, PortMoves
  <2>3. ctl' \subseteq Transfers(Requests \cup {"CONFIG"})
    BY <1>1, <1>2, <2>1 DEF Transfers
  <2> QED BY <1>1, <2>2, <2>3 DEF UsbInv, UsbTypeOK
<1>5. \A x \in ctl' : x.addr = port.addr
  BY <1>1, <1>2
<1> QED BY <1>1, <1>2, <1>3, <1>4, <1>5
        DEF UsbInv, BusyMeansInFlight, StuckIsOpen, DeviceAtPort, ToldIsPresent, TransfersAtPort,
            ConfigComesFirst, Enumerated

LEMMA UmountCbKeepsUsbInv == ASSUME UsbInv, UmountCb PROVE UsbInv'
<1>1. /\ port.phase = "removed" /\ port' = EmptyPort
      /\ ctl' = {x \in ctl : x.addr # port.addr} /\ bulk' = {x \in bulk : x.addr # port.addr}
      /\ IF device.present /\ device.addr = port.addr THEN device' = NoDevice ELSE device' = device
      /\ UNCHANGED <<outBusy, loaded, attaches>>
  BY DEF UmountCb
<1>2. ctl' = {} /\ bulk' = {}
  BY <1>1 DEF UsbInv, TransfersAtPort, Enumerated
<1>3. ~device'.present /\ ~device'.told /\ ~port'.stuck
  BY <1>1, EmptyRecords DEF UsbInv, DeviceAtPort, ToldIsPresent, Enumerated, NoDevice
<1>4. UsbTypeOK'
  BY <1>1, <1>2, EmptyRecords DEF UsbInv, UsbTypeOK
<1> QED BY <1>2, <1>3, <1>4
        DEF UsbInv, BusyMeansInFlight, StuckIsOpen, DeviceAtPort, ToldIsPresent, TransfersAtPort,
            ConfigComesFirst

LEMMA ConfigCompleteKeepsUsbInv == ASSUME UsbInv, ConfigComplete PROVE UsbInv'
<1>1. PICK x \in ctl : x.request = "CONFIG"
  BY DEF ConfigComplete
<1>2. device.present /\ bulk = {} /\ ~port.stuck
  BY <1>1 DEF UsbInv, ConfigComesFirst, StuckIsOpen
<1>3. PICK open \in BOOLEAN : device' = [device EXCEPT !.open = open, !.told = TRUE]
  BY <1>2 DEF ConfigComplete
<1>4. ctl' = {} /\ outBusy' = FALSE /\ UNCHANGED <<loaded, bulk, port, attaches>>
  BY <1>2 DEF ConfigComplete
<1>5. device'.present /\ device'.addr = device.addr
  BY <1>2, <1>3 DEF UsbInv, UsbTypeOK, Devices
<1>6. UsbTypeOK'
  BY <1>3, <1>4 DEF UsbInv, UsbTypeOK, Devices
<1> QED BY <1>2, <1>4, <1>5, <1>6
        DEF UsbInv, BusyMeansInFlight, StuckIsOpen, DeviceAtPort, ToldIsPresent, TransfersAtPort,
            ConfigComesFirst, Enumerated

LEMMA ConfigFailedKeepsUsbInv == ASSUME UsbInv, ConfigFailed PROVE UsbInv'
BY DEF ConfigFailed, UsbInv, UsbTypeOK, BusyMeansInFlight, StuckIsOpen, DeviceAtPort,
       ToldIsPresent, TransfersAtPort, ConfigComesFirst, Enumerated

LEMMA ControlLoadKeepsUsbInv ==
    ASSUME UsbInv, NEW r \in Requests, ControlLoad(r) PROVE UsbInv'
<1>1. PICK a \in Addr \cup {NoAddr} : loaded' = {[addr |-> a, request |-> r]}
  BY DEF ControlLoad, UsbInv, UsbTypeOK, Devices
<1>2. UNCHANGED <<device, outBusy, ctl, bulk, port, attaches>>
  BY DEF ControlLoad
<1>3. UsbTypeOK'
  BY <1>1, <1>2 DEF UsbInv, UsbTypeOK, Transfers
<1> QED BY <1>2, <1>3
        DEF UsbInv, BusyMeansInFlight, StuckIsOpen, DeviceAtPort, ToldIsPresent, TransfersAtPort,
            ConfigComesFirst, Enumerated

(* The engine's transfer never takes the place of the configuration's. *)
LEMMA ControlSubmitKeepsUsbInv == ASSUME UsbInv, ControlSubmit PROVE UsbInv'
<1>1. PICK x \in loaded : (MayStart(x.addr) /\ ctl' = {x}) \/ ctl' = ctl
  BY DEF ControlSubmit
<1>2. loaded' = {} /\ UNCHANGED <<device, outBusy, bulk, port, attaches>>
  BY DEF ControlSubmit
<1>3. x \in Transfers(Requests) /\ x.request # "CONFIG"
  BY DEF UsbInv, UsbTypeOK, Transfers, Requests
<1>4. x \in Transfers(Requests \cup {"CONFIG"})
  BY <1>3 DEF Transfers
<1>5. UsbTypeOK'
  BY <1>1, <1>2, <1>4 DEF UsbInv, UsbTypeOK
<1>6. \A y \in ctl' : Enumerated(y.addr) /\ (y.request = "CONFIG" => y \in ctl)
  BY <1>1, <1>3 DEF UsbInv, TransfersAtPort, MayStart
<1> QED BY <1>2, <1>5, <1>6
        DEF UsbInv, BusyMeansInFlight, StuckIsOpen, DeviceAtPort, ToldIsPresent, TransfersAtPort,
            ConfigComesFirst, Enumerated

LEMMA ControlCompleteKeepsUsbInv ==
    ASSUME UsbInv, NEW o \in Outcomes, ControlComplete(o) PROVE UsbInv'
<1>1. PICK x \in ctl :
         port' = [port EXCEPT !.docked = @ \/ (x.request = "DOCK_BEGIN" /\ o # "failed")]
  BY DEF ControlComplete
<1>2. ctl' = {} /\ UNCHANGED <<device, outBusy, loaded, bulk, attaches>>
  BY DEF ControlComplete
<1>3. /\ port' \in Ports /\ port'.phase = port.phase /\ port'.addr = port.addr
      /\ port'.stuck = port.stuck
  BY <1>1 DEF UsbInv, UsbTypeOK, Ports
<1>4. UsbTypeOK'
  BY <1>2, <1>3 DEF UsbInv, UsbTypeOK
<1> QED BY <1>2, <1>3, <1>4
        DEF UsbInv, BusyMeansInFlight, StuckIsOpen, DeviceAtPort, ToldIsPresent, TransfersAtPort,
            ConfigComesFirst, Enumerated

(* A delivered packet changes the handheld's view and nothing else. *)
LEMMA DeliveredPort ==
    ASSUME UsbTypeOK, NEW p \in Packets
    PROVE  /\ Delivered(p) \in Ports
           /\ Delivered(p).phase = port.phase /\ Delivered(p).addr = port.addr
           /\ Delivered(p).docked = port.docked /\ Delivered(p).stuck = port.stuck
<1> DEFINE view == CASE p.request = "CONNECT"    -> port.view \cup {p.id}
                     [] p.request = "DISCONNECT" -> port.view \ {p.id}
                     [] OTHER                    -> port.view
<1>1. port \in Ports /\ port.view \subseteq GamepadId /\ p.id \in GamepadId
  BY DEF UsbTypeOK, Ports, Packets
<1>2. view \in SUBSET GamepadId
  BY <1>1
<1>3. Delivered(p) = [port EXCEPT !.view = view]
  BY DEF Delivered
<1> HIDE DEF view
<1> QED BY <1>1, <1>2, <1>3 DEF Ports

(* Taking the next packet neither plugs the handheld in nor out. *)
LEMMA SendNextKeepsPhase ==
    ASSUME NEW thePort \in Ports, SendNext(thePort) PROVE port'.phase = thePort.phase
BY DEF SendNext, Ports

(* The next packet is sent: with the endpoint open it is in flight, to the   *)
(* device at the port.                                                       *)
LEMMA SendNextProperties ==
    ASSUME UsbTypeOK, DeviceAtPort, device.present, tx \in Seq(Packets),
           NEW thePort \in Ports, ~thePort.stuck, SendNext(thePort)
    PROVE  /\ outBusy' \in BOOLEAN
           /\ bulk' \subseteq [addr : Addr \cup {NoAddr}, packet : Packets]
           /\ \A x \in bulk' : Enumerated(x.addr)
           /\ port' \in Ports /\ port'.phase = thePort.phase /\ port'.addr = thePort.addr
           /\ port'.docked = thePort.docked
           /\ device.open => (outBusy' <=> bulk' # {} \/ port'.stuck)
           /\ ~device.open => bulk' = {}
           /\ port'.stuck => device.open /\ bulk' = {}
           /\ tx' = tx \/ (tx # <<>> /\ PopFront(Head(tx)))
<1>1. CASE tx = <<>>
  <2>1. outBusy' = FALSE /\ bulk' = {} /\ port' = thePort /\ tx' = tx
    BY <1>1 DEF SendNext
  <2> QED BY <2>1
<1>2. CASE tx # <<>>
  <2>1. Head(tx) \in Packets /\ outBusy' = TRUE /\ PopFront(Head(tx))
    BY <1>2, HeadTailProperties DEF SendNext
  <2>2. CASE /\ device.open
             /\ bulk' = {[addr |-> device.addr, packet |-> Head(tx)]}
             /\ port' = thePort
    <3>1. Enumerated(device.addr) /\ device.addr \in Addr \cup {NoAddr}
      BY DEF DeviceAtPort, UsbTypeOK, Devices
    <3>2. bulk' # {}
      BY <2>2
    <3>3. bulk' \subseteq [addr : Addr \cup {NoAddr}, packet : Packets]
          /\ \A x \in bulk' : Enumerated(x.addr)
      BY <2>1, <2>2, <3>1
    <3> QED BY <1>2, <2>1, <2>2, <3>2, <3>3
  <2>3. CASE /\ bulk' = {}
             /\ port' = [thePort EXCEPT !.missed = TRUE, !.stuck = device.open]
    <3>1. /\ port' \in Ports /\ port'.phase = thePort.phase /\ port'.addr = thePort.addr
          /\ port'.docked = thePort.docked /\ port'.stuck = device.open
      BY <2>3 DEF Ports, UsbTypeOK, Devices
    <3> QED BY <1>2, <2>1, <2>3, <3>1
  <2> QED BY <1>2, <2>2, <2>3 DEF SendNext
<1> QED BY <1>1, <1>2

LEMMA PumpKeepsUsbInv ==
    ASSUME UsbInv, tx \in Seq(Packets), Pump PROVE UsbInv'
<1>1. device.present /\ SendNext(port) /\ UNCHANGED <<device, loaded, ctl, attaches>>
  BY DEF Pump
<1>2. port \in Ports /\ UsbTypeOK /\ DeviceAtPort /\ ~port.stuck
  BY <1>1 DEF UsbInv, UsbTypeOK, StuckIsOpen, BusyMeansInFlight, Pump
<1>3. /\ outBusy' \in BOOLEAN
      /\ bulk' \subseteq [addr : Addr \cup {NoAddr}, packet : Packets]
      /\ \A x \in bulk' : Enumerated(x.addr)
      /\ port' \in Ports /\ port'.phase = port.phase /\ port'.addr = port.addr
      /\ device.open => (outBusy' <=> bulk' # {} \/ port'.stuck)
      /\ ~device.open => bulk' = {}
      /\ port'.stuck => device.open /\ bulk' = {}
  BY <1>1, <1>2, SendNextProperties
<1>4. UsbTypeOK'
  BY <1>1, <1>3 DEF UsbInv, UsbTypeOK
<1>5. \A a : Enumerated(a)' <=> Enumerated(a)
  BY <1>3 DEF Enumerated
<1>6. BusyMeansInFlight' /\ StuckIsOpen'
  BY <1>1, <1>2, <1>3 DEF BusyMeansInFlight, StuckIsOpen, DeviceAtPort, Enumerated
<1> QED BY <1>1, <1>3, <1>4, <1>5, <1>6
        DEF UsbInv, DeviceAtPort, ToldIsPresent, TransfersAtPort, ConfigComesFirst

LEMMA BulkCompleteKeepsUsbInv ==
    ASSUME UsbInv, tx \in Seq(Packets), BulkComplete PROVE UsbInv'
<1>1. PICK x \in bulk :
         IF device.present
         THEN device' = [device EXCEPT !.failures = 0] /\ SendNext(Delivered(x.packet))
         ELSE /\ outBusy' = FALSE /\ bulk' = {} /\ port' = Delivered(x.packet)
              /\ UNCHANGED <<device, tx>>
  BY DEF BulkComplete
<1>2. UNCHANGED <<loaded, ctl, attaches>>
  BY DEF BulkComplete
<1>3. UsbTypeOK /\ DeviceAtPort /\ x.packet \in Packets
  BY DEF UsbInv, UsbTypeOK
<1> DEFINE thePort == Delivered(x.packet)
<1>4. /\ thePort \in Ports /\ thePort.phase = port.phase /\ thePort.addr = port.addr
      /\ ~thePort.stuck
  BY <1>3, DeliveredPort DEF UsbInv, StuckIsOpen
<1>5. \A y \in ctl : y.request # "CONFIG"
  BY DEF UsbInv, ConfigComesFirst
<1> HIDE DEF thePort
<1>6. CASE device.present
  <2>1. device' = [device EXCEPT !.failures = 0] /\ SendNext(thePort)
    BY <1>1, <1>6 DEF thePort
  <2>2. 0 \in 0 .. MaxTransferFailures - 1
    BY UsbAssumption DEF UsbAssumption
  <2>3. /\ device' \in Devices /\ device'.present /\ device'.addr = device.addr
        /\ device'.open = device.open /\ device'.told = device.told
    BY <1>3, <1>6, <2>1, <2>2 DEF UsbTypeOK, Devices
  <2>4. /\ outBusy' \in BOOLEAN
        /\ bulk' \subseteq [addr : Addr \cup {NoAddr}, packet : Packets]
        /\ \A y \in bulk' : Enumerated(y.addr)
        /\ port' \in Ports /\ port'.phase = port.phase /\ port'.addr = port.addr
        /\ device.open => (outBusy' <=> bulk' # {} \/ port'.stuck)
        /\ port'.stuck => device.open /\ bulk' = {}
    BY <1>3, <1>4, <1>6, <2>1, SendNextProperties
  <2>5. UsbTypeOK'
    BY <1>2, <2>3, <2>4 DEF UsbInv, UsbTypeOK
  <2>6. \A a : Enumerated(a)' <=> Enumerated(a)
    BY <2>4 DEF Enumerated
  <2>7. BusyMeansInFlight' /\ StuckIsOpen'
    BY <1>3, <1>6, <2>3, <2>4 DEF BusyMeansInFlight, StuckIsOpen, DeviceAtPort, Enumerated
  <2> QED BY <1>2, <1>5, <1>6, <2>3, <2>4, <2>5, <2>6, <2>7
          DEF UsbInv, DeviceAtPort, ToldIsPresent, TransfersAtPort, ConfigComesFirst
<1>7. CASE ~device.present
  <2>1. /\ outBusy' = FALSE /\ bulk' = {} /\ port' = thePort /\ device' = device
        /\ ~port'.stuck
    BY <1>1, <1>4, <1>7 DEF thePort
  <2>2. UsbTypeOK'
    BY <1>2, <1>4, <2>1 DEF UsbInv, UsbTypeOK
  <2>3. \A a : Enumerated(a)' <=> Enumerated(a)
    BY <1>4, <2>1 DEF Enumerated
  <2> QED BY <1>2, <1>5, <1>7, <2>1, <2>2, <2>3
          DEF UsbInv, BusyMeansInFlight, StuckIsOpen, DeviceAtPort, ToldIsPresent, TransfersAtPort,
              ConfigComesFirst
<1> QED BY <1>6, <1>7

LEMMA BulkFailedKeepsUsbInv == ASSUME UsbInv, BulkFailed PROVE UsbInv'
<1>1. /\ bulk # {} /\ bulk' = {} /\ outBusy' = FALSE
      /\ port' = [port EXCEPT !.missed = TRUE]
      /\ UNCHANGED <<loaded, ctl, attaches>>
  BY DEF BulkFailed
<1>2. \A y \in ctl : y.request # "CONFIG"
  BY <1>1 DEF UsbInv, ConfigComesFirst
<1>3. /\ port' \in Ports /\ port'.phase = port.phase /\ port'.addr = port.addr
      /\ ~port'.stuck
  BY <1>1 DEF UsbInv, UsbTypeOK, StuckIsOpen, Ports
<1>4. \A a : Enumerated(a)' <=> Enumerated(a)
  BY <1>3 DEF Enumerated
<1>5. \/ device' = NoDevice
      \/ /\ device' \in Devices /\ device'.present = device.present
         /\ device'.addr = device.addr /\ device'.told = device.told
  <2>1. CASE device.present /\ device.failures + 1 >= MaxTransferFailures
    BY <2>1 DEF BulkFailed
  <2>2. CASE device.present /\ ~(device.failures + 1 >= MaxTransferFailures)
    <3>1. device' = [device EXCEPT !.failures = device.failures + 1]
      BY <2>2 DEF BulkFailed
    <3>2. device.failures + 1 \in 0 .. MaxTransferFailures - 1
      BY <2>2, UsbAssumption DEF UsbInv, UsbTypeOK, Devices, UsbAssumption
    <3> QED BY <3>1, <3>2 DEF UsbInv, UsbTypeOK, Devices
  <2>3. CASE ~device.present
    <3>1. device' = [device EXCEPT !.failures = device.failures]
      BY <2>3 DEF BulkFailed
    <3> QED BY <3>1 DEF UsbInv, UsbTypeOK, Devices
  <2> QED BY <2>1, <2>2, <2>3
<1>6. UsbTypeOK'
  BY <1>1, <1>3, <1>5, EmptyRecords DEF UsbInv, UsbTypeOK
<1> QED BY <1>1, <1>2, <1>4, <1>5, <1>6, EmptyRecords
        DEF UsbInv, BusyMeansInFlight, StuckIsOpen, DeviceAtPort, ToldIsPresent, TransfersAtPort,
            ConfigComesFirst

-----------------------------------------------------------------------------
LEMMA InitUsbInv == UsbInit => UsbInv
<1> SUFFICES ASSUME UsbInit PROVE UsbInv
  OBVIOUS
<1>1. UsbTypeOK
  <2>1. 0 \in 0 .. MaxAttach
    BY UsbAssumption DEF UsbAssumption
  <2> QED BY <2>1, EmptyRecords DEF UsbInit, UsbTypeOK
<1> QED BY <1>1, EmptyRecords
        DEF UsbInit, UsbInv, BusyMeansInFlight, StuckIsOpen, DeviceAtPort, ToldIsPresent, TransfersAtPort,
            ConfigComesFirst

(* The invariant is kept as long as what waits in the packet queue is packets. *)
LEMMA UsbInvInductive ==
    ASSUME UsbInv, tx \in Seq(Packets), [UsbNext]_usbOnly PROVE UsbInv'
<1>1. CASE UsbTask
  BY <1>1, MountCbKeepsUsbInv, UmountCbKeepsUsbInv, ConfigCompleteKeepsUsbInv,
     ConfigFailedKeepsUsbInv, ControlCompleteKeepsUsbInv, BulkCompleteKeepsUsbInv,
     BulkFailedKeepsUsbInv, PumpKeepsUsbInv
     DEF UsbTask, ControlDone, BulkDone
<1>2. CASE User
  BY <1>2, AttachKeepsUsbInv, DetachKeepsUsbInv DEF User
<1> QED BY <1>1, <1>2, ControlLoadKeepsUsbInv, ControlSubmitKeepsUsbInv, NothingChanges
        DEF UsbNext

(* What usb_host.cpp says of handheld_device and of its busy flag follows.   *)
LEMMA UsbInvMeans == UsbInv => UsbTypeOK /\ BusyMeansInFlight /\ ConfigHasDevice
BY DEF UsbInv, ConfigHasDevice, ConfigComesFirst, TransfersAtPort, DeviceAtPort, Enumerated
=============================================================================
