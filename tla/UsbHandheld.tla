----------------------------- MODULE UsbHandheld -----------------------------
(***************************************************************************)
(* The USB host side of the handheld (src/src/usb_host/usb_host.cpp): it   *)
(* finds the device on the dock's port, tells the engine when it comes and *)
(* goes, makes the engine's control transfers and sends it the packets of  *)
(* the packet queue.                                                       *)
(*                                                                         *)
(* The callbacks run one at a time in the USB host task, which is pinned   *)
(* to its own core.  The control calls run in the engine task, on any      *)
(* core: they read handheld_device without a lock, so reading it and       *)
(* starting the transfer are two steps (ControlLoad, ControlSubmit).       *)
(*                                                                         *)
(* The USB stack and the port are outside the repository.  They are        *)
(* modelled as usb_host.cpp uses them: one control transfer at a time for  *)
(* the whole bus, a completion callback for every transfer that starts     *)
(* unless its device is removed first, an unmount callback for every       *)
(* mounted device that is removed.                                         *)
(***************************************************************************)
EXTENDS EngineQueue, PacketQueue

CONSTANTS Addr,                 \* addresses the stack gives to handhelds
          NoAddr,               \* 0xFF: an address no device has
          MaxTransferFailures,  \* kMaxTransferFailures (3 in the code)
          MaxAttach,            \* bound: times a handheld is plugged in
          Contention,           \* may another device hold the control pipe?
          Faults                \* may transfers to an attached device fail?

ASSUME UsbAssumption ==
    /\ NoAddr \notin Addr
    /\ MaxTransferFailures \in Nat \ {0}
    /\ MaxAttach \in Nat
    /\ Contention \in BOOLEAN /\ Faults \in BOOLEAN

VARIABLES
    device,   \* handheld_device: present or not, its address, whether its bulk
              \* endpoint is open, its failures in a row, and (history) whether
              \* the engine has been sent the Mount
    outBusy,  \* handheldOutPacketBusy
    loaded,   \* the engine's control call between its two steps, if any
    ctl,      \* the control transfer in flight, if any
    bulk,     \* the packet in flight, if any
    port,     \* the handheld itself, as far as the dock's port shows it
    attaches  \* how often one was plugged in

usbOnly == <<device, outBusy, loaded, ctl, bulk, port, attaches>>

-----------------------------------------------------------------------------
NoDevice ==
    [present |-> FALSE, addr |-> NoAddr, open |-> FALSE, failures |-> 0, told |-> FALSE]
(* Mutant: the address is not recorded. *)
NewDeviceNoAddr(a) == [NoDevice EXCEPT !.present = TRUE]

NewDevice(a) == [NoDevice EXCEPT !.present = TRUE, !.addr = a]

(* The handheld at the port: whether it accepted DOCK_BEGIN, `view', the     *)
(* gamepads it knows of from the packets it received, and (history) whether  *)
(* a packet for it was lost, and whether one got stuck: its transfer did not *)
(* start although the endpoint was open.                                     *)
EmptyPort ==
    [phase |-> "empty", addr |-> NoAddr, docked |-> FALSE, view |-> {}, missed |-> FALSE,
     stuck |-> FALSE]

UsbInit ==
    /\ device = NoDevice /\ outBusy = FALSE
    /\ loaded = {} /\ ctl = {} /\ bulk = {}
    /\ port = EmptyPort /\ attaches = 0

(* Does the stack know a device by this address? *)
Enumerated(a) == port.phase \in {"mounted", "removed"} /\ port.addr = a

(* Starting a control transfer succeeds if the device is there and the pipe  *)
(* is free.                                                                  *)
MayStart(a) == Enumerated(a) /\ ctl = {}
MayRefuse(a) == ~MayStart(a) \/ Contention

-----------------------------------------------------------------------------
(* The port. *)
Attach(a) ==
    /\ attaches < MaxAttach /\ attaches' = attaches + 1
    /\ port.phase = "empty"
    /\ port' = [EmptyPort EXCEPT !.phase = "enumerating", !.addr = a]
    /\ UNCHANGED <<queue, lost, tx, device, outBusy, loaded, ctl, bulk>>

Detach ==
    /\ \/ port.phase = "enumerating" /\ port' = EmptyPort
       \/ port.phase = "mounted" /\ port' = [port EXCEPT !.phase = "removed"]
    /\ UNCHANGED <<queue, lost, tx, device, outBusy, loaded, ctl, bulk, attaches>>

(* What a packet delivered to the handheld does to its view. *)
Delivered(p) ==
    [port EXCEPT
        !.view = CASE p.request = "CONNECT"    -> @ \cup {p.id}
                   [] p.request = "DISCONNECT" -> @ \ {p.id}
                   [] OTHER                    -> @]

-----------------------------------------------------------------------------
(* Mounting and unmounting. *)

(* tuh_mount_cb: that asking for the configuration failed goes unnoticed. *)
MountCb ==
    /\ port.phase = "enumerating"
    /\ port' = [port EXCEPT !.phase = "mounted"]
    /\ device' = NewDevice(port.addr)
    /\ \/ ctl = {} /\ ctl' = {[addr |-> port.addr, request |-> "CONFIG"]}
       \/ (ctl # {} \/ Contention) /\ UNCHANGED ctl
    /\ UNCHANGED <<queue, lost, tx, outBusy, loaded, bulk, attaches>>

(* Mutant: the engine is not told. *)
UmountCbSilent ==
    /\ port.phase = "removed"
    /\ port' = EmptyPort
    /\ ctl' = {x \in ctl : x.addr # port.addr}
    /\ bulk' = {x \in bulk : x.addr # port.addr}
    /\ device' = IF device.present /\ device.addr = port.addr THEN NoDevice ELSE device
    /\ UNCHANGED <<queue, lost, tx, outBusy, loaded, attaches>>

(* Mutant: the packets are dropped here, in the USB task, as well. *)
UmountCbResetsTx ==
    /\ port.phase = "removed"
    /\ port' = EmptyPort
    /\ ctl' = {x \in ctl : x.addr # port.addr}
    /\ bulk' = {x \in bulk : x.addr # port.addr}
    /\ IF device.present /\ device.addr = port.addr
       THEN device' = NoDevice /\ Send(Unmount) /\ Reset
       ELSE UNCHANGED <<device, queue, lost, tx>>
    /\ UNCHANGED <<outBusy, loaded, attaches>>

(* tuh_umount_cb.  The stack has dropped the device's transfers, without a   *)
(* callback.                                                                 *)
UmountCb ==
    /\ port.phase = "removed"
    /\ port' = EmptyPort
    /\ ctl' = {x \in ctl : x.addr # port.addr}
    /\ bulk' = {x \in bulk : x.addr # port.addr}
    /\ IF device.present /\ device.addr = port.addr
       THEN device' = NoDevice /\ Send(Unmount)
       ELSE UNCHANGED <<device, queue, lost>>
    /\ UNCHANGED <<tx, outBusy, loaded, attaches>>

(* Mutant: the busy flag is left as the last handheld left it. *)
ConfigCompleteKeepsBusy ==
    /\ \E x \in ctl : x.request = "CONFIG" /\ port.phase = "mounted"
    /\ ctl' = {}
    /\ IF device.present
       THEN /\ \E open \in BOOLEAN :
                  device' = [device EXCEPT !.open = open, !.told = TRUE]
            /\ Send(Mount)
       ELSE UNCHANGED <<device, queue, lost>>
    /\ UNCHANGED <<tx, outBusy, loaded, bulk, port, attaches>>

(* config_descriptor_xfer_complete_cb: the descriptor has the vendor         *)
(* interface with its endpoints or it has not; the engine is told either way.*)
ConfigComplete ==
    /\ \E x \in ctl : x.request = "CONFIG" /\ port.phase = "mounted"
    /\ ctl' = {}
    /\ IF device.present
       THEN /\ \E open \in BOOLEAN :
                  device' = [device EXCEPT !.open = open, !.told = TRUE]
            /\ outBusy' = FALSE
            /\ Send(Mount)
       ELSE UNCHANGED <<device, outBusy, queue, lost>>
    /\ UNCHANGED <<tx, loaded, bulk, port, attaches>>

ConfigFailed ==
    /\ \E x \in ctl : x.request = "CONFIG"
    /\ port.phase = "mounted" => Faults
    /\ ctl' = {}
    /\ UNCHANGED <<queue, lost, tx, device, outBusy, loaded, bulk, port, attaches>>

-----------------------------------------------------------------------------
(* Control transfers. *)

(* UsbHandheldControlIn / Out read handheld_device, present or not: of an    *)
(* absent one any address may come out.                                      *)
ControlLoad(r) ==
    /\ loaded = {}
    /\ \E a \in IF device.present THEN {device.addr} ELSE Addr \cup {NoAddr} :
          loaded' = {[addr |-> a, request |-> r]}
    /\ UNCHANGED <<queue, lost, tx, device, outBusy, ctl, bulk, port, attaches>>

(* The transfer starts, or it is refused: the engine is told so of an OUT    *)
(* transfer, of an IN transfer nobody is.                                    *)
ControlSubmit ==
    /\ \E x \in loaded :
          \/ MayStart(x.addr) /\ ctl' = {x} /\ UNCHANGED <<queue, lost>>
          \/ /\ MayRefuse(x.addr) /\ UNCHANGED ctl
             /\ IF x.request = "DOCK_BEGIN"
                THEN Send(XferComplete(x.request, "failed"))
                ELSE UNCHANGED <<queue, lost>>
    /\ loaded' = {}
    /\ UNCHANGED <<tx, device, outBusy, bulk, port, attaches>>

(* control_xfer_complete_cb. *)
ControlComplete(outcome) ==
    /\ \E x \in ctl :
          /\ x.request \in Requests
          /\ IF outcome = "failed" THEN port.phase = "mounted" => Faults
             ELSE port.phase = "mounted" /\ (outcome = "short" => Faults)
          /\ port' = [port EXCEPT
                        !.docked = @ \/ (x.request = "DOCK_BEGIN" /\ outcome # "failed")]
          /\ Send(XferComplete(x.request, outcome))
    /\ ctl' = {}
    /\ UNCHANGED <<tx, device, outBusy, loaded, bulk, attaches>>

-----------------------------------------------------------------------------
(* Packets. *)

(* The rest of pump_handheld_packet_queue once it has passed its test.  That *)
(* the transfer did not start - the endpoint is not open, the device gone,   *)
(* or the stack refuses - goes unnoticed: the packet is lost and the flag    *)
(* stays set.                                                                *)
SendNext(thePort) ==
    IF tx = <<>>
    THEN outBusy' = FALSE /\ bulk' = {} /\ port' = thePort /\ UNCHANGED tx
    ELSE /\ outBusy' = TRUE
         /\ PopFront(Head(tx))
         /\ \/ /\ device.open /\ Enumerated(device.addr)
               /\ bulk' = {[addr |-> device.addr, packet |-> Head(tx)]}
               /\ port' = thePort
            \/ /\ device.open /\ Enumerated(device.addr) => Faults
               /\ bulk' = {}
               /\ port' = [thePort EXCEPT !.missed = TRUE, !.stuck = device.open]

(* The task's own loop pumps the queue. *)
Pump ==
    /\ ~outBusy /\ device.present /\ tx # <<>>
    /\ SendNext(port)
    /\ UNCHANGED <<queue, lost, device, loaded, ctl, attaches>>

(* bulk_out_xfer_complete_cb, on success: the next packet goes out at once. *)
BulkComplete ==
    /\ port.phase = "mounted"
    /\ \E x \in bulk :
          IF device.present
          THEN /\ device' = [device EXCEPT !.failures = 0]
               /\ SendNext(Delivered(x.packet))
          ELSE /\ outBusy' = FALSE /\ bulk' = {} /\ port' = Delivered(x.packet)
               /\ UNCHANGED <<device, tx>>
    /\ UNCHANGED <<queue, lost, loaded, ctl, attaches>>

(* What BulkFailed's mutants share: the handheld is given up after `limit'   *)
(* failures, the engine told so or not.                                      *)
GiveUpAfter(limit, tell) ==
    /\ bulk # {} /\ bulk' = {}
    /\ port.phase = "mounted" => Faults
    /\ outBusy' = FALSE
    /\ port' = [port EXCEPT !.missed = TRUE]
    /\ IF device.present /\ device.failures + 1 >= limit
       THEN device' = NoDevice /\ IF tell THEN Send(Unmount) ELSE UNCHANGED <<queue, lost>>
       ELSE /\ device' = [device EXCEPT !.failures = IF device.present THEN @ + 1 ELSE @]
            /\ UNCHANGED <<queue, lost>>
    /\ UNCHANGED <<tx, loaded, ctl, attaches>>

(* Mutants: one failure too many; the engine is not told. *)
BulkFailedTooLate == GiveUpAfter(MaxTransferFailures + 1, TRUE)
BulkFailedSilent == GiveUpAfter(MaxTransferFailures, FALSE)

(* ... and on failure: after too many in a row the handheld is given up,     *)
(* though it is still plugged in.                                            *)
BulkFailed ==
    /\ bulk # {} /\ bulk' = {}
    /\ port.phase = "mounted" => Faults
    /\ outBusy' = FALSE
    /\ port' = [port EXCEPT !.missed = TRUE]
    /\ IF device.present /\ device.failures + 1 >= MaxTransferFailures
       THEN device' = NoDevice /\ Send(Unmount)
       ELSE /\ device' = [device EXCEPT !.failures = IF device.present THEN @ + 1 ELSE @]
            /\ UNCHANGED <<queue, lost>>
    /\ UNCHANGED <<tx, loaded, ctl, attaches>>

-----------------------------------------------------------------------------
(* The stack finishes what was started, and the task runs its loop. *)
ControlDone == ConfigComplete \/ ConfigFailed \/ \E o \in Outcomes : ControlComplete(o)
BulkDone == BulkComplete \/ BulkFailed

UsbTask == MountCb \/ UmountCb \/ ControlDone \/ BulkDone \/ Pump

User == Detach \/ \E a \in Addr : Attach(a)
-----------------------------------------------------------------------------
Transfers(what) == [addr : Addr \cup {NoAddr}, request : what]
Devices == [present : BOOLEAN, addr : Addr \cup {NoAddr}, open : BOOLEAN,
            failures : 0 .. MaxTransferFailures - 1, told : BOOLEAN]
Ports == [phase : {"empty", "enumerating", "mounted", "removed"}, addr : Addr \cup {NoAddr},
          docked : BOOLEAN, view : SUBSET GamepadId, missed : BOOLEAN, stuck : BOOLEAN]

UsbTypeOK ==
    /\ device \in Devices
    /\ outBusy \in BOOLEAN
    /\ loaded \subseteq Transfers(Requests)
    /\ ctl \subseteq Transfers(Requests \cup {"CONFIG"})
    /\ bulk \subseteq [addr : Addr \cup {NoAddr}, packet : Packets]
    /\ port \in Ports
    /\ attaches \in 0 .. MaxAttach

(* Once the handheld's endpoint is open, the busy flag stands for a packet   *)
(* in flight, or for one the stack refused of this very handheld             *)
(* (usb_host.cpp:375): a transfer dropped with its device, refused of the    *)
(* handheld before, or asked for before the endpoint was open, does not      *)
(* block its packets.                                                        *)
BusyMeansInFlight ==
    device.present /\ device.open => (outBusy <=> bulk # {} \/ port.stuck)

(* What config_descriptor_xfer_complete_cb says should not happen does not:  *)
(* the device is still known when its configuration arrives.                 *)
ConfigHasDevice ==
    \A x \in ctl : x.request = "CONFIG" => device.present /\ device.addr = x.addr
=============================================================================
