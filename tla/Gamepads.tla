------------------------------ MODULE Gamepads ------------------------------
(***************************************************************************)
(* The gamepad drivers: XInput (src/src/usb_host/xinput.cpp), USB HID      *)
(* (hid.cpp) and Bluetooth (src/src/bluetooth/bluetooth.cpp).  Each keeps  *)
(* the ids of its gamepads and posts their arrival, data and departure to  *)
(* the engine.  Every handler allocates at most one id and posts at most   *)
(* one message, and ids are only ever compared, so each is one step.       *)
(***************************************************************************)
EXTENDS EngineQueue, FiniteSets

CONSTANTS XinputDevs,   \* XInput instances that may be plugged in
          HidDevs,      \* HID instances that may be plugged in
          BtDevs,       \* entries of the Bluetooth stack's device table
          XinputSlots,  \* CFG_TUH_XINPUT (1 in the code)
          HidSlots,     \* CFG_TUH_HID (1 in the code)
          MaxId         \* bound: ids allocated

ASSUME GamepadAssumption ==
    /\ MaxId \in Nat /\ 0 .. MaxId \subseteq GamepadId
    /\ XinputSlots \in Nat /\ HidSlots \in Nat
    /\ XinputDevs \cap HidDevs = {}

VARIABLES nextId,  \* NEXT_ID
          plugged, \* USB instances the host stack has mounted
          xinput,  \* xinput.cpp's gamepads: instance and id of each slot in use
          hid,     \* hid.cpp's gamepads
          bt       \* per Bluetooth device: connected?, ready?, platform_data id

gamepadVars == <<nextId, plugged, xinput, hid, bt>>

-----------------------------------------------------------------------------
NoPad == [connected |-> FALSE, ready |-> FALSE, id |-> 0]

GamepadInit ==
    /\ nextId = 1
    /\ plugged = {} /\ xinput = {} /\ hid = {}
    /\ bt = [d \in BtDevs |-> NoPad]

(* Mutant: the counter is read and not advanced. *)
AllocateAgain == nextId <= MaxId /\ UNCHANGED nextId

(* GamepadId::allocate *)
Allocate == nextId <= MaxId /\ nextId' = nextId + 1

(* tuh_xinput_mount_cb: the id is taken before a slot is looked for.  A      *)
(* wireless receiver with no gamepad yet is mounted without either, and as   *)
(* good as unplugged and mounted again when one joins.                       *)
XinputMountCb(d) ==
    /\ d \notin plugged /\ plugged' = plugged \cup {d}
    /\ \/ UNCHANGED <<nextId, xinput, queue, lost>>
       \/ /\ Allocate
          /\ IF Cardinality(xinput) < XinputSlots
             THEN /\ xinput' = xinput \cup {[dev |-> d, id |-> nextId]}
                  /\ Send(Connected(nextId, TRUE))
             ELSE UNCHANGED <<xinput, queue, lost>>
    /\ UNCHANGED <<hid, bt>>

(* tuh_hid_mount_cb: without a slot nothing else is done. *)
HidMountCb(d) ==
    /\ d \notin plugged /\ plugged' = plugged \cup {d}
    /\ IF Cardinality(hid) < HidSlots
       THEN /\ Allocate
            /\ hid' = hid \cup {[dev |-> d, id |-> nextId]}
            /\ Send(Connected(nextId, TRUE))
       ELSE UNCHANGED <<nextId, hid, queue, lost>>
    /\ UNCHANGED <<xinput, bt>>

(* The unmount callback of either driver: the slot of the instance is freed. *)
Freed(slots, d) == {s \in slots : s.dev # d}
Report(slots, d) ==
    IF \E s \in slots : s.dev = d
    THEN \E s \in slots : s.dev = d /\ Send(Disconnected(s.id))
    ELSE UNCHANGED <<queue, lost>>

(* Mutant: the slot is freed before its gamepad is reported. *)
XinputUmountCbFreesFirst(d) ==
    /\ d \in plugged /\ plugged' = plugged \ {d}
    /\ xinput' = Freed(xinput, d)
    /\ Report(xinput', d)
    /\ UNCHANGED <<nextId, hid, bt>>

XinputUmountCb(d) ==
    /\ d \in plugged /\ plugged' = plugged \ {d}
    /\ Report(xinput, d)
    /\ xinput' = Freed(xinput, d)
    /\ UNCHANGED <<nextId, hid, bt>>

HidUmountCb(d) ==
    /\ d \in plugged /\ plugged' = plugged \ {d}
    /\ Report(hid, d)
    /\ hid' = Freed(hid, d)
    /\ UNCHANGED <<nextId, xinput, bt>>

(* tuh_xinput_report_received_cb, for an instance with new data.  The HID    *)
(* driver in use drops every report.                                         *)
XinputReport(d) ==
    /\ \E s \in xinput : s.dev = d /\ Send(Data(s.id))
    /\ UNCHANGED gamepadVars

(* platform_on_device_connected: a gamepad in the Bluetooth device table,    *)
(* its platform_data whatever the entry held before.                         *)
BtConnect(d) ==
    /\ ~bt[d].connected
    /\ bt' = [bt EXCEPT ![d].connected = TRUE]
    /\ UNCHANGED <<queue, lost, nextId, plugged, xinput, hid>>

(* platform_on_device_ready *)
BtReady(d) ==
    /\ bt[d].connected /\ ~bt[d].ready
    /\ Allocate
    /\ bt' = [bt EXCEPT ![d].ready = TRUE, ![d].id = nextId]
    /\ Send(Connected(nextId, FALSE))
    /\ UNCHANGED <<plugged, xinput, hid>>

(* platform_on_device_disconnected: ready or not, the id is reported. *)
BtDisconnected(d) ==
    /\ bt[d].connected
    /\ bt' = [bt EXCEPT ![d].connected = FALSE, ![d].ready = FALSE]
    /\ Send(Disconnected(bt[d].id))
    /\ UNCHANGED <<nextId, plugged, xinput, hid>>

(* platform_on_controller_data *)
BtData(d) ==
    /\ bt[d].ready
    /\ Send(Data(bt[d].id))
    /\ UNCHANGED gamepadVars

GamepadNext ==
    \/ \E d \in XinputDevs : XinputMountCb(d) \/ XinputUmountCb(d) \/ XinputReport(d)
    \/ \E d \in HidDevs : HidMountCb(d) \/ HidUmountCb(d)
    \/ \E d \in BtDevs : BtConnect(d) \/ BtReady(d) \/ BtDisconnected(d) \/ BtData(d)
-----------------------------------------------------------------------------
(* The ids of the gamepads the drivers hold. *)
LiveIds == {s.id : s \in xinput \cup hid} \cup {bt[d].id : d \in {e \in BtDevs : bt[e].ready}}

GamepadTypeOK ==
    /\ nextId \in 1 .. MaxId + 1
    /\ plugged \subseteq XinputDevs \cup HidDevs
    /\ xinput \subseteq [dev : XinputDevs, id : GamepadId]
    /\ hid \subseteq [dev : HidDevs, id : GamepadId]
    /\ bt \in [BtDevs -> [connected : BOOLEAN, ready : BOOLEAN, id : GamepadId]]
    /\ Cardinality(xinput) <= XinputSlots /\ Cardinality(hid) <= HidSlots

(* No gamepad is disconnected in another's name: a departure on its way to   *)
(* the engine is never that of a gamepad some driver still holds, though     *)
(* Bluetooth reports an id left over from the table entry's last user.       *)
NoLiveDisconnect ==
    \A i \in DOMAIN queue :
        queue[i].kind = "GamepadDisconnected" => queue[i].id \notin LiveIds
=============================================================================
