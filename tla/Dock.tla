-------------------------------- MODULE Dock --------------------------------
(***************************************************************************)
(* The whole dock: the engine and LED tasks, the USB host task with the    *)
(* handheld and the gamepad drivers, the Bluetooth task and the button,    *)
(* meeting at the engine's queue, the packet queue and the engine's        *)
(* control calls.                                                          *)
(***************************************************************************)
EXTENDS Engine, UsbHandheld, Gamepads

CONSTANT MaxPresses  \* bound: button presses

(* Losing a message about the handheld, or that a gamepad came or went, is   *)
(* recorded.                                                                 *)
ASSUME DockAssumption ==
    /\ MaxPresses \in Nat
    /\ {"HandheldMount", "HandheldUnmount", "HandheldXferComplete",
        "GamepadConnected", "GamepadDisconnected"} \subseteq Tracked

VARIABLES presses,   \* how often the button was pressed
          stale      \* history: was a packet taken for the handheld now at the
                     \* port while the engine had yet to hear what became of it?

engineRest == <<ledVars, engineOnly, todo, hdmi, scanning, btReady>>
dockVars == <<engineVars, usbOnly, gamepadVars, presses, stale>>

-----------------------------------------------------------------------------
DockInit ==
    /\ EngineInit /\ UsbInit /\ GamepadInit
    /\ presses = 0 /\ stale = FALSE

HandheldEventPending == \E i \in DOMAIN queue : queue[i] \in {Mount, Unmount}

(* The USB host task and the port. *)
UsbStep ==
    /\ UsbTask \/ User
    /\ stale' = (port'.phase # "empty" /\ (stale \/ (tx' # tx /\ HandheldEventPending)))
    /\ UNCHANGED <<engineRest, gamepadVars, presses>>

(* The engine task; a control call reads handheld_device, then asks the USB  *)
(* stack for the transfer.                                                   *)
EngineStep ==
    /\ Handle \/ LocalCall
    /\ UNCHANGED <<usbOnly, gamepadVars, presses, stale>>

BeginControl ==
    /\ todo # <<>>
    /\ \E r \in Requests : Head(todo) = Control(r) /\ ControlLoad(r)
    /\ UNCHANGED <<engineRest, gamepadVars, presses, stale>>

EndControl ==
    /\ DoControl /\ ControlSubmit
    /\ UNCHANGED <<gamepadVars, presses, stale>>

LedStep == LedTask /\ UNCHANGED <<usbOnly, gamepadVars, presses, stale>>

(* The gamepad callbacks of the USB host and Bluetooth tasks. *)
GamepadStep ==
    /\ GamepadNext
    /\ UNCHANGED <<tx, engineRest, usbOnly, presses, stale>>

BluetoothStart == BtInitComplete /\ UNCHANGED <<usbOnly, gamepadVars, presses, stale>>

(* The debounced button (gpio.rs) reports a press. *)
PressButton ==
    /\ presses < MaxPresses /\ presses' = presses + 1
    /\ Send(ShortPress) \/ Send(LongPress)
    /\ UNCHANGED <<tx, engineRest, usbOnly, gamepadVars, stale>>

DockNext ==
    \/ UsbStep \/ EngineStep \/ BeginControl \/ EndControl \/ LedStep
    \/ GamepadStep \/ BluetoothStart \/ PressButton

(* Every task keeps running, and the USB stack calls back for each mount,    *)
(* removal and transfer; nobody has to plug, unplug or press anything.       *)
DockSpec ==
    /\ DockInit /\ [][DockNext]_dockVars
    /\ WF_dockVars(EngineStep) /\ WF_dockVars(BeginControl) /\ WF_dockVars(EndControl)
    /\ WF_dockVars(LedStep)
    /\ WF_dockVars(UsbStep /\ MountCb) /\ WF_dockVars(UsbStep /\ UmountCb)
    /\ WF_dockVars(UsbStep /\ ControlDone) /\ WF_dockVars(UsbStep /\ BulkDone)
    /\ WF_dockVars(UsbStep /\ Pump)
-----------------------------------------------------------------------------
DockTypeOK ==
    /\ EngineTypeOK /\ UsbTypeOK /\ GamepadTypeOK
    /\ presses \in 0 .. MaxPresses /\ stale \in BOOLEAN

(* Something starts on or off, and the messages `on' and `off' in a queue    *)
(* switch it: is it on once they have all been read?                         *)
EndsOn(q, on, off, start) ==
    \/ start /\ \A i \in 1 .. Len(q) : q[i] \notin on \cup off
    \/ \E i \in 1 .. Len(q) :
          q[i] \in on /\ \A j \in 1 .. Len(q) : j > i => q[j] \notin on \cup off

(* Will the engine have a handheld once it has read its queue? *)
WillHaveHandheld == EndsOn(queue, {Mount}, {Unmount}, handheld # "None")

(* Unless a Mount or Unmount was dropped, what the engine has been told      *)
(* agrees with what the USB side has: no order of plugging, unplugging,      *)
(* failed transfers and giving up leaves one with a handheld the other does  *)
(* not know.                                                                 *)
EngineWillKnow ==
    lost \cap {"HandheldMount", "HandheldUnmount"} = {} =>
        WillHaveHandheld = device.told

(* "Unexpected handheld mount" is logged only if an Unmount was dropped. *)
MountUnexpected == todo = <<>> /\ queue # <<>> /\ Head(queue) = Mount /\ handheld # "None"
UnexpectedMountAfterLoss == MountUnexpected => "HandheldUnmount" \in lost

(* ... and, as the error level of that log says, never.                      *)
NoUnexpectedMount == ~MountUnexpected

(* The picture goes to a handheld that agreed to it: the engine is Active    *)
(* only for a handheld that accepted DOCK_BEGIN, never on the word of one    *)
(* that was there before it.                                                 *)
ActiveMeansDocked ==
    handheld = "Active" /\ ~HandheldEventPending /\ lost = {} => port.docked

(* An engine that waits for an answer has one coming: the transfer is in     *)
(* flight, or its completion in the queue.                                   *)
Awaited == CASE handheld = "WaitForGetInfo"   -> {"GET_INFO"}
             [] handheld = "WaitForDockBegin" -> {"DOCK_BEGIN"}
             [] OTHER                         -> {}
AnswerComing ==
    todo = <<>> /\ lost = {} /\ ~HandheldEventPending =>
        \A r \in Awaited :
            \/ \E x \in ctl : x.request = r
            \/ \E i \in DOMAIN queue : queue[i].kind = "HandheldXferComplete"
                                       /\ queue[i].request = r

(* With every message read and none lost, the engine's list of gamepads is   *)
(* the drivers'.                                                             *)
GamepadListAgrees == queue = <<>> /\ lost = {} => gamepads = LiveIds

(* With nothing on its way and nothing lost, a docked handheld has been told *)
(* of exactly the gamepads there are.                                        *)
Settled ==
    /\ queue = <<>> /\ todo = <<>> /\ tx = <<>> /\ bulk = {}
    /\ lost = {} /\ ~port.missed /\ ~stale
HandheldKnowsGamepads ==
    Settled /\ handheld = "Active" /\ device.present => port.view = LiveIds

(* UsbHandheldControlOut / In: "(if connected)". *)
ControlIfConnected ==
    [][loaded' # loaded /\ loaded' # {} => device.present]_dockVars

(* A handheld that stays plugged in is docked, unless a message is lost.     *)
DockingCompletes ==
    port.phase = "mounted" ~> handheld = "Active" \/ port.phase # "mounted" \/ lost # {}
=============================================================================
