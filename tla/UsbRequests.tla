----------------------------- MODULE UsbRequests -----------------------------
(***************************************************************************)
(* The requests a host makes of the dock's own USB device: its information *)
(* and a reboot (src/src/usb_device/usb_device.cpp).  A reboot into the    *)
(* boot loader first posts the Dfu state to the LED task's queue, where    *)
(* the USB device task waits while the queue is full; the boot ROM resets  *)
(* the chip after a delay.  The other clients of the LED come and go.      *)
(***************************************************************************)
EXTENDS LedController

CONSTANTS Delay,       \* delay_ms of rom_reboot, in units of time
          MaxRequests  \* bound: requests made

ASSUME RequestAssumption == {Delay, MaxRequests} \subseteq Nat

VARIABLES serving,   \* what the USB device task is busy with
          boot,      \* the reboot the ROM has been told of
          timer,     \* time until it happens
          requests,  \* history: requests made
          handled    \* history: has the LED task received a message in this unit?

requestOnly == <<serving, boot, timer, requests>>
requestVars == <<ledVars, requestOnly, handled>>

Others == LedStates \ {"Dfu"}
Running == boot # "done"

(* A control request to the vendor interface, as far as it is looked at. *)
Setups == [recipient : {"interface", "other"}, index : {2, 0},
           request : {"GetInfo", "Reboot", "other"}, in : BOOLEAN, value : {1, 2, 0}]

(* tud_vendor_control_xfer_cb, at the setup stage *)
Verdict(r) ==
    IF r.recipient # "interface" \/ r.index # 2 THEN "stall"
    ELSE CASE r.request = "GetInfo" /\ r.in -> "info"
           [] r.request = "Reboot" /\ ~r.in /\ r.value = 1 -> "normal"
           [] r.request = "Reboot" /\ ~r.in /\ r.value = 2 -> "bootsel"
           [] OTHER -> "stall"

RequestInit ==
    /\ LedInit
    /\ serving = "nothing" /\ boot = "none" /\ timer = 0 /\ requests = 0 /\ handled = FALSE

(* Mutant: at once. *)
RomRebootAtOnce(kind) == boot' = kind /\ timer' = 0

(* rom_reboot: the last call counts. *)
RomReboot(kind) == boot' = kind /\ timer' = Delay

(* A setup packet: all but the way into the boot loader is done at once. *)
Setup(r) ==
    /\ Running /\ serving = "nothing" /\ requests < MaxRequests
    /\ requests' = requests + 1
    /\ \/ Verdict(r) = "normal" /\ RomReboot("normal") /\ UNCHANGED serving
       \/ Verdict(r) = "bootsel" /\ serving' = "bootsel" /\ UNCHANGED <<boot, timer>>
       \/ Verdict(r) \in {"info", "stall"} /\ UNCHANGED <<serving, boot, timer>>
    /\ UNCHANGED <<ledVars, handled>>

(* tud_cdc_line_coding_cb: "Magic baud rate to enter BOOTSEL mode". *)
MagicBaudRate ==
    /\ Running /\ serving = "nothing" /\ requests < MaxRequests
    /\ requests' = requests + 1
    /\ serving' = "bootsel"
    /\ UNCHANGED <<ledVars, handled, boot, timer>>

(* rust_led_set_dfu blocks until its message is in the queue; then the ROM *)
(* is told.                                                                *)
SetDfuAndReboot ==
    /\ Running /\ serving = "bootsel"
    /\ LedSend("Dfu", TRUE)
    /\ RomReboot("bootsel")
    /\ serving' = "nothing"
    /\ UNCHANGED <<requests, handled>>

(* The unit of time is what the LED task needs at most for a message.      *)
Tick ==
    /\ Running /\ timer > 0 /\ timer' = timer - 1
    /\ handled \/ ledQueue = <<>>
    /\ handled' = FALSE
    /\ UNCHANGED <<ledVars, serving, boot, requests>>

(* The chip resets, and with it all of this ends. *)
Reset ==
    /\ boot \in {"normal", "bootsel"} /\ timer = 0
    /\ boot' = "done"
    /\ UNCHANGED <<ledVars, handled, serving, timer, requests>>

LedTask ==
    /\ Running
    /\ \/ HandleLedMessage /\ handled' = TRUE
       \/ BlinkTimeout /\ UNCHANGED handled
    /\ UNCHANGED requestOnly
OtherClient ==
    /\ Running
    /\ \E s \in Others :
        \/ counts[s] < MaxCount /\ LedSend(s, TRUE)
        \/ LedSend(s, FALSE)
    /\ UNCHANGED <<requestOnly, handled>>

RequestNext ==
    \/ \E r \in Setups : Setup(r)
    \/ MagicBaudRate \/ SetDfuAndReboot \/ Tick \/ Reset
    \/ LedTask \/ OtherClient

(* The USB device task has the highest priority of those that post: room in *)
(* the queue is its own again and again, whoever else waits for it.         *)
RequestSpec ==
    /\ RequestInit /\ [][RequestNext]_requestVars
    /\ SF_requestVars(SetDfuAndReboot)
    /\ WF_requestVars(LedTask /\ HandleLedMessage)
    /\ WF_requestVars(Tick \/ Reset)
-----------------------------------------------------------------------------
(* The delay is long enough: when the chip goes into the boot loader the    *)
(* LED shows it, if the LED task handles a message in the time a reboot     *)
(* leaves for each place in its queue (usb_device.cpp:146, 181).            *)
DfuShownAtReset ==
    [][boot = "bootsel" /\ boot' = "done" => lit = "Dfu"]_requestVars

(* The wait for room in the LED queue ends and the chip does reset, though  *)
(* others keep filling it (usb_device.cpp:180).                             *)
BootselHappens == serving = "bootsel" ~> boot = "done"
=============================================================================
