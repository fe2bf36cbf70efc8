------------------------------ MODULE PadData ------------------------------
(***************************************************************************)
(* What a gamepad's report becomes on its way to Rust: the conversions of  *)
(* XInput (src/src/usb_host/xinput.cpp) and of Bluepad32                   *)
(* (src/src/bluetooth/bluetooth.cpp) into one GamepadData                  *)
(* (src/include/rust_api.h, src/rust/src/gamepad.rs).  Words of buttons    *)
(* are sets of bit positions; sticks and triggers have their full width.   *)
(***************************************************************************)
EXTENDS Integers

CONSTANT Hands  \* what the player may do: [held, left, right]

INT16_MIN == -32768
INT16_MAX == 32767

VARIABLES hand,   \* what the player does, one of Hands
          overUsb, overBt  \* the data of each driver, once it has reported

padVars == <<hand, overUsb, overBt>>

(* gamepad.rs, mod buttons *)
Bit == [A |-> 0, B |-> 1, X |-> 2, Y |-> 3,
        UP |-> 4, DOWN |-> 5, RIGHT |-> 6, LEFT |-> 7,
        SYSTEM |-> 8, SELECT |-> 9, START |-> 10, CAPTURE |-> 11,
        L1 |-> 12, R1 |-> 13, L2 |-> 14, R2 |-> 15, L3 |-> 16, R3 |-> 17]
Digital == DOMAIN Bit \ {"L2", "R2"}

(* A side of the pad: its stick, right and up positive, and its trigger.   *)
Sides == [x : INT16_MIN .. INT16_MAX, y : INT16_MIN .. INT16_MAX, pull : 0 .. 1023]

ASSUME PadAssumption ==
    Hands \subseteq [held : SUBSET DOMAIN Bit, left : Sides, right : Sides]

Shifted(bits, n) == {b + n : b \in bits}
Int16(n) == ((n + 32768) % 65536) - 32768
Uint16(n) == n % 65536

-----------------------------------------------------------------------------
(* What the drivers are given.  XInput has eight bits for a trigger and no  *)
(* button for it.                                                           *)
BitsOf(names, bit) == {bit[b] : b \in names \cap DOMAIN bit}
XinputBit == [UP |-> 0, DOWN |-> 1, LEFT |-> 2, RIGHT |-> 3, START |-> 4, SELECT |-> 5,
              L3 |-> 6, R3 |-> 7, L1 |-> 8, R1 |-> 9, SYSTEM |-> 10, CAPTURE |-> 11,
              A |-> 12, B |-> 13, X |-> 14, Y |-> 15]
XinputPad(h) ==
    [wButtons |-> BitsOf(h.held, XinputBit),
     sThumbLX |-> h.left.x, sThumbLY |-> h.left.y, bLeftTrigger |-> h.left.pull \div 4,
     sThumbRX |-> h.right.x, sThumbRY |-> h.right.y, bRightTrigger |-> h.right.pull \div 4]

(* Bluepad32 has ten bits for an axis, down positive, and for a trigger;    *)
(* its parser of the pad says whether a trigger's button is held.           *)
BluepadButton == [A |-> 0, B |-> 1, X |-> 2, Y |-> 3, L1 |-> 4, R1 |-> 5,
                  L2 |-> 6, R2 |-> 7, L3 |-> 8, R3 |-> 9]
BluepadDpad == [UP |-> 0, DOWN |-> 1, RIGHT |-> 2, LEFT |-> 3]
BluepadMisc == [SYSTEM |-> 0, SELECT |-> 1, START |-> 2, CAPTURE |-> 3]
BluepadPad(h) ==
    [buttons |-> BitsOf(h.held, BluepadButton),
     dpad |-> BitsOf(h.held, BluepadDpad), misc_buttons |-> BitsOf(h.held, BluepadMisc),
     axis_x |-> h.left.x \div 64, axis_y |-> (-1 - h.left.y) \div 64, brake |-> h.left.pull,
     axis_rx |-> h.right.x \div 64, axis_ry |-> (-1 - h.right.y) \div 64,
     throttle |-> h.right.pull]

-----------------------------------------------------------------------------
(* ReportEvent's buttons: the upper four in one go, the others one by one. *)
kTriggerThreshold == 8
Picked(p, from, to) == IF from \in p.wButtons THEN {to} ELSE {}
XinputButtons(p) ==
    Shifted(p.wButtons \cap 12 .. 15, -12)
        \cup Picked(p, 0, 4) \cup Picked(p, 1, 5) \cup Picked(p, 3, 6) \cup Picked(p, 2, 7)
        \cup Picked(p, 10, 8) \cup Picked(p, 5, 9) \cup Picked(p, 4, 10) \cup Picked(p, 11, 11)
        \cup Picked(p, 8, 12) \cup Picked(p, 9, 13)
        \cup (IF p.bLeftTrigger > kTriggerThreshold THEN {14} ELSE {})
        \cup (IF p.bRightTrigger > kTriggerThreshold THEN {15} ELSE {})
        \cup Picked(p, 6, 16) \cup Picked(p, 7, 17)

(* Mutant: without the case for the smallest number. *)
NegatedInt16(n) == Int16(-n)

(* The smallest number has no negative of its width. *)
Negated(n) == IF n = INT16_MIN THEN INT16_MAX ELSE Int16(-n)

XinputData(p) ==
    [buttons |-> XinputButtons(p), lx |-> p.sThumbLX, ly |-> Negated(p.sThumbLY),
     rx |-> p.sThumbRX, ry |-> Negated(p.sThumbRY),
     lz |-> Uint16(p.bLeftTrigger * 256), rz |-> Uint16(p.bRightTrigger * 256)]

(* platform_on_controller_data *)
BtData16(g) ==
    [buttons |-> (g.buttons \cap 0 .. 3) \cup Shifted(g.dpad \cap 0 .. 3, 4)
                 \cup Shifted(g.misc_buttons \cap 0 .. 3, 8)
                 \cup Shifted(g.buttons \cap 4 .. 9, 8),
     lx |-> Int16(g.axis_x * 64), ly |-> Int16(g.axis_y * 64), lz |-> Uint16(g.brake * 64),
     rx |-> Int16(g.axis_rx * 64), ry |-> Int16(g.axis_ry * 64), rz |-> Uint16(g.throttle * 64)]

-----------------------------------------------------------------------------
NoData == [buttons |-> {}]

PadInit == hand \in Hands /\ overUsb = NoData /\ overBt = NoData

ReportOverUsb ==
    /\ overUsb' = XinputData(XinputPad(hand))
    /\ UNCHANGED <<hand, overBt>>
ReportOverBt ==
    /\ overBt' = BtData16(BluepadPad(hand))
    /\ UNCHANGED <<hand, overUsb>>

PadNext == ReportOverUsb \/ ReportOverBt
PadSpec == PadInit /\ [][PadNext]_padVars
-----------------------------------------------------------------------------
(* A game does not see how the pad is attached.  Either driver reports the  *)
(* buttons that are held, as Rust names them; XInput's, which is told of no *)
(* button for the triggers, reports them from kTriggerThreshold on.  Both   *)
(* sticks agree but for the bits Bluetooth does not have, at the ends of    *)
(* their range too (xinput.cpp:60, 62), and both triggers but for the bits  *)
(* XInput does not have.                                                    *)
Pulled(side, name) == IF side.pull >= 4 * (kTriggerThreshold + 1) THEN {name} ELSE {}
HeldOverUsb ==
    (hand.held \cap Digital) \cup Pulled(hand.left, "L2") \cup Pulled(hand.right, "R2")
Named(names) == {Bit[b] : b \in names}
Near(m, n, step) == m - n <= step /\ n - m <= step
SamePad ==
    /\ overUsb # NoData => overUsb.buttons = Named(HeldOverUsb)
    /\ overBt # NoData => overBt.buttons = Named(hand.held)
    /\ NoData \notin {overUsb, overBt} =>
           /\ Near(overUsb.lx, overBt.lx, 64) /\ Near(overUsb.ly, overBt.ly, 64)
           /\ Near(overUsb.rx, overBt.rx, 64) /\ Near(overUsb.ry, overBt.ry, 64)
           /\ Near(overUsb.lz, overBt.lz, 192) /\ Near(overUsb.rz, overBt.rz, 192)
=============================================================================
