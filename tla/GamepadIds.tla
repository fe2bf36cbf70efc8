----------------------------- MODULE GamepadIds -----------------------------
(***************************************************************************)
(* The ids by which the firmware names gamepads (GamepadId in              *)
(* src/rust/src/gamepad.rs): all that the messages and packets modelled    *)
(* elsewhere say about a gamepad.                                          *)
(***************************************************************************)
CONSTANT GamepadId  \* the ids a gamepad may have
=============================================================================
