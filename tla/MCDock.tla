------------------------------- MODULE MCDock -------------------------------
(* What TLC needs to check Dock with several gamepads: the instances of a    *)
(* USB driver are interchangeable (ids are not: they are handed out in order)*)
EXTENDS Dock, TLC

InstanceSymmetry == Permutations(XinputDevs) \cup Permutations(HidDevs)
=============================================================================
