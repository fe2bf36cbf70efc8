--------------------------- MODULE ButtonReports ---------------------------
(***************************************************************************)
(* What the engine may count on from the dock's button: reports belong to  *)
(* presses.  A press is reported as long while it lasts, or as short when  *)
(* it ends and was never reported as long; a released button reports       *)
(* nothing.  Module Button implements this.  Reports are counted modulo 2, *)
(* so that each is a step and the state space stays finite.                *)
(***************************************************************************)
EXTENDS Naturals

VARIABLES phase,   \* "up", "down", or "long" once the press was reported
          shorts,  \* short presses reported, modulo 2
          longs    \* long presses reported, modulo 2

vars == <<phase, shorts, longs>>

Init == phase = "up" /\ shorts = 0 /\ longs = 0

Press == phase = "up" /\ phase' = "down" /\ UNCHANGED <<shorts, longs>>

ReportShort ==
    /\ phase = "down" /\ phase' = "up"
    /\ shorts' = (shorts + 1) % 2
    /\ UNCHANGED longs

ReportLong ==
    /\ phase # "up" /\ phase' = "long"
    /\ longs' = (longs + 1) % 2
    /\ UNCHANGED shorts

Release == phase # "up" /\ phase' = "up" /\ UNCHANGED <<shorts, longs>>

Next == Press \/ ReportShort \/ ReportLong \/ Release
Spec == Init /\ [][Next]_vars
=============================================================================
