------------------------------ MODULE MCBoard ------------------------------
(***************************************************************************)
(* Parts of the dock that share no state with the others, checked each on  *)
(* its own: the requests of a USB host with the LED, the handheld's log,   *)
(* the one-time cells, what the dock tells of itself, the conversion of    *)
(* gamepad data and the walk over a configuration.  A behaviour picks one  *)
(* part; the others stay as they began.                                    *)
(***************************************************************************)
EXTENDS CdcLine, InitCell, DeviceInfo, UsbRequests, PadData, ConfigWalk, FiniteSets

VARIABLE part

boardVars == <<part, cdcVars, cellVars, infoVars, requestVars, padVars, walkVars>>

Parts == {"lines", "cells", "info", "requests", "pads", "walk"}

(* Where the start of a part is one of many it is fixed while another runs. *)
OnlyIn(p, v, set) == IF part = p THEN v \in set ELSE v = CHOOSE u \in set : TRUE

BoardInit ==
    /\ part \in Parts
    /\ CdcInit /\ CellInit /\ RequestInit /\ WalkInit
    /\ OnlyIn("info", fuses, Fuses) /\ OnlyIn("info", version, Versions) /\ InfoInit
    /\ OnlyIn("pads", hand, Hands) /\ PadInit

Requests(A) == part = "requests" /\ A

LinesPart ==
    /\ part = "lines" /\ CdcNext
    /\ UNCHANGED <<part, cellVars, infoVars, requestVars, padVars, walkVars>>
CellsPart ==
    /\ part = "cells" /\ CellNext
    /\ UNCHANGED <<part, cdcVars, infoVars, requestVars, padVars, walkVars>>
InfoPart ==
    /\ part = "info" /\ InfoNext
    /\ UNCHANGED <<part, cdcVars, cellVars, requestVars, padVars, walkVars>>
RequestsPart ==
    /\ Requests(RequestNext)
    /\ UNCHANGED <<part, cdcVars, cellVars, infoVars, padVars, walkVars>>
PadsPart ==
    /\ part = "pads" /\ PadNext
    /\ UNCHANGED <<part, cdcVars, cellVars, infoVars, requestVars, walkVars>>
WalkPart ==
    /\ part = "walk" /\ WalkNext
    /\ UNCHANGED <<part, cdcVars, cellVars, infoVars, requestVars, padVars>>

BoardNext ==
    \/ LinesPart \/ CellsPart \/ InfoPart \/ RequestsPart \/ PadsPart \/ WalkPart

(* The fairness of a part, while it is the one that runs. *)
BoardSpec ==
    /\ BoardInit /\ [][BoardNext]_boardVars
    /\ SF_requestVars(Requests(SetDfuAndReboot))
    /\ WF_requestVars(Requests(LedTask /\ HandleLedMessage))
    /\ WF_requestVars(Requests(Tick \/ Reset))

-----------------------------------------------------------------------------
(* Model values for TLC.  Strings as long as the code's. *)
MCStrLen == <<14, 13, 9, 16>>
MCVersions == {[major |-> 1, minor |-> 0, patch |-> 2], [major |-> 3, minor |-> 3, patch |-> 3]}

(* Hands press at most two buttons, or move one side of the pad or both the *)
(* same way: sticks at the ends of their range, at rest and around a step   *)
(* of Bluetooth's, triggers around a step of XInput's and the threshold.    *)
MCSticks == {-32768, -32767, -16000, -65, -64, -1, 0, 1, 63, 64, 20000, 32766, 32767}
MCSides == [x : MCSticks, y : MCSticks, pull : {0, 3, 35, 36, 1023}]
AtRest == [x |-> 0, y |-> 0, pull |-> 0]
MCHands ==
    [held : {s \in SUBSET DOMAIN Bit : Cardinality(s) <= 2}, left : {AtRest}, right : {AtRest}]
        \cup [held : {{}}, left : MCSides, right : {AtRest}]
        \cup [held : {{}}, left : {AtRest}, right : MCSides]
        \cup {[held |-> {}, left |-> side, right |-> side] : side \in MCSides}
=============================================================================
