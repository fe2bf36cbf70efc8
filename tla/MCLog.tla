------------------------------- MODULE MCLog -------------------------------
(***************************************************************************)
(* The log over USB for TLC: texts that fit, that fill the ring and that   *)
(* do not fit behind another, in records of one call and of two.           *)
(***************************************************************************)
EXTENDS LogRing

CONSTANTS a, b
MCRecords == {<< <<a>> >>, << <<b, a>>, <<b>> >>}
=============================================================================
