------------------------------ MODULE LogFifo ------------------------------
(***************************************************************************)
(* What the dock promises of its log over USB: a queue of at most Capacity *)
(* characters.  Each task's record is taken as the task wanted it, text by *)
(* text, each whole or cut at the end where it no longer fits; characters  *)
(* leave in the order they came, for the CDC interface.  Module LogRing    *)
(* implements this with a ring buffer, and a String that all Rust tasks    *)
(* share.                                                                  *)
(***************************************************************************)
EXTENDS Naturals, Sequences

CONSTANTS Capacity, Records, Tasks

VARIABLES text,  \* the texts each task has still to say
          fifo,  \* characters kept, the oldest first
          cdc    \* characters handed to the CDC interface and not yet read

vars == <<text, fifo, cdc>>

Init == text = [w \in Tasks |-> <<>>] /\ fifo = <<>> /\ cdc = <<>>

Fitting(n) == IF n <= Capacity - Len(fifo) THEN n ELSE Capacity - Len(fifo)

Want(w, r) ==
    /\ text[w] = <<>> /\ text' = [text EXCEPT ![w] = r]
    /\ UNCHANGED <<fifo, cdc>>

Write(w) ==
    /\ text[w] # <<>>
    /\ fifo' = fifo \o SubSeq(Head(text[w]), 1, Fitting(Len(Head(text[w]))))
    /\ text' = [text EXCEPT ![w] = Tail(@)]
    /\ UNCHANGED cdc

Send ==
    /\ fifo # <<>>
    /\ cdc' = Append(cdc, Head(fifo))
    /\ fifo' = Tail(fifo) /\ UNCHANGED text

HostReads == cdc # <<>> /\ cdc' = Tail(cdc) /\ UNCHANGED <<text, fifo>>

Next ==
    \/ \E w \in Tasks : Write(w) \/ \E r \in Records : Want(w, r)
    \/ Send \/ HostReads
Spec == Init /\ [][Next]_vars
=============================================================================
