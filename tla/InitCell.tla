------------------------------ MODULE InitCell ------------------------------
(***************************************************************************)
(* The one-time cell that holds every static of the Rust side: queues,     *)
(* timers, the handheld's packet queue (src/rust/src/util.rs).  Any number *)
(* of tasks and interrupts use it without a lock; the only things they     *)
(* share are two flags.  Writing the value takes time: until it ends the   *)
(* memory holds neither nothing nor the value.                             *)
(***************************************************************************)
CONSTANTS Threads, Values, Uninit, Torn

ASSUME CellAssumption == Uninit \notin Values /\ Torn \notin Values /\ Uninit # Torn

VARIABLES started,  \* init_started
          finished, \* init_finished
          data,     \* the memory
          at,       \* where each thread is
          value     \* what it means to set, or has read

cellVars == <<started, finished, data, at, value>>

CellInit ==
    /\ started = FALSE /\ finished = FALSE /\ data = Uninit
    /\ at = [t \in Threads |-> "outside"] /\ value = [t \in Threads |-> Uninit]

Go(t, from, to) == at[t] = from /\ at' = [at EXCEPT ![t] = to]

CallSet(t, v) ==
    /\ Go(t, "outside", "swap")
    /\ value' = [value EXCEPT ![t] = v]
    /\ UNCHANGED <<started, finished, data>>

(* Mutant: only a value already published is in the way. *)
SwapUnlessFinished(t) ==
    /\ at[t] = "swap"
    /\ at' = [at EXCEPT ![t] = IF finished THEN "panicked" ELSE "write"]
    /\ started' = TRUE
    /\ UNCHANGED <<finished, data, value>>

(* set: swap the first flag, and panic if it was set ... *)
Swap(t) ==
    /\ at[t] = "swap"
    /\ at' = [at EXCEPT ![t] = IF started THEN "panicked" ELSE "write"]
    /\ started' = TRUE
    /\ UNCHANGED <<finished, data, value>>

(* ... write the value ... *)
BeginWrite(t) ==
    /\ Go(t, "write", "writing")
    /\ data' = Torn
    /\ UNCHANGED <<started, finished, value>>

EndWrite(t) ==
    /\ Go(t, "writing", "finish")
    /\ data' = value[t]
    /\ UNCHANGED <<started, finished, value>>

(* ... and publish it. *)
Finish(t) ==
    /\ Go(t, "finish", "outside")
    /\ finished' = TRUE
    /\ UNCHANGED <<started, data, value>>

(* Mutant: the flag of a set that has begun is taken for its end. *)
LoadStarted(t) ==
    /\ at[t] = "outside"
    /\ at' = [at EXCEPT ![t] = IF started THEN "reading" ELSE "none"]
    /\ UNCHANGED <<started, finished, data, value>>

(* maybe_get: nothing until the value is published. *)
Load(t) ==
    /\ at[t] = "outside"
    /\ at' = [at EXCEPT ![t] = IF finished THEN "reading" ELSE "none"]
    /\ UNCHANGED <<started, finished, data, value>>

Read(t) ==
    /\ Go(t, "reading", "some")
    /\ value' = [value EXCEPT ![t] = data]
    /\ UNCHANGED <<started, finished, data>>

(* get: an unwrap of nothing panics. *)
UnwrapNone(t) == Go(t, "none", "panicked") /\ UNCHANGED <<started, finished, data, value>>

Return(t) ==
    /\ at[t] \in {"some", "none"}
    /\ at' = [at EXCEPT ![t] = "outside"]
    /\ UNCHANGED <<started, finished, data, value>>

CellNext ==
    \E t \in Threads :
        \/ \E v \in Values : CallSet(t, v)
        \/ Swap(t) \/ BeginWrite(t) \/ EndWrite(t) \/ Finish(t)
        \/ Load(t) \/ Read(t) \/ UnwrapNone(t) \/ Return(t)
CellSpec == CellInit /\ [][CellNext]_cellVars
-----------------------------------------------------------------------------
Places == {"outside", "swap", "write", "writing", "finish", "reading", "some", "none", "panicked"}

CellTypeOK ==
    /\ {started, finished} \subseteq BOOLEAN
    /\ data \in Values \cup {Uninit, Torn}
    /\ at \in [Threads -> Places]
    /\ value \in [Threads -> Values \cup {Uninit, Torn}]

(* A thread that gets a value gets a whole one: what another thread is      *)
(* still writing is never seen (util.rs:35).                                *)
ReadsWhole == \A t \in Threads : at[t] = "some" => value[t] \in Values

(* The value never changes once a thread could hold a reference to it:      *)
(* `get' hands out a plain reference (util.rs:30).                          *)
FixedOncePublished == [][finished => data' = data]_cellVars
=============================================================================
