---------------------------- MODULE EngineQueue ----------------------------
(***************************************************************************)
(* The engine's message queue (QUEUE and send in src/rust/src/engine.rs)   *)
(* and the messages the rest of the firmware posts to it (c_api.rs).       *)
(***************************************************************************)
EXTENDS Naturals, Sequences, GamepadIds

CONSTANTS QueueLen,  \* capacity of the queue (32 in the code)
          Tracked    \* the kinds of message whose loss is recorded in `lost'

ASSUME QueueAssumption == QueueLen \in Nat \ {0}

VARIABLES queue,  \* messages posted and not yet received by the engine
          lost    \* history: tracked kinds of the messages dropped so far

-----------------------------------------------------------------------------
Requests == {"GET_INFO", "DOCK_BEGIN"}

(* A transfer ends well, well but with under 16 bytes, or badly. *)
Outcomes == {"ok", "short", "failed"}

Mount   == [kind |-> "HandheldMount"]
Unmount == [kind |-> "HandheldUnmount"]
XferComplete(request, outcome) ==
    [kind |-> "HandheldXferComplete", request |-> request, outcome |-> outcome]
Connected(id, wired) == [kind |-> "GamepadConnected", id |-> id, wired |-> wired]
Disconnected(id) == [kind |-> "GamepadDisconnected", id |-> id]
Data(id) == [kind |-> "GamepadData", id |-> id]
ShortPress == [kind |-> "ButtonShortPress"]
LongPress  == [kind |-> "ButtonLongPress"]

Messages ==
    {Mount, Unmount, ShortPress, LongPress}
        \cup {XferComplete(r, o) : r \in Requests, o \in Outcomes}
        \cup {Connected(id, w) : id \in GamepadId, w \in BOOLEAN}
        \cup {Disconnected(id) : id \in GamepadId}
        \cup {Data(id) : id \in GamepadId}

-----------------------------------------------------------------------------
QueueInit == queue = <<>> /\ lost = {}

(* Mutant: the queue taken to have room for one message more than it has. *)
SendOneMore(m) ==
    IF Len(queue) <= QueueLen
    THEN queue' = Append(queue, m) /\ UNCHANGED lost
    ELSE UNCHANGED queue /\ lost' = lost \cup ({m.kind} \cap Tracked)

(* send: no caller waits; a message that does not fit is dropped. *)
Send(m) ==
    IF Len(queue) < QueueLen
    THEN queue' = Append(queue, m) /\ UNCHANGED lost
    ELSE UNCHANGED queue /\ lost' = lost \cup ({m.kind} \cap Tracked)

QueueTypeOK ==
    /\ queue \in Seq(Messages) /\ Len(queue) <= QueueLen
    /\ lost \subseteq Tracked
=============================================================================
