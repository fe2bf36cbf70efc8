---------------------------- MODULE PacketQueue ----------------------------
(***************************************************************************)
(* TX_PACKET_QUEUE (src/rust/src/handheld.rs): the packets waiting to be   *)
(* sent to the docked handheld.  The engine task pushes and resets, the    *)
(* USB host task pops; every operation runs whole under the queue's mutex, *)
(* so each is one step.                                                    *)
(*                                                                         *)
(* A packet is its request and the gamepad it is about: device ids and     *)
(* stick positions make no difference to the queue.                        *)
(***************************************************************************)
EXTENDS Naturals, Sequences, GamepadIds

VARIABLE tx  \* the queue, oldest packet first

Packet(request, id) == [request |-> request, id |-> id]
Packets == [request : {"CONNECT", "DISCONNECT", "DATA"}, id : GamepadId]

(* Mutant: the packet at the other end of the queue is looked at. *)
PushedAtFront(q, p) ==
    IF p.request = "DATA" /\ q # <<>> /\ Head(q).request = "DATA"
    THEN [q EXCEPT ![1] = p]
    ELSE Append(q, p)

(* Mutant: data replaces the last packet, whatever that is. *)
PushedOverAny(q, p) ==
    IF p.request = "DATA" /\ q # <<>>
    THEN [q EXCEPT ![Len(q)] = p]
    ELSE Append(q, p)

(* push_back: data that would follow data replaces it, whatever gamepad the *)
(* two belong to.                                                           *)
Pushed(q, p) ==
    IF p.request = "DATA" /\ q # <<>> /\ q[Len(q)].request = "DATA"
    THEN [q EXCEPT ![Len(q)] = p]
    ELSE Append(q, p)

PushBack(p) == tx' = Pushed(tx, p)

PopFront(p) == tx # <<>> /\ p = Head(tx) /\ tx' = Tail(tx)

Reset == tx' = <<>>

-----------------------------------------------------------------------------
(* No two data packets are ever neighbours, so data alone cannot make the   *)
(* queue grow: stick movements while USB is slow cost one slot, not memory. *)
NoAdjacentData ==
    \A i \in 1 .. Len(tx) - 1 : tx[i].request # "DATA" \/ tx[i+1].request # "DATA"
=============================================================================
