---------------------------- MODULE BoundedFifo ----------------------------
(***************************************************************************)
(* What pkg/core/peer/writer.go promises of lockFreeQueue: "a multi-producer *)
(* single-consumer" queue that hands every message over once, in the order *)
(* in which the producers claimed their slots, and holds at most Capacity. *)
(***************************************************************************)
EXTENDS Naturals, Sequences

CONSTANTS Message, Capacity

VARIABLES
    waiting,     \* messages accepted and not yet taken
    taken        \* every message the consumer took, in order

vars == <<waiting, taken>>

Init == waiting = <<>> /\ taken = <<>>

Accept(m) ==
    /\ Len(waiting) < Capacity
    /\ waiting' = Append(waiting, m)
    /\ UNCHANGED taken

Take ==
    /\ waiting # <<>>
    /\ taken' = Append(taken, Head(waiting))
    /\ waiting' = Tail(waiting)

Next == Take \/ \E m \in Message : Accept(m)

Spec == Init /\ [][Next]_vars
=============================================================================
