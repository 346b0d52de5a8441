------------------------------- MODULE FifoSpec -------------------------------
(***************************************************************************)
(* What the single-producer single-consumer queue promises: a FIFO of at   *)
(* most Capacity items.  last is what the most recent pop returned.        *)
(***************************************************************************)
EXTENDS Naturals, Sequences

CONSTANTS Items, NoItem, Capacity

VARIABLES q, last

vars == <<q, last>>

Init == q = <<>> /\ last = NoItem

Push(item) ==
    /\ Len(q) < Capacity
    /\ q' = Append(q, item)
    /\ UNCHANGED last

Pop ==
    /\ q # <<>>
    /\ last' = Head(q)
    /\ q' = Tail(q)

Next == (\E item \in Items : Push(item)) \/ Pop

Spec == Init /\ [][Next]_vars
=============================================================================
