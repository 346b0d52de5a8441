------------------------------- MODULE BookSpec -------------------------------
(***************************************************************************)
(* What an order book promises its caller, without slots, links or levels: *)
(* a bounded map from order ids to resting orders, each stamped with a     *)
(* time priority larger than those of all orders added before it, and      *)
(* untouched until it is cancelled.                                        *)
(***************************************************************************)
EXTENDS Integers, FiniteSets

CONSTANTS Ids,          \* order ids
          Capacity,     \* orders the book can hold at a time
          Entries       \* [client_id, side, price, qty] of an order

VARIABLES live,         \* order id -> [entry, priority]
          clock         \* the next time priority

vars == <<live, clock>>

Init == /\ live = [id \in {} |-> 0]
        /\ clock = 1

Add(id, e) ==
    /\ id \notin DOMAIN live
    /\ Cardinality(DOMAIN live) < Capacity
    /\ live' = [x \in DOMAIN live \cup {id} |->
                   IF x = id THEN [entry |-> e, priority |-> clock] ELSE live[x]]
    /\ clock' = clock + 1

Cancel(id) ==
    /\ id \in DOMAIN live
    /\ live' = [x \in DOMAIN live \ {id} |-> live[x]]
    /\ UNCHANGED clock

Next == \/ \E id \in Ids, e \in Entries : Add(id, e)
        \/ \E id \in DOMAIN live : Cancel(id)

Spec == Init /\ [][Next]_vars
=============================================================================
