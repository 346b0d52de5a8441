------------------------------ MODULE OrderBook ------------------------------
(***************************************************************************)
(* One order book (exchange/src/order_book.rs) on its own, called with     *)
(* arbitrary ids: add_order and cancel_order in any order, duplicate ids,  *)
(* unknown ids and an exhausted pool included.                             *)
(***************************************************************************)
EXTENDS OrderBookOps

CONSTANTS OrderIds,     \* the ids the caller uses
          MaxAdds       \* bound: successful add_order calls in a behaviour

ASSUME CallerAssumption == OrderIds \subseteq Nat /\ MaxAdds \in Nat

VARIABLE book

BookInit == book = NewBook

add_order(client, id, side, price, qty) ==
    /\ CanAdd(book, id)
    /\ book.next_priority =< MaxAdds
    /\ book' = AddOrder(book, client, id, side, price, qty)

\* add_order returning None: a duplicate id or an exhausted pool.
add_order_none(id) ==
    /\ ~CanAdd(book, id)
    /\ UNCHANGED book

cancel_order(id) ==
    /\ CanCancel(book, id)
    /\ book' = CancelOrder(book, id)

cancel_order_none(id) ==
    /\ ~CanCancel(book, id)
    /\ book' = CancelFailed(book, id)

BookNext ==
    \/ \E client \in Clients, id \in OrderIds, side \in Sides,
          price \in Prices, qty \in OrderQtys :
            add_order(client, id, side, price, qty)
    \/ \E id \in OrderIds : add_order_none(id)
    \/ \E id \in OrderIds : cancel_order(id)
    \/ \E id \in OrderIds : cancel_order_none(id)

OrderBookSpec == BookInit /\ [][BookNext]_book

-----------------------------------------------------------------------------
\* Type invariant of the book's fields, links and pool indices included.
BookTyped == BookTypeOK(book)

\* Every pool slot is either on the free stack, once, or holds exactly one
\* mapped order: cancel_order frees each slot exactly once and neither
\* operation loses a slot or hands one slot to two orders.
SlotsPartitioned == BookSlotsPartitioned(book) /\ BookSlotsCounted(book)

\* A price level exists iff orders rest at its price, and its order_count is
\* their number, whatever happened to the links in between.
LevelsCountOrders == BookLevelsCountOrders(book)

\* total_qty of a level is the u32 sum of the quantities resting there, also
\* after additions wrapped and cancels unwrapped it again.
LevelsSumQuantities == BookLevelsSumQuantities(book)

\* add_order says None exactly when the id is in use or N orders rest in the
\* book, and cancel_order says None exactly when the id is unknown: its two
\* later early returns, after order_map.remove, are never taken.
RefusalsJustified ==
    \A id \in OrderIds :
       /\ CanAdd(book, id) <=> /\ id \notin LiveIds(book)
                               /\ Cardinality(LiveIds(book)) < N
       /\ CanCancel(book, id) <=> id \in LiveIds(book)

\* What a caller of the book sees: the resting orders by id.
LiveOrders ==
    [id \in LiveIds(book) |->
       LET o == OrderOf(book, id)
       IN  [entry    |-> [client_id |-> o.client_id, side |-> o.side,
                          price |-> o.price, qty |-> o.qty],
            priority |-> o.priority]]

CallerEntries == [client_id : Clients, side : Sides,
                  price : Prices, qty : OrderQtys]

Abstract == INSTANCE BookSpec WITH Ids <- OrderIds, Capacity <- N, Entries <- CallerEntries,
                live <- LiveOrders, clock <- book.next_priority

\* The book implements the bounded map of resting orders: adding or
\* cancelling one order never changes another, although cancel_order writes
\* through links that may be stale.
ImplementsBookSpec == Abstract!Spec
=============================================================================
