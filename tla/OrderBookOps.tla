---------------------------- MODULE OrderBookOps ----------------------------
(***************************************************************************)
(* exchange/src/order_book.rs: the order book of one ticker, as operators  *)
(* on a book record.  OrderBook runs one book on its own; MatchingEngine   *)
(* keeps one book per ticker.                                              *)
(*                                                                         *)
(* bid_levels and ask_levels are one map keyed by <<side, price>>: its     *)
(* restriction to BUY (SELL) is the code's bid (ask) map.  The maps of the *)
(* code are functions whose DOMAIN is the set of keys present.  Option     *)
(* indices use NONE for None.  Quantities are u32 with the wrapping        *)
(* arithmetic of the release build: modulo QtyMod (2^32 in the code).      *)
(***************************************************************************)
EXTENDS MemPool, FiniteSets, Functions

CONSTANTS QtyMod,
          Clients, Prices, OrderQtys   \* what the callers of a book pass to it

ASSUME QtyModulus == QtyMod \in Nat \ {0}

BUY  == 1
SELL == -1
Sides == {BUY, SELL}

NONE == -1
OptSlots == Slots \cup {NONE}

Qtys == 0 .. QtyMod - 1

ASSUME OrderAssumption ==
    Clients \subseteq Nat /\ Prices \subseteq Int /\ OrderQtys \subseteq Qtys

\* Functions as HashMaps: insert and remove.
Put(f, k, v) == [x \in DOMAIN f \cup {k} |-> IF x = k THEN v ELSE f[x]]
Drop(f, k)   == [x \in DOMAIN f \ {k} |-> f[x]]

-----------------------------------------------------------------------------
\* struct Order; side 0 and order_id 0 occur only in slots never written.
Orders == [order_id : Nat, client_id : Nat, side : Sides \cup {0},
           price : Int, qty : Qtys, priority : Nat,
           prev_idx : OptSlots, next_idx : OptSlots]

\* A slot of the zeroed storage that new_boxed() allocates.
ZeroedSlot == [order_id |-> 0, client_id |-> 0, side |-> 0, price |-> 0,
               qty |-> 0, priority |-> 0, prev_idx |-> NONE, next_idx |-> NONE]

\* struct PriceLevel; its price is the second component of its key.
Levels == [total_qty : Qtys, order_count : Nat,
           head_idx : OptSlots, tail_idx : OptSlots]

\* PriceLevel::new
NewLevel == [total_qty |-> 0, order_count |-> 0,
             head_idx |-> NONE, tail_idx |-> NONE]

\* OrderBook::new
NewBook == [levels        |-> [k \in {} |-> NewLevel],
            order_map     |-> [id \in {} |-> 0],
            storage       |-> [s \in Slots |-> ZeroedSlot],
            pool          |-> NewPool,
            next_priority |-> 1]

KeyOf(order) == <<order.side, order.price>>

\* The order an id of order_map stands for.
OrderOf(b, id) == b.storage[b.order_map[id]]

LiveIds(b) == DOMAIN b.order_map

IdsAt(b, k) == {id \in LiveIds(b) : KeyOf(OrderOf(b, id)) = k}

-----------------------------------------------------------------------------
\* Mutant: no check for a duplicate id.
CanAddDuplicate(b, id) == CanAllocate(b.pool)

\* add_order returns None, and changes nothing, when this is FALSE.
CanAdd(b, id) ==
    /\ id \notin LiveIds(b)
    /\ CanAllocate(b.pool)

\* levels.entry(price).or_insert_with(PriceLevel::new)
LevelOrNew(b, k) == IF k \in DOMAIN b.levels THEN b.levels[k] ELSE NewLevel

\* The order record that add_order writes.  Its prev_idx is the level's tail;
\* neither of the two loops over order_map writes the old tail's next_idx.
NewOrder(b, client, id, side, price, qty) ==
    [order_id |-> id, client_id |-> client, side |-> side, price |-> price,
     qty |-> qty, priority |-> b.next_priority,
     prev_idx |-> LevelOrNew(b, <<side, price>>).tail_idx, next_idx |-> NONE]

\* The level after add_order has appended slot idx to it.
LevelWith(level, idx, qty) ==
    [total_qty   |-> (level.total_qty + qty) % QtyMod,
     order_count |-> level.order_count + 1,
     head_idx    |-> IF level.tail_idx = NONE THEN idx ELSE level.head_idx,
     tail_idx    |-> idx]

\* Mutant: next_priority is not advanced.
AddOrderSamePriority(b, client, id, side, price, qty) ==
    LET idx == AllocatedIndex(b.pool)
        k   == <<side, price>>
    IN  [levels        |-> Put(b.levels, k,
                               LevelWith(LevelOrNew(b, k), idx, qty)),
         order_map     |-> Put(b.order_map, id, idx),
         storage       |-> [b.storage EXCEPT ![idx] =
                               NewOrder(b, client, id, side, price, qty)],
         pool          |-> Allocate(b.pool),
         next_priority |-> b.next_priority]

\* The book after a successful add_order.
AddOrder(b, client, id, side, price, qty) ==
    LET idx == AllocatedIndex(b.pool)
        k   == <<side, price>>
    IN  [levels        |-> Put(b.levels, k,
                               LevelWith(LevelOrNew(b, k), idx, qty)),
         order_map     |-> Put(b.order_map, id, idx),
         storage       |-> [b.storage EXCEPT ![idx] =
                               NewOrder(b, client, id, side, price, qty)],
         pool          |-> Allocate(b.pool),
         next_priority |-> b.next_priority + 1]

-----------------------------------------------------------------------------
\* cancel_order returns Some iff the id is mapped, its slot is in bounds and
\* the order's price level exists.
CanCancel(b, id) ==
    /\ id \in LiveIds(b)
    /\ InBounds(b.order_map[id])
    /\ KeyOf(OrderOf(b, id)) \in DOMAIN b.levels

\* The storage after o has been unlinked: the slot of prev_idx, whatever it
\* holds by now, gets o's next_idx, and the slot of next_idx o's prev_idx.
Unlink(storage, o) ==
    LET s == IF o.prev_idx = NONE THEN storage
             ELSE [storage EXCEPT ![o.prev_idx] =
                      [storage[o.prev_idx] EXCEPT !.next_idx = o.next_idx]]
    IN  IF o.next_idx = NONE THEN s
        ELSE [s EXCEPT ![o.next_idx] =
                 [s[o.next_idx] EXCEPT !.prev_idx = o.prev_idx]]

\* Mutant: saturating_sub for the quantity.
LevelWithoutSaturating(level, o) ==
    [total_qty   |-> IF level.total_qty > o.qty THEN level.total_qty - o.qty ELSE 0,
     order_count |-> level.order_count - 1,
     head_idx    |-> IF o.prev_idx = NONE THEN o.next_idx ELSE level.head_idx,
     tail_idx    |-> IF o.next_idx = NONE THEN o.prev_idx ELSE level.tail_idx]

\* The level after cancel_order has taken order o out of it.
LevelWithout(level, o) ==
    [total_qty   |-> (level.total_qty - o.qty) % QtyMod,
     order_count |-> level.order_count - 1,
     head_idx    |-> IF o.prev_idx = NONE THEN o.next_idx ELSE level.head_idx,
     tail_idx    |-> IF o.next_idx = NONE THEN o.prev_idx ELSE level.tail_idx]

\* Mutant: the level is removed when its list looks empty.
CancelOrderByHead(b, id) ==
    LET idx   == b.order_map[id]
        o     == b.storage[idx]
        k     == KeyOf(o)
        level == LevelWithout(b.levels[k], o)
    IN  [levels        |-> IF level.head_idx = NONE THEN Drop(b.levels, k)
                           ELSE Put(b.levels, k, level),
         order_map     |-> Drop(b.order_map, id),
         storage       |-> Unlink(b.storage, o),
         pool          |-> Deallocate(b.pool, idx),
         next_priority |-> b.next_priority]

\* The book after a successful cancel_order.
CancelOrder(b, id) ==
    LET idx   == b.order_map[id]
        o     == b.storage[idx]
        k     == KeyOf(o)
        level == LevelWithout(b.levels[k], o)
    IN  [levels        |-> IF level.order_count = 0 THEN Drop(b.levels, k)
                           ELSE Put(b.levels, k, level),
         order_map     |-> Drop(b.order_map, id),
         storage       |-> Unlink(b.storage, o),
         pool          |-> Deallocate(b.pool, idx),
         next_priority |-> b.next_priority]

\* The book after a cancel_order that returns None: order_map.remove has
\* already happened when one of the two later `?' returns.
CancelFailed(b, id) ==
    [levels        |-> b.levels,
     order_map     |-> Drop(b.order_map, id),
     storage       |-> b.storage,
     pool          |-> b.pool,
     next_priority |-> b.next_priority]

-----------------------------------------------------------------------------
(***************************************************************************)
(* What every reachable book satisfies.  OrderBook checks and proves these *)
(* for one book, MatchingEngine for each book it keeps.                    *)
(***************************************************************************)
IsBook(b) == b = [levels |-> b.levels, order_map |-> b.order_map,
                  storage |-> b.storage, pool |-> b.pool,
                  next_priority |-> b.next_priority]

BookTypeOK(b) ==
    /\ IsBook(b)
    /\ b.order_map \in [LiveIds(b) -> Slots] /\ LiveIds(b) \subseteq Nat
    /\ b.levels \in [DOMAIN b.levels -> Levels]
    /\ DOMAIN b.levels \subseteq Sides \X Int
    /\ b.storage \in [Slots -> Orders]
    /\ b.pool \in Pools
    /\ b.next_priority \in Nat \ {0}

\* Every slot is on the free stack, once, or holds exactly one mapped order.
BookSlotsPartitioned(b) ==
    /\ DistinctFree(b.pool)
    /\ \A id1, id2 \in LiveIds(b) : b.order_map[id1] = b.order_map[id2] => id1 = id2
    /\ \A s \in Slots : (s \in FreeSlots(b.pool))
                          <=> ~(\E id \in LiveIds(b) : b.order_map[id] = s)

\* Free slots and resting orders add up to the capacity of the pool.
BookSlotsCounted(b) ==
    /\ IsFiniteSet(LiveIds(b))
    /\ b.pool.free_count + Cardinality(LiveIds(b)) = N

\* A level exists iff orders rest at its price, and counts them.
BookLevelsCountOrders(b) ==
    /\ DOMAIN b.levels = {KeyOf(OrderOf(b, id)) : id \in LiveIds(b)}
    /\ \A k \in DOMAIN b.levels :
          b.levels[k].order_count = Cardinality(IdsAt(b, k))

\* total_qty of a level is the u32 sum of the quantities that rest at it.
BookLevelsSumQuantities(b) ==
    \A k \in DOMAIN b.levels :
       b.levels[k].total_qty =
          SumFunctionOnSet([id \in LiveIds(b) |-> OrderOf(b, id).qty], IdsAt(b, k)) % QtyMod

BookInv(b) == /\ BookTypeOK(b)
              /\ BookSlotsPartitioned(b)
              /\ BookSlotsCounted(b)
              /\ BookLevelsCountOrders(b)
              /\ BookLevelsSumQuantities(b)
=============================================================================
