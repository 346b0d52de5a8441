---------------------------- MODULE ExchangeProofs ----------------------------
(***************************************************************************)
(* The exchange's books and its matching engine, for every pool capacity,  *)
(* set of tickers, clients, ids, prices and quantities: the operations of  *)
(* a book preserve BookInv; one book keeps its invariants and implements   *)
(* BookSpec; the engine keeps every book sound, never reuses a market      *)
(* order id, and tells its clients and the feed exactly what the books     *)
(* hold.                                                                   *)
(***************************************************************************)
EXTENDS OrderBook, MatchingEngine, Sums, TLAPS

\* The provers get more time than by default.
USE SMTT(30), ZenonT(30)

\* The market order ids handed out so far, and the next one.
LEMMA IdRange ==
    \A n \in Nat \ {0} : /\ 1 .. n - 1 \subseteq 1 .. (n + 1) - 1
                         /\ n \in 1 .. (n + 1) - 1 /\ n \notin 1 .. n - 1
  OBVIOUS

LEMMA NextId ==
    \A n \in Nat \ {0} : n =< n /\ n =< n + 1 /\ n \in n .. (n + 1) - 1
  OBVIOUS

\* The fields of a new order.
LEMMA NewOrderFields ==
    ASSUME NEW b, NEW client, NEW id, NEW side, NEW price, NEW qty
    PROVE  LET o == NewOrder(b, client, id, side, price, qty)
           IN  o.qty = qty /\ o.side = side /\ o.price = price
  BY DEF NewOrder

\* The answers that refuse a request say so.
LEMMA RefusalTypes ==
    ASSUME NEW req
    PROVE  /\ RejectResponse(req).msg_type = "InvalidRequest"
           /\ CancelRejectResponse(req).msg_type = "CancelRejected"
  BY DEF RejectResponse, CancelRejectResponse, Response

\* A typed map stays typed when a key is set or removed.
LEMMA MapTyped ==
    ASSUME NEW D, NEW S, NEW f \in [D -> S], NEW x
    PROVE  /\ Drop(f, x) \in [D \ {x} -> S]
           /\ \A e \in S : Put(f, x, e) \in [D \cup {x} -> S]
  BY DEF Put, Drop

\* A new book is an empty map of resting orders.
LEMMA InitImplements == BookInit => Abstract!Init
  BY DEF BookInit, Abstract!Init, LiveOrders, NewBook, LiveIds

\* A new book (OrderBook::new) satisfies the invariant.
LEMMA NewBookInv ==
    ASSUME FiniteSetFacts
    PROVE  BookInv(NewBook)
  <1> DEFINE b == NewBook
  <1>1. LiveIds(b) = {} /\ DOMAIN b.levels = {}
    BY DEF NewBook, LiveIds
  <1>2. BookTypeOK(b)
    <2>1. ZeroedSlot \in Orders
      BY QtyModulus DEF ZeroedSlot, Orders, Qtys, OptSlots, NONE, Sides
    <2>2. NewPool \in Pools
      BY PoolCapacity DEF NewPool, Pools, Slots
    <2> QED
      BY <1>1, <2>1, <2>2 DEF BookTypeOK, IsBook, NewBook, LiveIds
  <1>3. BookSlotsPartitioned(b)
    BY <1>1, PoolCapacity, Zenon
       DEF BookSlotsPartitioned, NewBook, NewPool, DistinctFree, FreeSlots, Stack, Slots
  <1>4. BookSlotsCounted(b)
    <2>1. IsFiniteSet({}) /\ Cardinality({}) = 0
      BY DEF FiniteSetFacts
    <2>2. b.pool.free_count = N
      BY DEF NewBook, NewPool
    <2> HIDE DEF b
    <2> QED
      BY <1>1, <2>1, <2>2, PoolCapacity DEF BookSlotsCounted
  <1>5. BookLevelsCountOrders(b)
    BY <1>1 DEF BookLevelsCountOrders
  <1>6. BookLevelsSumQuantities(b)
    BY <1>1 DEF BookLevelsSumQuantities
  <1> QED
    BY <1>2, <1>3, <1>4, <1>5, <1>6 DEF BookInv

-----------------------------------------------------------------------------
\* allocate() takes one free slot off the stack.
LEMMA AllocateFacts ==
    ASSUME NEW pool \in Pools, DistinctFree(pool), CanAllocate(pool)
    PROVE  /\ AllocatedIndex(pool) \in Slots
           /\ AllocatedIndex(pool) \in FreeSlots(pool)
           /\ Allocate(pool) \in Pools
           /\ DistinctFree(Allocate(pool))
           /\ FreeSlots(Allocate(pool)) = FreeSlots(pool) \ {AllocatedIndex(pool)}
           /\ Allocate(pool).free_count = pool.free_count - 1
  <1> DEFINE n == pool.free_count
             fl == pool.free_list
  <1>1. /\ n \in 1 .. N
        /\ fl \in [Slots -> Slots]
        /\ n - 1 \in Stack(pool)
        /\ \A i : i \in Stack(pool) => i \in Slots
    <2>1. n \in 0 .. N /\ fl \in [Slots -> Slots]
      BY DEF Pools
    <2>2. n > 0 /\ Stack(pool) = 0 .. n-1
      BY DEF CanAllocate, Stack
    <2> HIDE DEF n, fl
    <2> QED
      BY <2>1, <2>2, PoolCapacity DEF Slots
  <1>2. AllocatedIndex(pool) \in Slots /\ AllocatedIndex(pool) \in FreeSlots(pool)
    BY <1>1, Zenon DEF AllocatedIndex, FreeSlots, Slots
  <1>3. Allocate(pool) \in Pools /\ Allocate(pool).free_count = n - 1
    BY <1>1, PoolCapacity DEF Allocate, Pools
  <1>4. /\ Allocate(pool).free_list = fl
        /\ \A i : i \in Stack(Allocate(pool)) <=> (i \in Stack(pool) /\ i # n - 1)
    BY <1>1, PoolCapacity DEF Allocate, Stack
  <1>5. DistinctFree(Allocate(pool))
    BY <1>4 DEF DistinctFree
  <1>6. FreeSlots(Allocate(pool)) = FreeSlots(pool) \ {AllocatedIndex(pool)}
    BY <1>1, <1>4 DEF FreeSlots, DistinctFree, AllocatedIndex
  <1> QED
    BY <1>2, <1>3, <1>5, <1>6

\* deallocate_by_index() of a slot that is not free puts it on the stack.
LEMMA DeallocateFacts ==
    ASSUME NEW pool \in Pools, DistinctFree(pool), HasRoom(pool),
           NEW index \in Slots, index \notin FreeSlots(pool)
    PROVE  /\ Deallocate(pool, index) \in Pools
           /\ DistinctFree(Deallocate(pool, index))
           /\ FreeSlots(Deallocate(pool, index)) = FreeSlots(pool) \cup {index}
           /\ Deallocate(pool, index).free_count = pool.free_count + 1
  <1> DEFINE n == pool.free_count
             fl == pool.free_list
             dp == Deallocate(pool, index)
  <1>1. /\ n \in 0 .. N-1
        /\ n \in Slots
        /\ fl \in [Slots -> Slots]
        /\ \A i : i \in Stack(pool) => i \in Slots /\ i # n
    <2>1. n \in 0 .. N /\ fl \in [Slots -> Slots]
      BY DEF Pools
    <2>2. n < N /\ Stack(pool) = 0 .. n-1
      BY DEF HasRoom, Stack
    <2> HIDE DEF n, fl, dp
    <2>3. n \in 0 .. N-1 /\ n \in Slots
      BY <2>1, <2>2, PoolCapacity DEF Slots
    <2>4. \A i : i \in 0 .. n-1 => i \in Slots /\ i # n
      BY <2>1, <2>2, PoolCapacity DEF Slots
    <2> QED
      BY <2>1, <2>2, <2>3, <2>4
  <1>2. dp.free_count = n + 1 /\ dp.free_list = [fl EXCEPT ![n] = index]
    BY DEF Deallocate
  <1>3. dp \in Pools
    BY <1>1, PoolCapacity DEF Deallocate, Pools
  <1>4. \A i : i \in Stack(dp) <=> (i \in Stack(pool) \/ i = n)
    BY <1>1, <1>2, PoolCapacity DEF Stack
  <1>5. dp.free_list[n] = index /\ \A i \in Stack(pool) : dp.free_list[i] = fl[i]
    BY <1>1, <1>2
  <1>6. \A i \in Stack(pool) : fl[i] # index
    BY DEF FreeSlots
  <1> HIDE DEF dp
  <1>7. DistinctFree(dp)
    BY <1>4, <1>5, <1>6 DEF DistinctFree
  <1>8. FreeSlots(dp) = FreeSlots(pool) \cup {index}
    BY <1>4, <1>5 DEF FreeSlots
  <1> QED
    BY <1>2, <1>3, <1>7, <1>8 DEF dp

-----------------------------------------------------------------------------
\* Two slot contents that differ at most in their links.
SameEntry(o1, o2) ==
    /\ o1.order_id = o2.order_id /\ o1.client_id = o2.client_id
    /\ o1.side = o2.side /\ o1.price = o2.price
    /\ o1.qty = o2.qty /\ o1.priority = o2.priority

\* Unlinking, through links that may be stale, changes links only.
LEMMA UnlinkFacts ==
    ASSUME NEW storage \in [Slots -> Orders], NEW o \in Orders
    PROVE  /\ Unlink(storage, o) \in [Slots -> Orders]
           /\ \A s \in Slots : SameEntry(Unlink(storage, o)[s], storage[s])
  <1> DEFINE s1 == IF o.prev_idx = NONE THEN storage
                   ELSE [storage EXCEPT ![o.prev_idx] =
                            [storage[o.prev_idx] EXCEPT !.next_idx = o.next_idx]]
             s2 == IF o.next_idx = NONE THEN s1
                   ELSE [s1 EXCEPT ![o.next_idx] =
                            [s1[o.next_idx] EXCEPT !.prev_idx = o.prev_idx]]
  <1>1. /\ o.prev_idx \in OptSlots /\ o.next_idx \in OptSlots
        /\ o.prev_idx # NONE => o.prev_idx \in Slots
        /\ o.next_idx # NONE => o.next_idx \in Slots
    BY DEF Orders, OptSlots
  <1>2. s1 \in [Slots -> Orders] /\ \A s \in Slots : SameEntry(s1[s], storage[s])
    <2>1. CASE o.prev_idx = NONE
      BY <2>1 DEF SameEntry
    <2>2. CASE o.prev_idx # NONE
      <3> DEFINE p == o.prev_idx
                 r == [storage[p] EXCEPT !.next_idx = o.next_idx]
      <3>1. p \in Slots /\ storage[p] \in Orders
        BY <1>1, <2>2
      <3>2. r \in Orders /\ SameEntry(r, storage[p])
        BY <1>1, <3>1 DEF Orders, SameEntry
      <3>3. s1 = [storage EXCEPT ![p] = r]
        BY <2>2, Zenon
      <3> HIDE DEF r, s1, p
      <3> QED
        BY <3>1, <3>2, <3>3 DEF SameEntry
    <2> QED
      BY <2>1, <2>2
  <1>3. s2 \in [Slots -> Orders] /\ \A s \in Slots : SameEntry(s2[s], storage[s])
    <2>1. CASE o.next_idx = NONE
      BY <1>2, <2>1
    <2>2. CASE o.next_idx # NONE
      <3> DEFINE p == o.next_idx
                 r == [s1[p] EXCEPT !.prev_idx = o.prev_idx]
      <3> HIDE DEF s1
      <3>1. p \in Slots /\ s1[p] \in Orders
        BY <1>1, <1>2, <2>2
      <3>2. r \in Orders /\ SameEntry(r, s1[p])
        BY <1>1, <3>1 DEF Orders, SameEntry
      <3>3. s2 = [s1 EXCEPT ![p] = r]
        BY <2>2
      <3> HIDE DEF r, s2, p
      <3> QED
        BY <1>2, <3>1, <3>2, <3>3 DEF SameEntry
    <2> QED
      BY <2>1, <2>2
  <1>4. Unlink(storage, o) = s2
    BY DEF Unlink
  <1> HIDE DEF s2
  <1> QED
    BY <1>3, <1>4

-----------------------------------------------------------------------------
\* What a successful add_order does to the parts of the book that BookInv
\* speaks of.
LEMMA AddOrderFacts ==
    ASSUME NEW b, BookInv(b), NEW client \in Nat, NEW id \in Nat,
           NEW side \in Sides, NEW price \in Int, NEW qty \in Qtys, CanAdd(b, id)
    PROVE  LET nb  == AddOrder(b, client, id, side, price, qty)
               idx == AllocatedIndex(b.pool)
           IN  /\ idx \in Slots /\ idx \in FreeSlots(b.pool)
               /\ \A i \in LiveIds(b) : b.order_map[i] # idx
               /\ LiveIds(nb) = LiveIds(b) \cup {id}
               /\ nb.order_map[id] = idx
               /\ \A i \in LiveIds(b) : nb.order_map[i] = b.order_map[i]
               /\ OrderOf(nb, id) = NewOrder(b, client, id, side, price, qty)
               /\ \A i \in LiveIds(b) : OrderOf(nb, i) = OrderOf(b, i)
  <1> DEFINE nb  == AddOrder(b, client, id, side, price, qty)
             idx == AllocatedIndex(b.pool)
             no  == NewOrder(b, client, id, side, price, qty)
  <1> USE DEF LiveIds
  <1>1. idx \in Slots /\ idx \in FreeSlots(b.pool)
    BY AllocateFacts DEF BookInv, BookTypeOK, BookSlotsPartitioned, CanAdd
  <1>2. \A i \in LiveIds(b) : b.order_map[i] # idx
    BY <1>1 DEF BookInv, BookSlotsPartitioned
  <1>3. id \notin LiveIds(b)
    BY DEF CanAdd
  <1>4. nb.order_map = Put(b.order_map, id, idx)
    BY DEF AddOrder
  <1>5. nb.storage = [b.storage EXCEPT ![idx] = no]
    BY DEF AddOrder
  <1>6. /\ LiveIds(nb) = LiveIds(b) \cup {id}
        /\ nb.order_map[id] = idx
        /\ \A i \in LiveIds(b) : nb.order_map[i] = b.order_map[i]
    <2> HIDE DEF nb, idx
    <2> QED
      BY <1>3, <1>4 DEF Put
  <1>7. b.storage \in [Slots -> Orders] /\ \A i \in LiveIds(b) : b.order_map[i] \in Slots
    BY DEF BookInv, BookTypeOK
  <1>8. OrderOf(nb, id) = no /\ \A i \in LiveIds(b) : OrderOf(nb, i) = OrderOf(b, i)
    <2> HIDE DEF nb, idx, no
    <2> QED
      BY <1>1, <1>2, <1>5, <1>6, <1>7 DEF OrderOf
  <1> QED
    BY <1>1, <1>2, <1>6, <1>8

\* The orders of a book after add_order.
LEMMA AddedOrders ==
    ASSUME NEW b, BookInv(b), NEW client \in Nat, NEW id \in Nat,
           NEW side \in Sides, NEW price \in Int, NEW qty \in Qtys, CanAdd(b, id),
           NEW nb, nb = AddOrder(b, client, id, side, price, qty)
    PROVE  /\ LiveIds(nb) = LiveIds(b) \cup {id}
           /\ OrderOf(nb, id) = NewOrder(b, client, id, side, price, qty)
           /\ \A i \in LiveIds(b) : OrderOf(nb, i) = OrderOf(b, i)
  BY AddOrderFacts

\* The quantity fields stay in the range of u32.
LEMMA QtyArithmetic ==
    ASSUME NEW a \in Qtys, NEW q \in Qtys
    PROVE  (a + q) % QtyMod \in Qtys /\ (a - q) % QtyMod \in Qtys
  BY QtyModulus DEF Qtys

\* add_order keeps a level well typed and counts one more order.
LEMMA LevelFacts ==
    ASSUME NEW level \in Levels, NEW idx \in Slots, NEW qty \in Qtys
    PROVE  /\ LevelWith(level, idx, qty) \in Levels
           /\ LevelWith(level, idx, qty).order_count = level.order_count + 1
  <1>1. (level.total_qty + qty) % QtyMod \in Qtys
    BY QtyArithmetic DEF Levels
  <1> QED
    BY <1>1 DEF Levels, LevelWith, OptSlots

\* cancel_order keeps a level well typed and counts one order less.
LEMMA LevelWithoutFacts ==
    ASSUME NEW level \in Levels, NEW o \in Orders, level.order_count > 0
    PROVE  /\ LevelWithout(level, o) \in Levels
           /\ LevelWithout(level, o).order_count = level.order_count - 1
  <1>1. (level.total_qty - o.qty) % QtyMod \in Qtys
    BY QtyArithmetic DEF Levels, Orders
  <1>2. /\ o.prev_idx \in OptSlots /\ o.next_idx \in OptSlots
        /\ level.head_idx \in OptSlots /\ level.tail_idx \in OptSlots
        /\ level.order_count - 1 \in Nat
    BY DEF Levels, Orders
  <1> QED
    BY <1>1, <1>2 DEF Levels, LevelWithout

\* Reducing an operand of a sum first does not change the sum's remainder.
LEMMA ModSum ==
    ASSUME NEW a \in Int, NEW q \in Int
    PROVE  ((a % QtyMod) + q) % QtyMod = (a + q) % QtyMod
  <1> DEFINE d == a \div QtyMod
             r == a % QtyMod
             e == (r + q) \div QtyMod
             t == (r + q) % QtyMod
             g == (a + q) \div QtyMod
             u == (a + q) % QtyMod
  <1>1. d \in Int /\ r \in 0 .. QtyMod - 1 /\ a = QtyMod * d + r
    BY QtyModulus
  <1>2. e \in Int /\ t \in 0 .. QtyMod - 1 /\ r + q = QtyMod * e + t
    BY <1>1, QtyModulus
  <1>3. g \in Int /\ u \in 0 .. QtyMod - 1 /\ a + q = QtyMod * g + u
    BY QtyModulus
  <1> HIDE DEF d, r, e, t, g, u
  <1>4. QtyMod * (d + e - g) = u - t
    BY <1>1, <1>2, <1>3, QtyModulus
  <1>5. \A n \in Int : n >= 1 => QtyMod * n >= QtyMod
    BY QtyModulus
  <1>6. \A n \in Int : n =< -1 => QtyMod * n =< -QtyMod
    BY QtyModulus
  <1>7. ~(d + e - g >= 1) /\ ~(d + e - g =< -1)
    BY <1>1, <1>2, <1>3, <1>4, <1>5, <1>6, QtyModulus
  <1>8. d + e - g = 0
    BY <1>1, <1>2, <1>3, <1>7
  <1>9. u = t
    BY <1>2, <1>3, <1>4, <1>8, QtyModulus
  <1> QED
    BY <1>9 DEF r, t, u

\* The quantity that rests at a level.
RestingQty(b, x) == SumFunctionOnSet([id \in LiveIds(b) |-> OrderOf(b, id).qty], IdsAt(b, x))

QtyOf(b, id, x) == IF id \in IdsAt(b, x) THEN OrderOf(b, id).qty ELSE 0

QtysTyped(b) == IsFiniteSet(LiveIds(b)) /\ \A i \in LiveIds(b) : OrderOf(b, i).qty \in Int

\* Two books that differ in one order differ in its quantity, at its level.
LEMMA QtyMoves ==
    ASSUME SumFacts, FiniteSetFacts, NEW b, NEW nb, NEW id, QtysTyped(b), QtysTyped(nb),
           \A i : i # id => (i \in LiveIds(nb) <=> i \in LiveIds(b)),
           \A i \in LiveIds(b) : i # id =>
              /\ KeyOf(OrderOf(nb, i)) = KeyOf(OrderOf(b, i))
              /\ OrderOf(nb, i).qty = OrderOf(b, i).qty,
           NEW x
    PROVE  /\ RestingQty(nb, x) - QtyOf(nb, id, x) = RestingQty(b, x) - QtyOf(b, id, x)
           /\ RestingQty(nb, x) \in Int /\ RestingQty(b, x) \in Int
  <1>1. PICK f : f = [i \in LiveIds(b) |-> OrderOf(b, i).qty]
    BY Zenon
  <1>2. PICK f1 : f1 = [i \in LiveIds(nb) |-> OrderOf(nb, i).qty]
    BY Zenon
  <1>3. PICK S : S = IdsAt(b, x)
    OBVIOUS
  <1>4. PICK S1 : S1 = IdsAt(nb, x)
    OBVIOUS
  <1>5. /\ S \subseteq LiveIds(b) /\ S1 \subseteq LiveIds(nb)
        /\ \A i : i # id => (i \in S1 <=> i \in S)
    BY <1>3, <1>4 DEF IdsAt
  <1>6. IsFiniteSet(S) /\ IsFiniteSet(S1)
    BY <1>5, Zenon DEF FiniteSetFacts, QtysTyped
  <1>7. /\ \A i \in S : f[i] = OrderOf(b, i).qty /\ f[i] \in Int
        /\ \A i \in S1 : f1[i] = OrderOf(nb, i).qty /\ f1[i] \in Int
    BY <1>1, <1>2, <1>5 DEF QtysTyped
  <1>8. \A i : i # id /\ i \in S => f1[i] = f[i]
    BY <1>5, <1>7
  <1>9. Differs(f, S, f1, S1, id)
    BY <1>5, <1>6, <1>7, <1>8 DEF Differs
  <1>10. /\ SumFunctionOnSet(f1, S1) - (IF id \in S1 THEN f1[id] ELSE 0)
               = SumFunctionOnSet(f, S) - (IF id \in S THEN f[id] ELSE 0)
         /\ SumFunctionOnSet(f, S) \in Int /\ SumFunctionOnSet(f1, S1) \in Int
    BY <1>9 DEF SumFacts, SumDiffers
  <1>11. RestingQty(b, x) = SumFunctionOnSet(f, S) /\ RestingQty(nb, x) = SumFunctionOnSet(f1, S1)
    BY <1>1, <1>2, <1>3, <1>4 DEF RestingQty
  <1>12. /\ QtyOf(b, id, x) = IF id \in S THEN f[id] ELSE 0
         /\ QtyOf(nb, id, x) = IF id \in S1 THEN f1[id] ELSE 0
    BY <1>3, <1>4, <1>7 DEF QtyOf
  <1> QED
    BY <1>10, <1>11, <1>12

\* A sound book's quantities are integers.
LEMMA BookQtysTyped ==
    ASSUME NEW b, BookInv(b)
    PROVE  QtysTyped(b)
  <1>1. b.order_map \in [LiveIds(b) -> Slots] /\ b.storage \in [Slots -> Orders]
    BY DEF BookInv, BookTypeOK
  <1>2. \A i \in LiveIds(b) : OrderOf(b, i) \in Orders
    BY <1>1 DEF OrderOf
  <1>3. \A i \in LiveIds(b) : OrderOf(b, i).qty \in Int
    BY <1>2, QtyModulus DEF Orders, Qtys
  <1> QED
    BY <1>3 DEF QtysTyped, BookInv, BookSlotsCounted

\* add_order keeps the sums of the levels.
LEMMA AddOrderSums ==
    ASSUME SumFacts, FiniteSetFacts, NEW b, BookInv(b), NEW client \in Nat, NEW id \in Nat,
           NEW side \in Sides, NEW price \in Int, NEW qty \in Qtys, CanAdd(b, id)
    PROVE  BookLevelsSumQuantities(AddOrder(b, client, id, side, price, qty))
  <1>1. PICK nb : nb = AddOrder(b, client, id, side, price, qty)
    OBVIOUS
  <1>2. PICK k : k = <<side, price>>
    BY Zenon
  <1>3. /\ LiveIds(nb) = LiveIds(b) \cup {id}
        /\ OrderOf(nb, id) = NewOrder(b, client, id, side, price, qty)
        /\ \A i \in LiveIds(b) : OrderOf(nb, i) = OrderOf(b, i)
    BY <1>1, AddOrderFacts
  <1>4. KeyOf(OrderOf(nb, id)) = k /\ OrderOf(nb, id).qty = qty /\ qty \in Int
    BY <1>2, <1>3, QtyModulus DEF NewOrder, KeyOf, Qtys
  <1>5. id \notin LiveIds(b)
    BY DEF CanAdd
  <1>6. QtysTyped(b) /\ BookLevelsSumQuantities(b) /\ BookLevelsCountOrders(b)
    BY BookQtysTyped DEF BookInv
  <1>7. QtysTyped(nb)
    BY <1>3, <1>4, <1>6, Zenon DEF QtysTyped, FiniteSetFacts
  <1>8. ASSUME NEW x
        PROVE  /\ RestingQty(nb, x) = RestingQty(b, x) + (IF x = k THEN qty ELSE 0)
               /\ RestingQty(b, x) \in Int
    <2>1. /\ RestingQty(nb, x) - QtyOf(nb, id, x) = RestingQty(b, x) - QtyOf(b, id, x)
          /\ RestingQty(nb, x) \in Int /\ RestingQty(b, x) \in Int
      BY <1>3, <1>6, <1>7, QtyMoves
    <2>2. QtyOf(b, id, x) = 0 /\ QtyOf(nb, id, x) = IF x = k THEN qty ELSE 0
      BY <1>3, <1>4, <1>5 DEF QtyOf, IdsAt
    <2> QED
      BY <1>4, <2>1, <2>2
  <1>9. PICK old : old = LevelOrNew(b, k)
    OBVIOUS
  <1>10. PICK new : new = LevelWith(old, AllocatedIndex(b.pool), qty)
    OBVIOUS
  <1>11. nb.levels = Put(b.levels, k, new)
    BY <1>1, <1>2, <1>9, <1>10 DEF AddOrder
  <1>12. old.total_qty = RestingQty(b, k) % QtyMod
    <2>1. CASE k \in DOMAIN b.levels
      BY <1>6, <1>9, <2>1 DEF LevelOrNew, BookLevelsSumQuantities, RestingQty
    <2>2. CASE k \notin DOMAIN b.levels
      <3>1. IdsAt(b, k) = {}
        BY <1>6, <2>2 DEF BookLevelsCountOrders, IdsAt
      <3>2. RestingQty(b, k) = 0
        BY <3>1 DEF RestingQty, SumFacts, SumOfNone
      <3>3. old.total_qty = 0
        BY <1>9, <2>2 DEF LevelOrNew, NewLevel
      <3> QED
        BY <3>2, <3>3, QtyModulus
    <2> QED
      BY <2>1, <2>2
  <1>13. new.total_qty = (old.total_qty + qty) % QtyMod
    BY <1>10 DEF LevelWith
  <1>14. new.total_qty = RestingQty(nb, k) % QtyMod
    BY <1>4, <1>8, <1>12, <1>13, ModSum
  <1>15. ASSUME NEW x \in DOMAIN nb.levels
         PROVE  nb.levels[x].total_qty = RestingQty(nb, x) % QtyMod
    <2>1. CASE x = k
      BY <1>11, <1>14, <2>1 DEF Put
    <2>2. CASE x # k
      <3>1. x \in DOMAIN b.levels /\ nb.levels[x] = b.levels[x]
        BY <1>11, <2>2 DEF Put
      <3>2. RestingQty(nb, x) = RestingQty(b, x)
        BY <1>8, <2>2
      <3> QED
        BY <1>6, <3>1, <3>2 DEF BookLevelsSumQuantities, RestingQty
    <2> QED
      BY <2>1, <2>2
  <1> QED
    BY <1>1, <1>15 DEF BookLevelsSumQuantities, RestingQty

\* add_order preserves the book invariant.
LEMMA AddOrderInv ==
    ASSUME SumFacts, FiniteSetFacts, NEW b, BookInv(b), NEW client \in Nat, NEW id \in Nat,
           NEW side \in Sides, NEW price \in Int, NEW qty \in Qtys, CanAdd(b, id)
    PROVE  BookInv(AddOrder(b, client, id, side, price, qty))
  <1> DEFINE nb  == AddOrder(b, client, id, side, price, qty)
             idx == AllocatedIndex(b.pool)
             no  == NewOrder(b, client, id, side, price, qty)
             k   == <<side, price>>
             old == LevelOrNew(b, k)
             new == LevelWith(old, idx, qty)
  <1>1. /\ idx \in Slots /\ idx \in FreeSlots(b.pool)
        /\ \A i \in LiveIds(b) : b.order_map[i] # idx
        /\ LiveIds(nb) = LiveIds(b) \cup {id}
        /\ nb.order_map[id] = idx
        /\ \A i \in LiveIds(b) : nb.order_map[i] = b.order_map[i]
        /\ OrderOf(nb, id) = no
        /\ \A i \in LiveIds(b) : OrderOf(nb, i) = OrderOf(b, i)
    BY AddOrderFacts
  <1>2. id \notin LiveIds(b)
    BY DEF CanAdd
  <1>3. /\ nb.levels = Put(b.levels, k, new)
        /\ nb.order_map = Put(b.order_map, id, idx)
        /\ nb.storage = [b.storage EXCEPT ![idx] = no]
        /\ nb.pool = Allocate(b.pool)
        /\ nb.next_priority = b.next_priority + 1
    BY DEF AddOrder
  <1>4. /\ BookTypeOK(b) /\ BookSlotsPartitioned(b)
        /\ BookSlotsCounted(b) /\ BookLevelsCountOrders(b)
    BY Zenon DEF BookInv
  <1>5. /\ nb.pool \in Pools /\ DistinctFree(nb.pool)
        /\ FreeSlots(nb.pool) = FreeSlots(b.pool) \ {idx}
        /\ nb.pool.free_count = b.pool.free_count - 1
    <2>1. b.pool \in Pools /\ DistinctFree(b.pool) /\ CanAllocate(b.pool)
      BY <1>4, Zenon DEF BookTypeOK, BookSlotsPartitioned, CanAdd
    <2>2. nb.pool = Allocate(b.pool)
      BY <1>3, Zenon
    <2> HIDE DEF nb
    <2> QED
      BY <2>1, <2>2, AllocateFacts, Zenon
  <1>6. old \in Levels /\ new \in Levels /\ new.order_count = old.order_count + 1
    <2>1. NewLevel \in Levels
      BY QtyModulus DEF NewLevel, Levels, Qtys, OptSlots
    <2>2. old \in Levels
      BY <1>4, <2>1, Zenon DEF LevelOrNew, BookTypeOK
    <2> HIDE DEF old
    <2> QED
      BY <1>1, <2>2, LevelFacts
  <1>7. no \in Orders /\ KeyOf(no) = k
    <2>1. old.tail_idx \in OptSlots
      BY <1>6 DEF Levels
    <2>2. b.next_priority \in Nat
      BY <1>4, Zenon DEF BookTypeOK
    <2> QED
      BY <2>1, <2>2 DEF NewOrder, Orders, KeyOf, OptSlots
  <1>8. BookTypeOK(nb)
    <2>1. nb.order_map \in [LiveIds(nb) -> Slots] /\ LiveIds(nb) \subseteq Nat
      <3> HIDE DEF nb, idx
      <3> QED
        BY <1>1, <1>3, <1>4, ZenonT(30) DEF BookTypeOK, Put, LiveIds
    <2>2. nb.levels \in [DOMAIN nb.levels -> Levels]
      <3> HIDE DEF nb, new, k
      <3> QED
        BY <1>3, <1>4, <1>6 DEF BookTypeOK, Put
    <2>3. DOMAIN nb.levels \subseteq Sides \X Int
      <3>1. k \in Sides \X Int
        BY Zenon
      <3> HIDE DEF nb, new, k
      <3> QED
        BY <1>3, <1>4, <3>1 DEF BookTypeOK, Put
    <2>4. nb.storage \in [Slots -> Orders]
      <3> HIDE DEF nb, no, idx
      <3> QED
        BY <1>1, <1>3, <1>4, <1>7, Zenon DEF BookTypeOK
    <2>5. nb.next_priority \in Nat \ {0}
      <3> HIDE DEF nb
      <3> QED
        BY <1>3, <1>4 DEF BookTypeOK
    <2>6. IsBook(nb)
      BY ZenonT(30) DEF IsBook, AddOrder
    <2> HIDE DEF nb
    <2> QED
      BY <1>5, <2>1, <2>2, <2>3, <2>4, <2>5, <2>6, Zenon DEF BookTypeOK
  <1>9. BookSlotsPartitioned(nb)
    <2> HIDE DEF nb, idx
    <2>1. \A i, j \in LiveIds(nb) : nb.order_map[i] = nb.order_map[j] => i = j
      BY <1>1, <1>4, Zenon DEF BookSlotsPartitioned
    <2>2. ASSUME NEW s \in Slots
          PROVE  (s \in FreeSlots(nb.pool))
                    <=> ~(\E i \in LiveIds(nb) : nb.order_map[i] = s)
      BY <1>1, <1>4, <1>5, ZenonT(30) DEF BookSlotsPartitioned
    <2> QED
      BY <1>5, <2>1, <2>2, Zenon DEF BookSlotsPartitioned
  <1>10. BookSlotsCounted(nb)
    <2>1. /\ IsFiniteSet(LiveIds(nb))
          /\ Cardinality(LiveIds(nb)) = Cardinality(LiveIds(b)) + 1
      BY <1>1, <1>2, <1>4, Zenon DEF BookSlotsCounted, FiniteSetFacts
    <2>2. Cardinality(LiveIds(b)) \in Nat
      BY <1>4, Zenon DEF BookSlotsCounted, FiniteSetFacts
    <2>3. b.pool.free_count \in 0 .. N
      BY <1>4 DEF BookTypeOK, Pools
    <2> HIDE DEF nb
    <2> QED
      BY <1>4, <1>5, <2>1, <2>2, <2>3, PoolCapacity DEF BookSlotsCounted
  <1>11. BookLevelsCountOrders(nb)
    <2>1. \A i \in LiveIds(b) : KeyOf(OrderOf(nb, i)) = KeyOf(OrderOf(b, i))
      BY <1>1, Zenon
    <2>2. KeyOf(OrderOf(nb, id)) = k
      BY <1>1, <1>7, Zenon
    <2>3. IdsAt(nb, k) = IdsAt(b, k) \cup {id}
      <3> HIDE DEF nb, k
      <3> QED
        BY <1>1, <2>1, <2>2, Zenon DEF IdsAt
    <2>4. ASSUME NEW x, x # k
          PROVE  IdsAt(nb, x) = IdsAt(b, x)
      <3> HIDE DEF nb, k
      <3> QED
        BY <1>1, <2>1, <2>2, <2>4, Zenon DEF IdsAt
    <2>5. DOMAIN nb.levels = DOMAIN b.levels \cup {k}
      <3> HIDE DEF nb, k, new
      <3> QED
        BY <1>3, Zenon DEF Put
    <2>6. DOMAIN nb.levels = {KeyOf(OrderOf(nb, i)) : i \in LiveIds(nb)}
      <3> HIDE DEF nb, k
      <3> QED
        BY <1>1, <1>4, <2>1, <2>2, <2>5 DEF BookLevelsCountOrders
    <2>7. old.order_count = Cardinality(IdsAt(b, k))
      <3>1. CASE k \in DOMAIN b.levels
        <4> HIDE DEF k
        <4> QED
          BY <1>4, <3>1 DEF LevelOrNew, BookLevelsCountOrders
      <3>2. CASE k \notin DOMAIN b.levels
        <4>1. IdsAt(b, k) = {}
          <5> HIDE DEF k
          <5> QED
            BY <1>4, <3>2 DEF BookLevelsCountOrders, IdsAt
        <4>2. old.order_count = 0
          BY <3>2 DEF LevelOrNew, NewLevel
        <4> QED
          BY <4>1, <4>2, Zenon DEF FiniteSetFacts
      <3> QED
        BY <3>1, <3>2
    <2>8. Cardinality(IdsAt(b, k) \cup {id}) = Cardinality(IdsAt(b, k)) + 1
      <3>1. IsFiniteSet(IdsAt(b, k))
        BY <1>4, Zenon DEF BookSlotsCounted, IdsAt, FiniteSetFacts
      <3>2. id \notin IdsAt(b, k)
        BY <1>2 DEF IdsAt
      <3> QED
        BY <3>1, <3>2, Zenon DEF FiniteSetFacts
    <2>9. ASSUME NEW x \in DOMAIN nb.levels
          PROVE  nb.levels[x].order_count = Cardinality(IdsAt(nb, x))
      <3>1. CASE x = k
        <4>1. nb.levels[k] = new
          BY <1>3 DEF Put
        <4> HIDE DEF nb, new, old, k
        <4> QED
          BY <1>6, <2>3, <2>7, <2>8, <3>1, <4>1, Zenon
      <3>2. CASE x # k
        <4> HIDE DEF nb, new, k
        <4>1. x \in DOMAIN b.levels /\ nb.levels[x] = b.levels[x]
          BY <1>3, <2>5, <3>2 DEF Put
        <4> QED
          BY <1>4, <2>4, <3>2, <4>1, Zenon DEF BookLevelsCountOrders
      <3> QED
        BY <3>1, <3>2
    <2> HIDE DEF nb
    <2> QED
      BY <2>6, <2>9, Zenon DEF BookLevelsCountOrders
  <1>12. BookLevelsSumQuantities(nb)
    BY AddOrderSums, Zenon
  <1> QED
    BY <1>8, <1>9, <1>10, <1>11, <1>12, Zenon DEF BookInv

-----------------------------------------------------------------------------
\* What a successful cancel_order does to the parts of the book that BookInv
\* speaks of: the other resting orders keep their slots and their contents.
LEMMA CancelOrderFacts ==
    ASSUME NEW b, BookInv(b), NEW id, CanCancel(b, id)
    PROVE  LET nb == CancelOrder(b, id)
           IN  /\ LiveIds(nb) = LiveIds(b) \ {id}
               /\ \A i \in LiveIds(nb) : nb.order_map[i] = b.order_map[i]
               /\ nb.storage \in [Slots -> Orders]
               /\ \A i \in LiveIds(nb) : SameEntry(OrderOf(nb, i), OrderOf(b, i))
  <1> DEFINE nb == CancelOrder(b, id)
             o  == OrderOf(b, id)
  <1>1. /\ id \in LiveIds(b)
        /\ b.order_map \in [LiveIds(b) -> Slots]
        /\ b.storage \in [Slots -> Orders]
    BY Zenon DEF CanCancel, BookInv, BookTypeOK
  <1>2. o \in Orders
    BY <1>1 DEF OrderOf
  <1>3. /\ nb.order_map = Drop(b.order_map, id)
        /\ nb.storage = Unlink(b.storage, o)
    BY ZenonT(30) DEF CancelOrder, OrderOf
  <1> HIDE DEF nb, o
  <1>4. /\ LiveIds(nb) = LiveIds(b) \ {id}
        /\ \A i \in LiveIds(nb) : nb.order_map[i] = b.order_map[i]
    BY <1>3, Zenon DEF Drop, LiveIds
  <1>5. /\ nb.storage \in [Slots -> Orders]
        /\ \A s \in Slots : SameEntry(nb.storage[s], b.storage[s])
    BY <1>1, <1>2, <1>3, UnlinkFacts, Zenon
  <1>6. \A i \in LiveIds(nb) : SameEntry(OrderOf(nb, i), OrderOf(b, i))
    BY <1>1, <1>4, <1>5, Zenon DEF OrderOf
  <1> QED
    BY <1>4, <1>5, <1>6, Zenon DEF nb

\* cancel_order keeps the sums of the levels.
LEMMA CancelOrderSums ==
    ASSUME SumFacts, FiniteSetFacts, NEW b, BookInv(b), NEW id, CanCancel(b, id)
    PROVE  BookLevelsSumQuantities(CancelOrder(b, id))
  <1>1. PICK nb : nb = CancelOrder(b, id)
    OBVIOUS
  <1>2. PICK o : o = OrderOf(b, id)
    OBVIOUS
  <1>3. PICK k : k = KeyOf(o)
    OBVIOUS
  <1>4. PICK new : new = LevelWithout(b.levels[k], o)
    OBVIOUS
  <1>5. /\ LiveIds(nb) = LiveIds(b) \ {id}
        /\ \A i \in LiveIds(nb) : SameEntry(OrderOf(nb, i), OrderOf(b, i))
    BY <1>1, CancelOrderFacts
  <1>6. id \in LiveIds(b) /\ k \in DOMAIN b.levels
    BY <1>2, <1>3 DEF CanCancel
  <1>7. QtysTyped(b) /\ BookLevelsSumQuantities(b)
    BY BookQtysTyped DEF BookInv
  <1>8. \A i \in LiveIds(b) : i # id => /\ KeyOf(OrderOf(nb, i)) = KeyOf(OrderOf(b, i))
                                        /\ OrderOf(nb, i).qty = OrderOf(b, i).qty
    BY <1>5 DEF SameEntry, KeyOf
  <1>9. QtysTyped(nb)
    BY <1>5, <1>7, <1>8 DEF QtysTyped, FiniteSetFacts
  <1>10. ASSUME NEW x
         PROVE  /\ RestingQty(nb, x) = RestingQty(b, x) - (IF x = k THEN o.qty ELSE 0)
                /\ RestingQty(b, x) \in Int
    <2>1. /\ RestingQty(nb, x) - QtyOf(nb, id, x) = RestingQty(b, x) - QtyOf(b, id, x)
          /\ RestingQty(nb, x) \in Int /\ RestingQty(b, x) \in Int
      BY <1>5, <1>7, <1>8, <1>9, QtyMoves
    <2>2. QtyOf(nb, id, x) = 0 /\ QtyOf(b, id, x) = IF x = k THEN o.qty ELSE 0
      BY <1>2, <1>3, <1>5, <1>6 DEF QtyOf, IdsAt
    <2>3. o.qty \in Int
      BY <1>2, <1>6, <1>7 DEF QtysTyped
    <2> QED
      BY <2>1, <2>2, <2>3
  <1>11. new.total_qty = RestingQty(nb, k) % QtyMod
    <2>1. b.levels[k].total_qty = RestingQty(b, k) % QtyMod
      BY <1>6, <1>7, Zenon DEF BookLevelsSumQuantities, RestingQty
    <2>2. new.total_qty = (b.levels[k].total_qty - o.qty) % QtyMod
      BY <1>4 DEF LevelWithout
    <2>3. o.qty \in Int /\ RestingQty(b, k) \in Int /\ RestingQty(nb, k) = RestingQty(b, k) - o.qty
      BY <1>2, <1>6, <1>7, <1>10 DEF QtysTyped
    <2>4. PICK q \in Int : q = -o.qty
      BY <2>3
    <2>5. ((RestingQty(b, k) % QtyMod) + q) % QtyMod = (RestingQty(b, k) + q) % QtyMod
      BY <2>3, <2>4, ModSum, Zenon
    <2>6. (RestingQty(b, k) % QtyMod) + q = (RestingQty(b, k) % QtyMod) - o.qty
      BY <2>3, <2>4, QtyModulus
    <2>7. RestingQty(b, k) + q = RestingQty(nb, k)
      BY <2>3, <2>4
    <2> QED
      BY <2>1, <2>2, <2>5, <2>6, <2>7, Zenon
  <1>12. nb.levels = IF new.order_count = 0 THEN Drop(b.levels, k) ELSE Put(b.levels, k, new)
    BY <1>1, <1>2, <1>3, <1>4, Zenon DEF CancelOrder, OrderOf
  <1>13. ASSUME NEW x \in DOMAIN nb.levels
         PROVE  nb.levels[x].total_qty = RestingQty(nb, x) % QtyMod
    <2>1. CASE x = k
      <3>1. nb.levels[k] = new
        BY <1>12, <1>13, <2>1, Zenon DEF Put, Drop
      <3> QED
        BY <1>11, <2>1, <3>1
    <2>2. CASE x # k
      <3>1. x \in DOMAIN b.levels /\ nb.levels[x] = b.levels[x]
        BY <1>12, <1>13, <2>2 DEF Put, Drop
      <3>2. RestingQty(nb, x) = RestingQty(b, x)
        BY <1>10, <2>2
      <3> QED
        BY <1>7, <3>1, <3>2, Zenon DEF BookLevelsSumQuantities, RestingQty
    <2> QED
      BY <2>1, <2>2
  <1> QED
    BY <1>1, <1>13 DEF BookLevelsSumQuantities, RestingQty

\* Only the empty set has no elements.
LEMMA EmptyCounts ==
    ASSUME FiniteSetFacts, NEW S, IsFiniteSet(S)
    PROVE  Cardinality(S) = 0 <=> S = {}
  <1>1. ASSUME NEW x \in S
        PROVE  Cardinality(S) # 0
    <2>1. Cardinality(S) \in Nat /\ Cardinality(S \ {x}) \in Nat /\ Cardinality(S \ {x}) = Cardinality(S) - 1
      BY <1>1 DEF FiniteSetFacts
    <2> QED
      BY <2>1
  <1> QED
    BY <1>1 DEF FiniteSetFacts

\* Taking one element away leaves one fewer.
LEMMA OneFewer ==
    ASSUME FiniteSetFacts, NEW S, IsFiniteSet(S), NEW x \in S
    PROVE  /\ Cardinality(S) \in Nat /\ Cardinality(S) > 0
           /\ IsFiniteSet(S \ {x}) /\ Cardinality(S \ {x}) = Cardinality(S) - 1
  <1>1. /\ Cardinality(S) \in Nat /\ IsFiniteSet(S \ {x}) /\ Cardinality(S \ {x}) \in Nat
        /\ Cardinality(S \ {x}) = Cardinality(S) - 1
    BY DEF FiniteSetFacts
  <1> QED
    BY <1>1

\* cancel_order preserves the book invariant.
LEMMA CancelOrderInv ==
    ASSUME SumFacts, FiniteSetFacts, NEW b, BookInv(b), NEW id, CanCancel(b, id)
    PROVE  BookInv(CancelOrder(b, id))
  <1> DEFINE nb  == CancelOrder(b, id)
             idx == b.order_map[id]
             o   == OrderOf(b, id)
             k   == KeyOf(o)
             new == LevelWithout(b.levels[k], o)
  <1>1. /\ LiveIds(nb) = LiveIds(b) \ {id}
        /\ \A i \in LiveIds(nb) : nb.order_map[i] = b.order_map[i]
        /\ nb.storage \in [Slots -> Orders]
        /\ \A i \in LiveIds(nb) : SameEntry(OrderOf(nb, i), OrderOf(b, i))
    BY CancelOrderFacts
  <1>2. id \in LiveIds(b) /\ k \in DOMAIN b.levels
    BY DEF CanCancel
  <1>3. /\ BookTypeOK(b) /\ BookSlotsPartitioned(b)
        /\ BookSlotsCounted(b) /\ BookLevelsCountOrders(b)
    BY DEF BookInv
  <1>4. /\ nb.levels = IF new.order_count = 0 THEN Drop(b.levels, k)
                       ELSE Put(b.levels, k, new)
        /\ nb.order_map = Drop(b.order_map, id)
        /\ nb.pool = Deallocate(b.pool, idx)
        /\ nb.next_priority = b.next_priority
    BY ZenonT(30) DEF CancelOrder, OrderOf
  <1>5. idx \in Slots /\ o \in Orders /\ b.levels[k] \in Levels
    <2>1. idx \in Slots
      BY <1>2, <1>3, Zenon DEF BookTypeOK
    <2>2. o \in Orders
      BY <1>3, <2>1, Zenon DEF BookTypeOK, OrderOf
    <2> HIDE DEF k
    <2> QED
      BY <1>2, <1>3, <2>1, <2>2, Zenon DEF BookTypeOK
  <1> HIDE DEF nb, idx, o, new
  <1>6. /\ IsFiniteSet(LiveIds(nb)) /\ Cardinality(LiveIds(b)) \in Nat
        /\ Cardinality(LiveIds(nb)) = Cardinality(LiveIds(b)) - 1
        /\ Cardinality(LiveIds(nb)) \in Nat
    BY <1>1, <1>2, <1>3, Zenon DEF BookSlotsCounted, FiniteSetFacts
  <1>7. b.pool \in Pools /\ b.pool.free_count \in 0 .. N
    BY <1>3, Zenon DEF BookTypeOK, Pools
  <1>8. HasRoom(b.pool)
    BY <1>3, <1>6, <1>7, PoolCapacity DEF BookSlotsCounted, HasRoom
  <1>9. idx \notin FreeSlots(b.pool)
    BY <1>2, <1>3, <1>5, Zenon DEF BookSlotsPartitioned, idx
  <1>10. /\ nb.pool \in Pools /\ DistinctFree(nb.pool)
         /\ FreeSlots(nb.pool) = FreeSlots(b.pool) \cup {idx}
         /\ nb.pool.free_count = b.pool.free_count + 1
    <2>1. DistinctFree(b.pool)
      BY <1>3, Zenon DEF BookSlotsPartitioned
    <2>2. nb.pool = Deallocate(b.pool, idx)
      BY <1>4, Zenon
    <2> QED
      BY <1>5, <1>7, <1>8, <1>9, <2>1, <2>2, DeallocateFacts
  <1>11. \A i \in LiveIds(nb) : KeyOf(OrderOf(nb, i)) = KeyOf(OrderOf(b, i))
    BY <1>1 DEF SameEntry, KeyOf
  <1>12. IsFiniteSet(IdsAt(b, k)) /\ id \in IdsAt(b, k)
    <2>1. IsFiniteSet(IdsAt(b, k))
      BY <1>3, ZenonT(30) DEF BookSlotsCounted, IdsAt, FiniteSetFacts
    <2> QED
      BY <1>2, <2>1 DEF IdsAt, o
  <1>13. /\ Cardinality(IdsAt(b, k)) \in Nat
         /\ Cardinality(IdsAt(b, k)) > 0
         /\ IsFiniteSet(IdsAt(b, k) \ {id})
         /\ Cardinality(IdsAt(b, k) \ {id}) = Cardinality(IdsAt(b, k)) - 1
    <2> HIDE DEF k
    <2> QED
      BY <1>12, OneFewer
  <1>14. /\ b.levels[k].order_count = Cardinality(IdsAt(b, k))
         /\ new \in Levels
         /\ new.order_count = Cardinality(IdsAt(b, k) \ {id})
    <2> HIDE DEF k
    <2>1. b.levels[k].order_count = Cardinality(IdsAt(b, k))
      BY <1>2, <1>3 DEF BookLevelsCountOrders
    <2>2. /\ new \in Levels
          /\ new.order_count = b.levels[k].order_count - 1
      BY <1>5, <1>13, <2>1, LevelWithoutFacts DEF new
    <2> QED
      BY <1>13, <2>1, <2>2
  <1> HIDE DEF k
  <1>15. IdsAt(nb, k) = IdsAt(b, k) \ {id}
    BY <1>1, <1>11 DEF IdsAt
  <1>16. ASSUME NEW x, x # k
         PROVE  IdsAt(nb, x) = IdsAt(b, x)
    BY <1>1, <1>11, <1>16 DEF IdsAt, k, o
  <1>17. \A x \in DOMAIN nb.levels : x # k => x \in DOMAIN b.levels /\ nb.levels[x] = b.levels[x]
    BY <1>4 DEF Put, Drop
  <1>18. BookTypeOK(nb)
    <2>1. nb.order_map \in [LiveIds(nb) -> Slots] /\ LiveIds(nb) \subseteq Nat
      <3>1. b.order_map \in [LiveIds(b) -> Slots] /\ LiveIds(b) \subseteq Nat
        BY <1>3, Zenon DEF BookTypeOK
      <3>2. nb.order_map \in [LiveIds(b) \ {id} -> Slots]
        <4>1. Drop(b.order_map, id) \in [LiveIds(b) \ {id} -> Slots]
          BY <3>1, MapTyped, Zenon
        <4> QED
          BY <1>4, <4>1, Zenon
      <3> QED
        BY <1>1, <3>1, <3>2, Zenon
    <2>2. /\ nb.levels \in [DOMAIN nb.levels -> Levels]
          /\ DOMAIN nb.levels \subseteq Sides \X Int
      <3>1. b.levels \in [DOMAIN b.levels -> Levels] /\ DOMAIN b.levels \subseteq Sides \X Int
        BY <1>3, Zenon DEF BookTypeOK
      <3>2. /\ Drop(b.levels, k) \in [DOMAIN b.levels \ {k} -> Levels]
            /\ Put(b.levels, k, new) \in [DOMAIN b.levels \cup {k} -> Levels]
        BY <1>14, <3>1, MapTyped, Zenon
      <3>3. CASE new.order_count = 0
        BY <1>4, <3>1, <3>2, <3>3, Zenon
      <3>4. CASE new.order_count # 0
        BY <1>2, <1>4, <3>1, <3>2, <3>4, Zenon
      <3> QED
        BY <3>3, <3>4, Zenon
    <2>3. IsBook(nb)
      BY Zenon DEF IsBook, CancelOrder, nb
    <2> QED
      BY <1>1, <1>3, <1>4, <1>10, <2>1, <2>2, <2>3, Zenon DEF BookTypeOK
  <1>19. BookSlotsPartitioned(nb)
    <2>1. \A i, j \in LiveIds(nb) : nb.order_map[i] = nb.order_map[j] => i = j
      BY <1>1, <1>3, Zenon DEF BookSlotsPartitioned
    <2>2. ASSUME NEW s \in Slots
          PROVE  (s \in FreeSlots(nb.pool))
                    <=> ~(\E i \in LiveIds(nb) : nb.order_map[i] = s)
      BY <1>1, <1>2, <1>3, <1>10, Zenon DEF BookSlotsPartitioned, idx
    <2> QED
      BY <1>10, <2>1, <2>2, Zenon DEF BookSlotsPartitioned
  <1>20. BookSlotsCounted(nb)
    BY <1>3, <1>6, <1>7, <1>10, PoolCapacity DEF BookSlotsCounted
  <1>21. BookLevelsCountOrders(nb)
    <2>1. ASSUME NEW x \in DOMAIN nb.levels
          PROVE  nb.levels[x].order_count = Cardinality(IdsAt(nb, x))
      <3>1. CASE x = k
        <4>1. nb.levels[k] = new
          BY <1>4, <2>1, <3>1, Zenon DEF Put, Drop
        <4> QED
          BY <1>14, <1>15, <3>1, <4>1, Zenon
      <3>2. CASE x # k
        BY <1>3, <1>16, <1>17, <3>2, Zenon DEF BookLevelsCountOrders
      <3> QED
        BY <3>1, <3>2
    <2>2. \A x : x # k => (x \in DOMAIN nb.levels <=> x \in DOMAIN b.levels)
      BY <1>4, ZenonT(30) DEF Put, Drop
    <2>3. k \in DOMAIN nb.levels <=> IdsAt(nb, k) # {}
      <3>1. new.order_count = 0 <=> IdsAt(nb, k) = {}
        BY <1>13, <1>14, <1>15, EmptyCounts, Zenon
      <3> QED
        BY <1>4, <3>1, Zenon DEF Put, Drop
    <2>4. \A x : x \in DOMAIN b.levels <=> IdsAt(b, x) # {}
      BY <1>3 DEF BookLevelsCountOrders, IdsAt
    <2>5. \A x : x \in DOMAIN nb.levels <=> IdsAt(nb, x) # {}
      BY <1>16, <2>2, <2>3, <2>4, Zenon
    <2>6. DOMAIN nb.levels = {KeyOf(OrderOf(nb, i)) : i \in LiveIds(nb)}
      BY <2>5 DEF IdsAt
    <2> QED
      BY <2>1, <2>6 DEF BookLevelsCountOrders
  <1>22. BookLevelsSumQuantities(nb)
    BY CancelOrderSums DEF nb
  <1> QED
    BY <1>18, <1>19, <1>20, <1>21, <1>22, Zenon DEF BookInv, nb

\* cancel_order returns None exactly for an unknown id: the two later early
\* returns are unreachable.
LEMMA CancelNoneUnknown ==
    ASSUME NEW b, BookInv(b), NEW id
    PROVE  CanCancel(b, id) <=> id \in LiveIds(b)
  <1>1. ASSUME id \in LiveIds(b)
        PROVE  InBounds(b.order_map[id]) /\ KeyOf(OrderOf(b, id)) \in DOMAIN b.levels
    BY <1>1 DEF BookInv, BookTypeOK, BookLevelsCountOrders, InBounds
  <1> QED
    BY <1>1, Zenon DEF CanCancel

\* A cancel_order that returns None leaves the book as it was.
LEMMA CancelFailedUnchanged ==
    ASSUME NEW b, BookInv(b), NEW id, ~CanCancel(b, id)
    PROVE  CancelFailed(b, id) = b
  <1>1. id \notin DOMAIN b.order_map
    BY CancelNoneUnknown, Zenon DEF LiveIds
  <1>2. b.order_map \in [DOMAIN b.order_map -> Slots] /\ IsBook(b)
    BY Zenon DEF BookInv, BookTypeOK, LiveIds
  <1>3. Drop(b.order_map, id) = b.order_map
    BY <1>1, <1>2 DEF Drop
  <1> QED
    BY <1>2, <1>3 DEF CancelFailed, IsBook
-----------------------------------------------------------------------------
Sound == BookInv(book)

\* Every call keeps the book sound.
LEMMA BookStep ==
    ASSUME SumFacts, FiniteSetFacts, Sound, [BookNext]_book
    PROVE  Sound'
  <1>1. ASSUME NEW client \in Clients, NEW id \in OrderIds, NEW side \in Sides,
               NEW price \in Prices, NEW qty \in OrderQtys,
               add_order(client, id, side, price, qty)
        PROVE  Sound'
    <2>1. client \in Nat /\ id \in Nat /\ price \in Int /\ qty \in Qtys
      BY CallerAssumption, OrderAssumption
    <2> QED
      BY <1>1, <2>1, AddOrderInv DEF add_order, Sound
  <1>2. ASSUME NEW id \in OrderIds, add_order_none(id)
        PROVE  Sound'
    BY <1>2 DEF add_order_none, Sound
  <1>3. ASSUME NEW id \in OrderIds, cancel_order(id)
        PROVE  Sound'
    BY <1>3, CancelOrderInv DEF cancel_order, Sound
  <1>4. ASSUME NEW id \in OrderIds, cancel_order_none(id)
        PROVE  Sound'
    BY <1>4, CancelFailedUnchanged DEF cancel_order_none, Sound
  <1>5. CASE UNCHANGED book
    BY <1>5 DEF Sound
  <1> QED
    BY <1>1, <1>2, <1>3, <1>4, <1>5 DEF BookNext

\* A sound book refuses only for the documented reasons.
LEMMA SoundRefuses ==
    ASSUME FiniteSetFacts, Sound
    PROVE  RefusalsJustified
  <1> SUFFICES ASSUME NEW id \in OrderIds
               PROVE  /\ CanAdd(book, id) <=> /\ id \notin LiveIds(book)
                                              /\ Cardinality(LiveIds(book)) < N
                      /\ CanCancel(book, id) <=> id \in LiveIds(book)
    BY Zenon DEF RefusalsJustified
  <1>1. book.pool.free_count \in 0 .. N
    BY Zenon DEF Sound, BookInv, BookTypeOK, Pools
  <1>2. /\ Cardinality(LiveIds(book)) \in Nat
        /\ book.pool.free_count + Cardinality(LiveIds(book)) = N
    BY DEF Sound, BookInv, BookSlotsCounted, FiniteSetFacts
  <1>3. CanAllocate(book.pool) <=> Cardinality(LiveIds(book)) < N
    BY <1>1, <1>2, PoolCapacity DEF CanAllocate
  <1> QED
    BY <1>3, CancelNoneUnknown DEF CanAdd, Sound

\* The caller's view of one resting order.
View(o) == [entry    |-> [client_id |-> o.client_id, side |-> o.side,
                          price |-> o.price, qty |-> o.qty],
            priority |-> o.priority]

\* Every add_order and cancel_order is one step of the bounded map of resting
\* orders, or leaves it alone.
LEMMA BookImplements ==
    ASSUME FiniteSetFacts, Sound, [BookNext]_book
    PROVE  [Abstract!Next]_(Abstract!vars)
  <1> USE DEF Abstract!vars
  <1>0. /\ LiveOrders = [i \in LiveIds(book) |-> View(OrderOf(book, i))]
        /\ LiveOrders' = [i \in LiveIds(book') |-> View(OrderOf(book', i))]
    BY Zenon DEF LiveOrders, View
  <1>1. ASSUME NEW client \in Clients, NEW id \in OrderIds, NEW side \in Sides,
               NEW price \in Prices, NEW qty \in OrderQtys,
               add_order(client, id, side, price, qty)
        PROVE  Abstract!Next
    <2> DEFINE e == [client_id |-> client, side |-> side, price |-> price, qty |-> qty]
               no == NewOrder(book, client, id, side, price, qty)
    <2>1. client \in Nat /\ id \in Nat /\ price \in Int /\ qty \in Qtys
      BY CallerAssumption, OrderAssumption, Zenon
    <2>2. /\ LiveIds(book') = LiveIds(book) \cup {id}
          /\ OrderOf(book', id) = no
          /\ \A i \in LiveIds(book) : OrderOf(book', i) = OrderOf(book, i)
      <3>1. /\ BookInv(book) /\ CanAdd(book, id)
            /\ book' = AddOrder(book, client, id, side, price, qty)
        BY <1>1, Zenon DEF add_order, Sound
      <3> QED
        BY <1>1, <2>1, <3>1, AddedOrders
    <2>3. /\ id \notin LiveIds(book)
          /\ book.pool.free_count > 0
          /\ book'.next_priority = book.next_priority + 1
      BY <1>1, Zenon DEF add_order, AddOrder, CanAdd, CanAllocate
    <2>4. Cardinality(LiveIds(book)) < N
      <3>1. book.pool.free_count \in 0 .. N
        BY Zenon DEF Sound, BookInv, BookTypeOK, Pools
      <3>2. /\ Cardinality(LiveIds(book)) \in Nat
            /\ book.pool.free_count + Cardinality(LiveIds(book)) = N
        BY Zenon DEF Sound, BookInv, BookSlotsCounted, FiniteSetFacts
      <3> QED
        BY <2>3, <3>1, <3>2, PoolCapacity
    <2>5. View(no) = [entry |-> e, priority |-> book.next_priority]
      BY DEF View, NewOrder
    <2>6. e \in CallerEntries
      BY DEF CallerEntries
    <2>7. DOMAIN LiveOrders = LiveIds(book)
      BY <1>0, Zenon
    <2> HIDE DEF e, no
    <2>8. LiveOrders' = [x \in DOMAIN LiveOrders \cup {id} |->
                           IF x = id THEN [entry |-> e, priority |-> book.next_priority]
                           ELSE LiveOrders[x]]
      BY <1>0, <2>2, <2>3, <2>5, <2>7
    <2>9. Abstract!Cardinality(DOMAIN LiveOrders) = Cardinality(DOMAIN LiveOrders)
      BY DEF Cardinality, Abstract!Cardinality
    <2> QED
      BY <2>3, <2>4, <2>6, <2>7, <2>8, <2>9 DEF Abstract!Next, Abstract!Add
  <1>2. ASSUME NEW id \in OrderIds, add_order_none(id)
        PROVE  UNCHANGED Abstract!vars
    BY <1>0, <1>2 DEF add_order_none
  <1>3. ASSUME NEW id \in OrderIds, cancel_order(id)
        PROVE  Abstract!Next
    <2>1. /\ LiveIds(book') = LiveIds(book) \ {id}
          /\ \A i \in LiveIds(book') : SameEntry(OrderOf(book', i), OrderOf(book, i))
      BY <1>3, CancelOrderFacts DEF cancel_order, Sound
    <2>2. id \in LiveIds(book) /\ book'.next_priority = book.next_priority
      BY <1>3, ZenonT(30) DEF cancel_order, CanCancel, CancelOrder
    <2>3. \A i \in LiveIds(book') : View(OrderOf(book', i)) = View(OrderOf(book, i))
      BY <2>1 DEF SameEntry, View
    <2>4. DOMAIN LiveOrders = LiveIds(book)
      BY <1>0
    <2>5. LiveOrders' = [x \in DOMAIN LiveOrders \ {id} |-> LiveOrders[x]]
      BY <1>0, <2>1, <2>3, <2>4
    <2> QED
      BY <2>2, <2>4, <2>5, Zenon DEF Abstract!Next, Abstract!Cancel
  <1>4. ASSUME NEW id \in OrderIds, cancel_order_none(id)
        PROVE  UNCHANGED Abstract!vars
    <2>1. book' = book
      BY <1>4, CancelFailedUnchanged DEF cancel_order_none, Sound
    <2> QED
      BY <1>0, <2>1
  <1>5. CASE UNCHANGED book
    BY <1>0, <1>5
  <1> QED
    BY <1>1, <1>2, <1>3, <1>4, <1>5, Zenon DEF BookNext

-----------------------------------------------------------------------------
\* A rejection carries no market update.
RejectionsQuiet ==
    response.msg_type \in {"InvalidRequest", "CancelRejected"} => updates = <<>>

BooksAreMap == order_books = [t \in DOMAIN order_books |-> order_books[t]]

\* The inductive invariant.
Inv == /\ BooksAreMap
       /\ DOMAIN order_books \subseteq Tickers
       /\ next_order_id \in Nat \ {0}
       /\ updates = <<>> \/ Len(updates) = 1
       /\ RejectionsQuiet
       /\ BooksSound
       /\ MarketIdsUnique
       /\ ResponsesMirrorBooks
       /\ FeedMirrorsBooks

-----------------------------------------------------------------------------
\* The keys of the resting orders, element by element.
LEMMA KeyMembers ==
    \A k : k \in LiveKeys <=> \E t \in DOMAIN order_books :
                                 \E id \in LiveIds(order_books[t]) : k = <<t, id>>
  BY DEF LiveKeys

\* What one resting order looks like to a client and to a subscriber.
QtyAt(books, k) == OrderOf(books[k[1]], k[2]).qty
DepthAt(books, k) ==
    [side  |-> OrderOf(books[k[1]], k[2]).side,
     price |-> OrderOf(books[k[1]], k[2]).price,
     qty   |-> OrderOf(books[k[1]], k[2]).qty]

\* AcceptNewOrder adds one resting order and leaves the others alone.
LEMMA AcceptFacts ==
    ASSUME SumFacts, FiniteSetFacts, Inv, NEW req \in Requests, AcceptNewOrder(req)
    PROVE  LET k == <<req.ticker_id, next_order_id>>
           IN  /\ DOMAIN order_books' = DOMAIN order_books
               /\ req.ticker_id \in DOMAIN order_books
               /\ BookInv(order_books'[req.ticker_id])
               /\ LiveIds(order_books'[req.ticker_id]) =
                     LiveIds(order_books[req.ticker_id]) \cup {next_order_id}
               /\ \A u \in DOMAIN order_books :
                     u # req.ticker_id => order_books'[u] = order_books[u]
               /\ LiveKeys' = LiveKeys \cup {k}
               /\ k \notin LiveKeys
               /\ QtyAt(order_books', k) = req.qty
               /\ DepthAt(order_books', k) =
                     [side |-> req.side, price |-> req.price, qty |-> req.qty]
               /\ \A l \in LiveKeys : /\ QtyAt(order_books', l) = QtyAt(order_books, l)
                                      /\ DepthAt(order_books', l) = DepthAt(order_books, l)
  <1> DEFINE t  == req.ticker_id
             id == next_order_id
             b  == order_books[t]
             nb == AddOrder(b, req.client_id, id, req.side, req.price, req.qty)
             k  == <<t, id>>
  <1>1. /\ t \in DOMAIN order_books /\ req.side \in Sides
        /\ CanAdd(b, id)
        /\ order_books' = [order_books EXCEPT ![t] = nb]
        /\ req.msg_type = "New"
    BY DEF AcceptNewOrder, Routable
  <1>2. /\ req.client_id \in Nat /\ id \in Nat
        /\ req.price \in Int /\ req.qty \in Qtys
    BY <1>1, EngineAssumption, OrderAssumption, Zenon DEF Requests, Inv
  <1>3. BookInv(b)
    BY <1>1, Zenon DEF Inv, BooksSound
  <1>4. /\ LiveIds(nb) = LiveIds(b) \cup {id}
        /\ OrderOf(nb, id) = NewOrder(b, req.client_id, id, req.side, req.price, req.qty)
        /\ \A i \in LiveIds(b) : OrderOf(nb, i) = OrderOf(b, i)
    BY <1>1, <1>2, <1>3, AddedOrders
  <1>5. BookInv(nb)
    BY <1>1, <1>2, <1>3, AddOrderInv, ZenonT(30)
  <1>6. /\ OrderOf(nb, id).qty = req.qty /\ OrderOf(nb, id).side = req.side
        /\ OrderOf(nb, id).price = req.price
    BY <1>4, NewOrderFields
  <1>7. id \notin LiveIds(b)
    BY <1>1 DEF CanAdd
  <1> HIDE DEF nb
  <1>8. /\ DOMAIN order_books' = DOMAIN order_books
        /\ order_books'[t] = nb
        /\ \A u \in DOMAIN order_books : u # t => order_books'[u] = order_books[u]
    BY <1>1
  <1>9. \A u \in DOMAIN order_books : \A i :
           i \in LiveIds(order_books'[u]) <=>
              i \in LiveIds(order_books[u]) \/ (u = t /\ i = id)
    BY <1>4, <1>8, ZenonT(30)
  <1>10. \A l : l \in LiveKeys' <=> \E u \in DOMAIN order_books' :
                                 \E i \in LiveIds(order_books'[u]) : l = <<u, i>>
    BY DEF LiveKeys
  <1>11. LiveKeys' = LiveKeys \cup {k}
    <2>1. \A l : l \in LiveKeys' => l \in LiveKeys \/ l = k
      BY <1>8, <1>9, <1>10, KeyMembers, Zenon
    <2>2. \A l : l \in LiveKeys => l \in LiveKeys'
      BY <1>8, <1>9, <1>10, KeyMembers, Zenon
    <2>3. k \in LiveKeys'
      BY <1>1, <1>8, <1>9, <1>10, Zenon
    <2> QED
      BY <2>1, <2>2, <2>3, Zenon
  <1>12. k \notin LiveKeys
    BY <1>7, KeyMembers
  <1>13. ASSUME NEW l \in LiveKeys
         PROVE  OrderOf(order_books'[l[1]], l[2]) = OrderOf(order_books[l[1]], l[2])
    <2>1. PICK u \in DOMAIN order_books : \E i \in LiveIds(order_books[u]) : l = <<u, i>>
      BY KeyMembers
    <2>2. l[1] = u /\ l[2] \in LiveIds(order_books[u])
      BY <2>1
    <2> QED
      BY <1>4, <1>8, <2>2
  <1>14. QtyAt(order_books', k) = req.qty
    BY <1>6, <1>8, Zenon DEF QtyAt
  <1>15. DepthAt(order_books', k) =
            [side |-> req.side, price |-> req.price, qty |-> req.qty]
    BY <1>6, <1>8, Zenon DEF DepthAt
  <1>16. \A l \in LiveKeys : /\ QtyAt(order_books', l) = QtyAt(order_books, l)
                             /\ DepthAt(order_books', l) = DepthAt(order_books, l)
    BY <1>13 DEF QtyAt, DepthAt
  <1> QED
    BY <1>1, <1>4, <1>5, <1>8, <1>11, <1>12, <1>14, <1>15, <1>16, Zenon

\* CancelResting removes one resting order and leaves the others alone.
LEMMA CancelFacts ==
    ASSUME SumFacts, FiniteSetFacts, Inv, NEW req \in Requests, CancelResting(req)
    PROVE  LET k == <<req.ticker_id, req.order_id>>
           IN  /\ DOMAIN order_books' = DOMAIN order_books
               /\ req.ticker_id \in DOMAIN order_books
               /\ BookInv(order_books'[req.ticker_id])
               /\ LiveIds(order_books'[req.ticker_id]) =
                     LiveIds(order_books[req.ticker_id]) \ {req.order_id}
               /\ \A u \in DOMAIN order_books :
                     u # req.ticker_id => order_books'[u] = order_books[u]
               /\ LiveKeys' = LiveKeys \ {k}
               /\ \A l \in LiveKeys' : /\ QtyAt(order_books', l) = QtyAt(order_books, l)
                                       /\ DepthAt(order_books', l) = DepthAt(order_books, l)
  <1> DEFINE t  == req.ticker_id
             id == req.order_id
             b  == order_books[t]
             nb == CancelOrder(b, id)
             k  == <<t, id>>
  <1>1. /\ t \in DOMAIN order_books
        /\ CanCancel(b, id)
        /\ order_books' = [order_books EXCEPT ![t] = nb]
    BY DEF CancelResting
  <1>3. BookInv(b)
    BY <1>1, Zenon DEF Inv, BooksSound
  <1>4. /\ LiveIds(nb) = LiveIds(b) \ {id}
        /\ \A i \in LiveIds(nb) : SameEntry(OrderOf(nb, i), OrderOf(b, i))
    BY <1>1, <1>3, CancelOrderFacts
  <1>5. BookInv(nb)
    BY <1>1, <1>3, CancelOrderInv
  <1> HIDE DEF nb
  <1>8. /\ DOMAIN order_books' = DOMAIN order_books
        /\ order_books'[t] = nb
        /\ \A u \in DOMAIN order_books : u # t => order_books'[u] = order_books[u]
    BY <1>1
  <1>9. \A u \in DOMAIN order_books : \A i :
           i \in LiveIds(order_books'[u]) <=>
              i \in LiveIds(order_books[u]) /\ ~(u = t /\ i = id)
    BY <1>4, <1>8, Zenon
  <1>10. \A l : l \in LiveKeys' <=> \E u \in DOMAIN order_books' :
                                 \E i \in LiveIds(order_books'[u]) : l = <<u, i>>
    BY DEF LiveKeys
  <1>11. LiveKeys' = LiveKeys \ {k}
    <2>1. \A l : l \in LiveKeys' => l \in LiveKeys
      BY <1>8, <1>9, <1>10, KeyMembers, Zenon
    <2>2. \A l : l \in LiveKeys /\ l # k => l \in LiveKeys'
      BY <1>8, <1>9, <1>10, KeyMembers, Zenon
    <2>3. k \notin LiveKeys'
      BY <1>1, <1>8, <1>9, <1>10
    <2> QED
      BY <2>1, <2>2, <2>3, Zenon
  <1>13. ASSUME NEW l \in LiveKeys'
         PROVE  \/ OrderOf(order_books'[l[1]], l[2]) = OrderOf(order_books[l[1]], l[2])
                \/ SameEntry(OrderOf(order_books'[l[1]], l[2]), OrderOf(order_books[l[1]], l[2]))
    <2>1. PICK u \in DOMAIN order_books : \E i \in LiveIds(order_books'[u]) : l = <<u, i>>
      BY <1>8, <1>10, Zenon
    <2>2. l[1] = u /\ l[2] \in LiveIds(order_books'[u])
      BY <2>1
    <2>3. CASE u = t
      BY <1>4, <1>8, <2>2, <2>3, ZenonT(30)
    <2>4. CASE u # t
      BY <1>8, <2>2, <2>4
    <2> QED
      BY <2>3, <2>4, Zenon
  <1>16. \A l \in LiveKeys' : /\ QtyAt(order_books', l) = QtyAt(order_books, l)
                              /\ DepthAt(order_books', l) = DepthAt(order_books, l)
    BY <1>13, ZenonT(30) DEF QtyAt, DepthAt, SameEntry
  <1> QED
    BY <1>1, <1>4, <1>5, <1>8, <1>11, <1>16, ZenonT(30)

\* The two mirrors in terms of QtyAt and DepthAt.
LEMMA MirrorForms ==
    /\ ResponsesMirrorBooks <=>
          DOMAIN acked = LiveKeys /\ \A k \in LiveKeys : acked[k] = QtyAt(order_books, k)
    /\ FeedMirrorsBooks <=>
          DOMAIN feed = LiveKeys /\ \A k \in LiveKeys : feed[k] = DepthAt(order_books, k)
  BY ZenonT(30) DEF ResponsesMirrorBooks, FeedMirrorsBooks, QtyAt, DepthAt

\* A response other than Accepted and Canceled that leaves the books alone
\* preserves the invariant.
LEMMA RejectionInv ==
    ASSUME Inv, UNCHANGED order_books, NEW r,
           r.msg_type \in {"InvalidRequest", "CancelRejected"}, ReturnOnly(r),
           next_order_id' \in {next_order_id, next_order_id + 1}
    PROVE  Inv'
  <1>1. acked' = acked /\ feed' = feed /\ updates' = <<>>
    BY DEF ReturnOnly, Acknowledged
  <1>2. next_order_id' \in Nat \ {0} /\ next_order_id' >= next_order_id
    BY DEF Inv
  <1>3. MarketIdsUnique'
    BY <1>2 DEF Inv, MarketIdsUnique
  <1>4. LiveKeys' = LiveKeys
    BY DEF LiveKeys
  <1> QED
    BY <1>1, <1>2, <1>3, <1>4
       DEF Inv, BooksAreMap, RejectionsQuiet, BooksSound, ResponsesMirrorBooks,
           FeedMirrorsBooks

\* A cancel_order that returns None leaves the engine's books alone.
LEMMA RejectCancelUnchanged ==
    ASSUME Inv, NEW req \in Requests, RejectCancelOrder(req)
    PROVE  UNCHANGED order_books
  <1> DEFINE t == req.ticker_id
  <1>1. t \in DOMAIN order_books /\ BookInv(order_books[t])
    BY DEF RejectCancelOrder, Inv, BooksSound
  <1>2. order_books' = [order_books EXCEPT ![t] = order_books[t]]
    BY <1>1, CancelFailedUnchanged, ZenonT(30) DEF RejectCancelOrder
  <1> QED
    BY <1>1, <1>2 DEF Inv, BooksAreMap

\* Every request keeps the engine's invariant.
LEMMA EngineStep ==
    ASSUME SumFacts, FiniteSetFacts, Inv, [Next]_vars
    PROVE  Inv'
  <1>1. ASSUME NEW t \in Tickers, add_ticker(t)
        PROVE  Inv'
    <2>1. CASE t \in DOMAIN order_books
      BY <1>1, <2>1 DEF add_ticker, Inv, BooksAreMap, RejectionsQuiet, BooksSound, MarketIdsUnique,
                        ResponsesMirrorBooks, FeedMirrorsBooks, LiveKeys
    <2>2. CASE t \notin DOMAIN order_books
      <3>1. /\ DOMAIN order_books' = DOMAIN order_books \cup {t}
            /\ order_books'[t] = NewBook
            /\ \A u \in DOMAIN order_books : u # t /\ order_books'[u] = order_books[u]
            /\ UNCHANGED <<next_order_id, response, updates, acked, feed>>
        BY <1>1, <2>2, Zenon DEF add_ticker, Put
      <3>2. LiveIds(NewBook) = {}
        BY DEF LiveIds, NewBook
      <3>3. \A l : l \in LiveKeys' <=> \E u \in DOMAIN order_books' :
                                          \E i \in LiveIds(order_books'[u]) : l = <<u, i>>
        BY DEF LiveKeys
      <3>4. LiveKeys' = LiveKeys
        <4>1. \A l : l \in LiveKeys' <=> l \in LiveKeys
          BY <3>1, <3>2, <3>3, KeyMembers, ZenonT(30)
        <4> QED
          BY <4>1, Zenon
      <3>5. \A l \in LiveKeys : /\ QtyAt(order_books', l) = QtyAt(order_books, l)
                                /\ DepthAt(order_books', l) = DepthAt(order_books, l)
        <4>1. \A l \in LiveKeys : l[1] \in DOMAIN order_books
          BY KeyMembers
        <4> QED
          BY <3>1, <4>1 DEF QtyAt, DepthAt
      <3>6. BooksSound'
        BY <3>1, NewBookInv, Zenon DEF Inv, BooksSound
      <3>7. MarketIdsUnique'
        BY <3>1, <3>2 DEF Inv, MarketIdsUnique
      <3>8. ResponsesMirrorBooks' /\ FeedMirrorsBooks'
        BY <3>1, <3>4, <3>5, Zenon
           DEF Inv, QtyAt, DepthAt, ResponsesMirrorBooks, FeedMirrorsBooks
      <3>9. BooksAreMap'
        BY <1>1, <2>2, Zenon DEF add_ticker, Put, BooksAreMap
      <3> QED
        BY <3>1, <3>6, <3>7, <3>8, <3>9, Zenon DEF Inv, RejectionsQuiet
    <2> QED
      BY <2>1, <2>2, Zenon
  <1>2. ASSUME NEW req \in Requests, AcceptNewOrder(req)
        PROVE  Inv'
    <2> DEFINE t == req.ticker_id
               k == <<t, next_order_id>>
               d == [side |-> req.side, price |-> req.price, qty |-> req.qty]
    <2>1. /\ DOMAIN order_books' = DOMAIN order_books
          /\ t \in DOMAIN order_books
          /\ BookInv(order_books'[t])
          /\ LiveIds(order_books'[t]) = LiveIds(order_books[t]) \cup {next_order_id}
          /\ \A u \in DOMAIN order_books : u # t => order_books'[u] = order_books[u]
          /\ LiveKeys' = LiveKeys \cup {k}
          /\ k \notin LiveKeys
          /\ QtyAt(order_books', k) = req.qty
          /\ DepthAt(order_books', k) = d
          /\ \A l \in LiveKeys : /\ QtyAt(order_books', l) = QtyAt(order_books, l)
                                 /\ DepthAt(order_books', l) = DepthAt(order_books, l)
      BY <1>2, AcceptFacts, Zenon
    <2>2. /\ next_order_id' = next_order_id + 1
          /\ acked' = Put(acked, k, req.qty)
          /\ feed' = Put(feed, k, d)
          /\ Len(updates') = 1
          /\ response'.msg_type = "Accepted"
      BY <1>2 DEF AcceptNewOrder, ReturnWith, Acknowledged, Replayed, Response, Update
    <2> HIDE DEF d, k
    <2>3. BooksSound'
      BY <2>1, Zenon DEF Inv, BooksSound
    <2>4. MarketIdsUnique'
      <3>1. next_order_id \in Nat \ {0}
        BY DEF Inv
      <3>2. \A u \in DOMAIN order_books :
               LiveIds(order_books[u]) \subseteq 1 .. next_order_id - 1
        BY DEF Inv, MarketIdsUnique
      <3>3. \A u \in DOMAIN order_books' :
               LiveIds(order_books'[u]) \subseteq 1 .. next_order_id' - 1
        BY <2>1, <2>2, <3>1, <3>2, IdRange, ZenonT(30)
      <3>4. \A u \in DOMAIN order_books : next_order_id \notin LiveIds(order_books[u])
        BY <3>1, <3>2
      <3>5. \A u, v \in DOMAIN order_books' :
               u # v => LiveIds(order_books'[u]) \cap LiveIds(order_books'[v]) = {}
        <4> SUFFICES ASSUME NEW u \in DOMAIN order_books, NEW v \in DOMAIN order_books, u # v
                     PROVE  LiveIds(order_books'[u]) \cap LiveIds(order_books'[v]) = {}
          BY <2>1, Zenon
        <4>1. LiveIds(order_books[u]) \cap LiveIds(order_books[v]) = {}
          BY Zenon DEF Inv, MarketIdsUnique
        <4>2. next_order_id \notin LiveIds(order_books[u]) /\ next_order_id \notin LiveIds(order_books[v])
          BY <3>4, Zenon
        <4>3. CASE u = t
          BY <2>1, <4>1, <4>2, <4>3, Zenon
        <4>4. CASE v = t
          BY <2>1, <4>1, <4>2, <4>4, Zenon
        <4>5. CASE u # t /\ v # t
          BY <2>1, <4>1, <4>5, Zenon
        <4> QED
          BY <4>3, <4>4, <4>5, Zenon
      <3> QED
        BY <3>3, <3>5 DEF MarketIdsUnique
    <2>5. ResponsesMirrorBooks'
      <3>1. DOMAIN acked' = LiveKeys'
        BY <2>1, <2>2, MirrorForms, Zenon DEF Inv, Put
      <3>2. \A l \in LiveKeys' : acked'[l] = QtyAt(order_books', l)
        BY <2>1, <2>2, MirrorForms, Zenon DEF Inv, Put
      <3> QED
        BY <3>1, <3>2, Zenon DEF ResponsesMirrorBooks, QtyAt
    <2>6. FeedMirrorsBooks'
      <3>1. DOMAIN feed' = LiveKeys'
        BY <2>1, <2>2, MirrorForms, ZenonT(30) DEF Inv, Put
      <3>2. \A l \in LiveKeys' : feed'[l] = DepthAt(order_books', l)
        BY <2>1, <2>2, MirrorForms DEF Inv, Put
      <3> QED
        BY <3>1, <3>2, ZenonT(30) DEF FeedMirrorsBooks, DepthAt
    <2>7. next_order_id' \in Nat \ {0}
      BY <2>2 DEF Inv
    <2>8. BooksAreMap'
      BY <1>2, ZenonT(30) DEF AcceptNewOrder, BooksAreMap
    <2> QED
      BY <2>1, <2>2, <2>3, <2>4, <2>5, <2>6, <2>7, <2>8, Zenon DEF Inv, RejectionsQuiet
  <1>3. ASSUME NEW req \in Requests, CancelResting(req)
        PROVE  Inv'
    <2> DEFINE t == req.ticker_id
               k == <<t, req.order_id>>
    <2>1. /\ DOMAIN order_books' = DOMAIN order_books
          /\ t \in DOMAIN order_books
          /\ BookInv(order_books'[t])
          /\ LiveIds(order_books'[t]) = LiveIds(order_books[t]) \ {req.order_id}
          /\ \A u \in DOMAIN order_books : u # t => order_books'[u] = order_books[u]
          /\ LiveKeys' = LiveKeys \ {k}
          /\ \A l \in LiveKeys' : /\ QtyAt(order_books', l) = QtyAt(order_books, l)
                                  /\ DepthAt(order_books', l) = DepthAt(order_books, l)
      BY <1>3, CancelFacts, Zenon
    <2>2. /\ next_order_id' = next_order_id
          /\ acked' = Drop(acked, k)
          /\ feed' = Drop(feed, k)
          /\ Len(updates') = 1
          /\ response'.msg_type = "Canceled"
      BY <1>3 DEF CancelResting, ReturnWith, Acknowledged, Replayed, Response, Update
    <2> HIDE DEF k
    <2>3. BooksSound'
      BY <2>1, Zenon DEF Inv, BooksSound
    <2>4. MarketIdsUnique'
      <3>1. \A u \in DOMAIN order_books : LiveIds(order_books'[u]) \subseteq LiveIds(order_books[u])
        BY <2>1, Zenon
      <3>2. /\ \A u \in DOMAIN order_books :
                  LiveIds(order_books[u]) \subseteq 1 .. next_order_id - 1
            /\ \A u, v \in DOMAIN order_books :
                  u # v => LiveIds(order_books[u]) \cap LiveIds(order_books[v]) = {}
        BY Zenon DEF Inv, MarketIdsUnique
      <3>3. \A u \in DOMAIN order_books' :
               LiveIds(order_books'[u]) \subseteq 1 .. next_order_id' - 1
        BY <2>1, <2>2, <3>1, <3>2, Zenon
      <3>4. ASSUME NEW u \in DOMAIN order_books', NEW v \in DOMAIN order_books', u # v
            PROVE  LiveIds(order_books'[u]) \cap LiveIds(order_books'[v]) = {}
        <4>1. LiveIds(order_books[u]) \cap LiveIds(order_books[v]) = {}
          BY <2>1, <3>2, <3>4, Zenon
        <4> QED
          BY <2>1, <3>1, <4>1, Zenon
      <3> QED
        BY <3>3, <3>4, Zenon DEF MarketIdsUnique
    <2>5. ResponsesMirrorBooks'
      <3>1. DOMAIN acked' = LiveKeys'
        BY <2>1, <2>2, MirrorForms, Zenon DEF Inv, Drop
      <3>2. \A l \in LiveKeys' : acked'[l] = QtyAt(order_books', l)
        BY <2>1, <2>2, MirrorForms, Zenon DEF Inv, Drop
      <3> QED
        BY <3>1, <3>2, Zenon DEF ResponsesMirrorBooks, QtyAt
    <2>6. FeedMirrorsBooks'
      <3>1. DOMAIN feed' = LiveKeys'
        BY <2>1, <2>2, MirrorForms DEF Inv, Drop
      <3>2. \A l \in LiveKeys' : feed'[l] = DepthAt(order_books', l)
        BY <2>1, <2>2, MirrorForms, ZenonT(30) DEF Inv, Drop
      <3> QED
        BY <3>1, <3>2 DEF FeedMirrorsBooks, DepthAt
    <2>7. BooksAreMap'
      BY <1>3, ZenonT(30) DEF CancelResting, BooksAreMap
    <2> QED
      BY <2>1, <2>2, <2>3, <2>4, <2>5, <2>6, <2>7, Zenon DEF Inv, RejectionsQuiet
  <1>4. ASSUME NEW req \in Requests, RejectNewOrder(req)
        PROVE  Inv'
    <2>1. /\ ReturnOnly(RejectResponse(req)) /\ UNCHANGED order_books
          /\ next_order_id' \in {next_order_id, next_order_id + 1}
      BY <1>4, Zenon DEF RejectNewOrder
    <2> QED
      BY <2>1, RejectionInv, RefusalTypes
  <1>5. ASSUME NEW req \in Requests, RefuseNewOrder(req)
        PROVE  Inv'
    <2>1. /\ ReturnOnly(RejectResponse(req)) /\ UNCHANGED order_books
          /\ next_order_id' \in {next_order_id, next_order_id + 1}
      BY <1>5, Zenon DEF RefuseNewOrder
    <2> QED
      BY <2>1, RejectionInv, RefusalTypes
  <1>6. ASSUME NEW req \in Requests, RejectCancelTicker(req)
        PROVE  Inv'
    <2>1. /\ ReturnOnly(CancelRejectResponse(req)) /\ UNCHANGED order_books
          /\ next_order_id' \in {next_order_id, next_order_id + 1}
      BY <1>6, Zenon DEF RejectCancelTicker
    <2> QED
      BY <2>1, RejectionInv, RefusalTypes
  <1>7. ASSUME NEW req \in Requests, RejectCancelOrder(req)
        PROVE  Inv'
    <2>1. UNCHANGED order_books
      BY <1>7, RejectCancelUnchanged
    <2>2. /\ ReturnOnly(CancelRejectResponse(req))
          /\ next_order_id' \in {next_order_id, next_order_id + 1}
      BY <1>7, Zenon DEF RejectCancelOrder
    <2> QED
      BY <2>1, <2>2, RejectionInv, RefusalTypes
  <1>8. ASSUME NEW req \in Requests, handle_invalid_request(req)
        PROVE  Inv'
    <2>1. /\ ReturnOnly(RejectResponse(req)) /\ UNCHANGED order_books
          /\ next_order_id' \in {next_order_id, next_order_id + 1}
      BY <1>8, Zenon DEF handle_invalid_request
    <2> QED
      BY <2>1, RejectionInv, RefusalTypes
  <1>9. CASE UNCHANGED vars
    BY <1>9 DEF vars, Inv, BooksAreMap, RejectionsQuiet, BooksSound, MarketIdsUnique,
                ResponsesMirrorBooks, FeedMirrorsBooks, LiveKeys
  <1> QED
    BY <1>1, <1>2, <1>3, <1>4, <1>5, <1>6, <1>7, <1>8, <1>9 DEF Next, process_request

\* What a step with a rejection changes.
LEMMA EngineQuiet ==
    ASSUME Inv, Next, DOMAIN order_books' = DOMAIN order_books,
           response'.msg_type \in {"InvalidRequest", "CancelRejected"}
    PROVE  UNCHANGED order_books /\ updates' = <<>>
  <1>1. ASSUME NEW t \in Tickers, add_ticker(t)
        PROVE  UNCHANGED order_books /\ updates' = <<>>
    BY <1>1, Zenon DEF add_ticker, Put, Inv, RejectionsQuiet
  <1>2. ASSUME NEW req \in Requests, AcceptNewOrder(req)
        PROVE  FALSE
    BY <1>2 DEF AcceptNewOrder, ReturnWith, Response
  <1>3. ASSUME NEW req \in Requests, CancelResting(req)
        PROVE  FALSE
    BY <1>3, ZenonT(30) DEF CancelResting, ReturnWith, Response
  <1>4. ASSUME NEW req \in Requests,
               \/ RejectNewOrder(req) \/ RefuseNewOrder(req)
               \/ RejectCancelTicker(req) \/ handle_invalid_request(req)
        PROVE  UNCHANGED order_books /\ updates' = <<>>
    BY <1>4, Zenon DEF RejectNewOrder, RefuseNewOrder, RejectCancelTicker,
                handle_invalid_request, ReturnOnly
  <1>5. ASSUME NEW req \in Requests, RejectCancelOrder(req)
        PROVE  UNCHANGED order_books /\ updates' = <<>>
    BY <1>5, RejectCancelUnchanged, ZenonT(30) DEF RejectCancelOrder, ReturnOnly
  <1> QED
    BY <1>1, <1>2, <1>3, <1>4, <1>5 DEF Next, process_request

\* The ids of the orders that a step adds to the books.
FreshIds ==
    /\ next_order_id =< next_order_id'
    /\ \A k \in LiveKeys' \ LiveKeys : k[2] \in next_order_id .. next_order_id' - 1

\* A step that adds no order and keeps next_order_id or uses it up.
LEMMA NoNewIds ==
    ASSUME Inv, LiveKeys' \subseteq LiveKeys, next_order_id' \in {next_order_id, next_order_id + 1}
    PROVE  FreshIds
  <1>1. next_order_id =< next_order_id'
    BY NextId, Zenon DEF Inv
  <1> QED
    BY <1>1, Zenon DEF FreshIds

\* Only an accepted order is added, under next_order_id, which moves on.
LEMMA EngineFreshIds ==
    ASSUME SumFacts, FiniteSetFacts, Inv, Next
    PROVE  FreshIds
  <1>1. ASSUME NEW t \in Tickers, add_ticker(t)
        PROVE  FreshIds
    <2>1. LiveIds(NewBook) = {}
      BY DEF LiveIds, NewBook
    <2>2. next_order_id' = next_order_id
      BY <1>1, Zenon DEF add_ticker
    <2>3. \A u \in DOMAIN order_books' : \A i \in LiveIds(order_books'[u]) :
             u \in DOMAIN order_books /\ i \in LiveIds(order_books[u])
      BY <1>1, <2>1, Zenon DEF add_ticker, Put
    <2>4. \A k \in LiveKeys' : \E u \in DOMAIN order_books' :
                               \E i \in LiveIds(order_books'[u]) : k = <<u, i>>
      BY DEF LiveKeys
    <2>5. LiveKeys' \subseteq LiveKeys
      BY <2>3, <2>4, KeyMembers, Zenon
    <2> QED
      BY <2>2, <2>5, NoNewIds, Zenon
  <1>2. ASSUME NEW req \in Requests, AcceptNewOrder(req)
        PROVE  FreshIds
    <2> DEFINE k == <<req.ticker_id, next_order_id>>
    <2>1. LiveKeys' = LiveKeys \cup {k}
      BY <1>2, AcceptFacts, Zenon
    <2>2. next_order_id' = next_order_id + 1
      BY <1>2, Zenon DEF AcceptNewOrder
    <2>3. k[2] = next_order_id
      OBVIOUS
    <2> HIDE DEF k
    <2>4. /\ next_order_id =< next_order_id'
          /\ next_order_id \in next_order_id .. next_order_id' - 1
      BY <2>2, NextId, Zenon DEF Inv
    <2> QED
      BY <2>1, <2>3, <2>4, Zenon DEF FreshIds
  <1>3. ASSUME NEW req \in Requests, CancelResting(req)
        PROVE  FreshIds
    <2>1. LiveKeys' \subseteq LiveKeys
      BY <1>3, CancelFacts, Zenon
    <2>2. next_order_id' = next_order_id
      BY <1>3, Zenon DEF CancelResting
    <2> QED
      BY <2>1, <2>2, NoNewIds, Zenon
  <1>4. ASSUME NEW req \in Requests,
               \/ RejectNewOrder(req) \/ RefuseNewOrder(req) \/ RejectCancelTicker(req)
               \/ RejectCancelOrder(req) \/ handle_invalid_request(req)
        PROVE  FreshIds
    <2>1. UNCHANGED order_books
      BY <1>4, RejectCancelUnchanged, Zenon
         DEF RejectNewOrder, RefuseNewOrder, RejectCancelTicker, handle_invalid_request
    <2>2. LiveKeys' \subseteq LiveKeys
      BY <2>1 DEF LiveKeys
    <2>3. next_order_id' \in {next_order_id, next_order_id + 1}
      BY <1>4, Zenon DEF RejectNewOrder, RefuseNewOrder, RejectCancelTicker, RejectCancelOrder,
                         handle_invalid_request
    <2> QED
      BY <2>2, <2>3, NoNewIds, Zenon
  <1> QED
    BY <1>1, <1>2, <1>3, <1>4, Zenon DEF Next, process_request

-----------------------------------------------------------------------------
INSTANCE SumProofs

\* The inductive invariant of a book: type correctness, the partition of the
\* slots, the slot count, and the counts and sums of the levels together.
THEOREM BookInvariant == OrderBookSpec => []Sound
  <1>1. SumFacts /\ FiniteSetFacts
    BY SumFactsHold, FiniteSetFactsHold
  <1>2. BookInit => Sound
    BY <1>1, NewBookInv DEF BookInit, Sound
  <1>3. Sound /\ [BookNext]_book => Sound'
    BY <1>1, BookStep
  <1> QED
    BY <1>2, <1>3, PTL DEF OrderBookSpec

\* Type correctness of the book's fields.
THEOREM TypeCorrect == OrderBookSpec => []BookTyped
  <1>1. Sound => BookTyped
    BY Zenon DEF Sound, BookInv, BookTyped
  <1> QED
    BY <1>1, BookInvariant, PTL

\* No double free, no lost slot and no slot shared by two orders.
THEOREM SlotsArePartitioned == OrderBookSpec => []SlotsPartitioned
  <1>1. Sound => SlotsPartitioned
    BY Zenon DEF Sound, BookInv, SlotsPartitioned
  <1> QED
    BY <1>1, BookInvariant, PTL

\* Every level counts exactly the orders that rest at its price.
THEOREM LevelsAreExact == OrderBookSpec => []LevelsCountOrders
  <1>1. Sound => LevelsCountOrders
    BY Zenon DEF Sound, BookInv, LevelsCountOrders
  <1> QED
    BY <1>1, BookInvariant, PTL

\* Every level's total is the sum of the quantities that rest there, modulo 2^32.
THEOREM LevelsAreSummed == OrderBookSpec => []LevelsSumQuantities
  <1>1. Sound => LevelsSumQuantities
    BY Zenon DEF Sound, BookInv, LevelsSumQuantities
  <1> QED
    BY <1>1, BookInvariant, PTL

\* add_order and cancel_order return None only for the documented reasons.
THEOREM RefusalsAreJustified == OrderBookSpec => []RefusalsJustified
  <1>1. Sound => RefusalsJustified
    BY FiniteSetFactsHold, SoundRefuses, Zenon
  <1> QED
    BY <1>1, BookInvariant, PTL

\* The book implements BookSpec: every add_order and cancel_order is one step
\* of the bounded map of resting orders, or leaves it alone.
THEOREM BookRefinement == OrderBookSpec => ImplementsBookSpec
  <1>1. BookInit => Abstract!Init
    BY InitImplements, Zenon
  <1>2. Sound /\ [BookNext]_book => [Abstract!Next]_(Abstract!vars)
    BY FiniteSetFactsHold, BookImplements, Zenon
  <1> QED
    BY <1>1, <1>2, BookInvariant, PTL DEF OrderBookSpec, Abstract!Spec, ImplementsBookSpec

\* The engine's inductive invariant holds in every reachable state.
THEOREM EngineInvariant == Spec => []Inv
  <1>1. SumFacts /\ FiniteSetFacts
    BY SumFactsHold, FiniteSetFactsHold
  <1>2. Init => Inv
    <2> SUFFICES ASSUME Init
                 PROVE  Inv
      BY Zenon
    <2>1. DOMAIN order_books = {} /\ DOMAIN acked = {} /\ DOMAIN feed = {} /\ BooksAreMap
      BY Zenon DEF Init, BooksAreMap
    <2>2. LiveKeys = {}
      BY <2>1, Zenon DEF LiveKeys
    <2>3. ResponsesMirrorBooks /\ FeedMirrorsBooks
      BY <2>1, <2>2, Zenon DEF ResponsesMirrorBooks, FeedMirrorsBooks
    <2>4. BooksSound /\ MarketIdsUnique
      BY <2>1, Zenon DEF BooksSound, MarketIdsUnique
    <2>5. next_order_id \in Nat \ {0} /\ updates = <<>> /\ RejectionsQuiet
      BY DEF Init, RejectionsQuiet
    <2> QED
      BY <2>1, <2>3, <2>4, <2>5, Zenon DEF Inv
  <1>3. Inv /\ [Next]_vars => Inv'
    BY <1>1, EngineStep, Zenon
  <1> QED
    BY <1>2, <1>3, PTL DEF Spec

\* Type correctness of the engine and its books.
THEOREM EngineTypeCorrect == Spec => []TypeOK
  <1>1. Inv => TypeOK
    BY Zenon DEF Inv, TypeOK, BooksSound, BookInv
  <1> QED
    BY <1>1, EngineInvariant, PTL

\* Every book of the engine keeps the invariants proved for one book.
THEOREM EngineBooksSound == Spec => []BooksSound
  <1>1. Inv => BooksSound
    BY Zenon DEF Inv
  <1> QED
    BY <1>1, EngineInvariant, PTL

\* A market order id never names two resting orders, and the next one names none.
THEOREM EngineIdsUnique == Spec => []MarketIdsUnique
  <1>1. Inv => MarketIdsUnique
    BY Zenon DEF Inv
  <1> QED
    BY <1>1, EngineInvariant, PTL

\* Market order ids are never handed out again.
THEOREM EngineIdsNotReused == Spec => MarketIdsNotReused
  <1>1. SumFacts /\ FiniteSetFacts
    BY SumFactsHold, FiniteSetFactsHold
  <1>2. Inv /\ [Next]_vars => [FreshIds]_vars
    BY <1>1, EngineFreshIds, Zenon
  <1> QED
    BY <1>2, EngineInvariant, PTL DEF Spec, MarketIdsNotReused, FreshIds

\* The responses a client received, replayed, give its resting orders.
THEOREM EngineResponsesMirror == Spec => []ResponsesMirrorBooks
  <1>1. Inv => ResponsesMirrorBooks
    BY Zenon DEF Inv
  <1> QED
    BY <1>1, EngineInvariant, PTL

\* The market updates, replayed, give the resting orders.
THEOREM EngineFeedMirrors == Spec => []FeedMirrorsBooks
  <1>1. Inv => FeedMirrorsBooks
    BY DEF Inv
  <1> QED
    BY <1>1, EngineInvariant, PTL

\* A rejected request changes no book and publishes nothing.
THEOREM EngineRejections == Spec => RejectionsChangeNothing
  <1> DEFINE Quiet == /\ DOMAIN order_books' = DOMAIN order_books
                      /\ response'.msg_type \in {"InvalidRequest", "CancelRejected"}
                      => UNCHANGED order_books /\ updates' = <<>>
  <1>1. Inv /\ [Next]_vars => [Quiet]_vars
    BY EngineQuiet
  <1> QED
    BY <1>1, EngineInvariant, PTL DEF Spec, RejectionsChangeNothing
=============================================================================
