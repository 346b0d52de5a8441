---------------------------- MODULE TrackingProofs ----------------------------
(***************************************************************************)
(* The trade engine tracks exactly its live orders, counts them, and its   *)
(* positions account for the fills it has read, for every number of calls, *)
(* of messages in flight and of events per cycle.                          *)
(***************************************************************************)
EXTENDS TradeEngineInv

\* The provers get more time than by default.
USE SMTT(30), ZenonT(30)

-----------------------------------------------------------------------------
\* A position exists, or is the new one.
LEMMA PositionFacts ==
    ASSUME BookingInv, NEW t \in Tickers
    PROVE  /\ get_position(positions, t) \in Positions
           /\ ledger[t] \in Ledgers
           /\ Accounted(get_position(positions, t), ledger[t])
  <1>1. NewPosition \in Positions
    BY RiskAssumption, NewPositionTyped
  <1> QED
    BY <1>1 DEF BookingInv, get_position

-----------------------------------------------------------------------------
\* What an engine step that answers no response keeps when it leaves the
\* tracked orders and their counts alone.
LEMMA TrackingKept ==
    ASSUME TrackingInv, SameTicker, CountInv,
           UNCHANGED <<pending_orders, open_order_count, forgot, next_order_id>>,
           next_order_id \in Nat,
           \A id \in Nat : Live(id)' <=> Live(id),
           \A id \in DOMAIN pending_orders :
              Names(id, pending_orders[id].ticker_id, pending_orders[id].side)
              => Names(id, pending_orders[id].ticker_id, pending_orders[id].side)'
    PROVE  TrackingInv' /\ SameTicker' /\ CountInv'
  <1>1. \A id \in DOMAIN pending_orders : id \in Nat
    BY DEF TrackingInv
  <1>2. \A id \in 1 .. next_order_id - 1 : id \in Nat
    OBVIOUS
  <1>3. TracksLiveOrders'
    BY <1>1, <1>2 DEF TrackingInv, TracksLiveOrders
  <1>4. TrackingInv'
    BY <1>3 DEF TrackingInv
  <1>5. SameTicker'
    BY DEF SameTicker
  <1>6. CountInv'
    BY DEF CountInv, CountsTrackedOrders, OrdersOf
  <1> QED
    BY <1>4, <1>5, <1>6

\* A new order is tracked and counted.
LEMMA SubmitTracks ==
    ASSUME FiniteSetFacts, SessionInv, TrackingInv, SameTicker, CountInv, NEW o \in Tracked, send_new_orders(<<o>>),
           pending_orders' = Track(pending_orders, next_order_id, o),
           open_order_count' = [open_order_count EXCEPT ![o.ticker_id] = @ + 1],
           forgot' = forgot
    PROVE  TrackingInv' /\ SameTicker' /\ CountInv'
  <1> PICK n : n = next_order_id
    OBVIOUS
  <1>1. /\ n \in Nat \ {0} /\ next_order_id' = n + 1
        /\ \A id \in Nat : Live(id)' <=> Live(id) \/ id = n
        /\ \A id \in Nat, t \in Tickers, s \in Sides : id # n /\ Names(id, t, s) => Names(id, t, s)'
        /\ Names(n, o.ticker_id, o.side)'
    BY SubmitLive
  <1>2. /\ DOMAIN pending_orders' = DOMAIN pending_orders \cup {n} /\ n \notin DOMAIN pending_orders
        /\ \A id \in DOMAIN pending_orders : id # n /\ pending_orders'[id] = pending_orders[id]
        /\ pending_orders'[n] = o
    <2>1. n \notin DOMAIN pending_orders
      <3>1. n \notin 1 .. n - 1
        BY <1>1
      <3> QED
        BY <3>1 DEF TrackingInv
    <2> QED
      BY <2>1 DEF Track
  <1>3. \A id \in DOMAIN pending_orders : id \in Nat /\ id \in 1 .. (n + 1) - 1
    BY <1>1 DEF TrackingInv
  <1>4. TrackingInv'
    <2>1. IsFiniteSet(DOMAIN pending_orders')
      BY <1>2 DEF FiniteSetFacts, TrackingInv
    <2>2. \A id \in DOMAIN pending_orders' : id \in 1 .. (n + 1) - 1 /\ pending_orders'[id] \in Tracked
      BY <1>1, <1>2, <1>3 DEF TrackingInv
    <2>3. \A id \in DOMAIN pending_orders' : Live(id)'
      BY <1>1, <1>2, <1>3, Zenon DEF TrackingInv, TracksLiveOrders
    <2>4. ASSUME ~forgot, NEW id \in 1 .. (n + 1) - 1, Live(id)'
          PROVE  id \in DOMAIN pending_orders'
      <3>1. id = n \/ id \in 1 .. n - 1
        BY <1>1
      <3>2. id \in Nat
        BY <1>1
      <3> QED
        BY <1>1, <1>2, <2>4, <3>1, <3>2, Zenon DEF TrackingInv, TracksLiveOrders
    <2> QED
      BY <1>1, <2>1, <2>2, <2>3, <2>4, Zenon DEF TrackingInv, TracksLiveOrders
  <1>5. SameTicker'
    <2>1. \A id \in DOMAIN pending_orders : pending_orders[id].ticker_id \in Tickers /\ pending_orders[id].side \in Sides
      BY DEF TrackingInv, Tracked
    <2>2. ASSUME NEW id \in DOMAIN pending_orders'
          PROVE  Names(id, pending_orders[id].ticker_id, pending_orders[id].side)'
      <3>1. CASE id = n
        BY <1>1, <1>2, <3>1, Zenon
      <3>2. CASE id # n
        <4>1. PICK t \in Tickers, s \in Sides : t = pending_orders[id].ticker_id /\ s = pending_orders[id].side
          BY <1>2, <2>1, <2>2, <3>2, Zenon
        <4>2. Names(id, t, s)'
          BY <1>1, <1>2, <1>3, <2>2, <3>2, <4>1, Zenon DEF SameTicker
        <4> QED
          BY <1>2, <2>2, <3>2, <4>1, <4>2, Zenon
      <3> QED
        BY <3>1, <3>2
    <2> QED
      BY <2>2 DEF SameTicker
  <1>6. CountInv'
    <2>1. \A t \in Tickers : /\ IsFiniteSet(OrdersOf(t)) /\ n \notin OrdersOf(t)
                             /\ OrdersOf(t)' = IF t = o.ticker_id THEN OrdersOf(t) \cup {n} ELSE OrdersOf(t)
      <3>1. \A t \in Tickers : OrdersOf(t) \in SUBSET DOMAIN pending_orders
        BY DEF OrdersOf
      <3>2. \A t \in Tickers : IsFiniteSet(OrdersOf(t))
        BY <3>1, Zenon DEF FiniteSetFacts, TrackingInv
      <3> QED
        BY <1>2, <3>2 DEF OrdersOf
    <2>2. ASSUME NEW t \in Tickers
          PROVE  /\ Cardinality(OrdersOf(t)) \in Nat
                 /\ Cardinality(OrdersOf(t)') = Cardinality(OrdersOf(t)) + (IF t = o.ticker_id THEN 1 ELSE 0)
      <3> PICK S, S1 : S = OrdersOf(t) /\ S1 = OrdersOf(t)'
        OBVIOUS
      <3>1. IsFiniteSet(S) /\ n \notin S /\ S1 = IF t = o.ticker_id THEN S \cup {n} ELSE S
        BY <2>1
      <3>2. Cardinality(S) \in Nat /\ Cardinality(S \cup {n}) = Cardinality(S) + 1
        BY <3>1 DEF FiniteSetFacts
      <3> QED
        BY <3>1, <3>2
    <2>3. o.ticker_id \in Tickers
      BY DEF Tracked
    <2>4. \A t \in Tickers : open_order_count'[t] = open_order_count[t] + (IF t = o.ticker_id THEN 1 ELSE 0)
      BY DEF CountInv
    <2>5. open_order_count' \in [Tickers -> Nat]
      BY <2>3 DEF CountInv
    <2> QED
      BY <2>2, <2>4, <2>5 DEF CountInv, CountsTrackedOrders
  <1> QED
    BY <1>4, <1>5, <1>6

\* An order whose end is read is dropped and uncounted.
LEMMA EndTracks ==
    ASSUME FiniteSetFacts, SessionInv, TrackingInv, SameTicker, CountInv, receive,
           NEW r, r = inbox[1], NEW x, x = r.client_order_id,
           Terminal(r) \/ r.msg_type = "CancelRejected",
           DOMAIN pending_orders' = DOMAIN pending_orders \ {x},
           \A id \in DOMAIN pending_orders' : pending_orders'[id] = pending_orders[id],
           IF x \in DOMAIN pending_orders \/ r.msg_type = "Filled"
           THEN CountDown(r.ticker_id) ELSE open_order_count' = open_order_count,
           forgot' = forgot
    PROVE  TrackingInv' /\ SameTicker' /\ CountInv'
  <1>1. /\ next_order_id' = next_order_id /\ r \in Responses /\ x \in Nat
        /\ \A id \in Nat : id # x => (Live(id)' <=> Live(id))
        /\ ~Live(x)'
        /\ \A id \in Nat, t \in Tickers, s \in Sides : Names(id, t, s) => Names(id, t, s)'
        /\ \A t, s : Names(x, t, s) => r.ticker_id = t /\ r.side = s
    BY ReceiveLive DEF receive
  <1>2. /\ \A id \in DOMAIN pending_orders : id \in Nat /\ pending_orders[id].ticker_id \in Tickers /\ pending_orders[id].side \in Sides
        /\ \A id \in 1 .. next_order_id - 1 : id \in Nat
        /\ next_order_id \in Nat
    BY DEF TrackingInv, SessionInv, SessionOK, Tracked
  <1>3. TrackingInv'
    <2>1. IsFiniteSet(DOMAIN pending_orders')
      BY DEF FiniteSetFacts, TrackingInv
    <2>2. \A id \in DOMAIN pending_orders' : Live(id)'
      BY <1>1, <1>2, Zenon DEF TrackingInv, TracksLiveOrders
    <2>3. ~forgot => \A id \in 1 .. next_order_id - 1 : Live(id)' => id \in DOMAIN pending_orders'
      BY <1>1, <1>2, Zenon DEF TrackingInv, TracksLiveOrders
    <2> QED
      BY <1>1, <2>1, <2>2, <2>3, Zenon DEF TrackingInv, TracksLiveOrders
  <1>4. SameTicker'
    <2>1. ASSUME NEW id \in DOMAIN pending_orders'
          PROVE  Names(id, pending_orders[id].ticker_id, pending_orders[id].side)'
      <3>1. PICK t \in Tickers, s \in Sides : t = pending_orders[id].ticker_id /\ s = pending_orders[id].side
        BY <1>2, Zenon
      <3>2. Names(id, t, s)'
        BY <1>1, <1>2, <3>1, Zenon DEF SameTicker
      <3> QED
        BY <3>1, <3>2
    <2> QED
      BY <2>1 DEF SameTicker
  <1>5. CountInv'
    <2>1. \A t \in Tickers : IsFiniteSet(OrdersOf(t)) /\ OrdersOf(t)' = OrdersOf(t) \ {x}
      <3>1. \A t \in Tickers : OrdersOf(t) \in SUBSET DOMAIN pending_orders
        BY DEF OrdersOf
      <3>2. \A t \in Tickers : IsFiniteSet(OrdersOf(t))
        BY <3>1, Zenon DEF FiniteSetFacts, TrackingInv
      <3> QED
        BY <3>2 DEF OrdersOf
    <2>2. ASSUME NEW t \in Tickers
          PROVE  /\ Cardinality(OrdersOf(t)) \in Nat
                 /\ Cardinality(OrdersOf(t)') \in Nat
                 /\ Cardinality(OrdersOf(t)') =
                       IF x \in OrdersOf(t) THEN Cardinality(OrdersOf(t)) - 1 ELSE Cardinality(OrdersOf(t))
      <3> PICK S, S1 : S = OrdersOf(t) /\ S1 = OrdersOf(t)'
        OBVIOUS
      <3>1. IsFiniteSet(S) /\ S1 = S \ {x}
        BY <2>1, Zenon
      <3>2. /\ Cardinality(S) \in Nat /\ IsFiniteSet(S1)
            /\ x \in S => Cardinality(S \ {x}) = Cardinality(S) - 1
        BY <3>1, Zenon DEF FiniteSetFacts
      <3>3. Cardinality(S1) \in Nat /\ (x \notin S => S1 = S)
        BY <3>1, <3>2 DEF FiniteSetFacts
      <3> QED
        BY <3>1, <3>2, <3>3, Zenon
    <2>3. r.ticker_id \in Tickers
      BY <1>1 DEF Responses
    <2>4. \A t \in Tickers : x \in OrdersOf(t) <=> x \in DOMAIN pending_orders /\ r.ticker_id = t
      BY <1>1, <1>2 DEF OrdersOf, SameTicker
    <2>5. ASSUME r.msg_type = "Filled", ~forgot
          PROVE  x \in DOMAIN pending_orders
      <3>1. Terminal(r) /\ SessionOK
        BY <2>5, Zenon DEF SessionInv
      <3>2. 1 \in 1 .. Len(inbox)
        BY <3>1, ReceiveFacts, Zenon
      <3>3. EndAt(1, x) /\ x \in 1 .. next_order_id - 1
        BY <3>1, <3>2, Zenon DEF EndAt, SessionOK
      <3>4. Live(x)
        BY <1>1, <3>1, <3>3, LiveFacts, Zenon
      <3> QED
        BY <2>5, <3>3, <3>4 DEF TrackingInv, TracksLiveOrders
    <2>6. \A t \in Tickers : open_order_count[t] \in Nat
      BY Zenon DEF CountInv
    <2>7. CASE x \in DOMAIN pending_orders \/ r.msg_type = "Filled"
      <3>1. /\ open_order_count' \in [Tickers -> Nat]
            /\ \A t \in Tickers : open_order_count'[t] = IF t = r.ticker_id
                  THEN saturating_sub(open_order_count[t], 1) ELSE open_order_count[t]
        BY <2>3, <2>6, <2>7 DEF CountInv, CountDown, saturating_sub
      <3>2. ASSUME NEW t \in Tickers
            PROVE  /\ open_order_count'[t] =< Cardinality(OrdersOf(t)')
                   /\ ~forgot => open_order_count'[t] = Cardinality(OrdersOf(t)')
        <4>1. /\ open_order_count[t] =< Cardinality(OrdersOf(t))
              /\ ~forgot => open_order_count[t] = Cardinality(OrdersOf(t))
              /\ open_order_count[t] \in Nat
          BY <2>6, Zenon DEF CountInv, CountsTrackedOrders
        <4>2. CASE t # r.ticker_id
          BY <2>2, <2>4, <3>1, <4>1, <4>2, Zenon
        <4>3. CASE t = r.ticker_id /\ x \in DOMAIN pending_orders
          BY <2>2, <2>4, <3>1, <4>1, <4>3 DEF saturating_sub
        <4>4. CASE t = r.ticker_id /\ x \notin DOMAIN pending_orders
          BY <2>2, <2>4, <2>5, <2>7, <3>1, <4>1, <4>4 DEF saturating_sub
        <4> QED
          BY <4>2, <4>3, <4>4, Zenon
      <3> QED
        BY <3>1, <3>2, Zenon DEF CountInv, CountsTrackedOrders
    <2>8. CASE ~(x \in DOMAIN pending_orders \/ r.msg_type = "Filled")
      <3>1. open_order_count' = open_order_count
        BY <2>8, Zenon
      <3>2. \A t \in Tickers : Cardinality(OrdersOf(t)') = Cardinality(OrdersOf(t))
        BY <2>2, <2>4, <2>8, Zenon
      <3> QED
        BY <3>1, <3>2, Zenon DEF CountInv, CountsTrackedOrders
    <2> QED
      BY <2>7, <2>8
  <1> QED
    BY <1>3, <1>4, <1>5

\* Any other response keeps the order tracked, on the same ticker.
LEMMA ProgressTracks ==
    ASSUME SessionInv, TrackingInv, SameTicker, CountInv, receive,
           NEW r, r = inbox[1], ~Terminal(r),
           DOMAIN pending_orders' = DOMAIN pending_orders,
           \A id \in DOMAIN pending_orders :
              /\ pending_orders'[id] \in Tracked
              /\ pending_orders'[id].ticker_id = pending_orders[id].ticker_id
              /\ pending_orders'[id].side = pending_orders[id].side,
           UNCHANGED <<open_order_count, forgot>>
    PROVE  TrackingInv' /\ SameTicker' /\ CountInv'
  <1>1. /\ next_order_id' = next_order_id
        /\ \A id \in Nat : Live(id)' <=> Live(id)
        /\ \A id \in Nat, t \in Tickers, s \in Sides : Names(id, t, s) => Names(id, t, s)'
    BY ReceiveLive, Zenon DEF receive
  <1>2. /\ \A id \in DOMAIN pending_orders : id \in Nat /\ pending_orders[id].ticker_id \in Tickers /\ pending_orders[id].side \in Sides
        /\ \A id \in 1 .. next_order_id - 1 : id \in Nat
        /\ next_order_id \in Nat
    BY DEF TrackingInv, SessionInv, SessionOK, Tracked
  <1>3. TrackingInv'
    <2>1. TracksLiveOrders'
      BY <1>1, <1>2, Zenon DEF TrackingInv, TracksLiveOrders
    <2> QED
      BY <1>1, <2>1, Zenon DEF TrackingInv
  <1>4. SameTicker'
    <2>1. ASSUME NEW id \in DOMAIN pending_orders
          PROVE  Names(id, pending_orders[id].ticker_id, pending_orders[id].side)'
      <3>1. PICK t \in Tickers, s \in Sides : t = pending_orders[id].ticker_id /\ s = pending_orders[id].side
        BY <1>2, Zenon
      <3>2. Names(id, t, s)'
        BY <1>1, <1>2, <3>1, Zenon DEF SameTicker
      <3> QED
        BY <3>1, <3>2, Zenon
    <2> QED
      BY <2>1, Zenon DEF SameTicker
  <1>5. CountInv'
    <2>1. \A t \in Tickers : OrdersOf(t)' = OrdersOf(t)
      BY Zenon DEF OrdersOf
    <2> QED
      BY <2>1, Zenon DEF CountInv, CountsTrackedOrders
  <1> QED
    BY <1>3, <1>4, <1>5, Zenon

\* Cancels of tracked orders leave them tracked.
LEMMA CancelTracks ==
    ASSUME SessionInv, TrackingInv, SameTicker, CountInv,
           NEW S \in SUBSET DOMAIN pending_orders, NEW k \in Nat, NEW ids \in [1 .. k -> S],
           send_cancels(Cancels(ids)),
           UNCHANGED <<pending_orders, open_order_count, forgot>>
    PROVE  SessionInv' /\ TrackingInv' /\ SameTicker' /\ CountInv'
  <1> PICK ms : ms = Cancels(ids)
    BY Zenon
  <1>1. /\ ms = [i \in 1 .. k |-> CancelRequest(ids[i], pending_orders[ids[i]])]
        /\ \A i \in 1 .. k : /\ ids[i] \in DOMAIN pending_orders /\ ids[i] \in 1 .. next_order_id - 1
                             /\ ids[i] \in Nat /\ pending_orders[ids[i]] \in Tracked
    <2>1. DOMAIN ids = 1 .. k /\ \A i \in 1 .. k : ids[i] \in DOMAIN pending_orders
      BY Zenon
    <2>2. \A id \in 1 .. next_order_id - 1 : id \in Nat
      BY DEF SessionInv, SessionOK
    <2> QED
      BY <2>1, <2>2, Zenon DEF Cancels, TrackingInv
  <1>2. /\ ms \in Seq(Requests) /\ Len(ms) = k
        /\ \A i \in 1 .. k : /\ ms[i].msg_type = "Cancel" /\ ms[i].order_id = ids[i]
                             /\ ms[i].order = pending_orders[ids[i]]
    BY <1>1 DEF CancelRequest, Requests
  <1>3. SessionInv'
    BY <1>1, <1>2, CancelsKeep, Zenon
  <1>4. /\ next_order_id' = next_order_id /\ next_order_id \in Nat
        /\ \A id \in Nat : Live(id)' <=> Live(id)
        /\ \A id \in Nat, t \in Tickers, s \in Sides :
              /\ Names(id, t, s)
              /\ \A i \in 1 .. Len(ms) : ms[i].order_id = id => ms[i].order.ticker_id = t /\ ms[i].order.side = s
              => Names(id, t, s)'
    <2>1. \A i \in 1 .. Len(ms) : ms[i].msg_type = "Cancel" /\ ms[i].order_id \in 1 .. next_order_id - 1
      BY <1>1, <1>2
    <2>2. next_order_id \in Nat
      BY DEF SessionInv, SessionOK
    <2> QED
      BY <1>2, <2>1, <2>2, CancelsLive, Zenon
  <1>5. ASSUME NEW id \in DOMAIN pending_orders, Names(id, pending_orders[id].ticker_id, pending_orders[id].side)
        PROVE  Names(id, pending_orders[id].ticker_id, pending_orders[id].side)'
    <2>1. PICK t \in Tickers, s \in Sides : t = pending_orders[id].ticker_id /\ s = pending_orders[id].side
      BY DEF TrackingInv, Tracked
    <2>2. id \in Nat
      BY DEF TrackingInv
    <2>3. Names(id, t, s)'
      BY <1>2, <1>4, <1>5, <2>1, <2>2
    <2> QED
      BY <2>1, <2>3
  <1> QED
    BY <1>3, <1>4, <1>5, TrackingKept, Zenon

-----------------------------------------------------------------------------
\* The accounts when the position of ticker t becomes q and its ledger l.
LEMMA AccountSet ==
    ASSUME BookingInv, NEW t \in Tickers, NEW q \in Positions,
           positions' = set_position(positions, t, q),
           NEW l \in Ledgers,
           ledger' = [ledger EXCEPT ![t] = l], Accounted(q, l)
    PROVE  BookingInv'
  <1>1. /\ DOMAIN positions' = DOMAIN positions \cup {t} /\ positions'[t] = q
        /\ \A x \in DOMAIN positions : x # t => positions'[x] = positions[x]
    BY DEF set_position
  <1>2. /\ ledger' \in [Tickers -> Ledgers]
        /\ ledger'[t] = l /\ \A x \in Tickers : x # t => ledger'[x] = ledger[x]
    BY DEF BookingInv
  <1>3. \A x \in DOMAIN positions' : x \in Tickers /\ positions'[x] \in Positions
    BY <1>1, Zenon DEF BookingInv
  <1>4. \A x \in Tickers : x # t => get_position(positions, x)' = get_position(positions, x)
    BY <1>1, Zenon DEF get_position
  <1>5. get_position(positions, t)' = q
    BY <1>1 DEF get_position
  <1>6. \A x \in Tickers : Accounted(get_position(positions, x), ledger[x])'
    <2> SUFFICES ASSUME NEW x \in Tickers
                 PROVE  Accounted(get_position(positions', x), ledger'[x])
      BY DEF get_position, Accounted, Booking
    <2>1. CASE x = t
      BY <1>2, <1>5, <2>1, Zenon DEF get_position
    <2>2. CASE x # t
      BY <1>2, <1>4, <2>2 DEF get_position, BookingInv
    <2> QED
      BY <2>1, <2>2, Zenon
  <1> QED
    BY <1>2, <1>3, <1>6, Zenon DEF BookingInv

\* Pending quantities and marks book nothing.
LEMMA AccountUnmoved ==
    ASSUME BookingInv, NEW t \in Tickers, NEW q \in Positions,
           Booking(q) = Booking(get_position(positions, t)),
           positions' = set_position(positions, t, q), ledger' = ledger
    PROVE  BookingInv'
  <1> PICK l : l = ledger[t]
    OBVIOUS
  <1>1. l \in Ledgers /\ Accounted(get_position(positions, t), l)
    BY PositionFacts, Zenon
  <1>2. Accounted(q, l)
    BY <1>1, Zenon DEF Accounted
  <1>3. ledger' = [ledger EXCEPT ![t] = l]
    BY DEF BookingInv
  <1> QED
    BY <1>1, <1>2, <1>3, AccountSet, Zenon

\* A fill books its cost, up to the remainder that averaging drops.
LEMMA AccountFill ==
    ASSUME NEW p \in Positions, NEW l \in Ledgers, Accounted(p, l),
           NEW side \in Sides, NEW qty \in Nat, NEW price \in Nat
    PROVE  /\ Booked(l, p, side * qty, price) \in Ledgers
           /\ Accounted(on_fill(p, side, qty, price), Booked(l, p, side * qty, price))
  <1> DEFINE sq == side * qty
             q == on_fill(p, side, qty, price)
             n == Abs(p.position + sq)
             m == Booked(l, p, sq, price)
             dropped == IF p.position = 0 \/ Opposite(p.position, sq) THEN 0 ELSE n - 1
  <1>1. /\ p.position \in Int /\ sq \in Int /\ q \in Positions
        /\ l.cost \in Int /\ l.over \in Nat /\ l.under \in Nat
    <2>1. q \in Positions
      BY FillTyped
    <2>2. p.position \in Int /\ sq \in Int
      BY DEF Positions, Sides, BUY, SELL
    <2> QED
      BY <2>1, <2>2 DEF Ledgers
  <1>2. Booking(p) \in Int /\ Booking(q) \in Int /\ sq * price \in Int
    BY <1>1 DEF Booking, Positions
  <1>3. /\ m.cost = l.cost + sq * price
        /\ m.over = l.over + IF p.position > 0 THEN dropped ELSE 0
        /\ m.under = l.under + IF p.position < 0 THEN dropped ELSE 0
        /\ m = [cost |-> m.cost, over |-> m.over, under |-> m.under]
    BY DEF Booked
  <1>4. -l.under =< Booking(p) + l.cost /\ Booking(p) + l.cost =< l.over
    BY DEF Accounted
  <1>5. CASE p.position = 0 \/ Opposite(p.position, sq)
    <2>1. Booking(q) + sq * price = Booking(p)
      BY <1>5, ExactFill, Zenon
    <2>2. m.cost = l.cost + sq * price /\ m.over = l.over /\ m.under = l.under
      BY <1>1, <1>3, <1>5
    <2> HIDE DEF sq, q, n, m, dropped
    <2>3. Booking(q) + m.cost = Booking(p) + l.cost /\ m.cost \in Int
      BY <1>1, <1>2, <2>1, <2>2
    <2>4. Accounted(q, m)
      BY <1>4, <2>2, <2>3, Zenon DEF Accounted
    <2>5. m \in Ledgers
      BY <1>1, <1>3, <2>2, <2>3, Zenon DEF Ledgers
    <2> QED
      BY <2>4, <2>5, Zenon DEF sq, q, m
  <1>6. CASE p.position # 0 /\ ~Opposite(p.position, sq)
    <2>1. /\ n \in Nat \ {0}
          /\ p.position > 0 => 0 =< Booking(q) + sq * price - Booking(p)
                               /\ Booking(q) + sq * price - Booking(p) =< n - 1
          /\ p.position < 0 => -(n - 1) =< Booking(q) + sq * price - Booking(p)
                               /\ Booking(q) + sq * price - Booking(p) =< 0
      BY <1>6, AveragedFill, Zenon
    <2>2. /\ m.cost = l.cost + sq * price
          /\ m.over = l.over + (IF p.position > 0 THEN n - 1 ELSE 0)
          /\ m.under = l.under + (IF p.position < 0 THEN n - 1 ELSE 0)
      BY <1>3, <1>6, Zenon
    <2> HIDE DEF sq, q, n, m, dropped
    <2>3. m.cost \in Int /\ m.over \in Nat /\ m.under \in Nat
      BY <1>1, <1>2, <2>1, <2>2
    <2>4. Accounted(q, m)
      BY <1>1, <1>2, <1>4, <1>6, <2>1, <2>2, <2>3 DEF Accounted
    <2>5. m \in Ledgers
      BY <1>3, <2>3, Zenon DEF Ledgers
    <2> QED
      BY <2>4, <2>5 DEF sq, q, m
  <1> QED
    BY <1>5, <1>6

\* The position and the ledger after a fill of a tracked order.
LEMMA FilledAccount ==
    ASSUME NEW p \in Positions, NEW l \in Ledgers, Accounted(p, l),
           NEW side \in Sides, NEW r \in Responses
    PROVE  LET q == FilledPosition(p, side, r)
               m == Booked(l, p, side * r.exec_qty, r.price)
           IN  q \in Positions /\ m \in Ledgers /\ Accounted(q, m)
  <1> PICK q, m : /\ q = FilledPosition(p, side, r)
                  /\ m = Booked(l, p, side * r.exec_qty, r.price)
    OBVIOUS
  <1>1. PICK qty \in Nat, price \in Nat : qty = r.exec_qty /\ price = r.price
    BY DEF Responses
  <1>2. /\ q = remove_open_order(on_fill(p, side, qty, price), side, qty)
        /\ m = Booked(l, p, side * qty, price)
    BY <1>1, Zenon DEF FilledPosition
  <1>3. m \in Ledgers /\ Accounted(on_fill(p, side, qty, price), m)
    BY <1>2, AccountFill
  <1>4. PICK f : f = on_fill(p, side, qty, price)
    OBVIOUS
  <1>5. f \in Positions /\ QtyMod \in Nat \ {0}
    BY <1>4, FillTyped, RiskAssumption, Zenon
  <1>6. q \in Positions /\ Booking(q) = Booking(f)
    BY <1>2, <1>4, <1>5, OpenOrderTyped
  <1>7. Accounted(q, m)
    BY <1>3, <1>4, <1>6, Zenon DEF Accounted
  <1> QED
    BY <1>3, <1>6, <1>7, Zenon

-----------------------------------------------------------------------------
\* The cycle stays within its budget.
LEMMA CycleKept ==
    ASSUME ControlInv, NEW part \in {"responses", "market"}, NEW after, CycleEvent(part, after)
    PROVE  cycle' \in [at : {"idle", "responses", "market"}, left : 0 .. max_events_per_cycle]
  <1> DEFINE left == IF cycle = Idle THEN max_events_per_cycle ELSE cycle.left
  <1>1. left \in 0 .. max_events_per_cycle /\ max_events_per_cycle \in Nat
    BY TradeEngineAssumption DEF ControlInv
  <1>2. left > 0 /\ cycle' = IF left = 1 THEN Idle ELSE [at |-> part, left |-> left - 1]
    BY DEF CycleEvent
  <1> HIDE DEF left
  <1>3. left - 1 \in 0 .. max_events_per_cycle /\ 0 \in 0 .. max_events_per_cycle
    BY <1>1, <1>2
  <1> QED
    BY <1>2, <1>3, Zenon DEF Idle

\* The invariant holds at the start.
LEMMA InitInv ==
    ASSUME FiniteSetFacts, Init
    PROVE  Inv
  <1>1. SessionInv
    <2>1. /\ next_order_id = 1 /\ requests = <<>> /\ inbox = <<>> /\ DOMAIN book = {}
      BY DEF Init, SessionInit
    <2>2. Len(requests) = 0 /\ Len(inbox) = 0 /\ 1 .. 0 = {}
      BY <2>1
    <2>3. SessionOK
      BY <2>1, <2>2 DEF SessionOK
    <2>4. \A i, id \in Nat : ~NewAt(i, id) /\ ~CancelAt(i, id) /\ ~EndAt(i, id) /\ ~MissAt(i, id)
      BY <2>2, Zenon DEF NewAt, CancelAt, EndAt, MissAt
    <2> QED
      BY <2>3, <2>4, Zenon DEF SessionInv, OnePlace, CancelsBehind
  <1>2. DOMAIN pending_orders = {} /\ next_order_id = 1 /\ SameTicker
    BY Zenon DEF Init, SessionInit, SameTicker
  <1>3. TrackingInv
    <2>1. 1 .. 1 - 1 = {}
      OBVIOUS
    <2> QED
      BY <1>2, <2>1 DEF FiniteSetFacts, TrackingInv, TracksLiveOrders
  <1>4. CountInv
    <2>1. \A t \in Tickers : OrdersOf(t) = {}
      BY <1>2, Zenon DEF OrdersOf
    <2>2. open_order_count = [t \in Tickers |-> 0] /\ Cardinality({}) = 0
      BY DEF FiniteSetFacts, Init
    <2> QED
      BY <2>1, <2>2 DEF CountInv, CountsTrackedOrders
  <1>5. BookingInv
    <2>1. DOMAIN positions = {} /\ ledger = [t \in Tickers |-> [cost |-> 0, over |-> 0, under |-> 0]]
      BY DEF Init
    <2>2. Booking(NewPosition) = 0
      BY RiskAssumption, NewPositionTyped, Zenon
    <2>3. \A t \in Tickers : Accounted(get_position(positions, t), ledger[t])
      BY <2>1, <2>2 DEF get_position, Accounted
    <2> QED
      BY <2>1, <2>3 DEF BookingInv, Ledgers
  <1>6. ControlInv
    <2>1. 0 \in 0 .. max_events_per_cycle
      BY TradeEngineAssumption
    <2>2. cycle \in [at : {"idle", "responses", "market"}, left : 0 .. max_events_per_cycle]
      BY <2>1 DEF Init, Idle
    <2>3. running \in BOOLEAN /\ forgot \in BOOLEAN
      BY Zenon DEF Init
    <2>4. todo \in Seq(Orders) /\ DOMAIN limits = {}
      BY DEF Init
    <2> QED
      BY <2>2, <2>3, <2>4, Zenon DEF ControlInv
  <1> QED
    BY <1>1, <1>2, <1>3, <1>4, <1>5, <1>6, Zenon DEF Inv

\* A step that leaves the session and the tracked orders alone.
LEMMA Unmoved ==
    ASSUME Inv, UNCHANGED <<session, pending_orders, open_order_count, forgot>>
    PROVE  SessionInv' /\ TrackingInv' /\ SameTicker' /\ CountInv'
  <1>1. /\ SessionInv' /\ next_order_id' = next_order_id
        /\ \A id : Live(id)' <=> Live(id)
        /\ \A id, t, s : Names(id, t, s)' <=> Names(id, t, s)
    BY SessionUnmoved, Zenon DEF Inv
  <1>2. next_order_id \in Nat
    BY DEF Inv, SessionInv, SessionOK
  <1>3. ASSUME NEW id \in DOMAIN pending_orders, Names(id, pending_orders[id].ticker_id, pending_orders[id].side)
        PROVE  Names(id, pending_orders[id].ticker_id, pending_orders[id].side)'
    <2> PICK t, s : t = pending_orders[id].ticker_id /\ s = pending_orders[id].side
      OBVIOUS
    <2>1. Names(id, t, s)'
      BY <1>1, <1>3, Zenon
    <2> QED
      BY <2>1
  <1> QED
    BY <1>1, <1>2, <1>3, TrackingKept, Zenon DEF Inv

\* Marks leave the accounts alone.
LEMMA MarkKeeps ==
    ASSUME BookingInv, NEW t \in Tickers, NEW price \in Int,
           Mark(t, price) \/ UNCHANGED keeper, ledger' = ledger
    PROVE  BookingInv'
  <1>1. CASE UNCHANGED positions
    BY <1>1, Zenon DEF BookingInv, Accounted, Booking, get_position
  <1>2. CASE t \in DOMAIN positions /\ positions' = [positions EXCEPT ![t] = update_market_price(@, price)]
    <2> PICK q : q = update_market_price(positions[t], price)
      BY Zenon
    <2>1. positions[t] \in Positions /\ get_position(positions, t) = positions[t]
      BY <1>2, Zenon DEF BookingInv, get_position
    <2>2. q \in Positions /\ Booking(q) = Booking(positions[t])
      BY <2>1, MarkTyped
    <2>3. positions' = set_position(positions, t, q)
      BY <1>2, Zenon DEF set_position
    <2> QED
      BY <2>1, <2>2, <2>3, AccountUnmoved, Zenon
  <1> QED
    BY <1>1, <1>2, Zenon DEF Mark, keeper

-----------------------------------------------------------------------------
\* A response: one step for what it does to the orders, one for the accounts.
LEMMA AcceptedKeeps ==
    ASSUME Inv, receive, NEW r, r = inbox[1], accepted(r), forgot' = forgot
    PROVE  TrackingInv' /\ SameTicker' /\ CountInv' /\ BookingInv'
  <1>1. /\ UNCHANGED <<pending_orders, open_order_count, positions, ledger>> /\ ~Terminal(r)
        /\ SessionInv /\ TrackingInv /\ SameTicker /\ CountInv /\ BookingInv
    BY DEF accepted, keeper, Terminal, Inv
  <1>2. \A id \in DOMAIN pending_orders : pending_orders'[id] \in Tracked
    BY <1>1, Zenon DEF TrackingInv
  <1>3. TrackingInv' /\ SameTicker' /\ CountInv'
    BY <1>1, <1>2, ProgressTracks, Zenon
  <1>4. BookingInv'
    BY <1>1, Zenon DEF BookingInv, Accounted, Booking, get_position
  <1> QED
    BY <1>3, <1>4, Zenon

\* A fill books a tracked order's quantity and ends its tracking when nothing is
\* left; one of a forgotten order at most lowers the count.
LEMMA FilledKeeps ==
    ASSUME FiniteSetFacts, Inv, receive, NEW r, r = inbox[1], filled(r), forgot' = forgot
    PROVE  TrackingInv' /\ SameTicker' /\ CountInv' /\ BookingInv'
  <1> PICK x, t : x = r.client_order_id /\ t = r.ticker_id
    OBVIOUS
  <1>1. /\ SessionInv /\ TrackingInv /\ SameTicker /\ CountInv /\ BookingInv
        /\ r.msg_type = "Filled" /\ r \in Responses
    BY ReceiveLive, Zenon DEF filled, Inv
  <1>2. t \in Tickers /\ r.exec_qty \in Nat /\ r.price \in Nat /\ r.leaves_qty \in Nat
    BY <1>1, Zenon DEF Responses
  <1>3. TrackingInv' /\ SameTicker' /\ CountInv'
    <2>1. CASE r.leaves_qty = 0
      <3>1. /\ DOMAIN pending_orders' = DOMAIN pending_orders \ {x} /\ CountDown(r.ticker_id)
            /\ \A id \in DOMAIN pending_orders' : pending_orders'[id] = pending_orders[id]
        BY <2>1, Zenon DEF filled, Untrack
      <3>2. Terminal(r)
        BY <1>1, <2>1, Zenon DEF Terminal
      <3> QED
        BY <1>1, <3>1, <3>2, EndTracks, Zenon
    <2>2. CASE r.leaves_qty # 0
      <3>1. /\ pending_orders' = [id \in DOMAIN pending_orders |->
                  IF id = x THEN Leaves(pending_orders[id], r) ELSE pending_orders[id]]
            /\ open_order_count' = open_order_count
        BY <2>2, Zenon DEF filled
      <3>2. \A id \in DOMAIN pending_orders : pending_orders[id] \in Tracked
        BY <1>1 DEF TrackingInv
      <3>3. ASSUME NEW o \in Tracked
            PROVE  Leaves(o, r) \in Tracked /\ Leaves(o, r).ticker_id = o.ticker_id /\ Leaves(o, r).side = o.side
        BY <1>2, Zenon DEF Leaves, Tracked
      <3>4. \A id \in DOMAIN pending_orders : /\ pending_orders'[id] \in Tracked
               /\ pending_orders'[id].ticker_id = pending_orders[id].ticker_id
               /\ pending_orders'[id].side = pending_orders[id].side
        BY <3>1, <3>2, <3>3, Zenon
      <3>5. ~Terminal(r) /\ DOMAIN pending_orders' = DOMAIN pending_orders
        BY <1>1, <2>2, <3>1, Zenon DEF Terminal
      <3> QED
        BY <1>1, <3>1, <3>4, <3>5, ProgressTracks, Zenon
    <2> QED
      BY <2>1, <2>2, Zenon
  <1>4. CASE x \in DOMAIN pending_orders
    <2> PICK p, side : p = get_position(positions, t) /\ side = pending_orders[x].side
      BY Zenon
    <2> PICK k, q, l : /\ k = ledger[t] /\ q = FilledPosition(p, side, r)
                       /\ l = Booked(k, p, side * r.exec_qty, r.price)
      BY Zenon
    <2>1. positions' = set_position(positions, t, q) /\ ledger' = [ledger EXCEPT ![t] = l]
      BY <1>4, Zenon DEF filled
    <2>2. /\ side \in Sides /\ p \in Positions /\ Accounted(p, k)
          /\ k \in Ledgers
      BY <1>1, <1>2, <1>4, PositionFacts, Zenon DEF TrackingInv, Tracked
    <2>3. q \in Positions /\ l \in Ledgers /\ Accounted(q, l)
      <3>1. LET z == FilledPosition(p, side, r)
                m == Booked(k, p, side * r.exec_qty, r.price)
            IN  z \in Positions /\ m \in Ledgers /\ Accounted(z, m)
        BY <1>1, <2>2, FilledAccount, Zenon
      <3> QED
        BY <3>1, Zenon
    <2>4. BookingInv'
      BY <1>1, <1>2, <2>1, <2>3, AccountSet, Zenon
    <2> QED
      BY <1>3, <2>4, Zenon
  <1>5. CASE x \notin DOMAIN pending_orders
    <2>1. UNCHANGED <<positions, ledger>>
      BY <1>5, Zenon DEF filled, keeper
    <2>2. BookingInv'
      BY <1>1, <2>1, Zenon DEF BookingInv, Accounted, Booking, get_position
    <2> QED
      BY <1>3, <2>2
  <1> QED
    BY <1>4, <1>5

\* A cancellation or a rejection ends the tracking and releases the pending
\* quantity; one of a forgotten order changes nothing.
LEMMA EndedKeeps ==
    ASSUME FiniteSetFacts, Inv, receive, NEW r, r = inbox[1], ended(r), forgot' = forgot
    PROVE  TrackingInv' /\ SameTicker' /\ CountInv' /\ BookingInv'
  <1> PICK x, t : x = r.client_order_id /\ t = r.ticker_id
    OBVIOUS
  <1>1. /\ SessionInv /\ TrackingInv /\ SameTicker /\ CountInv /\ BookingInv
        /\ r \in Responses /\ t \in Tickers /\ ledger' = ledger
        /\ r.msg_type \in {"Canceled", "CancelRejected", "InvalidRequest"}
    <2>1. r \in Responses
      BY ReceiveLive, Zenon DEF Inv
    <2> QED
      BY <2>1, Zenon DEF ended, Inv, Responses
  <1>2. (Terminal(r) \/ r.msg_type = "CancelRejected") /\ r.msg_type # "Filled"
    BY <1>1, Zenon DEF Terminal
  <1>3. CASE x \in DOMAIN pending_orders
    <2> PICK p, o : p = get_position(positions, t) /\ o = pending_orders[x]
      OBVIOUS
    <2> PICK q : q = remove_open_order(p, o.side, o.qty)
      BY Zenon
    <2>1. /\ DOMAIN pending_orders' = DOMAIN pending_orders \ {x} /\ CountDown(r.ticker_id)
          /\ \A id \in DOMAIN pending_orders' : pending_orders'[id] = pending_orders[id]
          /\ positions' = set_position(positions, t, q)
      BY <1>3 DEF ended, Untrack
    <2>2. TrackingInv' /\ SameTicker' /\ CountInv'
      BY <1>1, <1>2, <1>3, <2>1, EndTracks, Zenon
    <2>3. o.side \in Sides /\ o.qty \in Nat /\ p \in Positions
      BY <1>1, <1>3, PositionFacts, Zenon DEF TrackingInv, Tracked
    <2>4. q \in Positions /\ Booking(q) = Booking(p)
      BY <2>3, RiskAssumption, OpenOrderTyped
    <2>5. BookingInv'
      BY <1>1, <2>1, <2>4, AccountUnmoved, Zenon
    <2> QED
      BY <2>2, <2>5, Zenon
  <1>4. CASE x \notin DOMAIN pending_orders
    <2>1. UNCHANGED <<pending_orders, open_order_count, positions>>
      BY <1>4, Zenon DEF ended
    <2>2. DOMAIN pending_orders' = DOMAIN pending_orders \ {x}
      BY <1>4, <2>1
    <2>3. TrackingInv' /\ SameTicker' /\ CountInv'
      BY <1>1, <1>2, <1>4, <2>1, <2>2, EndTracks, Zenon
    <2>4. BookingInv'
      BY <1>1, <2>1, Zenon DEF BookingInv, Accounted, Booking, get_position
    <2> QED
      BY <2>3, <2>4
  <1> QED
    BY <1>3, <1>4

-----------------------------------------------------------------------------
\* Every step keeps the invariant.
LEMMA NextInv ==
    ASSUME FiniteSetFacts, Inv, [Next]_vars
    PROVE  Inv'
  <1>0. SessionInv /\ TrackingInv /\ SameTicker /\ CountInv /\ BookingInv /\ ControlInv
    BY Zenon DEF Inv
  <1> DEFINE Rest == UNCHANGED <<session, pending_orders, open_order_count, positions, ledger, forgot>>
  <1>1. ASSUME Rest, ControlInv'
        PROVE  Inv'
    <2>1. BookingInv'
      BY <1>0, <1>1, Zenon DEF BookingInv, Accounted, Booking, get_position
    <2> QED
      BY <1>1, <2>1, Unmoved, Zenon DEF Inv
  <1>2. CASE start \/ stop
    <2>1. Rest /\ UNCHANGED <<cycle, todo, limits>>
      BY <1>2 DEF start, stop, orders, keeper, history
    <2>2. running' \in BOOLEAN
      BY <1>2, Zenon DEF start, stop
    <2> QED
      BY <1>0, <1>1, <2>1, <2>2, Zenon DEF ControlInv
  <1>3. CASE reset
    <2>1. /\ DOMAIN pending_orders' = {} /\ open_order_count' = [t \in Tickers |-> 0]
          /\ UNCHANGED <<session, positions, ledger, running, cycle, todo, limits>> /\ forgot' = TRUE
      BY <1>3, Zenon DEF reset, keeper
    <2>2. SessionInv'
      BY <1>0, <2>1, SessionUnmoved, Zenon
    <2>3. TrackingInv' /\ SameTicker'
      BY <2>1, Zenon DEF FiniteSetFacts, TrackingInv, TracksLiveOrders, SameTicker
    <2>4. CountInv'
      <3>1. \A t \in Tickers : OrdersOf(t)' = {}
        BY <2>1 DEF OrdersOf
      <3>2. Cardinality({}) = 0
        BY DEF FiniteSetFacts
      <3> QED
        <4>1. \A t \in Tickers : open_order_count'[t] = 0 /\ Cardinality(OrdersOf(t)') = 0
          BY <2>1, <3>1, <3>2, Zenon
        <4>2. open_order_count' \in [Tickers -> Nat]
          BY <2>1
        <4> QED
          BY <4>1, <4>2 DEF CountInv, CountsTrackedOrders
    <2>5. BookingInv'
      BY <1>0, <2>1, Zenon DEF BookingInv, Accounted, Booking, get_position
    <2>6. ControlInv'
      <3>1. forgot' \in BOOLEAN
        BY <2>1, Zenon
      <3> QED
        BY <1>0, <2>1, <3>1 DEF ControlInv
    <2> QED
      BY <2>2, <2>3, <2>4, <2>5, <2>6, Zenon DEF Inv
  <1>4. CASE run_cycle_ends
    <2>1. Rest /\ cycle' = Idle /\ UNCHANGED <<running, todo, limits>>
      BY <1>4, Zenon DEF run_cycle_ends, orders, keeper, history
    <2>2. 0 \in 0 .. max_events_per_cycle
      BY TradeEngineAssumption
    <2>3. cycle' \in [at : {"idle", "responses", "market"}, left : 0 .. max_events_per_cycle]
      BY <2>1, <2>2 DEF Idle
    <2> QED
      BY <1>0, <1>1, <2>1, <2>3, Zenon DEF ControlInv
  <1>5. CASE submit_order
    <2> PICK o : o = todo[1]
      OBVIOUS
    <2>1. /\ todo # <<>> /\ todo \in Seq(Orders) /\ todo' = Tail(todo)
          /\ UNCHANGED <<running, cycle, limits, forgot, ledger>>
      BY <1>0, <1>5, Zenon DEF submit_order, ControlInv, history
    <2>2. todo' \in Seq(Orders) /\ Head(todo) = o /\ o \in Orders
      BY <2>1, TailFacts, Zenon
    <2>3. o \in Tracked /\ o.ticker_id \in Tickers /\ o.side \in Sides /\ o.qty \in Nat
      BY <2>2, TradeEngineAssumption, Zenon DEF Tracked
    <2>4. ControlInv'
      BY <1>0, <2>1, <2>2, Zenon DEF ControlInv
    <2>5. CASE UNCHANGED <<pending_orders, open_order_count, positions, session>>
      BY <1>1, <2>1, <2>4, <2>5, Zenon
    <2>6. CASE /\ send_new_orders(<<o>>)
               /\ pending_orders' = Track(pending_orders, next_order_id, o)
               /\ open_order_count' = [open_order_count EXCEPT ![o.ticker_id] = @ + 1]
               /\ positions' = set_position(positions, o.ticker_id,
                     add_open_order(get_position(positions, o.ticker_id), o.side, o.qty))
      <3>1. SessionInv'
        BY <1>0, <2>3, <2>6, SubmitKeeps, Zenon
      <3>2. TrackingInv' /\ SameTicker' /\ CountInv'
        BY <1>0, <2>1, <2>3, <2>6, SubmitTracks, Zenon
      <3> PICK p, q : /\ p = get_position(positions, o.ticker_id)
                      /\ q = add_open_order(p, o.side, o.qty)
        BY Zenon
      <3>3. p \in Positions
        BY <1>0, <2>3, PositionFacts, Zenon
      <3>4. q \in Positions /\ Booking(q) = Booking(p)
        BY <2>3, <3>3, RiskAssumption, OpenOrderTyped, Zenon
      <3>5. BookingInv'
        BY <1>0, <2>1, <2>3, <2>6, <3>4, AccountUnmoved, Zenon
      <3> QED
        BY <2>4, <3>1, <3>2, <3>5, Zenon DEF Inv
    <2> QED
      BY <1>5, <2>2, <2>5, <2>6, Zenon DEF submit_order
  <1>6. CASE on_response
    <2> PICK r : r = inbox[1]
      OBVIOUS
    <2>1. /\ CycleEvent("responses", {"responses"}) /\ receive
          /\ UNCHANGED <<running, todo, limits, forgot>>
      BY <1>6, Zenon DEF on_response
    <2>2. Head(inbox) = r
      BY <1>0, <2>1, ReceiveLive, Zenon
    <2>3. accepted(r) \/ filled(r) \/ ended(r)
      BY <1>6, <2>2, Zenon DEF on_response
    <2>4. SessionInv'
      BY <1>0, <2>1, ReceiveKeeps, Zenon
    <2>5. TrackingInv' /\ SameTicker' /\ CountInv' /\ BookingInv'
      BY <2>1, <2>3, AcceptedKeeps, FilledKeeps, EndedKeeps, Zenon
    <2>6. cycle' \in [at : {"idle", "responses", "market"}, left : 0 .. max_events_per_cycle]
      BY <1>0, <2>1, CycleKept, Zenon
    <2>7. ControlInv'
      BY <1>0, <2>1, <2>6, Zenon DEF ControlInv
    <2> QED
      BY <2>4, <2>5, <2>7, Zenon DEF Inv
  <1>7. CASE Exchange
    <2>1. /\ UNCHANGED <<pending_orders, open_order_count, positions, ledger, forgot>>
          /\ UNCHANGED <<running, cycle, todo, limits>>
      BY <1>7, Zenon DEF Exchange, engine, keeper
    <2>2. /\ SessionInv' /\ next_order_id' = next_order_id
          /\ \A id \in Nat : Live(id)' <=> Live(id)
          /\ \A id \in Nat, t \in Tickers, s \in Sides : Names(id, t, s) => Names(id, t, s)'
      BY <1>0, <1>7, ExchangeKeeps, Zenon DEF Exchange
    <2>3. ASSUME NEW id \in DOMAIN pending_orders, Names(id, pending_orders[id].ticker_id, pending_orders[id].side)
          PROVE  Names(id, pending_orders[id].ticker_id, pending_orders[id].side)'
      <3>1. PICK t \in Tickers, s \in Sides : t = pending_orders[id].ticker_id /\ s = pending_orders[id].side
        BY <1>0, Zenon DEF TrackingInv, Tracked
      <3>2. id \in Nat
        BY <1>0 DEF TrackingInv
      <3>3. Names(id, t, s)'
        BY <2>2, <2>3, <3>1, <3>2, Zenon
      <3> QED
        BY <2>1, <3>1, <3>3, Zenon
    <2>4. next_order_id \in Nat
      BY <1>0, Zenon DEF SessionInv, SessionOK
    <2>5. TrackingInv' /\ SameTicker' /\ CountInv'
      BY <1>0, <2>1, <2>2, <2>3, <2>4, TrackingKept, Zenon
    <2>6. BookingInv'
      BY <1>0, <2>1, Zenon DEF BookingInv, Accounted, Booking, get_position
    <2>7. ControlInv'
      BY <1>0, <2>1 DEF ControlInv
    <2> QED
      BY <2>2, <2>5, <2>6, <2>7, Zenon DEF Inv
  <1>8. ASSUME NEW l \in Limits, set_limits(l.ticker_id, l.limits) \/ remove_limits(l.ticker_id)
        PROVE  Inv'
    <2>1. Rest /\ UNCHANGED <<running, cycle, todo>>
      BY <1>8, Zenon DEF set_limits, remove_limits, orders, keeper, history
    <2>2. l.ticker_id \in Tickers
      BY TradeEngineAssumption
    <2>3. \/ DOMAIN limits' = DOMAIN limits \cup {l.ticker_id}
          \/ DOMAIN limits' = DOMAIN limits \ {l.ticker_id}
      BY <1>8, Zenon DEF set_limits, remove_limits
    <2>4. DOMAIN limits' \subseteq Tickers
      BY <1>0, <2>2, <2>3, Zenon DEF ControlInv
    <2> QED
      BY <1>0, <1>1, <2>1, <2>4, Zenon DEF ControlInv
  <1>9. ASSUME NEW t \in Tickers, NEW price \in Int, Mark(t, price) \/ UNCHANGED keeper,
               UNCHANGED <<session, pending_orders, open_order_count, ledger, forgot>>,
               ControlInv'
        PROVE  Inv'
    <2>1. BookingInv'
      BY <1>0, <1>9, MarkKeeps, Zenon
    <2> QED
      BY <1>9, <2>1, Unmoved, Zenon DEF Inv
  <1>10. ASSUME NEW b \in Bbos, update_bbo(b.ticker_id, b.bbo)
         PROVE  Inv'
    <2>1. b.ticker_id \in Tickers /\ mid_price(b.bbo) \in Int
      BY TradeEngineAssumption DEF mid_price, Sides, BUY, SELL
    <2>2. /\ Mark(b.ticker_id, mid_price(b.bbo)) \/ UNCHANGED keeper
          /\ UNCHANGED <<session, pending_orders, open_order_count, ledger, forgot>>
          /\ UNCHANGED <<running, cycle, todo, limits>>
      BY <1>10, Zenon DEF update_bbo, orders, history
    <2>3. ControlInv'
      BY <1>0, <2>2, Zenon DEF ControlInv
    <2> QED
      BY <1>9, <2>1, <2>2, <2>3, Zenon
  <1>11. ASSUME NEW u \in Updates, on_market_update(u)
         PROVE  Inv'
    <2>1. u.ticker_id \in Tickers /\ u.price \in Int
      BY TradeEngineAssumption
    <2>2. /\ Mark(u.ticker_id, u.price) \/ UNCHANGED keeper
          /\ UNCHANGED <<session, pending_orders, open_order_count, ledger, forgot>>
          /\ UNCHANGED <<running, todo, limits>>
          /\ CycleEvent("market", {"responses", "market"})
      BY <1>11, Zenon DEF on_market_update, orders, history
    <2>3. cycle' \in [at : {"idle", "responses", "market"}, left : 0 .. max_events_per_cycle]
      BY <1>0, <2>2, CycleKept, Zenon
    <2>4. ControlInv'
      BY <1>0, <2>2, <2>3, Zenon DEF ControlInv
    <2> QED
      BY <1>9, <2>1, <2>2, <2>4, Zenon
  <1>12. ASSUME NEW S \in SUBSET DOMAIN pending_orders, NEW k \in Nat, NEW ids \in [1 .. k -> S],
                send_cancels(Cancels(ids)), UNCHANGED engine
         PROVE  Inv'
    <2>1. UNCHANGED <<pending_orders, open_order_count, positions, ledger, forgot,
                      running, cycle, todo, limits>>
      BY <1>12 DEF engine, keeper
    <2>2. SessionInv' /\ TrackingInv' /\ SameTicker' /\ CountInv'
      BY <1>0, <1>12, <2>1, CancelTracks, Zenon
    <2>3. BookingInv'
      BY <1>0, <2>1, ZenonT(30) DEF BookingInv, Accounted, Booking, get_position
    <2>4. ControlInv'
      BY <1>0, <2>1 DEF ControlInv
    <2> QED
      BY <2>2, <2>3, <2>4, Zenon DEF Inv
  <1>13. ASSUME NEW t \in Tickers, cancel_all_orders(t)
         PROVE  Inv'
    <2>1. PICK ids \in Bijection(1 .. Cardinality(OrdersOf(t)), OrdersOf(t)) : send_cancels(Cancels(ids))
      BY <1>13, Zenon DEF cancel_all_orders
    <2>2. OrdersOf(t) \in SUBSET DOMAIN pending_orders
      BY Zenon DEF OrdersOf
    <2>3. Cardinality(OrdersOf(t)) \in Nat
      BY <1>0, <2>2, Zenon DEF FiniteSetFacts, TrackingInv
    <2>4. ids \in [1 .. Cardinality(OrdersOf(t)) -> OrdersOf(t)]
      BY <2>1, Zenon DEF Bijection, Injection
    <2>5. UNCHANGED engine
      BY <1>13 DEF cancel_all_orders
    <2> QED
      BY <1>12, <2>1, <2>2, <2>3, <2>4, <2>5, Zenon
  <1>14. ASSUME NEW id \in DOMAIN pending_orders, cancel_order(id)
         PROVE  Inv'
    <2>1. send_cancels(Cancels(<<id>>)) /\ UNCHANGED engine
      BY <1>14 DEF cancel_order
    <2>2. <<id>> \in [1 .. 1 -> DOMAIN pending_orders]
      OBVIOUS
    <2> QED
      BY <1>12, <2>1, <2>2, Zenon
  <1>15. ASSUME NEW action \in Quotes \cup {<<o>> : o \in Orders}, process_strategy_action(action)
         PROVE  Inv'
    <2>1. Rest /\ todo' = action /\ UNCHANGED <<running, cycle, limits>>
      BY <1>15, ZenonT(30) DEF process_strategy_action, keeper, history
    <2>2. action \in Seq(Orders)
      <3>1. CASE action \in Quotes
        <4>1. PICK a \in Orders, b \in Orders : action = <<a, b>>
          BY <3>1 DEF Quotes
        <4> QED
          BY <4>1
      <3>2. CASE action \in {<<o>> : o \in Orders}
        <4>1. PICK o \in Orders : action = <<o>>
          BY <3>2, Zenon
        <4> QED
          BY <4>1
      <3> QED
        BY <3>1, <3>2, Zenon
    <2> QED
      BY <1>0, <1>1, <2>1, <2>2, ZenonT(30) DEF ControlInv
  <1>16. CASE UNCHANGED vars
    <2>1. Rest /\ UNCHANGED <<running, cycle, todo, limits>>
      BY <1>16 DEF vars, engine, keeper
    <2> QED
      BY <1>0, <1>1, <2>1, Zenon DEF ControlInv
  <1> QED
    BY <1>2, <1>3, <1>4, <1>5, <1>6, <1>7, <1>8, <1>10, <1>11, <1>13, <1>14, <1>15, <1>16, Zenon DEF Next
=============================================================================
