-------------------------- MODULE TradeEngineProofs --------------------------
(***************************************************************************)
(* The quantities of the trade engine agree with the exchange in every     *)
(* state, and the risk checks bound its exposure: how a submitted order    *)
(* keeps the invariant of QuantityProofs, then every step, then the        *)
(* theorems.                                                               *)
(***************************************************************************)
EXTENDS TrackingProofs, QuantityProofs

\* The provers get more time than by default.
USE SMTT(30), ZenonT(30)

-----------------------------------------------------------------------------
\* An order o that passes the check is sent, tracked and added.
Submits(o) ==
    /\ todo \in Seq(Orders) /\ todo # <<>> /\ todo' = Tail(todo) /\ o = todo[1]
    /\ check_order_risk(o) = "Allowed" /\ send_new_orders(<<o>>)
    /\ pending_orders' = Track(pending_orders, next_order_id, o)
    /\ positions' = set_position(positions, o.ticker_id,
          add_open_order(get_position(positions, o.ticker_id), o.side, o.qty))
    /\ UNCHANGED <<limits, calls, forgot>>

\* What is pending grows by the order, without wrapping, and within the budget.
Grows(o) ==
    /\ \A u \in Tickers : Held(u)' = Held(u)
    /\ \A u \in Tickers, s \in Sides :
          Open(u, s)' = Open(u, s) + (IF u = o.ticker_id /\ s = o.side THEN o.qty ELSE 0)

\* A number below the modulus does not wrap.
LEMMA NoWrap ==
    ASSUME NEW a \in Nat, NEW n \in Nat \ {0}, a < n
    PROVE  a % n = a
  OBVIOUS

\* There is room for the order in 32 bits.
LEMMA SubmitGrows ==
    ASSUME Inv, Quantities, NEW o \in Tracked, Submits(o)
    PROVE  Grows(o) /\ BudgetInv'
  <1>a. PICK t, side, qty : t = o.ticker_id /\ side = o.side /\ qty = o.qty
    OBVIOUS
  <1>b. PICK p, q : p = get_position(positions, t) /\ q = add_open_order(p, side, qty)
    OBVIOUS
  <1>1. /\ t \in Tickers /\ side \in Sides /\ qty \in Nat /\ p \in Positions /\ HeldTyped
        /\ positions' = set_position(positions, t, q) /\ QtyMod \in Nat \ {0} /\ MaxCalls \in Nat
    BY <1>a, <1>b, PositionOf, PositionsTyped, RiskAssumption, TradeEngineAssumption, Zenon DEF Tracked, Submits, Inv
  <1>2. /\ q.position = p.position
        /\ \A s \in Sides : q.open_qty[s] = IF s = side THEN (p.open_qty[s] + qty) % QtyMod ELSE p.open_qty[s]
    <2>1. q.position = p.position
      BY <1>b, <1>1, OpenOrderTyped, Zenon
    <2>2. \A s \in Sides : q.open_qty[s] = IF s = side THEN (p.open_qty[s] + qty) % QtyMod ELSE p.open_qty[s]
      BY <1>b, <1>1, OpenOrderFields
    <2> QED
      BY <2>1, <2>2, Zenon
  <1>3. \A u : /\ Held(u)' = IF u = t THEN q.position ELSE Held(u)
               /\ \A s : Open(u, s)' = IF u = t THEN q.open_qty[s] ELSE Open(u, s)
    BY <1>1, PositionSet, Zenon
  <1>4. Held(t) = p.position /\ \A s \in Sides : Open(t, s) = p.open_qty[s]
    BY <1>b DEF Held, Open
  <1>5. \A u \in Tickers : \A s \in Sides : Open(u, s) \in Nat
    BY <1>1 DEF HeldTyped
  <1>6. PICK m \in Nat, k \in Nat, n \in Nat : m = MaxQty /\ k = calls /\ n = Len(todo)
    <2>1. MaxQty \in Nat /\ calls \in 0 .. MaxCalls /\ todo \in Seq(Orders)
      BY MaxQtyFits DEF Quantities, BudgetInv, Submits
    <2>2. calls \in Nat /\ Len(todo) \in Nat
      BY <1>1, <2>1
    <2> QED
      BY <2>1, <2>2, Zenon
  <1>7. /\ o \in Orders /\ qty =< m /\ m * MaxCalls < QtyMod /\ n > 0 /\ Len(todo') = n - 1 /\ k =< MaxCalls
    <2>1. o \in Orders /\ n > 0 /\ Len(todo') = n - 1
      BY <1>6, TailFacts DEF Submits
    <2>2. MaxQty * MaxCalls < QtyMod
      BY <1>1, MaxQtyFits
    <2> QED
      BY <1>a, <1>1, <1>6, <2>1, <2>2, MaxQtyFits DEF Quantities, BudgetInv
  <1>8. /\ m * (k - n) \in Int /\ m * (k - (n - 1)) \in Int /\ m * (k - (n - 1)) = m * (k - n) + m
        /\ m * (k - (n - 1)) =< m * MaxCalls /\ m * MaxCalls \in Int
        /\ m * (k - n) =< m * (k - (n - 1))
    <2>1. k - (n - 1) =< MaxCalls /\ k - n \in Int /\ k - (n - 1) \in Int /\ k - (n - 1) = (k - n) + 1 /\ k - n =< k - (n - 1)
      BY <1>1, <1>7
    <2>2. m * ((k - n) + 1) = m * (k - n) + m
      BY <2>1
    <2> QED
      BY <1>1, <2>1, <2>2, Scaled
  <1>9. \A u \in Tickers, s \in Sides : Open(u, s) =< m * (k - n)
    BY <1>6, Zenon DEF Quantities, BudgetInv
  <1>10. ASSUME NEW u \in Tickers, NEW s \in Sides
         PROVE  /\ Open(u, s)' = Open(u, s) + (IF u = t /\ s = side THEN qty ELSE 0)
                /\ Open(u, s)' =< m * (k - (n - 1))
    <2>1. PICK x \in Nat : x = Open(u, s)
      BY <1>5
    <2>2. x =< m * (k - n)
      BY <1>9, <2>1, Zenon
    <2>3. PICK y, z, w \in Int : y = m * (k - n) /\ z = m * (k - (n - 1)) /\ w = m * MaxCalls
      BY <1>8
    <2>4. x =< y /\ y =< z /\ z = y + m /\ z =< w /\ w < QtyMod
      BY <1>7, <1>8, <2>2, <2>3, Zenon
    <2>5. x + qty < QtyMod /\ x + qty =< z /\ x =< z /\ x + qty \in Nat
      BY <1>1, <1>7, <2>4
    <2>6. (x + qty) % QtyMod = x + qty
      BY <1>1, <2>5, NoWrap, Zenon
    <2>7. CASE u = t /\ s = side
      <3>1. Open(u, s)' = q.open_qty[s] /\ p.open_qty[s] = x
        BY <1>3, <1>4, <2>1, <2>7, Zenon
      <3>2. Open(u, s)' = x + qty
        BY <1>2, <2>6, <2>7, <3>1, Zenon
      <3> QED
        BY <2>1, <2>3, <2>5, <2>7, <3>2, Zenon
    <2>8. CASE ~(u = t /\ s = side)
      <3>1. Open(u, s)' = x
        <4>1. CASE u = t
          <5>1. Open(u, s)' = q.open_qty[s] /\ p.open_qty[s] = x /\ s # side
            BY <1>3, <1>4, <2>1, <2>8, <4>1, Zenon
          <5> QED
            BY <1>2, <5>1, Zenon
        <4>2. CASE u # t
          BY <1>3, <2>1, <4>2, Zenon
        <4> QED
          BY <4>1, <4>2, Zenon
      <3> QED
        BY <2>1, <2>3, <2>5, <2>8, <3>1
    <2> QED
      BY <2>7, <2>8, Zenon
  <1>11. Grows(o)
    BY <1>a, <1>2, <1>3, <1>4, <1>10, Zenon DEF Grows
  <1>12. BudgetInv'
    <2>1. calls' = k /\ k \in 0 .. MaxCalls /\ MaxQty' = m /\ Len(todo') = n - 1
      BY <1>1, <1>6, <1>7 DEF Submits, MaxQty
    <2> QED
      BY <1>10, <2>1, Zenon DEF BudgetInv
  <1> QED
    BY <1>11, <1>12

\* The check leaves room for the order.
LEMMA SubmitExposure ==
    ASSUME FiniteSetFacts, SumFacts, Inv, Inv', Quantities, NEW o \in Tracked, Submits(o), Grows(o),
           OpenQtyCoversOrders'
    PROVE  ExposureInv'
  <1> SUFFICES ASSUME enable_risk_checks, ~forgot, NEW u \in Tickers
               PROVE  \E a, b, c \in AllLimits(u) : Exposed(u, a, b, c)'
    BY DEF ExposureInv, Submits
  <1>a. PICK t, side, qty, n : t = o.ticker_id /\ side = o.side /\ qty = o.qty /\ n = next_order_id
    OBVIOUS
  <1>1. PICK a, b, c \in AllLimits(u) : Exposed(u, a, b, c)
    BY DEF Quantities, ExposureInv
  <1>2. /\ t \in Tickers /\ side \in Sides /\ qty \in Nat /\ AllLimits(u) \in SUBSET RiskLimits
        /\ BUY \in Sides /\ SELL \in Sides /\ BUY # SELL /\ (side = BUY \/ side = SELL)
    BY <1>a, RiskAssumption, TradeEngineAssumption DEF Tracked, AllLimits, Sides, BUY, SELL
  <1>3. /\ Held(u) \in Int /\ Open(u, BUY) \in Nat /\ Open(u, SELL) \in Nat /\ Held(u)' = Held(u)
        /\ Open(u, BUY)' = Open(u, BUY) + (IF u = t /\ BUY = side THEN qty ELSE 0)
        /\ Open(u, SELL)' = Open(u, SELL) + (IF u = t /\ SELL = side THEN qty ELSE 0)
    <2>1. HeldTyped
      BY PositionsTyped DEF Inv
    <2> QED
      BY <1>a, <1>2, <2>1, Zenon DEF Grows, HeldTyped
  <1>4. /\ n \notin DOMAIN pending_orders /\ DOMAIN pending_orders' = DOMAIN pending_orders \cup {n}
        /\ pending_orders'[n] = o
        /\ \A id \in DOMAIN pending_orders : pending_orders'[id] = pending_orders[id]
    <2>1. n \notin 1 .. n - 1
      BY DEF Inv, SessionInv, SessionOK
    <2>2. n \notin DOMAIN pending_orders
      BY <1>a, <2>1 DEF Inv, TrackingInv
    <2> QED
      BY <1>a, <2>2, Zenon DEF Submits, Track
  <1>5. OrdersOf(u)' = IF u = t THEN OrdersOf(u) \cup {n} ELSE OrdersOf(u)
    BY <1>a, <1>4, Zenon DEF OrdersOf
  <1>6. CASE u # t
    <2>1. Exposed(u, a, b, c)'
      BY <1>1, <1>3, <1>4, <1>5, <1>6 DEF Exposed, Within, OrdersOf
    <2> QED
      BY <2>1, Zenon
  <1>7. CASE u = t
    <2>a. PICK lim : lim = get_limits(limits, t)
      OBVIOUS
    <2>1. lim \in AllLimits(u) /\ lim \in RiskLimits
      <3>1. lim \in AllLimits(u)
        BY <2>a, <1>7, Zenon DEF get_limits, Quantities, LimitsInv, AllLimits
      <3> QED
        BY <1>2, <3>1, Zenon
    <2>2. /\ qty =< lim.max_order_qty
          /\ Cardinality(OrdersOf(t)) < lim.max_open_orders
          /\ side = BUY => Held(t) < 0 \/ Held(t) + Open(t, BUY) + qty =< lim.max_position
          /\ side = SELL => Held(t) > 0 \/ Open(t, SELL) - Held(t) + qty =< lim.max_position
      BY <1>a, <2>a, <2>1, CheckPasses, Zenon DEF Submits
    <2>3. PICK d, e, f \in AllLimits(u) : Wider(a, b, c, d, e, f) /\ Wider(lim, lim, lim, d, e, f)
      BY <1>2, <2>1, WidestLimits, Zenon
    <2>4. /\ a \in RiskLimits /\ b \in RiskLimits /\ c \in RiskLimits
          /\ d \in RiskLimits /\ e \in RiskLimits /\ f \in RiskLimits
      BY <1>2, Zenon
    <2>5. PICK mp, mo, mq \in Nat : mp = d.max_position /\ mo = e.max_open_orders /\ mq = f.max_order_qty
      BY <2>4, Zenon DEF RiskLimits
    <2>6. /\ lim.max_order_qty \in Nat /\ lim.max_open_orders \in Nat /\ lim.max_position \in Nat
          /\ c.max_order_qty \in Nat /\ c.max_order_qty =< mq
          /\ lim.max_order_qty =< mq /\ lim.max_open_orders =< mo /\ lim.max_position =< mp
      BY <2>1, <2>3, <2>4, <2>5, Zenon DEF RiskLimits, Wider
    <2>7. \A id \in OrdersOf(t)' : pending_orders'[id].qty =< mq
      <3> TAKE id \in OrdersOf(t)'
      <3>1. CASE id = n
        BY <1>a, <1>2, <1>4, <2>2, <2>6, <3>1
      <3>2. CASE id # n
        <4>1. id \in OrdersOf(t) /\ id \in DOMAIN pending_orders /\ pending_orders'[id] = pending_orders[id]
          BY <1>4, <1>5, <1>7, <3>2, Zenon DEF OrdersOf
        <4>2. pending_orders[id].qty =< c.max_order_qty /\ pending_orders[id].qty \in Nat
          BY <1>1, <1>7, <4>1, Zenon DEF Exposed, Inv, TrackingInv, Tracked
        <4> QED
          BY <2>6, <4>1, <4>2
      <3> QED
        BY <3>1, <3>2, Zenon
    <2>8. \A s \in Sides : Open(t, s)' =< mo * mq /\ Open(t, s)' \in Int /\ mo * mq \in Int
      <3> TAKE s \in Sides
      <3>1. Capped' /\ PendingNat'
        <4>1. Capped'
          BY PendingCapped, PTL DEF Inv
        <4>2. PendingNat'
          BY PendingCovers, PTL DEF Inv
        <4> QED
          BY <4>1, <4>2, Zenon
      <3>a. PICK S, S1 : S = OrdersOf(t) /\ S1 = OrdersOf(t)'
        OBVIOUS
      <3>2. IsFiniteSet(S) /\ S1 = S \cup {n} /\ n \notin S
        <4>1. S \subseteq DOMAIN pending_orders
          BY <3>a, Zenon DEF OrdersOf
        <4> QED
          BY <3>a, <1>4, <1>5, <1>7, <4>1, Zenon DEF FiniteSetFacts, Inv, TrackingInv
      <3>3. Cardinality(S1) = Cardinality(S) + 1 /\ Cardinality(S) \in Nat
        BY <3>2, Zenon DEF FiniteSetFacts
      <3>4. Pending(t, s)' =< Cardinality(S1) * mq /\ Pending(t, s)' \in Nat
        BY <3>a, <2>7, <3>1, Zenon DEF Capped, PendingNat
      <3>5. Cardinality(S1) =< mo /\ Cardinality(S1) \in Nat
        BY <3>a, <2>2, <2>6, <3>3
      <3>6. Cardinality(S1) * mq \in Int /\ mo * mq \in Int /\ Cardinality(S1) * mq =< mo * mq
        BY <3>5, Scaled
      <3>7. Open(t, s)' = Pending(t, s)'
        BY <1>2, Zenon DEF OpenQtyCoversOrders, Open, Submits
      <3> QED
        BY <3>4, <3>6, <3>7
    <2>9. /\ Within(Held(u) + Open(u, BUY), d, e, f) /\ Within(Open(u, SELL) - Held(u), d, e, f)
      <3>1. Held(u) + Open(u, BUY) \in Int /\ Open(u, SELL) - Held(u) \in Int
        BY <1>3
      <3> QED
        BY <1>1, <2>3, <2>4, <3>1, WithinWider, Zenon DEF Exposed
    <2>10. Within(Held(u)' + Open(u, BUY)', d, e, f)
      <3>1. CASE side = SELL
        <4>1. Held(u)' + Open(u, BUY)' = Held(u) + Open(u, BUY)
          BY <1>2, <1>3, <3>1
        <4> QED
          BY <2>9, <4>1, Zenon
      <3>2. CASE side = BUY /\ Held(t) < 0
        <4>1. Held(u)' + Open(u, BUY)' < mo * mq
          BY <1>2, <1>3, <1>7, <2>8, <3>2
        <4> QED
          BY <2>5, <4>1, Zenon DEF Within
      <3>3. CASE side = BUY /\ ~(Held(t) < 0)
        <4>1. Held(u)' + Open(u, BUY)' =< mp
          BY <1>2, <1>3, <1>7, <2>2, <2>6, <3>3
        <4> QED
          BY <2>5, <4>1, Zenon DEF Within
      <3> QED
        BY <1>2, <3>1, <3>2, <3>3, Zenon
    <2>11. Within(Open(u, SELL)' - Held(u)', d, e, f)
      <3>1. CASE side = BUY
        <4>1. Open(u, SELL)' - Held(u)' = Open(u, SELL) - Held(u)
          BY <1>2, <1>3, <3>1
        <4> QED
          BY <2>9, <4>1, Zenon
      <3>2. CASE side = SELL /\ Held(t) > 0
        <4>1. Open(u, SELL)' - Held(u)' < mo * mq
          BY <1>2, <1>3, <1>7, <2>8, <3>2
        <4> QED
          BY <2>5, <4>1, Zenon DEF Within
      <3>3. CASE side = SELL /\ ~(Held(t) > 0)
        <4>1. Open(u, SELL)' - Held(u)' =< mp
          BY <1>2, <1>3, <1>7, <2>2, <2>6, <3>3
        <4> QED
          BY <2>5, <4>1, Zenon DEF Within
      <3> QED
        BY <1>2, <3>1, <3>2, <3>3, Zenon
    <2>12. Exposed(u, d, e, f)'
      BY <1>7, <2>5, <2>7, <2>10, <2>11, Zenon DEF Exposed, Within
    <2> QED
      BY <2>12, Zenon
  <1> QED
    BY <1>6, <1>7, Zenon

\* So the quantities agree after an order is sent.
LEMMA SubmitQuantities ==
    ASSUME FiniteSetFacts, SumFacts, Inv, Inv', Quantities, NEW o \in Tracked, Submits(o)
    PROVE  Quantities'
  <1>a. PICK n : n = next_order_id
    OBVIOUS
  <1>1. Grows(o) /\ BudgetInv'
    BY SubmitGrows, Zenon
  <1>2. /\ FillsInv' /\ Left(n)' = o.qty /\ \A id \in Nat : id # n => Left(id)' = Left(id)
    BY <1>a, SubmitFills, Zenon DEF Quantities, Inv, Submits
  <1>3. /\ n \notin DOMAIN pending_orders /\ OneMoves(n)
        /\ n \in DOMAIN pending_orders' /\ pending_orders'[n] = o
    <2>1. n \notin 1 .. n - 1
      BY DEF Inv, SessionInv, SessionOK
    <2>2. n \notin DOMAIN pending_orders
      BY <1>a, <2>1, Zenon DEF Inv, TrackingInv
    <2> QED
      BY <1>a, <2>2, Zenon DEF Submits, Track, OneMoves
  <1>4. LeavesInv'
    BY <1>2, <1>3, LeavesMove, Zenon DEF Quantities, Inv
  <1>5. HeldInv'
    <2>1. inbox' = inbox /\ traded' = traded /\ forgot' = forgot
      BY DEF Submits, send_new_orders
    <2>2. \A t, s : Executed(t, s)' = Executed(t, s)
      BY <2>1, Zenon DEF Executed, InFlight
    <2> QED
      BY <1>1, <2>1, <2>2, Zenon DEF Quantities, HeldInv, Grows
  <1>6. OpenQtyCoversOrders'
    <2>1. \A t, s : /\ Share(n, t, s) = 0
                    /\ Share(n, t, s)' = IF t = o.ticker_id /\ s = o.side THEN o.qty ELSE 0
      BY <1>3, Zenon DEF Share
    <2>2. HeldTyped /\ o.qty \in Nat
      BY PositionsTyped, Zenon DEF Inv, Tracked
    <2>3. ASSUME NEW t \in Tickers, NEW s \in Sides
          PROVE  Open(t, s) \in Int /\ Open(t, s)' = Open(t, s) - Share(n, t, s) + Share(n, t, s)'
      <3>1. Open(t, s) \in Nat /\ Open(t, s)' = Open(t, s) + (IF t = o.ticker_id /\ s = o.side THEN o.qty ELSE 0)
        BY <1>1, <2>2, Zenon DEF HeldTyped, Grows
      <3> QED
        BY <2>1, <2>2, <3>1
    <2> QED
      BY <1>3, <2>3, OpenMoves, Zenon DEF Quantities, Inv, Submits
  <1>7. ExposureInv'
    BY <1>1, <1>6, SubmitExposure, Zenon
  <1>8. LimitsInv'
    BY DEF Quantities, LimitsInv, AllLimits, Submits
  <1> QED
    BY <1>1, <1>2, <1>4, <1>5, <1>6, <1>7, <1>8, Zenon DEF Quantities

-----------------------------------------------------------------------------
\* Without orders nothing is pending.
NonePending == DOMAIN pending_orders = {} => \A t, s : Pending(t, s) = 0

\* An empty sum.
LEMMA NoneTracked ==
    ASSUME SumFacts
    PROVE  NonePending
  <1> SUFFICES ASSUME NEW t, NEW s, DOMAIN pending_orders = {}
               PROVE  Pending(t, s) = 0
    BY DEF NonePending
  <1>1. {id \in OrdersOf(t) : pending_orders[id].side = s} = {}
    BY DEF OrdersOf
  <1>2. SumFunctionOnSet([id \in DOMAIN pending_orders |-> pending_orders[id].qty], {}) = 0
    BY DEF SumFacts, SumOfNone
  <1> QED
    BY <1>1, <1>2, Zenon DEF Pending

\* Nothing is held, pending or in flight at the start.
LEMMA InitQuantities ==
    ASSUME FiniteSetFacts, SumFacts, Init
    PROVE  Quantities
  <1>1. /\ inbox = <<>> /\ traded = [t \in Tickers |-> 0] /\ DOMAIN pending_orders = {}
        /\ DOMAIN positions = {} /\ DOMAIN limits = {} /\ todo = <<>> /\ calls = 0
    BY DEF Init, SessionInit
  <1>2. FillsInv /\ \A t, s : Executed(t, s) = 0
    BY <1>1, NothingInFlight
  <1>3. \A t : Held(t) = 0 /\ \A s \in Sides : Open(t, s) = 0
    BY <1>1 DEF Held, Open, get_position, NewPosition
  <1>4. LeavesInv /\ LimitsInv
    BY <1>1, Zenon DEF LeavesInv, LimitsInv
  <1>5. HeldInv
    BY <1>1, <1>2, <1>3 DEF HeldInv
  <1>6. OpenQtyCoversOrders
    BY <1>1, <1>3, NoneTracked DEF NonePending, OpenQtyCoversOrders, Open
  <1>7. BudgetInv
    <2>1. Len(todo) = 0 /\ MaxQty \in Nat /\ calls \in 0 .. MaxCalls
      BY <1>1, MaxQtyFits, TradeEngineAssumption
    <2>2. MaxQty * (calls - Len(todo)) = 0
      BY <1>1, <2>1
    <2> QED
      BY <1>3, <2>1, <2>2 DEF BudgetInv
  <1>8. ExposureInv
    <2> SUFFICES ASSUME NEW t \in Tickers
                 PROVE  \E a, b, c \in AllLimits(t) : Exposed(t, a, b, c)
      BY DEF ExposureInv
    <2>1. DefaultLimits \in AllLimits(t) /\ DefaultLimits.max_position \in Nat
      BY RiskAssumption, Zenon DEF AllLimits, RiskLimits
    <2>2. BUY \in Sides /\ SELL \in Sides /\ OrdersOf(t) = {}
      BY <1>1, Zenon DEF Sides, OrdersOf
    <2>3. Exposed(t, DefaultLimits, DefaultLimits, DefaultLimits)
      BY <1>3, <2>1, <2>2 DEF Exposed, Within
    <2> QED
      BY <2>1, <2>3, Zenon
  <1> QED
    BY <1>2, <1>4, <1>5, <1>6, <1>7, <1>8, Zenon DEF Quantities

\* A call more.
LEMMA CallBudget ==
    ASSUME Inv, Quantities, calls' = calls \/ Call(1), UNCHANGED todo
    PROVE  Budgeted
  <1>1. calls \in 0 .. MaxCalls /\ MaxCalls \in Nat /\ Len(todo) \in Nat
    BY TradeEngineAssumption DEF Quantities, BudgetInv, Inv, ControlInv
  <1> QED
    BY <1>1 DEF Budgeted, Call

\* A reset forgets the orders, and keeps what is pending.
LEMMA ResetQuantities ==
    ASSUME SumFacts, Inv, Inv', Quantities, reset
    PROVE  Quantities'
  <1>1. /\ DOMAIN pending_orders' = {} /\ forgot' = TRUE /\ UNCHANGED <<positions, limits, todo, session>>
        /\ Call(1)
    BY DEF reset, keeper
  <1>2. FillsInv'
    BY <1>1, UnmovedFills, Zenon DEF Quantities
  <1>3. LeavesInv' /\ HeldInv' /\ ExposureInv'
    BY <1>1, Zenon DEF LeavesInv, HeldInv, ExposureInv
  <1>4. \A t : \A s : Open(t, s)' = Open(t, s)
    BY <1>1, Zenon DEF Open
  <1>5. HeldTyped
    BY PositionsTyped, Zenon DEF Inv
  <1>6. OpenQtyCoversOrders'
    <2>1. NonePending'
      BY NoneTracked, PTL
    <2>2. \A t, s : Pending(t, s)' = 0
      BY <1>1, <2>1, Zenon DEF NonePending
    <2>3. \A t \in Tickers, s \in Sides : Open(t, s)' \in Nat
      BY <1>4, <1>5, Zenon DEF HeldTyped
    <2>4. \A t \in Tickers, s \in Sides : Open(t, s)' >= Pending(t, s)'
      BY <2>2, <2>3
    <2> QED
      BY <1>1, <2>4 DEF OpenQtyCoversOrders, Open
  <1>7. BudgetInv'
    <2>1. Budgeted
      BY <1>1, CallBudget, Zenon
    <2>2. \A t \in Tickers, s \in Sides : Open(t, s)' =< Open(t, s)
      BY <1>4, <1>5 DEF HeldTyped
    <2> QED
      BY <2>1, <2>2, BudgetKept, Zenon DEF Budgeted, Quantities, Inv
  <1>8. LimitsInv'
    BY <1>1, Zenon DEF Quantities, LimitsInv, AllLimits
  <1> QED
    BY <1>2, <1>3, <1>6, <1>7, <1>8, Zenon DEF Quantities

\* Every step keeps the quantities in agreement.
LEMMA NextQuantities ==
    ASSUME FiniteSetFacts, SumFacts, Inv, Inv', Quantities, [Next]_vars
    PROVE  Quantities'
  <1>1. ASSUME UNCHANGED <<session, pending_orders, positions, forgot>>, Budgeted, LimitsInv'
        PROVE  Quantities'
    <2>1. \A t : Held(t)' = Held(t) /\ \A s : Open(t, s)' = Open(t, s)
      BY <1>1, Zenon DEF Held, Open
    <2> QED
      BY <1>1, <2>1, IdleStep, Zenon
  <1>2. UNCHANGED limits => LimitsInv'
    BY DEF Quantities, LimitsInv, AllLimits
  <1>3. CASE start \/ stop \/ run_cycle_ends
    <2>1. UNCHANGED <<session, pending_orders, positions, forgot, todo, limits>>
          /\ (calls' = calls \/ Call(1))
      BY <1>3, Zenon DEF start, stop, run_cycle_ends, orders, keeper, history
    <2> QED
      BY <1>1, <1>2, <2>1, CallBudget, Zenon
  <1>4. CASE reset
    BY <1>4, ResetQuantities, Zenon
  <1>5. CASE submit_order
    <2>a. PICK o : o = todo[1]
      OBVIOUS
    <2>1. /\ todo # <<>> /\ todo \in Seq(Orders) /\ todo' = Tail(todo)
          /\ UNCHANGED <<limits, calls, forgot>>
      BY <1>5, Zenon DEF submit_order, Inv, ControlInv, history
    <2>2. Len(todo) \in Nat /\ Len(todo') = Len(todo) - 1 /\ Head(todo) = o /\ o \in Orders
      BY <2>a, <2>1, TailFacts, Zenon
    <2>3. o \in Tracked
      BY <2>2, TradeEngineAssumption, Zenon DEF Tracked
    <2>4. CASE UNCHANGED <<pending_orders, positions, session>>
      <3>1. Budgeted
        BY <2>1, <2>2, TradeEngineAssumption DEF Budgeted, Quantities, BudgetInv
      <3> QED
        BY <1>1, <1>2, <2>1, <2>4, <3>1, Zenon
    <2>5. CASE Submits(o)
      BY <2>3, <2>5, SubmitQuantities, Zenon
    <2> QED
      BY <1>5, <2>1, <2>2, <2>4, <2>5 DEF submit_order, Submits
  <1>6. CASE on_response
    <2>a. PICK r : r = inbox[1]
      OBVIOUS
    <2>1. receive /\ UNCHANGED <<todo, limits, calls, forgot>>
      BY <1>6, Zenon DEF on_response
    <2>2. Head(inbox) = r
      BY <2>a, <2>1, ReceiveLive, Zenon DEF Inv
    <2>3. accepted(r) \/ filled(r) \/ ended(r)
      BY <1>6, <2>2, Zenon DEF on_response
    <2> QED
      BY <2>a, <2>1, <2>3, AcceptedQuantities, FilledQuantities, EndedQuantities, Zenon
  <1>7. CASE Exchange
    BY <1>7, ExchangeQuantities
  <1>8. ASSUME NEW l \in Limits, set_limits(l.ticker_id, l.limits) \/ remove_limits(l.ticker_id)
        PROVE  Quantities'
    <2>1. UNCHANGED <<session, pending_orders, positions, forgot, todo>> /\ Call(1)
      BY <1>8, Zenon DEF set_limits, remove_limits, orders, keeper, history
    <2>2. l.limits \in AllLimits(l.ticker_id)
      BY DEF AllLimits
    <2>3. \A t \in DOMAIN limits' : limits'[t] \in AllLimits(t)
      <3>1. CASE set_limits(l.ticker_id, l.limits)
        <4>1. limits' = [x \in DOMAIN limits \cup {l.ticker_id} |-> IF x = l.ticker_id THEN l.limits ELSE limits[x]]
          BY <3>1, Zenon DEF set_limits
        <4> QED
          BY <2>2, <4>1, Zenon DEF Quantities, LimitsInv
      <3>2. CASE remove_limits(l.ticker_id)
        <4>1. limits' = [x \in DOMAIN limits \ {l.ticker_id} |-> limits[x]]
          BY <3>2, Zenon DEF remove_limits
        <4> QED
          BY <4>1, Zenon DEF Quantities, LimitsInv
      <3> QED
        BY <1>8, <3>1, <3>2, Zenon
    <2>4. LimitsInv'
      BY <2>3, Zenon DEF LimitsInv, AllLimits
    <2> QED
      BY <1>1, <2>1, <2>4, CallBudget, Zenon
  <1>9. ASSUME NEW t \in Tickers, NEW price \in Int, Mark(t, price) \/ UNCHANGED keeper,
               UNCHANGED <<session, pending_orders, forgot, todo, limits>>, Call(1)
        PROVE  Quantities'
    <2>1. \A u \in Tickers : Held(u)' = Held(u) /\ \A s \in Sides : Open(u, s)' = Open(u, s)
      BY <1>9, MarkQuiet, Zenon DEF Inv
    <2> QED
      BY <1>2, <1>9, <2>1, CallBudget, IdleStep, Zenon
  <1>10. ASSUME NEW b \in Bbos, update_bbo(b.ticker_id, b.bbo)
         PROVE  Quantities'
    <2>1. b.ticker_id \in Tickers /\ mid_price(b.bbo) \in Int
      BY TradeEngineAssumption DEF mid_price, Sides, BUY, SELL
    <2>2. /\ Mark(b.ticker_id, mid_price(b.bbo)) \/ UNCHANGED keeper
          /\ UNCHANGED <<session, pending_orders, forgot, todo, limits>> /\ Call(1)
      BY <1>10, Zenon DEF update_bbo, orders, history, SetBBO
    <2> QED
      BY <1>9, <2>1, <2>2, Zenon
  <1>11. ASSUME NEW u \in Updates, on_market_update(u)
         PROVE  Quantities'
    <2>1. u.ticker_id \in Tickers /\ u.price \in Int
      BY TradeEngineAssumption
    <2>2. /\ Mark(u.ticker_id, u.price) \/ UNCHANGED keeper
          /\ UNCHANGED <<session, pending_orders, forgot, todo, limits>> /\ Call(1)
      BY <1>11 DEF on_market_update, orders, history, SetBBO
    <2> QED
      BY <1>9, <2>1, <2>2, Zenon
  <1>12. UNCHANGED engine => UNCHANGED <<pending_orders, books>>
    BY DEF engine, keeper, books
  <1>13. ASSUME NEW t \in Tickers, cancel_all_orders(t)
         PROVE  Quantities'
    <2>1. PICK ids \in Bijection(1 .. Cardinality(OrdersOf(t)), OrdersOf(t)) : send_cancels(Cancels(ids))
      BY <1>13, Zenon DEF cancel_all_orders
    <2>2. OrdersOf(t) \in SUBSET DOMAIN pending_orders
      BY DEF OrdersOf
    <2>3. Cardinality(OrdersOf(t)) \in Nat
      BY <2>2, Zenon DEF FiniteSetFacts, Inv, TrackingInv
    <2>4. ids \in [1 .. Cardinality(OrdersOf(t)) -> OrdersOf(t)] /\ UNCHANGED engine
      BY <1>13, <2>1, Zenon DEF Bijection, Injection, cancel_all_orders
    <2> QED
      BY <1>12, <2>1, <2>2, <2>3, <2>4, CancelQuantities, Zenon
  <1>14. ASSUME NEW id \in DOMAIN pending_orders, cancel_order(id)
         PROVE  Quantities'
    <2>1. <<id>> \in [1 .. 1 -> DOMAIN pending_orders]
      OBVIOUS
    <2>2. send_cancels(Cancels(<<id>>)) /\ UNCHANGED engine
      BY <1>14, Zenon DEF cancel_order
    <2> QED
      BY <1>12, <2>1, <2>2, CancelQuantities, Zenon
  <1>15. ASSUME NEW action, process_strategy_action(action)
         PROVE  Quantities'
    <2>1. /\ UNCHANGED <<session, pending_orders, positions, forgot, limits>>
          /\ todo = <<>> /\ todo' = action /\ Call(Len(action))
      BY <1>15, Zenon DEF process_strategy_action, Free, keeper, history
    <2>2. Budgeted
      <3>1. todo' \in Seq(Orders)
        BY Zenon DEF Inv, ControlInv
      <3>2. Len(action) \in Nat /\ Len(todo) = 0 /\ calls \in 0 .. MaxCalls /\ MaxCalls \in Nat
        BY <2>1, <3>1, TradeEngineAssumption DEF Quantities, BudgetInv
      <3> QED
        BY <2>1, <3>2 DEF Budgeted, Call
    <2> QED
      BY <1>1, <1>2, <2>1, <2>2, Zenon
  <1>16. CASE UNCHANGED vars
    <2>1. UNCHANGED <<session, pending_orders, positions, forgot, limits, todo, calls>>
      BY <1>16, Zenon DEF vars, engine, keeper
    <2> QED
      BY <1>1, <1>2, <2>1, CallBudget, Zenon
  <1> QED
    BY <1>3, <1>4, <1>5, <1>6, <1>7, <1>8, <1>10, <1>11, <1>13, <1>14, <1>15, <1>16, Zenon DEF Next

-----------------------------------------------------------------------------
INSTANCE SumProofs

\* The inductive invariant holds in every reachable state of the engine.
THEOREM TradeEngineInvariant == Spec => []Inv
  <1>1. FiniteSetFacts
    BY FiniteSetFactsHold, Zenon
  <1>2. Init => Inv
    BY <1>1, InitInv, Zenon
  <1>3. Inv /\ [Next]_vars => Inv'
    BY <1>1, NextInv, Zenon
  <1> QED
    BY <1>2, <1>3, PTL DEF Spec

\* The engine's state is well typed: the pending quantities stay within u32 and
\* the cycle within max_events_per_cycle.
THEOREM TradeEngineTypeCorrect == Spec => []TypeOK
  <1>1. Inv => TypeOK
    BY Zenon DEF Inv, ControlInv, TrackingInv, Tracked, CountInv, BookingInv, Positions, TypeOK
  <1> QED
    BY <1>1, TradeEngineInvariant, PTL

\* pending_orders holds only live orders, and all of them until a reset.
THEOREM EngineTracksLiveOrders == Spec => []TracksLiveOrders
  <1>1. Inv => TracksLiveOrders
    BY Zenon DEF Inv, TrackingInv
  <1> QED
    BY <1>1, TradeEngineInvariant, PTL

\* open_order_count never exceeds the tracked orders, and counts them until a reset.
THEOREM EngineCountsOrders == Spec => []CountsTrackedOrders
  <1>1. Inv => CountsTrackedOrders
    BY Zenon DEF Inv, CountInv
  <1> QED
    BY <1>1, TradeEngineInvariant, PTL

\* Profit and open cost account for every fill, up to what averaging drops.
THEOREM EngineAccountsForFills == Spec => []PnlAccountsForFills
  <1>1. Inv => PnlAccountsForFills
    <2> SUFFICES ASSUME BookingInv, NEW t \in DOMAIN positions
                 PROVE  /\ -ledger[t].under =< positions[t].realized_pnl
                              - positions[t].avg_open_price * positions[t].position + ledger[t].cost
                        /\ positions[t].realized_pnl
                              - positions[t].avg_open_price * positions[t].position + ledger[t].cost
                           =< ledger[t].over
      BY Zenon DEF Inv, PnlAccountsForFills
    <2>1. t \in Tickers /\ get_position(positions, t) = positions[t]
      BY Zenon DEF BookingInv, get_position
    <2>2. Accounted(positions[t], ledger[t])
      BY <2>1, Zenon DEF BookingInv
    <2> QED
      BY <2>2, Zenon DEF Accounted, Booking
  <1> QED
    BY <1>1, TradeEngineInvariant, PTL

\* The quantities agree in every reachable state: the second inductive invariant,
\* relative to the first.
THEOREM TradeEngineQuantities == Spec => []Quantities
  <1>1. FiniteSetFacts /\ SumFacts
    BY FiniteSetFactsHold, SumFactsHold, Zenon
  <1>2. Init => Quantities
    BY <1>1, InitQuantities, Zenon
  <1>3. Inv /\ Inv' /\ Quantities /\ [Next]_vars => Quantities'
    BY <1>1, NextQuantities, Zenon
  <1> QED
    BY <1>2, <1>3, TradeEngineInvariant, PTL DEF Spec

\* leaves_qty of a tracked order is what the exchange has left of it and the fills
\* on their way, whatever crosses them.
THEOREM EngineLeavesMatch == Spec => []LeavesMatchExchange
  <1>1. Inv /\ Quantities => LeavesMatchExchange
    <2> SUFFICES ASSUME Inv, LeavesInv, NEW id \in DOMAIN pending_orders
                 PROVE  pending_orders[id].qty = Resting(id)
                           + InFlight(LAMBDA r : r.client_order_id = id /\ r.msg_type = "Filled")
      BY Zenon DEF Quantities, LeavesMatchExchange
    <2>1. {i \in DOMAIN inbox : inbox[i].client_order_id = id /\ inbox[i].msg_type = "Filled"}
             = {i \in DOMAIN inbox : i > 0 /\ FillAt(i, id)}
      BY DEF FillAt, Inv, SessionInv, SessionOK
    <2>2. InFlight(LAMBDA r : r.client_order_id = id /\ r.msg_type = "Filled") = FilledAfter(id, 0)
      BY <2>1, Zenon DEF InFlight, FilledAfter
    <2> QED
      BY <2>2, Zenon DEF LeavesInv, Left
  <1> QED
    BY <1>1, TradeEngineInvariant, TradeEngineQuantities, PTL

\* Until a reset, the positions and the fills on their way are what the exchange
\* traded.
THEOREM EnginePositionMatches == Spec => []PositionMatchesExchange
  <1>1. Quantities => PositionMatchesExchange
    BY Zenon DEF Quantities, HeldInv, Held, Executed, PositionMatchesExchange
  <1> QED
    BY <1>1, TradeEngineQuantities, PTL

\* The pending quantities cover the tracked orders, and are theirs until a reset.
THEOREM EngineOpenQtyCovers == Spec => []OpenQtyCoversOrders
  <1>1. Quantities => OpenQtyCoversOrders
    BY Zenon DEF Quantities
  <1> QED
    BY <1>1, TradeEngineQuantities, PTL

\* Until a reset the exposure stays within max_position, or below what the most
\* orders of the largest size come to.
THEOREM EngineExposureBounded == Spec => []ExposureBounded
  <1>1. Inv /\ Quantities => ExposureBounded
    <2> SUFFICES ASSUME Inv, Quantities, enable_risk_checks, ~forgot, NEW t \in DOMAIN positions
                 PROVE  \E a, b, c \in AllLimits(t) :
                           /\ Within(max_long_exposure(positions[t]), a, b, c)
                           /\ Within(-max_short_exposure(positions[t]), a, b, c)
      BY Zenon DEF ExposureBounded, Within
    <2>1. t \in Tickers /\ get_position(positions, t) = positions[t] /\ HeldTyped
      BY PositionsTyped, Zenon DEF Inv, BookingInv, get_position
    <2>2. PICK a, b, c \in AllLimits(t) : Exposed(t, a, b, c)
      BY <2>1, Zenon DEF Quantities, ExposureInv
    <2>3. /\ max_long_exposure(positions[t]) = Held(t) + Open(t, BUY)
          /\ -max_short_exposure(positions[t]) = Open(t, SELL) - Held(t)
      <3>1. Held(t) \in Int /\ Open(t, BUY) \in Int /\ Open(t, SELL) \in Int
        BY <2>1 DEF HeldTyped, Sides
      <3> QED
        BY <2>1, <3>1 DEF max_long_exposure, max_short_exposure, Held, Open
    <2> QED
      BY <2>2, <2>3, Zenon DEF Exposed
  <1> QED
    BY <1>1, TradeEngineInvariant, TradeEngineQuantities, PTL
=============================================================================
