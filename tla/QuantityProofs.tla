---------------------------- MODULE QuantityProofs ----------------------------
(***************************************************************************)
(* The quantities of the trade engine: the invariant that relates the      *)
(* leaves_qty of its orders, its positions and its pending quantities to   *)
(* the exchange and to the responses on their way, and how the responses   *)
(* and the exchange's own steps keep it.                                   *)
(***************************************************************************)
EXTENDS TradeEngineInv

\* The provers get more time than by default.
USE SMTT(30), ZenonT(30)

-----------------------------------------------------------------------------
\* A number whose magnitude does not exceed a limit is within it on both sides.
LEMMA AbsBounds ==
    ASSUME NEW x \in Int, NEW m \in Nat, ~(Abs(x) > m)
    PROVE  x =< m /\ -x =< m
  BY DEF Abs

\* A position exists, or is the new one.
LEMMA PositionOf ==
    ASSUME BookingInv, NEW t \in Tickers
    PROVE  /\ get_position(positions, t) \in Positions
           /\ ledger[t] \in Ledgers
           /\ Accounted(get_position(positions, t), ledger[t])
  <1>1. NewPosition \in Positions
    BY RiskAssumption, NewPositionTyped
  <1> QED
    BY <1>1 DEF BookingInv, get_position

-----------------------------------------------------------------------------
\* leaves_qty of a tracked order is what the engine has still to hear of.
LeavesInv == \A id \in DOMAIN pending_orders : pending_orders[id].qty = Left(id)

Held(t) == get_position(positions, t).position
Open(t, s) == get_position(positions, t).open_qty[s]

\* What is held, and the fills in flight, are what the exchange traded.
HeldInv ==
    ~forgot => \A t \in Tickers : Held(t) + Executed(t, BUY) - Executed(t, SELL) = traded[t]

\* No pending quantity wraps: each call adds at most one order to it.
MaxQty == CHOOSE m \in 0 .. QtyMod - 1 : MaxCalls * m < QtyMod /\ \A o \in Orders : o.qty =< m

BudgetInv ==
    /\ calls \in 0 .. MaxCalls
    /\ \A t \in Tickers, s \in Sides : Open(t, s) =< MaxQty * (calls - Len(todo))

LimitsInv == \A t \in DOMAIN limits : limits[t] \in AllLimits(t)

\* ExposureBounded, also for the tickers without a position, and with a bound on
\* the tracked orders.
Within(exposure, a, b, c) ==
    exposure =< a.max_position \/ exposure < b.max_open_orders * c.max_order_qty

Exposed(t, a, b, c) ==
    /\ Within(Held(t) + Open(t, BUY), a, b, c) /\ Within(Open(t, SELL) - Held(t), a, b, c)
    /\ \A id \in OrdersOf(t) : pending_orders[id].qty =< c.max_order_qty

ExposureInv ==
    enable_risk_checks /\ ~forgot =>
       \A t \in Tickers : \E a, b, c \in AllLimits(t) : Exposed(t, a, b, c)

\* The inductive invariant of the quantities.
Quantities ==
    FillsInv /\ LeavesInv /\ HeldInv /\ OpenQtyCoversOrders /\ BudgetInv /\ LimitsInv /\ ExposureInv

-----------------------------------------------------------------------------
\* What a tracked order adds to the pending quantity of its side and ticker.
Share(id, t, s) ==
    IF id \in DOMAIN pending_orders /\ pending_orders[id].ticker_id = t /\ pending_orders[id].side = s
    THEN pending_orders[id].qty ELSE 0

\* At most the tracking of order x changes.
OneMoves(x) ==
    \A id : id # x => /\ id \in DOMAIN pending_orders' <=> id \in DOMAIN pending_orders
                      /\ id \in DOMAIN pending_orders => pending_orders'[id] = pending_orders[id]

\* The pending quantities are sums of naturals.
PendingNat ==
    \A t, s : /\ Pending(t, s) \in Nat
              /\ \A id : Share(id, t, s) \in Nat /\ Share(id, t, s) =< Pending(t, s)

\* They cover each order's share.
LEMMA PendingCovers ==
    ASSUME FiniteSetFacts, SumFacts, TrackingInv
    PROVE  PendingNat
  <1> SUFFICES ASSUME NEW t, NEW s
               PROVE  /\ Pending(t, s) \in Nat
                      /\ \A id : Share(id, t, s) \in Nat /\ Share(id, t, s) =< Pending(t, s)
    BY DEF PendingNat
  <1>1. PICK f : f = [id \in DOMAIN pending_orders |-> pending_orders[id].qty]
    BY Zenon
  <1>2. PICK S : S = {id \in OrdersOf(t) : pending_orders[id].side = s}
    BY Zenon
  <1>3. Pending(t, s) = SumFunctionOnSet(f, S)
    BY <1>1, <1>2, Zenon DEF Pending
  <1>4. S \subseteq DOMAIN pending_orders /\ IsFiniteSet(DOMAIN pending_orders)
    BY <1>2 DEF OrdersOf, TrackingInv
  <1>5. IsFiniteSet(S)
    BY <1>4, Zenon DEF FiniteSetFacts
  <1>6. \A id \in S : f[id] \in Nat /\ f[id] = pending_orders[id].qty
    BY <1>1, <1>4 DEF TrackingInv, Tracked
  <1>7. Naturals(f, S)
    BY <1>5, <1>6 DEF Naturals
  <1>8. SumFunctionOnSet(f, S) \in Nat /\ \A id \in S : f[id] =< SumFunctionOnSet(f, S)
    BY <1>7 DEF SumFacts, SumOfNaturals
  <1>9. \A id : Share(id, t, s) = IF id \in S THEN f[id] ELSE 0
    BY <1>2, <1>6 DEF Share, OrdersOf
  <1> QED
    BY <1>3, <1>6, <1>8, <1>9

\* When one order changes, so does its share and nothing else.
LEMMA PendingMoves ==
    ASSUME FiniteSetFacts, SumFacts, TrackingInv, TrackingInv', NEW x, OneMoves(x), NEW t, NEW s
    PROVE  Pending(t, s)' - Share(x, t, s)' = Pending(t, s) - Share(x, t, s)
  <1>1. PICK f : f = [id \in DOMAIN pending_orders |-> pending_orders[id].qty]
    BY Zenon
  <1>2. PICK S : S = {id \in OrdersOf(t) : pending_orders[id].side = s}
    BY Zenon
  <1>3. PICK f1 : f1 = [id \in DOMAIN pending_orders' |-> pending_orders'[id].qty]
    BY Zenon
  <1>4. PICK S1 : S1 = {id \in OrdersOf(t)' : pending_orders'[id].side = s}
    BY Zenon
  <1>5. Pending(t, s) = SumFunctionOnSet(f, S) /\ Pending(t, s)' = SumFunctionOnSet(f1, S1)
    BY <1>1, <1>2, <1>3, <1>4, Zenon DEF Pending
  <1>6. /\ S \subseteq DOMAIN pending_orders /\ IsFiniteSet(DOMAIN pending_orders)
        /\ S1 \subseteq DOMAIN pending_orders' /\ IsFiniteSet(DOMAIN pending_orders')
    BY <1>2, <1>4 DEF OrdersOf, TrackingInv
  <1>7. IsFiniteSet(S) /\ IsFiniteSet(S1)
    BY <1>6, Zenon DEF FiniteSetFacts
  <1>8. /\ \A id \in S : f[id] \in Int /\ f[id] = pending_orders[id].qty
        /\ \A id \in S1 : f1[id] \in Int /\ f1[id] = pending_orders'[id].qty
    BY <1>1, <1>3, <1>6 DEF TrackingInv, Tracked
  <1>9. \A id : id # x => (id \in S1 <=> id \in S) /\ (id \in S => f1[id] = f[id])
    BY <1>1, <1>2, <1>3, <1>4 DEF OneMoves, OrdersOf
  <1>10. Differs(f, S, f1, S1, x)
    BY <1>7, <1>8, <1>9 DEF Differs
  <1>11. SumFunctionOnSet(f1, S1) - (IF x \in S1 THEN f1[x] ELSE 0)
            = SumFunctionOnSet(f, S) - (IF x \in S THEN f[x] ELSE 0)
    BY <1>10 DEF SumFacts, SumDiffers
  <1>12. /\ Share(x, t, s) = IF x \in S THEN f[x] ELSE 0
         /\ Share(x, t, s)' = IF x \in S1 THEN f1[x] ELSE 0
    BY <1>2, <1>4, <1>8 DEF Share, OrdersOf
  <1> QED
    BY <1>5, <1>11, <1>12

\* The position of one ticker is replaced.
LEMMA PositionSet ==
    ASSUME NEW t, NEW q, positions' = set_position(positions, t, q)
    PROVE  \A u : /\ Held(u)' = IF u = t THEN q.position ELSE Held(u)
                  /\ \A s : Open(u, s)' = IF u = t THEN q.open_qty[s] ELSE Open(u, s)
  BY DEF set_position, get_position, Held, Open

\* Held and open quantities are numbers.
HeldTyped ==
    \A t \in Tickers : Held(t) \in Int /\ \A s \in Sides : Open(t, s) \in Nat /\ Open(t, s) < QtyMod

\* As those of every position are.
LEMMA PositionsTyped ==
    ASSUME BookingInv
    PROVE  HeldTyped
  BY PositionOf, RiskAssumption DEF HeldTyped, Held, Open, Positions

\* The bound of QuantitiesFit exists.
LEMMA MaxQtyFits ==
    MaxQty \in Nat /\ MaxCalls * MaxQty < QtyMod /\ \A o \in Orders : o.qty =< MaxQty
  <1>1. MaxQty \in 0 .. QtyMod - 1 /\ MaxCalls * MaxQty < QtyMod /\ \A o \in Orders : o.qty =< MaxQty
    BY QuantitiesFit, Zenon DEF MaxQty
  <1> QED
    BY <1>1, RiskAssumption

\* Products with a natural number are monotone.
LEMMA Scaled ==
    ASSUME NEW m \in Nat, NEW a \in Int, NEW b \in Int, a =< b
    PROVE  m * a \in Int /\ m * b \in Int /\ m * a =< m * b
  <1>1. m * (b - a) \in Nat /\ m * (b - a) = m * b - m * a
    OBVIOUS
  <1> QED
    BY <1>1

-----------------------------------------------------------------------------
\* An order's share and the open quantity of its side move together.
LEMMA OpenMoves ==
    ASSUME FiniteSetFacts, SumFacts, TrackingInv, TrackingInv', NEW x, OneMoves(x), forgot' = forgot,
           OpenQtyCoversOrders,
           \A t \in Tickers, s \in Sides :
              Open(t, s) \in Int /\ Open(t, s)' = Open(t, s) - Share(x, t, s) + Share(x, t, s)'
    PROVE  OpenQtyCoversOrders'
  <1> SUFFICES ASSUME NEW t \in Tickers, NEW s \in Sides
               PROVE  Open(t, s)' >= Pending(t, s)' /\ (~forgot => Open(t, s)' = Pending(t, s)')
    BY DEF OpenQtyCoversOrders, Open
  <1>1. Open(t, s) >= Pending(t, s) /\ (~forgot => Open(t, s) = Pending(t, s))
    BY DEF OpenQtyCoversOrders, Open
  <1>2. PendingNat /\ PendingNat'
    <2>1. PendingNat'
      BY PendingCovers, PTL
    <2> QED
      BY <2>1, PendingCovers
  <1>3. /\ Pending(t, s) \in Nat /\ Share(x, t, s) \in Nat
        /\ Pending(t, s)' \in Nat /\ Share(x, t, s)' \in Nat
    BY <1>2, Zenon DEF PendingNat
  <1>4. Pending(t, s)' - Share(x, t, s)' = Pending(t, s) - Share(x, t, s)
    BY PendingMoves
  <1> QED
    BY <1>1, <1>3, <1>4

\* Exposures do not grow, nor do the tracked orders.
Eases ==
    \A t \in Tickers :
       /\ Held(t)' + Open(t, BUY)' =< Held(t) + Open(t, BUY)
       /\ Open(t, SELL)' - Held(t)' =< Open(t, SELL) - Held(t)
       /\ \A id \in OrdersOf(t)' : /\ id \in OrdersOf(t)
                                   /\ pending_orders'[id].qty =< pending_orders[id].qty

\* Then they stay bounded.
LEMMA EasedExposure ==
    ASSUME BookingInv, BookingInv', TrackingInv, TrackingInv', ExposureInv, Eases, forgot' = forgot
    PROVE  ExposureInv'
  <1> SUFFICES ASSUME enable_risk_checks, ~forgot, NEW t \in Tickers
               PROVE  \E a, b, c \in AllLimits(t) : Exposed(t, a, b, c)'
    BY DEF ExposureInv
  <1>1. PICK a, b, c \in AllLimits(t) : Exposed(t, a, b, c)
    BY DEF ExposureInv
  <1>2. a \in RiskLimits /\ b \in RiskLimits /\ c \in RiskLimits
    BY RiskAssumption, TradeEngineAssumption DEF AllLimits
  <1>3. PICK k \in Int : k = b.max_open_orders * c.max_order_qty
    BY <1>2 DEF RiskLimits
  <1>4. /\ a.max_position \in Int /\ c.max_order_qty \in Int
    BY <1>2 DEF RiskLimits
  <1>5. /\ Held(t) \in Int /\ Open(t, BUY) \in Int /\ Open(t, SELL) \in Int
        /\ Held(t)' \in Int /\ Open(t, BUY)' \in Int /\ Open(t, SELL)' \in Int
    <2>1. HeldTyped'
      BY PositionsTyped, PTL
    <2>2. BUY \in Sides /\ SELL \in Sides
      BY DEF Sides
    <2> QED
      BY <2>1, <2>2, PositionsTyped DEF HeldTyped
  <1>6. \A id \in OrdersOf(t)' : pending_orders'[id].qty =< c.max_order_qty
    <2> TAKE id \in OrdersOf(t)'
    <2>1. /\ id \in OrdersOf(t) /\ pending_orders'[id].qty =< pending_orders[id].qty
          /\ pending_orders[id].qty =< c.max_order_qty
      BY <1>1 DEF Exposed, Eases
    <2>2. pending_orders[id].qty \in Int /\ pending_orders'[id].qty \in Int
      BY <2>1 DEF OrdersOf, TrackingInv, Tracked
    <2> QED
      BY <1>4, <2>1, <2>2
  <1>7. Exposed(t, a, b, c)'
    BY <1>1, <1>3, <1>4, <1>5, <1>6 DEF Exposed, Within, Eases
  <1> QED
    BY <1>7

\* leaves_qty follows the one order that changes.
LEMMA LeavesMove ==
    ASSUME TrackingInv', LeavesInv, NEW x, OneMoves(x),
           \A id \in Nat : id # x => Left(id)' = Left(id),
           x \in DOMAIN pending_orders' => pending_orders'[x].qty = Left(x)'
    PROVE  LeavesInv'
  <1>1. \A id \in DOMAIN pending_orders' : id \in Nat
    BY DEF TrackingInv
  <1> QED
    BY <1>1 DEF LeavesInv, OneMoves

\* The pending quantities do not grow unless calls are made.
LEMMA BudgetKept ==
    ASSUME ControlInv, ControlInv', BookingInv, BookingInv', BudgetInv,
           \A t \in Tickers, s \in Sides : Open(t, s)' =< Open(t, s),
           calls' \in 0 .. MaxCalls, Len(todo') - calls' =< Len(todo) - calls
    PROVE  BudgetInv'
  <1>1. HeldTyped'
    BY PositionsTyped, PTL
  <1>2. \A t \in Tickers, s \in Sides : Open(t, s) \in Nat /\ Open(t, s)' \in Nat
    BY <1>1, PositionsTyped DEF HeldTyped
  <1>3. MaxQty \in Nat /\ Len(todo) \in Nat /\ Len(todo') \in Nat /\ calls \in Nat /\ calls' \in Nat
    BY MaxQtyFits, TradeEngineAssumption DEF ControlInv, BudgetInv
  <1>4. PICK m, a, b : m = MaxQty /\ a = calls - Len(todo) /\ b = calls' - Len(todo')
    OBVIOUS
  <1>5. m \in Nat /\ a \in Int /\ b \in Int /\ a =< b
    BY <1>3, <1>4
  <1>6. m * a \in Int /\ m * b \in Int /\ m * a =< m * b
    BY <1>5, Scaled
  <1>7. \A t \in Tickers, s \in Sides : Open(t, s) =< m * a
    BY <1>4 DEF BudgetInv
  <1>8. \A t \in Tickers, s \in Sides : Open(t, s)' =< m * b
    BY <1>2, <1>6, <1>7
  <1>9. MaxQty' = MaxQty
    BY DEF MaxQty
  <1> QED
    BY <1>4, <1>8, <1>9 DEF BudgetInv

SameOrders ==
    /\ DOMAIN pending_orders' = DOMAIN pending_orders
    /\ \A id \in DOMAIN pending_orders : pending_orders'[id] = pending_orders[id]

\* The tracked orders and the positions stay, and so does what is left of them.
Quiet ==
    /\ SameOrders /\ forgot' = forgot
    /\ \A id \in DOMAIN pending_orders : Left(id)' = Left(id)
    /\ \A t \in Tickers : Held(t)' = Held(t) /\ \A s \in Sides : Open(t, s)' = Open(t, s)

\* No call is taken back.
Budgeted ==
    calls' \in 0 .. MaxCalls /\ Len(todo') - calls' =< Len(todo) - calls

\* Then the quantities agree as before.
LEMMA QuietStep ==
    ASSUME Inv, Inv', Quantities, Quiet, Budgeted, FillsInv', HeldInv', LimitsInv'
    PROVE  Quantities'
  <1>1. LeavesInv'
    BY DEF Quantities, LeavesInv, Quiet, SameOrders
  <1>2. OpenQtyCoversOrders'
    <2>1. ASSUME NEW t, NEW s
          PROVE  Pending(t, s)' = Pending(t, s)
      <3>1. [id \in DOMAIN pending_orders' |-> pending_orders'[id].qty]
               = [id \in DOMAIN pending_orders |-> pending_orders[id].qty]
        BY DEF Quiet, SameOrders
      <3>2. {id \in OrdersOf(t)' : pending_orders'[id].side = s}
               = {id \in OrdersOf(t) : pending_orders[id].side = s}
        BY DEF Quiet, SameOrders, OrdersOf
      <3> QED
        BY <3>1, <3>2, Zenon DEF Pending
    <2> QED
      BY <2>1 DEF OpenQtyCoversOrders, Quantities, Quiet, Open
  <1>3. BookingInv /\ BookingInv' /\ TrackingInv /\ TrackingInv' /\ ControlInv /\ ControlInv'
    BY DEF Inv
  <1>4. HeldTyped /\ BUY \in Sides /\ SELL \in Sides
    BY <1>3, PositionsTyped DEF Sides
  <1>5. BudgetInv'
    <2>1. \A t \in Tickers, s \in Sides : Open(t, s)' =< Open(t, s)
      BY <1>4 DEF Quiet, HeldTyped
    <2> QED
      BY <1>3, <2>1, BudgetKept DEF Quantities, Budgeted
  <1>6. ExposureInv'
    <2>1. \A t \in Tickers : OrdersOf(t)' = OrdersOf(t)
      BY DEF OrdersOf, Quiet, SameOrders
    <2>2. \A t \in Tickers : \A id \in OrdersOf(t) : pending_orders[id].qty \in Int
      BY <1>3 DEF OrdersOf, TrackingInv, Tracked
    <2>3. Eases
      BY <1>4, <2>1, <2>2 DEF Eases, Quiet, SameOrders, OrdersOf, HeldTyped
    <2> QED
      BY <1>3, <2>3, EasedExposure DEF Quantities, Quiet
  <1> QED
    BY <1>1, <1>2, <1>5, <1>6 DEF Quantities

\* The same when the session does not move.
LEMMA IdleStep ==
    ASSUME Inv, Inv', Quantities, UNCHANGED <<session, pending_orders, forgot>>, Budgeted, LimitsInv',
           \A t \in Tickers : Held(t)' = Held(t) /\ \A s \in Sides : Open(t, s)' = Open(t, s)
    PROVE  Quantities'
  <1>1. FillsInv' /\ (\A id : Left(id)' = Left(id)) /\ traded' = traded
        /\ \A t, s : Executed(t, s)' = Executed(t, s)
    BY UnmovedFills DEF Quantities, session
  <1>2. HeldInv'
    BY <1>1 DEF Quantities, HeldInv
  <1> QED
    BY <1>1, <1>2, QuietStep DEF Quiet, SameOrders

\* The engine's variables that the quantities are about.
books == <<positions, limits, todo, calls, forgot>>

\* ... and when the engine does not.
LEMMA SessionStep ==
    ASSUME Inv, Inv', Quantities, UNCHANGED <<pending_orders, books>>, FillsInv', HeldInv',
           \A id \in Nat : Left(id)' = Left(id)
    PROVE  Quantities'
  <1>1. UNCHANGED pending_orders /\ UNCHANGED positions /\ UNCHANGED limits /\ UNCHANGED todo
        /\ UNCHANGED calls /\ UNCHANGED forgot
    BY DEF books
  <1>2. \A t : Held(t)' = Held(t) /\ \A s : Open(t, s)' = Open(t, s)
    BY <1>1 DEF Held, Open
  <1>3. LimitsInv'
    BY <1>1 DEF Quantities, LimitsInv, AllLimits
  <1>4. Budgeted
    BY <1>1, TradeEngineAssumption DEF Quantities, BudgetInv, Budgeted, Inv, ControlInv
  <1>5. \A id \in DOMAIN pending_orders : id \in Nat
    BY DEF Inv, TrackingInv
  <1> QED
    BY <1>1, <1>2, <1>3, <1>4, <1>5, QuietStep, Zenon DEF Quiet, SameOrders

\* What the exchange executes is traded, and in flight.
LEMMA ExchangeQuantities ==
    ASSUME SumFacts, Inv, Inv', Quantities, Exchange
    PROVE  Quantities'
  <1>1. PICK r \in Responses, x \in 1 .. next_order_id - 1 : Answer(r, x) /\ Balances(r, x)
    BY ExchangeAnswers, Zenon DEF Inv, Exchange
  <1>2. x \in Nat /\ UNCHANGED <<pending_orders, books>> /\ SessionInv /\ SessionInv' /\ SessionOK
    BY DEF Inv, SessionInv, SessionOK, Exchange, engine, keeper, books
  <1>3. FillsInv' /\ \A id \in Nat : Left(id)' = Left(id)
    BY <1>1, <1>2, AnswerFills DEF Quantities
  <1>4. HeldInv'
    <2> SUFFICES ASSUME ~forgot, NEW t \in Tickers
                 PROVE  Held(t)' + Executed(t, BUY)' - Executed(t, SELL)' = traded'[t]
      BY <1>2 DEF HeldInv, books
    <2>1. Held(t) + Executed(t, BUY) - Executed(t, SELL) = traded[t] /\ traded \in [Tickers -> Int]
      BY DEF Quantities, HeldInv, FillsInv
    <2>2. Held(t)' = Held(t)
      BY <1>2 DEF Held, books
    <2>3. HeldTyped
      BY PositionsTyped, Zenon DEF Inv
    <2>4. \A s : /\ Executed(t, s) \in Int
                 /\ Executed(t, s)' = Executed(t, s) + (IF r.ticker_id = t /\ r.side = s THEN r.exec_qty ELSE 0)
      BY <1>1, <1>2, ExecutedSent DEF Answer
    <2>5. r.exec_qty \in Nat /\ r.side \in {1, -1} /\ r.ticker_id \in Tickers
      BY Zenon DEF Responses, Sides, BUY, SELL
    <2>6. traded'[t] = traded[t] + (IF r.ticker_id = t THEN r.side * r.exec_qty ELSE 0)
      <3>1. CASE r.msg_type = "Filled"
        <4>1. traded' = [traded EXCEPT ![r.ticker_id] = @ + r.side * r.exec_qty]
          BY <1>1, <3>1 DEF Balances
        <4>2. r.side * r.exec_qty \in Int
          BY <2>5
        <4> QED
          BY <2>1, <2>5, <4>1, <4>2
      <3>2. CASE r.msg_type # "Filled"
        <4>1. traded' = traded /\ r.exec_qty = 0
          BY <1>1, <3>2 DEF Balances
        <4> QED
          BY <2>1, <2>5, <4>1
      <3> QED
        BY <3>1, <3>2
    <2>7. PICK k \in Nat : k = r.exec_qty
      BY <2>5
    <2>8. Held(t) \in Int /\ BUY = 1 /\ SELL = -1
      BY <2>3 DEF HeldTyped, BUY, SELL
    <2>9. CASE r.side = 1
      BY <2>1, <2>2, <2>4, <2>6, <2>7, <2>8, <2>9
    <2>10. CASE r.side = -1
      BY <2>1, <2>2, <2>4, <2>6, <2>7, <2>8, <2>10
    <2> QED
      BY <2>5, <2>9, <2>10
  <1> QED
    BY <1>2, <1>3, <1>4, SessionStep

\* Cancels move no quantity.
LEMMA CancelQuantities ==
    ASSUME SumFacts, Inv, Inv', Quantities,
           NEW S \in SUBSET DOMAIN pending_orders, NEW k \in Nat, NEW ids \in [1 .. k -> S],
           send_cancels(Cancels(ids)), UNCHANGED <<pending_orders, books>>
    PROVE  Quantities'
  <1>a. PICK ms : ms = Cancels(ids)
    BY Zenon
  <1>1. /\ ms = [i \in 1 .. k |-> CancelRequest(ids[i], pending_orders[ids[i]])]
        /\ \A i \in 1 .. k : /\ ids[i] \in DOMAIN pending_orders /\ ids[i] \in 1 .. next_order_id - 1
                             /\ ids[i] \in Nat /\ pending_orders[ids[i]] \in Tracked
    BY <1>a DEF Cancels, Inv, TrackingInv, SessionInv, SessionOK
  <1>2. /\ ms \in Seq(Requests) /\ Len(ms) = k
        /\ \A i \in 1 .. k : ms[i].msg_type = "Cancel" /\ ms[i].order_id = ids[i]
    BY <1>1 DEF CancelRequest, Requests
  <1>3. \A i \in 1 .. Len(ms) : ms[i].msg_type = "Cancel" /\ ms[i].order_id \in 1 .. next_order_id - 1
    BY <1>1, <1>2, Zenon
  <1>4. FillsInv' /\ \A id \in Nat : Left(id)' = Left(id)
    BY <1>a, <1>2, <1>3, CancelsFills, Zenon DEF Quantities, Inv
  <1>5. HeldInv'
    <2>1. inbox' = inbox /\ traded' = traded /\ positions' = positions /\ forgot' = forgot
      BY DEF send_cancels, books
    <2>2. \A t, s : Executed(t, s)' = Executed(t, s)
      BY <2>1, Zenon DEF Executed, InFlight
    <2> QED
      BY <2>1, <2>2 DEF Quantities, HeldInv, Held
  <1> QED
    BY <1>4, <1>5, SessionStep

\* Marks move no quantity.
LEMMA MarkQuiet ==
    ASSUME BookingInv, NEW t \in Tickers, NEW price \in Int, Mark(t, price) \/ UNCHANGED keeper
    PROVE  \A u \in Tickers : Held(u)' = Held(u) /\ \A s \in Sides : Open(u, s)' = Open(u, s)
  <1>1. CASE UNCHANGED positions
    BY <1>1 DEF Held, Open
  <1>2. CASE t \in DOMAIN positions /\ positions' = [positions EXCEPT ![t] = update_market_price(@, price)]
    <2>a. PICK q : q = update_market_price(positions[t], price)
      OBVIOUS
    <2>1. positions[t] \in Positions /\ get_position(positions, t) = positions[t]
      BY <1>2 DEF BookingInv, get_position
    <2>2. q.position = positions[t].position /\ q.open_qty = positions[t].open_qty
      BY <2>a, <2>1, MarkTyped
    <2>3. positions' = set_position(positions, t, q)
      BY <2>a, <1>2, Zenon DEF set_position
    <2>4. /\ Held(t) = q.position /\ \A s : Open(t, s) = q.open_qty[s]
      BY <2>1, <2>2 DEF Held, Open
    <2> QED
      BY <2>3, <2>4, PositionSet
  <1> QED
    BY <1>1, <1>2 DEF Mark, keeper

-----------------------------------------------------------------------------
\* The pending quantities after an order is added or removed.
LEMMA OpenOrderFields ==
    ASSUME NEW p \in Positions, NEW side \in Sides, NEW qty \in Nat
    PROVE  \A s \in Sides :
              /\ add_open_order(p, side, qty).open_qty[s] =
                    IF s = side THEN (p.open_qty[s] + qty) % QtyMod ELSE p.open_qty[s]
              /\ remove_open_order(p, side, qty).open_qty[s] =
                    IF s = side THEN saturating_sub(p.open_qty[s], qty) ELSE p.open_qty[s]
  BY DEF add_open_order, remove_open_order, Positions

\* Order x shrinks, and the pending quantity of its side by as much.
Shrinks(x) ==
    /\ OneMoves(x) /\ UNCHANGED <<forgot, todo, limits, calls>>
    /\ \A t \in Tickers, s \in Sides :
          /\ Open(t, s)' = Open(t, s) - Share(x, t, s) + Share(x, t, s)'
          /\ Share(x, t, s)' =< Share(x, t, s)

\* Then the quantities agree as before.
LEMMA ShrinkStep ==
    ASSUME FiniteSetFacts, SumFacts, Inv, Inv', Quantities, NEW x, Shrinks(x), FillsInv', HeldInv',
           \A id \in Nat : id # x => Left(id)' = Left(id),
           x \in DOMAIN pending_orders' => pending_orders'[x].qty = Left(x)',
           Eases
    PROVE  Quantities'
  <1>1. BookingInv /\ BookingInv' /\ TrackingInv /\ TrackingInv' /\ ControlInv /\ ControlInv'
    BY DEF Inv
  <1>2. LeavesInv'
    BY <1>1, LeavesMove DEF Shrinks, Quantities
  <1>3. HeldTyped
    BY <1>1, PositionsTyped, Zenon
  <1>4. OpenQtyCoversOrders'
    <2>1. \A t \in Tickers, s \in Sides :
             Open(t, s) \in Int /\ Open(t, s)' = Open(t, s) - Share(x, t, s) + Share(x, t, s)'
      BY <1>3 DEF HeldTyped, Shrinks
    <2> QED
      BY <1>1, <2>1, OpenMoves, Zenon DEF Shrinks, Quantities
  <1>5. BudgetInv'
    <2>1. PendingNat'
      BY <1>1, PendingCovers, PTL
    <2>2. PendingNat
      BY <1>1, PendingCovers
    <2>3. \A t \in Tickers, s \in Sides : Open(t, s)' =< Open(t, s)
      <3> TAKE t \in Tickers, s \in Sides
      <3>1. /\ Open(t, s) \in Nat /\ Share(x, t, s) \in Nat /\ Share(x, t, s)' \in Nat
            /\ Share(x, t, s)' =< Share(x, t, s)
            /\ Open(t, s)' = Open(t, s) - Share(x, t, s) + Share(x, t, s)'
        BY <1>3, <2>1, <2>2, Zenon DEF HeldTyped, PendingNat, Shrinks
      <3> QED
        BY <3>1
    <2>4. calls' \in 0 .. MaxCalls /\ Len(todo') - calls' =< Len(todo) - calls
      BY <1>1, TradeEngineAssumption DEF Quantities, BudgetInv, ControlInv, Shrinks
    <2> QED
      BY <1>1, <2>3, <2>4, BudgetKept DEF Quantities
  <1>6. ExposureInv' /\ LimitsInv'
    <2>1. LimitsInv'
      BY DEF Quantities, LimitsInv, AllLimits, Shrinks
    <2>2. ExposureInv'
      BY <1>1, EasedExposure DEF Quantities, Shrinks
    <2> QED
      BY <2>1, <2>2, Zenon
  <1> QED
    BY <1>2, <1>4, <1>5, <1>6, Zenon DEF Quantities

\* What is left of an order is a number.
LEMMA LeftTyped ==
    ASSUME SumFacts, SessionInv, receive, NEW id \in Nat
    PROVE  Left(id)' \in Int
  <1>1. SessionInv' /\ SessionOK
    BY ReceiveKeeps DEF SessionInv
  <1>2. RestsAt'
    BY <1>1, RestingIs, PTL
  <1>3. Resting(id)' \in Nat /\ FilledAfter(id, 0)' \in Int
    BY <1>1, <1>2, FillsReceived, Zenon DEF RestsAt
  <1> QED
    BY <1>3 DEF Left

\* A response that executes nothing leaves the trades where they are.
LEMMA HeldKept ==
    ASSUME SumFacts, Inv, Quantities, receive, NEW r, r = inbox[1], forgot' = forgot,
           forgot \/ r.exec_qty = 0, \A t \in Tickers : Held(t)' = Held(t)
    PROVE  HeldInv'
  <1> SUFFICES ASSUME ~forgot, NEW t \in Tickers
               PROVE  Held(t)' + Executed(t, BUY)' - Executed(t, SELL)' = traded'[t]
    BY DEF HeldInv
  <1>1. /\ Held(t) + Executed(t, BUY) - Executed(t, SELL) = traded[t] /\ traded' = traded
        /\ SessionOK /\ r.exec_qty = 0
    BY DEF Quantities, HeldInv, receive, Inv, SessionInv
  <1>2. \A s : Executed(t, s)' \in Int /\ Executed(t, s) = Executed(t, s)' + (IF r.ticker_id = t /\ r.side = s THEN 0 ELSE 0)
    BY <1>1, ExecutedReceived
  <1>3. \A s : Executed(t, s)' = Executed(t, s)
    BY <1>2
  <1> QED
    BY <1>1, <1>3

\* A response about an order that is not tracked, or one that ends and fills
\* nothing, moves no quantity.
LEMMA QuietResponse ==
    ASSUME SumFacts, Inv, Inv', Quantities, receive, NEW r, r = inbox[1], SameOrders, UNCHANGED books,
           forgot \/ r.exec_qty = 0, r.client_order_id \notin DOMAIN pending_orders \/ (~Terminal(r) /\ r.exec_qty = 0)
    PROVE  Quantities'
  <1>a. PICK x : x = r.client_order_id
    OBVIOUS
  <1>1. /\ UNCHANGED positions /\ UNCHANGED limits /\ UNCHANGED todo
        /\ UNCHANGED calls /\ UNCHANGED forgot
    BY DEF books
  <1>2. \A t : Held(t)' = Held(t) /\ \A s : Open(t, s)' = Open(t, s)
    BY <1>1 DEF Held, Open
  <1>3. HeldInv'
    BY <1>1, <1>2, HeldKept, Zenon
  <1>4. LimitsInv' /\ Budgeted
    BY <1>1, TradeEngineAssumption DEF Quantities, LimitsInv, AllLimits, BudgetInv, Budgeted, Inv, ControlInv
  <1>5. /\ FillsInv' /\ \A id \in Nat : id # x => Left(id)' = Left(id)
        /\ ~Terminal(r) => Left(x) = Left(x)' + r.exec_qty
    BY <1>a, ReceiveFills, Zenon DEF Quantities, Inv
  <1>6. x \in Nat /\ Left(x)' \in Int
    BY <1>a, ReceiveLive, LeftTyped, Zenon DEF Inv
  <1>7. \A id \in DOMAIN pending_orders : id \in Nat
    BY DEF Inv, TrackingInv
  <1>8. \A id \in DOMAIN pending_orders : Left(id)' = Left(id)
    <2>1. CASE x \notin DOMAIN pending_orders
      BY <1>5, <1>7, <2>1, Zenon
    <2>2. CASE ~Terminal(r) /\ r.exec_qty = 0
      <3>1. Left(x) = Left(x)'
        BY <1>5, <1>6, <2>2
      <3> QED
        BY <1>5, <1>7, <3>1, Zenon
    <2> QED
      BY <1>a, <2>1, <2>2, Zenon
  <1> QED
    BY <1>1, <1>2, <1>3, <1>4, <1>5, <1>8, QuietStep, Zenon DEF Quiet

\* The response names the ticker and the side of the order it is about.
LEMMA ResponseNames ==
    ASSUME Inv, receive, NEW r, r = inbox[1], NEW x, x = r.client_order_id, x \in DOMAIN pending_orders
    PROVE  /\ pending_orders[x] \in Tracked /\ r \in Responses
           /\ r.ticker_id = pending_orders[x].ticker_id /\ r.side = pending_orders[x].side
  <1>1. Names(x, pending_orders[x].ticker_id, pending_orders[x].side) /\ pending_orders[x] \in Tracked
    BY Zenon DEF Inv, SameTicker, TrackingInv
  <1>2. r \in Responses /\ \A t, s : Names(x, t, s) => r.ticker_id = t /\ r.side = s
    BY ReceiveLive, Zenon DEF Inv
  <1> QED
    BY <1>1, <1>2

\* A fill in flight is of an order that is alive: one the engine tracks, until a
\* reset.
LEMMA FillTracked ==
    ASSUME Inv, FillsInv, receive, NEW r, r = inbox[1], r.msg_type = "Filled", ~forgot
    PROVE  r.client_order_id \in DOMAIN pending_orders
  <1>a. PICK x : x = r.client_order_id
    BY Zenon
  <1>1. SessionOK /\ x \in Nat /\ 1 \in 1 .. Len(inbox)
    BY <1>a, ReceiveLive, ReceiveFacts, Zenon DEF Inv, SessionInv
  <1>2. FillAt(1, x) /\ x \in 1 .. next_order_id - 1
    BY <1>a, <1>1 DEF FillAt, SessionOK
  <1>3. x \in DOMAIN book \/ \E j \in Nat : EndAt(j, x)
    BY <1>1, <1>2 DEF FillsInv
  <1>4. Live(x)
    BY <1>1, <1>3, LiveFacts, Zenon
  <1> QED
    BY <1>a, <1>2, <1>4 DEF Inv, TrackingInv, TracksLiveOrders

\* The position after a fill, where the pending quantity covers it.
LEMMA FilledQuantity ==
    ASSUME NEW p \in Positions, NEW side \in Sides, NEW r \in Responses, p.open_qty[side] >= r.exec_qty
    PROVE  LET q == FilledPosition(p, side, r)
           IN  /\ q.position = p.position + side * r.exec_qty
               /\ \A s \in Sides :
                     q.open_qty[s] = p.open_qty[s] - (IF s = side THEN r.exec_qty ELSE 0)
  <1>1. PICK qty \in Nat, price \in Nat : qty = r.exec_qty /\ price = r.price
    BY DEF Responses
  <1>a. PICK f, q : f = on_fill(p, side, qty, price) /\ q = remove_open_order(f, side, qty)
    OBVIOUS
  <1>2. FilledPosition(p, side, r) = q
    BY <1>a, <1>1, Zenon DEF FilledPosition
  <1>3. f \in Positions /\ f.position = p.position + side * qty /\ f.open_qty = p.open_qty
    BY <1>a, FillTyped, FillFields, Zenon
  <1>4. q.position = f.position
    BY <1>a, <1>3, RiskAssumption, OpenOrderTyped, Zenon
  <1>5. \A s \in Sides : q.open_qty[s] =
           IF s = side THEN saturating_sub(f.open_qty[s], qty) ELSE f.open_qty[s]
    BY <1>a, <1>3, OpenOrderFields
  <1>6. \A s \in Sides : p.open_qty[s] \in Nat
    BY RiskAssumption DEF Positions
  <1>7. \A s \in Sides : q.open_qty[s] = p.open_qty[s] - (IF s = side THEN qty ELSE 0)
    BY <1>1, <1>3, <1>5, <1>6 DEF saturating_sub
  <1> QED
    BY <1>1, <1>2, <1>3, <1>4, <1>7, Zenon

\* The pending quantity covers a tracked order.
LEMMA OpenCovers ==
    ASSUME FiniteSetFacts, SumFacts, Inv, Quantities, NEW x \in DOMAIN pending_orders
    PROVE  Open(pending_orders[x].ticker_id, pending_orders[x].side) >= pending_orders[x].qty
  <1>a. PICK t, s : t = pending_orders[x].ticker_id /\ s = pending_orders[x].side
    OBVIOUS
  <1>1. t \in Tickers /\ s \in Sides
    BY <1>a DEF Inv, TrackingInv, Tracked
  <1>2. PendingNat /\ HeldTyped
    BY PendingCovers, PositionsTyped DEF Inv
  <1>3. Open(t, s) \in Nat /\ Pending(t, s) \in Nat /\ Share(x, t, s) \in Nat /\ Share(x, t, s) =< Pending(t, s)
    BY <1>1, <1>2, Zenon DEF PendingNat, HeldTyped
  <1>4. Open(t, s) >= Pending(t, s)
    BY <1>1 DEF Quantities, OpenQtyCoversOrders, Open
  <1>5. Share(x, t, s) = pending_orders[x].qty
    BY <1>a, Zenon DEF Share
  <1> QED
    BY <1>a, <1>3, <1>4, <1>5

\* A fill of a tracked order.
LEMMA FilledTracked ==
    ASSUME FiniteSetFacts, SumFacts, Inv, Inv', Quantities, receive, NEW r, r = inbox[1], filled(r),
           UNCHANGED <<todo, limits, calls, forgot>>, r.client_order_id \in DOMAIN pending_orders
    PROVE  Quantities'
  <1>a. PICK x, o : x = r.client_order_id /\ o = pending_orders[x]
    OBVIOUS
  <1>b. PICK t, side : t = r.ticker_id /\ side = o.side
    OBVIOUS
  <1>c. PICK e, l : e = r.exec_qty /\ l = r.leaves_qty
    BY Zenon
  <1>d. PICK p, q : p = get_position(positions, t) /\ q = FilledPosition(p, side, r)
    OBVIOUS
  <1>1. /\ o \in Tracked /\ r \in Responses /\ t = o.ticker_id /\ r.side = side
        /\ t \in Tickers /\ side \in Sides /\ e \in Nat /\ l \in Nat /\ r.msg_type = "Filled"
    <2>1. o \in Tracked /\ r \in Responses /\ t = o.ticker_id /\ r.side = side
      BY <1>a, <1>b, ResponseNames, Zenon
    <2> QED
      BY <1>c, <2>1, Zenon DEF Responses, Tracked, filled
  <1>2. /\ FillsInv' /\ \A id \in Nat : id # x => Left(id)' = Left(id)
        /\ Left(x) = e + l /\ (~Terminal(r) => Left(x) = Left(x)' + e)
    BY <1>a, <1>c, <1>1, ReceiveFills, Zenon DEF Quantities, Inv
  <1>3. o.qty = e + l
    BY <1>a, <1>2, Zenon DEF Quantities, LeavesInv
  <1>4. /\ OneMoves(x)
        /\ x \in DOMAIN pending_orders' <=> l # 0
        /\ l # 0 => pending_orders'[x] = [o EXCEPT !.qty = l]
    <2>1. CASE l = 0
      <3>1. pending_orders' = Untrack(pending_orders, x)
        BY <1>a, <1>c, <2>1, Zenon DEF filled
      <3> QED
        BY <2>1, <3>1 DEF Untrack, OneMoves
    <2>2. CASE l # 0
      <3>1. pending_orders' = [id \in DOMAIN pending_orders |->
                  IF id = x THEN Leaves(pending_orders[id], r) ELSE pending_orders[id]]
        BY <1>a, <1>c, <2>2, Zenon DEF filled
      <3> QED
        BY <1>a, <1>c, <2>2, <3>1, Zenon DEF Leaves, OneMoves
    <2> QED
      BY <2>1, <2>2, Zenon
  <1>5. l # 0 => /\ pending_orders'[x].qty = l /\ pending_orders'[x].ticker_id = t
                 /\ pending_orders'[x].side = side
    BY <1>b, <1>1, <1>4, Zenon DEF Tracked
  <1>6. \A u, s : /\ Share(x, u, s) = (IF u = t /\ s = side THEN e + l ELSE 0)
                  /\ Share(x, u, s)' = (IF u = t /\ s = side THEN l ELSE 0)
    <2>1. \A u, s : Share(x, u, s) = (IF u = t /\ s = side THEN e + l ELSE 0)
      BY <1>a, <1>b, <1>1, <1>3, Zenon DEF Share
    <2>2. \A u, s : Share(x, u, s)' = (IF u = t /\ s = side THEN l ELSE 0)
      BY <1>4, <1>5, Zenon DEF Share
    <2> QED
      BY <2>1, <2>2, Zenon
  <1>7. /\ \A u \in Tickers : Held(u)' = Held(u) + (IF u = t THEN side * e ELSE 0)
        /\ \A u \in Tickers, s \in Sides :
              Open(u, s)' = Open(u, s) - (IF u = t /\ s = side THEN e ELSE 0)
    <2>1. positions' = set_position(positions, t, q)
      BY <1>a, <1>b, <1>d, Zenon DEF filled
    <2>2. p \in Positions /\ HeldTyped
      BY <1>d, <1>1, PositionOf, PositionsTyped, Zenon DEF Inv
    <2>3. Open(t, side) >= o.qty /\ Open(t, side) = p.open_qty[side] /\ Open(t, side) \in Nat
      BY <1>a, <1>b, <1>d, <1>1, <2>2, OpenCovers, Zenon DEF Open, HeldTyped
    <2>4. p.open_qty[side] >= e
      <3>1. PICK k \in Nat : k = p.open_qty[side]
        BY <2>3, Zenon
      <3>2. k >= e + l
        BY <1>3, <2>3, <3>1, Zenon
      <3>3. k >= e
        BY <1>1, <3>2
      <3> QED
        BY <3>1, <3>3, Zenon
    <2>5. /\ q.position = p.position + side * e
          /\ \A s \in Sides : q.open_qty[s] = p.open_qty[s] - (IF s = side THEN e ELSE 0)
      BY <1>c, <1>d, <1>1, <2>2, <2>4, FilledQuantity
    <2>6. \A u : /\ Held(u)' = IF u = t THEN q.position ELSE Held(u)
                 /\ \A s : Open(u, s)' = IF u = t THEN q.open_qty[s] ELSE Open(u, s)
      BY <2>1, PositionSet
    <2>7. Held(t) = p.position /\ \A s \in Sides : Open(t, s) = p.open_qty[s]
      BY <1>d, Zenon DEF Held, Open
    <2>8. \A u \in Tickers : Held(u) \in Int /\ \A s \in Sides : Open(u, s) \in Int
      BY <2>2 DEF HeldTyped
    <2>9. ASSUME NEW u \in Tickers
          PROVE  Held(u)' = Held(u) + (IF u = t THEN side * e ELSE 0)
      BY <2>5, <2>6, <2>7, <2>8
    <2>10. ASSUME NEW u \in Tickers, NEW s \in Sides
           PROVE  Open(u, s)' = Open(u, s) - (IF u = t /\ s = side THEN e ELSE 0)
      BY <2>5, <2>6, <2>7, <2>8
    <2> QED
      BY <2>9, <2>10, Zenon
  <1>8. \A u \in Tickers : Held(u) \in Int /\ \A s \in Sides : Open(u, s) \in Int
    <2>1. HeldTyped
      BY PositionsTyped DEF Inv
    <2> QED
      BY <2>1 DEF HeldTyped
  <1>9. Shrinks(x)
    <2>1. ASSUME NEW u \in Tickers, NEW s \in Sides
          PROVE  /\ Open(u, s)' = Open(u, s) - Share(x, u, s) + Share(x, u, s)'
                 /\ Share(x, u, s)' =< Share(x, u, s)
      BY <1>1, <1>6, <1>7, <1>8
    <2> QED
      BY <1>4, <2>1, Zenon DEF Shrinks
  <1>10. BUY = 1 /\ SELL = -1 /\ BUY \in Sides /\ SELL \in Sides /\ (side = BUY \/ side = SELL)
    BY <1>1, Zenon DEF Sides, BUY, SELL
  <1>11. Eases
    <2>1. ASSUME NEW u \in Tickers
          PROVE  /\ Held(u)' + Open(u, BUY)' =< Held(u) + Open(u, BUY)
                 /\ Open(u, SELL)' - Held(u)' =< Open(u, SELL) - Held(u)
      <3>1. /\ Held(u)' = Held(u) + (IF u = t THEN side * e ELSE 0)
            /\ Open(u, BUY)' = Open(u, BUY) - (IF u = t /\ side = BUY THEN e ELSE 0)
            /\ Open(u, SELL)' = Open(u, SELL) - (IF u = t /\ side = SELL THEN e ELSE 0)
            /\ Held(u) \in Int /\ Open(u, BUY) \in Int /\ Open(u, SELL) \in Int
        BY <1>7, <1>8, <1>10, Zenon
      <3> QED
        BY <1>1, <1>10, <3>1
    <2>2. ASSUME NEW u \in Tickers, NEW id \in OrdersOf(u)'
          PROVE  id \in OrdersOf(u) /\ pending_orders'[id].qty =< pending_orders[id].qty
      <3>1. id \in DOMAIN pending_orders' /\ pending_orders'[id].ticker_id = u
        BY <2>2, Zenon DEF OrdersOf
      <3>2. CASE id = x
        BY <1>a, <1>1, <1>3, <1>4, <1>5, <3>1, <3>2 DEF OrdersOf
      <3>3. CASE id # x
        <4>1. id \in DOMAIN pending_orders /\ pending_orders'[id] = pending_orders[id]
          BY <1>4, <3>1, <3>3, Zenon DEF OneMoves
        <4>2. pending_orders[id].qty \in Nat
          BY <4>1, Zenon DEF Inv, TrackingInv, Tracked
        <4> QED
          BY <3>1, <4>1, <4>2 DEF OrdersOf
      <3> QED
        BY <3>2, <3>3, Zenon
    <2> QED
      BY <2>1, <2>2, Zenon DEF Eases
  <1>12. HeldInv'
    <2> SUFFICES ASSUME ~forgot, NEW u \in Tickers
                 PROVE  Held(u)' + Executed(u, BUY)' - Executed(u, SELL)' = traded'[u]
      BY Zenon DEF HeldInv
    <2>1. /\ Held(u) + Executed(u, BUY) - Executed(u, SELL) = traded[u] /\ traded' = traded /\ SessionOK
      BY Zenon DEF Quantities, HeldInv, receive, Inv, SessionInv
    <2>2. \A s : /\ Executed(u, s)' \in Int
                 /\ Executed(u, s) = Executed(u, s)' + (IF t = u /\ side = s THEN e ELSE 0)
      BY <1>b, <1>c, <1>1, <2>1, ExecutedReceived, Zenon
    <2>3. Held(u)' = Held(u) + (IF u = t THEN side * e ELSE 0) /\ Held(u) \in Int
      BY <1>7, <1>8, Zenon
    <2>4. Executed(u, BUY)' \in Int /\ Executed(u, SELL)' \in Int
      BY <2>2, Zenon
    <2>5. CASE side = BUY
      BY <1>1, <1>10, <2>1, <2>2, <2>3, <2>4, <2>5
    <2>6. CASE side = SELL
      BY <1>1, <1>10, <2>1, <2>2, <2>3, <2>4, <2>6
    <2> QED
      BY <1>10, <2>5, <2>6, Zenon
  <1>13. x \in DOMAIN pending_orders' => pending_orders'[x].qty = Left(x)'
    <2> SUFFICES ASSUME x \in DOMAIN pending_orders'
                 PROVE  pending_orders'[x].qty = Left(x)'
      OBVIOUS
    <2>1. l # 0 /\ ~Terminal(r)
      BY <1>c, <1>1, <1>4, Zenon DEF Terminal
    <2>2. x \in Nat /\ Left(x)' \in Int
      BY <1>a, ReceiveLive, LeftTyped, Zenon DEF Inv
    <2>3. Left(x)' = l
      BY <1>1, <1>2, <2>1, <2>2
    <2> QED
      BY <1>5, <2>1, <2>3, Zenon
  <1> QED
    BY <1>2, <1>9, <1>11, <1>12, <1>13, ShrinkStep, Zenon

\* A fill: of a tracked order, or after a reset.
LEMMA FilledQuantities ==
    ASSUME FiniteSetFacts, SumFacts, Inv, Inv', Quantities, receive, NEW r, r = inbox[1], filled(r),
           UNCHANGED <<todo, limits, calls, forgot>>
    PROVE  Quantities'
  <1>1. CASE r.client_order_id \in DOMAIN pending_orders
    BY <1>1, FilledTracked, Zenon
  <1>2. CASE r.client_order_id \notin DOMAIN pending_orders
    <2>1. forgot
      BY <1>2, FillTracked, Zenon DEF filled, Quantities
    <2>2. UNCHANGED positions
      BY <1>2, Zenon DEF filled, keeper
    <2>3. SameOrders
      BY <1>2, Zenon DEF filled, Untrack, SameOrders
    <2>4. UNCHANGED books
      BY <2>2 DEF books
    <2> QED
      BY <1>2, <2>1, <2>3, <2>4, QuietResponse, Zenon
  <1> QED
    BY <1>1, <1>2, Zenon

\* An order that ends leaves the pending quantity with what was left of it.
LEMMA EndedQuantities ==
    ASSUME FiniteSetFacts, SumFacts, Inv, Inv', Quantities, receive, NEW r, r = inbox[1], ended(r),
           UNCHANGED <<todo, limits, calls, forgot>>
    PROVE  Quantities'
  <1>a. PICK x, o : x = r.client_order_id /\ o = pending_orders[x]
    OBVIOUS
  <1>0. r.msg_type # "Filled" /\ r.exec_qty = 0
    <2>1. r.msg_type # "Filled"
      BY Zenon DEF ended
    <2>2. 1 \in 1 .. Len(inbox)
      BY ReceiveFacts, Zenon DEF Inv, SessionInv
    <2> QED
      BY <2>1, <2>2, Zenon DEF Quantities, FillsInv
  <1>1. CASE x \notin DOMAIN pending_orders
    <2>1. UNCHANGED books /\ SameOrders
      BY <1>a, <1>1, Zenon DEF ended, books, SameOrders
    <2> QED
      BY <1>a, <1>0, <1>1, <2>1, QuietResponse, Zenon
  <1>2. CASE x \in DOMAIN pending_orders
    <2>a. PICK t, side, k : t = r.ticker_id /\ side = o.side /\ k = o.qty
      OBVIOUS
    <2>b. PICK p, q : p = get_position(positions, t) /\ q = remove_open_order(p, side, k)
      BY Zenon
    <2>1. /\ o \in Tracked /\ t = o.ticker_id /\ t \in Tickers /\ side \in Sides /\ k \in Nat
      BY <1>a, <2>a, <1>2, ResponseNames DEF Tracked
    <2>2. /\ pending_orders' = Untrack(pending_orders, x)
          /\ positions' = set_position(positions, t, q)
      BY <1>a, <2>a, <2>b, <1>2, Zenon DEF ended
    <2>3. OneMoves(x) /\ DOMAIN pending_orders' = DOMAIN pending_orders \ {x}
      BY <2>2 DEF Untrack, OneMoves
    <2>4. \A u, s : /\ Share(x, u, s) = (IF u = t /\ s = side THEN k ELSE 0)
                    /\ Share(x, u, s)' = 0
      BY <1>a, <2>a, <1>2, <2>1, <2>3, Zenon DEF Share
    <2>5. p \in Positions /\ HeldTyped
      BY <2>b, <2>1, PositionOf, PositionsTyped, Zenon DEF Inv
    <2>6. Open(t, side) >= k
      BY <1>a, <2>a, <1>2, <2>1, OpenCovers, Zenon
    <2>7. /\ q.position = p.position
          /\ \A s \in Sides : q.open_qty[s] =
                IF s = side THEN saturating_sub(p.open_qty[s], k) ELSE p.open_qty[s]
      <3>1. q.position = p.position
        BY <2>b, <2>1, <2>5, RiskAssumption, OpenOrderTyped, Zenon
      <3>2. \A s \in Sides : q.open_qty[s] =
               IF s = side THEN saturating_sub(p.open_qty[s], k) ELSE p.open_qty[s]
        BY <2>b, <2>1, <2>5, OpenOrderFields
      <3> QED
        BY <3>1, <3>2, Zenon
    <2>8. \A u : /\ Held(u)' = IF u = t THEN q.position ELSE Held(u)
                 /\ \A s : Open(u, s)' = IF u = t THEN q.open_qty[s] ELSE Open(u, s)
      BY <2>2, PositionSet, Zenon
    <2>9. Held(t) = p.position /\ \A s \in Sides : Open(t, s) = p.open_qty[s]
      BY <2>b DEF Held, Open
    <2>10. \A u \in Tickers : Held(u) \in Int /\ \A s \in Sides : Open(u, s) \in Nat
      BY <2>5 DEF HeldTyped
    <2>11. ASSUME NEW u \in Tickers, NEW s \in Sides
           PROVE  Open(u, s)' = Open(u, s) - (IF u = t /\ s = side THEN k ELSE 0)
      <3>1. CASE u # t
        BY <2>8, <2>10, <3>1
      <3>2. CASE u = t
        <4>1. Open(u, s)' = IF s = side THEN saturating_sub(Open(t, s), k) ELSE Open(t, s)
          <5>1. Open(u, s)' = q.open_qty[s]
            BY <2>8, <3>2, Zenon
          <5>2. Open(t, s) = p.open_qty[s]
            BY <2>9, Zenon
          <5> QED
            BY <2>7, <5>1, <5>2, Zenon
        <4>2. Open(t, s) \in Nat
          BY <2>1, <2>10, Zenon
        <4>3. s = side => saturating_sub(Open(t, s), k) = Open(t, s) - k
          BY <2>1, <2>6, <4>2 DEF saturating_sub
        <4> QED
          BY <3>2, <4>1, <4>2, <4>3
      <3> QED
        BY <3>1, <3>2
    <2>12. \A u : Held(u)' = Held(u)
      BY <2>7, <2>8, <2>9, Zenon
    <2>13. Shrinks(x)
      <3>1. ASSUME NEW u \in Tickers, NEW s \in Sides
            PROVE  /\ Open(u, s)' = Open(u, s) - Share(x, u, s) + Share(x, u, s)'
                   /\ Share(x, u, s)' =< Share(x, u, s)
        BY <2>1, <2>4, <2>10, <2>11
      <3> QED
        BY <2>3, <3>1, Zenon DEF Shrinks
    <2>14. Eases
      <3>1. ASSUME NEW u \in Tickers
            PROVE  /\ Held(u)' + Open(u, BUY)' =< Held(u) + Open(u, BUY)
                   /\ Open(u, SELL)' - Held(u)' =< Open(u, SELL) - Held(u)
        <4>1. BUY \in Sides /\ SELL \in Sides
          BY Zenon DEF Sides
        <4>2. \A s \in Sides : Open(u, s)' =< Open(u, s) /\ Open(u, s)' \in Int
          BY <2>1, <2>10, <2>11
        <4>3. Held(u)' = Held(u) /\ Held(u) \in Int /\ Open(u, BUY) \in Int /\ Open(u, SELL) \in Int
          BY <2>10, <2>12, <4>1
        <4> QED
          BY <4>1, <4>2, <4>3
      <3>2. ASSUME NEW u \in Tickers, NEW id \in OrdersOf(u)'
            PROVE  id \in OrdersOf(u) /\ pending_orders'[id].qty =< pending_orders[id].qty
        <4>1. id \in DOMAIN pending_orders /\ pending_orders'[id] = pending_orders[id]
              /\ pending_orders'[id].ticker_id = u
          BY <2>3, <3>2, Zenon DEF OrdersOf, OneMoves
        <4>2. pending_orders[id].qty \in Nat
          BY <4>1, Zenon DEF Inv, TrackingInv, Tracked
        <4> QED
          BY <4>1, <4>2 DEF OrdersOf
      <3> QED
        BY <3>1, <3>2, Zenon DEF Eases
    <2>15. HeldInv'
      BY <1>0, <2>12, HeldKept, Zenon
    <2>16. FillsInv' /\ \A id \in Nat : id # x => Left(id)' = Left(id)
      BY <1>a, ReceiveFills, Zenon DEF Quantities, Inv
    <2>17. x \notin DOMAIN pending_orders'
      BY <2>3, Zenon
    <2> QED
      BY <2>13, <2>14, <2>15, <2>16, <2>17, ShrinkStep, Zenon
  <1> QED
    BY <1>1, <1>2, Zenon

\* An acceptance moves no quantity.
LEMMA AcceptedQuantities ==
    ASSUME SumFacts, Inv, Inv', Quantities, receive, NEW r, r = inbox[1], accepted(r),
           UNCHANGED <<todo, limits, calls, forgot>>
    PROVE  Quantities'
  <1>1. r.msg_type = "Accepted" /\ ~Terminal(r)
    BY Zenon DEF accepted, Terminal
  <1>2. r.exec_qty = 0
    <2>1. 1 \in 1 .. Len(inbox)
      BY ReceiveFacts, Zenon DEF Inv, SessionInv
    <2> QED
      BY <1>1, <2>1 DEF Quantities, FillsInv
  <1>3. UNCHANGED books /\ SameOrders
    BY Zenon DEF accepted, keeper, books, SameOrders
  <1> QED
    BY <1>1, <1>2, <1>3, QuietResponse, Zenon

-----------------------------------------------------------------------------
\* So many orders of at most m come to no more than their number times m.
Capped ==
    \A t, s : \A m \in Nat : (\A id \in OrdersOf(t) : pending_orders[id].qty =< m) =>
       /\ Cardinality(OrdersOf(t)) \in Nat
       /\ Pending(t, s) =< Cardinality(OrdersOf(t)) * m

\* The orders of a side are among those of the ticker.
LEMMA PendingCapped ==
    ASSUME FiniteSetFacts, SumFacts, TrackingInv
    PROVE  Capped
  <1> SUFFICES ASSUME NEW t, NEW s, NEW m \in Nat, \A id \in OrdersOf(t) : pending_orders[id].qty =< m
               PROVE  /\ Cardinality(OrdersOf(t)) \in Nat
                      /\ Pending(t, s) =< Cardinality(OrdersOf(t)) * m
    BY DEF Capped
  <1>1. PICK f : f = [id \in DOMAIN pending_orders |-> pending_orders[id].qty]
    BY Zenon
  <1>2. PICK S, T : S = {id \in OrdersOf(t) : pending_orders[id].side = s} /\ T = OrdersOf(t)
    BY Zenon
  <1>3. Pending(t, s) = SumFunctionOnSet(f, S)
    BY <1>1, <1>2, Zenon DEF Pending
  <1>4. S \subseteq T /\ T \subseteq DOMAIN pending_orders /\ IsFiniteSet(DOMAIN pending_orders)
    BY <1>2 DEF OrdersOf, TrackingInv
  <1>5. IsFiniteSet(T)
    BY <1>4, Zenon DEF FiniteSetFacts
  <1>6. IsFiniteSet(S) /\ Cardinality(S) =< Cardinality(T)
    BY <1>4, <1>5, Zenon DEF FiniteSetFacts
  <1>7. Cardinality(S) \in Nat /\ Cardinality(T) \in Nat
    BY <1>5, <1>6, Zenon DEF FiniteSetFacts
  <1>8. \A id \in S : f[id] \in Nat /\ f[id] =< m
    BY <1>1, <1>2, <1>4, Zenon DEF TrackingInv, Tracked
  <1>9. Naturals(f, S)
    BY <1>6, <1>8, Zenon DEF Naturals
  <1>10. SumFunctionOnSet(f, S) \in Nat /\ SumFunctionOnSet(f, S) =< Cardinality(S) * m
    BY <1>8, <1>9, Zenon DEF SumFacts, SumOfNaturals
  <1>11. Cardinality(S) * m =< Cardinality(T) * m /\ Cardinality(S) * m \in Int /\ Cardinality(T) * m \in Int
    BY <1>6, <1>7, Scaled
  <1> QED
    BY <1>2, <1>3, <1>7, <1>10, <1>11

\* Each limit of a, b, c is at most that of d, e, f.
Wider(a, b, c, d, e, f) ==
    /\ a.max_position =< d.max_position
    /\ b.max_open_orders =< e.max_open_orders
    /\ c.max_order_qty =< f.max_order_qty

\* Of two limits one is the larger.
LEMMA WidestLimits ==
    ASSUME NEW L \in SUBSET RiskLimits, NEW a \in L, NEW b \in L, NEW c \in L, NEW l \in L
    PROVE  \E d, e, f \in L : Wider(a, b, c, d, e, f) /\ Wider(l, l, l, d, e, f)
  <1>1. \A x \in L : x.max_position \in Nat /\ x.max_open_orders \in Nat /\ x.max_order_qty \in Nat
    BY DEF RiskLimits
  <1>2. PICK d \in L : a.max_position =< d.max_position /\ l.max_position =< d.max_position
    BY <1>1
  <1>3. PICK e \in L : b.max_open_orders =< e.max_open_orders /\ l.max_open_orders =< e.max_open_orders
    BY <1>1
  <1>4. PICK f \in L : c.max_order_qty =< f.max_order_qty /\ l.max_order_qty =< f.max_order_qty
    BY <1>1
  <1> QED
    BY <1>2, <1>3, <1>4, Zenon DEF Wider

\* What is within some limits is within wider ones.
LEMMA WithinWider ==
    ASSUME NEW x \in Int, NEW a \in RiskLimits, NEW b \in RiskLimits, NEW c \in RiskLimits,
           NEW d \in RiskLimits, NEW e \in RiskLimits, NEW f \in RiskLimits,
           Wider(a, b, c, d, e, f), Within(x, a, b, c)
    PROVE  Within(x, d, e, f)
  <1>1. PICK m, n, u, v \in Nat : /\ m = b.max_open_orders /\ n = e.max_open_orders
                                  /\ u = c.max_order_qty /\ v = f.max_order_qty
    BY Zenon DEF RiskLimits
  <1>2. m =< n /\ u =< v /\ a.max_position =< d.max_position /\ a.max_position \in Nat /\ d.max_position \in Nat
    BY <1>1 DEF Wider, RiskLimits
  <1>3. m * u \in Int /\ m * v \in Int /\ m * u =< m * v
    BY <1>2, Scaled
  <1>4. v * m \in Int /\ v * n \in Int /\ v * m =< v * n /\ v * m = m * v /\ v * n = n * v
    BY <1>2, Scaled
  <1>5. n * v \in Int /\ m * u =< n * v
    BY <1>3, <1>4
  <1>6. CASE x =< a.max_position
    BY <1>2, <1>6 DEF Within
  <1>7. CASE x < m * u
    <2>1. x < n * v
      BY <1>3, <1>5, <1>7
    <2> QED
      BY <1>1, <2>1, Zenon DEF Within
  <1> QED
    BY <1>1, <1>6, <1>7, Zenon DEF Within

\* An order that passes the check: it is not too large, there is room for one
\* more, and it reduces the position or the exposure stays within max_position.
LEMMA CheckPasses ==
    ASSUME Inv, NEW o \in Tracked, enable_risk_checks, ~forgot, check_order_risk(o) = "Allowed",
           NEW lim \in RiskLimits, lim = get_limits(limits, o.ticker_id),
           NEW t, t = o.ticker_id
    PROVE  /\ o.qty =< lim.max_order_qty
           /\ Cardinality(OrdersOf(t)) < lim.max_open_orders
           /\ o.side = BUY => Held(t) < 0 \/ Held(t) + Open(t, BUY) + o.qty =< lim.max_position
           /\ o.side = SELL => Held(t) > 0 \/ Open(t, SELL) - Held(t) + o.qty =< lim.max_position
  <1>a. PICK p, n : p = get_position(positions, t) /\ n = open_order_count[t]
    OBVIOUS
  <1>1. t \in Tickers /\ o.side \in Sides /\ o.qty \in Nat
    BY Zenon DEF Tracked
  <1>2. /\ lim.max_order_qty \in Nat /\ lim.max_open_orders \in Nat /\ lim.max_position \in Nat
        /\ n = Cardinality(OrdersOf(t)) /\ n \in Nat
    BY <1>a, <1>1, Zenon DEF RiskLimits, Inv, CountInv, CountsTrackedOrders
  <1>3. check_order_with_open_orders(lim, p, o.side, o.qty, n) = "Allowed"
    BY <1>a, Zenon DEF check_order_risk
  <1>4. ~(n >= lim.max_open_orders)
    BY <1>3, Zenon DEF check_order_with_open_orders, check_open_orders
  <1>5. check_order(lim, p, o.side, o.qty) = "Allowed"
    BY <1>3, Zenon DEF check_order_with_open_orders, check_open_orders
  <1>6. /\ ~(o.qty > lim.max_order_qty)
        /\ RiskReducing(p, o.side) \/ ~(Abs(Projected(p, o.side, o.qty)) > lim.max_position)
    BY <1>5 DEF check_order
  <1>7. HeldTyped
    BY PositionsTyped DEF Inv
  <1>8. /\ p.position = Held(t) /\ p.open_qty[BUY] = Open(t, BUY) /\ p.open_qty[SELL] = Open(t, SELL)
        /\ Held(t) \in Int /\ Open(t, BUY) \in Nat /\ Open(t, SELL) \in Nat
    BY <1>a, <1>1, <1>7, Zenon DEF Held, Open, HeldTyped, Sides
  <1>9. BUY = 1 /\ SELL = -1
    BY DEF BUY, SELL
  <1>10. ASSUME o.side = BUY
         PROVE  Held(t) < 0 \/ Held(t) + Open(t, BUY) + o.qty =< lim.max_position
    <2>1. Projected(p, o.side, o.qty) = Held(t) + Open(t, BUY) + o.qty
      BY <1>8, <1>10, Zenon DEF Projected, max_long_exposure
    <2>2. RiskReducing(p, o.side) <=> Held(t) < 0
      BY <1>8, <1>9, <1>10 DEF RiskReducing
    <2>3. Held(t) + Open(t, BUY) + o.qty \in Int
      BY <1>1, <1>8
    <2> QED
      BY <1>2, <1>6, <2>1, <2>2, <2>3, AbsBounds, Zenon
  <1>11. ASSUME o.side = SELL
         PROVE  Held(t) > 0 \/ Open(t, SELL) - Held(t) + o.qty =< lim.max_position
    <2>1. Projected(p, o.side, o.qty) = Held(t) - Open(t, SELL) - o.qty
      BY <1>8, <1>9, <1>11 DEF Projected, max_short_exposure
    <2>2. RiskReducing(p, o.side) <=> Held(t) > 0
      BY <1>8, <1>9, <1>11 DEF RiskReducing
    <2>3. PICK x \in Int : x = Held(t) - Open(t, SELL) - o.qty
      BY <1>1, <1>8
    <2>4. Open(t, SELL) - Held(t) + o.qty = -x
      BY <1>1, <1>8, <2>3
    <2> QED
      BY <1>2, <1>6, <2>1, <2>2, <2>3, <2>4, AbsBounds, Zenon
  <1> QED
    BY <1>1, <1>2, <1>4, <1>6, <1>10, <1>11
=============================================================================
