------------------------- MODULE TradingClientProofs -------------------------
(***************************************************************************)
(* The trading client, for every feed, configuration and set of limits:    *)
(* its types, the agreement of its positions with the exchange, the cover  *)
(* of what rests by the pending quantity, and what its orders respect.     *)
(***************************************************************************)
EXTENDS TradingClient, Sums, TLAPS

\* The provers get more time than by default.
USE SMTT(30), ZenonT(30)

MaxQty == DefaultLimits.max_order_qty

\* What a strategy asks for, and what passes the check.
Wanted == [ticker_id : {Ticker}, side : Sides, price : Int, qty : Nat]
Sendable == [ticker_id : {Ticker}, side : Sides, price : Int, qty : 0 .. MaxQty]

Requests == [msg_type : {"New"}, order_id : Nat, order : Sendable]
Responses == [msg_type : {"Accepted", "Filled", "InvalidRequest"}, client_order_id : Nat,
              ticker_id : {Ticker}, side : Sides, price : Int, exec_qty : Nat, leaves_qty : 0 .. MaxQty]

Positions ==
    [position : Int, open_qty : [Sides -> 0 .. QtyMod - 1], realized_pnl : Int, unrealized_pnl : Int,
     avg_open_price : Int, last_price : Int]

Quotes == [Sides -> [price : Int, qty : Nat]]
FeatureValues == [mid_price : Int, fair_value : Int, spread : Int, imbalance : Int \X (Nat \ {0})]
Makers == [last_bid_price : Int, last_ask_price : Int, current_position : Int]
Takers == [stamped : BOOLEAN, current_position : Int,
           effective_interval_ns : lt_config.min_order_interval_ns .. MaxInterval]

-----------------------------------------------------------------------------
\* The parts of the inductive invariant.
LoopInv ==
    /\ pc \in {"head", "market", "responses", "strategy", "stopped"}
    /\ running \in BOOLEAN /\ polled \in 0 .. MaxBatch
    /\ clock \in [read : BOOLEAN, since : 0 .. MaxInterval]
    /\ next_order_id \in 1 .. MaxOrders + 1
    /\ pc \in {"market", "responses", "strategy"} => next_order_id + 1 =< MaxOrders

MarketInv == bbo \in Quotes /\ features \in FeatureValues

StrategyInv ==
    /\ kind \in {"MarketMaker", "LiquidityTaker"}
    /\ kind = "MarketMaker" => strategy \in Makers
    /\ kind = "LiquidityTaker" => strategy \in Takers

KeeperInv == DOMAIN positions \subseteq {Ticker} /\ The \in Positions

\* The id of the next request that the exchange serves.
Unserved == next_order_id - Len(requests)

\* Ids are given out in order, the exchange serves them in order, and what it has
\* not served neither rests nor is answered.
WireInv ==
    /\ next_order_id \in Nat /\ Unserved \in Nat \ {0}
    /\ requests \in Seq(Requests) /\ inbox \in Seq(Responses)
    /\ \A i \in 1 .. Len(requests) : requests[i].order_id = Unserved + i - 1
    /\ \A i \in 1 .. Len(inbox) : inbox[i].client_order_id \in 1 .. Unserved - 1
    /\ IsFiniteSet(DOMAIN book)
    /\ \A id \in DOMAIN book : id \in 1 .. Unserved - 1 /\ book[id] \in Sendable
    /\ traded \in [Tickers -> Int]

AcceptedAt(i) == i \in 1 .. Len(inbox) /\ inbox[i].msg_type = "Accepted"

\* The acceptances in flight are in the order of their ids, and none offers less
\* than what rests.
AcceptsInv ==
    /\ \A i, j \in Nat : AcceptedAt(i) /\ AcceptedAt(j) /\ i < j =>
          inbox[i].client_order_id < inbox[j].client_order_id
    /\ \A i \in Nat : AcceptedAt(i) /\ inbox[i].client_order_id \in DOMAIN book =>
          LET o == book[inbox[i].client_order_id]
          IN  o.side = inbox[i].side /\ o.qty =< inbox[i].leaves_qty
    /\ \A i \in 1 .. Len(inbox) : inbox[i].msg_type # "Filled" => inbox[i].exec_qty = 0

\* The pending quantity is at most that of the orders with smaller ids than the
\* next acceptance has.
PendingInv ==
    \A s \in Sides :
       /\ The.open_qty[s] =< (Unserved - 1) * MaxQty
       /\ \A i \in Nat : AcceptedAt(i) => The.open_qty[s] =< (inbox[i].client_order_id - 1) * MaxQty

Inv == /\ LoopInv /\ MarketInv /\ StrategyInv /\ KeeperInv /\ WireInv /\ AcceptsInv /\ PendingInv
       /\ PositionsAgree /\ OpenQtyCoversBook

-----------------------------------------------------------------------------
\* What the assumptions say of the constants.
LEMMA ConstantTypes ==
    /\ QtyMod \in Nat \ {0} /\ MaxQty \in Nat /\ limits.max_position \in Nat
    /\ MaxOrders \in Nat /\ MaxBatch \in Nat \ {0} /\ MaxOrders * MaxQty < QtyMod
    /\ Ticker \in Tickers /\ limits.max_order_qty = MaxQty
    /\ mm_config \in MarketMakerConfig /\ lt_config \in LiquidityTakerConfig
    /\ lt_config.min_order_interval_ns \in Nat /\ MaxInterval \in Nat
    /\ lt_config.min_order_interval_ns =< MaxInterval
  BY RiskAssumption, TradingClientAssumption, OrdersFit
     DEF RiskLimits, MaxQty, limits, LiquidityTakerConfig, MaxInterval

\* A response that executes nothing moves no position.
LEMMA NothingExecuted == \A a \in Sides : a * 0 = 0
  BY DEF Sides, BUY, SELL

\* A quantity with the sign of its side is an integer.
LEMMA SignedTyped == \A a \in Sides, q \in Nat : a * q \in Int
  BY DEF Sides, BUY, SELL

\* A natural number is an integer.
LEMMA NatsAreInts == \A n \in Nat : n \in Int
  OBVIOUS

\* A quantity that covers another still does when both grow alike.
LEMMA StillCovers ==
    \A a, b, c, d \in Int : a >= b /\ c =< b + d => a + d >= c
  OBVIOUS

\* The positions of a sequence that one message more was appended to.
LEMMA Longer ==
    \A n \in Nat : /\ n + 1 \in Nat /\ n + 1 \in 1 .. n + 1
                  /\ \A i \in 1 .. n : i \in Nat /\ i < n + 1 /\ ~(n + 1 < i)
  OBVIOUS

\* An id that was given out is below the next one.
LEMMA GivenBelow == \A u \in Nat : \A a \in 1 .. u - 1 : a \in Nat /\ a < u /\ a # u
  OBVIOUS

\* The order of the integers is transitive.
LEMMA AtMostTrans == \A a, b, c \in Int : a =< b /\ b =< c => a =< c
  OBVIOUS

\* The quantities of a message are integers.
LEMMA MessageQtys ==
    /\ \A o \in Sendable : o.qty \in Int
    /\ \A r \in Responses : r.leaves_qty \in Int /\ r.exec_qty \in Int /\ r.client_order_id \in Nat
  BY ConstantTypes DEF Sendable, Responses

\* The quotes and the features of a client that has received nothing.
LEMMA NewMarketTyped == NewBBO \in Quotes /\ NewFeatures \in FeatureValues
  BY DEF NewBBO, NewFeatures, Quotes, FeatureValues, INVALID_PRICE

\* The quotes stay well typed.
LEMMA QuotesTyped ==
    ASSUME NEW b \in Quotes, NEW u \in Updates
    PROVE  process_update(b, u) \in Quotes
  <1>1. /\ u.msg_type \in {"Add", "Modify", "Snapshot", "Cancel", "Trade", "Clear"}
        /\ u.side \in Sides /\ -u.side \in Sides /\ u.price \in Nat /\ u.qty \in Nat
    BY TradingClientAssumption DEF Sides, BUY, SELL
  <1> DEFINE Level == [price : Int, qty : Nat]
  <1>2. \A level \in Level : /\ BBOQuoted(level, u) \in Level
                             /\ BBOCanceled(level, u) \in Level
                             /\ Traded(level, u) \in Level
    BY <1>1 DEF BBOQuoted, BBOCanceled, Traded, saturating_sub
  <1>3. NewBBO \in Quotes
    BY DEF NewBBO, INVALID_PRICE, Quotes
  <1>4. \A s \in Sides : b[s] \in Level
    BY DEF Quotes
  <1> QED
    BY <1>1, <1>2, <1>3, <1>4 DEF process_update, Quotes

\* So do the features: a valid quote has a quantity on both sides.
LEMMA FeaturesTyped ==
    ASSUME NEW f \in FeatureValues, NEW b \in Quotes, NEW g \in on_bbo_update(f, b)
    PROVE  g \in FeatureValues
  <1>1. CASE ~is_valid(b)
    BY <1>1 DEF on_bbo_update
  <1>2. CASE is_valid(b)
    <2>1. /\ BUY \in Sides /\ SELL \in Sides
          /\ b[BUY].qty \in Nat \ {0} /\ b[SELL].qty \in Nat \ {0}
          /\ b[BUY].price \in Int /\ b[SELL].price \in Int
      BY <1>2 DEF is_valid, Quotes, Sides
    <2>2. mid_price(b) \in Int /\ spread(b) \in Int
      BY <2>1 DEF mid_price, spread
    <2>3. calculate_imbalance(b) \in Int \X (Nat \ {0})
      BY <2>1 DEF calculate_imbalance
    <2>4. f.fair_value \in Int
      BY DEF FeatureValues
    <2>5. EMA(f.fair_value, mid_price(b)) \subseteq Int
      BY <2>2, <2>4 DEF EMA
    <2>6. PICK fv \in Int : g = [mid_price |-> mid_price(b), fair_value |-> fv, spread |-> spread(b),
                                imbalance |-> calculate_imbalance(b)]
      BY <1>2, <2>2, <2>5 DEF on_bbo_update
    <2> QED
      BY <2>2, <2>3, <2>6 DEF FeatureValues
  <1> QED
    BY <1>1, <1>2

-----------------------------------------------------------------------------
\* A position stays well typed, and what a fill changes.
LEMMA FillKept ==
    ASSUME NEW p \in Positions, NEW side \in Sides, NEW qty \in Nat, NEW price \in Int
    PROVE  LET q == on_fill(p, side, qty, price)
           IN  q \in Positions /\ q.position = p.position + side * qty /\ q.open_qty = p.open_qty
  <1> DEFINE sq == side * qty
             q == [p EXCEPT !.position = @ + sq,
                            !.realized_pnl = @ + Realized(p, sq, price),
                            !.avg_open_price = OpenPrice(p, sq, price),
                            !.last_price = price]
  <1>1. sq \in Int /\ p.position \in Int /\ p.avg_open_price \in Int
    BY DEF Positions, Sides, BUY, SELL
  <1>2. on_fill(p, side, qty, price) = update_unrealized_pnl(q)
    BY DEF on_fill
  <1> HIDE DEF sq
  <1>3. Realized(p, sq, price) \in Int
    <2>1. Smaller(Abs(p.position), Abs(sq)) \in Int
      BY <1>1 DEF Smaller, Abs
    <2> QED
      BY <1>1, <2>1 DEF Realized
  <1>4. OpenPrice(p, sq, price) \in Int
    <2>1. CASE p.position = 0 \/ Opposite(p.position, sq)
      BY <1>1, <2>1 DEF OpenPrice
    <2>2. CASE p.position # 0 /\ ~Opposite(p.position, sq)
      <3>1. /\ Abs(p.position) \in Nat /\ Abs(sq) \in Nat
            /\ Abs(p.position + sq) \in Nat \ {0}
        BY <1>1, <2>2 DEF Abs, Opposite
      <3>2. p.avg_open_price * Abs(p.position) + price * Abs(sq) \in Int
        BY <1>1, <3>1
      <3>3. \A a \in Int, n \in Nat \ {0} : a \div n \in Int
        OBVIOUS
      <3> QED
        BY <2>2, <3>1, <3>2, <3>3 DEF OpenPrice
    <2> QED
      BY <2>1, <2>2
  <1>5. q \in Positions /\ q.position = p.position + sq /\ q.open_qty = p.open_qty
    <2>1. p.position + sq \in Int /\ p.realized_pnl + Realized(p, sq, price) \in Int
      BY <1>1, <1>3 DEF Positions
    <2> QED
      BY <1>4, <2>1, Zenon DEF Positions
  <1> HIDE DEF q
  <1>6. (q.last_price - q.avg_open_price) * q.position \in Int
    BY <1>5 DEF Positions
  <1>7. /\ update_unrealized_pnl(q) \in Positions
        /\ update_unrealized_pnl(q).position = q.position
        /\ update_unrealized_pnl(q).open_qty = q.open_qty
    BY <1>5, <1>6 DEF update_unrealized_pnl, Positions
  <1> QED
    BY <1>2, <1>5, <1>7 DEF sq

\* A pending order, when the quantity does not wrap.
LEMMA PendingKept ==
    ASSUME NEW p \in Positions, NEW side \in Sides, NEW qty \in Nat, p.open_qty[side] + qty < QtyMod
    PROVE  LET q == add_open_order(p, side, qty)
           IN  /\ q \in Positions /\ q.position = p.position
               /\ \A s \in Sides : q.open_qty[s] = p.open_qty[s] + (IF s = side THEN qty ELSE 0)
  <1>1. p.open_qty \in [Sides -> 0 .. QtyMod - 1] /\ QtyMod \in Nat \ {0}
    BY ConstantTypes DEF Positions
  <1>2. p.open_qty[side] \in 0 .. QtyMod - 1
    BY <1>1
  <1>3. (p.open_qty[side] + qty) % QtyMod = p.open_qty[side] + qty
    BY <1>1, <1>2
  <1>4. \A s \in Sides : p.open_qty[s] + 0 = p.open_qty[s]
    BY <1>1
  <1> QED
    BY <1>1, <1>2, <1>3, <1>4 DEF add_open_order, Positions

\* A new market price.
LEMMA MarkKept ==
    ASSUME NEW p \in Positions, NEW price \in Int
    PROVE  LET q == update_market_price(p, price)
           IN  q \in Positions /\ q.position = p.position /\ q.open_qty = p.open_qty
  <1> DEFINE q == [p EXCEPT !.last_price = price]
  <1>1. q \in Positions /\ (q.last_price - q.avg_open_price) * q.position \in Int
    BY DEF Positions
  <1> QED
    BY <1>1, Zenon DEF update_market_price, update_unrealized_pnl, Positions

\* What an order that passes the check may risk, when no more than the pending
\* quantity rests.
LEMMA AllowedExposure ==
    ASSUME NEW p \in Positions, NEW s \in Sides, NEW q \in Nat, NEW rest \in Nat,
           p.open_qty[s] >= rest, check_order(limits, p, s, q) = "Allowed"
    PROVE  RiskReducing(p, s) \/ s * p.position + rest + q =< limits.max_position
  <1>1. p.position \in Int /\ p.open_qty[s] \in Int /\ limits.max_position \in Nat
    BY ConstantTypes DEF Positions
  <1>2. RiskReducing(p, s) \/ Abs(Projected(p, s, q)) =< limits.max_position
    <2>1. RiskReducing(p, s) \/ ~(Abs(Projected(p, s, q)) > limits.max_position)
      BY Zenon DEF check_order
    <2>2. CASE s = BUY
      BY <1>1, <2>1, <2>2 DEF Projected, max_long_exposure, Abs
    <2>3. CASE s = SELL
      BY <1>1, <2>1, <2>3 DEF Projected, max_short_exposure, Abs, BUY, SELL
    <2> QED
      BY <2>2, <2>3 DEF Sides
  <1>3. CASE s = BUY
    BY <1>1, <1>2, <1>3 DEF Projected, max_long_exposure, Abs, BUY
  <1>4. CASE s = SELL
    BY <1>1, <1>2, <1>4 DEF Projected, max_short_exposure, Abs, BUY, SELL
  <1> QED
    BY <1>3, <1>4 DEF Sides

-----------------------------------------------------------------------------
\* The orders of an action: one, or one on each side, or none.
Orders ==
    {os \in Seq(Wanted) : Len(os) =< 2 /\ \A i, j \in 1 .. Len(os) : i # j => os[i].side # os[j].side}

\* One order, and none.
LEMMA FewOrders ==
    <<>> \in Orders /\ \A o \in Wanted : <<o>> \in Orders
  BY DEF Orders

\* A bid and an ask.
LEMMA TwoOrders ==
    ASSUME NEW b \in Wanted, NEW a \in Wanted, b.side # a.side
    PROVE  <<b>> \o <<a>> \in Orders
  <1> DEFINE os == <<b>> \o <<a>>
  <1>1. os \in Seq(Wanted) /\ Len(os) = 2 /\ os[1] = b /\ os[2] = a
    OBVIOUS
  <1> HIDE DEF os
  <1>2. \A i, j \in 1 .. 2 : i # j => (i = 1 /\ j = 2) \/ (i = 2 /\ j = 1)
    OBVIOUS
  <1>3. \A i, j \in 1 .. Len(os) : i # j => os[i].side # os[j].side
    BY <1>1, <1>2
  <1>4. Len(os) =< 2
    BY <1>1
  <1>5. os \in Orders
    BY <1>1, <1>3, <1>4, Zenon DEF Orders
  <1> QED
    BY <1>5 DEF os

\* Division by a positive number.
LEMMA Quotients ==
    ASSUME NEW n \in Int, NEW d \in Nat \ {0}
    PROVE  n \div d \in Int /\ Trunc(n, d) \subseteq Int
  BY DEF Trunc

\* A part of an integer.
LEMMA ScaledTyped ==
    ASSUME NEW n \in Int, NEW d \in Nat \ {0}, NEW x \in Int, NEW y \in Nat \ {0}
    PROVE  Scaled(n, d, x, y) \subseteq Int
  <1> DEFINE Of(k) == IF k \in {0, d} THEN {(k * x) \div (d * y)} ELSE Trunc(k * x, d * y)
  <1>1. d * y \in Nat \ {0}
    OBVIOUS
  <1>2. \A k \in Int : Of(k) \subseteq Int
    <2> TAKE k \in Int
    <2>1. k * x \in Int
      OBVIOUS
    <2> QED
      BY <1>1, <2>1, Quotients
  <1>3. \A k \in Int : {-r : r \in Of(k)} \subseteq Int
    BY <1>2
  <1>4. -n \in Int
    OBVIOUS
  <1>5. Scaled(n, d, x, y) = IF n >= 0 THEN Of(n) ELSE {-r : r \in Of(-n)}
    BY DEF Scaled
  <1> QED
    BY <1>2, <1>3, <1>4, <1>5

\* The market maker's quantity of a side is a natural number.
LEMMA SideQtyTyped ==
    ASSUME NEW side \in Sides, NEW position \in Int
    PROVE  SideQty(side, position) \subseteq Nat
  <1> DEFINE max_pos == mm_config.max_position
             held == Clamp(side * position, 0, max_pos)
             whole == Scaled(2 * max_pos - held, 2 * max_pos, mm_config.base_qty, 1)
  <1>1. /\ max_pos \in Nat \ {0} /\ mm_config.base_qty \in Nat /\ mm_config.max_qty \in Nat \ {0}
        /\ side * position \in Int
    BY ConstantTypes DEF MarketMakerConfig, Sides, BUY, SELL
  <1>2. 2 * max_pos - held \in Int /\ 2 * max_pos \in Nat \ {0}
    BY <1>1 DEF Clamp
  <1>3. whole \subseteq Int
    <2>1. mm_config.base_qty \in Int /\ 1 \in Nat \ {0}
      BY <1>1
    <2> HIDE DEF max_pos, held
    <2> QED
      BY <1>2, <2>1, ScaledTyped, Zenon
  <1>4. \A q \in Int : Clamp(q, 1, mm_config.max_qty) \in Nat
    BY <1>1 DEF Clamp
  <1>5. \A q \in SideQty(side, position) :
           q = 0 \/ \E r \in whole : q = Clamp(r, 1, mm_config.max_qty)
    BY DEF SideQty
  <1> HIDE DEF whole
  <1> QED
    BY <1>3, <1>4, <1>5

\* The market maker's quotes are prices.
LEMMA MakerQuotes ==
    ASSUME NEW f \in FeatureValues, NEW q \in calculate_quotes(f)
    PROVE  q.bid \in Int /\ q.ask \in Int
  <1> DEFINE n == f.imbalance[1]
             d == f.imbalance[2]
             m == IF n < 0 THEN -n ELSE n
  <1>1. n \in Int /\ d \in Nat \ {0} /\ m \in Int /\ f.fair_value \in Int
    BY DEF FeatureValues
  <1>2. mm_config.half_spread \in Int /\ mm_config.min_spread \in Int
    BY ConstantTypes DEF MarketMakerConfig
  <1>3. \E a \in Scaled(m, d, mm_config.half_spread, 2) :
           LET half == Larger(mm_config.half_spread + a, mm_config.min_spread)
           IN  \E skew \in Scaled(n, d, half, 5) : q = QuoteAround(f.fair_value, half, skew)
    BY DEF calculate_quotes
  <1> HIDE DEF n, d, m
  <1>4. PICK a \in Scaled(m, d, mm_config.half_spread, 2) :
           LET half == Larger(mm_config.half_spread + a, mm_config.min_spread)
           IN  \E skew \in Scaled(n, d, half, 5) : q = QuoteAround(f.fair_value, half, skew)
    BY <1>3
  <1> DEFINE half == Larger(mm_config.half_spread + a, mm_config.min_spread)
  <1>5. PICK skew \in Scaled(n, d, half, 5) : q = QuoteAround(f.fair_value, half, skew)
    BY <1>4
  <1>6. 2 \in Nat \ {0} /\ 5 \in Nat \ {0}
    OBVIOUS
  <1>7. a \in Int
    BY <1>1, <1>2, <1>6, ScaledTyped, Zenon
  <1>8. half \in Int
    BY <1>2, <1>7 DEF Larger
  <1> HIDE DEF half
  <1>9. skew \in Int
    BY <1>1, <1>6, <1>8, ScaledTyped, Zenon
  <1> QED
    BY <1>1, <1>5, <1>8, <1>9 DEF QuoteAround

\* What the market maker wants: at most a bid and an ask.
LEMMA MakerActs ==
    ASSUME NEW mm \in Makers, NEW f \in FeatureValues, NEW action \in mm_on_features(mm, f)
    PROVE  /\ action.strategy \in Makers /\ action.strategy.current_position = mm.current_position
           /\ action.orders \in Orders
  <1>1. PICK q \in calculate_quotes(f) : action \in Requote(mm, q)
    BY DEF mm_on_features
  <1>2. q.bid \in Int /\ q.ask \in Int /\ mm.current_position \in Int
    BY MakerQuotes DEF Makers
  <1>3. CASE ~should_update_quotes(mm, q)
    BY <1>1, <1>3, FewOrders DEF Requote
  <1>4. CASE should_update_quotes(mm, q)
    <2>1. PICK bid_qty \in SideQty(BUY, mm.current_position),
               ask_qty \in SideQty(SELL, mm.current_position) :
             action = [strategy |-> [mm EXCEPT !.last_bid_price = q.bid, !.last_ask_price = q.ask],
                       orders |-> build_quote_pair(q, bid_qty, ask_qty)]
      BY <1>1, <1>4 DEF Requote
    <2>2. BUY \in Sides /\ SELL \in Sides /\ BUY # SELL
      BY DEF Sides, BUY, SELL
    <2>3. bid_qty \in Nat /\ ask_qty \in Nat
      BY <1>2, <2>2, SideQtyTyped
    <2> DEFINE b == OrderRequest(BUY, q.bid, bid_qty)
               a == OrderRequest(SELL, q.ask, ask_qty)
    <2>4. b \in Wanted /\ a \in Wanted /\ b.side # a.side
      BY <1>2, <2>2, <2>3 DEF OrderRequest, Wanted, Ticker
    <2>5. build_quote_pair(q, bid_qty, ask_qty)
             = (IF bid_qty > 0 THEN <<b>> ELSE <<>>) \o (IF ask_qty > 0 THEN <<a>> ELSE <<>>)
      BY DEF build_quote_pair
    <2> HIDE DEF b, a
    <2>6. <<b>> \o <<>> = <<b>> /\ <<>> \o <<a>> = <<a>> /\ <<>> \o <<>> = <<>>
      OBVIOUS
    <2>7. build_quote_pair(q, bid_qty, ask_qty) \in Orders
      BY <2>4, <2>5, <2>6, FewOrders, TwoOrders, Zenon
    <2>8. /\ [mm EXCEPT !.last_bid_price = q.bid, !.last_ask_price = q.ask] \in Makers
          /\ [mm EXCEPT !.last_bid_price = q.bid, !.last_ask_price = q.ask].current_position
                = mm.current_position
      BY <1>2, Zenon DEF Makers
    <2> QED
      BY <2>1, <2>7, <2>8, Zenon
  <1> QED
    BY <1>3, <1>4

\* The taker's quantity is a natural number.
LEMMA TakerQuantity ==
    ASSUME NEW strength \in Int, NEW scale \in Nat \ {0}
    PROVE  calculate_quantity(strength, scale) \subseteq Nat
  <1> DEFINE rest == 10 - lt_config.threshold
             above == 10 * strength - lt_config.threshold * scale
             sum == lt_config.base_qty * scale * rest
                    + (lt_config.max_qty - lt_config.base_qty) * above
  <1>1. /\ lt_config.threshold \in 0 .. 9 /\ lt_config.base_qty \in Nat /\ lt_config.max_qty \in Nat \ {0}
    BY ConstantTypes DEF LiquidityTakerConfig
  <1>2. rest \in Nat \ {0} /\ above \in Int
    BY <1>1
  <1>3. \A q \in calculate_quantity(strength, scale) :
           \E r \in {lt_config.base_qty, lt_config.max_qty} \cup Trunc(sum, scale * rest) :
              q = Clamp(r, 1, lt_config.max_qty)
    BY DEF calculate_quantity
  <1> HIDE DEF rest, above
  <1>4. sum \in Int /\ scale * rest \in Nat \ {0}
    <2>1. lt_config.base_qty * scale \in Int /\ lt_config.max_qty - lt_config.base_qty \in Int
      BY <1>1
    <2> QED
      BY <1>2, <2>1
  <1> HIDE DEF sum
  <1>5. Trunc(sum, scale * rest) \subseteq Int
    BY <1>4, Quotients
  <1>6. \A q \in Int : Clamp(q, 1, lt_config.max_qty) \in Nat
    BY <1>1 DEF Clamp
  <1>7. lt_config.base_qty \in Int /\ lt_config.max_qty \in Int
    BY <1>1
  <1> QED
    BY <1>3, <1>5, <1>6, <1>7

\* A recorded order.
LEMMA RecordTyped ==
    ASSUME NEW lt \in Takers, NEW now_is_zero \in BOOLEAN
    PROVE  /\ record_order(lt, now_is_zero) \in Takers
           /\ record_order(lt, now_is_zero).current_position = lt.current_position
  <1> DEFINE e == lt.effective_interval_ns
             e1 == IF 2 * e < MaxInterval THEN 2 * e ELSE MaxInterval
  <1>1. e1 \in lt_config.min_order_interval_ns .. MaxInterval
    BY ConstantTypes DEF Takers
  <1>2. record_order(lt, now_is_zero) =
           [lt EXCEPT !.stamped = ~now_is_zero, !.effective_interval_ns = e1]
    BY DEF record_order
  <1>3. (~now_is_zero) \in BOOLEAN
    BY Zenon
  <1> HIDE DEF e1
  <1> QED
    BY <1>1, <1>2, <1>3, Zenon DEF Takers

\* What the liquidity taker wants: at most one order, and only when it may send.
LEMMA TakerActs ==
    ASSUME NEW lt \in Takers, NEW f \in FeatureValues, NEW since, NEW now_is_zero \in BOOLEAN,
           NEW b \in Quotes, NEW action \in lt_on_features(lt, f, since, now_is_zero, b)
    PROVE  /\ action.strategy \in Takers /\ action.strategy.current_position = lt.current_position
           /\ action.orders \in Orders
           /\ (action.strategy = lt /\ action.orders = <<>>) \/ can_send_order(lt, since)
  <1> DEFINE signal == ScaledSignal(f)
             scale == 10 * f.spread * f.imbalance[2]
             None == [strategy |-> lt, orders |-> <<>>]
  <1>1. CASE action = None
    BY <1>1, FewOrders
  <1>2. CASE action # None
    <2>1. /\ can_send_order(lt, since) /\ ~(f.spread =< 0)
          /\ \E s \in Sides : \E q \in calculate_quantity(s * signal, scale) :
                action = [strategy |-> record_order(lt, now_is_zero),
                          orders |-> <<OrderRequest(s, TakePrice(s, b[-s].price), q)>>]
      BY <1>2, Zenon DEF lt_on_features
    <2>2. PICK s \in Sides : \E q \in calculate_quantity(s * signal, scale) :
             action = [strategy |-> record_order(lt, now_is_zero),
                       orders |-> <<OrderRequest(s, TakePrice(s, b[-s].price), q)>>]
      BY <2>1, Zenon
    <2>3. PICK q \in calculate_quantity(s * signal, scale) :
             action = [strategy |-> record_order(lt, now_is_zero),
                       orders |-> <<OrderRequest(s, TakePrice(s, b[-s].price), q)>>]
      BY <2>2
    <2>4. /\ f.spread \in Nat \ {0} /\ f.imbalance[1] \in Int /\ f.imbalance[2] \in Nat \ {0}
          /\ f.fair_value \in Int /\ f.mid_price \in Int
      BY <2>1 DEF FeatureValues
    <2>5. scale \in Nat \ {0}
      BY <2>4
    <2>6. signal \in Int
      <3>1. Clamp(f.fair_value - f.mid_price, -f.spread, f.spread) \in Int
        BY <2>4 DEF Clamp
      <3>2. /\ 7 * Clamp(f.fair_value - f.mid_price, -f.spread, f.spread) * f.imbalance[2] \in Int
            /\ 3 * f.imbalance[1] * f.spread \in Int
        BY <2>4, <3>1
      <3> QED
        BY <3>2 DEF ScaledSignal
    <2> HIDE DEF scale, signal
    <2>7. s * signal \in Int /\ -s \in Sides
      BY <2>6 DEF Sides, BUY, SELL
    <2>8. q \in Nat
      BY <2>5, <2>7, TakerQuantity
    <2>9. TakePrice(s, b[-s].price) \in Int
      <3>1. b[-s].price \in Int
        BY <2>7 DEF Quotes
      <3> QED
        BY <3>1 DEF TakePrice, Wrap, INVALID_PRICE, Sides, BUY, SELL
    <2>10. OrderRequest(s, TakePrice(s, b[-s].price), q) \in Wanted
      BY <2>8, <2>9 DEF OrderRequest, Wanted, Ticker
    <2> QED
      BY <2>1, <2>3, <2>10, FewOrders, RecordTyped, Zenon
  <1> QED
    BY <1>1, <1>2

\* What is sent of an action: orders that pass the check, at most one on a side.
LEMMA SentOrders ==
    ASSUME NEW orders \in Orders
    PROVE  LET os == Passing(orders, 1) \o Passing(orders, 2)
           IN  /\ os \in Seq(Sendable) /\ Len(os) \in 0 .. 2
               /\ \A i \in 1 .. Len(os) : Allowed(os[i])
               /\ \A i, j \in 1 .. Len(os) : i # j => os[i].side # os[j].side
  <1>1. /\ orders \in Seq(Wanted) /\ DOMAIN orders = 1 .. Len(orders)
        /\ \A i, j \in 1 .. Len(orders) : i # j => orders[i].side # orders[j].side
    BY DEF Orders
  <1>2. \A o \in Wanted : Allowed(o) => o \in Sendable
    <2> SUFFICES ASSUME NEW o \in Wanted, Allowed(o)
                 PROVE  o \in Sendable
      OBVIOUS
    <2>1. ~(o.qty > MaxQty)
      BY ConstantTypes DEF Allowed, check_order
    <2>2. o.qty \in 0 .. MaxQty
      BY <2>1, ConstantTypes DEF Wanted
    <2> QED
      BY <2>2 DEF Wanted, Sendable
  <1>3. \A i \in {1, 2} : i \in DOMAIN orders => orders[i] \in Wanted
    BY <1>1
  <1> DEFINE a == orders[1]
             b == orders[2]
             Goal(os) == /\ os \in Seq(Sendable) /\ Len(os) \in 0 .. 2
                         /\ \A i \in 1 .. Len(os) : Allowed(os[i])
                         /\ \A i, j \in 1 .. Len(os) : i # j => os[i].side # os[j].side
  <1>4. Goal(<<>>)
    OBVIOUS
  <1>5. \A o \in Sendable : Allowed(o) => Goal(<<o>>)
    OBVIOUS
  <1>6. ASSUME NEW x \in Sendable, NEW y \in Sendable, Allowed(x), Allowed(y), x.side # y.side
        PROVE  Goal(<<x>> \o <<y>>)
    <2> DEFINE os == <<x>> \o <<y>>
    <2>1. os \in Seq(Sendable) /\ Len(os) = 2 /\ os[1] = x /\ os[2] = y
      OBVIOUS
    <2> HIDE DEF os
    <2>2. \A i \in 1 .. 2 : i = 1 \/ i = 2
      OBVIOUS
    <2>3. /\ Len(os) \in 0 .. 2
          /\ \A i \in 1 .. Len(os) : Allowed(os[i])
          /\ \A i, j \in 1 .. Len(os) : i # j => os[i].side # os[j].side
      BY <1>6, <2>1, <2>2
    <2> QED
      BY <2>1, <2>3 DEF os
  <1>7. /\ Passing(orders, 1) = <<>> \/ (Passing(orders, 1) = <<a>> /\ Allowed(a) /\ 1 \in DOMAIN orders)
        /\ Passing(orders, 2) = <<>> \/ (Passing(orders, 2) = <<b>> /\ Allowed(b) /\ 2 \in DOMAIN orders)
    BY DEF Passing
  <1>8. 1 \in DOMAIN orders /\ 2 \in DOMAIN orders => a.side # b.side
    BY <1>1
  <1>9. /\ Allowed(a) /\ 1 \in DOMAIN orders => a \in Sendable
        /\ Allowed(b) /\ 2 \in DOMAIN orders => b \in Sendable
    BY <1>2, <1>3
  <1>10. <<a>> \o <<>> = <<a>> /\ <<>> \o <<b>> = <<b>> /\ <<>> \o <<>> = <<>>
    OBVIOUS
  <1> HIDE DEF a, b, Goal
  <1>11. Goal(Passing(orders, 1) \o Passing(orders, 2))
    BY <1>4, <1>5, <1>6, <1>7, <1>8, <1>9, <1>10, Zenon
  <1> QED
    BY <1>11, Zenon DEF Goal

-----------------------------------------------------------------------------
\* The executed quantity in flight on a side.
Executed(s) ==
    SumFunctionOnSet([i \in DOMAIN inbox |-> inbox[i].exec_qty], {i \in DOMAIN inbox : inbox[i].side = s})

\* PositionsAgree in these terms.
LEMMA AgreeIs ==
    PositionsAgree <=> /\ strategy.current_position = The.position
                       /\ The.position + Executed(BUY) - Executed(SELL) = traded[Ticker]
  BY Zenon DEF PositionsAgree, InFlight, Executed

\* Initially nothing is held, pending, resting or in flight.
LEMMA InitInv ==
    ASSUME SumFacts, FiniteSetFacts, Init
    PROVE  Inv
  <1>1. /\ pc = "head" /\ running = TRUE /\ polled = 0 /\ bbo = NewBBO /\ features = NewFeatures
        /\ DOMAIN positions = {} /\ kind \in {"MarketMaker", "LiquidityTaker"}
        /\ strategy = IF kind = "MarketMaker" THEN NewMarketMaker ELSE NewLiquidityTaker
        /\ clock = [read |-> FALSE, since |-> MaxInterval]
        /\ next_order_id = 1 /\ requests = <<>> /\ inbox = <<>> /\ DOMAIN book = {}
        /\ traded = [t \in Tickers |-> 0]
    BY TradingClientAssumption DEF Init, SessionInit
  <1>2. The = NewPosition
    BY <1>1 DEF The, get_position
  <1>3. The \in Positions /\ The.position = 0 /\ \A s \in Sides : The.open_qty[s] = 0
    BY <1>2, ConstantTypes DEF NewPosition, Positions
  <1>4. Len(requests) = 0 /\ Len(inbox) = 0 /\ DOMAIN inbox = {} /\ Unserved = 1
    BY <1>1 DEF Unserved
  <1>5. LoopInv
    <2>1. /\ 0 \in 0 .. MaxBatch /\ 1 \in 1 .. MaxOrders + 1 /\ MaxInterval \in 0 .. MaxInterval
      BY ConstantTypes
    <2>2. clock \in [read : BOOLEAN, since : 0 .. MaxInterval] /\ running \in BOOLEAN
      BY <1>1, <2>1, Zenon
    <2> QED
      BY <1>1, <2>1, <2>2 DEF LoopInv
  <1>6. MarketInv
    BY <1>1, NewMarketTyped, Zenon DEF MarketInv
  <1>7. StrategyInv /\ strategy.current_position = 0
    <2>1. NewMarketMaker \in Makers /\ NewMarketMaker.current_position = 0
      BY DEF NewMarketMaker, Makers
    <2>2. lt_config.min_order_interval_ns \in lt_config.min_order_interval_ns .. MaxInterval /\ 0 \in Int
      BY ConstantTypes
    <2>3. NewLiquidityTaker \in Takers /\ NewLiquidityTaker.current_position = 0
      BY <2>2, Zenon DEF NewLiquidityTaker, Takers
    <2> QED
      BY <1>1, <2>1, <2>3 DEF StrategyInv
  <1>8. KeeperInv
    BY <1>1, <1>3, Zenon DEF KeeperInv
  <1>9. WireInv
    BY <1>1, <1>4 DEF WireInv, FiniteSetFacts
  <1>10. AcceptsInv
    BY <1>4 DEF AcceptsInv, AcceptedAt
  <1>11. PendingInv
    BY <1>3, <1>4, ConstantTypes DEF PendingInv, AcceptedAt
  <1>12. PositionsAgree
    <2>1. \A s : {i \in DOMAIN inbox : inbox[i].side = s} = {}
      BY <1>4
    <2>2. Executed(BUY) = 0 /\ Executed(SELL) = 0
      BY <2>1 DEF Executed, SumFacts, SumOfNone
    <2>3. traded[Ticker] = 0
      BY <1>1, ConstantTypes
    <2>4. 0 + 0 - 0 = 0
      OBVIOUS
    <2> QED
      BY <1>3, <1>7, <2>2, <2>3, <2>4, AgreeIs
  <1>13. OpenQtyCoversBook
    <2>1. \A s : Acknowledged(s) = {}
      BY <1>1 DEF Acknowledged
    <2>2. \A s : Qtys(book, Acknowledged(s)) = 0
      BY <2>1 DEF Qtys, SumFacts, SumOfNone
    <2> QED
      BY <1>3, <2>2 DEF OpenQtyCoversBook
  <1> QED
    BY <1>5, <1>6, <1>7, <1>8, <1>9, <1>10, <1>11, <1>12, <1>13 DEF Inv

-----------------------------------------------------------------------------
\* The keeper has at most the client's ticker.
LEMMA PositionSet ==
    ASSUME DOMAIN positions \subseteq {Ticker}, NEW p, positions' = set_position(positions, Ticker, p)
    PROVE  DOMAIN positions' \subseteq {Ticker} /\ The' = p
  BY DEF set_position, The, get_position

\* What the client does with a strategy: it keeps the position and the pending
\* quantity, and sends orders that pass the check, at most one on a side.
Acts(os) ==
    /\ os \in Seq(Sendable) /\ Len(os) \in 0 .. 2 /\ send_new_orders(os)
    /\ \A i \in 1 .. Len(os) : Allowed(os[i])
    /\ \A i, j \in 1 .. Len(os) : i # j => os[i].side # os[j].side

\* Either strategy, or none.
LEMMA StrategyActs ==
    ASSUME LoopInv, MarketInv, StrategyInv, KeeperInv, run_strategy
    PROVE  /\ (\E os : Acts(os)) \/ UNCHANGED session
           /\ StrategyInv' /\ strategy'.current_position = strategy.current_position
           /\ clock' \in [read : BOOLEAN, since : 0 .. MaxInterval]
           /\ DOMAIN positions' \subseteq {Ticker} /\ The' = The
           /\ Recorded => can_send_order(strategy, clock.since)
  <1>1. DOMAIN positions' \subseteq {Ticker} /\ The' = The
    <2>1. CASE features_valid(features)
      BY <2>1, PositionSet DEF run_strategy, KeeperInv
    <2>2. CASE ~features_valid(features)
      BY <2>2 DEF run_strategy, KeeperInv, The
    <2> QED
      BY <2>1, <2>2
  <1>2. kind' = kind /\ clock \in [read : BOOLEAN, since : 0 .. MaxInterval]
    BY DEF run_strategy, LoopInv
  <1>3. ASSUME NEW action, execute(action), action.orders \in Orders
        PROVE  \E os : Acts(os)
    <2>1. PICK os : os = Passing(action.orders, 1) \o Passing(action.orders, 2)
      BY ZenonT(30)
    <2>2. send_new_orders(os)
      BY <1>3, <2>1 DEF execute
    <2>3. Acts(os)
      BY <1>3, <2>1, <2>2, SentOrders, ZenonT(30) DEF Acts
    <2> QED
      BY <2>3
  <1>4. CASE ~MayTrade
    <2>1. UNCHANGED <<strategy, clock, session>>
      BY <1>4 DEF run_strategy
    <2> QED
      BY <1>1, <1>2, <2>1 DEF StrategyInv, Recorded
  <1>5. CASE MayTrade /\ kind = "MarketMaker"
    <2>1. run_market_maker
      BY <1>5 DEF run_strategy, run_liquidity_taker
    <2>2. PICK action \in mm_on_features(strategy, features) : execute(action)
      BY <2>1 DEF run_market_maker
    <2>3. /\ action.strategy \in Makers /\ action.strategy.current_position = strategy.current_position
          /\ action.orders \in Orders
      BY <1>5, <2>2, MakerActs DEF StrategyInv, MarketInv
    <2>4. strategy' = action.strategy /\ clock' = clock
      BY <2>1, <2>2 DEF execute, run_market_maker
    <2>5. \E os : Acts(os)
      BY <1>3, <2>2, <2>3
    <2> QED
      BY <1>1, <1>2, <1>5, <2>3, <2>4, <2>5 DEF StrategyInv, Recorded
  <1>6. CASE MayTrade /\ kind = "LiquidityTaker"
    <2>1. run_liquidity_taker
      BY <1>6 DEF run_strategy, run_market_maker
    <2>2. PICK now_is_zero \in {FALSE, ~clock.read} :
             \E action \in lt_on_features(strategy, features, clock.since, now_is_zero, bbo) :
                /\ execute(action)
                /\ clock' = [read |-> TRUE, since |-> IF action.orders = <<>> THEN clock.since ELSE 0]
      BY <2>1, Zenon DEF run_liquidity_taker
    <2>3. PICK action \in lt_on_features(strategy, features, clock.since, now_is_zero, bbo) :
             /\ execute(action)
             /\ clock' = [read |-> TRUE, since |-> IF action.orders = <<>> THEN clock.since ELSE 0]
      BY <2>2, Zenon
    <2>4. now_is_zero \in BOOLEAN
      BY Zenon
    <2>5. /\ action.strategy \in Takers /\ action.strategy.current_position = strategy.current_position
          /\ action.orders \in Orders
          /\ (action.strategy = strategy /\ action.orders = <<>>) \/ can_send_order(strategy, clock.since)
      <3>1. strategy \in Takers /\ features \in FeatureValues /\ bbo \in Quotes
        BY <1>6, Zenon DEF StrategyInv, MarketInv
      <3>2. action \in lt_on_features(strategy, features, clock.since, now_is_zero, bbo)
        BY <2>3, Zenon
      <3> QED
        BY <2>4, <3>1, <3>2, TakerActs
    <2>6. strategy' = action.strategy
      BY <2>3, Zenon DEF execute
    <2>7. \E os : Acts(os)
      BY <1>3, <2>3, <2>5, Zenon
    <2>8. clock'.since \in 0 .. MaxInterval
      <3>1. clock'.since = clock.since \/ clock'.since = 0
        BY <2>3, Zenon
      <3>2. clock.since \in 0 .. MaxInterval
        BY <1>2, Zenon
      <3>3. 0 \in 0 .. MaxInterval
        BY ConstantTypes
      <3> QED
        BY <3>1, <3>2, <3>3, Zenon
    <2>9. clock' \in [read : BOOLEAN, since : 0 .. MaxInterval]
      BY <2>3, <2>8, Zenon
    <2>10. Recorded => can_send_order(strategy, clock.since)
      BY <2>3, <2>5, <2>6, Zenon DEF Recorded
    <2> QED
      BY <1>1, <1>2, <1>6, <2>5, <2>6, <2>7, <2>9, <2>10 DEF StrategyInv
  <1> QED
    BY <1>4, <1>5, <1>6 DEF StrategyInv

-----------------------------------------------------------------------------
\* Head and Tail.
LEMMA TailFacts ==
    ASSUME NEW S, NEW s \in Seq(S), s # <<>>
    PROVE  /\ Tail(s) \in Seq(S) /\ Len(Tail(s)) = Len(s) - 1 /\ Len(s) \in Nat \ {0}
           /\ Head(s) = s[1] /\ s[1] \in S
           /\ \A i \in 1 .. Len(s) - 1 : Tail(s)[i] = s[i + 1]
  OBVIOUS

\* Append.
LEMMA AppendFacts ==
    ASSUME NEW S, NEW s \in Seq(S), NEW e \in S
    PROVE  /\ Append(s, e) \in Seq(S) /\ Len(Append(s, e)) = Len(s) + 1 /\ Len(s) \in Nat
           /\ \A i \in 1 .. Len(s) + 1 : Append(s, e)[i] = IF i = Len(s) + 1 THEN e ELSE s[i]
  OBVIOUS

\* Concatenation.
LEMMA ConcatFacts ==
    ASSUME NEW S, NEW s \in Seq(S), NEW m \in Seq(S)
    PROVE  /\ s \o m \in Seq(S) /\ Len(s \o m) = Len(s) + Len(m) /\ Len(s) \in Nat /\ Len(m) \in Nat
           /\ \A i \in 1 .. Len(s) + Len(m) : (s \o m)[i] = IF i =< Len(s) THEN s[i] ELSE m[i - Len(s)]
  OBVIOUS

\* New requests take the next ids.
LEMMA SubmitWire ==
    ASSUME WireInv, NEW os \in Seq(Sendable), send_new_orders(os)
    PROVE  /\ WireInv' /\ Unserved' = Unserved /\ next_order_id' = next_order_id + Len(os) /\ Len(os) \in Nat
           /\ UNCHANGED <<book, inbox, traded>>
           /\ Len(requests') = Len(requests) + Len(os) /\ Len(requests) \in Nat
           /\ \A i \in 1 .. Len(os) : requests'[Len(requests) + i].order = os[i]
  <1>1. PICK m : m = NewRequests(os)
    OBVIOUS
  <1>2. /\ next_order_id' = next_order_id + Len(os) /\ requests' = requests \o m
        /\ UNCHANGED <<book, inbox, traded>>
    BY <1>1 DEF send_new_orders
  <1>3. /\ next_order_id \in Nat /\ requests \in Seq(Requests) /\ Unserved \in Nat \ {0}
        /\ \A i \in 1 .. Len(requests) : requests[i].order_id = Unserved + i - 1
        /\ Len(requests) \in Nat /\ Len(os) \in Nat /\ DOMAIN os = 1 .. Len(os)
    BY DEF WireInv
  <1>4. m = [i \in 1 .. Len(os) |-> [msg_type |-> "New", order_id |-> next_order_id + i - 1, order |-> os[i]]]
    BY <1>1, <1>3 DEF NewRequests
  <1>5. \A i \in 1 .. Len(os) : /\ m[i] \in Requests /\ m[i].order = os[i]
                                /\ m[i].order_id = next_order_id + i - 1
    <2>1. \A i \in 1 .. Len(os) : os[i] \in Sendable /\ next_order_id + i - 1 \in Nat
      BY <1>3
    <2> QED
      BY <1>4, <2>1 DEF Requests
  <1>6. m \in Seq(Requests) /\ Len(m) = Len(os)
    BY <1>3, <1>4, <1>5
  <1>7. /\ requests' \in Seq(Requests) /\ Len(requests') = Len(requests) + Len(os)
        /\ \A i \in 1 .. Len(requests) + Len(os) :
              requests'[i] = IF i =< Len(requests) THEN requests[i] ELSE m[i - Len(requests)]
    <2>1. /\ requests \o m \in Seq(Requests) /\ Len(requests \o m) = Len(requests) + Len(m)
          /\ \A i \in 1 .. Len(requests) + Len(m) :
                (requests \o m)[i] = IF i =< Len(requests) THEN requests[i] ELSE m[i - Len(requests)]
      BY <1>3, <1>6, ConcatFacts, Zenon
    <2> QED
      BY <1>2, <1>6, <2>1, Zenon
  <1>8. Unserved' = Unserved /\ next_order_id' \in Nat
    <2>1. Len(requests') = Len(requests) + Len(os) /\ next_order_id' = next_order_id + Len(os)
      BY <1>2, <1>7
    <2> QED
      BY <1>3, <2>1 DEF Unserved
  <1>9. next_order_id = Unserved + Len(requests)
    BY <1>3 DEF Unserved
  <1>10. ASSUME NEW i \in 1 .. Len(requests')
         PROVE  requests'[i].order_id = Unserved + i - 1
    <2>1. CASE i =< Len(requests)
      BY <1>3, <1>7, <2>1
    <2>2. CASE ~(i =< Len(requests))
      <3>1. i - Len(requests) \in 1 .. Len(os) /\ requests'[i] = m[i - Len(requests)]
        BY <1>3, <1>7, <2>2
      <3>2. m[i - Len(requests)].order_id = next_order_id + (i - Len(requests)) - 1
        BY <1>5, <3>1, Zenon
      <3> QED
        BY <1>3, <1>9, <3>1, <3>2
    <2> QED
      BY <2>1, <2>2
  <1>11. WireInv'
    BY <1>2, <1>7, <1>8, <1>10, Zenon DEF WireInv
  <1>12. ASSUME NEW i \in 1 .. Len(os)
         PROVE  requests'[Len(requests) + i].order = os[i]
    <2>1. requests'[Len(requests) + i] = m[i]
      <3>1. /\ Len(requests) + i \in 1 .. Len(requests) + Len(os) /\ ~(Len(requests) + i =< Len(requests))
            /\ (Len(requests) + i) - Len(requests) = i
        BY <1>3
      <3> QED
        BY <1>7, <3>1
    <2> QED
      BY <1>5, <2>1
  <1> QED
    BY <1>2, <1>3, <1>7, <1>8, <1>11, <1>12

-----------------------------------------------------------------------------
\* What is on the book is finitely many natural quantities.
FiniteBook ==
    /\ \A id \in DOMAIN book : book[id].qty \in Nat
    /\ \A s : IsFiniteSet(Acknowledged(s)) /\ Acknowledged(s) \subseteq DOMAIN book

\* As every id of it was given out.
LEMMA BookQtys ==
    FiniteSetFacts /\ WireInv => FiniteBook
  <1> SUFFICES ASSUME FiniteSetFacts, WireInv
               PROVE  FiniteBook
    OBVIOUS
  <1>1. \A id \in DOMAIN book : book[id] \in Sendable
    BY DEF WireInv
  <1>2. \A id \in DOMAIN book : book[id].qty \in Nat
    BY <1>1, ConstantTypes DEF Sendable
  <1>3. \A s : Acknowledged(s) \subseteq DOMAIN book
    BY DEF Acknowledged
  <1>4. IsFiniteSet(DOMAIN book)
    BY DEF WireInv
  <1>5. \A s : IsFiniteSet(Acknowledged(s))
    BY <1>3, <1>4, Zenon DEF FiniteSetFacts
  <1> QED
    BY <1>2, <1>3, <1>5 DEF FiniteBook

\* An order that is sent while nothing is in flight: what it risks is at most what
\* the check projected.
LEMMA QuietOrders ==
    ASSUME SumFacts, FiniteSetFacts, Inv, run_strategy, requests = <<>>, inbox = <<>>,
           NEW s \in Sides, \E i \in DOMAIN requests' : requests'[i].order.side = s
    PROVE  RiskReducing(The, s) \/ Exposure(s)' =< limits.max_position
  <1>1. LoopInv /\ MarketInv /\ StrategyInv /\ KeeperInv /\ WireInv /\ PositionsAgree /\ OpenQtyCoversBook
    BY DEF Inv
  <1>2. \E os : Acts(os)
    <2>1. ~UNCHANGED session
      BY DEF session
    <2> QED
      BY <1>1, <2>1, StrategyActs
  <1>3. PICK os : Acts(os)
    BY <1>2
  <1>4. /\ os \in Seq(Sendable) /\ Len(os) \in 0 .. 2 /\ send_new_orders(os)
        /\ \A i \in 1 .. Len(os) : Allowed(os[i])
        /\ \A i, j \in 1 .. Len(os) : i # j => os[i].side # os[j].side
    BY <1>3 DEF Acts
  <1>5. /\ UNCHANGED <<book, inbox, traded>> /\ Len(requests) = 0
        /\ Len(requests') = Len(requests) + Len(os) /\ requests' \in Seq(Requests)
        /\ \A i \in 1 .. Len(os) : requests'[Len(requests) + i].order = os[i]
    BY <1>1, <1>4, SubmitWire, ZenonT(30) DEF WireInv
  <1>6. /\ DOMAIN requests' = 1 .. Len(os)
        /\ \A i \in 1 .. Len(os) : requests'[i].order = os[i]
    BY <1>4, <1>5
  <1>7. PICK k \in 1 .. Len(os) : os[k].side = s
    BY <1>6, Zenon
  <1>8. os[k] \in Sendable /\ os[k].qty \in Nat /\ Allowed(os[k])
    <2>1. os[k] \in Sendable /\ Allowed(os[k])
      BY <1>4, <1>7
    <2>2. os[k].qty \in Nat
      BY <2>1, ConstantTypes DEF Sendable
    <2> QED
      BY <2>1, <2>2
  <1>9. SumFunctionOnSet([i \in DOMAIN requests' |-> requests'[i].order.qty],
                         {i \in DOMAIN requests' : requests'[i].order.side = s}) = os[k].qty
    <2>1. PICK f : f = [i \in DOMAIN requests' |-> requests'[i].order.qty]
      BY Zenon
    <2>2. {i \in DOMAIN requests' : requests'[i].order.side = s} = {k}
      BY <1>4, <1>6, <1>7
    <2>3. f[k] = os[k].qty /\ f[k] \in Int
      BY <1>6, <1>8, <2>1
    <2>4. SumFunctionOnSet(f, {k}) = f[k]
      BY <2>3, Zenon DEF SumFacts, SumOfOne
    <2> QED
      BY <2>1, <2>2, <2>3, <2>4, Zenon
  <1>10. PICK rest : rest = Qtys(book, Acknowledged(s))
    OBVIOUS
  <1>11. Qtys(book, {id \in DOMAIN book : book[id].side = s}) = rest
    <2>1. DOMAIN inbox = {}
      OBVIOUS
    <2>2. Acknowledged(s) = {id \in DOMAIN book : book[id].side = s}
      BY <2>1 DEF Acknowledged
    <2> QED
      BY <1>10, <2>2
  <1>12. rest \in Nat /\ The.open_qty[s] \in Int /\ The.open_qty[s] >= rest
    <2>1. PICK f : f = [id \in DOMAIN book |-> book[id].qty]
      BY ZenonT(30)
    <2>2. rest = SumFunctionOnSet(f, Acknowledged(s))
      BY <1>10, <2>1 DEF Qtys
    <2>3. Naturals(f, Acknowledged(s))
      <3>1. FiniteBook
        BY <1>1, BookQtys
      <3> QED
        BY <2>1, <3>1 DEF FiniteBook, Naturals
    <2>4. rest \in Nat
      BY <2>2, <2>3 DEF SumFacts, SumOfNaturals
    <2> QED
      BY <1>1, <1>10, <2>4, ConstantTypes DEF OpenQtyCoversBook, KeeperInv, Positions
  <1>13. traded[Ticker] = The.position /\ The.position \in Int
    <2>1. \A t : {i \in DOMAIN inbox : inbox[i].side = t} = {}
      OBVIOUS
    <2>2. Executed(BUY) = 0 /\ Executed(SELL) = 0
      BY <2>1 DEF Executed, SumFacts, SumOfNone
    <2>3. The.position \in Int
      BY <1>1 DEF KeeperInv, Positions
    <2>4. The.position + 0 - 0 = traded[Ticker]
      BY <1>1, <2>2, AgreeIs, Zenon
    <2> QED
      BY <2>3, <2>4
  <1>14. Exposure(s)' = s * The.position + rest + os[k].qty
    <2>1. Exposure(s)' = s * traded'[Ticker] + Qtys(book', {id \in DOMAIN book' : book'[id].side = s})
             + SumFunctionOnSet([i \in DOMAIN requests' |-> requests'[i].order.qty],
                                {i \in DOMAIN requests' : requests'[i].order.side = s})
      BY DEF Exposure, Qtys
    <2>2. book' = book /\ traded' = traded
      BY <1>5
    <2> QED
      BY <1>9, <1>11, <1>13, <2>1, <2>2, Zenon
  <1>15. check_order(limits, The, s, os[k].qty) = "Allowed"
    BY <1>7, <1>8, Zenon DEF Allowed
  <1>16. The \in Positions
    BY <1>1, Zenon DEF KeeperInv
  <1>17. RiskReducing(The, s) \/ s * The.position + rest + os[k].qty =< limits.max_position
    BY <1>8, <1>12, <1>15, <1>16, AllowedExposure, Zenon
  <1> QED
    BY <1>14, <1>17, Zenon

-----------------------------------------------------------------------------
\* The client takes a response.
LEMMA ReceiveFacts ==
    ASSUME WireInv, receive
    PROVE  /\ inbox' \in Seq(Responses) /\ Len(inbox') = Len(inbox) - 1 /\ Len(inbox) \in Nat \ {0}
           /\ Head(inbox) = inbox[1] /\ inbox[1] \in Responses /\ inbox[1].client_order_id \in 1 .. Unserved - 1
           /\ \A i \in 1 .. Len(inbox') : inbox'[i] = inbox[i + 1] /\ i + 1 \in 1 .. Len(inbox)
           /\ \A i \in Nat : AcceptedAt(i)' <=> i > 0 /\ AcceptedAt(i + 1)
           /\ UNCHANGED <<next_order_id, requests, book, traded, Unserved>>
  <1>1. /\ inbox \in Seq(Responses) /\ inbox # <<>> /\ inbox' = Tail(inbox)
        /\ UNCHANGED <<next_order_id, requests, book, traded, Unserved>>
    BY DEF WireInv, receive, Unserved
  <1>2. /\ inbox' \in Seq(Responses) /\ Len(inbox') = Len(inbox) - 1 /\ Len(inbox) \in Nat \ {0}
        /\ Head(inbox) = inbox[1] /\ inbox[1] \in Responses
        /\ \A i \in 1 .. Len(inbox) - 1 : inbox'[i] = inbox[i + 1]
    BY <1>1, TailFacts
  <1>3. \A i \in 1 .. Len(inbox') : inbox'[i] = inbox[i + 1] /\ i + 1 \in 1 .. Len(inbox)
    BY <1>2
  <1>4. \A i \in Nat : i \in 1 .. Len(inbox') <=> i > 0 /\ i + 1 \in 1 .. Len(inbox)
    BY <1>2
  <1>5. \A i \in Nat : AcceptedAt(i)' <=> i > 0 /\ AcceptedAt(i + 1)
    BY <1>3, <1>4 DEF AcceptedAt
  <1>6. inbox[1].client_order_id \in 1 .. Unserved - 1
    BY <1>2 DEF WireInv
  <1> QED
    BY <1>1, <1>2, <1>3, <1>5, <1>6

\* The exchange sends a response.
LEMMA RespondFacts ==
    ASSUME WireInv, NEW r \in Responses, Respond(r)
    PROVE  /\ inbox' \in Seq(Responses) /\ Len(inbox') = Len(inbox) + 1 /\ Len(inbox) \in Nat
           /\ \A i \in 1 .. Len(inbox) + 1 : inbox'[i] = IF i = Len(inbox) + 1 THEN r ELSE inbox[i]
           /\ \A i \in 1 .. Len(inbox) : i \in 1 .. Len(inbox) + 1 /\ inbox'[i] = inbox[i]
           /\ \A i \in Nat : AcceptedAt(i)' <=>
                 AcceptedAt(i) \/ (i = Len(inbox) + 1 /\ r.msg_type = "Accepted")
  <1>1. inbox \in Seq(Responses) /\ inbox' = Append(inbox, r)
    BY DEF WireInv, Respond
  <1>2. /\ inbox' \in Seq(Responses) /\ Len(inbox') = Len(inbox) + 1 /\ Len(inbox) \in Nat
        /\ \A i \in 1 .. Len(inbox) + 1 : inbox'[i] = IF i = Len(inbox) + 1 THEN r ELSE inbox[i]
    BY <1>1, AppendFacts
  <1>3. \A i \in 1 .. Len(inbox) : i \in 1 .. Len(inbox) + 1 /\ inbox'[i] = inbox[i]
    BY <1>2
  <1>4. \A i \in Nat : i \in 1 .. Len(inbox') <=> i \in 1 .. Len(inbox) \/ i = Len(inbox) + 1
    BY <1>2
  <1>5. inbox'[Len(inbox) + 1] = r
    BY <1>2
  <1>6. \A i \in Nat : AcceptedAt(i)' <=>
           AcceptedAt(i) \/ (i = Len(inbox) + 1 /\ r.msg_type = "Accepted")
    BY <1>2, <1>3, <1>4, <1>5, Zenon DEF AcceptedAt
  <1> QED
    BY <1>2, <1>3, <1>6

\* The exchange takes the oldest request.
LEMMA ServedFacts ==
    ASSUME WireInv, Served
    PROVE  /\ requests[1] \in Requests /\ Head(requests) = requests[1]
           /\ requests[1].order_id = Unserved /\ requests[1].order \in Sendable
           /\ requests' \in Seq(Requests) /\ Unserved' = Unserved + 1
           /\ \A i \in 1 .. Len(requests') : requests'[i].order_id = Unserved' + i - 1
           /\ UNCHANGED <<next_order_id, traded>> /\ Unserved \in Nat \ {0}
  <1>1. /\ requests \in Seq(Requests) /\ requests # <<>> /\ requests' = Tail(requests)
        /\ next_order_id' = next_order_id /\ traded' = traded
        /\ \A i \in 1 .. Len(requests) : requests[i].order_id = Unserved + i - 1
        /\ next_order_id \in Nat /\ Unserved \in Nat \ {0}
    BY DEF WireInv, Served
  <1>2. /\ requests' \in Seq(Requests) /\ Len(requests') = Len(requests) - 1 /\ Len(requests) \in Nat \ {0}
        /\ Head(requests) = requests[1] /\ requests[1] \in Requests
        /\ \A i \in 1 .. Len(requests) - 1 : requests'[i] = requests[i + 1]
    BY <1>1, TailFacts
  <1>3. Unserved' = Unserved + 1
    <2>1. /\ Len(requests') = Len(requests) - 1 /\ Len(requests) \in Nat
          /\ next_order_id' = next_order_id /\ next_order_id \in Nat
      BY <1>1, <1>2
    <2> QED
      BY <2>1 DEF Unserved
  <1>4. \A i \in 1 .. Len(requests') : requests'[i].order_id = Unserved' + i - 1
    BY <1>1, <1>2, <1>3
  <1>5. requests[1].order_id = Unserved
    BY <1>1, <1>2
  <1>6. requests[1].order \in Sendable
    BY <1>2 DEF Requests
  <1> QED
    BY <1>1, <1>2, <1>3, <1>4, <1>5, <1>6, Zenon

-----------------------------------------------------------------------------
\* What the exchange does to the book and the responses, whichever its step.
\* r is its response, and x the order it is about.
Answers(r, x) ==
    /\ r \in Responses /\ Respond(r) /\ r.client_order_id = x
    /\ x \in 1 .. Unserved' - 1 /\ Unserved =< Unserved' /\ Unserved' \in Nat \ {0}
    /\ next_order_id' = next_order_id
    /\ requests' \in Seq(Requests)
    /\ \A i \in 1 .. Len(requests') : requests'[i].order_id = Unserved' + i - 1
    /\ r.msg_type # "Filled" => r.exec_qty = 0
    /\ r.msg_type = "Accepted" =>
          x = Unserved /\ Unserved' = Unserved + 1 /\ book'[x].side = r.side /\ book'[x].qty =< r.leaves_qty
    /\ DOMAIN book' \subseteq DOMAIN book \cup {x}
    /\ \A y : y # x => (y \in DOMAIN book' <=> y \in DOMAIN book)
    /\ \A y \in DOMAIN book : y # x => book'[y] = book[y]
    /\ x \in DOMAIN book' => book'[x] \in Sendable
    /\ x \in DOMAIN book' /\ r.msg_type # "Accepted" =>
          x \in DOMAIN book /\ book'[x].side = book[x].side /\ book'[x].qty =< book[x].qty
    /\ traded' \in [Tickers -> Int]
    /\ traded'[Ticker] = traded[Ticker] + r.side * r.exec_qty

\* An acceptance puts an order on the book whose id is new to it.
LEMMA AcceptAnswers ==
    ASSUME WireInv, Accept
    PROVE  \E r, x : Answers(r, x)
  <1> DEFINE x == Head(requests).order_id
             o == Head(requests).order
             r == Response("Accepted", x, o, 0, o.qty)
  <1>1. Served /\ Respond(r) /\ book' = [y \in DOMAIN book \cup {x} |-> IF y = x THEN o ELSE book[y]]
    BY Zenon DEF Accept
  <1>2. /\ x = Unserved /\ o \in Sendable /\ requests' \in Seq(Requests) /\ Unserved' = Unserved + 1
        /\ \A i \in 1 .. Len(requests') : requests'[i].order_id = Unserved' + i - 1
        /\ UNCHANGED <<next_order_id, traded>> /\ Unserved \in Nat \ {0}
    BY <1>1, ServedFacts, Zenon
  <1> HIDE DEF x, o
  <1>3. /\ r \in Responses /\ r.client_order_id = x /\ r.msg_type = "Accepted" /\ r.exec_qty = 0
        /\ r.side = o.side /\ r.leaves_qty = o.qty /\ o.qty =< o.qty
    BY <1>2, ConstantTypes DEF Response, Responses, Sendable
  <1>4. x \in DOMAIN book' /\ book'[x] = o
    BY <1>1
  <1>5. /\ DOMAIN book' \subseteq DOMAIN book \cup {x}
        /\ \A y : y # x => (y \in DOMAIN book' <=> y \in DOMAIN book)
        /\ \A y \in DOMAIN book : y # x => book'[y] = book[y]
    BY <1>1
  <1>6. /\ traded' \in [Tickers -> Int] /\ traded' = traded /\ traded[Ticker] \in Int
        /\ r.side * 0 = 0
    BY <1>2, <1>3, NothingExecuted, ConstantTypes, Zenon DEF WireInv, Sendable
  <1>7. traded'[Ticker] = traded[Ticker] + r.side * r.exec_qty
    BY <1>3, <1>6
  <1>8. x \in 1 .. Unserved' - 1 /\ Unserved =< Unserved' /\ Unserved' \in Nat \ {0}
    BY <1>2
  <1> HIDE DEF r
  <1>9. Answers(r, x)
    BY <1>1, <1>2, <1>3, <1>4, <1>5, <1>6, <1>7, <1>8 DEF Answers
  <1> QED
    BY <1>9

\* A refusal leaves the book alone.
LEMMA RefuseAnswers ==
    ASSUME WireInv, Refuse
    PROVE  \E r, x : Answers(r, x)
  <1> DEFINE x == Head(requests).order_id
             o == Head(requests).order
             r == Response("InvalidRequest", x, o, 0, o.qty)
  <1>1. Served /\ Respond(r) /\ book' = book
    BY Zenon DEF Refuse
  <1>2. /\ x = Unserved /\ o \in Sendable /\ requests' \in Seq(Requests) /\ Unserved' = Unserved + 1
        /\ \A i \in 1 .. Len(requests') : requests'[i].order_id = Unserved' + i - 1
        /\ UNCHANGED <<next_order_id, traded>> /\ Unserved \in Nat \ {0}
    BY <1>1, ServedFacts, Zenon
  <1> HIDE DEF x, o
  <1>3. /\ r \in Responses /\ r.client_order_id = x /\ r.msg_type = "InvalidRequest" /\ r.exec_qty = 0
        /\ r.side = o.side
    BY <1>2, ConstantTypes, Zenon DEF Response, Responses, Sendable
  <1>4. x \notin DOMAIN book'
    BY <1>1, <1>2 DEF WireInv
  <1>6. /\ traded' \in [Tickers -> Int] /\ traded' = traded /\ traded[Ticker] \in Int
        /\ r.side * 0 = 0
    BY <1>2, <1>3, NothingExecuted, ConstantTypes, Zenon DEF WireInv, Sendable
  <1>7. traded'[Ticker] = traded[Ticker] + r.side * r.exec_qty
    BY <1>3, <1>6
  <1>8. x \in 1 .. Unserved' - 1 /\ Unserved =< Unserved' /\ Unserved' \in Nat \ {0}
    BY <1>2
  <1> HIDE DEF r
  <1>9. Answers(r, x)
    BY <1>1, <1>2, <1>3, <1>4, <1>6, <1>7, <1>8, Zenon DEF Answers
  <1> QED
    BY <1>9

\* A fill takes from an order, or takes it off the book.
LEMMA FillAnswers ==
    ASSUME WireInv, NEW x, NEW qty, Fill(x, qty)
    PROVE  \E r : Answers(r, x)
  <1> DEFINE o == book[x]
             r == Response("Filled", x, o, qty, o.qty - qty)
  <1>1. /\ x \in DOMAIN book /\ qty \in 1 .. o.qty /\ Respond(r)
        /\ book' = IF qty = o.qty THEN OffBook(x) ELSE [book EXCEPT ![x].qty = @ - qty]
        /\ traded' = [traded EXCEPT ![o.ticker_id] = @ + o.side * qty]
        /\ UNCHANGED <<next_order_id, requests>>
    BY DEF Fill
  <1>2. /\ o \in Sendable /\ x \in 1 .. Unserved - 1 /\ Unserved' = Unserved /\ Unserved \in Nat \ {0}
        /\ requests' \in Seq(Requests)
        /\ \A i \in 1 .. Len(requests') : requests'[i].order_id = Unserved' + i - 1
    BY <1>1 DEF WireInv, Unserved
  <1>3. /\ o.qty \in 0 .. MaxQty /\ qty \in Nat /\ o.qty - qty \in 0 .. MaxQty /\ MaxQty \in Nat
        /\ o.qty - qty =< o.qty /\ o.side \in Sides /\ o.ticker_id = Ticker /\ x \in Nat
    BY <1>1, <1>2, ConstantTypes DEF Sendable
  <1>4. /\ r \in Responses /\ r.client_order_id = x /\ r.msg_type = "Filled" /\ r.exec_qty = qty
        /\ r.side = o.side
    BY <1>2, <1>3 DEF Response, Responses, Sendable
  <1>5. /\ DOMAIN book' \subseteq DOMAIN book \cup {x}
        /\ \A y : y # x => (y \in DOMAIN book' <=> y \in DOMAIN book)
        /\ \A y \in DOMAIN book : y # x => book'[y] = book[y]
    BY <1>1 DEF OffBook
  <1>6. x \in DOMAIN book' => book'[x] = [o EXCEPT !.qty = o.qty - qty]
    BY <1>1 DEF OffBook
  <1>7. LET n == [o EXCEPT !.qty = o.qty - qty]
        IN  n \in Sendable /\ n.side = o.side /\ n.qty =< o.qty
    BY <1>2, <1>3, Zenon DEF Sendable
  <1>8. traded' \in [Tickers -> Int] /\ traded'[Ticker] = traded[Ticker] + r.side * r.exec_qty
    <2>1. o.side * qty \in Int /\ Ticker \in Tickers /\ traded \in [Tickers -> Int]
      BY <1>3, SignedTyped, ConstantTypes, Zenon DEF WireInv
    <2> QED
      BY <1>1, <1>3, <1>4, <2>1
  <1>9. x \in 1 .. Unserved' - 1 /\ Unserved =< Unserved' /\ Unserved' \in Nat \ {0}
    BY <1>2
  <1>10. /\ x \in DOMAIN book' => book'[x] \in Sendable
         /\ x \in DOMAIN book' => book'[x].side = book[x].side /\ book'[x].qty =< book[x].qty
    BY <1>6, <1>7, Zenon
  <1> HIDE DEF r
  <1>11. Answers(r, x)
    BY <1>1, <1>2, <1>4, <1>5, <1>8, <1>9, <1>10, Zenon DEF Answers
  <1> QED
    BY <1>11

\* Every step of the exchange answers.
LEMMA ExchangeAnswers ==
    ASSUME WireInv, Exchange
    PROVE  (\E r, x : Answers(r, x)) /\ UNCHANGED client
  BY AcceptAnswers, RefuseAnswers, FillAnswers DEF Exchange

-----------------------------------------------------------------------------
\* The wire, the acceptances and the pending quantity after an answer.
LEMMA AnswerWire ==
    ASSUME FiniteSetFacts, WireInv, NEW r, NEW x, Answers(r, x)
    PROVE  WireInv'
  <1>1. /\ inbox' \in Seq(Responses) /\ Len(inbox') = Len(inbox) + 1 /\ Len(inbox) \in Nat
        /\ \A i \in 1 .. Len(inbox) + 1 : inbox'[i] = IF i = Len(inbox) + 1 THEN r ELSE inbox[i]
    BY RespondFacts DEF Answers
  <1>2. \A i \in 1 .. Len(inbox') : inbox'[i].client_order_id \in 1 .. Unserved' - 1
    <2> SUFFICES ASSUME NEW i \in 1 .. Len(inbox')
                 PROVE  inbox'[i].client_order_id \in 1 .. Unserved' - 1
      BY Zenon
    <2>1. CASE i = Len(inbox) + 1
      BY <1>1, <2>1 DEF Answers
    <2>2. CASE i # Len(inbox) + 1
      <3>1. i \in 1 .. Len(inbox) /\ inbox'[i] = inbox[i]
        BY <1>1, <2>2
      <3>2. inbox[i].client_order_id \in 1 .. Unserved - 1
        BY <3>1, Zenon DEF WireInv
      <3>3. Unserved \in Nat /\ Unserved' \in Nat /\ Unserved =< Unserved'
        BY DEF Answers, WireInv
      <3> QED
        BY <3>1, <3>2, <3>3
    <2> QED
      BY <2>1, <2>2
  <1>3. IsFiniteSet(DOMAIN book')
    <2>1. IsFiniteSet(DOMAIN book \cup {x}) /\ DOMAIN book' \subseteq DOMAIN book \cup {x}
      BY Zenon DEF WireInv, FiniteSetFacts, Answers
    <2> QED
      BY <2>1, Zenon DEF FiniteSetFacts
  <1>4. \A id \in DOMAIN book' : id \in 1 .. Unserved' - 1 /\ book'[id] \in Sendable
    <2> SUFFICES ASSUME NEW id \in DOMAIN book'
                 PROVE  id \in 1 .. Unserved' - 1 /\ book'[id] \in Sendable
      BY Zenon
    <2>1. CASE id = x
      BY <2>1 DEF Answers
    <2>2. CASE id # x
      <3>1. id \in DOMAIN book /\ book'[id] = book[id]
        BY <2>2, Zenon DEF Answers
      <3>2. id \in 1 .. Unserved - 1 /\ book[id] \in Sendable
        BY <3>1, Zenon DEF WireInv
      <3>3. Unserved \in Nat /\ Unserved' \in Nat /\ Unserved =< Unserved'
        BY Zenon DEF Answers, WireInv
      <3> QED
        BY <3>1, <3>2, <3>3
    <2> QED
      BY <2>1, <2>2
  <1>5. /\ next_order_id' \in Nat /\ Unserved' \in Nat \ {0} /\ requests' \in Seq(Requests)
        /\ \A i \in 1 .. Len(requests') : requests'[i].order_id = Unserved' + i - 1
        /\ traded' \in [Tickers -> Int]
    BY DEF Answers, WireInv
  <1> QED
    BY <1>1, <1>2, <1>3, <1>4, <1>5, Zenon DEF WireInv

\* A new acceptance has the largest id so far.
LEMMA AnswerAccepts ==
    ASSUME WireInv, AcceptsInv, NEW r, NEW x, Answers(r, x)
    PROVE  AcceptsInv'
  <1>1. /\ Len(inbox') = Len(inbox) + 1 /\ Len(inbox) \in Nat
        /\ \A i \in 1 .. Len(inbox) + 1 : inbox'[i] = IF i = Len(inbox) + 1 THEN r ELSE inbox[i]
        /\ \A i \in 1 .. Len(inbox) : i \in 1 .. Len(inbox) + 1 /\ inbox'[i] = inbox[i]
        /\ \A i \in Nat : AcceptedAt(i)' <=>
              AcceptedAt(i) \/ (i = Len(inbox) + 1 /\ r.msg_type = "Accepted")
    BY RespondFacts, Zenon DEF Answers
  <1>2. inbox'[Len(inbox) + 1] = r
    BY <1>1, Longer, Zenon
  <1>3. \A i \in Nat : AcceptedAt(i) => /\ i \in 1 .. Len(inbox) /\ i < Len(inbox) + 1
                                        /\ inbox'[i] = inbox[i]
                                        /\ inbox[i].client_order_id \in 1 .. Unserved - 1
    BY <1>1, Longer, Zenon DEF AcceptedAt, WireInv
  <1>4. ASSUME NEW i \in Nat, NEW j \in Nat, AcceptedAt(i)', AcceptedAt(j)', i < j
        PROVE  inbox'[i].client_order_id < inbox'[j].client_order_id
    <2>1. AcceptedAt(i)
      <3>1. ASSUME i = Len(inbox) + 1 PROVE FALSE
        <4>1. CASE AcceptedAt(j)
          BY <1>1, <1>3, <1>4, <3>1, <4>1, Longer, Zenon
        <4>2. CASE j = Len(inbox) + 1
          <5>1. Len(inbox) + 1 < Len(inbox) + 1 /\ Len(inbox) \in Nat
            BY <1>1, <1>4, <3>1, <4>2, Zenon
          <5> QED
            BY <5>1
        <4> QED
          BY <1>1, <1>4, <4>1, <4>2, Zenon
      <3> QED
        BY <1>1, <1>4, <3>1, Zenon
    <2>2. CASE AcceptedAt(j)
      BY <1>3, <1>4, <2>1, <2>2, Zenon DEF AcceptsInv
    <2>3. CASE j = Len(inbox) + 1 /\ r.msg_type = "Accepted"
      <3>1. inbox'[j].client_order_id = Unserved /\ Unserved \in Nat
        BY <1>2, <2>3, Zenon DEF Answers, WireInv
      <3>2. inbox'[i] = inbox[i] /\ inbox[i].client_order_id \in 1 .. Unserved - 1
        BY <1>3, <2>1, Zenon
      <3> QED
        BY <3>1, <3>2, GivenBelow, Zenon
    <2> QED
      BY <1>1, <1>4, <2>2, <2>3, Zenon
  <1>5. ASSUME NEW i \in Nat, AcceptedAt(i)', inbox'[i].client_order_id \in DOMAIN book'
        PROVE  /\ book'[inbox'[i].client_order_id].side = inbox'[i].side
               /\ book'[inbox'[i].client_order_id].qty =< inbox'[i].leaves_qty
    <2>1. CASE AcceptedAt(i)
      <3> DEFINE y == inbox[i].client_order_id
      <3>1. inbox'[i] = inbox[i] /\ y \in 1 .. Unserved - 1 /\ inbox[i] \in Responses
        <4>1. inbox'[i] = inbox[i] /\ i \in 1 .. Len(inbox)
          BY <1>3, <2>1, Zenon
        <4>2. inbox[i] \in Responses
          <5>1. inbox \in Seq(Responses)
            BY Zenon DEF WireInv
          <5> QED
            BY <4>1, <5>1
        <4> QED
          BY <4>1, <4>2, Zenon DEF WireInv
      <3>2. CASE y # x
        <4>1. y \in DOMAIN book /\ book'[y] = book[y]
          BY <1>5, <3>1, <3>2, ZenonT(30) DEF Answers
        <4>2. book[y].side = inbox[i].side /\ book[y].qty =< inbox[i].leaves_qty
          BY <2>1, <4>1, Zenon DEF AcceptsInv
        <4> QED
          BY <3>1, <4>1, <4>2, Zenon
      <3>3. CASE y = x
        <4>1. r.msg_type # "Accepted"
          <5>1. Unserved \in Nat /\ x \in 1 .. Unserved - 1
            BY <3>1, <3>3, Zenon DEF WireInv
          <5> QED
            BY <5>1, GivenBelow, Zenon DEF Answers
        <4>2. x \in DOMAIN book /\ book'[x].side = book[x].side /\ book'[x].qty =< book[x].qty
          BY <1>5, <3>1, <3>3, <4>1, Zenon DEF Answers
        <4>3. book[x].side = inbox[i].side /\ book[x].qty =< inbox[i].leaves_qty
          BY <2>1, <3>3, <4>2, Zenon DEF AcceptsInv
        <4>4. book[x].qty \in Int /\ book'[x].qty \in Int /\ inbox[i].leaves_qty \in Int
          <5>1. book[x] \in Sendable /\ book'[x] \in Sendable
            BY <1>5, <3>1, <3>3, <4>2, Zenon DEF WireInv, Answers
          <5> QED
            BY <3>1, <5>1, MessageQtys, Zenon
        <4>5. inbox'[i].client_order_id = x
          BY <3>1, <3>3, Zenon
        <4>6. book'[x].qty =< inbox[i].leaves_qty
          BY <4>2, <4>3, <4>4, AtMostTrans, Zenon
        <4> QED
          BY <3>1, <4>2, <4>3, <4>5, <4>6, Zenon
      <3> QED
        BY <3>2, <3>3, Zenon
    <2>2. CASE i = Len(inbox) + 1 /\ r.msg_type = "Accepted"
      <3>1. inbox'[i] = r /\ r.client_order_id = x
        BY <1>2, <2>2, Zenon DEF Answers
      <3> QED
        BY <2>2, <3>1, Zenon DEF Answers
    <2> QED
      BY <1>1, <1>5, <2>1, <2>2, Zenon
  <1>6. ASSUME NEW i \in 1 .. Len(inbox'), inbox'[i].msg_type # "Filled"
        PROVE  inbox'[i].exec_qty = 0
    <2>1. CASE i = Len(inbox) + 1
      BY <1>2, <1>6, <2>1, Zenon DEF Answers
    <2>2. CASE i # Len(inbox) + 1
      <3>1. i \in 1 .. Len(inbox) /\ inbox'[i] = inbox[i]
        <4>1. i \in 1 .. Len(inbox) + 1 /\ Len(inbox) \in Nat
          BY <1>1, <1>6, Zenon
        <4>2. i \in 1 .. Len(inbox)
          BY <2>2, <4>1
        <4> QED
          BY <1>1, <4>2, Zenon
      <3> QED
        BY <1>6, <3>1, Zenon DEF AcceptsInv
    <2> QED
      BY <2>1, <2>2, Zenon
  <1> QED
    BY <1>4, <1>5, <1>6, Zenon DEF AcceptsInv

\* The pending quantity is below what the ids allow, also for a new acceptance.
LEMMA AnswerPending ==
    ASSUME WireInv, KeeperInv, PendingInv, NEW r, NEW x, Answers(r, x), The' = The
    PROVE  PendingInv'
  <1>1. /\ Len(inbox) \in Nat
        /\ \A i \in 1 .. Len(inbox) : inbox'[i] = inbox[i]
        /\ inbox'[Len(inbox) + 1] = r
        /\ \A i \in Nat : AcceptedAt(i)' <=>
              AcceptedAt(i) \/ (i = Len(inbox) + 1 /\ r.msg_type = "Accepted")
    BY RespondFacts DEF Answers
  <1> SUFFICES ASSUME NEW s \in Sides
               PROVE  /\ The.open_qty[s] =< (Unserved' - 1) * MaxQty
                      /\ \A i \in Nat : AcceptedAt(i)' =>
                            The.open_qty[s] =< (inbox'[i].client_order_id - 1) * MaxQty
    BY DEF PendingInv
  <1>2. The.open_qty[s] \in Int
    BY ConstantTypes DEF KeeperInv, Positions
  <1>3. /\ Unserved \in Nat \ {0} /\ Unserved' \in Nat \ {0} /\ Unserved =< Unserved' /\ MaxQty \in Nat
        /\ The.open_qty[s] =< (Unserved - 1) * MaxQty
    BY ConstantTypes, Zenon DEF WireInv, Answers, PendingInv
  <1>4. The.open_qty[s] =< (Unserved' - 1) * MaxQty
    <2>1. \A a, b, m \in Nat : a =< b => a * m =< b * m
      OBVIOUS
    <2>2. (Unserved - 1) * MaxQty =< (Unserved' - 1) * MaxQty
      <3>1. Unserved - 1 \in Nat /\ Unserved' - 1 \in Nat /\ Unserved - 1 =< Unserved' - 1
        <4>1. \A u, v \in Nat \ {0} : u =< v => u - 1 \in Nat /\ v - 1 \in Nat /\ u - 1 =< v - 1
          OBVIOUS
        <4> QED
          BY <1>3, <4>1, Zenon
      <3> QED
        BY <1>3, <2>1, <3>1, Zenon
    <2>3. (Unserved - 1) * MaxQty \in Int /\ (Unserved' - 1) * MaxQty \in Int
      BY <1>3
    <2> QED
      BY <1>2, <1>3, <2>2, <2>3
  <1>5. ASSUME NEW i \in Nat, AcceptedAt(i)'
        PROVE  The.open_qty[s] =< (inbox'[i].client_order_id - 1) * MaxQty
    <2>1. CASE AcceptedAt(i)
      BY <1>1, <2>1 DEF PendingInv, AcceptedAt
    <2>2. CASE i = Len(inbox) + 1 /\ r.msg_type = "Accepted"
      <3>1. inbox'[i].client_order_id = Unserved
        BY <1>1, <2>2, Zenon DEF Answers
      <3> QED
        BY <1>3, <3>1, Zenon
    <2> QED
      BY <1>1, <1>5, <2>1, <2>2, Zenon
  <1> QED
    BY <1>4, <1>5, Zenon

-----------------------------------------------------------------------------
\* A response that is received no longer counts.
LEMMA ExecutedReceived ==
    ASSUME SumFacts, WireInv, receive, NEW s
    PROVE  /\ Executed(s) = Executed(s)' + (IF inbox[1].side = s THEN inbox[1].exec_qty ELSE 0)
           /\ Executed(s)' \in Int
  <1>1. PICK n : n = Len(inbox)
    BY Zenon
  <1>2. /\ inbox' \in Seq(Responses) /\ Len(inbox') = n - 1 /\ n \in Nat \ {0}
        /\ \A i \in 1 .. n - 1 : inbox'[i] = inbox[i + 1] /\ i + 1 \in 1 .. n
        /\ inbox \in Seq(Responses)
    BY <1>1, ReceiveFacts, Zenon DEF WireInv
  <1>3. DOMAIN inbox = 1 .. n /\ DOMAIN inbox' = 1 .. n - 1
    BY <1>1, <1>2
  <1>4. \A i \in 1 .. n : inbox[i].exec_qty \in Int
    <2>1. \A i \in 1 .. n : inbox[i] \in Responses
      BY <1>1, <1>2
    <2> QED
      BY <2>1 DEF Responses
  <1>5. PICK f : f = [i \in DOMAIN inbox |-> inbox[i].exec_qty]
    BY Zenon
  <1>6. PICK f1 : f1 = [i \in DOMAIN inbox' |-> inbox'[i].exec_qty]
    BY Zenon
  <1>7. PICK S : S = {i \in DOMAIN inbox : inbox[i].side = s}
    BY Zenon
  <1>8. PICK S1 : S1 = {i \in DOMAIN inbox' : inbox'[i].side = s}
    BY Zenon
  <1>9. Executed(s) = SumFunctionOnSet(f, S) /\ Executed(s)' = SumFunctionOnSet(f1, S1)
    BY <1>5, <1>6, <1>7, <1>8, Zenon DEF Executed
  <1>10. Tailed(f, S, f1, S1, n)
    <2>1. S \subseteq 1 .. n /\ S1 \subseteq 1 .. n - 1
      BY <1>3, <1>7, <1>8, Zenon
    <2>2. \A i \in 1 .. n - 1 : (i \in S1 <=> i + 1 \in S) /\ f1[i] = f[i + 1]
      BY <1>2, <1>3, <1>5, <1>6, <1>7, <1>8, Zenon
    <2>3. \A i \in S : f[i] \in Int
      BY <1>3, <1>4, <1>5, <1>7
    <2> QED
      BY <2>1, <2>2, <2>3, Zenon DEF Tailed
  <1>11. 1 \in 1 .. n
    BY <1>2
  <1>12. f[1] = inbox[1].exec_qty /\ (1 \in S <=> inbox[1].side = s)
    BY <1>3, <1>5, <1>7, <1>11, Zenon
  <1>13. /\ SumFunctionOnSet(f, S) = SumFunctionOnSet(f1, S1) + (IF 1 \in S THEN f[1] ELSE 0)
         /\ SumFunctionOnSet(f1, S1) \in Int
    BY <1>2, <1>10, Zenon DEF SumFacts, SumTails
  <1> QED
    BY <1>9, <1>12, <1>13

\* A response that is sent does.
LEMMA ExecutedSent ==
    ASSUME SumFacts, WireInv, NEW r \in Responses, Respond(r), NEW s
    PROVE  /\ Executed(s)' = Executed(s) + (IF r.side = s THEN r.exec_qty ELSE 0)
           /\ Executed(s) \in Int
  <1>1. PICK n : n = Len(inbox)
    BY Zenon
  <1>2. /\ inbox' \in Seq(Responses) /\ Len(inbox') = n + 1 /\ n \in Nat
        /\ \A i \in 1 .. n + 1 : inbox'[i] = IF i = n + 1 THEN r ELSE inbox[i]
        /\ \A i \in 1 .. n : i \in 1 .. n + 1 /\ inbox'[i] = inbox[i]
        /\ inbox \in Seq(Responses)
    BY <1>1, RespondFacts, Zenon DEF WireInv
  <1>3. DOMAIN inbox = 1 .. n /\ DOMAIN inbox' = 1 .. n + 1
    BY <1>1, <1>2
  <1>4. r.exec_qty \in Int /\ \A i \in 1 .. n : inbox[i].exec_qty \in Int
    <2>1. \A i \in 1 .. n : inbox[i] \in Responses
      BY <1>1, <1>2
    <2> QED
      BY <2>1 DEF Responses
  <1>5. PICK f : f = [i \in DOMAIN inbox |-> inbox[i].exec_qty]
    BY Zenon
  <1>6. PICK f1 : f1 = [i \in DOMAIN inbox' |-> inbox'[i].exec_qty]
    BY Zenon
  <1>7. PICK S : S = {i \in DOMAIN inbox : inbox[i].side = s}
    BY Zenon
  <1>8. PICK S1 : S1 = {i \in DOMAIN inbox' : inbox'[i].side = s}
    BY Zenon
  <1>9. Executed(s) = SumFunctionOnSet(f, S) /\ Executed(s)' = SumFunctionOnSet(f1, S1)
    BY <1>5, <1>6, <1>7, <1>8, Zenon DEF Executed
  <1>10. n + 1 \in 1 .. n + 1 /\ inbox'[n + 1] = r
    BY <1>2
  <1>11. f1[n + 1] = r.exec_qty /\ (n + 1 \in S1 <=> r.side = s)
    BY <1>3, <1>6, <1>8, <1>10, Zenon
  <1>12. Appended(f, S, f1, S1, n)
    <2>1. S \subseteq 1 .. n /\ S1 \subseteq 1 .. n + 1
      BY <1>3, <1>7, <1>8
    <2>2. \A i \in 1 .. n : (i \in S1 <=> i \in S) /\ f1[i] = f[i] /\ f[i] \in Int
      BY <1>2, <1>3, <1>4, <1>5, <1>6, <1>7, <1>8, Zenon
    <2> QED
      BY <1>4, <1>11, <2>1, <2>2, Zenon DEF Appended
  <1>13. /\ SumFunctionOnSet(f1, S1) = SumFunctionOnSet(f, S) + (IF n + 1 \in S1 THEN f1[n + 1] ELSE 0)
         /\ SumFunctionOnSet(f, S) \in Int
    BY <1>2, <1>12 DEF SumFacts, SumAppends
  <1> QED
    BY <1>9, <1>11, <1>13

\* The exchange's steps keep the agreement: what it trades it also sends.
LEMMA AnswerAgrees ==
    ASSUME SumFacts, WireInv, KeeperInv, PositionsAgree, NEW r, NEW x, Answers(r, x), UNCHANGED client
    PROVE  PositionsAgree'
  <1>1. /\ r \in Responses /\ Respond(r)
        /\ traded'[Ticker] = traded[Ticker] + r.side * r.exec_qty /\ traded[Ticker] \in Int
    BY ConstantTypes, Zenon DEF Answers, WireInv
  <1>2. r.side \in {1, -1} /\ r.exec_qty \in Int
    BY <1>1 DEF Responses, Sides, BUY, SELL
  <1>3. /\ Executed(BUY)' = Executed(BUY) + (IF r.side = BUY THEN r.exec_qty ELSE 0)
        /\ Executed(SELL)' = Executed(SELL) + (IF r.side = SELL THEN r.exec_qty ELSE 0)
        /\ Executed(BUY) \in Int /\ Executed(SELL) \in Int
    BY <1>1, ExecutedSent, Zenon
  <1>4. strategy' = strategy /\ The' = The /\ The.position \in Int
    BY DEF client, The, KeeperInv, Positions
  <1>5. /\ strategy.current_position = The.position
        /\ The.position + Executed(BUY) - Executed(SELL) = traded[Ticker]
    BY AgreeIs, Zenon
  <1>6. (/\ strategy.current_position = The.position
         /\ The.position + Executed(BUY) - Executed(SELL) = traded[Ticker])'
    BY <1>1, <1>2, <1>3, <1>4, <1>5 DEF BUY, SELL
  <1> QED
    BY <1>6, AgreeIs, PTL

-----------------------------------------------------------------------------
\* Acknowledged in terms of AcceptedAt.
Acknowledges ==
    \A s, id : id \in Acknowledged(s) <=>
       /\ id \in DOMAIN book /\ book[id].side = s
       /\ \A i \in Nat : AcceptedAt(i) => inbox[i].client_order_id # id

\* That is what it means for a sequence of responses.
LEMMA AcknowledgedIs ==
    WireInv => Acknowledges
  <1> SUFFICES ASSUME WireInv, NEW s, NEW id
               PROVE  id \in Acknowledged(s) <=>
                         /\ id \in DOMAIN book /\ book[id].side = s
                         /\ \A i \in Nat : AcceptedAt(i) => inbox[i].client_order_id # id
    BY DEF Acknowledges
  <1>1. DOMAIN inbox = 1 .. Len(inbox) /\ Len(inbox) \in Nat
    BY DEF WireInv
  <1> QED
    BY <1>1 DEF Acknowledged, AcceptedAt

\* The exchange's steps do not add to what is acknowledged.
LEMMA AnswerQtys ==
    ASSUME SumFacts, FiniteSetFacts, WireInv, NEW r, NEW x, Answers(r, x), WireInv', NEW s
    PROVE  /\ Qtys(book, Acknowledged(s))' =< Qtys(book, Acknowledged(s))
           /\ Qtys(book, Acknowledged(s))' \in Int /\ Qtys(book, Acknowledged(s)) \in Int
  <1>1. PICK A : A = Acknowledged(s)
    OBVIOUS
  <1>2. PICK A1 : A1 = Acknowledged(s)'
    OBVIOUS
  <1>3. PICK f : f = [id \in DOMAIN book |-> book[id].qty]
    BY Zenon
  <1>4. PICK f1 : f1 = [id \in DOMAIN book' |-> book'[id].qty]
    BY Zenon
  <1>5. /\ Qtys(book, Acknowledged(s)) = SumFunctionOnSet(f, A)
        /\ Qtys(book, Acknowledged(s))' = SumFunctionOnSet(f1, A1)
    BY <1>1, <1>2, <1>3, <1>4, Zenon DEF Qtys
  <1>6. \A id : id \in A <=> /\ id \in DOMAIN book /\ book[id].side = s
                             /\ \A i \in Nat : AcceptedAt(i) => inbox[i].client_order_id # id
    BY <1>1, AcknowledgedIs, Zenon DEF Acknowledges
  <1>7. \A id : id \in A1 <=> /\ id \in DOMAIN book' /\ book'[id].side = s
                              /\ \A i \in Nat : AcceptedAt(i)' => inbox'[i].client_order_id # id
    <2>1. Acknowledges'
      BY AcknowledgedIs, PTL
    <2> QED
      BY <1>2, <2>1 DEF Acknowledges
  <1>8. /\ IsFiniteSet(A) /\ A \subseteq DOMAIN book /\ \A id \in DOMAIN book : book[id].qty \in Nat
    BY <1>1, BookQtys, Zenon DEF FiniteBook
  <1>9. /\ IsFiniteSet(A1) /\ A1 \subseteq DOMAIN book' /\ \A id \in DOMAIN book' : book'[id].qty \in Nat
    <2>1. FiniteBook'
      BY BookQtys, PTL
    <2> QED
      BY <1>2, <2>1 DEF FiniteBook
  <1>a. PICK n : n = Len(inbox) + 1
    BY Zenon
  <1>10. /\ n \in Nat
         /\ \A i \in Nat : AcceptedAt(i) => AcceptedAt(i)' /\ inbox'[i] = inbox[i]
         /\ \A i \in Nat : AcceptedAt(i)' => AcceptedAt(i) \/ (i = n /\ r.msg_type = "Accepted")
         /\ r.msg_type = "Accepted" => AcceptedAt(n)'
         /\ inbox'[n] = r /\ r.client_order_id = x
    <2>1. /\ Len(inbox) \in Nat
          /\ \A i \in 1 .. Len(inbox) + 1 : inbox'[i] = IF i = Len(inbox) + 1 THEN r ELSE inbox[i]
          /\ \A i \in 1 .. Len(inbox) : inbox'[i] = inbox[i]
          /\ \A i \in Nat : AcceptedAt(i)' <=>
                AcceptedAt(i) \/ (i = n /\ r.msg_type = "Accepted")
      BY <1>a, RespondFacts, Zenon DEF Answers
    <2>2. n \in Nat /\ inbox'[n] = r
      BY <1>a, <2>1
    <2>3. \A i \in Nat : AcceptedAt(i) => i \in 1 .. Len(inbox)
      BY Zenon DEF AcceptedAt
    <2>4. r.client_order_id = x
      BY Zenon DEF Answers
    <2> QED
      BY <2>1, <2>2, <2>3, <2>4, Zenon
  <1>11. \A y : y # x => (y \in A1 <=> y \in A) /\ (y \in A => f1[y] = f[y])
    <2> SUFFICES ASSUME NEW y, y # x
                 PROVE  (y \in A1 <=> y \in A) /\ (y \in A => f1[y] = f[y])
      BY Zenon
    <2>1. (y \in DOMAIN book' <=> y \in DOMAIN book) /\ (y \in DOMAIN book => book'[y] = book[y])
      BY Zenon DEF Answers
    <2>2. (\A i \in Nat : AcceptedAt(i)' => inbox'[i].client_order_id # y)
             <=> (\A i \in Nat : AcceptedAt(i) => inbox[i].client_order_id # y)
      BY <1>10, ZenonT(30)
    <2> QED
      BY <1>3, <1>4, <1>6, <1>7, <2>1, <2>2, ZenonT(30)
  <1>12. Differs(f, A, f1, A1, x)
    <2>1. /\ \A y \in A : f[y] \in Int
          /\ \A y \in A1 : f1[y] \in Int
      BY <1>3, <1>4, <1>8, <1>9, NatsAreInts, Zenon
    <2> QED
      BY <1>8, <1>9, <1>11, <2>1, Zenon DEF Differs
  <1>13. /\ SumFunctionOnSet(f1, A1) - (IF x \in A1 THEN f1[x] ELSE 0)
               = SumFunctionOnSet(f, A) - (IF x \in A THEN f[x] ELSE 0)
         /\ SumFunctionOnSet(f, A) \in Int /\ SumFunctionOnSet(f1, A1) \in Int
    BY <1>12, Zenon DEF SumFacts, SumDiffers
  <1>14. x \in A1 => x \in A /\ f1[x] =< f[x]
    <2> SUFFICES ASSUME x \in A1
                 PROVE  x \in A /\ f1[x] =< f[x]
      OBVIOUS
    <2>1. r.msg_type # "Accepted"
      BY <1>7, <1>10, Zenon
    <2>2. x \in DOMAIN book /\ x \in DOMAIN book' /\ book'[x].side = book[x].side /\ book'[x].qty =< book[x].qty
      BY <1>9, <2>1, Zenon DEF Answers
    <2> QED
      BY <1>3, <1>4, <1>6, <1>7, <1>10, <2>2
  <1>15. /\ x \in A => f[x] \in Nat
         /\ x \in A1 => f1[x] \in Nat
    BY <1>3, <1>4, <1>8, <1>9, Zenon
  <1>16. SumFunctionOnSet(f1, A1) =< SumFunctionOnSet(f, A)
    BY <1>13, <1>14, <1>15
  <1> QED
    BY <1>5, <1>13, <1>16

\* A received acceptance adds to it at most what it says.
LEMMA ReceiveQtys ==
    ASSUME SumFacts, FiniteSetFacts, WireInv, AcceptsInv, receive, WireInv', NEW s
    PROVE  /\ Qtys(book, Acknowledged(s))' =< Qtys(book, Acknowledged(s))
                 + (IF inbox[1].msg_type = "Accepted" /\ inbox[1].side = s THEN inbox[1].leaves_qty ELSE 0)
           /\ Qtys(book, Acknowledged(s))' \in Int /\ Qtys(book, Acknowledged(s)) \in Int
  <1>1. PICK A : A = Acknowledged(s)
    OBVIOUS
  <1>2. PICK A1 : A1 = Acknowledged(s)'
    OBVIOUS
  <1>3. PICK f : f = [id \in DOMAIN book |-> book[id].qty]
    BY Zenon
  <1>4. book' = book
    BY ReceiveFacts
  <1>5. /\ Qtys(book, Acknowledged(s)) = SumFunctionOnSet(f, A)
        /\ Qtys(book, Acknowledged(s))' = SumFunctionOnSet(f, A1)
    BY <1>1, <1>2, <1>3, <1>4, Zenon DEF Qtys
  <1>6. \A id : id \in A <=> /\ id \in DOMAIN book /\ book[id].side = s
                             /\ \A i \in Nat : AcceptedAt(i) => inbox[i].client_order_id # id
    BY <1>1, AcknowledgedIs, Zenon DEF Acknowledges
  <1>7. \A id : id \in A1 <=> /\ id \in DOMAIN book /\ book[id].side = s
                              /\ \A i \in Nat : AcceptedAt(i)' => inbox'[i].client_order_id # id
    <2>1. Acknowledges'
      BY AcknowledgedIs, PTL
    <2> QED
      BY <1>2, <1>4, <2>1 DEF Acknowledges
  <1>8. /\ IsFiniteSet(A) /\ A \subseteq DOMAIN book /\ \A id \in DOMAIN book : book[id].qty \in Nat
    BY <1>1, BookQtys, Zenon DEF FiniteBook
  <1>9. IsFiniteSet(A1) /\ A1 \subseteq DOMAIN book
    <2>1. FiniteBook'
      BY BookQtys, PTL
    <2> QED
      BY <1>2, <1>4, <2>1 DEF FiniteBook
  <1>10. PICK x : x = inbox[1].client_order_id
    BY Zenon
  <1>11. /\ \A i \in Nat : AcceptedAt(i)' => AcceptedAt(i + 1) /\ inbox'[i] = inbox[i + 1] /\ i + 1 \in Nat
         /\ \A i \in Nat : AcceptedAt(i) => i = 1 \/ (i - 1 \in Nat /\ AcceptedAt(i - 1)' /\ inbox'[i - 1] = inbox[i])
         /\ AcceptedAt(1) <=> inbox[1].msg_type = "Accepted"
         /\ inbox[1] \in Responses
    <2>1. /\ Len(inbox') = Len(inbox) - 1 /\ Len(inbox) \in Nat \ {0} /\ inbox[1] \in Responses
          /\ \A i \in 1 .. Len(inbox') : inbox'[i] = inbox[i + 1]
          /\ \A i \in Nat : AcceptedAt(i)' <=> i > 0 /\ AcceptedAt(i + 1)
      BY ReceiveFacts, Zenon
    <2>2. \A i \in Nat : AcceptedAt(i) => i \in 1 .. Len(inbox)
      BY DEF AcceptedAt
    <2>3. \A i \in Nat : AcceptedAt(i)' => i \in 1 .. Len(inbox')
      BY DEF AcceptedAt
    <2>4. AcceptedAt(1) <=> inbox[1].msg_type = "Accepted"
      BY <2>1 DEF AcceptedAt
    <2>5. \A i \in Nat : AcceptedAt(i)' => AcceptedAt(i + 1) /\ inbox'[i] = inbox[i + 1] /\ i + 1 \in Nat
      BY <2>1, <2>3
    <2>6. ASSUME NEW i \in Nat, AcceptedAt(i), i # 1
          PROVE  i - 1 \in Nat /\ AcceptedAt(i - 1)' /\ inbox'[i - 1] = inbox[i]
      <3>1. i - 1 \in Nat /\ i - 1 > 0 /\ (i - 1) + 1 = i
        BY <2>1, <2>2, <2>6
      <3>2. AcceptedAt(i - 1)'
        BY <2>1, <2>6, <3>1, Zenon
      <3> QED
        BY <2>5, <3>1, <3>2
    <2> QED
      BY <2>1, <2>4, <2>5, <2>6, Zenon
  <1>12. \A y : y # x => (y \in A1 <=> y \in A)
    BY <1>6, <1>7, <1>10, <1>11
  <1>13. Differs(f, A, f, A1, x)
    BY <1>3, <1>8, <1>9, <1>12 DEF Differs
  <1>14. /\ SumFunctionOnSet(f, A1) - (IF x \in A1 THEN f[x] ELSE 0)
               = SumFunctionOnSet(f, A) - (IF x \in A THEN f[x] ELSE 0)
         /\ SumFunctionOnSet(f, A) \in Int /\ SumFunctionOnSet(f, A1) \in Int
    BY <1>13, Zenon DEF SumFacts, SumDiffers
  <1>15. x \in A1 /\ x \notin A =>
            /\ inbox[1].msg_type = "Accepted" /\ inbox[1].side = s
            /\ f[x] =< inbox[1].leaves_qty
    <2> SUFFICES ASSUME x \in A1, x \notin A
                 PROVE  /\ inbox[1].msg_type = "Accepted" /\ inbox[1].side = s
                        /\ f[x] =< inbox[1].leaves_qty
      BY Zenon
    <2>1. x \in DOMAIN book /\ book[x].side = s /\ f[x] = book[x].qty
      BY <1>3, <1>7, Zenon
    <2>2. AcceptedAt(1)
      BY <1>6, <1>7, <1>11, <2>1
    <2>3. book[x].side = inbox[1].side /\ book[x].qty =< inbox[1].leaves_qty
      BY <1>10, <2>1, <2>2, Zenon DEF AcceptsInv
    <2> QED
      BY <1>11, <2>1, <2>2, <2>3, Zenon
  <1>16. x \in A => x \in A1
    BY <1>6, <1>7, <1>11
  <1>17. /\ x \in A \/ x \in A1 => f[x] \in Nat
         /\ inbox[1].leaves_qty \in Nat
    BY <1>3, <1>8, <1>9, <1>11, ConstantTypes DEF Responses
  <1>18. SumFunctionOnSet(f, A1) =< SumFunctionOnSet(f, A)
            + (IF inbox[1].msg_type = "Accepted" /\ inbox[1].side = s THEN inbox[1].leaves_qty ELSE 0)
    BY <1>14, <1>15, <1>16, <1>17
  <1> QED
    BY <1>5, <1>14, <1>18

-----------------------------------------------------------------------------
\* The wire and the acceptances after a response is received.
LEMMA ReceiveWire ==
    ASSUME WireInv, AcceptsInv, receive
    PROVE  WireInv' /\ AcceptsInv'
  <1>1. /\ inbox' \in Seq(Responses) /\ Len(inbox') = Len(inbox) - 1 /\ Len(inbox) \in Nat \ {0}
        /\ \A i \in 1 .. Len(inbox') : inbox'[i] = inbox[i + 1] /\ i + 1 \in 1 .. Len(inbox)
        /\ \A i \in Nat : AcceptedAt(i)' <=> i > 0 /\ AcceptedAt(i + 1)
        /\ UNCHANGED <<next_order_id, requests, book, traded, Unserved>>
    BY ReceiveFacts
  <1>2. \A i \in 1 .. Len(inbox') : inbox'[i].client_order_id \in 1 .. Unserved' - 1
    BY <1>1, Zenon DEF WireInv
  <1>3. WireInv'
    BY <1>1, <1>2, Zenon DEF WireInv
  <1>4. \A i \in Nat : AcceptedAt(i)' => AcceptedAt(i + 1) /\ inbox'[i] = inbox[i + 1] /\ i + 1 \in Nat
    BY <1>1 DEF AcceptedAt
  <1>5. ASSUME NEW i \in Nat, NEW j \in Nat, AcceptedAt(i)', AcceptedAt(j)', i < j
        PROVE  inbox'[i].client_order_id < inbox'[j].client_order_id
    <2>1. i + 1 < j + 1 /\ i + 1 \in Nat /\ j + 1 \in Nat
      BY <1>5
    <2> QED
      BY <1>4, <1>5, <2>1 DEF AcceptsInv
  <1>6. ASSUME NEW i \in Nat, AcceptedAt(i)', inbox'[i].client_order_id \in DOMAIN book'
        PROVE  /\ book'[inbox'[i].client_order_id].side = inbox'[i].side
               /\ book'[inbox'[i].client_order_id].qty =< inbox'[i].leaves_qty
    BY <1>1, <1>4, <1>6, Zenon DEF AcceptsInv
  <1>7. \A i \in 1 .. Len(inbox') : inbox'[i].msg_type # "Filled" => inbox'[i].exec_qty = 0
    BY <1>1, Zenon DEF AcceptsInv
  <1>8. AcceptsInv'
    BY <1>5, <1>6, <1>7, Zenon DEF AcceptsInv
  <1> QED
    BY <1>3, <1>8, Zenon

\* The position after a response, and that nothing pending wraps.
Heard(r) ==
    /\ DOMAIN positions' \subseteq {Ticker} /\ The' \in Positions
    /\ The'.position = The.position + r.side * r.exec_qty
    /\ \A s \in Sides : The'.open_qty[s]
          = The.open_qty[s] + (IF r.msg_type = "Accepted" /\ r.side = s THEN r.leaves_qty ELSE 0)

\* The keeper adds what a response says.
LEMMA PositionHeard ==
    ASSUME LoopInv, KeeperInv, WireInv, AcceptsInv, PendingInv, on_response
    PROVE  Heard(inbox[1])
  <1>1. PICK r : r = inbox[1]
    BY Zenon
  <1>2. /\ Head(inbox) = r /\ r \in Responses /\ r.client_order_id \in 1 .. Unserved - 1
        /\ Len(inbox) \in Nat \ {0}
    BY <1>1, ReceiveFacts, Zenon DEF on_response
  <1>3. /\ r.side \in Sides /\ r.exec_qty \in Nat /\ r.leaves_qty \in 0 .. MaxQty /\ r.price \in Int
        /\ r.msg_type \in {"Accepted", "Filled", "InvalidRequest"} /\ MaxQty \in Nat
    BY <1>2, ConstantTypes, Zenon DEF Responses
  <1>4. positions' = IF r.msg_type = "InvalidRequest" THEN positions
                     ELSE set_position(positions, Ticker, PositionAfter(r))
    BY <1>2, Zenon DEF on_response
  <1>5. r.msg_type # "Filled" => r.exec_qty = 0
    BY <1>1, <1>2 DEF AcceptsInv
  <1>6. The \in Positions /\ DOMAIN positions \subseteq {Ticker}
    BY DEF KeeperInv
  <1>7. /\ The.position \in Int /\ \A s \in Sides : The.open_qty[s] \in Int
        /\ r.side * 0 = 0
    BY <1>3, <1>6, ConstantTypes DEF Positions, Sides, BUY, SELL
  <1>8. CASE r.msg_type = "InvalidRequest"
    <2>1. The' = The /\ positions' = positions
      BY <1>4, <1>8 DEF The
    <2>2. r.exec_qty = 0 /\ r.msg_type # "Accepted"
      BY <1>5, <1>8
    <2>3. The.position + r.side * r.exec_qty = The.position
      BY <1>7, <2>2
    <2> QED
      BY <1>1, <1>6, <1>7, <2>1, <2>2, <2>3 DEF Heard
  <1>9. CASE r.msg_type = "Filled"
    <2>1. PositionAfter(r) = on_fill(The, r.side, r.exec_qty, r.price)
      BY <1>9, Zenon DEF PositionAfter
    <2>2. The' = on_fill(The, r.side, r.exec_qty, r.price) /\ DOMAIN positions' \subseteq {Ticker}
      BY <1>4, <1>6, <1>9, <2>1, PositionSet
    <2>3. /\ The' \in Positions /\ The'.position = The.position + r.side * r.exec_qty
          /\ The'.open_qty = The.open_qty
      BY <1>3, <1>6, <2>2, FillKept, Zenon
    <2> QED
      BY <1>1, <1>7, <1>9, <2>2, <2>3 DEF Heard
  <1>10. CASE r.msg_type = "Accepted"
    <2>1. PositionAfter(r) = add_open_order(The, r.side, r.leaves_qty)
      BY <1>10, Zenon DEF PositionAfter
    <2>2. The' = add_open_order(The, r.side, r.leaves_qty) /\ DOMAIN positions' \subseteq {Ticker}
      BY <1>4, <1>6, <1>10, <2>1, PositionSet, Zenon
    <2>3. The.open_qty[r.side] + r.leaves_qty < QtyMod
      <3>1. AcceptedAt(1)
        BY <1>1, <1>2, <1>10 DEF AcceptedAt
      <3>2. The.open_qty[r.side] =< (r.client_order_id - 1) * MaxQty
        BY <1>1, <1>3, <3>1, Zenon DEF PendingInv
      <3>3. r.client_order_id \in Nat \ {0} /\ r.client_order_id =< MaxOrders /\ MaxOrders \in Nat
        <4>1. Unserved \in Int /\ Unserved =< next_order_id /\ next_order_id \in 1 .. MaxOrders + 1
          BY DEF WireInv, LoopInv, Unserved
        <4> QED
          BY <1>2, <4>1, ConstantTypes
      <3>4. \A a, b, m \in Nat : a =< b => a * m =< b * m
        OBVIOUS
      <3>5. r.client_order_id * MaxQty =< MaxOrders * MaxQty
        BY <1>3, <3>3, <3>4
      <3>6. (r.client_order_id - 1) * MaxQty + MaxQty = r.client_order_id * MaxQty
        BY <1>3, <3>3
      <3>7. /\ (r.client_order_id - 1) * MaxQty \in Int /\ r.client_order_id * MaxQty \in Int
            /\ MaxOrders * MaxQty \in Int /\ MaxOrders * MaxQty < QtyMod /\ QtyMod \in Nat
        BY <1>3, <3>3, ConstantTypes
      <3> QED
        BY <1>3, <1>7, <3>2, <3>5, <3>6, <3>7
    <2>4. /\ The' \in Positions /\ The'.position = The.position
          /\ \A s \in Sides : The'.open_qty[s] = The.open_qty[s] + (IF s = r.side THEN r.leaves_qty ELSE 0)
      <3>1. r.leaves_qty \in Nat
        BY <1>3
      <3> QED
        BY <1>3, <1>6, <2>2, <2>3, <3>1, PendingKept
    <2>5. The.position + r.side * r.exec_qty = The.position
      BY <1>5, <1>7, <1>10
    <2> QED
      BY <1>1, <1>10, <2>2, <2>4, <2>5, Zenon DEF Heard
  <1> QED
    BY <1>1, <1>3, <1>8, <1>9, <1>10

\* A response that is processed keeps the invariant.
LEMMA ResponseKeeps ==
    ASSUME SumFacts, FiniteSetFacts, Inv, on_response
    PROVE  Inv'
  <1>1. /\ LoopInv /\ MarketInv /\ StrategyInv /\ KeeperInv /\ WireInv /\ AcceptsInv /\ PendingInv
        /\ PositionsAgree /\ OpenQtyCoversBook /\ receive
    BY DEF Inv, on_response
  <1>2. WireInv' /\ AcceptsInv'
    BY <1>1, ReceiveWire
  <1>3. PICK r : r = inbox[1]
    OBVIOUS
  <1>4. Heard(r)
    BY <1>1, <1>3, PositionHeard
  <1>5. /\ Head(inbox) = r /\ r \in Responses /\ r.client_order_id \in 1 .. Unserved - 1
        /\ Len(inbox) \in Nat \ {0} /\ Len(inbox') = Len(inbox) - 1
        /\ \A i \in 1 .. Len(inbox') : inbox'[i] = inbox[i + 1] /\ i + 1 \in 1 .. Len(inbox)
        /\ \A i \in Nat : AcceptedAt(i)' <=> i > 0 /\ AcceptedAt(i + 1)
        /\ UNCHANGED <<next_order_id, requests, book, traded, Unserved>>
    BY <1>1, <1>3, ReceiveFacts, Zenon
  <1>6. KeeperInv'
    BY <1>4, Zenon DEF Heard, KeeperInv
  <1>7. LoopInv' /\ MarketInv'
    BY <1>1, <1>5, Zenon DEF LoopInv, MarketInv, on_response
  <1>8. /\ r.msg_type # "Filled" => r.exec_qty = 0
        /\ r.side \in Sides /\ r.exec_qty \in Nat /\ r.leaves_qty \in 0 .. MaxQty /\ MaxQty \in Nat
    <2>1. 1 \in 1 .. Len(inbox)
      BY <1>5
    <2> QED
      BY <1>1, <1>3, <1>5, <2>1, ConstantTypes, Zenon DEF AcceptsInv, Responses
  <1>9. /\ The.position \in Int /\ The'.position \in Int
        /\ \A s \in Sides : The.open_qty[s] \in Int /\ The'.open_qty[s] \in Int
    BY <1>1, <1>6, ConstantTypes DEF KeeperInv, Positions
  <1>10. StrategyInv' /\ strategy'.current_position = The'.position
    <2>1. strategy.current_position = The.position /\ kind' = kind
      BY <1>1 DEF PositionsAgree, on_response
    <2>2. CASE r.msg_type # "Filled"
      <3>1. strategy' = strategy
        BY <1>5, <2>2, Zenon DEF on_response
      <3>2. The'.position = The.position
        <4>1. r.side * 0 = 0 /\ r.exec_qty = 0
          BY <1>8, <2>2 DEF Sides, BUY, SELL
        <4> QED
          BY <1>4, <1>9, <4>1 DEF Heard
      <3> QED
        BY <1>1, <2>1, <3>1, <3>2, Zenon DEF StrategyInv
    <2>3. CASE r.msg_type = "Filled"
      <3>1. PICK p : p = PositionAfter(r)
        BY Zenon
      <3>2. strategy' = StrategyFilled(p) /\ positions' = set_position(positions, Ticker, p)
        BY <1>5, <2>3, <3>1, Zenon DEF on_response
      <3>3. The' = p /\ p.position \in Int
        BY <1>1, <1>9, <3>2, PositionSet DEF KeeperInv
      <3>4. PICK t : t = [strategy EXCEPT !.current_position = p.position]
        BY Zenon
      <3>5. strategy' = IF kind = "LiquidityTaker" THEN lt_on_fill(t) ELSE t
        BY <3>2, <3>4 DEF StrategyFilled
      <3>6. CASE kind = "MarketMaker"
        BY <1>1, <2>1, <3>3, <3>4, <3>5, <3>6, Zenon DEF StrategyInv, Makers
      <3>7. CASE kind = "LiquidityTaker"
        <4>1. t \in Takers /\ t.current_position = p.position
          BY <1>1, <3>3, <3>4, <3>7 DEF StrategyInv, Takers
        <4>2. PICK e : e = Larger(t.effective_interval_ns \div 2, lt_config.min_order_interval_ns)
          OBVIOUS
        <4>3. e \in lt_config.min_order_interval_ns .. MaxInterval
          BY <4>1, <4>2, ConstantTypes DEF Takers, Larger
        <4>4. strategy' = [t EXCEPT !.effective_interval_ns = e]
          BY <3>5, <3>7, <4>2 DEF lt_on_fill
        <4>5. strategy' \in Takers /\ strategy'.current_position = p.position
          BY <4>1, <4>3, <4>4, Zenon DEF Takers
        <4> QED
          BY <2>1, <3>3, <3>7, <4>5 DEF StrategyInv
      <3> QED
        BY <1>1, <3>6, <3>7 DEF StrategyInv
    <2> QED
      BY <2>2, <2>3
  <1>11. PositionsAgree'
    <2>1. /\ Executed(BUY) = Executed(BUY)' + (IF r.side = BUY THEN r.exec_qty ELSE 0)
          /\ Executed(SELL) = Executed(SELL)' + (IF r.side = SELL THEN r.exec_qty ELSE 0)
          /\ Executed(BUY)' \in Int /\ Executed(SELL)' \in Int
      BY <1>1, <1>3, ExecutedReceived
    <2>2. The.position + Executed(BUY) - Executed(SELL) = traded[Ticker]
      BY <1>1, AgreeIs, Zenon
    <2>3. /\ The'.position = The.position + r.side * r.exec_qty /\ traded' = traded
          /\ r.side \in {1, -1}
      BY <1>4, <1>5, <1>8, Zenon DEF Heard, Sides, BUY, SELL
    <2>4. (/\ strategy.current_position = The.position
           /\ The.position + Executed(BUY) - Executed(SELL) = traded[Ticker])'
      BY <1>8, <1>9, <1>10, <2>1, <2>2, <2>3 DEF BUY, SELL
    <2> QED
      BY <2>4, AgreeIs, PTL
  <1>12. OpenQtyCoversBook'
    <2> SUFFICES ASSUME NEW s \in Sides
                 PROVE  The'.open_qty[s] >= Qtys(book, Acknowledged(s))'
      BY DEF OpenQtyCoversBook
    <2>1. The.open_qty[s] >= Qtys(book, Acknowledged(s))
      BY <1>1, Zenon DEF OpenQtyCoversBook
    <2>2. /\ Qtys(book, Acknowledged(s))' =< Qtys(book, Acknowledged(s))
                + (IF r.msg_type = "Accepted" /\ r.side = s THEN r.leaves_qty ELSE 0)
          /\ Qtys(book, Acknowledged(s))' \in Int /\ Qtys(book, Acknowledged(s)) \in Int
      BY <1>1, <1>2, <1>3, ReceiveQtys, Zenon
    <2>3. The'.open_qty[s] = The.open_qty[s]
             + (IF r.msg_type = "Accepted" /\ r.side = s THEN r.leaves_qty ELSE 0)
      BY <1>4 DEF Heard
    <2>4. PICK d \in Int : d = IF r.msg_type = "Accepted" /\ r.side = s THEN r.leaves_qty ELSE 0
      BY <1>8
    <2>5. /\ Qtys(book, Acknowledged(s))' =< Qtys(book, Acknowledged(s)) + d
          /\ The'.open_qty[s] = The.open_qty[s] + d
      BY <2>2, <2>3, <2>4, Zenon
    <2>6. The.open_qty[s] \in Int
      BY <1>9, Zenon
    <2> QED
      BY <2>1, <2>2, <2>5, <2>6, StillCovers, Zenon
  <1>13. PendingInv'
    <2> SUFFICES ASSUME NEW s \in Sides
                 PROVE  /\ The'.open_qty[s] =< (Unserved' - 1) * MaxQty
                        /\ \A i \in Nat : AcceptedAt(i)' =>
                              The'.open_qty[s] =< (inbox'[i].client_order_id - 1) * MaxQty
      BY DEF PendingInv
    <2>1. /\ The.open_qty[s] =< (Unserved - 1) * MaxQty
          /\ \A i \in Nat : AcceptedAt(i) => The.open_qty[s] =< (inbox[i].client_order_id - 1) * MaxQty
      BY <1>1, Zenon DEF PendingInv
    <2>2. The'.open_qty[s] = The.open_qty[s]
             + (IF r.msg_type = "Accepted" /\ r.side = s THEN r.leaves_qty ELSE 0)
      BY <1>4 DEF Heard
    <2>3. \A i \in Nat : AcceptedAt(i)' => AcceptedAt(i + 1) /\ inbox'[i] = inbox[i + 1] /\ i + 1 \in Nat /\ 1 < i + 1
      BY <1>5 DEF AcceptedAt
    <2>4. CASE r.msg_type # "Accepted"
      <3>1. The'.open_qty[s] = The.open_qty[s]
        BY <1>9, <2>2, <2>4
      <3> QED
        BY <1>5, <2>1, <2>3, <3>1, Zenon
    <2>5. CASE r.msg_type = "Accepted"
      <3>1. AcceptedAt(1)
        BY <1>3, <1>5, <2>5 DEF AcceptedAt
      <3>2. r.client_order_id \in Nat \ {0} /\ Unserved \in Nat /\ r.client_order_id =< Unserved - 1
        BY <1>1, <1>5 DEF WireInv
      <3>3. The.open_qty[s] =< (r.client_order_id - 1) * MaxQty
        BY <1>3, <2>1, <3>1
      <3>4. (r.client_order_id - 1) * MaxQty + MaxQty = r.client_order_id * MaxQty
        BY <1>8, <3>2
      <3>5. (r.client_order_id - 1) * MaxQty \in Int /\ r.client_order_id * MaxQty \in Int
        BY <1>8, <3>2
      <3>6. The'.open_qty[s] =< r.client_order_id * MaxQty
        BY <1>8, <1>9, <2>2, <3>3, <3>4, <3>5
      <3>7. ASSUME NEW k \in Nat, r.client_order_id =< k
            PROVE  The'.open_qty[s] =< k * MaxQty
        <4>1. r.client_order_id * MaxQty =< k * MaxQty /\ k * MaxQty \in Int
          BY <1>8, <3>2, <3>7
        <4> QED
          BY <1>9, <3>5, <3>6, <4>1
      <3>8. Unserved - 1 \in Nat /\ Unserved' = Unserved
        BY <1>5, <3>2
      <3>9. ASSUME NEW i \in Nat, AcceptedAt(i)'
            PROVE  The'.open_qty[s] =< (inbox'[i].client_order_id - 1) * MaxQty
        <4>1. AcceptedAt(i + 1) /\ inbox'[i] = inbox[i + 1] /\ i + 1 \in Nat /\ 1 < i + 1
          BY <2>3, <3>9, Zenon
        <4>2. r.client_order_id < inbox[i + 1].client_order_id
          BY <1>1, <1>3, <3>1, <4>1, Zenon DEF AcceptsInv
        <4>3. inbox[i + 1].client_order_id \in Nat
          BY <1>1, <4>1 DEF WireInv, AcceptedAt
        <4>4. inbox[i + 1].client_order_id - 1 \in Nat /\ r.client_order_id =< inbox[i + 1].client_order_id - 1
          BY <3>2, <4>2, <4>3
        <4> QED
          BY <3>7, <4>1, <4>4
      <3> QED
        BY <3>2, <3>7, <3>8, <3>9, Zenon
    <2> QED
      BY <2>4, <2>5, Zenon
  <1> QED
    BY <1>2, <1>6, <1>7, <1>10, <1>11, <1>12, <1>13, ZenonT(30) DEF Inv

-----------------------------------------------------------------------------
\* The parts of the invariant about the book and the responses depend on nothing
\* else.
LEMMA Untouched ==
    ASSUME UNCHANGED <<book, inbox, traded, Unserved>>, strategy'.current_position = strategy.current_position,
           The'.position = The.position, The'.open_qty = The.open_qty
    PROVE  /\ AcceptsInv => AcceptsInv'
           /\ PendingInv => PendingInv'
           /\ PositionsAgree => PositionsAgree'
           /\ OpenQtyCoversBook => OpenQtyCoversBook'
  <1>1. AcceptsInv => AcceptsInv'
    BY DEF AcceptsInv, AcceptedAt
  <1>2. PendingInv => PendingInv'
    BY Zenon DEF PendingInv, AcceptedAt
  <1>3. PositionsAgree => PositionsAgree'
    <2>1. Executed(BUY)' = Executed(BUY) /\ Executed(SELL)' = Executed(SELL)
      BY Zenon DEF Executed
    <2>2. ASSUME PositionsAgree
          PROVE  (/\ strategy.current_position = The.position
                  /\ The.position + Executed(BUY) - Executed(SELL) = traded[Ticker])'
      BY <2>1, <2>2, AgreeIs
    <2>3. ASSUME PositionsAgree
          PROVE  PositionsAgree'
      BY <2>2, <2>3, AgreeIs, PTL
    <2> QED
      BY <2>3, Zenon
  <1>4. OpenQtyCoversBook => OpenQtyCoversBook'
    BY DEF OpenQtyCoversBook, Qtys, Acknowledged
  <1> QED
    BY <1>1, <1>2, <1>3, <1>4, Zenon

-----------------------------------------------------------------------------
\* A step of the client that sends nothing leaves the wire alone.
LEMMA QuietWire ==
    ASSUME UNCHANGED session
    PROVE  /\ WireInv => WireInv'
           /\ UNCHANGED <<next_order_id, requests, book, inbox, traded, Unserved>>
  BY Zenon DEF session, WireInv, Unserved

\* A run of the strategy keeps the invariant.
LEMMA StrategyKeeps ==
    ASSUME Inv, run_strategy
    PROVE  Inv'
  <1>1. /\ LoopInv /\ MarketInv /\ StrategyInv /\ KeeperInv /\ WireInv /\ AcceptsInv /\ PendingInv
        /\ PositionsAgree /\ OpenQtyCoversBook
    BY Zenon DEF Inv
  <1>2. /\ (\E os : Acts(os)) \/ UNCHANGED session
        /\ StrategyInv' /\ strategy'.current_position = strategy.current_position
        /\ clock' \in [read : BOOLEAN, since : 0 .. MaxInterval]
        /\ DOMAIN positions' \subseteq {Ticker} /\ The' = The
    BY <1>1, StrategyActs, Zenon
  <1>3. /\ WireInv' /\ UNCHANGED <<book, inbox, traded, Unserved>>
        /\ next_order_id' \in next_order_id .. next_order_id + 2
    <2>1. CASE UNCHANGED session
      BY <1>1, <2>1, QuietWire DEF LoopInv
    <2>2. CASE \E os : Acts(os)
      <3>1. PICK os : Acts(os)
        BY <2>2
      <3>2. os \in Seq(Sendable) /\ Len(os) \in 0 .. 2 /\ send_new_orders(os)
        BY <3>1, Zenon DEF Acts
      <3>3. /\ WireInv' /\ UNCHANGED <<book, inbox, traded, Unserved>>
            /\ next_order_id' = next_order_id + Len(os)
        BY <1>1, <3>2, SubmitWire, Zenon
      <3>4. next_order_id \in Nat
        BY <1>1 DEF WireInv
      <3>5. PICK n \in 0 .. 2 : n = Len(os)
        BY <3>2
      <3>6. next_order_id' = next_order_id + n
        BY <3>3, <3>5
      <3>7. next_order_id' \in next_order_id .. next_order_id + 2
        BY <3>4, <3>6
      <3> QED
        BY <3>3, <3>7
    <2> QED
      BY <1>2, <2>1, <2>2, Zenon
  <1>4. KeeperInv' /\ MarketInv'
    BY <1>1, <1>2, Zenon DEF KeeperInv, MarketInv, run_strategy
  <1>5. LoopInv'
    <2>1. /\ pc = "strategy" /\ pc' = "head" /\ running' = running /\ polled' = polled
      BY Zenon DEF run_strategy
    <2>2. next_order_id' \in 1 .. MaxOrders + 1
      BY <1>1, <1>3, <2>1, ConstantTypes DEF LoopInv
    <2> QED
      BY <1>1, <1>2, <2>1, <2>2, ZenonT(30) DEF LoopInv
  <1>6. AcceptsInv' /\ PendingInv' /\ PositionsAgree' /\ OpenQtyCoversBook'
    BY <1>1, <1>2, <1>3, Untouched, Zenon
  <1> QED
    BY <1>2, <1>3, <1>4, <1>5, <1>6 DEF Inv

\* So do the exchange's steps.
LEMMA ExchangeKeeps ==
    ASSUME SumFacts, FiniteSetFacts, Inv, Exchange
    PROVE  Inv'
  <1>1. /\ LoopInv /\ MarketInv /\ StrategyInv /\ KeeperInv /\ WireInv /\ AcceptsInv /\ PendingInv
        /\ PositionsAgree /\ OpenQtyCoversBook
    BY DEF Inv
  <1>2. (\E r, x : Answers(r, x)) /\ UNCHANGED client
    BY <1>1, ExchangeAnswers
  <1>3. PICK r, x : Answers(r, x)
    BY <1>2
  <1>4. The' = The
    BY <1>2 DEF client, The
  <1>5. WireInv' /\ AcceptsInv' /\ PendingInv'
    BY <1>1, <1>3, <1>4, AnswerWire, AnswerAccepts, AnswerPending
  <1>6. PositionsAgree'
    BY <1>1, <1>2, <1>3, AnswerAgrees, Zenon
  <1>7. OpenQtyCoversBook'
    <2> SUFFICES ASSUME NEW s \in Sides
                 PROVE  The'.open_qty[s] >= Qtys(book, Acknowledged(s))'
      BY DEF OpenQtyCoversBook
    <2>1. The.open_qty[s] >= Qtys(book, Acknowledged(s)) /\ The.open_qty[s] \in Int
      BY <1>1, ConstantTypes DEF OpenQtyCoversBook, KeeperInv, Positions
    <2>2. /\ Qtys(book, Acknowledged(s))' =< Qtys(book, Acknowledged(s))
          /\ Qtys(book, Acknowledged(s))' \in Int /\ Qtys(book, Acknowledged(s)) \in Int
      BY <1>1, <1>3, <1>5, AnswerQtys, Zenon
    <2> QED
      BY <1>4, <2>1, <2>2
  <1>8. next_order_id' = next_order_id
    BY <1>3, Zenon DEF Answers
  <1>9. LoopInv' /\ MarketInv' /\ StrategyInv' /\ KeeperInv'
    BY <1>1, <1>2, <1>4, <1>8, Zenon DEF LoopInv, MarketInv, StrategyInv, KeeperInv, client
  <1> QED
    BY <1>5, <1>6, <1>7, <1>9 DEF Inv

\* The client's other steps touch neither the wire nor what is held or pending.
LEMMA LoopKeeps ==
    ASSUME Inv, \/ ctrl_c \/ loop_head \/ update_features \/ responses_done
                \/ (\E u \in Updates : poll_and_process(u)) \/ UNCHANGED vars
    PROVE  Inv'
  <1>1. /\ LoopInv /\ MarketInv /\ StrategyInv /\ KeeperInv /\ WireInv /\ AcceptsInv /\ PendingInv
        /\ PositionsAgree /\ OpenQtyCoversBook
    BY DEF Inv
  <1>2. UNCHANGED <<strategy, kind, session>>
    BY DEF ctrl_c, loop_head, update_features, responses_done, poll_and_process, vars, client
  <1>3. DOMAIN positions' \subseteq {Ticker} /\ The' \in Positions
        /\ The'.position = The.position /\ The'.open_qty = The.open_qty
    <2>1. CASE positions' = positions
      BY <1>1, <2>1, Zenon DEF The, KeeperInv
    <2>2. CASE update_features /\ positions' # positions
      <3>1. /\ positions' = [positions EXCEPT ![Ticker] = update_market_price(@, mid_price(bbo))]
            /\ Ticker \in DOMAIN positions /\ is_valid(bbo)
        BY <2>2, Zenon DEF update_features
      <3>2. mid_price(bbo) \in Int
        <4>1. bbo[BUY].price \in Int /\ bbo[SELL].price \in Int
          BY <1>1 DEF MarketInv, Quotes, Sides
        <4> QED
          BY <4>1 DEF mid_price
      <3>3. The' = update_market_price(The, mid_price(bbo)) /\ DOMAIN positions' \subseteq {Ticker}
        BY <1>1, <3>1 DEF The, get_position, KeeperInv
      <3> QED
        BY <1>1, <3>2, <3>3, MarkKept, Zenon DEF KeeperInv
    <2> QED
      BY <2>1, <2>2 DEF ctrl_c, loop_head, responses_done, poll_and_process, vars, client
  <1>4. WireInv' /\ UNCHANGED <<next_order_id, requests, book, inbox, traded, Unserved>>
    BY <1>1, <1>2, QuietWire
  <1>5. AcceptsInv' /\ PendingInv' /\ PositionsAgree' /\ OpenQtyCoversBook'
    BY <1>1, <1>2, <1>3, <1>4, Untouched, ZenonT(30)
  <1>6. KeeperInv' /\ StrategyInv'
    BY <1>1, <1>2, <1>3 DEF KeeperInv, StrategyInv
  <1>7. MarketInv'
    <2>1. CASE update_features
      BY <1>1, <2>1, FeaturesTyped, Zenon DEF MarketInv, update_features
    <2>2. CASE \E u \in Updates : poll_and_process(u)
      BY <1>1, <2>2, QuotesTyped, Zenon DEF MarketInv, poll_and_process
    <2>3. CASE ctrl_c \/ loop_head \/ responses_done \/ UNCHANGED vars
      BY <1>1, <2>3 DEF MarketInv, ctrl_c, loop_head, responses_done, vars, client
    <2> QED
      BY <2>1, <2>2, <2>3, Zenon
  <1>8. LoopInv'
    <2>1. CASE loop_head
      <3>1. clock' \in [read : BOOLEAN, since : 0 .. MaxInterval]
        <4>1. PICK later \in clock.since .. MaxInterval :
                 clock' = IF kind = "LiquidityTaker" THEN [clock EXCEPT !.since = later] ELSE clock
          BY <2>1, Zenon DEF loop_head
        <4>2. later \in 0 .. MaxInterval
          BY <1>1, ConstantTypes DEF LoopInv
        <4> QED
          BY <1>1, <4>1, <4>2, Zenon DEF LoopInv
      <3>2. /\ polled' = 0 /\ running' = running /\ pc' = IF running THEN "market" ELSE "stopped"
            /\ running => next_order_id + 1 =< MaxOrders
        BY <2>1, Zenon DEF loop_head
      <3>3. 0 \in 0 .. MaxBatch
        BY ConstantTypes
      <3> QED
        BY <1>1, <1>4, <3>1, <3>2, <3>3 DEF LoopInv
    <2>2. CASE \E u \in Updates : poll_and_process(u)
      <3>1. /\ polled' = polled + 1 /\ polled < MaxBatch /\ UNCHANGED <<pc, running, clock>>
        BY <2>2, Zenon DEF poll_and_process
      <3>2. polled' \in 0 .. MaxBatch
        BY <1>1, <3>1, ConstantTypes DEF LoopInv
      <3> QED
        BY <1>1, <1>4, <3>1, <3>2, Zenon DEF LoopInv
    <2>3. CASE ctrl_c \/ update_features \/ responses_done \/ UNCHANGED vars
      BY <1>1, <1>4, <2>3, ZenonT(30) DEF LoopInv, ctrl_c, update_features, responses_done, vars, client
    <2> QED
      BY <2>1, <2>2, <2>3, Zenon
  <1> QED
    BY <1>4, <1>5, <1>6, <1>7, <1>8 DEF Inv

\* Only the strategy adds to an empty queue of requests, while nothing is in flight.
LEMMA OnlyStrategySends ==
    ASSUME [Next]_vars, ~run_strategy, requests = <<>>, inbox = <<>>
    PROVE  requests' = <<>>
  <1>1. CASE ctrl_c \/ loop_head \/ update_features \/ responses_done
    BY <1>1, Zenon DEF ctrl_c, loop_head, update_features, responses_done, session
  <1>2. CASE on_response
    BY <1>2, Zenon DEF on_response, receive
  <1>3. CASE \E u \in Updates : poll_and_process(u)
    BY <1>3 DEF poll_and_process, session
  <1>4. CASE Exchange
    BY <1>4 DEF Exchange, Accept, Refuse, Served, Fill
  <1>5. CASE UNCHANGED vars
    BY <1>5 DEF vars, session
  <1> QED
    BY <1>1, <1>2, <1>3, <1>4, <1>5 DEF Next

\* Only the strategy's own step changes its state once the responses are read.
LEMMA OnlyStrategyRecords ==
    ASSUME [Next]_vars, ~run_strategy, pc = "strategy"
    PROVE  strategy' = strategy /\ clock' = clock
  <1>1. CASE ctrl_c
    BY <1>1 DEF ctrl_c
  <1>2. ~(loop_head \/ update_features \/ responses_done \/ on_response)
    BY DEF loop_head, update_features, responses_done, on_response
  <1>3. ~(\E u \in Updates : poll_and_process(u))
    BY DEF poll_and_process
  <1>4. CASE Exchange
    BY <1>4 DEF Exchange, client
  <1>5. CASE UNCHANGED vars
    BY <1>5 DEF vars, client
  <1> QED
    BY <1>1, <1>2, <1>3, <1>4, <1>5, Zenon DEF Next

-----------------------------------------------------------------------------
INSTANCE SumProofs

\* The inductive invariant holds in every reachable state of the client.
THEOREM TradingClientInvariant == Spec => []Inv
  <1>1. SumFacts /\ FiniteSetFacts
    BY SumFactsHold, FiniteSetFactsHold, Zenon
  <1>2. Init => Inv
    BY <1>1, InitInv, Zenon
  <1>3. Inv /\ [Next]_vars => Inv'
    BY <1>1, ResponseKeeps, StrategyKeeps, ExchangeKeeps, LoopKeeps, Zenon DEF Next
  <1> QED
    BY <1>2, <1>3, PTL DEF Spec

\* The client's state is well typed: the pending quantities stay within u32 and
\* the taker's interval between its minimum and the most it backs off to.
THEOREM TradingClientTypeCorrect == Spec => []TypeOK
  <1>1. Inv => TypeOK
    <2> SUFFICES ASSUME LoopInv, StrategyInv, KeeperInv PROVE TypeOK
      BY DEF Inv
    <2>1. DOMAIN positions \subseteq {Ticker} /\ \A s \in Sides : The.open_qty[s] \in 0 .. QtyMod - 1
      BY DEF KeeperInv, Positions
    <2>2. kind = "LiquidityTaker" =>
             strategy.effective_interval_ns \in lt_config.min_order_interval_ns .. MaxInterval
      BY Zenon DEF StrategyInv, Takers
    <2> QED
      BY <2>1, <2>2, Zenon DEF LoopInv, TypeOK
  <1> QED
    BY <1>1, TradingClientInvariant, PTL

\* The strategy's copy of the position is the keeper's, and with the fills in
\* flight it is what the exchange traded.
THEOREM ClientPositionsAgree == Spec => []PositionsAgree
  <1>1. Inv => PositionsAgree
    BY Zenon DEF Inv
  <1> QED
    BY <1>1, TradingClientInvariant, PTL

\* The pending quantity of the risk check covers the acknowledged orders that rest.
THEOREM ClientOpenQtyCovers == Spec => []OpenQtyCoversBook
  <1>1. Inv => OpenQtyCoversBook
    BY DEF Inv
  <1> QED
    BY <1>1, TradingClientInvariant, PTL

\* Orders the taker records are at least its minimum interval apart.
THEOREM ClientTakerSpaced == Spec => TakerSpaced
  <1>1. Inv /\ [Next]_vars =>
           [Recorded /\ strategy.stamped => clock.since >= lt_config.min_order_interval_ns]_vars
    <2> SUFFICES ASSUME Inv, [Next]_vars, Recorded, strategy.stamped
                 PROVE  clock.since >= lt_config.min_order_interval_ns
      OBVIOUS
    <2>1. run_strategy
      BY OnlyStrategyRecords, Zenon DEF Recorded
    <2>2. can_send_order(strategy, clock.since)
      BY <2>1, StrategyActs, Zenon DEF Inv
    <2>3. clock.since >= strategy.effective_interval_ns
      BY <2>2, Zenon DEF can_send_order
    <2>4. /\ clock.since \in Nat
          /\ strategy.effective_interval_ns \in lt_config.min_order_interval_ns .. MaxInterval
      <3> SUFFICES ASSUME LoopInv, StrategyInv, kind = "LiquidityTaker"
                   PROVE  /\ clock.since \in Nat
                          /\ strategy.effective_interval_ns \in
                                lt_config.min_order_interval_ns .. MaxInterval
        BY DEF Inv, Recorded
      <3> QED
        <4>1. clock.since \in 0 .. MaxInterval
          BY DEF LoopInv
        <4>2. strategy \in Takers
          BY DEF StrategyInv
        <4> QED
          BY <4>1, <4>2, ConstantTypes DEF Takers
    <2> QED
      BY <2>3, <2>4, ConstantTypes
  <1> QED
    BY <1>1, TradingClientInvariant, PTL DEF Spec, TakerSpaced

\* An order the client sends while nothing is in flight reduces its position or
\* leaves it within the limit with all that rests.
THEOREM ClientQuietOrders == Spec => QuietOrdersWithinLimit
  <1>1. Inv /\ [Next]_vars =>
           [requests = <<>> /\ inbox = <<>> =>
              \A s \in Sides : (\E i \in DOMAIN requests' : requests'[i].order.side = s) =>
                 RiskReducing(The, s) \/ Exposure(s)' =< limits.max_position]_vars
    <2> SUFFICES ASSUME Inv, [Next]_vars, requests = <<>>, inbox = <<>>,
                        NEW s \in Sides, \E i \in DOMAIN requests' : requests'[i].order.side = s
                 PROVE  RiskReducing(The, s) \/ Exposure(s)' =< limits.max_position
      OBVIOUS
    <2>1. SumFacts /\ FiniteSetFacts
      BY SumFactsHold, FiniteSetFactsHold, Zenon
    <2>2. requests' # <<>>
      OBVIOUS
    <2>3. run_strategy
      BY <2>2, OnlyStrategySends
    <2> QED
      BY <2>1, <2>3, QuietOrders, Zenon
  <1> QED
    BY <1>1, TradingClientInvariant, PTL DEF Spec, QuietOrdersWithinLimit
=============================================================================
