---------------------------- MODULE TradingClient ----------------------------
(***************************************************************************)
(* trading/src/main.rs: the client's event loop, which polls market data,  *)
(* then responses, then runs one of the two strategies, against the        *)
(* exchange of Session.  It trades one ticker and keeps the pending        *)
(* quantity itself, from the responses it has read; it sends no cancels.   *)
(* Left out: the counts and the profit it only prints.                     *)
(***************************************************************************)
EXTENDS LiquidityTaker, Risk, Session

CONSTANTS Strategies,        \* the strategies to choose from
          Updates,           \* the market updates it may receive
          MaxBatch,          \* bound: updates of one pass of the loop
          MaxOrders          \* bound: orders of a behaviour

Ticker == mm_config.ticker_id

ASSUME TradingClientAssumption ==
    /\ Strategies \subseteq {"MarketMaker", "LiquidityTaker"}
    /\ MaxBatch \in Nat \ {0} /\ MaxOrders \in Nat
    /\ Ticker \in Tickers /\ mm_config \in MarketMakerConfig /\ lt_config \in LiquidityTakerConfig
    /\ Updates \subseteq [msg_type : {"Add", "Modify", "Snapshot", "Cancel", "Trade", "Clear"},
                          ticker_id : Tickers, side : Sides, price : Nat, qty : Nat]

\* No pending quantity, a u32, wraps: all orders of a behaviour fit it.
ASSUME OrdersFit == MaxOrders * DefaultLimits.max_order_qty < QtyMod

VARIABLES pc,                \* where in the loop the client is
          running,           \* cleared by the Ctrl-C handler
          polled,            \* updates polled in this pass
          bbo, features,
          positions,         \* of the keeper
          kind,              \* the chosen strategy
          strategy,          \* its state
          clock              \* whether now_nanos was called, and the time since
                             \* the taker's last order, up to its longest interval

client == <<pc, running, polled, bbo, features, positions, kind, strategy, clock>>
vars == <<client, session>>

Init ==
    /\ pc = "head" /\ running = TRUE /\ polled = 0
    /\ bbo = NewBBO /\ features = NewFeatures
    /\ positions = [t \in {} |-> NewPosition]
    /\ kind \in Strategies
    /\ strategy = IF kind = "MarketMaker" THEN NewMarketMaker ELSE NewLiquidityTaker
    /\ clock = [read |-> FALSE, since |-> MaxInterval]
    /\ SessionInit

-----------------------------------------------------------------------------
ctrl_c ==
    /\ running /\ running' = FALSE
    /\ UNCHANGED <<pc, polled, bbo, features, positions, kind, strategy, clock, session>>

\* The head of the loop: time has passed, and the flag is read.  The second
\* conjunct of its pass is the bound on orders.
loop_head ==
    /\ pc = "head"
    /\ pc' = IF running THEN "market" ELSE "stopped"
    /\ running => next_order_id + 1 =< MaxOrders
    /\ \E later \in clock.since .. MaxInterval :
          clock' = IF kind = "LiquidityTaker" THEN [clock EXCEPT !.since = later] ELSE clock
    /\ polled' = 0
    /\ UNCHANGED <<running, bbo, features, positions, kind, strategy, session>>

\* The receiver keeps a BBO for every ticker; the client asks for its own only.
poll_and_process(u) ==
    /\ pc = "market" /\ polled < MaxBatch
    /\ polled' = polled + 1
    /\ bbo' = IF u.ticker_id = Ticker THEN process_update(bbo, u) ELSE bbo
    /\ UNCHANGED <<pc, running, features, positions, kind, strategy, clock, session>>

update_features ==
    /\ pc = "market" /\ pc' = "responses"
    /\ IF polled > 0
       THEN /\ features' \in on_bbo_update(features, bbo)
            /\ positions' = IF is_valid(bbo) /\ Ticker \in DOMAIN positions
                            THEN [positions EXCEPT ![Ticker] = update_market_price(@, mid_price(bbo))]
                            ELSE positions
       ELSE UNCHANGED <<features, positions>>
    /\ UNCHANGED <<running, polled, bbo, kind, strategy, clock, session>>

-----------------------------------------------------------------------------
The == get_position(positions, Ticker)

\* Mutant: the strategy is not told of a fill.
StrategyUntold(p) == strategy

\* The strategy after a fill left the position p.
StrategyFilled(p) ==
    LET s == [strategy EXCEPT !.current_position = p.position]
    IN  IF kind = "LiquidityTaker" THEN lt_on_fill(s) ELSE s

\* Mutant: an accepted order is not counted.
PositionUncounted(r) ==
    IF r.msg_type = "Filled" THEN on_fill(The, r.side, r.exec_qty, r.price) ELSE The

\* The position after a response; a fill leaves the pending quantity alone.
PositionAfter(r) ==
    CASE r.msg_type = "Filled" -> on_fill(The, r.side, r.exec_qty, r.price)
      [] r.msg_type = "Accepted" -> add_open_order(The, r.side, r.leaves_qty)
      [] r.msg_type \in {"Canceled", "CancelRejected"} -> remove_open_order(The, r.side, r.leaves_qty)
      [] OTHER -> The

on_response ==
    /\ pc = "responses" /\ receive
    /\ LET r == Head(inbox)
       IN  /\ positions' = IF r.msg_type = "InvalidRequest" THEN positions
                           ELSE set_position(positions, Ticker, PositionAfter(r))
           /\ strategy' = IF r.msg_type = "Filled" THEN StrategyFilled(PositionAfter(r)) ELSE strategy
    /\ UNCHANGED <<pc, running, polled, bbo, features, kind, clock>>

\* poll returns None: what is still in flight has not arrived.
responses_done ==
    /\ pc = "responses" /\ pc' = "strategy"
    /\ UNCHANGED <<running, polled, bbo, features, positions, kind, strategy, clock, session>>

-----------------------------------------------------------------------------
limits == DefaultLimits      \* those of the command line

MayTrade == features_valid(features) /\ check_position(limits, The) = "Allowed"

Allowed(o) == check_order(limits, The, o.side, o.qty) = "Allowed"

\* The i-th order of an action, if there is one and it passes the check.
Passing(orders, i) == IF i \in DOMAIN orders /\ Allowed(orders[i]) THEN <<orders[i]>> ELSE <<>>

\* The action is executed: the bid and the ask of a quote pair, or the order that
\* takes, are each checked against the same position and sent.  The strategy's new
\* state stays even if none is.
execute(action) ==
    /\ strategy' = action.strategy
    /\ send_new_orders(Passing(action.orders, 1) \o Passing(action.orders, 2))

run_market_maker ==
    /\ kind = "MarketMaker"
    /\ \E action \in mm_on_features(strategy, features) : execute(action)
    /\ UNCHANGED clock

\* The first reading of the clock may be 0.
run_liquidity_taker ==
    /\ kind = "LiquidityTaker"
    /\ \E now_is_zero \in {FALSE, ~clock.read} :
       \E action \in lt_on_features(strategy, features, clock.since, now_is_zero, bbo) :
          /\ execute(action)
          /\ clock' = [read |-> TRUE,
                       since |-> IF action.orders = <<>> THEN clock.since ELSE 0]

run_strategy ==
    /\ pc = "strategy" /\ pc' = "head"
    /\ IF MayTrade THEN run_market_maker \/ run_liquidity_taker
       ELSE UNCHANGED <<strategy, clock, session>>
    /\ positions' = IF features_valid(features) THEN set_position(positions, Ticker, The) ELSE positions
    /\ UNCHANGED <<running, polled, bbo, features, kind>>

Exchange ==
    /\ Accept \/ Refuse \/ \E id \in DOMAIN book : \E qty \in 1 .. book[id].qty : Fill(id, qty)
    /\ UNCHANGED client

Next ==
    \/ ctrl_c \/ loop_head \/ update_features \/ on_response \/ responses_done \/ run_strategy
    \/ \E u \in Updates : poll_and_process(u)
    \/ Exchange

Spec == Init /\ [][Next]_vars

-----------------------------------------------------------------------------
\* Type invariant of the client.  The taker's interval stays between its
\* minimum and ten times that.
TypeOK ==
    /\ pc \in {"head", "market", "responses", "strategy", "stopped"}
    /\ running \in BOOLEAN /\ polled \in 0 .. MaxBatch
    /\ DOMAIN positions \subseteq {Ticker}
    /\ \A s \in Sides : The.open_qty[s] \in 0 .. QtyMod - 1
    /\ clock \in [read : BOOLEAN, since : 0 .. MaxInterval]
    /\ kind = "LiquidityTaker" =>
          strategy.effective_interval_ns \in lt_config.min_order_interval_ns .. MaxInterval

\* The strategy's copy of the position is the keeper's at every step of the
\* loop, and with the fills in flight it is what the exchange traded.
PositionsAgree ==
    /\ strategy.current_position = The.position
    /\ The.position + InFlight(LAMBDA r : r.side = BUY)
       - InFlight(LAMBDA r : r.side = SELL) = traded[Ticker]

\* The resting orders of a side whose acceptance the client has read.
Acknowledged(s) ==
    {id \in DOMAIN book : /\ book[id].side = s
                          /\ \A i \in DOMAIN inbox : ~(/\ inbox[i].client_order_id = id
                                                        /\ inbox[i].msg_type = "Accepted")}

Qtys(f, ids) == SumFunctionOnSet([id \in DOMAIN f |-> f[id].qty], ids)

\* The pending quantity the risk check uses covers the acknowledged orders that
\* still rest, although fills come between.
OpenQtyCoversBook == \A s \in Sides : The.open_qty[s] >= Qtys(book, Acknowledged(s))

\* What the client would hold if every order of the side that is in flight or
\* rests were filled, as a distance from 0 on that side.
Exposure(s) ==
    s * traded[Ticker] + Qtys(book, {id \in DOMAIN book : book[id].side = s})
    + SumFunctionOnSet([i \in DOMAIN requests |-> requests[i].order.qty],
                       {i \in DOMAIN requests : requests[i].order.side = s})

\* An order the client sends while nothing is in flight either reduces the
\* position or leaves it within max_position with every order that rests.
QuietOrdersWithinLimit ==
    [][requests = <<>> /\ inbox = <<>> =>
         \A s \in Sides : (\E i \in DOMAIN requests' : requests'[i].order.side = s) =>
            RiskReducing(The, s) \/ Exposure(s)' =< limits.max_position]_vars

\* The taker records an order.
Recorded ==
    /\ kind = "LiquidityTaker" /\ pc = "strategy"
    /\ strategy' # strategy \/ clock'.since # clock.since

\* "Minimum time between orders in nanoseconds (rate limiting)": after an order
\* recorded at a time other than 0 the next one is at least that much later,
\* whatever fills shorten the interval.
TakerSpaced ==
    [][Recorded /\ strategy.stamped => clock.since >= lt_config.min_order_interval_ns]_vars
=============================================================================
