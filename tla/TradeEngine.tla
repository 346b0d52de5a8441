----------------------------- MODULE TradeEngine -----------------------------
(***************************************************************************)
(* trading/src/trade_engine.rs: the orchestrator of the trading client.    *)
(* Its caller hands it strategy actions, order requests, limits, market    *)
(* updates and the exchange's responses; its two callbacks are the order   *)
(* gateway of Session.  A Quote submits its bid and then its ask, so an    *)
(* action leaves orders to submit in todo; run_cycle is one step per       *)
(* event, with the budget of max_events_per_cycle in cycle.                *)
(* Left out: stats, sent_time, and the ids made up without a callback.     *)
(***************************************************************************)
EXTENDS Risk, Features, Session, FiniteSets

CONSTANTS max_events_per_cycle,
          enable_risk_checks,
          Limits,            \* the limits its user may set: [ticker_id, limits]
          Orders,            \* the orders its strategies may ask for
          Updates,           \* the market updates it may receive
          Bbos,              \* the BBOs its user may set: [ticker_id, bbo]
          MaxCalls           \* bound: orders, updates and other calls of a behaviour

ASSUME TradeEngineAssumption ==
    /\ max_events_per_cycle \in Nat /\ enable_risk_checks \in BOOLEAN /\ MaxCalls \in Nat
    /\ Limits \subseteq [ticker_id : Tickers, limits : RiskLimits]
    /\ Orders \subseteq [ticker_id : Tickers, side : Sides, price : Nat, qty : Nat]
    /\ \A u \in Updates : u.ticker_id \in Tickers /\ u.price \in Nat
    /\ Bbos \subseteq [ticker_id : Tickers, bbo : [Sides -> [price : Nat, qty : Nat]]]

\* The orders of a behaviour do not come to 2^32 together.
ASSUME QuantitiesFit ==
    \E m \in 0 .. QtyMod - 1 : MaxCalls * m < QtyMod /\ \A o \in Orders : o.qty =< m

VARIABLES running,
          cycle,             \* the part of run_cycle it is in, and its budget
          todo,              \* orders of the current call still to be submitted
          pending_orders,    \* order id -> TrackedOrder, its qty is leaves_qty
          open_order_count,  \* ticker -> count, 0 where the map has no entry
          positions, total_pnl,      \* PositionKeeper
          limits,                    \* RiskManager
          bbo_state, features,
          calls,             \* calls so far, bounded
          forgot,            \* history: a reset has happened
          ledger             \* history: ticker -> net cost of the fills, and the
                             \* remainders that averaging may have dropped

keeper == <<positions, total_pnl>>
market == <<bbo_state, features>>
engine == <<running, cycle, todo, pending_orders, open_order_count, keeper, limits, market,
            calls, forgot, ledger>>
vars == <<engine, session>>

Idle == [at |-> "idle", left |-> 0]

Init ==
    /\ running = FALSE /\ cycle = Idle /\ todo = <<>>
    /\ pending_orders = [id \in {} |-> 0]
    /\ open_order_count = [t \in Tickers |-> 0]
    /\ positions = [t \in {} |-> NewPosition] /\ total_pnl = 0
    /\ limits = [t \in {} |-> DefaultLimits]
    /\ bbo_state = [t \in Tickers |-> NewBBO]
    /\ features = [t \in Tickers |-> NewFeatures]
    /\ calls = 0 /\ forgot = FALSE
    /\ ledger = [t \in Tickers |-> [cost |-> 0, over |-> 0, under |-> 0]]
    /\ SessionInit

\* No call of the engine's user is in progress.
Free == cycle = Idle /\ todo = <<>>

Call(n) == calls + n =< MaxCalls /\ calls' = calls + n

-----------------------------------------------------------------------------
orders == <<todo, pending_orders, open_order_count>>
history == <<forgot, ledger>>

start == /\ Free /\ running' = TRUE
         /\ UNCHANGED <<cycle, orders, keeper, limits, market, calls, history, session>>

stop == /\ Free /\ Call(1) /\ running' = FALSE
        /\ UNCHANGED <<cycle, orders, keeper, limits, market, history, session>>

set_limits(t, lim) ==
    /\ Free /\ Call(1)
    /\ limits' = [x \in DOMAIN limits \cup {t} |-> IF x = t THEN lim ELSE limits[x]]
    /\ UNCHANGED <<running, cycle, orders, keeper, market, history, session>>

remove_limits(t) ==
    /\ Free /\ Call(1)
    /\ limits' = [x \in DOMAIN limits \ {t} |-> limits[x]]
    /\ UNCHANGED <<running, cycle, orders, keeper, market, history, session>>

-----------------------------------------------------------------------------
check_order_risk(o) ==
    IF ~enable_risk_checks THEN "Allowed"
    ELSE check_order_with_open_orders(get_limits(limits, o.ticker_id),
            get_position(positions, o.ticker_id), o.side, o.qty, open_order_count[o.ticker_id])

\* An action of a strategy: a Quote of up to two orders, or a Take of one.
process_strategy_action(action) ==
    /\ Free /\ Call(Len(action)) /\ todo' = action
    /\ UNCHANGED <<running, cycle, pending_orders, open_order_count, keeper, limits, market,
                   history, session>>

Track(ps, id, o) == [x \in DOMAIN ps \cup {id} |-> IF x = id THEN o ELSE ps[x]]

submit_order ==
    /\ todo # <<>> /\ todo' = Tail(todo)
    /\ LET o == Head(todo)
       IN  \/ /\ check_order_risk(o) # "Allowed"
              /\ UNCHANGED <<pending_orders, open_order_count, positions, session>>
           \/ /\ check_order_risk(o) = "Allowed"
              /\ send_new_orders(<<o>>)
              /\ pending_orders' = Track(pending_orders, next_order_id, o)
              /\ open_order_count' = [open_order_count EXCEPT ![o.ticker_id] = @ + 1]
              /\ positions' = set_position(positions, o.ticker_id,
                    add_open_order(get_position(positions, o.ticker_id), o.side, o.qty))
    /\ UNCHANGED <<running, cycle, total_pnl, limits, market, calls, history>>

\* At most one cancel per tracked order: ids is a sequence of orders.
Cancels(ids) == [i \in DOMAIN ids |-> CancelRequest(ids[i], pending_orders[ids[i]])]

cancel_order(id) ==
    /\ Free /\ id \in DOMAIN pending_orders
    /\ send_cancels(Cancels(<<id>>))
    /\ UNCHANGED engine

OrdersOf(t) == {id \in DOMAIN pending_orders : pending_orders[id].ticker_id = t}

\* Also CancelAll of a strategy.  The HashMap is walked in any order.
cancel_all_orders(t) ==
    /\ Free
    /\ LET all == OrdersOf(t)
       IN  \E ids \in Bijection(1 .. Cardinality(all), all) : send_cancels(Cancels(ids))
    /\ UNCHANGED engine

-----------------------------------------------------------------------------
\* run_cycle: nothing unless running; responses until the budget is spent or
\* no more have arrived, then updates with what is left of the budget.  Its
\* first event starts a cycle (one without events changes nothing).
CycleEvent(part, after) ==
    LET left == IF cycle = Idle THEN max_events_per_cycle ELSE cycle.left
    IN  /\ IF cycle = Idle THEN Free /\ running ELSE cycle.at \in after
        /\ left > 0
        /\ cycle' = IF left = 1 THEN Idle ELSE [at |-> part, left |-> left - 1]

run_cycle_ends ==
    /\ cycle # Idle /\ cycle' = Idle
    /\ UNCHANGED <<running, orders, keeper, limits, market, calls, history, session>>

\* Mutant: the order stays in the map.
UntrackNone(ps, id) == ps

Untrack(ps, id) == [x \in DOMAIN ps \ {id} |-> ps[x]]

\* Mutant: the count is left as it was.
CountKept(t) == UNCHANGED open_order_count

\* One order of the ticker less; the count stops at 0.
CountDown(t) == open_order_count' = [open_order_count EXCEPT ![t] = saturating_sub(@, 1)]

\* The history of a fill: its cost, and what averaging may lose.
Booked(l, p, signed_qty, price) ==
    LET dropped == IF p.position = 0 \/ Opposite(p.position, signed_qty) THEN 0
                   ELSE Abs(p.position + signed_qty) - 1
    IN  [cost |-> l.cost + signed_qty * price,
         over |-> l.over + IF p.position > 0 THEN dropped ELSE 0,
         under |-> l.under + IF p.position < 0 THEN dropped ELSE 0]

accepted(r) ==
    /\ r.msg_type = "Accepted"
    /\ UNCHANGED <<pending_orders, open_order_count, keeper, ledger>>

\* Mutant: leaves_qty is not updated.
LeavesKept(o, r) == o

Leaves(o, r) == [o EXCEPT !.qty = r.leaves_qty]

\* Mutant: an order that is filled is removed before its fill is applied.
FilledPositionLate(p, side, r) ==
    IF r.leaves_qty = 0 THEN remove_open_order(p, side, r.exec_qty)
    ELSE remove_open_order(on_fill(p, side, r.exec_qty, r.price), side, r.exec_qty)

\* Mutant: the filled part stays in the pending quantity.
FilledPositionOnly(p, side, r) == on_fill(p, side, r.exec_qty, r.price)

\* The position after a fill of a tracked order.
FilledPosition(p, side, r) ==
    remove_open_order(on_fill(p, side, r.exec_qty, r.price), side, r.exec_qty)

filled(r) ==
    LET id == r.client_order_id
        t == r.ticker_id
        p == get_position(positions, t)
    IN  /\ r.msg_type = "Filled"
        /\ IF id \in DOMAIN pending_orders
           THEN LET side == pending_orders[id].side
                IN  /\ positions' = set_position(positions, t, FilledPosition(p, side, r))
                    /\ total_pnl' = recalculate_total_pnl(positions')
                    /\ ledger' = [ledger EXCEPT ![t] = Booked(@, p, side * r.exec_qty, r.price)]
           ELSE UNCHANGED <<keeper, ledger>>
        /\ IF r.leaves_qty = 0
           THEN pending_orders' = Untrack(pending_orders, id) /\ CountDown(t)
           ELSE /\ pending_orders' = [x \in DOMAIN pending_orders |->
                      IF x = id THEN Leaves(pending_orders[x], r) ELSE pending_orders[x]]
                /\ UNCHANGED open_order_count

\* Canceled, CancelRejected and InvalidRequest end the tracking of the order.
ended(r) ==
    LET id == r.client_order_id
        t == r.ticker_id
    IN  /\ r.msg_type \in {"Canceled", "CancelRejected", "InvalidRequest"}
        /\ IF id \in DOMAIN pending_orders
           THEN /\ pending_orders' = Untrack(pending_orders, id)
                /\ positions' = set_position(positions, t,
                      remove_open_order(get_position(positions, t), pending_orders[id].side,
                                        pending_orders[id].qty))
                /\ CountDown(t)
           ELSE UNCHANGED <<pending_orders, open_order_count, positions>>
        /\ UNCHANGED <<total_pnl, ledger>>

on_response ==
    /\ CycleEvent("responses", {"responses"}) /\ receive
    /\ LET r == Head(inbox) IN accepted(r) \/ filled(r) \/ ended(r)
    /\ UNCHANGED <<running, todo, limits, market, calls, forgot>>

-----------------------------------------------------------------------------
\* PositionKeeper::update_market_price: only a position that exists is marked.
Mark(t, price) ==
    IF t \in DOMAIN positions
    THEN /\ positions' = [positions EXCEPT ![t] = update_market_price(@, price)]
         /\ total_pnl' = recalculate_total_pnl(positions')
    ELSE UNCHANGED keeper

SetBBO(t, b) ==
    /\ Call(1)
    /\ bbo_state' = [bbo_state EXCEPT ![t] = b]
    /\ \E f \in on_bbo_update(features[t], b) : features' = [features EXCEPT ![t] = f]

on_market_update(u) ==
    /\ CycleEvent("market", {"responses", "market"})
    /\ SetBBO(u.ticker_id, process_update(bbo_state[u.ticker_id], u))
    /\ IF u.msg_type = "Trade" THEN Mark(u.ticker_id, u.price) ELSE UNCHANGED keeper
    /\ UNCHANGED <<running, orders, limits, history, session>>

update_bbo(t, b) ==
    /\ Free /\ SetBBO(t, b)
    /\ IF is_valid(b) THEN Mark(t, mid_price(b)) ELSE UNCHANGED keeper
    /\ UNCHANGED <<running, cycle, orders, limits, history, session>>

\* The positions and the limits stay.
reset ==
    /\ Free /\ Call(1)
    /\ pending_orders' = [id \in {} |-> 0]
    /\ open_order_count' = [t \in Tickers |-> 0]
    /\ bbo_state' = [t \in Tickers |-> NewBBO]
    /\ features' = [t \in Tickers |-> NewFeatures]
    /\ forgot' = TRUE
    /\ UNCHANGED <<running, cycle, todo, keeper, limits, ledger, session>>

-----------------------------------------------------------------------------
Quotes == {q \in Orders \X Orders : /\ q[1].ticker_id = q[2].ticker_id
                                   /\ q[1].side = BUY /\ q[2].side = SELL}

Exchange ==
    /\ \/ Accept \/ Refuse \/ ServeCancel
       \/ \E id \in DOMAIN book : \E qty \in 1 .. book[id].qty : Fill(id, qty)
    /\ UNCHANGED engine

Next ==
    \/ start \/ stop \/ reset \/ run_cycle_ends \/ submit_order \/ on_response \/ Exchange
    \/ \E l \in Limits : set_limits(l.ticker_id, l.limits) \/ remove_limits(l.ticker_id)
    \/ \E b \in Bbos : update_bbo(b.ticker_id, b.bbo)
    \/ \E t \in Tickers : cancel_all_orders(t)
    \/ \E id \in DOMAIN pending_orders : cancel_order(id)
    \/ \E action \in Quotes \cup {<<o>> : o \in Orders} : process_strategy_action(action)
    \/ \E u \in Updates : on_market_update(u)

Spec == Init /\ [][Next]_vars

-----------------------------------------------------------------------------
\* Type invariant of the engine.
TypeOK ==
    /\ running \in BOOLEAN /\ forgot \in BOOLEAN
    /\ cycle \in [at : {"idle", "responses", "market"}, left : 0 .. max_events_per_cycle]
    /\ todo \in Seq(Orders)
    /\ \A id \in DOMAIN pending_orders :
          pending_orders[id] \in [ticker_id : Tickers, side : Sides, price : Nat, qty : Nat]
    /\ open_order_count \in [Tickers -> Nat]
    /\ DOMAIN positions \subseteq Tickers
    /\ \A t \in DOMAIN positions : \A s \in Sides : positions[t].open_qty[s] \in 0 .. QtyMod - 1
    /\ DOMAIN limits \subseteq Tickers

\* The engine tracks only orders whose end it has not seen; until a reset it
\* tracks all of them, whatever fills, cancels and refusals cross on the way.
TracksLiveOrders ==
    /\ \A id \in DOMAIN pending_orders : Live(id)
    /\ ~forgot => \A id \in 1 .. next_order_id - 1 : Live(id) => id \in DOMAIN pending_orders

\* leaves_qty of a tracked order is what the exchange has left of it and the
\* fills on their way: every fill is applied once, before and after a reset.
LeavesMatchExchange ==
    \A id \in DOMAIN pending_orders :
       pending_orders[id].qty =
          Resting(id) + InFlight(LAMBDA r : r.client_order_id = id /\ r.msg_type = "Filled")

\* Until a reset, the position and the fills on their way are what the exchange
\* traded for this client.
PositionMatchesExchange ==
    ~forgot => \A t \in Tickers :
       get_position(positions, t).position
       + InFlight(LAMBDA r : r.ticker_id = t /\ r.side = BUY)
       - InFlight(LAMBDA r : r.ticker_id = t /\ r.side = SELL) = traded[t]

\* The pending quantity of a side covers the tracked orders, and is exactly
\* theirs until a reset: so the exposure the risk check sees is never too small.
Pending(t, s) ==
    SumFunctionOnSet([id \in DOMAIN pending_orders |-> pending_orders[id].qty],
                     {id \in OrdersOf(t) : pending_orders[id].side = s})

OpenQtyCoversOrders ==
    \A t \in Tickers, s \in Sides :
       LET open == get_position(positions, t).open_qty[s]
       IN  open >= Pending(t, s) /\ (~forgot => open = Pending(t, s))

\* "Open order count per ticker": never more than the tracked orders, and equal
\* to them until a reset.
CountsTrackedOrders ==
    \A t \in Tickers :
       /\ open_order_count[t] =< Cardinality(OrdersOf(t))
       /\ ~forgot => open_order_count[t] = Cardinality(OrdersOf(t))

\* The limits in force at any time: those set for the ticker and the default.
AllLimits(t) == {DefaultLimits} \cup {l.limits : l \in {x \in Limits : x.ticker_id = t}}

\* "Maximum absolute position (long or short)": until a reset, the position with
\* all of a side's pending orders stays within the largest max_position, or, as
\* orders against the position are exempt, one short of what the largest number
\* of the largest orders comes to.
ExposureBounded ==
    enable_risk_checks /\ ~forgot =>
    \A t \in DOMAIN positions : \E a, b, c \in AllLimits(t) :
       LET Within(exposure) == \/ exposure =< a.max_position
                               \/ exposure < b.max_open_orders * c.max_order_qty
       IN  Within(max_long_exposure(positions[t])) /\ Within(-max_short_exposure(positions[t]))

\* Averaging loses less than a cent per unit held at each fill that adds to a
\* position: profit and open cost differ from the cost of the fills by no more.
PnlAccountsForFills ==
    \A t \in DOMAIN positions :
       LET p == positions[t]
           drift == p.realized_pnl - p.avg_open_price * p.position + ledger[t].cost
       IN  -ledger[t].under =< drift /\ drift =< ledger[t].over
=============================================================================
