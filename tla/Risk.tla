--------------------------------- MODULE Risk --------------------------------
(***************************************************************************)
(* trading/src/risk.rs: the limits of a ticker and the checks against them.*)
(***************************************************************************)
EXTENDS Position

CONSTANT DefaultLimits

RiskLimits == [max_order_qty : Nat, max_position : Nat, max_loss : Nat, max_open_orders : Nat]

ASSUME RiskAssumption == QtyMod \in Nat \ {0} /\ DefaultLimits \in RiskLimits

\* limits maps the tickers with limits of their own to them.
get_limits(limits, t) == IF t \in DOMAIN limits THEN limits[t] ELSE DefaultLimits

RiskReducing(p, side) == side * p.position < 0

Projected(p, side, qty) ==
    IF side = BUY THEN max_long_exposure(p) + qty ELSE max_short_exposure(p) - qty

\* Mutant: the pending orders are not counted.
check_order_now(lim, p, side, qty) ==
    IF qty > lim.max_order_qty THEN "OrderTooLarge" ELSE
    IF ~RiskReducing(p, side) /\ Abs(p.position + side * qty) > lim.max_position
    THEN "PositionTooLarge" ELSE
    IF total_pnl_of(p) < -lim.max_loss THEN "LossTooLarge" ELSE "Allowed"

check_order(lim, p, side, qty) ==
    IF qty > lim.max_order_qty THEN "OrderTooLarge" ELSE
    IF ~RiskReducing(p, side) /\ Abs(Projected(p, side, qty)) > lim.max_position
    THEN "PositionTooLarge" ELSE
    IF total_pnl_of(p) < -lim.max_loss THEN "LossTooLarge" ELSE "Allowed"

check_open_orders(lim, current_open_orders) ==
    IF current_open_orders >= lim.max_open_orders THEN "OpenOrdersTooMany" ELSE "Allowed"

check_position(lim, p) ==
    IF Abs(p.position) > lim.max_position THEN "PositionTooLarge" ELSE
    IF total_pnl_of(p) < -lim.max_loss THEN "LossTooLarge" ELSE "Allowed"

check_order_with_open_orders(lim, p, side, qty, current_open_orders) ==
    LET open_orders_result == check_open_orders(lim, current_open_orders)
    IN  IF open_orders_result # "Allowed" THEN open_orders_result
        ELSE check_order(lim, p, side, qty)
=============================================================================
