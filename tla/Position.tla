------------------------------- MODULE Position ------------------------------
(***************************************************************************)
(* trading/src/position.rs: the position of one ticker as a record, the    *)
(* keeper's map of them, and the effect of fills, pending orders and marks.*)
(* open_buy_qty and open_sell_qty are open_qty[BUY] and open_qty[SELL].    *)
(* Left out: volume_traded, a statistic no code acts on.                   *)
(***************************************************************************)
EXTENDS Types, Functions

CONSTANT QtyMod              \* 2^32: the quantities are u32

NewPosition ==
    [position |-> 0, open_qty |-> [s \in Sides |-> 0], realized_pnl |-> 0,
     unrealized_pnl |-> 0, avg_open_price |-> 0, last_price |-> 0]

Abs(x) == IF x < 0 THEN -x ELSE x

Smaller(x, y) == IF x < y THEN x ELSE y

\* The three branches of the code are one product: a short position is the
\* negative of the quantity held.
update_unrealized_pnl(p) ==
    [p EXCEPT !.unrealized_pnl = (p.last_price - p.avg_open_price) * p.position]

total_pnl_of(p) == p.realized_pnl + p.unrealized_pnl

max_long_exposure(p) == p.position + p.open_qty[BUY]

max_short_exposure(p) == p.position - p.open_qty[SELL]

-----------------------------------------------------------------------------
Opposite(x, y) == (x > 0 /\ y < 0) \/ (x < 0 /\ y > 0)

\* The profit of the part of a fill that closes the position.
Realized(p, signed_qty, price) ==
    IF Opposite(p.position, signed_qty)
    THEN (IF p.position > 0 THEN price - p.avg_open_price ELSE p.avg_open_price - price)
         * Smaller(Abs(p.position), Abs(signed_qty))
    ELSE 0

\* Mutant: the average of the closed position survives a flip.
KeptPrice(p, signed_qty, price) ==
    IF p.position = 0 THEN price ELSE
    IF Opposite(p.position, signed_qty) THEN p.avg_open_price ELSE
    (p.avg_open_price * Abs(p.position) + price * Abs(signed_qty)) \div Abs(p.position + signed_qty)

\* The average price after a fill: the code's i64 division drops the remainder
\* of the total cost (the prices are not negative).
OpenPrice(p, signed_qty, price) ==
    LET new_position == p.position + signed_qty
    IN  IF p.position = 0 THEN price ELSE
        IF Opposite(p.position, signed_qty)
        THEN IF Opposite(p.position, new_position) THEN price ELSE p.avg_open_price
        ELSE (p.avg_open_price * Abs(p.position) + price * Abs(signed_qty))
             \div Abs(new_position)

on_fill(p, side, qty, price) ==
    update_unrealized_pnl(
       [p EXCEPT !.position = @ + side * qty,
                 !.realized_pnl = @ + Realized(p, side * qty, price),
                 !.avg_open_price = OpenPrice(p, side * qty, price),
                 !.last_price = price])

add_open_order(p, side, qty) == [p EXCEPT !.open_qty[side] = (@ + qty) % QtyMod]

remove_open_order(p, side, qty) == [p EXCEPT !.open_qty[side] = saturating_sub(@, qty)]

update_market_price(p, price) == update_unrealized_pnl([p EXCEPT !.last_price = price])

-----------------------------------------------------------------------------
\* PositionKeeper: ps maps the tickers that have a position to it.
get_position(ps, t) == IF t \in DOMAIN ps THEN ps[t] ELSE NewPosition

\* get_position_mut, and the assignment of the new value.
set_position(ps, t, p) == [x \in DOMAIN ps \cup {t} |-> IF x = t THEN p ELSE ps[x]]

recalculate_total_pnl(ps) == SumFunction([t \in DOMAIN ps |-> total_pnl_of(ps[t])])
=============================================================================
