---------------------------- MODULE LiquidityTaker ---------------------------
(***************************************************************************)
(* trading/src/strategies/liquidity_taker.rs: takes the opposite side when *)
(* the signal passes a threshold, at a limited rate.  An order rate is a   *)
(* matter of the time since the last order, so last_order_time_ns is two   *)
(* values: stamped, whether it differs from 0, and, in the argument since, *)
(* how long ago it was.  aggression_bps is 10 and cooldown_factor is 2,    *)
(* scale_with_signal and active are TRUE: the client leaves them so.       *)
(* orders_sent is left out, a statistic.                                   *)
(***************************************************************************)
EXTENDS MarketMaker

CONSTANT lt_config           \* a LiquidityTakerConfig

\* threshold is both thresholds, in tenths.
LiquidityTakerConfig ==
    [threshold : 0 .. 9, base_qty : Nat, max_qty : Nat \ {0}, min_order_interval_ns : Nat,
     max_position : Nat]

MaxInterval == 10 * lt_config.min_order_interval_ns

NewLiquidityTaker ==
    [stamped |-> FALSE, effective_interval_ns |-> lt_config.min_order_interval_ns,
     current_position |-> 0]

\* Mutant: an order may come a tick early.
can_send_early(lt, since) == ~lt.stamped \/ since >= lt.effective_interval_ns - 1

can_send_order(lt, since) == ~lt.stamped \/ since >= lt.effective_interval_ns

\* now is 0 only when this is the first reading of the clock.
record_order(lt, now_is_zero) ==
    [lt EXCEPT !.stamped = ~now_is_zero,
               !.effective_interval_ns = IF 2 * @ < MaxInterval THEN 2 * @ ELSE MaxInterval]

\* Mutant: the interval is halved without its floor.
lt_on_fill_half(lt) == [lt EXCEPT !.effective_interval_ns = @ \div 2]

lt_on_fill(lt) ==
    [lt EXCEPT !.effective_interval_ns = Larger(@ \div 2, lt_config.min_order_interval_ns)]

\* For a signal whose size is strength / scale: base_qty at the threshold, max_qty
\* at 1, and linear in between.
calculate_quantity(strength, scale) ==
    LET rest == 10 - lt_config.threshold
        above == 10 * strength - lt_config.threshold * scale
    IN  {Clamp(q, 1, lt_config.max_qty) :
           q \in IF above = 0 THEN {lt_config.base_qty} ELSE
                 IF strength = scale THEN {lt_config.max_qty} ELSE
                 Trunc(lt_config.base_qty * scale * rest
                       + (lt_config.max_qty - lt_config.base_qty) * above, scale * rest)}

\* i64 addition, which wraps in a release build.
Wrap(x) == IF x > INVALID_PRICE THEN x - 2 * (INVALID_PRICE + 1) ELSE x

\* create_buy_order and create_sell_order: 10 basis points beyond the best price.
TakePrice(side, best) == Wrap(best + side * ((best * 10) \div 10000))

\* At the threshold itself, the f64 comparison goes either way.
lt_on_features(lt, f, since, now_is_zero, b) ==
    LET signal == ScaledSignal(f)
        scale == 10 * f.spread * f.imbalance[2]
        bar == lt_config.threshold * f.spread * f.imbalance[2]
        Signals == {s \in Sides : s * signal >= bar /\ s * signal > 0}
        None == [strategy |-> lt, orders |-> <<>>]
        AtLimit(side) == lt_config.max_position > 0 /\ side * lt.current_position >= lt_config.max_position
    IN  IF ~can_send_order(lt, since) \/ f.spread =< 0 THEN {None}
        ELSE (IF \A s \in Sides : s * signal =< bar THEN {None} ELSE {})
             \cup UNION {IF AtLimit(s) THEN {None}
                         ELSE {[strategy |-> record_order(lt, now_is_zero),
                                orders |-> <<OrderRequest(s, TakePrice(s, b[-s].price), q)>>] :
                                  q \in calculate_quantity(s * signal, scale)} :
                         s \in Signals}
=============================================================================
