----------------------------- MODULE MarketMaker -----------------------------
(***************************************************************************)
(* trading/src/strategies/market_maker.rs: quotes around the fair value.   *)
(* The f64 arithmetic is exact here, up to what decides an integer: a      *)
(* product that is a whole number may fall just short of it.               *)
(* position_skew_factor has its default, 1/2; active stays TRUE, as the    *)
(* client never deactivates or resets a strategy.                          *)
(***************************************************************************)
EXTENDS Features, Sequences

CONSTANT mm_config           \* a MarketMakerConfig

MarketMakerConfig ==
    [ticker_id : Nat, half_spread : Nat, min_spread : Nat, base_qty : Nat, max_qty : Nat \ {0},
     price_update_threshold : Nat, max_position : Nat \ {0}]

\* `as Price` of a computed n / d, for n >= 0 and d > 0.
Trunc(n, d) == {n \div d} \cup IF n > 0 /\ n % d = 0 THEN {n \div d - 1} ELSE {}

\* (n / d) * x / y as a Price; a ratio of 0 or 1 is exact.
Scaled(n, d, x, y) ==
    LET Of(k) == IF k \in {0, d} THEN {(k * x) \div (d * y)} ELSE Trunc(k * x, d * y)
    IN  IF n >= 0 THEN Of(n) ELSE {-r : r \in Of(-n)}

Larger(x, y) == IF x > y THEN x ELSE y

NewMarketMaker == [last_bid_price |-> 0, last_ask_price |-> 0, current_position |-> 0]

\* The bid stays below the ask.
QuoteAround(fair_value, half, skew) ==
    LET ask == fair_value + half - skew
        bid == fair_value - half - skew
    IN  [bid |-> IF bid < ask - 1 THEN bid ELSE ask - 1, ask |-> ask]

calculate_quotes(f) ==
    LET n == f.imbalance[1]
        d == f.imbalance[2]
        Adjusted == {Larger(mm_config.half_spread + a, mm_config.min_spread) :
                        a \in Scaled(IF n < 0 THEN -n ELSE n, d, mm_config.half_spread, 2)}
    IN  UNION {{QuoteAround(f.fair_value, half, skew) : skew \in Scaled(n, d, half, 5)} :
               half \in Adjusted}

\* The quantity of one side: down to half of base_qty as the position grows on
\* that side, never above it, and none at max_position.
SideQty(side, position) ==
    LET max_pos == mm_config.max_position
        held == Clamp(side * position, 0, max_pos)
    IN  IF side * position >= max_pos THEN {0}
        ELSE {Clamp(q, 1, mm_config.max_qty) :
                q \in Scaled(2 * max_pos - held, 2 * max_pos, mm_config.base_qty, 1)}

should_update_quotes(mm, q) ==
    \/ mm.last_bid_price = 0 \/ mm.last_ask_price = 0
    \/ q.bid - mm.last_bid_price >= mm_config.price_update_threshold
    \/ mm.last_bid_price - q.bid >= mm_config.price_update_threshold
    \/ q.ask - mm.last_ask_price >= mm_config.price_update_threshold
    \/ mm.last_ask_price - q.ask >= mm_config.price_update_threshold

OrderRequest(side, price, qty) ==
    [ticker_id |-> mm_config.ticker_id, side |-> side, price |-> price, qty |-> qty]

build_quote_pair(q, bid_qty, ask_qty) ==
    (IF bid_qty > 0 THEN <<OrderRequest(BUY, q.bid, bid_qty)>> ELSE <<>>)
    \o (IF ask_qty > 0 THEN <<OrderRequest(SELL, q.ask, ask_qty)>> ELSE <<>>)

\* The strategy and the orders of its action, once the quotes are computed.
Requote(mm, q) ==
    IF ~should_update_quotes(mm, q) THEN {[strategy |-> mm, orders |-> <<>>]}
    ELSE {[strategy |-> [mm EXCEPT !.last_bid_price = q.bid, !.last_ask_price = q.ask],
           orders |-> build_quote_pair(q, bid_qty, ask_qty)] :
             bid_qty \in SideQty(BUY, mm.current_position),
             ask_qty \in SideQty(SELL, mm.current_position)}

\* For valid features.
mm_on_features(mm, f) == UNION {Requote(mm, q) : q \in calculate_quotes(f)}
=============================================================================
