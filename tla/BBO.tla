--------------------------------- MODULE BBO ---------------------------------
(***************************************************************************)
(* The best bid and offer of trading/src/market_data.rs and the effect of  *)
(* one market update on it.  The receiver and the trade engine hold the    *)
(* same code; the two sides are handled alike with opposite comparisons.   *)
(***************************************************************************)
EXTENDS Types

NewBBO == [s \in Sides |-> [price |-> INVALID_PRICE, qty |-> 0]]

Better(side, p, q) == IF side = BUY THEN p > q ELSE p < q

BBOQuoted(level, u) ==
    IF level.price = INVALID_PRICE \/ u.price = level.price \/ Better(u.side, u.price, level.price)
    THEN [price |-> u.price, qty |-> u.qty]
    ELSE level

\* Mutant: only part of a quote can be cancelled.
BBOCanceledPart(level, u) ==
    IF u.price = level.price /\ u.qty < level.qty
    THEN [level EXCEPT !.qty = saturating_sub(@, u.qty)]
    ELSE level

\* The price stays when the quantity becomes 0.
BBOCanceled(level, u) ==
    IF u.price = level.price
    THEN [level EXCEPT !.qty = IF u.qty = 0 \/ u.qty >= level.qty THEN 0
                               ELSE saturating_sub(level.qty, u.qty)]
    ELSE level

Traded(level, u) ==
    IF u.price = level.price
    THEN [level EXCEPT !.qty = saturating_sub(level.qty, u.qty)]
    ELSE level

process_update(b, u) ==
    CASE u.msg_type \in {"Add", "Modify", "Snapshot"} -> [b EXCEPT ![u.side] = BBOQuoted(@, u)]
      [] u.msg_type = "Cancel" -> [b EXCEPT ![u.side] = BBOCanceled(@, u)]
      [] u.msg_type = "Trade"  -> [b EXCEPT ![-u.side] = Traded(@, u)]
      [] u.msg_type = "Clear"  -> NewBBO

is_valid(b) == \A s \in Sides : b[s].price # INVALID_PRICE /\ b[s].qty > 0

\* Prices are positive here, so that flooring is Rust's division.
mid_price(b) == (b[BUY].price + b[SELL].price) \div 2

spread(b) == b[SELL].price - b[BUY].price
=============================================================================
