---------------------------- MODULE MCMarketData -----------------------------
(***************************************************************************)
(* MarketData with interchangeable ids and two flows of orders: asks at    *)
(* two prices and of two quantities, or an ask and a bid, so that a        *)
(* snapshot is two sends and can fail between them.                        *)
(***************************************************************************)
EXTENDS MarketData, TLC

Symmetry == Permutations(Ids)

Order(side, price, qty) == [ticker_id |-> 1, side |-> side, price |-> price, qty |-> qty]

MCFlows == {{Order(SELL, price, qty) : price \in {2, 3}, qty \in {1, 2}},
            {Order(SELL, 2, 2), Order(BUY, 1, 1)}}
=============================================================================
