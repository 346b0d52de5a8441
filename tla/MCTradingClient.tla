--------------------------- MODULE MCTradingClient ---------------------------
(***************************************************************************)
(* TradingClient with a small configuration and feed.  base_qty of both    *)
(* strategies is max_order_qty, as the command line sets it.               *)
(***************************************************************************)
EXTENDS TradingClient

MCLimits == [max_order_qty |-> 2, max_position |-> 3, max_loss |-> 20, max_open_orders |-> 100]

MCMarketMaker == [ticker_id |-> 1, half_spread |-> 2, min_spread |-> 1, base_qty |-> 2,
                  max_qty |-> 3, price_update_threshold |-> 1, max_position |-> 3]

MCLiquidityTaker == [threshold |-> 3, base_qty |-> 2, max_qty |-> 3,
                     min_order_interval_ns |-> 1, max_position |-> 3]

Add(t, s, p, q) == [msg_type |-> "Add", ticker_id |-> t, side |-> s, price |-> p, qty |-> q]
MCUpdates == {Add(1, BUY, 8, 1), Add(1, SELL, 40, 1), Add(1, SELL, 12, 2), Add(2, BUY, 9, 1)}
=============================================================================
