---------------------------- MODULE MCTradeEngine ----------------------------
(***************************************************************************)
(* TradeEngine on small sets of orders, limits and market updates.         *)
(***************************************************************************)
EXTENDS TradeEngine

Lim(order, position, loss, open) ==
    [max_order_qty |-> order, max_position |-> position, max_loss |-> loss,
     max_open_orders |-> open]

MCDefaultLimits == Lim(2, 2, 2, 2)
MCLimits == {[ticker_id |-> 1, limits |-> Lim(2, 1, 2, 2)]}

Order(t, s, p, q) == [ticker_id |-> t, side |-> s, price |-> p, qty |-> q]
MCOrders == {Order(1, BUY, 1, 1), Order(1, BUY, 2, 1), Order(1, SELL, 4, 2), Order(2, SELL, 2, 1)}

Update(type, s, p, q) ==
    [msg_type |-> type, ticker_id |-> 1, side |-> s, price |-> p, qty |-> q]
MCUpdates == {Update("Add", BUY, 3, 1), Update("Trade", BUY, 5, 1), Update("Clear", BUY, 0, 0)}

MCBbos == {[ticker_id |-> 1, bbo |-> [s \in Sides |-> [price |-> IF s = BUY THEN 1 ELSE 5, qty |-> 1]]]}
=============================================================================
