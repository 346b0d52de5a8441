------------------------------- MODULE Session -------------------------------
(***************************************************************************)
(* The exchange as one trading client sees it through its order gateway:   *)
(* requests travel in order, each is answered, resting orders are filled   *)
(* in parts or whole, and the responses travel in order (OrderEntry is the *)
(* model of that path).  The client started with the exchange and is its   *)
(* only one, so that its order ids are the exchange's; the exchange        *)
(* refuses an order when its pool is exhausted.                            *)
(***************************************************************************)
EXTENDS Types, Sequences, Functions

CONSTANTS Tickers,           \* the tickers the client trades
          MaxInFlight        \* bound: responses in flight, and messages at a cancel

VARIABLES next_order_id,     \* of the gateway
          requests,          \* requests in flight
          book,              \* order id -> the resting part of an order
          inbox,             \* responses in flight
          traded             \* history: ticker -> net quantity the exchange filled

session == <<next_order_id, requests, book, inbox, traded>>

SessionInit ==
    /\ next_order_id = 1 /\ requests = <<>> /\ inbox = <<>>
    /\ book = [id \in {} |-> 0]
    /\ traded = [t \in Tickers |-> 0]

\* OrderGateway::send_new_order of each of os, and send_cancel, for orders that
\* are records of ticker_id, side, price and qty.
NewRequests(os) ==
    [i \in DOMAIN os |-> [msg_type |-> "New", order_id |-> next_order_id + i - 1, order |-> os[i]]]

CancelRequest(id, o) == [msg_type |-> "Cancel", order_id |-> id, order |-> o]

send_new_orders(os) ==
    /\ next_order_id' = next_order_id + Len(os)
    /\ requests' = requests \o NewRequests(os)
    /\ UNCHANGED <<book, inbox, traded>>

send_cancels(msgs) ==
    /\ Len(requests) + Len(inbox) + Len(msgs) =< MaxInFlight
    /\ requests' = requests \o msgs
    /\ UNCHANGED <<next_order_id, book, inbox, traded>>

receive == inbox # <<>> /\ inbox' = Tail(inbox) /\ UNCHANGED <<next_order_id, requests, book, traded>>

-----------------------------------------------------------------------------
Response(type, id, o, exec_qty, leaves_qty) ==
    [msg_type |-> type, client_order_id |-> id, ticker_id |-> o.ticker_id, side |-> o.side,
     price |-> o.price, exec_qty |-> exec_qty, leaves_qty |-> leaves_qty]

Respond(r) == Len(inbox) < MaxInFlight /\ inbox' = Append(inbox, r)

\* The exchange takes the oldest request.
Served == requests # <<>> /\ requests' = Tail(requests) /\ UNCHANGED <<next_order_id, traded>>

Accept ==
    /\ Served /\ Head(requests).msg_type = "New"
    /\ LET id == Head(requests).order_id  o == Head(requests).order
       IN  /\ book' = [x \in DOMAIN book \cup {id} |-> IF x = id THEN o ELSE book[x]]
           /\ Respond(Response("Accepted", id, o, 0, o.qty))

Refuse ==
    /\ Served /\ Head(requests).msg_type = "New"
    /\ LET r == Head(requests)
       IN  Respond(Response("InvalidRequest", r.order_id, r.order, 0, r.order.qty))
    /\ UNCHANGED book

OffBook(id) == [x \in DOMAIN book \ {id} |-> book[x]]

ServeCancel ==
    /\ Served /\ Head(requests).msg_type = "Cancel"
    /\ LET id == Head(requests).order_id  o == Head(requests).order
       IN  IF id \in DOMAIN book
           THEN /\ book' = OffBook(id)
                /\ Respond(Response("Canceled", id, book[id], 0, book[id].qty))
           ELSE /\ UNCHANGED book
                /\ Respond(Response("CancelRejected", id, o, 0, 0))

Fill(id, qty) ==
    /\ id \in DOMAIN book /\ qty \in 1 .. book[id].qty
    /\ book' = IF qty = book[id].qty THEN OffBook(id) ELSE [book EXCEPT ![id].qty = @ - qty]
    /\ Respond(Response("Filled", id, book[id], qty, book[id].qty - qty))
    /\ traded' = [traded EXCEPT ![book[id].ticker_id] = @ + book[id].side * qty]
    /\ UNCHANGED <<next_order_id, requests>>

-----------------------------------------------------------------------------
Terminal(r) ==
    r.msg_type \in {"Canceled", "InvalidRequest"} \/ (r.msg_type = "Filled" /\ r.leaves_qty = 0)

\* The order is on its way to the exchange, rests there, or its end is on the
\* way back.
Live(id) ==
    \/ \E i \in DOMAIN requests : requests[i].msg_type = "New" /\ requests[i].order_id = id
    \/ id \in DOMAIN book
    \/ \E i \in DOMAIN inbox : inbox[i].client_order_id = id /\ Terminal(inbox[i])

\* The quantity of the responses in flight that satisfy Is.
InFlight(Is(_)) ==
    SumFunctionOnSet([i \in DOMAIN inbox |-> inbox[i].exec_qty], {i \in DOMAIN inbox : Is(inbox[i])})

\* What is left of an order at the exchange, or of one that has just ended.
Resting(id) ==
    IF id \in DOMAIN book THEN book[id].qty ELSE
    LET new == {i \in DOMAIN requests : requests[i].msg_type = "New" /\ requests[i].order_id = id}
        gone == {i \in DOMAIN inbox : /\ inbox[i].client_order_id = id
                                      /\ inbox[i].msg_type \in {"Canceled", "InvalidRequest"}}
    IN  SumFunctionOnSet([i \in DOMAIN requests |-> requests[i].order.qty], new)
        + SumFunctionOnSet([i \in DOMAIN inbox |-> inbox[i].leaves_qty], gone)
=============================================================================
