---------------------------- MODULE OrderGateway -----------------------------
(***************************************************************************)
(* trading/src/order_gateway.rs: the trading client's end of the order     *)
(* session.  A gateway is one process; a restarted process connects anew   *)
(* and numbers its orders from 1 again.                                    *)
(***************************************************************************)
EXTENDS Tcp

CONSTANTS Gateways,    \* the client ids of the trading processes
          MaxRequests  \* bound: requests sent in a behaviour

ASSUME GatewayAssumption == Gateways \subseteq Nat /\ MaxRequests \in Nat

VARIABLES gateway,     \* gateway -> its OrderGateway; conn 0 while not connected
          sent,        \* history: connection -> requests written whole
          returned     \* history: connection -> responses poll returned

client == <<gateway, sent, returned>>

NotConnected == [conn |-> 0, next_order_id |-> 1, pending_orders |-> [i \in {} |-> 0],
                 recv_buffer |-> <<>>]

GatewayInit ==
    /\ gateway = [g \in Gateways |-> NotConnected]
    /\ sent = [k \in Conns |-> <<>>] /\ returned = [k \in Conns |-> <<>>]

Connected(g) == gateway[g].conn # 0

\* Requests written in this behaviour so far.
RequestCount == LET total[k \in 0 .. MaxConns] ==
                       IF k = 0 THEN 0 ELSE total[k - 1] + Len(sent[k])
                IN  total[MaxConns]

connect(g) ==
    /\ ~Connected(g) /\ made < MaxConns
    /\ made' = made + 1
    /\ backlog' = Append(backlog, made')
    /\ gateway' = [gateway EXCEPT ![g].conn = made']
    /\ UNCHANGED <<sent, returned, up, down, client_closed, server_closed>>

\* socket.send, whose result both callers ignore.
SendRequest(g, req) ==
    LET k == gateway[g].conn
    IN  /\ up' = [up EXCEPT ![k] = Sent(@, req)]
        /\ sent' = IF SentWhole(up[k]) THEN [sent EXCEPT ![k] = Append(@, req)] ELSE sent
        /\ UNCHANGED <<returned, backlog, made, down, client_closed, server_closed>>

send_new_order(g, ticker, side, price, qty) ==
    LET id == gateway[g].next_order_id
    IN  /\ Connected(g) /\ RequestCount < MaxRequests
        /\ id =< MaxRequests
        /\ SendRequest(g, [msg_type |-> "New", client_id |-> g, ticker_id |-> ticker,
                           order_id |-> id, side |-> side, price |-> price, qty |-> qty])
        /\ gateway' = [gateway EXCEPT
              ![g].next_order_id = id + 1,
              ![g].pending_orders = (id :> [ticker_id |-> ticker, side |-> side,
                                            price |-> price, qty |-> qty]) @@ @]

\* Placeholders describe an order that is not pending.
send_cancel(g, id, ticker) ==
    LET pending == gateway[g].pending_orders
        o == IF id \in DOMAIN pending THEN pending[id]
             ELSE [ticker_id |-> ticker, side |-> 0, price |-> 0, qty |-> 0]
    IN  /\ Connected(g) /\ RequestCount < MaxRequests
        /\ SendRequest(g, [msg_type |-> "Cancel", client_id |-> g, ticker_id |-> ticker,
                           order_id |-> id, side |-> o.side, price |-> o.price, qty |-> o.qty])
        /\ UNCHANGED gateway

\* The responses that end the life of an order for the gateway.
Terminal(r) == \/ r.msg_type \in {"Canceled", "CancelRejected", "InvalidRequest"}
               \/ r.msg_type = "Filled" /\ r.leaves_qty = 0

\* Mutant: poll returns None whenever the socket has no data.
ArrivalsNeeded(k) == 1 .. Len(down[k])

\* How many parts try_recv finds on connection k.
Arrivals(k) == 0 .. Len(down[k])

\* OrderGateway::poll: at most one response, from at most one receive.
gateway_poll(g, n) ==
    LET k == gateway[g].conn
        buf == gateway[g].recv_buffer \o Received(down[k], n)
        r == Decode(buf[1], buf[2])
    IN  /\ Connected(g)
        /\ n \in Arrivals(k)
        /\ down' = [down EXCEPT ![k] = Remaining(@, n)]
        /\ IF Len(buf) >= 2
           THEN /\ gateway' = [gateway EXCEPT
                      ![g].recv_buffer = SubSeq(buf, 3, Len(buf)),
                      ![g].pending_orders = IF Terminal(r) THEN Restrict(@, DOMAIN @ \ {r.client_order_id})
                                            ELSE @]
                /\ returned' = [returned EXCEPT ![k] = Append(@, r)]
           ELSE /\ gateway' = [gateway EXCEPT ![g].recv_buffer = buf]
                /\ UNCHANGED returned
        /\ UNCHANGED <<sent, backlog, made, up, client_closed, server_closed>>

\* The process ends, in whatever state it is; its socket is closed.
close(g) ==
    /\ Connected(g)
    /\ client_closed' = client_closed \cup {gateway[g].conn}
    /\ gateway' = [gateway EXCEPT ![g] = NotConnected]
    /\ UNCHANGED <<sent, returned, backlog, made, up, down, server_closed>>
=============================================================================
