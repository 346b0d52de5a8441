----------------------------- MODULE OrderEntry ------------------------------
(***************************************************************************)
(* Order entry end to end: the gateways of several trading processes, the  *)
(* TCP connections, the order server, and the main loop of                 *)
(* exchange/src/main.rs around the matching engine.                        *)
(***************************************************************************)
EXTENDS OrderServer, OrderGateway

CONSTANTS N, QtyMod, Tickers, Prices, OrderQtys,
          OrderSides   \* sides the trading processes use

VARIABLES order_books, next_order_id, response, updates, acked, feed,
          running,
          handled,     \* history: connection -> requests process_request got
          origin       \* history: market order id -> connection, client's order id

ME == INSTANCE MatchingEngine WITH
         Clients <- Gateways, ClientOrderIds <- 1 .. MaxRequests,
         MaxOrderId <- MaxRequests

engine == <<order_books, next_order_id, response, updates, acked, feed>>
vars == <<tcp, server, client, engine, running, handled, origin>>

Init ==
    /\ TcpInit /\ ServerInit /\ GatewayInit
    /\ order_books = [t \in Tickers |-> ME!NewBook]
    /\ next_order_id = 1
    /\ response = [msg_type |-> "None"] /\ updates = <<>>
    /\ acked = [k \in {} |-> 0] /\ feed = [k \in {} |-> 0]
    /\ running = TRUE
    /\ handled = [k \in Conns |-> <<>>]
    /\ origin = [id \in {} |-> 0]

-----------------------------------------------------------------------------
\* The trading processes.
Gateway(g) ==
    /\ \/ running /\ connect(g)
       \/ \E t \in Tickers, s \in OrderSides, p \in Prices, q \in OrderQtys :
             send_new_order(g, t, s, p, q)
       \/ \E t \in Tickers, id \in 1 .. gateway[g].next_order_id - 1 : send_cancel(g, id, t)
       \/ \E n \in 0 .. SendBuffer : gateway_poll(g, n)
       \/ close(g)
    /\ UNCHANGED <<server, engine, running, handled, origin>>

\* One round of the main loop: poll ...
poll_requests ==
    /\ running /\ requests = <<>>
    /\ poll
    /\ UNCHANGED <<client, engine, running, handled, origin>>

\* ... then, one by one, process a request and send the response.
handle_request ==
    /\ requests # <<>>
    /\ LET r == Head(requests)
           k == clients[r.client_id].conn
       IN  /\ ME!process_request(r.request)
           /\ send_response(r.client_id, response')
           /\ handled' = IF r.client_id \in DOMAIN clients
                         THEN [handled EXCEPT ![k] = Append(@, r.request)] ELSE handled
           /\ origin' = IF response'.msg_type = "Accepted"
                        THEN (response'.market_order_id :>
                                [conn |-> k, order_id |-> r.request.order_id]) @@ origin
                        ELSE origin
    /\ requests' = Tail(requests)
    /\ UNCHANGED <<next_seq, client, running>>

\* The Ctrl-C handler, at any point of the loop.
ctrl_c ==
    /\ running /\ running' = FALSE
    /\ UNCHANGED <<tcp, server, client, engine, handled, origin>>

shutdown ==
    /\ ~running /\ requests = <<>>
    /\ disconnect_all
    /\ UNCHANGED <<client, engine, running, handled, origin>>

Next ==
    \/ \E g \in Gateways : Gateway(g)
    \/ poll_requests
    \/ handle_request
    \/ ctrl_c
    \/ shutdown

Spec == Init /\ [][Next]_vars

\* The connections that a poll reads: accepted, or about to be.
Readable == {clients[id].conn : id \in DOMAIN clients} \cup Range(backlog)

\* A poll of gateway g finds data, or a response in its buffer.
HasResponse(g) ==
    /\ Connected(g)
    /\ \E n \in Arrivals(gateway[g].conn) : n > 0 \/ Len(gateway[g].recv_buffer) >= 2

\* That poll: it takes data off the connection or returns a response.
Reads(g) ==
    LET k == gateway[g].conn
    IN  Connected(g) /\ (Len(down'[k]) < Len(down[k]) \/ returned'[k] # returned[k])

\* The exchange spins in its loop, a connected trading process in its own, and
\* TCP delivers what was sent on an open connection: weak fairness of handle_request,
\* of the polls of the server that read connection k, and of the polls of gateway g
\* that do something.  Each is written with the condition that enables the steps
\* and with what tells them from other steps.
Fairness ==
    /\ []<>(requests = <<>>) \/ []<><<Len(requests') < Len(requests)>>_vars
    /\ \A k \in Conns :
          \/ []<>~(running /\ requests = <<>> /\ up[k] # <<>> /\ k \in Readable)
          \/ []<><<Len(up'[k]) < Len(up[k])>>_vars
    /\ \A g \in Gateways : []<>~HasResponse(g) \/ []<><<Reads(g)>>_vars

FairSpec == Spec /\ Fairness

-----------------------------------------------------------------------------
\* Type invariant of the composition.
TypeOK ==
    /\ ME!TypeOK
    /\ \A id \in DOMAIN clients : /\ id < next_client_id
                                  /\ clients[id].conn \in 1 .. made
                                  /\ Len(clients[id].recv_buffer) < 2
    /\ \A k \in Conns : Len(up[k]) =< SendBuffer /\ Len(down[k]) =< SendBuffer
    /\ \A g \in Gateways : gateway[g].conn \in 0 .. made

\* Requests of connection k that poll returned and the loop has not reached.
Queued(k) ==
    LET own == SelectSeq(requests, LAMBDA r : r.client_id \in DOMAIN clients /\ clients[r.client_id].conn = k)
    IN  [i \in DOMAIN own |-> own[i].request]

\* However the bytes arrive, the engine gets the requests of a connection
\* whole, once each, in the order in which the gateway sent them.
RequestsInOrder ==
    \A k \in Conns : IsPrefix(handled[k] \o Queued(k), sent[k])

\* The n-th response a gateway reads on a connection answers the n-th request
\* it sent there: the response names the order and has a type for the request.
Answers(r, req) ==
    /\ r.client_order_id = req.order_id /\ r.client_id = req.client_id
    /\ IF req.msg_type = "New" THEN r.msg_type \in {"Accepted", "InvalidRequest"}
       ELSE r.msg_type \in {"Canceled", "CancelRejected"}

ResponsesMatchRequests ==
    \A k \in Conns : /\ Len(returned[k]) =< Len(sent[k])
                     /\ \A n \in DOMAIN returned[k] : Answers(returned[k][n], sent[k][n])

\* Sequence numbers are given out without gap or repetition, and the loop
\* handles requests in their order.
SequencedOnce ==
    LET total[k \in 0 .. MaxConns] == IF k = 0 THEN 0 ELSE total[k-1] + Len(handled[k])
    IN  /\ \A i \in DOMAIN requests : requests[i].sequence_number = total[MaxConns] + i
        /\ next_seq = total[MaxConns] + Len(requests) + 1

\* While its requests are handled a client is known to the server: no answer
\* of the loop meets the NotConnected error of send_response.
AnswerableClients == \A i \in DOMAIN requests : requests[i].client_id \in DOMAIN clients

\* Every request is answered at the gateway, unless an end closes.
EveryRequestAnswered ==
    \A k \in Conns, n \in 1 .. MaxRequests :
       (Len(sent[k]) >= n) ~> \/ Len(returned[k]) >= n
                              \/ k \in client_closed \cup server_closed
                              \/ ~running

-----------------------------------------------------------------------------
\* order_gateway.rs, send_cancel: "Sends a cancel request for an existing
\* order", "order_id - The order ID to cancel".  What leaves the book is the
\* order that this gateway sent under this id.
CancelTakesNamedOrder ==
    [][\A t \in Tickers : \A id \in ME!LiveIds(order_books[t]) \ ME!LiveIds(order_books'[t]) :
          LET r == Head(requests)
          IN  origin[id] = [conn |-> clients[r.client_id].conn, order_id |-> r.request.order_id]
      ]_vars
=============================================================================
