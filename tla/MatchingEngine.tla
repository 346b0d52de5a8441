---------------------------- MODULE MatchingEngine ----------------------------
(***************************************************************************)
(* exchange/src/matching_engine.rs: routes client requests to the order    *)
(* book of their ticker, answers each with one ClientResponse, and emits   *)
(* the MarketUpdates for the feed.                                         *)
(*                                                                         *)
(* Two history variables play the readers of what the engine emits: acked  *)
(* is what a client concludes from the responses, feed what a subscriber   *)
(* that keeps the full depth concludes from the updates.                   *)
(***************************************************************************)
EXTENDS OrderBookOps, Sequences

CONSTANTS Tickers,        \* ticker ids named by add_ticker and by requests
          ClientOrderIds, \* order_id of a New request: the client's own id
          MaxOrderId      \* bound: market order ids assigned in a behaviour

ASSUME EngineAssumption == ClientOrderIds \subseteq Nat /\ MaxOrderId \in Nat

VARIABLES order_books,    \* ticker -> book, for the tickers added so far
          next_order_id,
          response,       \* the ClientResponse of the last process_request
          updates,        \* its Vec<MarketUpdate>
          acked,          \* history: <<ticker, market id>> -> leaves_qty
          feed            \* history: <<ticker, market id>> -> side, price, qty

vars == <<order_books, next_order_id, response, updates, acked, feed>>

Response(type, req, moid, side, price, leaves) ==
    [msg_type |-> type, client_id |-> req.client_id, ticker_id |-> req.ticker_id,
     client_order_id |-> req.order_id, market_order_id |-> moid,
     side |-> side, price |-> price, exec_qty |-> 0, leaves_qty |-> leaves]

Update(type, req, moid, side, price, qty, priority) ==
    [msg_type |-> type, ticker_id |-> req.ticker_id, order_id |-> moid,
     side |-> side, price |-> price, qty |-> qty, priority |-> priority]

\* create_reject_response, handle_invalid_request
RejectResponse(req) ==
    Response("InvalidRequest", req, 0, req.side, req.price, req.qty)

\* create_cancel_reject_response
CancelRejectResponse(req) ==
    Response("CancelRejected", req, 0, req.side, req.price, 0)

-----------------------------------------------------------------------------
\* The readers of the two outputs.
Acknowledged(a, r) ==
    LET k == <<r.ticker_id, r.market_order_id>>
    IN  CASE r.msg_type = "Accepted" -> Put(a, k, r.leaves_qty)
          [] r.msg_type = "Canceled" -> Drop(a, k)
          [] OTHER                   -> a

Replayed(f, u) ==
    LET k == <<u.ticker_id, u.order_id>>
    IN  IF u.msg_type = "Add"
        THEN Put(f, k, [side |-> u.side, price |-> u.price, qty |-> u.qty])
        ELSE Drop(f, k)

\* (response, vec![]) and (response, vec![update])
ReturnOnly(r) ==
    /\ response' = r /\ updates' = <<>>
    /\ acked' = Acknowledged(acked, r) /\ UNCHANGED feed

ReturnWith(r, u) ==
    /\ response' = r /\ updates' = <<u>>
    /\ acked' = Acknowledged(acked, r) /\ feed' = Replayed(feed, u)

-----------------------------------------------------------------------------
Init ==
    /\ order_books = [t \in {} |-> NewBook]
    /\ next_order_id = 1
    /\ response = [msg_type |-> "None"]
    /\ updates = <<>>
    /\ acked = [k \in {} |-> 0]
    /\ feed = [k \in {} |-> 0]

\* Does nothing for a ticker that has a book.
add_ticker(t) ==
    /\ order_books' = IF t \in DOMAIN order_books THEN order_books
                      ELSE Put(order_books, t, NewBook)
    /\ UNCHANGED <<next_order_id, response, updates, acked, feed>>

Routable(req) == /\ req.ticker_id \in DOMAIN order_books
                 /\ req.side \in Sides

\* handle_new_order up to the assignment of a market order id.
RejectNewOrder(req) ==
    /\ req.msg_type = "New"
    /\ ~Routable(req)
    /\ ReturnOnly(RejectResponse(req))
    /\ UNCHANGED <<order_books, next_order_id>>

\* Mutant: the next market order id is not advanced.
AcceptNewOrderSameId(req) ==
    LET t == req.ticker_id
        moid == next_order_id
    IN  /\ req.msg_type = "New"
        /\ Routable(req)
        /\ CanAdd(order_books[t], moid)
        /\ order_books' = [order_books EXCEPT ![t] =
              AddOrder(order_books[t], req.client_id, moid, req.side, req.price, req.qty)]
        /\ ReturnWith(
              Response("Accepted", req, moid, req.side, req.price, req.qty),
              Update("Add", req, moid, req.side, req.price, req.qty, moid))
        /\ UNCHANGED next_order_id

\* Mutant: the smallest id that names no resting order is handed out.
AcceptNewOrderFreeId(req) ==
    LET t == req.ticker_id
        used == UNION {LiveIds(order_books[u]) : u \in DOMAIN order_books}
        moid == CHOOSE i \in 1 .. next_order_id \ used : \A j \in 1 .. next_order_id \ used : i =< j
    IN  /\ req.msg_type = "New"
        /\ Routable(req)
        /\ next_order_id =< MaxOrderId
        /\ CanAdd(order_books[t], moid)
        /\ next_order_id' = IF moid = next_order_id THEN next_order_id + 1 ELSE next_order_id
        /\ order_books' = [order_books EXCEPT ![t] =
              AddOrder(order_books[t], req.client_id, moid, req.side, req.price, req.qty)]
        /\ ReturnWith(
              Response("Accepted", req, moid, req.side, req.price, req.qty),
              Update("Add", req, moid, req.side, req.price, req.qty, moid))

\* handle_new_order when add_order succeeds.
AcceptNewOrder(req) ==
    LET t == req.ticker_id
        moid == next_order_id
    IN  /\ req.msg_type = "New"
        /\ Routable(req)
        /\ next_order_id =< MaxOrderId
        /\ CanAdd(order_books[t], moid)
        /\ next_order_id' = next_order_id + 1
        /\ order_books' = [order_books EXCEPT ![t] =
              AddOrder(order_books[t], req.client_id, moid, req.side, req.price, req.qty)]
        /\ ReturnWith(
              Response("Accepted", req, moid, req.side, req.price, req.qty),
              Update("Add", req, moid, req.side, req.price, req.qty, moid))

\* Mutant: the result of add_order is not looked at.
RefuseNewOrderAccepted(req) ==
    /\ req.msg_type = "New"
    /\ Routable(req)
    /\ next_order_id =< MaxOrderId
    /\ ~CanAdd(order_books[req.ticker_id], next_order_id)
    /\ next_order_id' = next_order_id + 1
    /\ ReturnOnly(Response("Accepted", req, next_order_id, req.side, req.price, req.qty))
    /\ UNCHANGED order_books

\* Mutant: add_order creates the price level before it allocates.
RefuseNewOrderLevelLeft(req) ==
    LET t == req.ticker_id
        b == order_books[t]
        k == <<req.side, req.price>>
    IN  /\ req.msg_type = "New"
        /\ Routable(req)
        /\ next_order_id =< MaxOrderId
        /\ ~CanAdd(b, next_order_id)
        /\ next_order_id' = next_order_id + 1
        /\ ReturnOnly(RejectResponse(req))
        /\ order_books' = [order_books EXCEPT ![t].levels = Put(b.levels, k, LevelOrNew(b, k))]

\* handle_new_order when add_order returns None: the id is used up.
RefuseNewOrder(req) ==
    /\ req.msg_type = "New"
    /\ Routable(req)
    /\ next_order_id =< MaxOrderId
    /\ ~CanAdd(order_books[req.ticker_id], next_order_id)
    /\ next_order_id' = next_order_id + 1
    /\ ReturnOnly(RejectResponse(req))
    /\ UNCHANGED order_books

\* Mutant: a cancel publishes no market update.
CancelRestingUnpublished(req) ==
    LET t == req.ticker_id
        o == OrderOf(order_books[t], req.order_id)
    IN  /\ req.msg_type = "Cancel"
        /\ t \in DOMAIN order_books
        /\ CanCancel(order_books[t], req.order_id)
        /\ order_books' = [order_books EXCEPT ![t] =
              CancelOrder(order_books[t], req.order_id)]
        /\ ReturnOnly(Response("Canceled", req, req.order_id, o.side, o.price, o.qty))
        /\ UNCHANGED next_order_id

\* handle_cancel when cancel_order returns an order; req.order_id is looked up
\* as a market order id.
CancelResting(req) ==
    LET t == req.ticker_id
        o == OrderOf(order_books[t], req.order_id)
    IN  /\ req.msg_type = "Cancel"
        /\ t \in DOMAIN order_books
        /\ CanCancel(order_books[t], req.order_id)
        /\ order_books' = [order_books EXCEPT ![t] =
              CancelOrder(order_books[t], req.order_id)]
        /\ ReturnWith(
              Response("Canceled", req, req.order_id, o.side, o.price, o.qty),
              Update("Cancel", req, req.order_id, o.side, o.price, o.qty, o.priority))
        /\ UNCHANGED next_order_id

\* handle_cancel for an unknown ticker.
RejectCancelTicker(req) ==
    /\ req.msg_type = "Cancel"
    /\ req.ticker_id \notin DOMAIN order_books
    /\ ReturnOnly(CancelRejectResponse(req))
    /\ UNCHANGED <<order_books, next_order_id>>

\* handle_cancel when cancel_order returns None.
RejectCancelOrder(req) ==
    LET t == req.ticker_id
    IN  /\ req.msg_type = "Cancel"
        /\ t \in DOMAIN order_books
        /\ ~CanCancel(order_books[t], req.order_id)
        /\ order_books' = [order_books EXCEPT ![t] =
              CancelFailed(order_books[t], req.order_id)]
        /\ ReturnOnly(CancelRejectResponse(req))
        /\ UNCHANGED next_order_id

handle_invalid_request(req) ==
    /\ req.msg_type = "Other"
    /\ ReturnOnly(RejectResponse(req))
    /\ UNCHANGED <<order_books, next_order_id>>

process_request(req) ==
    \/ RejectNewOrder(req)
    \/ AcceptNewOrder(req)
    \/ RefuseNewOrder(req)
    \/ CancelResting(req)
    \/ RejectCancelTicker(req)
    \/ RejectCancelOrder(req)
    \/ handle_invalid_request(req)

\* ClientRequest.  A New carries the client's own id; side 0 stands for every
\* i8 other than 1 and -1.  The side, price and quantity of the other two are
\* only echoed; 0 is what OrderGateway::send_cancel sends for an order it does
\* not track.  "Other" is every msg_type from_u8 does not know.
Requests ==
    [msg_type : {"New"}, client_id : Clients, ticker_id : Tickers,
     order_id : ClientOrderIds, side : Sides \cup {0},
     price : Prices, qty : OrderQtys]
    \cup
    [msg_type : {"Cancel", "Other"}, client_id : Clients, ticker_id : Tickers,
     order_id : ClientOrderIds \cup 1 .. MaxOrderId,
     side : {0}, price : {0}, qty : {0}]

Next ==
    \/ \E t \in Tickers : add_ticker(t)
    \/ \E req \in Requests : process_request(req)

Spec == Init /\ [][Next]_vars

-----------------------------------------------------------------------------
LiveKeys == UNION {{<<t, id>> : id \in LiveIds(order_books[t])} : t \in DOMAIN order_books}

\* Type invariant of the engine and of every book it keeps.
TypeOK ==
    /\ DOMAIN order_books \subseteq Tickers
    /\ \A t \in DOMAIN order_books : BookTypeOK(order_books[t])
    /\ next_order_id \in Nat \ {0}
    /\ updates = <<>> \/ Len(updates) = 1

\* Every book the engine keeps satisfies the invariants of OrderBook.
BooksSound == \A t \in DOMAIN order_books : BookInv(order_books[t])

\* A market order id names at most one resting order of the whole exchange, and
\* the next one to hand out names none, so that add_order never meets a duplicate:
\* an order is refused only by a full pool.
MarketIdsUnique ==
    /\ \A t \in DOMAIN order_books : LiveIds(order_books[t]) \subseteq 1 .. next_order_id - 1
    /\ \A t, u \in DOMAIN order_books :
          t # u => LiveIds(order_books[t]) \cap LiveIds(order_books[u]) = {}

\* A market order id is never handed out again, also after its order was cancelled:
\* a new order gets an id that next_order_id had not passed before, and
\* next_order_id never goes back.
MarketIdsNotReused ==
    [][/\ next_order_id =< next_order_id'
       /\ \A k \in LiveKeys' \ LiveKeys : k[2] \in next_order_id .. next_order_id' - 1]_vars

\* What the clients were told agrees with the books: an order rests iff its
\* Accepted was returned and no Canceled since, with the quantity last told.
ResponsesMirrorBooks ==
    /\ DOMAIN acked = LiveKeys
    /\ \A k \in LiveKeys : acked[k] = OrderOf(order_books[k[1]], k[2]).qty

\* A subscriber that replays every update holds exactly the resting orders,
\* with their sides, prices and quantities.
FeedMirrorsBooks ==
    /\ DOMAIN feed = LiveKeys
    /\ \A k \in LiveKeys :
          LET o == OrderOf(order_books[k[1]], k[2])
          IN  feed[k] = [side |-> o.side, price |-> o.price, qty |-> o.qty]

\* A request that is answered with a rejection moves no order: every book
\* keeps its resting orders, levels and free slots, and nothing is published.
RejectionsChangeNothing ==
    [][/\ DOMAIN order_books' = DOMAIN order_books
       /\ response'.msg_type \in {"InvalidRequest", "CancelRejected"}
       => UNCHANGED order_books /\ updates' = <<>>]_vars
=============================================================================
