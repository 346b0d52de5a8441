----------------------------- MODULE MarketData ------------------------------
(***************************************************************************)
(* The market data path: the publisher, a multicast network that may lose  *)
(* datagrams, and receivers (trading/src/market_data.rs) that join late    *)
(* and restart.  The source of the updates is the set of resting orders    *)
(* that the engine's updates describe (MatchingEngine!FeedMirrorsBooks).   *)
(***************************************************************************)
EXTENDS MarketDataPublisher

CONSTANTS Receivers, Ids,
          Flows,             \* sets of orders: clients send the orders of one
          Lossy,             \* whether the network may lose a datagram
          SocketBuffer,      \* datagrams a receiving socket holds
          MaxCount           \* bound: updates sent without a complete snapshot

ASSUME MarketDataAssumption ==
    /\ Flows \subseteq SUBSET [ticker_id : Tickers, side : Sides, price : Nat, qty : Nat]
    /\ Lossy \in BOOLEAN /\ MaxCount \in Nat /\ SocketBuffer \in Nat

VARIABLES flow,              \* the orders that clients send, chosen at the start
          resting,           \* order id -> ticker, side, price, qty
          bbo,               \* receiver -> ticker -> BBO, for joined receivers
          queue,             \* receiver -> datagrams its socket holds
          gap,               \* history: receivers and tickers that missed the
                             \* removal of quantity since the last Clear
          since,             \* history: updates sent since the last time every
                             \* valid quote was sent as a snapshot
          failed             \* history: the last publish returned an error

receivers == <<bbo, queue>>
vars == <<publisher, flow, resting, receivers, gap, since, failed>>

Joined == DOMAIN bbo

Init ==
    /\ PublisherInit /\ flow \in Flows
    /\ resting = [id \in {} |-> 0]
    /\ bbo = [r \in {} |-> 0] /\ queue = [r \in {} |-> 0]
    /\ gap = {} /\ since = 0 /\ failed = FALSE

-----------------------------------------------------------------------------
\* poll, and process_update of what it returned.
poll_and_process(r) ==
    /\ r \in Joined /\ queue[r] # <<>>
    /\ LET u == Head(queue[r])
           b == IF u.ticker_id \in DOMAIN bbo[r] THEN bbo[r][u.ticker_id] ELSE NewBBO
       IN  bbo' = [bbo EXCEPT ![r] =
              [t \in DOMAIN @ \cup {u.ticker_id} |->
                 IF t = u.ticker_id THEN process_update(b, u) ELSE @[t]]]
    /\ queue' = [queue EXCEPT ![r] = Tail(@)]
    /\ UNCHANGED <<publisher, resting, gap, since, failed>>

\* MarketDataReceiver::new in a process that starts.
join(r) ==
    /\ r \notin Joined
    /\ bbo' = [x \in Joined \cup {r} |-> IF x = r THEN [t \in {} |-> 0] ELSE bbo[x]]
    /\ queue' = [x \in Joined \cup {r} |-> IF x = r THEN <<>> ELSE queue[x]]
    /\ gap' = {g \in gap : g[1] # r}
    /\ UNCHANGED <<publisher, resting, since, failed>>

\* The process of the receiver ends.
leave(r) ==
    /\ r \in Joined
    /\ bbo' = [x \in Joined \ {r} |-> bbo[x]]
    /\ queue' = [x \in Joined \ {r} |-> queue[x]]
    /\ UNCHANGED <<publisher, resting, gap, since, failed>>

-----------------------------------------------------------------------------
\* Every valid quote of the publisher is among the sends as a snapshot.
SnapshotComplete(sends, st) ==
    \A t \in DOMAIN st : \A m \in Range(SnapshotOf(t, st[t])) :
       \E i \in DOMAIN sends : sends[i] = [msg |-> m, ok |-> TRUE]

IsUpdate(send) == send.msg.msg_type \notin {"Snapshot", "Clear"}

Removes(u) == u.msg_type \in {"Cancel", "Trade", "Clear"}

\* The receivers that a Clear of a ticker reaches, and the ones that miss a
\* removal.
ClearedAt(arrived, sends) ==
    UNION {{<<r, sends[i].msg.ticker_id>> : i \in {j \in arrived[r] : sends[j].msg.msg_type = "Clear"}}
           : r \in Joined}

MissedAt(arrived, sends) ==
    UNION {{<<r, sends[i].msg.ticker_id>> : i \in {j \in DOMAIN sends \ arrived[r] : Removes(sends[j].msg)}}
           : r \in Joined}

\* The messages at these places, in their order.
MessagesAt(places, sends) ==
    LET at == SelectSeq([i \in DOMAIN sends |-> i], LAMBDA i : i \in places)
    IN  [k \in DOMAIN at |-> sends[at[k]].msg]

\* What an operation sends reaches the receivers, or is lost: what a socket has
\* no room for always is.
multicast(sends) ==
    /\ since' = IF SnapshotComplete(sends, ticker_state') THEN 0
                ELSE IF sends # <<>> /\ IsUpdate(sends[1]) /\ sends[1].ok THEN since + 1
                ELSE since
    /\ UNCHANGED bbo
    /\ \E arrived \in [Joined -> SUBSET {i \in DOMAIN sends : sends[i].ok}] :
          /\ \A r \in Joined :
                LET held == Len(queue[r]) + Cardinality(arrived[r])
                IN  /\ held =< SocketBuffer
                    /\ \/ Lossy \/ held = SocketBuffer
                       \/ arrived[r] = {i \in DOMAIN sends : sends[i].ok}
          /\ queue' = [r \in Joined |-> queue[r] \o MessagesAt(arrived[r], sends)]
          /\ gap' = (gap \ ClearedAt(arrived, sends)) \cup MissedAt(arrived, sends)

UpdateOf(type, o, side, qty) ==
    [msg_type |-> type, ticker_id |-> o.ticker_id, side |-> side, price |-> o.price, qty |-> qty]

\* The exchange publishes an update.
Publish(u) ==
    /\ updates_since_snapshot < MaxCount
    /\ \E sends \in PublishSends(u) : /\ publish(u, sends) /\ multicast(sends)
                                      /\ failed' = ~Succeeded(sends)

\* The engine accepts an order, cancels one, and (no code does so yet) trades.
Add(id, o) ==
    /\ id \notin DOMAIN resting
    /\ resting' = [x \in DOMAIN resting \cup {id} |-> IF x = id THEN o ELSE resting[x]]
    /\ Publish(UpdateOf("Add", o, o.side, o.qty))

Without(id) == [x \in DOMAIN resting \ {id} |-> resting[x]]

Cancel(id) ==
    /\ resting' = Without(id)
    /\ Publish(UpdateOf("Cancel", resting[id], resting[id].side, resting[id].qty))

Trade(id, qty) ==
    /\ resting' = IF qty = resting[id].qty THEN Without(id)
                  ELSE [resting EXCEPT ![id].qty = @ - qty]
    /\ Publish(UpdateOf("Trade", resting[id], -resting[id].side, qty))

Clear(t) ==
    /\ resting' = [id \in {x \in DOMAIN resting : resting[x].ticker_id # t} |-> resting[id]]
    /\ \E sends \in ClearSends(t) : publish_clear(t, sends) /\ multicast(sends)
    /\ UNCHANGED failed

Snapshot ==
    /\ \/ \E sends \in Snapshots(ticker_state) : publish_snapshot(sends) /\ multicast(sends)
       \/ \E t \in Tickers : \E sends \in TickerSnapshotSends(t) :
             publish_ticker_snapshot(t, sends) /\ multicast(sends)
    /\ UNCHANGED <<resting, failed>>

Exchange ==
    \/ \E id \in Ids, o \in flow : Add(id, o)
    \/ \E id \in DOMAIN resting : Cancel(id) \/ \E qty \in 1 .. resting[id].qty : Trade(id, qty)
    \/ \E t \in Tickers : Clear(t)
    \/ Snapshot

Next ==
    /\ Exchange \/ \E r \in Receivers : join(r) \/ leave(r) \/ poll_and_process(r)
    /\ UNCHANGED flow

Spec == Init /\ [][Next]_vars

-----------------------------------------------------------------------------
\* Type invariant of the path.
TypeOK ==
    /\ DOMAIN ticker_state \subseteq Tickers
    /\ \A t \in DOMAIN ticker_state, s \in Sides :
          ticker_state[t][s].price \in Nat /\ ticker_state[t][s].qty \in Nat
    /\ updates_since_snapshot \in 0 .. MaxCount
    /\ DOMAIN queue = Joined /\ Joined \subseteq Receivers

\* Some order rests at this price with at least this quantity.
Backed(t, side, level) ==
    \E id \in DOMAIN resting : /\ resting[id].ticker_id = t /\ resting[id].side = side
                               /\ resting[id].price = level.price
                               /\ resting[id].qty >= level.qty

\* The publisher never quotes quantity that is not there: whatever fails on
\* the wire, its price of a side has an order behind it and its quantity is
\* at most the quantity of that order.
QuotesBacked ==
    \A t \in DOMAIN ticker_state, s \in Sides :
       ticker_state[t][s].qty > 0 => Backed(t, s, ticker_state[t][s])

\* The same for a receiver that has read all of its datagrams and has missed
\* no removal since the last Clear or since it joined, however late.
BBOBacked ==
    \A r \in Joined : queue[r] = <<>> =>
       \A t \in DOMAIN bbo[r], s \in Sides :
          <<r, t>> \notin gap /\ bbo[r][t][s].qty > 0 => Backed(t, s, bbo[r][t][s])

\* Once publish reports success, fewer than snapshot_interval updates were sent
\* since the last complete snapshot: one that an error cut short between two of
\* its sends is made up for by the next publish that succeeds, also after several
\* failures.
SnapshotDue ==
    enable_snapshots /\ snapshot_interval > 0 /\ ~failed => since < snapshot_interval
=============================================================================
