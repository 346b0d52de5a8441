------------------------- MODULE MarketDataPublisher -------------------------
(***************************************************************************)
(* exchange/src/market_data.rs: multicasts the engine's updates, keeps one *)
(* price and quantity per side of each ticker, and sends them as snapshots *)
(* every snapshot_interval updates.  The two sides are handled alike, with *)
(* opposite comparisons: a state maps a side to its price and quantity.    *)
(* The last argument of an operation is what it sends, [msg, ok] in order, *)
(* one of the outcomes that the definition before it gives.                *)
(* Left out: sequence, last_seq and the totals, which no code acts on.     *)
(***************************************************************************)
EXTENDS BBO, Sequences, FiniteSets, Functions

CONSTANTS Tickers,
          enable_snapshots, snapshot_interval,
          SendFails          \* whether socket.send_to may return an error

ASSUME PublisherAssumption ==
    /\ enable_snapshots \in BOOLEAN /\ snapshot_interval \in Nat
    /\ SendFails \in BOOLEAN

VARIABLES ticker_state, updates_since_snapshot

publisher == <<ticker_state, updates_since_snapshot>>

DefaultState == [s \in Sides |-> [price |-> 0, qty |-> 0]]

\* Mutant: the cancel of a quantity that differs is ignored.
CanceledAtExactQty(level, u) ==
    IF u.price = level.price /\ u.qty = level.qty THEN [price |-> 0, qty |-> 0] ELSE level

Canceled(level, u) ==
    LET left == saturating_sub(level.qty, u.qty)
    IN  IF u.price = level.price
        THEN [price |-> IF left = 0 THEN 0 ELSE level.price, qty |-> left]
        ELSE level

Quoted(level, u) ==
    IF level.price = 0 \/ u.price = level.price \/ Better(u.side, u.price, level.price)
    THEN [price |-> u.price, qty |-> u.qty]
    ELSE level

update_ticker_state(state, u) ==
    CASE u.msg_type \in {"Add", "Modify", "Snapshot"} ->
            [state EXCEPT ![u.side] = Quoted(@, u)]
      [] u.msg_type = "Cancel" -> [state EXCEPT ![u.side] = Canceled(@, u)]
      [] u.msg_type = "Trade"  -> [state EXCEPT ![-u.side] = Traded(@, u)]
      [] u.msg_type = "Clear"  -> DefaultState

StateOf(t) == IF t \in DOMAIN ticker_state THEN ticker_state[t] ELSE DefaultState

WithState(t, state) ==
    [x \in DOMAIN ticker_state \cup {t} |-> IF x = t THEN state ELSE ticker_state[x]]

\* The snapshot messages of one ticker: the bid, then the ask, if valid.
SnapshotOf(t, state) ==
    LET Of(s) == IF state[s].price > 0 /\ state[s].qty > 0
                 THEN <<[msg_type |-> "Snapshot", ticker_id |-> t, side |-> s,
                         price |-> state[s].price, qty |-> state[s].qty]>>
                 ELSE <<>>
    IN  Of(BUY) \o Of(SELL)

\* What the sends of msgs put on the wire: all of them, or up to the first
\* error.
Sends(msgs) ==
    {[i \in DOMAIN msgs |-> [msg |-> msgs[i], ok |-> TRUE]]}
    \cup (IF SendFails
          THEN {[i \in 1 .. n |-> [msg |-> msgs[i], ok |-> i < n]] : n \in DOMAIN msgs}
          ELSE {})

Succeeded(sends) == \A i \in DOMAIN sends : sends[i].ok

-----------------------------------------------------------------------------
PublisherInit ==
    /\ ticker_state = [t \in Tickers |-> DefaultState]   \* register_ticker
    /\ updates_since_snapshot = 0

\* Mutant: the counter is reset although the snapshot was cut short.
SnapshotCountReset(sends, count) == 0

\* updates_since_snapshot after publish_snapshot.
SnapshotCount(sends, count) == IF Succeeded(sends) THEN 0 ELSE count

\* seqs[1] \o seqs[2] \o ...
Concatenated(seqs) ==
    MapThenFoldSet(LAMBDA s, t : s \o t, <<>>, LAMBDA i : seqs[i],
                   LAMBDA S : CHOOSE i \in S : \A j \in S : i =< j, DOMAIN seqs)

\* publish_snapshot on states st; the HashMap is walked in any order.
Snapshots(st) ==
    UNION {Sends(Concatenated([i \in DOMAIN order |-> SnapshotOf(order[i], st[order[i]])])) :
           order \in Bijection(1 .. Cardinality(DOMAIN st), DOMAIN st)}

publish_snapshot(sends) ==
    /\ updates_since_snapshot' = SnapshotCount(sends, updates_since_snapshot)
    /\ UNCHANGED ticker_state

\* The states after publish of u: they are updated before the send that may fail.
StatesAfter(u) ==
    IF enable_snapshots
    THEN WithState(u.ticker_id, update_ticker_state(StateOf(u.ticker_id), u))
    ELSE ticker_state

SnapshotIsDue(count) ==
    enable_snapshots /\ snapshot_interval > 0 /\ count >= snapshot_interval

\* The update, and after it the snapshots if they are due.
PublishSends(u) ==
    UNION {IF Succeeded(first) /\ SnapshotIsDue(updates_since_snapshot + 1)
           THEN {first \o sends : sends \in Snapshots(StatesAfter(u))}
           ELSE {first} : first \in Sends(<<u>>)}

publish(u, sends) ==
    LET count == updates_since_snapshot + 1
    IN  /\ ticker_state' = StatesAfter(u)
        /\ updates_since_snapshot' =
              IF ~sends[1].ok THEN updates_since_snapshot
              ELSE IF SnapshotIsDue(count) THEN SnapshotCount(sends, count)
              ELSE count

TickerSnapshotSends(t) ==
    Sends(IF t \in DOMAIN ticker_state THEN SnapshotOf(t, ticker_state[t]) ELSE <<>>)

publish_ticker_snapshot(t, sends) == UNCHANGED <<ticker_state, updates_since_snapshot>>

ClearSends(t) ==
    Sends(<<[msg_type |-> "Clear", ticker_id |-> t, side |-> 0, price |-> 0, qty |-> 0]>>)

\* The state goes even if the send fails; updates_since_snapshot stays.
publish_clear(t, sends) ==
    /\ ticker_state' = [x \in DOMAIN ticker_state \ {t} |-> ticker_state[x]]
    /\ UNCHANGED updates_since_snapshot
=============================================================================
