---------------------------- MODULE ChannelProofs ----------------------------
(***************************************************************************)
(* The channels on which a thread or a process sends to another that does  *)
(* not answer: the market data feed, the logger, and the lock-free queue   *)
(* under the logger.                                                       *)
(*                                                                         *)
(* The publisher's quotes are backed by resting orders, for every set of   *)
(* tickers, ids, prices and quantities, every interval between snapshots,  *)
(* and whatever sends fail.  The logger's queue stays within its capacity. *)
(* The lock-free queue is free of data races and implements a FIFO, for    *)
(* every capacity, every width of its indices and all items.               *)
(***************************************************************************)
EXTENDS MarketData, Logger, LFQueue, TLAPS

\* The provers get more time than by default.
USE SMTT(30), ZenonT(30)

-----------------------------------------------------------------------------
\* The market data feed.
Level == [price : Nat, qty : Nat]
RestingOrder == [ticker_id : Tickers, side : Sides, price : Nat, qty : Nat]

RestingOK == \A id \in DOMAIN resting : resting[id] \in RestingOrder
StatesOK == /\ DOMAIN ticker_state \subseteq Tickers
            /\ \A t \in DOMAIN ticker_state : ticker_state[t] \in [Sides -> Level]
CountOK == updates_since_snapshot \in 0 .. MaxCount
QueuesOK == DOMAIN queue = Joined /\ Joined \subseteq Receivers
FlowOK == flow \subseteq RestingOrder

\* A publisher without snapshots keeps no quotes.
QuietOK == enable_snapshots \/ \A t \in DOMAIN ticker_state : ticker_state[t] = DefaultState

\* The inductive invariant.
Inv == RestingOK /\ StatesOK /\ CountOK /\ QueuesOK /\ FlowOK /\ QuietOK /\ QuotesBacked

-----------------------------------------------------------------------------
\* A side and its opposite.
LEMMA SideFacts == \A s \in Sides : -s \in Sides /\ -(-s) = s
  BY DEF Sides, BUY, SELL

\* Backed, for any map of resting orders.
Behind(rs, t, side, level) ==
    \E id \in DOMAIN rs : /\ rs[id].ticker_id = t /\ rs[id].side = side
                          /\ rs[id].price = level.price /\ rs[id].qty >= level.qty

QuotesOf(st, rs, t) == \A s \in Sides : st[s].qty > 0 => Behind(rs, t, s, st[s])

\* QuotesBacked, ticker by ticker.
LEMMA QuotesByTicker ==
    QuotesBacked <=> \A t \in DOMAIN ticker_state : QuotesOf(ticker_state[t], resting, t)
  BY DEF QuotesBacked, Backed, QuotesOf, Behind

\* The state of a ticker the publisher has not seen quotes nothing.
LEMMA StateOfTyped ==
    ASSUME Inv, NEW t
    PROVE  StateOf(t) \in [Sides -> Level] /\ QuotesOf(StateOf(t), resting, t)
  <1>1. CASE t \in DOMAIN ticker_state
    BY <1>1, QuotesByTicker DEF Inv, StatesOK, StateOf
  <1>2. CASE t \notin DOMAIN ticker_state
    BY <1>2 DEF StateOf, DefaultState, Level, QuotesOf
  <1> QED
    BY <1>1, <1>2

\* publish changes the state of one ticker: it keeps the invariant if that state
\* is backed afterwards and the orders of the other tickers still rest.
LEMMA PublishKeeps ==
    ASSUME Inv, NEW u, NEW sends, publish(u, sends), u.ticker_id \in Tickers,
           NEW st, st = update_ticker_state(StateOf(u.ticker_id), u),
           st \in [Sides -> Level], QuotesOf(st, resting', u.ticker_id),
           \A t \in Tickers \ {u.ticker_id}, s \in Sides, l \in Level :
              Behind(resting, t, s, l) => Behind(resting', t, s, l)
    PROVE  StatesOK' /\ QuietOK' /\ QuotesBacked'
  <1>0. CASE ~enable_snapshots
    <2>1. ticker_state' = ticker_state /\ \A t \in DOMAIN ticker_state : ticker_state[t] = DefaultState
      BY <1>0, Zenon DEF publish, StatesAfter, Inv, QuietOK
    <2>2. \A s \in Sides : DefaultState[s].qty = 0
      BY Zenon DEF DefaultState
    <2> QED
      BY <1>0, <2>1, <2>2 DEF Inv, StatesOK, QuietOK, QuotesBacked
  <1> SUFFICES ASSUME enable_snapshots
               PROVE  StatesOK' /\ QuotesBacked'
    BY <1>0, Zenon DEF QuietOK
  <1>1. /\ DOMAIN ticker_state' = DOMAIN ticker_state \cup {u.ticker_id}
        /\ ticker_state'[u.ticker_id] = st
        /\ \A t \in DOMAIN ticker_state : t # u.ticker_id => ticker_state'[t] = ticker_state[t]
    BY ZenonT(30) DEF publish, StatesAfter, WithState
  <1>2. StatesOK'
    BY <1>1, ZenonT(30) DEF Inv, StatesOK
  <1>3. \A t \in DOMAIN ticker_state' : QuotesOf(ticker_state'[t], resting', t)
    <2> SUFFICES ASSUME NEW t \in DOMAIN ticker_state, t # u.ticker_id
                 PROVE  QuotesOf(ticker_state[t], resting', t)
      BY <1>1
    <2>1. QuotesOf(ticker_state[t], resting, t) /\ ticker_state[t] \in [Sides -> Level] /\ t \in Tickers
      BY QuotesByTicker DEF Inv, StatesOK
    <2> QED
      BY <2>1, ZenonT(30) DEF QuotesOf
  <1>4. QuotesBacked'
    BY <1>3, Zenon DEF QuotesBacked, Backed, QuotesOf, Behind
  <1> QED
    BY <1>2, <1>4

\* The count of updates since the last snapshot grows by at most one.
LEMMA PublishCount ==
    ASSUME CountOK, updates_since_snapshot < MaxCount, NEW u, NEW sends, publish(u, sends)
    PROVE  CountOK'
  <1>1. updates_since_snapshot' \in {0, updates_since_snapshot, updates_since_snapshot + 1}
    BY DEF publish, SnapshotCount
  <1> QED
    BY <1>1, MarketDataAssumption DEF CountOK

\* multicast leaves the set of receivers alone.
LEMMA MulticastQueues ==
    ASSUME QueuesOK, NEW sends, multicast(sends)
    PROVE  QueuesOK'
  BY Zenon DEF QueuesOK, multicast, Joined

\* What Publish does.
LEMMA PublishSteps ==
    ASSUME NEW u, Publish(u)
    PROVE  /\ updates_since_snapshot < MaxCount
           /\ \E sends : publish(u, sends) /\ multicast(sends)
  BY Zenon DEF Publish

-----------------------------------------------------------------------------
\* A new order: its level is replaced by the order itself, or stays.
LEMMA AddKeeps ==
    ASSUME Inv, NEW id \in Ids, NEW o \in flow, Add(id, o), flow' = flow
    PROVE  Inv'
  <1> DEFINE u == UpdateOf("Add", o, o.side, o.qty)
             t == o.ticker_id
             old == StateOf(t)
             new == [price |-> o.price, qty |-> o.qty]
             st == update_ticker_state(old, u)
  <1>1. /\ o \in RestingOrder
        /\ u.msg_type = "Add" /\ u.ticker_id = t /\ u.side = o.side
        /\ u.price = o.price /\ u.qty = o.qty
    BY Zenon DEF UpdateOf, Inv, FlowOK
  <1>2. /\ resting' = [x \in DOMAIN resting \cup {id} |-> IF x = id THEN o ELSE resting[x]]
        /\ id \notin DOMAIN resting /\ updates_since_snapshot < MaxCount
    BY PublishSteps, Zenon DEF Add
  <1> PICK sends : publish(u, sends) /\ multicast(sends)
    BY PublishSteps, Zenon DEF Add
  <1>3. RestingOK'
    BY <1>1, <1>2, Zenon DEF Inv, RestingOK
  <1>4. \A x, s, l : Behind(resting, x, s, l) => Behind(resting', x, s, l)
    BY <1>2 DEF Behind
  <1>5. Behind(resting', t, o.side, new)
    BY <1>1, <1>2 DEF Behind, RestingOrder
  <1>6. /\ old \in [Sides -> Level] /\ QuotesOf(old, resting, t)
        /\ o.side \in Sides /\ t \in Tickers /\ new \in Level
    BY <1>1, StateOfTyped DEF RestingOrder, Level
  <1>7. st = [old EXCEPT ![o.side] = Quoted(old[o.side], u)]
    BY <1>1 DEF update_ticker_state
  <1>8. Quoted(old[o.side], u) \in {old[o.side], new}
    BY <1>1, Zenon DEF Quoted
  <1>9. st \in [Sides -> Level] /\ QuotesOf(st, resting', t)
    BY <1>4, <1>5, <1>6, <1>7, <1>8, ZenonT(30) DEF QuotesOf
  <1>10. StatesOK' /\ QuietOK' /\ QuotesBacked'
    BY <1>1, <1>2, <1>4, <1>6, <1>9, PublishKeeps, ZenonT(30)
  <1> QED
    BY <1>2, <1>3, <1>10, PublishCount, MulticastQueues, Zenon DEF Inv, FlowOK

-----------------------------------------------------------------------------
\* qty is taken from the order id, which leaves the book when nothing is left.
Taken(id, qty) ==
    /\ id \in DOMAIN resting /\ qty \in Nat /\ qty =< resting[id].qty
    /\ \/ resting' = Without(id) /\ qty = resting[id].qty
       \/ resting' = [resting EXCEPT ![id].qty = @ - qty]

\* A quote that loses as much as the order stays backed: by that order, if it
\* was the one behind the quote, or by the one that was.
LEMMA TakenBacked ==
    ASSUME RestingOK, NEW id, NEW qty, Taken(id, qty), NEW t, NEW s, NEW l \in Level,
           Behind(resting, t, s, l)
    PROVE  /\ \/ resting[id].ticker_id # t \/ resting[id].side # s \/ resting[id].price # l.price
              => Behind(resting', t, s, l)
           /\ \A left \in Nat : left > 0 /\ left = saturating_sub(l.qty, qty) =>
                 Behind(resting', t, s, [price |-> l.price, qty |-> left])
  <1>1. PICK x \in DOMAIN resting : /\ resting[x].ticker_id = t /\ resting[x].side = s
                                    /\ resting[x].price = l.price /\ resting[x].qty >= l.qty
    BY Zenon DEF Behind
  <1>2. /\ resting[x] \in RestingOrder /\ resting[id] \in RestingOrder
        /\ id \in DOMAIN resting /\ qty \in Nat /\ l.qty \in Nat
    BY <1>1 DEF RestingOK, Taken, Level
  <1>3. CASE x # id
    <2>1. x \in DOMAIN resting' /\ resting'[x] = resting[x]
      BY <1>1, <1>2, <1>3 DEF Taken, Without
    <2> QED
      BY <1>1, <1>2, <2>1 DEF Behind, saturating_sub, RestingOrder
  <1>4. CASE x = id
    <2> SUFFICES ASSUME NEW left \in Nat, left > 0, left = saturating_sub(l.qty, qty)
                 PROVE  Behind(resting', t, s, [price |-> l.price, qty |-> left])
      BY <1>1, <1>4, Zenon
    <2>1. l.qty > qty /\ left = l.qty - qty
      BY <1>2 DEF saturating_sub
    <2>2. resting' = [resting EXCEPT ![id].qty = @ - qty]
      BY <1>1, <1>2, <1>4, <2>1 DEF Taken, RestingOrder
    <2>3. /\ id \in DOMAIN resting' /\ resting'[id].ticker_id = t /\ resting'[id].side = s
          /\ resting'[id].price = l.price /\ resting'[id].qty = resting[id].qty - qty
      BY <1>1, <1>2, <1>4, <2>2 DEF RestingOrder
    <2> QED
      BY <1>1, <1>2, <1>4, <2>1, <2>3 DEF Behind, RestingOrder
  <1> QED
    BY <1>3, <1>4, ZenonT(30)

\* A level that loses a quantity, by a cancel and by a trade.
LEMMA LevelAfter ==
    ASSUME NEW l \in Level, NEW u, u.qty \in Nat
    PROVE  \A after \in {Canceled(l, u), Traded(l, u)} :
              /\ after \in Level
              /\ u.price # l.price => after = l
              /\ u.price = l.price =>
                    /\ after.qty = saturating_sub(l.qty, u.qty)
                    /\ after.qty > 0 => after.price = l.price
  <1> DEFINE left == saturating_sub(l.qty, u.qty)
  <1>1. left \in Nat /\ l.price \in Nat /\ l = [price |-> l.price, qty |-> l.qty]
    BY DEF saturating_sub, Level
  <1>2. CASE u.price # l.price
    BY <1>2 DEF Canceled, Traded
  <1>3. CASE u.price = l.price
    <2>1. Canceled(l, u) = [price |-> IF left = 0 THEN 0 ELSE l.price, qty |-> left]
      BY <1>3 DEF Canceled
    <2>2. Traded(l, u) = [price |-> l.price, qty |-> left]
      BY <1>1, <1>3 DEF Traded, Level
    <2> HIDE DEF left
    <2>3. [price |-> IF left = 0 THEN 0 ELSE l.price, qty |-> left] \in Level
          /\ [price |-> l.price, qty |-> left] \in Level
      BY <1>1 DEF Level
    <2> USE DEF left
    <2> QED
      BY <1>1, <1>3, <2>1, <2>2, <2>3
  <1> QED
    BY <1>2, <1>3

\* The orders that stay are well typed.
LEMMA TakenTyped ==
    ASSUME RestingOK, NEW id, NEW qty, Taken(id, qty)
    PROVE  RestingOK'
  <1>1. \A x \in DOMAIN resting' : x \in DOMAIN resting
    BY DEF Taken, Without
  <1>2. \A x \in DOMAIN resting' : x # id => resting'[x] = resting[x]
    BY DEF Taken, Without
  <1>3. id \in DOMAIN resting' => resting'[id] \in RestingOrder
    <2>1. resting[id] \in RestingOrder /\ qty \in Nat /\ qty =< resting[id].qty
      BY DEF Taken, RestingOK
    <2>2. [resting[id] EXCEPT !.qty = @ - qty] \in RestingOrder
      BY <2>1 DEF RestingOrder
    <2> QED
      BY <2>2 DEF Taken, Without
  <1> QED
    BY <1>1, <1>2, <1>3 DEF RestingOK

\* Update u makes a level of the order's ticker and side the level after: it loses
\* the quantity if it has the order's price, and stays otherwise.
Removal(id, qty, u, after) ==
    \E t, s :
       /\ t = resting[id].ticker_id /\ u.ticker_id = t /\ s = resting[id].side
       /\ update_ticker_state(StateOf(t), u) = [StateOf(t) EXCEPT ![s] = after]
       /\ after \in Level
       /\ resting[id].price # StateOf(t)[s].price => after = StateOf(t)[s]
       /\ resting[id].price = StateOf(t)[s].price =>
             after.qty = saturating_sub(StateOf(t)[s].qty, qty)
             /\ (after.qty > 0 => after.price = StateOf(t)[s].price)

\* A removal keeps every quote backed.
LEMMA RemovalKeeps ==
    ASSUME Inv, NEW id, NEW qty, Taken(id, qty), NEW u, NEW sends, publish(u, sends),
           NEW after, Removal(id, qty, u, after)
    PROVE  StatesOK' /\ QuietOK' /\ QuotesBacked'
  <1> PICK t, s :
       /\ t = resting[id].ticker_id /\ u.ticker_id = t /\ s = resting[id].side
       /\ update_ticker_state(StateOf(t), u) = [StateOf(t) EXCEPT ![s] = after]
       /\ after \in Level
       /\ resting[id].price # StateOf(t)[s].price => after = StateOf(t)[s]
       /\ resting[id].price = StateOf(t)[s].price =>
             after.qty = saturating_sub(StateOf(t)[s].qty, qty)
             /\ (after.qty > 0 => after.price = StateOf(t)[s].price)
    BY Zenon DEF Removal
  <1> DEFINE old == StateOf(t)
             st == update_ticker_state(old, u)
  <1>1. /\ old \in [Sides -> Level] /\ QuotesOf(old, resting, t)
        /\ RestingOK /\ resting[id] \in RestingOrder
    BY StateOfTyped DEF Inv, RestingOK, Taken
  <1>2. s \in Sides /\ t \in Tickers /\ qty \in Nat /\ old[s].qty \in Nat /\ old[s].price \in Nat
    BY <1>1, Zenon DEF RestingOrder, Level, Taken
  <1>3. st \in [Sides -> Level] /\ st[s] = after /\ \A x \in Sides : x # s => st[x] = old[x]
    BY <1>1, <1>2, Zenon
  <1>4. after.qty > 0 => Behind(resting', t, s, after)
    <2> SUFFICES ASSUME after.qty > 0 PROVE Behind(resting', t, s, after)
      OBVIOUS
    <2>1. CASE resting[id].price # old[s].price
      BY <1>1, <1>2, <2>1, TakenBacked, ZenonT(30) DEF QuotesOf
    <2>2. CASE resting[id].price = old[s].price
      <3>1. old[s].qty > 0 /\ after = [price |-> old[s].price, qty |-> after.qty]
        BY <1>2, <2>2 DEF saturating_sub, Level
      <3>2. Behind(resting, t, s, old[s])
        BY <1>1, <1>2, <3>1, Zenon DEF QuotesOf
      <3>3. after.qty \in Nat /\ after.qty = saturating_sub(old[s].qty, qty)
        BY <2>2, Zenon DEF Level
      <3>4. old[s] \in Level
        BY <1>1, <1>2
      <3>5. Behind(resting', t, s, [price |-> old[s].price, qty |-> after.qty])
        BY <1>1, <3>2, <3>3, <3>4, TakenBacked, ZenonT(30)
      <3> QED
        BY <3>1, <3>5
    <2> QED
      BY <2>1, <2>2, Zenon
  <1>5. QuotesOf(st, resting', t)
    <2> SUFFICES ASSUME NEW x \in Sides, x # s, old[x].qty > 0
                 PROVE  Behind(resting', t, x, old[x])
      BY <1>3, <1>4 DEF QuotesOf
    <2> QED
      BY <1>1, TakenBacked DEF QuotesOf
  <1>6. \A x \in Tickers \ {t}, y \in Sides, l \in Level :
           Behind(resting, x, y, l) => Behind(resting', x, y, l)
    BY <1>1, TakenBacked
  <1> QED
    BY <1>2, <1>3, <1>5, <1>6, PublishKeeps

\* A cancelled order takes its quantity from its level.
LEMMA CancelKeeps ==
    ASSUME Inv, NEW id \in DOMAIN resting, Cancel(id), flow' = flow
    PROVE  Inv'
  <1> DEFINE o == resting[id]
             u == UpdateOf("Cancel", o, o.side, o.qty)
             old == StateOf(o.ticker_id)
             after == Canceled(old[o.side], u)
  <1>1. /\ resting' = Without(id) /\ id \in DOMAIN resting
        /\ updates_since_snapshot < MaxCount
    BY PublishSteps, Zenon DEF Cancel
  <1> PICK sends : publish(u, sends) /\ multicast(sends)
    BY PublishSteps, Zenon DEF Cancel
  <1>2. o \in RestingOrder /\ old \in [Sides -> Level]
    BY <1>1, StateOfTyped DEF Inv, RestingOK
  <1>3. Taken(id, o.qty)
    BY <1>1, <1>2 DEF Taken, RestingOrder
  <1>4. /\ u.msg_type = "Cancel" /\ u.ticker_id = o.ticker_id /\ u.side = o.side
        /\ u.price = o.price /\ u.qty = o.qty
    BY DEF UpdateOf
  <1>5. old[o.side] \in Level /\ o.qty \in Nat
    BY <1>2, Zenon DEF RestingOrder
  <1>6. update_ticker_state(old, u) = [old EXCEPT ![o.side] = after]
    BY <1>4, ZenonT(30) DEF update_ticker_state
  <1>7. /\ after \in Level
        /\ o.price # old[o.side].price => after = old[o.side]
        /\ o.price = old[o.side].price =>
              after.qty = saturating_sub(old[o.side].qty, o.qty)
              /\ (after.qty > 0 => after.price = old[o.side].price)
    BY <1>4, <1>5, LevelAfter
  <1>8. StatesOK' /\ QuietOK' /\ QuotesBacked'
    <2>1. Removal(id, o.qty, u, after)
      <3> HIDE DEF u, after
      <3> QED
        BY <1>4, <1>6, <1>7, Zenon DEF Removal
    <2> HIDE DEF u, after
    <2> QED
      BY <1>3, <2>1, RemovalKeeps, Zenon
  <1>9. RestingOK'
    BY <1>3, TakenTyped DEF Inv
  <1> QED
    BY <1>1, <1>8, <1>9, PublishCount, MulticastQueues, Zenon DEF Inv, FlowOK

\* A trade takes its quantity from the level of the order that rested.
LEMMA TradeKeeps ==
    ASSUME Inv, NEW id \in DOMAIN resting, NEW qty \in 1 .. resting[id].qty, Trade(id, qty),
           flow' = flow
    PROVE  Inv'
  <1> DEFINE o == resting[id]
             u == UpdateOf("Trade", o, -o.side, qty)
             old == StateOf(o.ticker_id)
             after == Traded(old[o.side], u)
  <1>1. /\ id \in DOMAIN resting /\ qty \in 1 .. o.qty
        /\ resting' = IF qty = o.qty THEN Without(id) ELSE [resting EXCEPT ![id].qty = @ - qty]
        /\ updates_since_snapshot < MaxCount
    BY PublishSteps, Zenon DEF Trade
  <1> PICK sends : publish(u, sends) /\ multicast(sends)
    BY PublishSteps, Zenon DEF Trade
  <1>2. o \in RestingOrder /\ old \in [Sides -> Level]
    BY <1>1, StateOfTyped DEF Inv, RestingOK
  <1>3. Taken(id, qty)
    BY <1>1, <1>2 DEF Taken, RestingOrder
  <1>4. /\ u.msg_type = "Trade" /\ u.ticker_id = o.ticker_id /\ -u.side = o.side
        /\ u.price = o.price /\ u.qty = qty
    BY <1>2, SideFacts, Zenon DEF UpdateOf, RestingOrder
  <1>5. old[o.side] \in Level /\ qty \in Nat
    BY <1>1, <1>2 DEF RestingOrder
  <1>6. update_ticker_state(old, u) = [old EXCEPT ![o.side] = after]
    BY <1>4, ZenonT(30) DEF update_ticker_state
  <1>7. /\ after \in Level
        /\ o.price # old[o.side].price => after = old[o.side]
        /\ o.price = old[o.side].price =>
              after.qty = saturating_sub(old[o.side].qty, qty)
              /\ (after.qty > 0 => after.price = old[o.side].price)
    BY <1>4, <1>5, LevelAfter
  <1>8. StatesOK' /\ QuietOK' /\ QuotesBacked'
    <2>1. Removal(id, qty, u, after)
      <3> HIDE DEF u, after
      <3> QED
        BY <1>4, <1>6, <1>7, Zenon DEF Removal
    <2> HIDE DEF u, after
    <2> QED
      BY <1>3, <2>1, RemovalKeeps, Zenon
  <1>9. RestingOK'
    BY <1>3, TakenTyped DEF Inv
  <1> QED
    BY <1>1, <1>8, <1>9, PublishCount, MulticastQueues, Zenon DEF Inv, FlowOK

\* The orders and the state of a ticker go together.
LEMMA ClearKeeps ==
    ASSUME Inv, NEW t \in Tickers, Clear(t), flow' = flow
    PROVE  Inv'
  <1>1. /\ resting' = [id \in {x \in DOMAIN resting : resting[x].ticker_id # t} |-> resting[id]]
        /\ ticker_state' = [x \in DOMAIN ticker_state \ {t} |-> ticker_state[x]]
        /\ updates_since_snapshot' = updates_since_snapshot
        /\ \E sends : multicast(sends)
    BY Zenon DEF Clear, publish_clear
  <1>2. RestingOK' /\ StatesOK' /\ CountOK' /\ QueuesOK' /\ FlowOK' /\ QuietOK'
    BY <1>1, MulticastQueues DEF Inv, RestingOK, StatesOK, CountOK, FlowOK, QuietOK
  <1>3. \A x \in DOMAIN ticker_state' : QuotesOf(ticker_state'[x], resting', x)
    <2> SUFFICES ASSUME NEW x \in DOMAIN ticker_state, x # t, NEW s \in Sides,
                        ticker_state[x][s].qty > 0
                 PROVE  Behind(resting', x, s, ticker_state[x][s])
      BY <1>1 DEF QuotesOf
    <2>1. Behind(resting, x, s, ticker_state[x][s])
      BY QuotesByTicker DEF Inv, QuotesOf
    <2> QED
      BY <1>1, <2>1 DEF Behind
  <1>4. QuotesBacked'
    BY <1>3 DEF QuotesBacked, Backed, QuotesOf, Behind
  <1> QED
    BY <1>2, <1>4, Zenon DEF Inv

\* Snapshots send what is there.
LEMMA SnapshotKeeps ==
    ASSUME Inv, Snapshot, flow' = flow
    PROVE  Inv'
  <1>1. /\ ticker_state' = ticker_state /\ resting' = resting
        /\ \E sends : multicast(sends)
        /\ updates_since_snapshot' \in {0, updates_since_snapshot}
    BY DEF Snapshot, publish_snapshot, publish_ticker_snapshot, SnapshotCount
  <1>2. RestingOK' /\ StatesOK' /\ QuotesBacked' /\ QueuesOK' /\ FlowOK' /\ QuietOK'
    BY <1>1, MulticastQueues, Zenon
       DEF Inv, RestingOK, StatesOK, QuotesBacked, Backed, FlowOK, QuietOK
  <1>3. CountOK'
    BY <1>1, MarketDataAssumption DEF Inv, CountOK
  <1> QED
    BY <1>2, <1>3 DEF Inv

\* Receivers come and go and read without the publisher.
LEMMA ReceiverKeeps ==
    ASSUME Inv, NEW r \in Receivers, join(r) \/ leave(r) \/ poll_and_process(r),
           flow' = flow
    PROVE  Inv'
  <1>1. ticker_state' = ticker_state /\ resting' = resting
        /\ updates_since_snapshot' = updates_since_snapshot
    BY Zenon DEF join, leave, poll_and_process, publisher
  <1>2. QueuesOK'
    BY DEF join, leave, poll_and_process, Inv, QueuesOK, Joined
  <1> QED
    BY <1>1, <1>2, Zenon
       DEF Inv, RestingOK, StatesOK, CountOK, FlowOK, QuietOK, QuotesBacked, Backed

-----------------------------------------------------------------------------
\* The inductive invariant of the market data path holds in every state.
THEOREM MarketDataInvariant == Spec => []Inv
  <1>1. Init => Inv
    <2> SUFFICES ASSUME Init PROVE Inv
      OBVIOUS
    <2>1. RestingOK /\ QueuesOK /\ CountOK
      BY MarketDataAssumption DEF Init, PublisherInit, RestingOK, QueuesOK, Joined, CountOK
    <2>2. StatesOK /\ QuotesBacked
      BY DEF Init, PublisherInit, StatesOK, QuotesBacked, DefaultState, Level
    <2>3. FlowOK /\ QuietOK
      BY MarketDataAssumption DEF Init, PublisherInit, FlowOK, RestingOrder, QuietOK
    <2> QED
      BY <2>1, <2>2, <2>3 DEF Inv
  <1>2. Inv /\ [Next]_vars => Inv'
    <2> SUFFICES ASSUME Inv, [Next]_vars PROVE Inv'
      OBVIOUS
    <2>1. CASE Next
      BY <2>1, AddKeeps, CancelKeeps, TradeKeeps, ClearKeeps, SnapshotKeeps, ReceiverKeeps
         DEF Next, Exchange
    <2>2. CASE UNCHANGED vars
      BY <2>2 DEF vars, publisher, receivers, Inv, RestingOK, StatesOK, CountOK, QueuesOK,
                  FlowOK, QuietOK, QuotesBacked, Backed, Joined
    <2> QED
      BY <2>1, <2>2
  <1> QED
    BY <1>1, <1>2, PTL DEF Spec

\* The path is well typed, and the publisher's states are natural numbers.
THEOREM MarketDataTypeCorrect == Spec => []TypeOK
  <1>1. Inv => TypeOK
    BY DEF Inv, StatesOK, CountOK, QueuesOK, TypeOK, Level
  <1> QED
    BY <1>1, MarketDataInvariant, PTL

\* The publisher never quotes quantity that no resting order has, whatever fails
\* on the wire.
THEOREM PublisherQuotesBacked == Spec => []QuotesBacked
  <1>1. Inv => QuotesBacked
    BY DEF Inv
  <1> QED
    BY <1>1, MarketDataInvariant, PTL

-----------------------------------------------------------------------------
\* The logger.

\* The owner stays in drop() once running is false; the writer leaves its loop
\* only then, and is gone when drop() returns.
LoggerInv ==
    /\ LoggerTyped
    /\ ~running <=> opc \in {"join", "dropped"}
    /\ wpc \in {"final", "exit"} => ~running
    /\ opc = "dropped" => wpc = "exit"

\* A call of the owner keeps the invariant: it pushes only while running is true,
\* and so while the writer has not begun its final drain.
LEMMA OwnerKeeps == LoggerInv /\ (Calls \/ InCall) => LoggerInv'
  <1> USE LoggerAssumption DEF LoggerInv, LoggerTyped
  <1>1. ASSUME LoggerInv, NEW level \in LogLevels, log(level)
        PROVE  LoggerInv'
    BY <1>1 DEF log, flags
  <1>2. ASSUME LoggerInv, NEW level \in LogLevels, log_dropped(level)
        PROVE  LoggerInv'
    BY <1>2 DEF log_dropped, logger_vars, ring, flags
  <1>3. ASSUME LoggerInv, NEW level \in LogLevels, set_level(level)
        PROVE  LoggerInv'
    BY <1>3 DEF set_level, ring, flags
  <1>4. ASSUME LoggerInv, flush_reset \/ drop_stop
        PROVE  LoggerInv'
    BY <1>4, Zenon DEF flush_reset, drop_stop, ring
  <1>5. ASSUME LoggerInv, flush_request
        PROVE  LoggerInv'
    BY <1>5 DEF flush_request, ring
  <1>6. ASSUME LoggerInv, flush_return
        PROVE  LoggerInv'
    BY <1>6, ZenonT(30) DEF flush_return, ring
  <1>7. ASSUME LoggerInv, flush_wait \/ drop_join
        PROVE  LoggerInv'
    BY <1>7 DEF flush_wait, drop_join, ring, flags
  <1> QED
    BY <1>1, <1>2, <1>3, <1>4, <1>5, <1>6, <1>7, ZenonT(30) DEF Calls, InCall

\* A step of the writer keeps the invariant: it writes only what was pushed.
LEMMA WriterKeeps == LoggerInv /\ writer_loop => LoggerInv'
  <1> USE LoggerAssumption DEF LoggerInv, LoggerTyped
  <1>1. ASSUME LoggerInv, check_running \/ no_flush
        PROVE  LoggerInv'
    BY <1>1 DEF check_running, no_flush, ring, flags
  <1>2. ASSUME LoggerInv, NEW n \in 1 .. pushed, write_entry(n)
        PROVE  LoggerInv'
    BY <1>2 DEF write_entry, flags
  <1>3. ASSUME LoggerInv, drained \/ finish
        PROVE  LoggerInv'
    BY <1>3 DEF drained, finish, LoadsEmpty, ring, flags
  <1>4. ASSUME LoggerInv, see_flush
        PROVE  LoggerInv'
    BY <1>4 DEF see_flush, flags
  <1>5. ASSUME LoggerInv, signal_flush
        PROVE  LoggerInv'
    BY <1>5 DEF signal_flush, ring
  <1> QED
    BY <1>1, <1>2, <1>3, <1>4, <1>5, Zenon DEF writer_loop

\* The invariant of the logger, for every capacity and however old the tail is
\* that the writer loads.
THEOREM LoggerInvariant == LoggerSpec => []LoggerInv
  <1>1. LoggerInit => LoggerInv
    <2> SUFFICES ASSUME LoggerInit
                 PROVE  LoggerInv
      OBVIOUS
    <2>1. /\ pushed \in 0 .. MaxLogs /\ written \in 0 .. pushed /\ sees \in 0 .. pushed
          /\ pushed - written =< Capacity /\ request_view \in 0 .. pushed
      BY LoggerAssumption DEF LoggerInit
    <2>2. running \in BOOLEAN /\ flush_requested \in BOOLEAN /\ flush_complete \in BOOLEAN
      BY Zenon DEF LoggerInit
    <2> QED
      BY <2>1, <2>2 DEF LoggerInit, LoggerInv, LoggerTyped
  <1>2. LoggerInv /\ [LoggerNext]_logger_vars => LoggerInv'
    <2>1. LoggerInv /\ UNCHANGED logger_vars => LoggerInv'
      BY DEF LoggerInv, LoggerTyped, logger_vars, ring, flags
    <2>2. LoggerInv /\ stores_visible => LoggerInv'
      BY LoggerAssumption DEF LoggerInv, LoggerTyped, stores_visible, flags
    <2> QED
      BY <2>1, <2>2, OwnerKeeps, WriterKeeps DEF LoggerNext
  <1> QED
    BY <1>1, <1>2, PTL DEF LoggerSpec

\* The queue never holds more than its capacity, and the writer never writes more
\* than was pushed.
THEOREM LoggerTypeCorrect == LoggerSpec => []LoggerTyped
  <1>1. LoggerInv => LoggerTyped
    BY DEF LoggerInv
  <1> QED
    BY <1>1, LoggerInvariant, PTL

-----------------------------------------------------------------------------
\* The lock-free queue.
\* Sequences of the same length with the same elements are equal.
LEMMA SameSeq ==
    ASSUME NEW S, NEW s \in Seq(S), NEW t \in Seq(S), Len(s) = Len(t),
           \A i \in 1 .. Len(s) : s[i] = t[i]
    PROVE  s = t
  OBVIOUS

\* A sequence with one more element.
LEMMA AppendedSeq ==
    ASSUME NEW S, NEW s \in Seq(S), NEW e \in S
    PROVE  /\ Append(s, e) \in Seq(S) /\ Len(Append(s, e)) = Len(s) + 1
           /\ \A i \in 1 .. Len(s) : Append(s, e)[i] = s[i]
           /\ Append(s, e)[Len(s) + 1] = e
  OBVIOUS

\* A sequence without its first element.
LEMMA TailSeq ==
    ASSUME NEW S, NEW s \in Seq(S), s # <<>>
    PROVE  /\ Tail(s) \in Seq(S) /\ Len(Tail(s)) = Len(s) - 1
           /\ \A i \in 1 .. Len(s) - 1 : Tail(s)[i] = s[i + 1]
  OBVIOUS

\* A sequence from its element k on.
LEMMA RestSeq ==
    ASSUME NEW S, NEW s \in Seq(S), NEW k \in 1 .. Len(s)
    PROVE  /\ SubSeq(s, k, Len(s)) \in Seq(S) /\ Len(SubSeq(s, k, Len(s))) = Len(s) - k + 1
           /\ \A i \in 1 .. Len(s) - k + 1 : SubSeq(s, k, Len(s))[i] = s[k + i - 1]
  OBVIOUS

-----------------------------------------------------------------------------
\* Quotient and remainder.
LEMMA DivMod ==
  ASSUME NEW x \in Int, NEW m \in Nat \ {0}
  PROVE  /\ x \div m \in Int /\ x % m \in 0 .. m-1
         /\ x = m * (x \div m) + (x % m)
  BY SMT

\* A positive multiple of m is at least m.
LEMMA MulGap ==
  ASSUME NEW m \in Nat \ {0}, NEW d \in Int, d >= 1
  PROVE  m * d >= m
  BY SMT

\* Quotient and remainder are unique.
LEMMA ModUnique ==
  ASSUME NEW m \in Nat \ {0}, NEW q \in Int, NEW r \in 0 .. m-1,
         NEW p \in Int, NEW s \in 0 .. m-1, m * q + r = m * p + s
  PROVE  q = p /\ r = s
  <1>1. m * (q - p) = s - r
    BY SMT
  <1>2. ~(q - p >= 1)
    <2> SUFFICES ASSUME q - p >= 1 PROVE FALSE
      OBVIOUS
    <2>1. m * (q-p) >= m
      BY MulGap
    <2> QED BY <1>1, <2>1
  <1>3. ~(p - q >= 1)
    <2> SUFFICES ASSUME p - q >= 1 PROVE FALSE
      OBVIOUS
    <2>1. m * (p-q) >= m
      BY MulGap
    <2>2. m * (p - q) = r - s
      BY <1>1
    <2> QED BY <2>2, <2>1
  <1>4. q = p
    BY <1>2, <1>3
  <1> QED BY <1>1, <1>4

\* The parameters of the queue are positive.
LEMMA Pos == N \in Nat \ {0} /\ W \in Nat \ {0} /\ N < W
  BY QueueCapacity

\* The slot of a wrapped index is the slot of the index: N divides W.
LEMMA ModMod ==
  ASSUME NEW x \in Nat
  PROVE  (x % W) % N = x % N
  <1> DEFINE a == x \div W
             b == x % W
             c == b \div N
             d == b % N
             e == x \div N
             f == x % N
  <1>1. PICK k \in 1 .. W : W = k * N
    BY QueueCapacity
  <1>2. a \in Int /\ b \in Int /\ x = W * a + b
    BY DivMod, Pos
  <1>3. c \in Int /\ d \in 0 .. N-1 /\ b = N * c + d
    BY <1>2, DivMod, Pos, Zenon
  <1>4. e \in Int /\ f \in 0 .. N-1 /\ x = N * e + f
    BY DivMod, Pos
  <1> HIDE DEF a, b, c, d, e, f
  <1>5. (k * N) * a = N * (k * a)
    BY <1>1, <1>2, Pos
  <1>6. N * (k * a) + N * c = N * (k * a + c)
    BY <1>1, <1>2, <1>3, Pos
  <1>7. k * a + c \in Int
    BY <1>1, <1>2, <1>3, Pos
  <1>8. x = N * (k * a + c) + d
    <2> DEFINE g == k * a
    <2>1. g \in Int /\ W * a = N * g
      BY <1>1, <1>2, <1>5, Pos
    <2> HIDE DEF g
    <2> QED
      BY <2>1, <1>2, <1>3, <1>6, Pos DEF g
  <1>9. d = f
    <2> DEFINE g == k * a + c
    <2>1. g \in Int /\ N * g + d = N * e + f
      BY <1>4, <1>7, <1>8
    <2> HIDE DEF g
    <2> QED
      BY <1>3, <1>4, <2>1, ModUnique, Pos
  <1> QED
    BY <1>9 DEF b, d, f

\* Wrapping before or after an addition gives the same word.
LEMMA ModShift ==
  ASSUME NEW x \in Nat, NEW i \in Int
  PROVE  ((x % W) + i) % W = (x + i) % W
  <1> DEFINE a == x \div W
             b == x % W
             y == b + i
             z == x + i
  <1>1. a \in Int /\ b \in Int /\ x = W * a + b
    BY DivMod, Pos
  <1>4. y = b + i /\ z = x + i /\ y \in Int /\ z \in Int
    BY <1>1
  <1> HIDE DEF a, b, y, z
  <1> DEFINE c == y \div W
             d == y % W
             e == z \div W
             f == z % W
  <1>2. c \in Int /\ d \in 0 .. W-1 /\ y = W * c + d
    BY <1>4, DivMod, Pos, Zenon
  <1>3. e \in Int /\ f \in 0 .. W-1 /\ z = W * e + f
    BY <1>4, DivMod, Pos, Zenon
  <1> HIDE DEF c, d, e, f
  <1>5. W * a + W * c = W * (a + c) /\ a + c \in Int
    BY <1>1, <1>2, Pos
  <1>6. W * (a + c) + d = W * e + f
    BY <1>1, <1>2, <1>3, <1>4, <1>5, Pos
  <1>7. d = f
    <2> DEFINE g == a + c
    <2>1. g \in Int /\ W * g + d = W * e + f
      BY <1>5, <1>6
    <2> HIDE DEF g
    <2> QED
      BY <1>2, <1>3, <2>1, ModUnique, Pos
  <1> QED
    BY <1>7 DEF b, d, f, y, z

\* wrapping_sub of two wrapped counters less than W apart is their distance.
LEMMA ModDiff ==
  ASSUME NEW x \in Nat, NEW y \in Nat, y =< x, x < y + W
  PROVE  ((x % W) - (y % W)) % W = x - y
  <1> DEFINE a == x \div W
             b == x % W
             c == y \div W
             d == y % W
             z == b - d
  <1>1. a \in Int /\ b \in Int /\ x = W * a + b
    BY DivMod, Pos
  <1>2. c \in Int /\ d \in Int /\ y = W * c + d
    BY DivMod, Pos
  <1>4. z = b - d /\ z \in Int
    BY <1>1, <1>2
  <1> HIDE DEF a, b, c, d, z
  <1> DEFINE e == z \div W
             f == z % W
  <1>3. e \in Int /\ f \in 0 .. W-1 /\ z = W * e + f
    BY <1>4, DivMod, Pos, Zenon
  <1> HIDE DEF e, f
  <1>5. (W * a - W * c) + W * e = W * ((a - c) + e) /\ (a - c) + e \in Int
    BY <1>1, <1>2, <1>3, Pos
  <1>6. x - y \in 0 .. W-1
    BY Pos
  <1>7. W * ((a - c) + e) + f = W * 0 + (x - y)
    BY <1>1, <1>2, <1>3, <1>4, <1>5, Pos
  <1>8. f = x - y
    <2> DEFINE g == (a - c) + e
               r == x - y
    <2>1. g \in Int /\ r \in 0 .. W-1 /\ W * g + f = W * 0 + r
      BY <1>5, <1>6, <1>7
    <2> HIDE DEF g, r
    <2>2. f = r
      BY <1>3, <2>1, ModUnique, Pos
    <2> QED
      BY <2>2 DEF r
  <1> QED
    BY <1>8 DEF b, d, f, z

\* Two different numbers with the same remainder are at least m apart.
LEMMA ModGap ==
  ASSUME NEW m \in Nat \ {0}, NEW x \in Nat, NEW y \in Nat, x < y, x % m = y % m
  PROVE  y - x >= m
  <1> DEFINE a == x \div m
             b == x % m
             c == y \div m
  <1>1. a \in Int /\ b \in Int /\ x = m * a + b
    BY DivMod
  <1>2. c \in Int /\ y = m * c + b
    BY DivMod
  <1> HIDE DEF a, b, c
  <1>3. y - x = m * (c - a) /\ c - a \in Int
    BY <1>1, <1>2
  <1>4. c - a >= 1
    <2> SUFFICES ASSUME c - a =< 0 PROVE FALSE
      BY <1>3
    <2>1. m * (a - c) >= 0
      BY <1>1, <1>2
    <2> QED
      BY <1>1, <1>2, <1>3, <2>1
  <1> QED
    BY <1>3, <1>4, MulGap

-----------------------------------------------------------------------------
(***************************************************************************)
(* Pushes and pops completed so far: the indices without the wraparound.   *)
(***************************************************************************)
Pushed == IF ppc = "store" THEN writes - 1 ELSE writes
Popped == IF cpc = "store" THEN reads - 1 ELSE reads

\* The stores of a log are consecutive and end with number n.
LogOK(hist, n) ==
    \A i \in 1 .. Len(hist) :
       /\ hist[i].clk \in Nat
       /\ hist[i].clk = n - (Len(hist) - i)
       /\ hist[i].val = hist[i].clk % W

\* Each thread knows of what the oldest store it may read again carried, and
\* the ring never holds more than N items as the producer sees it and never
\* fewer than none as the consumer sees it.
ViewsOK ==
    /\ LogOK(tail_log, Pushed) /\ LogOK(head_log, Popped)
    /\ p_sees = head_log[1].clk /\ c_sees = tail_log[1].clk
    /\ Pushed =< p_sees + N /\ Popped =< c_sees
    /\ ppc \in {"write", "store"} => Pushed < p_sees + N
    /\ cpc \in {"read", "store"} => Popped < c_sees

\* The stamps of the last N writes, and of the last read of each slot.
ClocksOK ==
    /\ \A j \in Nat : writes - N =< j /\ j < writes => write_clk[j % N] = j + 1
    /\ \A s \in Slots : read_clk[s] > 0 => /\ read_clk[s] =< reads
                                           /\ (read_clk[s] - 1) % N = s

\* The items in transit.
TransitOK ==
    /\ ppc \in {"write", "store"} => pitem \in Items
    /\ ppc = "store" => buffer[Pushed % N] = pitem
    /\ cpc = "store" => citem = buffer[Popped % N]

\* The inductive invariant.
QueueInv == QueueTyped /\ ViewsOK /\ ClocksOK /\ TransitOK

-----------------------------------------------------------------------------
\* The counters of an QueueInv state: how the views, the pushes and the pops relate.
LEMMA Counters ==
    ASSUME QueueInv
    PROVE  /\ Pushed \in Nat /\ Popped \in Nat /\ writes \in Nat /\ reads \in Nat
           /\ p_sees \in Nat /\ c_sees \in Nat
           /\ p_sees =< Popped /\ Popped =< c_sees /\ c_sees =< Pushed
           /\ Pushed =< p_sees + N
           /\ reads =< Pushed
           /\ writes =< Popped + N
  <1>1. /\ Len(tail_log) \in Nat /\ Len(tail_log) > 0
        /\ Len(head_log) \in Nat /\ Len(head_log) > 0
        /\ writes \in Nat /\ reads \in Nat /\ p_sees \in Nat /\ c_sees \in Nat
    BY DEF QueueInv, QueueTyped, Log
  <1>2. /\ head_log[1].clk = Popped - (Len(head_log) - 1)
        /\ tail_log[1].clk = Pushed - (Len(tail_log) - 1)
        /\ head_log[Len(head_log)].clk \in Nat
        /\ head_log[Len(head_log)].clk = Popped - (Len(head_log) - Len(head_log))
        /\ tail_log[Len(tail_log)].clk \in Nat
        /\ tail_log[Len(tail_log)].clk = Pushed - (Len(tail_log) - Len(tail_log))
    BY <1>1 DEF QueueInv, ViewsOK, LogOK
  <1>3. Pushed \in Int /\ Popped \in Int
    BY <1>1 DEF Pushed, Popped
  <1>4. Pushed \in Nat /\ Popped \in Nat
    BY <1>1, <1>2, <1>3
  <1>5. /\ p_sees = head_log[1].clk /\ c_sees = tail_log[1].clk
        /\ Pushed =< p_sees + N /\ Popped =< c_sees
        /\ ppc = "store" => Pushed < p_sees + N
        /\ cpc = "store" => Popped < c_sees
    BY DEF QueueInv, ViewsOK
  <1>6. p_sees =< Popped /\ c_sees =< Pushed
    BY <1>1, <1>2, <1>3, <1>5
  <1>7. reads =< Pushed
    BY <1>1, <1>4, <1>5, <1>6 DEF Popped
  <1>8. writes =< Popped + N
    BY <1>1, <1>4, <1>5, <1>6, Pos DEF Pushed
  <1> QED
    BY <1>1, <1>4, <1>5, <1>6, <1>7, <1>8

\* The wrapped indices in terms of the counters.
LEMMA Indices ==
    ASSUME QueueInv
    PROVE  /\ tail = Pushed % W /\ head = Popped % W
           /\ Slot(tail) = Pushed % N /\ Slot(head) = Popped % N
           /\ Pushed % N \in Slots /\ Popped % N \in Slots
           /\ QueueLen = Pushed - Popped
           /\ \A i \in DOMAIN head_log :
                 /\ head_log[i].clk \in p_sees .. Popped
                 /\ Sub(tail, head_log[i].val) = Pushed - head_log[i].clk
           /\ \A i \in DOMAIN tail_log :
                 /\ tail_log[i].clk \in c_sees .. Pushed
                 /\ Sub(tail_log[i].val, head) = tail_log[i].clk - Popped
                 /\ (head = tail_log[i].val) <=> (Popped = tail_log[i].clk)
  <1>0. /\ Pushed \in Nat /\ Popped \in Nat /\ p_sees \in Nat /\ c_sees \in Nat
        /\ p_sees =< Popped /\ Popped =< c_sees /\ c_sees =< Pushed
        /\ Pushed =< p_sees + N
    BY Counters
  <1>1. /\ Len(tail_log) \in Nat /\ Len(tail_log) > 0
        /\ Len(head_log) \in Nat /\ Len(head_log) > 0
        /\ DOMAIN head_log = 1 .. Len(head_log)
        /\ DOMAIN tail_log = 1 .. Len(tail_log)
    BY DEF QueueInv, QueueTyped, Log
  <1>2. LogOK(tail_log, Pushed) /\ LogOK(head_log, Popped)
    BY DEF QueueInv, ViewsOK
  <1>3. tail = Pushed % W
    BY <1>0, <1>1, <1>2 DEF tail, LogOK
  <1>4. head = Popped % W
    BY <1>0, <1>1, <1>2 DEF head, LogOK
  <1>5. Slot(tail) = Pushed % N /\ Slot(head) = Popped % N
    BY <1>0, <1>3, <1>4, ModMod DEF Slot
  <1>6. Pushed % N \in Slots /\ Popped % N \in Slots
    BY <1>0, DivMod, Pos DEF Slots
  <1>7. QueueLen = Pushed - Popped
    <2>1. Popped =< Pushed /\ Pushed < Popped + W
      BY <1>0, Pos
    <2> QED
      BY <1>0, <1>3, <1>4, <2>1, ModDiff DEF QueueLen, Sub
  <1>8. ASSUME NEW i \in DOMAIN head_log
        PROVE  /\ head_log[i].clk \in p_sees .. Popped
               /\ Sub(tail, head_log[i].val) = Pushed - head_log[i].clk
    <2>1. /\ head_log[i].clk \in Nat /\ head_log[i].val = head_log[i].clk % W
          /\ head_log[i].clk = Popped - (Len(head_log) - i)
          /\ p_sees = Popped - (Len(head_log) - 1)
      BY <1>1, <1>2 DEF LogOK, QueueInv, ViewsOK
    <2>2. head_log[i].clk \in p_sees .. Popped
      BY <1>0, <1>1, <2>1
    <2>3. ((Pushed % W) - (head_log[i].clk % W)) % W = Pushed - head_log[i].clk
      <3> DEFINE h == head_log[i].clk
      <3>1. h \in Nat /\ h =< Pushed /\ Pushed < h + W
        BY <1>0, <2>1, <2>2, Pos
      <3> HIDE DEF h
      <3>2. ((Pushed % W) - (h % W)) % W = Pushed - h
        BY <1>0, <3>1, ModDiff
      <3> QED
        BY <3>2, Zenon DEF h
    <2> QED
      BY <1>3, <2>1, <2>2, <2>3, Zenon DEF Sub
  <1>9. ASSUME NEW i \in DOMAIN tail_log
        PROVE  /\ tail_log[i].clk \in c_sees .. Pushed
               /\ Sub(tail_log[i].val, head) = tail_log[i].clk - Popped
               /\ (head = tail_log[i].val) <=> (Popped = tail_log[i].clk)
    <2>1. /\ tail_log[i].clk \in Nat /\ tail_log[i].val = tail_log[i].clk % W
          /\ tail_log[i].clk = Pushed - (Len(tail_log) - i)
          /\ c_sees = Pushed - (Len(tail_log) - 1)
      BY <1>1, <1>2 DEF LogOK, QueueInv, ViewsOK
    <2>2. tail_log[i].clk \in c_sees .. Pushed
      BY <1>0, <1>1, <2>1
    <2>3. ((tail_log[i].clk % W) - (Popped % W)) % W = tail_log[i].clk - Popped
      <3> DEFINE t == tail_log[i].clk
      <3>1. t \in Nat /\ Popped =< t /\ t < Popped + W
        BY <1>0, <2>1, <2>2, Pos
      <3> HIDE DEF t
      <3>2. ((t % W) - (Popped % W)) % W = t - Popped
        BY <1>0, <3>1, ModDiff
      <3> QED
        BY <3>2 DEF t
    <2>4. ASSUME Popped % W = tail_log[i].clk % W, Popped # tail_log[i].clk
          PROVE  FALSE
      <3> DEFINE t == tail_log[i].clk
      <3>1. t \in Nat /\ Popped < t /\ t < Popped + W /\ Popped % W = t % W
        BY <1>0, <2>1, <2>2, <2>4, Pos
      <3> HIDE DEF t
      <3>2. t - Popped >= W
        BY <1>0, <3>1, ModGap, Pos, Zenon
      <3> QED
        BY <1>0, <3>1, <3>2, Pos
    <2> QED
      BY <1>4, <2>1, <2>2, <2>3, <2>4 DEF Sub
  <1> QED
    BY <1>3, <1>4, <1>5, <1>6, <1>7, <1>8, <1>9

\* Reading from a log keeps it a log that ends with the same store.
LEMMA ReadFromFacts ==
    ASSUME NEW hist \in Log, NEW n \in Int, LogOK(hist, n), NEW i \in DOMAIN hist
    PROVE  /\ ReadFrom(hist, i) \in Log /\ Len(ReadFrom(hist, i)) > 0
           /\ ReadFrom(hist, i)[1] = hist[i]
           /\ LogOK(ReadFrom(hist, i), n)
  <1> DEFINE new == ReadFrom(hist, i)
  <1>1. i \in 1 .. Len(hist) /\ Len(hist) \in Nat
    BY DEF Log
  <1>2. new \in Log /\ Len(new) = Len(hist) - i + 1
    BY <1>1, RestSeq DEF ReadFrom, Log
  <1>3. \A j \in 1 .. Len(new) : new[j] = hist[i + j - 1]
    <2>1. \A j \in 1 .. Len(hist) - i + 1 : new[j] = hist[i + j - 1]
      BY <1>1, RestSeq, Zenon DEF ReadFrom, Log
    <2> QED
      BY <1>2, <2>1
  <1> HIDE DEF new
  <1>4. LogOK(new, n)
    <2> SUFFICES ASSUME NEW j \in 1 .. Len(new)
                 PROVE  /\ new[j].clk \in Nat
                        /\ new[j].clk = n - (Len(new) - j)
                        /\ new[j].val = new[j].clk % W
      BY DEF LogOK
    <2>1. i + j - 1 \in 1 .. Len(hist) /\ new[j] = hist[i + j - 1]
      BY <1>1, <1>2, <1>3
    <2>2. /\ new[j].clk \in Nat /\ new[j].val = new[j].clk % W
          /\ new[j].clk = n - (Len(hist) - (i + j - 1))
      BY <2>1, Zenon DEF LogOK
    <2> QED
      BY <1>1, <1>2, <2>1, <2>2
  <1> QED
    BY <1>1, <1>2, <1>3, <1>4 DEF new

\* Appending the next store keeps a log consecutive.
LEMMA AppendFacts ==
    ASSUME NEW hist \in Log, Len(hist) > 0, NEW n \in Nat, LogOK(hist, n)
    PROVE  LET new == Append(hist, [val |-> Inc(n % W), clk |-> n + 1])
           IN  /\ new \in Log /\ Len(new) > 0
               /\ new[1] = hist[1]
               /\ LogOK(new, n + 1)
  <1> DEFINE e == [val |-> Inc(n % W), clk |-> n + 1]
             new == Append(hist, e)
  <1>1. Inc(n % W) = (n + 1) % W
    BY ModShift DEF Inc
  <1>2. (n + 1) % W \in 0 .. W-1
    <2> DEFINE m == n + 1
    <2>1. m \in Int
      OBVIOUS
    <2> HIDE DEF m
    <2>2. m % W \in 0 .. W-1
      BY <2>1, DivMod, Pos, Zenon
    <2> QED
      BY <2>2 DEF m
  <1>3. e \in Stores /\ e.clk = n + 1 /\ e.val = (n + 1) % W
    BY <1>1, <1>2 DEF Stores
  <1> HIDE DEF e
  <1>4. /\ new \in Log /\ Len(new) = Len(hist) + 1 /\ Len(hist) \in Nat
        /\ new[Len(hist) + 1] = e
        /\ \A i \in 1 .. Len(hist) : new[i] = hist[i]
    BY <1>3, AppendedSeq DEF Log
  <1> HIDE DEF new
  <1>5. LogOK(new, n + 1)
    <2> SUFFICES ASSUME NEW i \in 1 .. Len(new)
                 PROVE  /\ new[i].clk \in Nat
                        /\ new[i].clk = (n + 1) - (Len(new) - i)
                        /\ new[i].val = new[i].clk % W
      BY DEF LogOK
    <2>1. CASE i = Len(hist) + 1
      BY <1>3, <1>4, <2>1
    <2>2. CASE i \in 1 .. Len(hist)
      <3>1. /\ hist[i].clk \in Nat
            /\ hist[i].clk = n - (Len(hist) - i)
            /\ hist[i].val = hist[i].clk % W
        BY <2>2 DEF LogOK
      <3>2. new[i] = hist[i]
        BY <1>4, <2>2
      <3>3. (n + 1) - (Len(new) - i) = n - (Len(hist) - i)
        BY <1>4, <2>2
      <3> QED
        BY <3>1, <3>2, <3>3, Zenon
    <2> QED
      BY <1>4, <2>1, <2>2
  <1> QED
    BY <1>4, <1>5 DEF new, e

-----------------------------------------------------------------------------
\* later() of a view and a store that is not older is the store.
LEMMA LaterFacts ==
    ASSUME NEW a \in Nat, NEW n \in Nat, NEW b \in a .. n
    PROVE  b \in Nat /\ later(a, b) = b
  BY DEF later

\* A load of head by the producer preserves the invariant, whatever store it
\* reads: its view and its log move together.
LEMMA LoadHeadInv ==
    ASSUME QueueInv, NEW i \in DOMAIN head_log,
           p_sees' = later(p_sees, head_log[i].clk),
           head_log' = ReadFrom(head_log, i),
           UNCHANGED <<writes, write_clk, buffer, consumer, tail_log>>,
           ppc' \in {ppc, "write"}, ppc = "idle",
           ppc' = "idle" => pitem' = pitem,
           ppc' = "write" => pitem' \in Items /\ Sub(tail, head_log[i].val) < N
    PROVE  QueueInv'
  <1>1. /\ head_log[i].clk \in p_sees .. Popped
        /\ Sub(tail, head_log[i].val) = Pushed - head_log[i].clk
    BY Indices
  <1>2. /\ Pushed \in Nat /\ Popped \in Nat /\ p_sees \in Nat /\ c_sees \in Nat
        /\ Pushed =< p_sees + N
    BY Counters
  <1>3. head_log[i].clk \in Nat /\ p_sees' = head_log[i].clk
    BY <1>1, <1>2, LaterFacts, Zenon
  <1>4. /\ head_log' \in Log /\ Len(head_log') > 0
        /\ head_log'[1] = head_log[i]
        /\ LogOK(head_log', Popped)
    <2>1. head_log \in Log /\ LogOK(head_log, Popped)
      BY Zenon DEF QueueInv, QueueTyped, ViewsOK
    <2>2. Popped \in Int
      BY <1>2
    <2> QED
      BY <1>2, <2>1, <2>2, ReadFromFacts, Zenon
  <1>5. Pushed' = Pushed /\ Popped' = Popped
    BY DEF Pushed, Popped, consumer
  <1>6. QueueTyped'
    BY <1>3, <1>4, Zenon DEF QueueInv, QueueTyped, consumer
  <1>7. ViewsOK'
    <2>1. LogOK(tail_log', Pushed') /\ LogOK(head_log', Popped')
      BY <1>4, <1>5, Zenon DEF QueueInv, ViewsOK
    <2>2. p_sees' = head_log'[1].clk /\ c_sees' = tail_log'[1].clk
      BY <1>3, <1>4, Zenon DEF QueueInv, ViewsOK, consumer
    <2>3. Pushed' =< p_sees' + N /\ Popped' =< c_sees'
      BY <1>1, <1>2, <1>3, <1>5, Pos DEF QueueInv, ViewsOK, consumer
    <2>4. ppc' \in {"write", "store"} => Pushed' < p_sees' + N
      BY <1>1, <1>2, <1>3, <1>5, Pos
    <2>5. cpc' \in {"read", "store"} => Popped' < c_sees'
      BY <1>5, Zenon DEF QueueInv, ViewsOK, consumer
    <2> QED
      BY <2>1, <2>2, <2>3, <2>4, <2>5 DEF ViewsOK
  <1>8. ClocksOK'
    BY DEF QueueInv, ClocksOK, consumer
  <1>9. TransitOK'
    BY <1>5 DEF QueueInv, TransitOK, consumer
  <1> QED
    BY <1>6, <1>7, <1>8, <1>9, Zenon DEF QueueInv

\* A load of tail by the consumer likewise.
LEMMA LoadTailInv ==
    ASSUME QueueInv, NEW i \in DOMAIN tail_log,
           c_sees' = later(c_sees, tail_log[i].clk),
           tail_log' = ReadFrom(tail_log, i),
           UNCHANGED <<citem, popped, reads, read_clk, producer, head_log>>,
           cpc' \in {cpc, "read"}, cpc = "idle",
           cpc' = "read" => head # tail_log[i].val
    PROVE  QueueInv'
  <1>1. /\ tail_log[i].clk \in c_sees .. Pushed
        /\ (head = tail_log[i].val) <=> (Popped = tail_log[i].clk)
    BY Indices
  <1>2. /\ Pushed \in Nat /\ Popped \in Nat /\ p_sees \in Nat /\ c_sees \in Nat
        /\ Popped =< c_sees
    BY Counters
  <1>3. tail_log[i].clk \in Nat /\ c_sees' = tail_log[i].clk
    BY <1>1, <1>2, LaterFacts, Zenon
  <1>4. /\ tail_log' \in Log /\ Len(tail_log') > 0
        /\ tail_log'[1] = tail_log[i]
        /\ LogOK(tail_log', Pushed)
    <2>1. tail_log \in Log /\ LogOK(tail_log, Pushed)
      BY Zenon DEF QueueInv, QueueTyped, ViewsOK
    <2>2. Pushed \in Int
      BY <1>2
    <2> QED
      BY <1>2, <2>1, <2>2, ReadFromFacts, Zenon
  <1>5. Pushed' = Pushed /\ Popped' = Popped
    BY Zenon DEF Pushed, Popped, producer
  <1>6. QueueTyped'
    BY <1>3, <1>4, Zenon DEF QueueInv, QueueTyped, producer
  <1>7. ViewsOK'
    <2>1. LogOK(tail_log', Pushed') /\ LogOK(head_log', Popped')
      BY <1>4, <1>5, Zenon DEF QueueInv, ViewsOK
    <2>2. p_sees' = head_log'[1].clk /\ c_sees' = tail_log'[1].clk
      BY <1>3, <1>4, Zenon DEF QueueInv, ViewsOK, producer
    <2>3. Popped =< tail_log[i].clk
      BY <1>1, <1>2
    <2>4. /\ Pushed' =< p_sees' + N /\ Popped' =< c_sees'
          /\ ppc' \in {"write", "store"} => Pushed' < p_sees' + N
      BY <1>3, <1>5, <2>3, Zenon DEF QueueInv, ViewsOK, producer
    <2>5. cpc' \in {"read", "store"} => Popped' < c_sees'
      BY <1>1, <1>2, <1>3, <1>5, Pos
    <2> QED
      BY <2>1, <2>2, <2>3, <2>4, <2>5, Zenon DEF ViewsOK
  <1>8. ClocksOK'
    BY Zenon DEF QueueInv, ClocksOK, producer
  <1>9. TransitOK'
    BY <1>5 DEF QueueInv, TransitOK, producer
  <1> QED
    BY <1>6, <1>7, <1>8, <1>9, Zenon DEF QueueInv

\* While an item is written, no other item of the ring is in its slot.
LEMMA SlotsApart ==
    ASSUME QueueInv, ppc = "write", NEW j \in Nat, Popped =< j, j < Pushed
    PROVE  j % N # Pushed % N
  <1>1. /\ Pushed \in Nat /\ Popped \in Nat /\ p_sees \in Nat
        /\ p_sees =< Popped /\ Pushed < p_sees + N
    BY Counters DEF QueueInv, ViewsOK
  <1>2. ASSUME j % N = Pushed % N
        PROVE  Pushed - j >= N
    BY <1>1, <1>2, ModGap, Pos, Zenon
  <1> QED
    BY <1>1, <1>2, Pos

\* The write of a slot preserves the invariant.
LEMMA WriteInv ==
    ASSUME QueueInv, push_write
    PROVE  QueueInv'
  <1>0. /\ Pushed \in Nat /\ Popped \in Nat /\ writes \in Nat
        /\ p_sees \in Nat /\ c_sees \in Nat
        /\ p_sees =< Popped /\ Popped =< c_sees /\ c_sees =< Pushed
    BY Counters, Zenon
  <1>1. /\ Slot(tail) = Pushed % N /\ Slot(head) = Popped % N
        /\ Pushed % N \in Slots /\ Popped % N \in Slots
    BY Indices, Zenon
  <1>2. /\ ppc = "write" /\ ppc' = "store" /\ pitem \in Items
        /\ Pushed = writes /\ writes' = writes + 1
        /\ buffer' = [buffer EXCEPT ![Pushed % N] = pitem]
        /\ write_clk' = [write_clk EXCEPT ![Pushed % N] = Pushed + 1]
        /\ UNCHANGED <<pitem, p_sees, consumer, tail_log, head_log>>
    BY <1>1, Zenon DEF push_write, Pushed, QueueInv, TransitOK
  <1>3. Pushed' = Pushed /\ Popped' = Popped
    BY <1>0, <1>2 DEF Pushed, Popped, consumer
  <1>4. QueueTyped'
    <2>1. writes' \in Nat /\ Pushed + 1 \in Nat
      BY <1>0, <1>2
    <2> QED
      BY <1>0, <1>1, <1>2, <2>1, Zenon DEF QueueInv, QueueTyped, consumer
  <1>5. ViewsOK'
    BY <1>2, <1>3, Zenon DEF QueueInv, ViewsOK, consumer
  <1>6. ClocksOK'
    <2>1. ASSUME NEW j \in Nat, writes' - N =< j, j < writes'
          PROVE  write_clk'[j % N] = j + 1
      <3>1. CASE j = Pushed
        BY <1>1, <1>2, <3>1, Zenon DEF QueueInv, QueueTyped
      <3>2. CASE j # Pushed
        <4>1. j < Pushed /\ Pushed - j < N /\ writes - N =< j /\ j < writes
          BY <1>0, <1>2, <2>1, <3>2, Pos
        <4>2. j % N # Pushed % N
          <5>1. ASSUME j % N = Pushed % N
                PROVE  Pushed - j >= N
            BY <1>0, <4>1, <5>1, ModGap, Pos, Zenon
          <5> QED
            BY <1>0, <4>1, <5>1, Pos
        <4>3. j % N \in Slots
          BY DivMod, Pos DEF Slots
        <4>4. write_clk[j % N] = j + 1
          BY <4>1 DEF QueueInv, ClocksOK
        <4> QED
          BY <1>2, <4>2, <4>3, <4>4, Zenon DEF QueueInv, QueueTyped
      <3> QED
        BY <3>1, <3>2
    <2> QED
      BY <1>2, <2>1 DEF QueueInv, ClocksOK, consumer
  <1>7. TransitOK'
    <2>1. buffer'[Pushed % N] = pitem
      BY <1>1, <1>2, Zenon DEF QueueInv, QueueTyped
    <2>2. ASSUME cpc = "store"
          PROVE  buffer'[Popped % N] = buffer[Popped % N]
      <3>1. Popped < Pushed
        BY <1>0, <2>2 DEF QueueInv, ViewsOK
      <3>2. Popped % N # Pushed % N
        BY <1>0, <1>2, <3>1, SlotsApart
      <3> QED
        BY <1>1, <1>2, <3>2, Zenon DEF QueueInv, QueueTyped
    <2> QED
      BY <1>2, <1>3, <2>1, <2>2, Zenon DEF QueueInv, TransitOK, consumer
  <1> QED
    BY <1>4, <1>5, <1>6, <1>7 DEF QueueInv

\* The slot of the item at head was written, and the write is known.
LEMMA ReadOrdered ==
    ASSUME QueueInv, cpc \in {"read", "store"}
    PROVE  Readable(Popped % N)
  <1>1. /\ Pushed \in Nat /\ Popped \in Nat /\ writes \in Nat /\ c_sees \in Nat
        /\ c_sees =< Pushed /\ writes =< Popped + N
    BY Counters
  <1>2. Popped < c_sees
    BY DEF QueueInv, ViewsOK
  <1>3. Pushed =< writes
    BY <1>1 DEF Pushed
  <1>4. writes - N =< Popped /\ Popped < writes
    BY <1>1, <1>2, <1>3, Pos
  <1>5. write_clk[Popped % N] = Popped + 1
    BY <1>1, <1>4 DEF QueueInv, ClocksOK
  <1> QED
    BY <1>1, <1>2, <1>5 DEF Readable

\* The producer knows of every read of the slot it is about to write.
LEMMA WriteOrdered ==
    ASSUME QueueInv, ppc = "write"
    PROVE  read_clk[Pushed % N] =< p_sees
  <1> DEFINE r == read_clk[Pushed % N]
  <1>1. /\ Pushed \in Nat /\ reads \in Nat /\ p_sees \in Nat
        /\ reads =< Pushed /\ Pushed < p_sees + N
    BY Counters, Zenon DEF QueueInv, ViewsOK
  <1>2. r \in Nat /\ Pushed % N \in Slots
    BY Indices DEF QueueInv, QueueTyped
  <1>3. r > 0 => r =< reads /\ (r - 1) % N = Pushed % N
    BY <1>2 DEF QueueInv, ClocksOK
  <1> HIDE DEF r
  <1>4. ASSUME r > 0
        PROVE  Pushed - (r - 1) >= N
    <2> DEFINE j == r - 1
    <2>1. j \in Nat /\ j < Pushed /\ j % N = Pushed % N
      BY <1>1, <1>2, <1>3, <1>4
    <2> HIDE DEF j
    <2>2. Pushed - j >= N
      BY <1>1, <2>1, ModGap, Pos, Zenon
    <2> QED
      BY <2>2 DEF j
  <1>5. r =< p_sees
    BY <1>1, <1>2, <1>4, Pos
  <1> QED
    BY <1>5, Zenon DEF r

\* The read of a slot preserves the invariant.
LEMMA ReadInv ==
    ASSUME QueueInv, pop_read
    PROVE  QueueInv'
  <1>0. /\ Pushed \in Nat /\ Popped \in Nat /\ reads \in Nat
    BY Counters, Zenon
  <1>1. /\ Slot(head) = Popped % N /\ Popped % N \in Slots
    BY Indices, Zenon
  <1>2. /\ cpc = "read" /\ cpc' = "store"
        /\ Popped = reads /\ reads' = reads + 1
        /\ citem' = buffer[Popped % N]
        /\ read_clk' = [read_clk EXCEPT ![Popped % N] = Popped + 1]
        /\ UNCHANGED <<popped, c_sees, producer, tail_log, head_log>>
    BY <1>1, ReadOrdered, Zenon DEF pop_read, Popped
  <1>3. Pushed' = Pushed /\ Popped' = Popped
    BY <1>0, <1>2 DEF Pushed, Popped, producer
  <1>4. QueueTyped'
    <2>1. reads' \in Nat /\ Popped + 1 \in Nat
      BY <1>0, <1>2
    <2> QED
      BY <1>0, <1>1, <1>2, <2>1, Zenon DEF QueueInv, QueueTyped, producer
  <1>5. ViewsOK'
    BY <1>2, <1>3, Zenon DEF QueueInv, ViewsOK, producer
  <1>6. ClocksOK'
    <2>1. ASSUME NEW s \in Slots, read_clk'[s] > 0
          PROVE  read_clk'[s] =< reads' /\ (read_clk'[s] - 1) % N = s
      <3>1. CASE s = Popped % N
        <4>1. read_clk'[s] = Popped + 1 /\ (Popped + 1) - 1 = Popped
          BY <1>0, <1>1, <1>2, <3>1 DEF QueueInv, QueueTyped
        <4> QED
          BY <1>0, <1>2, <3>1, <4>1
      <3>2. CASE s # Popped % N
        <4>1. read_clk'[s] = read_clk[s] /\ read_clk[s] \in Nat
          BY <1>2, <3>2 DEF QueueInv, QueueTyped
        <4>2. read_clk[s] =< reads /\ (read_clk[s] - 1) % N = s
          BY <2>1, <4>1 DEF QueueInv, ClocksOK
        <4> QED
          BY <1>0, <1>2, <4>1, <4>2
      <3> QED
        BY <3>1, <3>2, Zenon
    <2> QED
      BY <1>2, <2>1 DEF QueueInv, ClocksOK, producer
  <1>7. TransitOK'
    BY <1>2, <1>3, Zenon DEF QueueInv, TransitOK, producer
  <1> QED
    BY <1>4, <1>5, <1>6, <1>7 DEF QueueInv

\* The store of tail preserves the invariant.
LEMMA StoreTailInv ==
    ASSUME QueueInv, push_store
    PROVE  QueueInv'
  <1>0. /\ Pushed \in Nat /\ Popped \in Nat /\ writes \in Nat
        /\ p_sees \in Nat /\ tail = Pushed % W
    BY Counters, Indices, Zenon
  <1>1. /\ ppc = "store" /\ ppc' = "idle" /\ writes = Pushed + 1
        /\ tail_log' = Append(tail_log, [val |-> Inc(Pushed % W), clk |-> Pushed + 1])
        /\ UNCHANGED <<pitem, writes, p_sees, write_clk, buffer, consumer, head_log>>
    BY <1>0 DEF push_store, Pushed
  <1>2. Pushed' = Pushed + 1 /\ Popped' = Popped
    BY <1>0, <1>1 DEF Pushed, Popped, consumer
  <1>3. /\ tail_log' \in Log /\ Len(tail_log') > 0
        /\ tail_log'[1] = tail_log[1]
        /\ LogOK(tail_log', Pushed + 1)
    BY <1>0, <1>1, AppendFacts, ZenonT(30) DEF QueueInv, QueueTyped, ViewsOK
  <1>4. QueueTyped'
    BY <1>1, <1>3, Zenon DEF QueueInv, QueueTyped, consumer
  <1>5. ViewsOK'
    <2>1. Pushed' =< p_sees' + N
      BY <1>0, <1>1, <1>2, Pos DEF QueueInv, ViewsOK
    <2> QED
      BY <1>1, <1>2, <1>3, <2>1, Zenon DEF QueueInv, ViewsOK, consumer
  <1>6. ClocksOK'
    BY <1>1 DEF QueueInv, ClocksOK, consumer
  <1>7. TransitOK'
    BY <1>1, <1>2, Zenon DEF QueueInv, TransitOK, consumer
  <1> QED
    BY <1>4, <1>5, <1>6, <1>7 DEF QueueInv

\* The store of head preserves the invariant.
LEMMA StoreHeadInv ==
    ASSUME QueueInv, pop_store
    PROVE  QueueInv'
  <1>0. /\ Pushed \in Nat /\ Popped \in Nat /\ reads \in Nat
        /\ c_sees \in Nat /\ head = Popped % W
    BY Counters, Indices, Zenon
  <1>1. /\ cpc = "store" /\ cpc' = "idle" /\ reads = Popped + 1
        /\ head_log' = Append(head_log, [val |-> Inc(Popped % W), clk |-> Popped + 1])
        /\ popped' = citem
        /\ UNCHANGED <<citem, reads, c_sees, read_clk, producer, tail_log>>
    BY <1>0 DEF pop_store, Popped
  <1>2. Pushed' = Pushed /\ Popped' = Popped + 1
    BY <1>0, <1>1, ZenonT(30) DEF Pushed, Popped, producer
  <1>3. /\ head_log' \in Log /\ Len(head_log') > 0
        /\ head_log'[1] = head_log[1]
        /\ LogOK(head_log', Popped + 1)
    BY <1>0, <1>1, AppendFacts DEF QueueInv, QueueTyped, ViewsOK
  <1>4. QueueTyped'
    BY <1>1, <1>3, Zenon DEF QueueInv, QueueTyped, producer
  <1>5. ViewsOK'
    <2>1. Popped' =< c_sees'
      BY <1>0, <1>1, <1>2, Pos DEF QueueInv, ViewsOK
    <2> QED
      BY <1>1, <1>2, <1>3, <2>1, ZenonT(30) DEF QueueInv, ViewsOK, producer
  <1>6. ClocksOK'
    BY <1>1, Zenon DEF QueueInv, ClocksOK, producer
  <1>7. TransitOK'
    BY <1>1, <1>2 DEF QueueInv, TransitOK, producer
  <1> QED
    BY <1>4, <1>5, <1>6, <1>7 DEF QueueInv

\* drop() preserves the invariant.
LEMMA DropInv ==
    ASSUME QueueInv, drop
    PROVE  QueueInv'
  <1> DEFINE i == Len(tail_log)
  <1>1. /\ Pushed \in Nat /\ Popped \in Nat /\ p_sees \in Nat /\ c_sees \in Nat
        /\ Popped =< Pushed
    BY Counters
  <1>2. i \in DOMAIN tail_log /\ tail_log[i].clk = Pushed
    <2>1. i \in Nat /\ i > 0 /\ DOMAIN tail_log = 1 .. i
      BY DEF QueueInv, QueueTyped, Log
    <2>2. i \in 1 .. Len(tail_log)
      BY <2>1
    <2>3. tail_log[i].clk = Pushed - (Len(tail_log) - i)
      BY <2>2, Zenon DEF QueueInv, ViewsOK, LogOK
    <2> QED
      BY <1>1, <2>1, <2>3
  <1>3. /\ tail_log' = ReadFrom(tail_log, i)
        /\ ppc = "idle" /\ ppc' = "dropped" /\ cpc = "idle"
        /\ c_sees' = Pushed /\ Pushed' = Pushed /\ Popped' = Popped
        /\ UNCHANGED <<pitem, writes, p_sees, write_clk, buffer,
                       cpc, citem, popped, reads, read_clk, head_log>>
    BY Zenon DEF drop, Pushed, Popped
  <1>4. /\ tail_log' \in Log /\ Len(tail_log') > 0
        /\ tail_log'[1] = tail_log[i]
        /\ LogOK(tail_log', Pushed)
    <2>1. tail_log \in Log /\ LogOK(tail_log, Pushed)
      BY Zenon DEF QueueInv, QueueTyped, ViewsOK
    <2>2. Pushed \in Int
      BY <1>1
    <2> QED
      BY <1>1, <1>2, <1>3, <2>1, <2>2, ReadFromFacts, Zenon
  <1> HIDE DEF i
  <1>5. QueueTyped'
    BY <1>1, <1>3, <1>4, Zenon DEF QueueInv, QueueTyped
  <1>6. ViewsOK'
    <2>1. LogOK(tail_log, Pushed)' /\ LogOK(head_log, Popped)'
      BY <1>3, <1>4, Zenon DEF QueueInv, ViewsOK
    <2>2. (p_sees = head_log[1].clk)' /\ (Pushed =< p_sees + N)'
      BY <1>3, Zenon DEF QueueInv, ViewsOK
    <2>3. (c_sees = tail_log[1].clk)' /\ (Popped =< c_sees)'
      BY <1>1, <1>2, <1>3, <1>4, Zenon
    <2> QED
      BY <1>3, <2>1, <2>2, <2>3, Zenon DEF ViewsOK
  <1>7. ClocksOK' /\ TransitOK'
    BY <1>3 DEF QueueInv, ClocksOK, TransitOK
  <1> QED
    BY <1>5, <1>6, <1>7 DEF QueueInv

\* The inductive invariant holds in every reachable state.
THEOREM QueueInvariant == QueueSpec => []QueueInv
  <1>1. QueueInit => QueueInv
    <2> SUFFICES ASSUME QueueInit PROVE QueueInv
      OBVIOUS
    <2> DEFINE e == [val |-> 0, clk |-> 0]
    <2>1. e \in Stores /\ e.clk = 0 /\ e.val = 0
      BY Pos DEF Stores
    <2>2. 0 % W = 0
      BY DivMod, ModUnique, Pos
    <2>3. Pushed = 0 /\ Popped = 0
      BY Zenon DEF QueueInit, Pushed, Popped
    <2>4. tail_log = <<e>> /\ head_log = <<e>>
      BY DEF QueueInit
    <2> HIDE DEF e
    <2>5. <<e>> \in Log /\ Len(<<e>>) = 1 /\ <<e>>[1] = e
      BY <2>1 DEF Log
    <2>6. LogOK(<<e>>, 0)
      BY <2>1, <2>2, <2>5 DEF LogOK
    <2>7. QueueTyped
      BY <2>4, <2>5 DEF QueueInit, QueueTyped
    <2>8. ViewsOK
      BY <2>1, <2>3, <2>4, <2>5, <2>6, Pos DEF QueueInit, ViewsOK
    <2>9. ClocksOK /\ TransitOK
      BY DEF QueueInit, ClocksOK, TransitOK
    <2> QED
      BY <2>7, <2>8, <2>9, Zenon DEF QueueInv
  <1>2. QueueInv /\ [QueueNext]_queue_vars => QueueInv'
    <2> SUFFICES ASSUME QueueInv, [QueueNext]_queue_vars
                 PROVE  QueueInv'
      OBVIOUS
    <2>1. ASSUME NEW item \in Items, NEW i \in DOMAIN head_log, push_load(item, i)
          PROVE  QueueInv'
      BY <2>1, LoadHeadInv, Zenon DEF push_load
    <2>2. ASSUME NEW i \in DOMAIN head_log, push_full(i)
          PROVE  QueueInv'
      BY <2>2, LoadHeadInv, Zenon DEF push_full
    <2>3. ASSUME NEW i \in DOMAIN tail_log, pop_load(i)
          PROVE  QueueInv'
      BY <2>3, LoadTailInv, Zenon DEF pop_load
    <2>4. ASSUME NEW i \in DOMAIN tail_log, pop_empty(i)
          PROVE  QueueInv'
      BY <2>4, LoadTailInv DEF pop_empty
    <2>5. CASE UNCHANGED queue_vars
      BY <2>5, ZenonT(30) DEF queue_vars, producer, consumer, QueueInv, QueueTyped, ViewsOK, ClocksOK,
                  TransitOK, Pushed, Popped
    <2> QED
      BY Zenon, <2>1, <2>2, <2>3, <2>4, <2>5, WriteInv, ReadInv, StoreTailInv, StoreHeadInv,
         DropInv DEF QueueNext, Push, Pop
  <1> QED
    BY <1>1, <1>2, PTL DEF QueueSpec

\* Type correctness.
THEOREM QueueTypeCorrect == QueueSpec => []QueueTyped
  <1>1. QueueInv => QueueTyped
    BY DEF QueueInv
  <1> QED
    BY <1>1, QueueInvariant, PTL

\* No access to a slot races with the other thread, and no uninitialised slot
\* is read: the claim of the SAFETY comments.
THEOREM QueueRaceFree == QueueSpec => []AccessesOrdered
  <1>1. QueueInv => AccessesOrdered
    BY ReadOrdered, WriteOrdered, Indices, Zenon DEF AccessesOrdered
  <1> QED
    BY <1>1, QueueInvariant, PTL

\* len() errs only to the side its caller can rely on.
THEOREM QueueLenOneSided == QueueSpec => []LenOneSided
  <1>1. QueueInv => LenOneSided
    <2> SUFFICES ASSUME QueueInv PROVE LenOneSided
      BY Zenon
    <2>0. /\ Pushed \in Nat /\ Popped \in Nat /\ p_sees \in Nat /\ c_sees \in Nat
          /\ p_sees =< Popped /\ Popped =< c_sees /\ c_sees =< Pushed
          /\ Pushed =< p_sees + N
      BY Counters
    <2>1. ASSUME NEW i \in DOMAIN head_log
          PROVE  Sub(tail, head_log[i].val) \in QueueLen .. N
      <3>1. /\ head_log[i].clk \in p_sees .. Popped
            /\ Sub(tail, head_log[i].val) = Pushed - head_log[i].clk
            /\ QueueLen = Pushed - Popped
        BY Indices, Zenon
      <3> QED
        BY <2>0, <3>1, Pos
    <2>2. ASSUME NEW i \in DOMAIN tail_log
          PROVE  Sub(tail_log[i].val, head) \in 0 .. QueueLen
      <3>1. /\ tail_log[i].clk \in c_sees .. Pushed
            /\ Sub(tail_log[i].val, head) = tail_log[i].clk - Popped
            /\ QueueLen = Pushed - Popped
        BY Indices, Zenon
      <3> QED
        BY <2>0, <3>1, Pos
    <2> QED
      BY <2>1, <2>2 DEF LenOneSided
  <1> QED
    BY <1>1, QueueInvariant, PTL

-----------------------------------------------------------------------------
\* The queue's contents without the wraparound.
LEMMA ContentsForm ==
    ASSUME QueueInv
    PROVE  Contents = [i \in 1 .. Pushed - Popped |-> buffer[(Popped + i - 1) % N]]
  <1>1. Pushed \in Nat /\ Popped \in Nat
    BY Counters, Zenon
  <1>2. QueueLen = Pushed - Popped /\ head = Popped % W
    BY Indices, Zenon
  <1>3. ASSUME NEW i \in 1 .. Pushed - Popped
        PROVE  Slot((head + i - 1) % W) = (Popped + i - 1) % N
    <2> DEFINE d == i - 1
               x == Popped + d
    <2>1. d \in Int /\ x \in Nat /\ head + i - 1 = (Popped % W) + d
      <3>1. Popped % W \in Int
        BY <1>1, DivMod, Pos
      <3> QED
        BY <1>1, <1>2, <3>1
    <2>2. Popped + i - 1 = x
      BY <1>1
    <2> HIDE DEF d
    <2>3. ((Popped % W) + d) % W = x % W
      BY <1>1, <2>1, ModShift, Zenon
    <2> HIDE DEF x
    <2>4. (x % W) % N = x % N
      BY <2>1, ModMod
    <2> QED
      BY <2>1, <2>2, <2>3, <2>4, Zenon DEF Slot
  <1> QED
    BY <1>2, <1>3 DEF Contents

\* The same in the next state.
LEMMA ContentsFormNext ==
    QueueInv' => (Contents = [i \in 1 .. Pushed - Popped |-> buffer[(Popped + i - 1) % N]])'
  <1>1. QueueInv => (Contents = [i \in 1 .. Pushed - Popped |-> buffer[(Popped + i - 1) % N]])
    BY ContentsForm, Zenon
  <1> QED
    BY <1>1, PTL

\* The contents are a sequence of items or of slots yet to be proved written.
LEMMA ContentsSeq ==
    ASSUME QueueInv
    PROVE  /\ Contents \in Seq(Items \cup {NoItem})
           /\ Len(Contents) = Pushed - Popped
           /\ \A i \in 1 .. Pushed - Popped : Contents[i] = buffer[(Popped + i - 1) % N]
  <1>1. Pushed \in Nat /\ Popped \in Nat /\ Popped =< Pushed
    BY Counters
  <1>2. \A i \in 1 .. Pushed - Popped : buffer[(Popped + i - 1) % N] \in Items \cup {NoItem}
    <2> SUFFICES ASSUME NEW i \in 1 .. Pushed - Popped
                 PROVE  buffer[(Popped + i - 1) % N] \in Items \cup {NoItem}
      OBVIOUS
    <2> DEFINE x == Popped + i - 1
    <2>1. x \in Int
      BY <1>1
    <2> HIDE DEF x
    <2>2. x % N \in Slots
      BY <2>1, DivMod, Pos, Zenon DEF Slots
    <2> QED
      BY <2>2 DEF x, QueueInv, QueueTyped
  <1> DEFINE n == Pushed - Popped
             g == [i \in 1 .. n |-> buffer[(Popped + i - 1) % N]]
  <1>3. n \in Nat /\ g \in [1 .. n -> Items \cup {NoItem}]
    <2>1. n \in Nat
      BY <1>1
    <2>2. \A i \in 1 .. n : buffer[(Popped + i - 1) % N] \in Items \cup {NoItem}
      BY <1>2
    <2> HIDE DEF n
    <2> QED
      BY <2>1, <2>2, Zenon
  <1>4. Contents = g
    BY ContentsForm
  <1>5. \A i \in 1 .. n : g[i] = buffer[(Popped + i - 1) % N]
    OBVIOUS
  <1> HIDE DEF n, g
  <1>6. g \in Seq(Items \cup {NoItem}) /\ Len(g) = n
    BY <1>3
  <1> QED
    BY <1>4, <1>5, <1>6, Zenon DEF n

\* A step that moves neither counter and leaves the slots of the queued items
\* alone leaves the contents alone.
LEMMA ContentsKept ==
    ASSUME QueueInv, QueueInv', Pushed' = Pushed, Popped' = Popped,
           \A j \in Nat : Popped =< j /\ j < Pushed => buffer'[j % N] = buffer[j % N]
    PROVE  Contents' = Contents
  <1>1. Pushed \in Nat /\ Popped \in Nat
    BY Counters, Zenon
  <1>2. \A i \in 1 .. Pushed - Popped :
           buffer'[(Popped + i - 1) % N] = buffer[(Popped + i - 1) % N]
    <2> SUFFICES ASSUME NEW i \in 1 .. Pushed - Popped
                 PROVE  buffer'[(Popped + i - 1) % N] = buffer[(Popped + i - 1) % N]
      BY Zenon
    <2> DEFINE x == Popped + i - 1
    <2>1. x \in Nat /\ Popped =< x /\ x < Pushed
      BY <1>1
    <2> HIDE DEF x
    <2>2. buffer'[x % N] = buffer[x % N]
      BY <2>1, Zenon
    <2> QED
      BY <2>2, Zenon DEF x
  <1>3. Contents = [i \in 1 .. Pushed - Popped |-> buffer[(Popped + i - 1) % N]]
    BY ContentsForm, Zenon
  <1>4. Contents' = [i \in 1 .. Pushed' - Popped' |-> buffer'[(Popped' + i - 1) % N]]
    BY ContentsFormNext
  <1> QED
    BY <1>2, <1>3, <1>4, Zenon

\* ContentsSeq in the next state.
LEMMA ContentsSeqNext ==
    QueueInv' => (/\ Contents \in Seq(Items \cup {NoItem})
             /\ Len(Contents) = Pushed - Popped
             /\ \A i \in 1 .. Pushed - Popped :
                   Contents[i] = buffer[(Popped + i - 1) % N])'
  <1>1. QueueInv => (/\ Contents \in Seq(Items \cup {NoItem})
                /\ Len(Contents) = Pushed - Popped
                /\ \A i \in 1 .. Pushed - Popped :
                      Contents[i] = buffer[(Popped + i - 1) % N])
    BY ContentsSeq, Zenon
  <1> QED
    BY <1>1, PTL

\* The store of tail appends the item to the contents.
LEMMA StoreTailPushes ==
    ASSUME QueueInv, QueueInv', push_store
    PROVE  \E item \in Items : Abstract!Push(item)
  <1> DEFINE S == Items \cup {NoItem}
             n == Pushed - Popped
             c == Contents
             d == Contents'
             a == Append(c, pitem)
  <1>0. /\ Pushed \in Nat /\ Popped \in Nat /\ Popped =< Pushed /\ p_sees \in Nat
        /\ p_sees =< Popped /\ writes \in Nat
    BY Counters
  <1>1. /\ ppc = "store" /\ pitem \in Items /\ buffer[Pushed % N] = pitem
        /\ Pushed < p_sees + N
    BY ZenonT(30) DEF push_store, QueueInv, TransitOK, ViewsOK
  <1>2. Pushed' = Pushed + 1 /\ Popped' = Popped /\ buffer' = buffer /\ popped' = popped
    BY <1>0 DEF push_store, Pushed, Popped, consumer
  <1>3. /\ c \in Seq(S) /\ Len(c) = n /\ n \in Nat
        /\ \A i \in 1 .. n : c[i] = buffer[(Popped + i - 1) % N]
    BY <1>0, ContentsSeq
  <1>4. /\ d \in Seq(S) /\ Len(d) = n + 1
        /\ \A i \in 1 .. n + 1 : d[i] = buffer[(Popped + i - 1) % N]
    <2>1. /\ d \in Seq(S) /\ Len(d) = Pushed' - Popped'
          /\ \A i \in 1 .. Pushed' - Popped' : d[i] = buffer'[(Popped' + i - 1) % N]
      BY ContentsSeqNext
    <2>2. Pushed' - Popped' = n + 1
      BY <1>0, <1>2
    <2> QED
      BY <1>2, <2>1, <2>2, Zenon
  <1>5. n < N
    BY <1>0, <1>1, Pos
  <1>6. Popped + (n + 1) - 1 = Pushed
    BY <1>0
  <1>7. d[n + 1] = pitem
    BY <1>1, <1>3, <1>4, <1>6
  <1> HIDE DEF S, n, c, d
  <1>8. pitem \in S
    BY <1>1, ZenonT(30) DEF S
  <1>9. /\ a \in Seq(S) /\ Len(a) = n + 1
        /\ \A i \in 1 .. n : a[i] = c[i]
        /\ a[n + 1] = pitem
    BY <1>3, <1>8, AppendedSeq
  <1> HIDE DEF a
  <1>10. \A i \in 1 .. n + 1 : d[i] = a[i]
    BY <1>3, <1>4, <1>7, <1>9
  <1>11. d = a
    BY <1>4, <1>9, <1>10, SameSeq, Zenon
  <1> QED
    BY <1>1, <1>2, <1>3, <1>5, <1>11, Zenon DEF Abstract!Push, a, c, d

\* The store of head removes the first item, and pop returns that item.
LEMMA StoreHeadPops ==
    ASSUME QueueInv, QueueInv', pop_store
    PROVE  Abstract!Pop
  <1> DEFINE S == Items \cup {NoItem}
             n == Pushed - Popped
             c == Contents
             d == Contents'
             t == Tail(c)
  <1>0. /\ Pushed \in Nat /\ Popped \in Nat /\ c_sees \in Nat
        /\ c_sees =< Pushed /\ reads \in Nat
    BY Counters, Zenon
  <1>1. /\ cpc = "store" /\ citem = buffer[Popped % N] /\ Popped < c_sees
        /\ popped' = citem
    BY ZenonT(30) DEF pop_store, QueueInv, TransitOK, ViewsOK
  <1>2. Pushed' = Pushed /\ Popped' = Popped + 1 /\ buffer' = buffer
    BY <1>0 DEF pop_store, Pushed, Popped, producer
  <1>3. n \in Nat /\ n >= 1
    BY <1>0, <1>1
  <1>4. /\ c \in Seq(S) /\ Len(c) = n
        /\ \A i \in 1 .. n : c[i] = buffer[(Popped + i - 1) % N]
    BY ContentsSeq, Zenon
  <1>5. /\ d \in Seq(S) /\ Len(d) = n - 1
        /\ \A i \in 1 .. n - 1 : d[i] = buffer[((Popped + 1) + i - 1) % N]
    <2>1. /\ d \in Seq(S) /\ Len(d) = Pushed' - Popped'
          /\ \A i \in 1 .. Pushed' - Popped' : d[i] = buffer'[(Popped' + i - 1) % N]
      BY ContentsSeqNext
    <2>2. Pushed' - Popped' = n - 1
      BY <1>0, <1>2
    <2> QED
      BY <1>2, <2>1, <2>2, Zenon
  <1>6. c[1] = citem
    <2>1. Popped + 1 - 1 = Popped
      BY <1>0
    <2> QED
      BY <1>1, <1>3, <1>4, <2>1
  <1>7. \A i \in 1 .. n - 1 : /\ i + 1 \in 1 .. n
                              /\ (Popped + 1) + i - 1 = Popped + (i + 1) - 1
    BY <1>0, <1>3
  <1>8. \A i \in 1 .. n - 1 : d[i] = c[i + 1]
    BY <1>4, <1>5, <1>7, Zenon
  <1> HIDE DEF S, n, c, d
  <1>9. c # <<>>
    BY <1>3, <1>4
  <1>10. /\ t \in Seq(S) /\ Len(t) = n - 1
         /\ \A i \in 1 .. n - 1 : t[i] = c[i + 1]
    BY <1>4, <1>9, TailSeq
  <1>11. Head(c) = c[1]
    BY <1>4, <1>9
  <1> HIDE DEF t
  <1>12. d = t
    BY <1>5, <1>8, <1>10, SameSeq, Zenon
  <1> QED
    BY <1>1, <1>6, <1>9, <1>11, <1>12 DEF Abstract!Pop, t, c, d

\* The ring buffer implements the bounded FIFO.
THEOREM QueueRefinement == QueueSpec => ImplementsFifo
  <1>1. QueueInit => Abstract!Init
    <2> SUFFICES ASSUME QueueInit PROVE Abstract!Init
      OBVIOUS
    <2>1. tail = 0 /\ head = 0
      BY DEF QueueInit, tail, head
    <2>2. 0 % W = 0
      BY DivMod, ModUnique, Pos
    <2>3. QueueLen = 0
      BY <2>1, <2>2 DEF QueueLen, Sub
    <2>4. Contents = <<>>
      BY <2>3 DEF Contents
    <2> QED
      BY <2>4, Zenon DEF QueueInit, Abstract!Init
  <1>2. QueueInv /\ QueueInv' /\ [QueueNext]_queue_vars => [Abstract!Next]_(Abstract!vars)
    <2> SUFFICES ASSUME QueueInv, QueueInv', [QueueNext]_queue_vars
                 PROVE  [Abstract!Next]_(Abstract!vars)
      OBVIOUS
    <2> USE DEF Abstract!vars
    <2>1. ASSUME UNCHANGED <<buffer, popped>>, Pushed' = Pushed, Popped' = Popped
          PROVE  UNCHANGED Abstract!vars
      BY <2>1, ContentsKept, Zenon
    <2>2. ASSUME NEW item \in Items, NEW i \in DOMAIN head_log, push_load(item, i)
          PROVE  UNCHANGED Abstract!vars
      BY <2>1, <2>2, Zenon DEF push_load, Pushed, Popped, consumer
    <2>3. ASSUME NEW i \in DOMAIN head_log, push_full(i)
          PROVE  UNCHANGED Abstract!vars
      BY <2>1, <2>3, Zenon DEF push_full, Pushed, Popped, consumer
    <2>4. ASSUME push_write
          PROVE  UNCHANGED Abstract!vars
      <3>1. Pushed' = Pushed /\ Popped' = Popped /\ popped' = popped
        BY <2>4, Counters DEF push_write, Pushed, Popped, consumer
      <3>2. buffer' = [buffer EXCEPT ![Pushed % N] = pitem] /\ ppc = "write"
        BY <2>4, Indices, Zenon DEF push_write
      <3>3. ASSUME NEW j \in Nat, Popped =< j, j < Pushed
            PROVE  buffer'[j % N] = buffer[j % N]
        <4>1. j % N # Pushed % N
          BY <3>2, <3>3, SlotsApart, Zenon
        <4>2. j % N \in Slots
          BY DivMod, Pos DEF Slots
        <4> QED
          BY <3>2, <4>1, <4>2, Zenon DEF QueueInv, QueueTyped
      <3> QED
        BY <3>1, <3>3, ContentsKept, Zenon
    <2>5. ASSUME push_store
          PROVE  Abstract!Next
      BY <2>5, StoreTailPushes, Zenon DEF Abstract!Next
    <2>6. ASSUME NEW i \in DOMAIN tail_log, pop_load(i)
          PROVE  UNCHANGED Abstract!vars
      BY <2>1, <2>6, Zenon DEF pop_load, Pushed, Popped, producer
    <2>7. ASSUME NEW i \in DOMAIN tail_log, pop_empty(i)
          PROVE  UNCHANGED Abstract!vars
      BY <2>1, <2>7, Zenon DEF pop_empty, Pushed, Popped, producer
    <2>8. ASSUME pop_read
          PROVE  UNCHANGED Abstract!vars
      BY <2>1, <2>8, Counters DEF pop_read, Pushed, Popped, producer
    <2>9. ASSUME pop_store
          PROVE  Abstract!Next
      BY <2>9, StoreHeadPops, Zenon DEF Abstract!Next
    <2>10. ASSUME drop
           PROVE  UNCHANGED Abstract!vars
      BY <2>1, <2>10, Zenon DEF drop, Pushed, Popped
    <2>11. CASE UNCHANGED queue_vars
      BY <2>1, <2>11 DEF queue_vars, Pushed, Popped, producer, consumer
    <2> QED
      BY <2>2, <2>3, <2>4, <2>5, <2>6, <2>7, <2>8, <2>9, <2>10, <2>11, Zenon
         DEF QueueNext, Push, Pop
  <1> QED
    BY <1>1, <1>2, QueueInvariant, PTL DEF QueueSpec, Abstract!Spec, ImplementsFifo
=============================================================================
