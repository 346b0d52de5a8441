# A TLA+ model of the low-latency trading system

This directory models the exchange, its two connections, and the trading client:
the order book and its memory pool, the matching engine, the lock-free queue,
the logger, order entry over TCP, market data over UDP multicast, and the
client's positions, risk checks, strategies, trade engine and event loop. TLC
checks the modules on small instances. TLAPS proves the main safety properties
of the book, the engine, the queue, the logger, the publisher, the trade engine and
the trading client for every value of their constants. Paths below are relative to `src/`.

## The system

| Part | Source | State | Operations | Module |
|---|---|---|---|---|
| memory pool | `common/src/mem_pool.rs` | slots, free-list stack | allocate, deallocate, by index | `MemPool` |
| order book | `exchange/src/order_book.rs` | levels, id map, pool, priority counter | add_order, cancel_order | `OrderBookOps`, `OrderBook`, `BookSpec` |
| matching engine | `exchange/src/matching_engine.rs` | book per ticker, next order id | add_ticker, process_request | `MatchingEngine` |
| lock-free queue | `common/src/lf_queue.rs` | buffer, head, tail | push, pop, len, drop | `LFQueue`, `FifoSpec` |
| logger | `common/src/logging.rs` | queue, three flags, level | log, flush, set_level, drop, writer loop | `Logger` |
| TCP sockets | `common/src/net/tcp.rs` | byte streams, backlog | connect, accept, send, try_recv | `Tcp` |
| order server | `exchange/src/order_server.rs` | clients, buffers, sequencer | poll, send_response, disconnect_all | `OrderServer` |
| order gateway | `trading/src/order_gateway.rs` | pending orders, buffer, next id | connect, send_new_order, send_cancel, poll | `OrderGateway` |
| exchange loop | `exchange/src/main.rs` | running flag | poll, process, respond, publish, shut down | `OrderEntry` |
| publisher | `exchange/src/market_data.rs` | best quote per ticker, snapshot counter | publish, snapshots, clear | `MarketDataPublisher` |
| receiver | `trading/src/market_data.rs` | BBO per ticker | poll, process_update | `BBO`, `MarketData` |
| multicast | `common/src/net/multicast.rs` | socket buffers | send_to, try_recv | `MarketDataPublisher`, `MarketData` |
| positions | `trading/src/position.rs` | position, pending quantities, profit | on_fill, add and remove orders, marks | `Position` |
| risk manager | `trading/src/risk.rs` | limits per ticker | check_order, check_open_orders, check_position | `Risk` |
| feature engine | `trading/src/features.rs` | fair value, spread, imbalance | on_bbo_update, trade signal | `Features` |
| strategies | `trading/src/strategies/` | last quotes; order interval | on_features, on_fill | `MarketMaker`, `LiquidityTaker` |
| trade engine | `trading/src/trade_engine.rs` | tracked orders, counts, keeper, limits | on_response, submit, cancel, run_cycle, reset | `Session`, `TradeEngine` |
| trading loop | `trading/src/main.rs` | one ticker, one strategy | market data, responses, strategy, Ctrl-C | `Session`, `TradingClient` |
| types | `common/src/types.rs` | | sides, sentinels | `Types` |
| time | `common/src/time.rs` | | clock reads, statistics | the taker's clock in `TradingClient` |

A gateway sends fixed-size requests over TCP. The server's `poll` accepts
clients, joins the received pieces into frames, and numbers the requests. The
main loop gives each to the engine, sends the response to the connection it came
from, and publishes the market updates. The publisher keeps one quote per side
for its snapshots; receivers keep a BBO from the updates that reach them. The
client's loop drains market data into features, drains responses into positions,
and runs one strategy, whose orders pass the risk check before the gateway sends
them. `TradeEngine` is a library alternative to that loop, with order tracking
and cancels; `main.rs` does not use it.

The behaviours that are hard to test: slots and links reused after long
sequences of adds and cancels; quantities and indices that wrap; old values
loaded by the two ends of the queue; a flush or a drop racing the log writer;
frames split by receives and cut by sends; clients that leave before they are
answered; client order ids used as market order ids; sends that fail in the
middle of a snapshot; datagrams lost by a receiver that cannot notice; fills,
cancels and rejections that cross on the way; risk checks made while orders are
in flight; positions that flip, and averages that round.
`PROJECT.json` lists each under "hazards" at its line.

## The models

**OrderBook.** A book is a record (`order_map`, `levels`, `pool`, `storage`,
`next_priority`); `OrderBookOps` has its operations as functions on it, so that
`OrderBook` (one book) and `MatchingEngine` (a book per ticker) share them.
`prev_idx`, `next_idx`, `head_idx` and `tail_idx` are written exactly as the
code writes them, also through slots that were freed and reused. Quantities are
modulo `QtyMod` (2^32 in a release build). `BookSpec` is what a book promises: a
map from live ids to orders with increasing arrival stamps.

**MatchingEngine.** One action per outcome of `process_request`. Two history
variables replay what clients and feed subscribers were told, and are compared
with the books. An id taken for an order that is then refused is told to nobody;
`MarketIdsNotReused` says that an order that comes to rest has an id that was not
given out before.

**LFQueue.** One action per access to shared memory. An acquire load may return
any store not older than the one last read, and learns what its release store
published; clocks on the slots turn "no data race" into a comparison of numbers.
Indices are modulo `W` (2^64). `FifoSpec` is a bounded queue; a push takes
effect at its store of `tail`, a pop at its store of `head`.

**Logger.** Owner and writer thread over the FIFO that the queue implements.
`StaleLoads` selects whether a load of `head` or `tail` may be old (the language's
memory model, `TRUE`) or not (x86-64, `FALSE`). `sees` is the oldest `tail` the
writer may still load; reading `flush_requested` (Acquire) raises it, reading
`running` (Relaxed) does not, and `stores_visible` says that a store becomes visible
in the end without synchronisation. The flags are read in order in both.

**Order entry.** `Tcp` cuts each message in two parts. A receive takes any number
of the parts that are there, so every frame may arrive split. A send writes what
fits in `SendBuffer`; the kept runs have room for every message of a behaviour,
so they cover split receives and not cut sends. A cut request shifts every later
frame of its connection, and `RequestsInOrder` is not claimed for that case. `OrderServer`,
`OrderGateway` and the engine (an INSTANCE) are composed in `OrderEntry` with the
main loop. Gateways may end and connect again; a refused `set_nonblocking`, the
arbitrary order of the client map, and a reset that discards unread data are
included. `handle_request` leaves the updates of the engine in `updates`; that the
loop hands them to the publisher is modelled in `MarketData`.

**Market data.** The publisher is called for updates of a set of resting orders,
which clients add from one of several flows of orders, chosen at the start. Each
operation of the publisher has an operator for what it may send, message by message,
and one for what it leaves behind: a send may fail at any point of a call
(`SendFails`), and what was sent before it stays sent. `enable_snapshots` is a
constant, as in the configuration. The network may drop any
datagram (`Lossy`), and a full socket buffer always does. Receivers join late and
restart. Trade and Modify exist in the protocol; no engine code emits them yet,
and Trade is included because publisher and receiver handle it. `gap` records for
which tickers a receiver missed a removal since it joined or saw a Clear. The
receiver's BBO operators are in `BBO`, which the trading client uses too.

**Session.** The exchange as one client sees it: requests and responses travel in
order, as `order_entry` shows; a new order is accepted or refused, a resting one
is filled in parts or whole, a cancel succeeds or comes too late. Two assumptions
differ from the exchange in the repository. The client is alone and started with
it, so its ids name its own orders (`order_entry_cancel` shows what happens
otherwise). And the exchange fills orders, which the client's code handles and
the engine does not do yet.

**TradeEngine.** One action per call of its user, with `reset` and changes of
limits at any time. A Quote submits two orders one after the other; the second
is checked with the first pending. `run_cycle` is one step per event with its
budget. `ledger` and `traded` are history: the cost of the fills and the rounding
they may lose, and what the exchange traded. `forgot` records a reset.

**TradingClient.** One action per stage of the loop, with messages in flight
between any two. The feed has updates of other tickers too; of the receiver's BBOs
only the one of the traded ticker is kept, which is the only one the loop reads. The clock is the time since the taker's last order, cut off at
its longest interval. Floating-point results are exact fractions; where a result
is on a boundary (a tie in rounding, a signal at its threshold, a whole product),
both outcomes are allowed.

## What is checked

Passing runs:

| Run | Shows |
|---|---|
| `order_book` | Slots are neither leaked nor shared. Levels exist, count and sum exactly what rests there, across wraps. Refusals have a cause. The book implements `BookSpec`. |
| `engine` | Every book is sound. Market order ids are unique and never given out again. Responses and updates, replayed, give the resting orders. Rejections change nothing. |
| `lf_queue` | No data race. FIFO across index wraps. `len` errs on the safe side for each end. `drop` empties the queue. |
| `logger` | Under the language's memory model every accepted entry is written while the logger lives. `flush` and `drop` return. |
| `order_entry` | The engine gets the requests of a connection whole, once and in order. Responses match requests. Sequence numbers have no gap. Every request on a connection that stays open is answered. |
| `market_data` | The publisher never quotes quantity that is not there. A snapshot cut short between two sends is made up for by the next publish that succeeds. A receiver that missed no removal shows only quotes that are there. |
| `trade_engine` | The tracked orders are those alive at the exchange, with the quantity left there. Positions, with the fills in flight, are what was traded. Pending quantities and counts are exact until a reset and err on a known side after it. Profit accounts for the fills up to rounding. Exposure is bounded. |
| `trading_client` | The strategy's position is the keeper's. The pending quantity covers what was acknowledged. An order sent with nothing in flight respects the limit. The taker keeps its minimum interval. |

Runs that show a statement of the repository does not hold:

| Run | Statement | What happens |
|---|---|---|
| `order_book_fifo` | levels are FIFO lists (`order_book.rs:5`) | `next_idx` of the old tail is never set; cancelling the head of a longer level empties its head and tail |
| `logger_flush` | flush blocks until all is written (`logging.rs:304`) | an entry pushed after the drain and before the flag is seen is not written |
| `logger_drop` | the rest is drained before the writer exits (`logging.rs:187`) | `running` is loaded Relaxed, so the last drain may load an old `tail` and leave entries unwritten; not on x86-64 |
| `order_entry_cancel` | a cancel names its order (`order_gateway.rs:126`) | the client's id is looked up as a market order id |

Seven more statements do not hold of the code. TLC gave a counterexample for each
during development; no run is kept for them, so they are observations here and
not results a reader can replay:

- The engine "executes matching logic" (`matching_engine.rs:6`): every order
  rests, also one that crosses the book.
- `len` is safe for further readers (`lf_queue.rs:48`): in a third thread `head`
  may overtake the `tail` loaded before it, and the difference wraps.
- Pending orders were sent (`order_gateway.rs:14`): the result of the send is
  ignored.
- The publisher's state is the best bid and offer
  (`exchange/src/market_data.rs:42`): one level per side is kept.
- The receiver "maintains a local BBO" (`trading/src/market_data.rs:3`): an
  emptied level keeps its price and hides worse quotes, so a receiver with a
  complete feed may show nothing where the publisher has a quote.
- The resulting position "(including pending orders) does not exceed
  max_position" (`trading/src/risk.rs:109`): the client counts an order when its
  acceptance is read, so a market maker that quotes again before that sends more
  than the limit; and orders against the position are exempt, so several of them
  may carry it past the limit on the other side. `QuietOrdersWithinLimit` and
  `ExposureBounded` state what does hold.
- Pending quantity is removed "on cancel or fill"
  (`trading/src/position.rs:110`): the main loop removes none on a fill, so it
  only grows and in the end refuses every order that does not reduce the
  position.

Smaller things a reader of the client's code may want to know, which no property
is about: a strategy keeps its new quotes or its cooldown when the risk check
refuses its orders; with the default limits the taker's orders above 100 are
refused so; old quotes are never cancelled, as `main.rs` ignores CancelAll; a
quote at price 0 counts as no quote and is sent in every pass; the smoothed fair
value stops within a few ticks of a constant mid price, where rounding undoes its
last step; features stay valid when the BBO no longer is, also after a Clear, when
both prices are `INVALID_PRICE` (only a test publishes a Clear).

**Bounds.** Book: three slots, four adds, one price on two sides, quantities that
wrap `QtyMod = 4`; enough to fill the pool, reuse a slot through an old link, and
wrap a level. Engine: two tickers with two slots, three ids. Queue: capacity 4,
`W = 8`, ten pushes, so both indices wrap. Logger: capacity 2, four entries.
Order entry: two gateways, two connections, three requests,
one price, quantity and side. Market data: one ticker and two orders at a time, from
asks at two prices and of two quantities or from an ask and a bid, the flow in which
a snapshot is two sends; a snapshot every two updates and up to four updates without
a complete one (`MaxCount`), so that a snapshot that failed is tried again, fails
again and is tried once more; one receiver whose socket holds one datagram. Order ids
are symmetric there. Trade engine: two tickers, four orders that open, add to, close
and flip a position, three calls and two messages in flight, so that fills,
cancels and a reset cross; limits under which orders against the position do carry it
past `max_position`. Trading client: four orders, two updates in a pass, one of them
of a ticker that is not traded, and quotes on which both strategies act; base quantity and limit such that the third
order meets the limit.

**Fairness.** Logger: the writer is a thread that never blocks, and the owner
keeps running inside a call; nothing makes it call. A store becomes visible in finite
time, as the language promises. Queue: the loop of `drop`
runs on. Order entry: the main loop polls and handles for ever while it runs, a
poll that can receive eventually does, and gateways poll. This is weak fairness of
`handle_request`, of the polls that read a given connection and of each gateway's
polls, written out as "infinitely often not possible, or infinitely often done" with
the condition for the first and the effect for the second, which TLC evaluates much
faster than ENABLED. Send buffers of that
run hold every response of a behaviour; a response that does not fit is only
logged by the code and never sent again.

The trading client has no liveness property: its loop promises no order, and the
exchange's answers are `EveryRequestAnswered`.

**Deadlock** is not checked for the logger, order entry and the trading client,
which stop after drop, shutdown and Ctrl-C or when the bounds are used up.

## What is proved

For every value of the constants allowed by the named assumptions: a positive pool
size and quantity modulus; a capacity that divides the index word; well-formed
configurations, limits, orders and updates; and, where pending quantities are
compared with orders, that all orders of a behaviour together stay below 2^32
(`QuantitiesFit`, `OrdersFit`), since a pending quantity is a `u32` that wraps.

- `ExchangeProofs`, the book: the inductive invariant `BookInv` (types; free slots
  and slots of live orders partition the pool; the stack holds what the counts say;
  levels count their orders and sum their quantities). The counts are needed because
  a deallocation pushes only if the stack has room, and a level is removed when its
  count is zero. The sums are modulo `QtyMod`, as the code adds and subtracts. From
  it: types, the partition, exact counts and sums of the levels, justified refusals,
  and the refinement of `BookSpec`.
- `ExchangeProofs`, the engine: every book keeps `BookInv`, ids are unique and
  not given out twice (every live id is below `next_order_id`, which never falls),
  responses and feed mirror the books, rejections change nothing. Both parts use
  the same lemmas about the operations of a book.
- `ChannelProofs`, market data: `QuotesBacked` is inductive with the types of
  states and resting orders: every case of `update_ticker_state` either takes the
  quote from the order that was just added or leaves at most what still rests. It
  holds whatever sends fail, because the state changes before the send.
- `ChannelProofs`, the logger: types and the bound of its queue, under either memory
  model.
- `ChannelProofs`, the queue: the invariant relates the logs of stores to the access
  counts (an index is its count modulo `W`), bounds the counts by `N` of each other,
  and states what each end knows of the other. From it: types, no data race,
  one-sided `len`, and the refinement of `FifoSpec`.
- `SessionProofs`: what the order of messages guarantees. An order is in one place
  (requested, resting, or ended), a cancel travels behind its order, and a rejected
  cancel behind the order's end; what a fill says is left is what the client has
  still to hear of. Also what a fill does to a position: the division in the average
  price loses at most one less than the units held.
- `TrackingProofs`, over the invariant in `TradeEngineInv`: the engine tracks exactly
  the live orders until a reset (and only live ones after), its counts match, and
  profit accounts for the fills. The order of messages is needed here: when the
  engine forgets an order on `CancelRejected`, the order is gone; and every message
  about an order names its ticker, so the right count is lowered.
- `QuantityProofs` and `TradeEngineProofs`: `leaves_qty` of a tracked order is what
  the exchange has left of it plus the fills in flight; a position plus the fills in
  flight is what was traded; the pending quantity covers the tracked orders, exactly
  until a reset; and the exposure is bounded. The invariant of `TradeEngineInv` is
  used here as already proved, so this second one is inductive relative to it.
  `TradeEngineProofs` puts these and `TrackingProofs` together and has the theorems.
- `TradingClientProofs`: the client's types, `PositionsAgree`, `OpenQtyCoversBook`,
  and the action properties `TakerSpaced` and `QuietOrdersWithinLimit`. The
  invariant says that ids are given out and served in order, that acceptances in
  flight are in the order of their ids and none offers less than what rests, and
  that the pending quantity is at most `max_order_qty` for each id before the next
  acceptance. The last keeps it from wrapping, without which the risk check would
  compare with the wrong number.

Quantities of many orders or messages are sums (`SumFunctionOnSet`, a fold over a
finite set). `Sums` states the facts about them that the models need, and
`SumProofs` proves these from the definition of the fold. The lemmas about the
models take the facts as hypotheses, and each module instantiates `SumProofs` just
before its theorems, which have no such hypothesis: the provers are much slower
with the library of finite sets in scope.

Type correctness of the book, the engine, the queue, the publisher and the trade
engine is a theorem, so their runs do not repeat it; the other runs check it.

Only model-checked: liveness and fairness; `BBOBacked` and `SnapshotDue`, which
depend on what a sequence of datagrams does to a receiver or a counter one after
the other, an induction over data; and order entry, whose frames are flattened,
sorted and selected sequences.

## Not modelled

Byte layouts, formatting, socket options, command lines, latencies and
statistics; `match_order` and `get_order`, which are stubs; `best_bid` and
`best_ask`, which change nothing and which the engine does not call; `broadcast`
and `disconnect_client`, which only tests call; subscriber callbacks; order ids
that the trade engine makes up when it has no callback; activating, deactivating
and resetting a strategy, and its simplified entry points, which the client does
not call; two threads logging through one `Logger`, which the queue's
documentation forbids; reordered and duplicated datagrams.

## Plan

1. Done: pool, book, engine, queue, logger, publisher, trade engine, trading client
   with proofs; order entry and receiver with TLC.
2. The trading client on the gateway, receiver and exchange models in place of
   `Session`, with several clients.
3. Proofs: `RequestsInOrder` and `SequencedOnce` of order entry.
4. Reordered datagrams as a variant of the network.
