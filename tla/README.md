# A verification of the low-latency matching engine

TLA+ modules for the matching venue in this repository, TLC runs that check
them on small instances, and TLAPS proofs for every instance. Paths below are
relative to the repository's `src/`; `J/` stands for
`app/backend/src/main/java/` and `F/` for `app/frontend/src/`.

## 1. The system

A client (browser, `F/`) speaks JSON over a WebSocket. One Netty worker thread
turns each frame into FIX, parses it and puts it on the inbound ring; one
engine thread matches; two consumer threads turn what the engine publishes into
frames for every connected client.

```
client --ws--> WebSocketFrameHandler -> JsonToFix -> OrderGateway/FixParser      worker thread
                                                        | inbound ring (1024)
                                                        v
                        MatchingEngineHandler -> MatchingEngine                  engine thread
                              | execution ring          | snapshot ring
                              v                         v
                  WebSocketPublisher.onExecution   WebSocketPublisher.onSnapshot  two threads
                  TradeLogger                      MarketDataService              two threads
                              \                         /-> BookFrameCache
                               ChannelGroup of clients  ---ws--> reducer (F/state)
```

| component | state | operations | hard parts | what makes it correct |
|---|---|---|---|---|
| `J/model/Order` | quantity, visible slice, status | constructor, fill, refreshDisplay, cancel, expire | peak equal to the quantity, last slice | no fill of nothing or too much; a resting order shows something |
| `J/engine/MatchingEngine` | bids, asks, two peg pools, openOrders, trades | addOrder, cancelOrder, snapshotInto | three loops over two kinds of queue, a probe that must agree with them, a midpoint read once, iceberg reloads | see section 3 |
| `J/engine/MatchingEngineHandler` | none of its own | onEvent, the listener callbacks | narrowing casts, rejects, exceptions | one outcome and one snapshot per event |
| `J/event/*Pipeline` | three rings of 1024 | publish, consume, shutdown | a full ring gates its producer | nothing lost, order kept, room again |
| `J/gateway`, `JsonToFix` | a scratch event | onFrame, parse | optional tags, widths, prices as text | what the client sends arrives, or its sender can tell |
| `J/net` | channel group, heartbeat timers | handshake, frame, close, start, stop | the snapshot sent on connect races broadcasts | a client converges to the current book |
| `J/publisher`, `J/util/BookFrameCache`, `J/market` | latest frame, latest quote | onExecution, onSnapshot | two streams, no order between them | the cache is never behind a broadcast |
| `F/state/reducer` | book, tape, rows, inspector log, session figures | FRAME, SENT, CONNECTION | reports that were never sent or were lost, two streams, caps | rows, ladder and figures agree with the venue |
| `F/state/useOrderBook` | socket, timer, `disposed` of each run of an effect | mount, unmount, connect, browser events, send | StrictMode's double mount, back-off, late events | one live connection, a true status |
| `F/components/OrderEntry` and the two cancels, `F/App` | form fields, id generator | typing, chips, nudges, submit, cancel | hidden fields, an id taken before the send | every order that is sent is acceptable and has its row |
| the other views, `F/depth`, `priceSeries`, `sessionStats`, `format` | inspector selection | pure functions, rendering | the same levels derived several times; caps and filters | the panels agree |
| `F/market`, `useIgnitionPrice` | one price, one retry | mount, answer, retry, unmount | an answer to a run that is over | it changes nothing |

`PROJECT.json` lists every component with its status, and under `hazards` each
place where this code is hard to test.

## 2. Modules

| module | models |
|---|---|
| `Order` | one order: `J/model/Order.java`, `Prices.java` |
| `MatchingEngine` | `J/engine/MatchingEngine.java`: the book and both calls, one loop iteration per action |
| `EngineProperties` | its invariants, action properties, liveness and refinement mapping |
| `Venue` | what the venue promises, with no queues, maps or loops: the abstract specification |
| `MCEngineLit`, `MCEnginePeg`, `MCEngineReusedIds` | instances for TLC |
| `DepthFeed` | how the book reaches the clients: snapshot ring, publisher, cache, channel group, the network thread, the client's ladder |
| `Format` | prices as text and back: `F/format.ts` |
| `Inbound` | the way of an order from the client's frame to the engine's constructor: `JsonToFix`, `FixParser`, the casts of the handler |
| `Reducer` | the client's state and the function that advances it: `F/state/reducer.ts` |
| `ClientSession` | the engine, other clients, both streams of frames and one client's reducer, composed (`EXTENDS MatchingEngine, Reducer, Inbound`) |
| `ClientSocket` | the effect that owns the socket: `F/state/useOrderBook.ts`, with the parser of messages |
| `OrderTicket` | the order ticket, the cancels, the ids, on top of `ClientSocket` and `Inbound` |
| `ClientViews` | what the panels compute, the inspector, the fetch of the opening price |
| `MCClientSession`, `MCOrderTicket`, `MCClientViews` | instances for TLC |
| `EngineProofs`, `PriorityProofs`, `LedgerProofs` | the engine: the inductive invariants of its book, of its queues and of its accounts, and the step-by-step refinement of `Venue` |
| `DepthFeedProofs` | the inductive invariant of the depth feed and its proof |
| `ClientTheorems` | what formatting, parsing, the wire and each case of the reducer promise, and what a frame does to the session's figures |
| `SessionProofs` | a client's session: the engine behind it, the two streams and the client's rows, tape and figures |
| `PageProofs`, `ViewsProofs` | the inductive invariants of the page, and of the fetch, the chart and the inspector's log, and their proofs |

### How `MatchingEngine` corresponds to the code

Orders are Java objects, so the model has a heap: `orders[r]` is the `r`-th
object given to `addOrder` and the queues hold references. `book[side]` is one
of the two tree maps (a function from price to queue, its domain the keys),
`pegs[side]` one of the two deques, `openOrders` the hash map keyed by the
client's id. `trades` is the list; a trade's id is its index, as one thread
takes ids from `IDGenerator`. `reports` is what the `ExecutionListener` was
called with, plus the answer of each `cancelOrder`. `orders[r].orderQty` is a
history field: the code overwrites the quantity it was built with.

One thread calls the engine, so calls never overlap. But each iteration
publishes an event that other threads act on while the call goes on, so an
iteration is one action, and `pc` says which loop the call is in: `pegs`
(`matchPegPool`), `lit` (`matchBuy`, `matchSell`), `rest` (the remainder),
`cross` (`crossPegPools`). What TLC checks is therefore true between any two
published events.

| code | actions |
|---|---|
| `addOrder`, failed fill-or-kill probe | `AddOrderKilled` |
| `addOrder` up to the first loop | `AddOrder` |
| `matchPegPool` | `MatchPegPool`, `MatchPegPoolEnds` |
| `matchBuy`, `matchSell` | `MatchLit(p)`, `MatchLitEnds` |
| remainder: `restPeg`, `addToBook`, `expire`, none | `RestPeg`, `AddToBook`, `ExpireRemainder`, `NoRemainder` |
| `crossPegPools` | `CrossPegPools`, `CrossPegPoolsEnds` |
| `cancelOrder` | `CancelOrder`, `CancelOrderRefused` |

`matchBuy` and `matchSell` are the same code with the sides exchanged, and are
one action with a side. `MatchLit` has the level's price as a parameter, whose
guard `IsMatchLevel` picks the first entry of the map. An order killed by the
probe keeps the status OPEN, as in the code, which does not call `expire` there.

`Arrive` stands for everything in front of the engine: the constructor accepted
the ticket (an assumption on the constant `Tickets`), the gateway stamped it
with a clock that may or may not have moved (`TimeSteps`), and ids are unique
or not (`ReuseIds`), because no code checks them.

Left out: the participant id (a constant), the trade's own timestamp, printing.
Operators marked `(fault)` are plausible slips of the operator after them; they
are used only to show which property notices.

### How `DepthFeed` corresponds to the code

The engine thread, the two consumer threads of the snapshot ring, the network
thread and the clients run concurrently and share the ring, one volatile field
(`BookFrameCache.latest`) and one concurrent set (the `ChannelGroup`). An action
is what one thread does between two accesses to what they share, so every
interleaving that matters is a behaviour.

A snapshot is the number of the event it was taken after: the code replaces the
book wholesale, so which book it is, is all the properties tell apart. A channel
is one connection of a client, `<<client, n>>`.

| code | actions |
|---|---|
| `publishSnapshot`; `snapshots.next()` waits for the slowest consumer | `PublishSnapshot`, guard `SlotIsFree` |
| `MarketDataService.onEvent` | `DeriveQuote` |
| `WebSocketPublisher.onSnapshot` | `Serialize`, `SetCache`, `NobodyConnected` or `BroadcastBegins`, `BroadcastTo(ch)`, `BroadcastEnds` |
| `WebSocketFrameHandler.userEventTriggered`, `sendBookSnapshot` | `HandshakeComplete(ch)`, `ReadCache`, `WriteSnapshot` |
| Netty: a write queued from another thread; a closed channel leaves its group (external) | `RunWrite(ch)`, `ChannelClosed(ch)` |
| `useOrderBook` | `Connect(c)`, `Drop(c)`; the reducer's BOOK case is `Show` |

Two facts about Netty carry the model. A write from a channel's own event loop
happens at once, one from another thread is queued on that loop; so the snapshot
on connect can overtake a broadcast queued before it. And the iterator of the
group, a concurrent set, may or may not meet a channel that joins while it runs.
`WebSocketServer.start` makes one worker thread, so one event loop serves all
channels. Left out: heartbeats, and a serialization that throws (nothing in
`serializeSnapshot` throws on what the engine publishes). Bytes lost with a
connection are the same as a connection lost earlier, so `Drop` covers them.

### How `Inbound` corresponds to the code

An order changes its form four times: a JSON frame, a FIX message
(`newOrderSingle`), an event of the ring (`IsParsed`, `EventOf`), the arguments
of the constructor (`OrderArguments`). A message is what its tags hold, an
absent tag an empty set, a price a text as in `Format`. The casts to `int` are
`toInt`, with the largest `int` as the constant `MAX_INT`. Framing, checksum and
symbol are left out: `JsonToFix` writes what the parser compares them with.
Prices and ids stay 64 bits wide on this path, and the client's numbers are safe
integers, so their width is not modelled: `parsePrice` (`F/format.ts:160`) and the
ticket's quantity (`F/components/OrderEntry.tsx:77`) refuse a larger one, and the
model, without these two checks, refuses less.

### How `Reducer` and `ClientSession` correspond to the code

A client's state is one record, `app`, with the fields of `AppState`, and
`reduceFrame`, `reduceSent` and `reduceConnection` are the three cases of
`reducer`; the helpers keep their names. Symbols and send times are left out.

`ClientSession` puts the engine of `MatchingEngine`, whose `reports` are the
EXEC stream, and its snapshots, the BOOK stream, before one client. Two consumer
threads broadcast them, so each stream keeps its order and they overtake each
other: `execRead` and `bookRead` count what the client has had of each.

A snapshot holds the best levels of a side only, 20 in the code
(`J/event/BookSnapshotEvent.java:32`, given by the handler at
`J/engine/MatchingEngineHandler.java:189`, kept at `J/engine/MatchingEngine.java:529`
and `549`); the number is the constant `MAX_DEPTH_LEVELS`. The best prices need not
be cut: they are those of the whole side.

| code | actions |
|---|---|
| `App.handleSubmit`, `handleCancel`, `send` | `SendNew`, `SendCancel` |
| `MatchingEngineHandler.onEvent`, `process`, for this client and for others | `HandleOwn`, `HandleForeign` |
| the loops of `addOrder` | `EngineRuns` (`Continue` of the engine) |
| `publishSnapshot`, `snapshotInto` | `PublishBook`, `BookSnapshot` |
| `publish` of an execution, the listener callbacks | `ExecOf` |
| `onmessage` and the reducer | `ReceiveExec`, `ReceiveBook` |
| `onclose`; a new socket and the snapshot on connect | `DropConnection`, `Reconnect` |

A connection that drops keeps a prefix of what was written, and what is
broadcast before it is back is gone. `missed` is a history variable: it says
whether an execution or a frame of the client's own was lost.

### How `ClientSocket` and `OrderTicket` correspond to the code

React runs an effect twice in StrictMode, so each run has its own local
variables: `effects[e]` is run `e` with `disposed`, its socket, its pending timer
and its attempts; `socketRef` and `app` outlive a run. A socket's ready state is
the browser's (external); its handlers are `attached` or not. Messages are
frames of which some fields are not what the contract says; `IsWellFormed` is
the parser's narrowing. The direction of a FIX frame, which must be one literal, is
not among the fields of the model: a wrong one is like any other malformed field.

| code | actions |
|---|---|
| `useEffect`: a run, its cleanup | `Mount`, `Unmount` (`Cleanup`) |
| `onclose`'s timer | `TimerFires(e)` |
| `onopen`, `onclose`, `onmessage` | `SocketOpens`, `SocketCloses`, `MessageArrives` |
| a connection going away (external) | `SocketLost` |
| `send`, the id generator and `App`'s handlers | `Send` inside `Emit` |
| the ticket's fields, chips, nudges, presets; the curve's click | `ChooseSide` to `ClickCurve` |
| `submit`, for a peg and for a limit | `SubmitPeg`, `SubmitLimit` |
| a row's button, the cancel ticket, a change of page | `CancelRow`, `CancelTyped`, `Navigate` |

A text field holds what its text spells; `preview` is the id on show since the
last render, and App renders when the state changes.

### How `ClientViews` corresponds to the code

`app` moves as the reducer moves it on books, prints and FIX echoes. The panels
are operators of `app` with the names of the code (`cumulate`, `stepCorners`,
`levelAnchors`, `buildLadder`, `tickDirections`, `buildPriceSeries`,
`deriveHeader`). Positions are in the units of their axis: a scale is a linear
map, so an order or an interval on the axis is one on the screen. The
inspector's filter and selected key, and the runs of the effect that fetches the
opening price with its one retry, are state of their own. `Over` is a run that has
returned: its variables are gone.

Stamps are readings of one server's clock (`J/engine/MatchingEngineHandler.java:167`
and its like), nanoseconds that never go back. Two readings may be equal, and what
the client parses is a double (`F/format.ts:180-185`), which at this size tells
apart only stamps some 256 ns from each other. So the stamps of a stream never fall
and may repeat: `Readings` gives the next one, and `latest` holds the last of each
stream, which are written by different threads and need not agree. An echo also has
a number that counts from one on each connection (`EchoArrives`); a new connection
is opened after the back-off, so its first echo has a later stamp. A server that is
restarted, and begins its clock anew, is not modelled.

## 3. What is checked

| property | says | hazard |
|---|---|---|
| `BookHoldsLiveOrders` | only live orders rest, each once, where side, type and price say; no empty level | `getFirst` on an emptied level; a cancelled order that trades |
| `DisplayedSlice` | a resting order shows 1 .. its quantity, an iceberg at most its peak | `fill(0)` throws |
| `OpenOrdersAreTheRestingOrders` | the id index and the queues agree (unique ids) | a resting order nobody can cancel |
| `BookNotCrossed` | every bid below every ask, inside a call too | peg pool first, lit book second, remainder third |
| `PegPoolsSettled` | between calls pegs rest on both sides only without a midpoint | the midpoint comes back |
| `MidStillCurrent` | the midpoint read once is the midpoint at each trade | stale read |
| `QuantityConserved` | what an order came with = what is left + its trades | double or lost fill |
| `FillOrKillIsAllOrNothing` | a fill-or-kill order trades in full or not at all | probe and loops disagree |
| `ReportsTellTheStory` | accepted, expired or filled, exactly one, exactly once; and accepted quantity minus later fills naming an order = what is left | no report to the passive side |
| `TimePriority`, `NoQueueJump` | arrival order at a price; only a used-up iceberg slice gives it up | reloads |
| `EngineIsSound` | the above together while pegs rest and trade, and in every fill the passive order arrived first (distinct stamps) | peg-to-peg trades |
| `CallsReturn` | every call returns | loops over queues they extend |
| `ImplementsVenue` | every step is a step of `Venue` or changes nothing there | all of the above together |

`Venue` has an account per order and the list of prints. It says who may trade
with whom: the working order with pegs in order of arrival at the midpoint when
its limit reaches it, else with the best price of the other side; two pegs only
when no order is working; an order rests or gives up only when nothing it could
trade with is left; a fill-or-kill order is turned away only when what it could
trade with falls short; and no new order or cancel is taken while two pegs
could still trade. The refinement mapping is `AccountOf` and `trades`.

Of the depth feed:

| property | says | hazard |
|---|---|---|
| `SlotsIntact` | each consumer reads every snapshot once, in order, never one written over it | reused event objects |
| `CacheIsAhead` | nobody was shown, or is about to be, a book newer than the cache (proved; the proof of `BackOnlyAfterConnect` rests on it) | cache set too late or not at all |
| `ShowsCurrentBook` | all sent and nothing under way: a connected ladder is the current book | the connect race |
| `BackOnlyAfterConnect` | a ladder goes back only while it shows the snapshot sent on connect | overtaken broadcasts |
| `ClientsCatchUp` | where the network thread runs, a client that stays ends with the current book, with no further event | the connect race |
| `RingGetsRoom` | a full ring gets room though no client reads and the network stands still | back-pressure from a slow client |

`sendBookSnapshot`'s comment promises less than `ShowsCurrentBook` ("the next
event reconciles anyway"): the order of its two steps, join and then read, and
of the publisher's, cache and then broadcast, is what makes it true without a
next event.

Of a client and the venue (`ClientSession`):

| property | says | hazard |
|---|---|---|
| `RowsAgreeWithVenue` | nothing missed: each row has the engine's remainder at every instant and its status between calls; the header's sums are the engine's | passive fills and refused cancels have no report that says so |
| `RowsAreNeverAhead` | whatever was lost, a row never claims more than happened | lost executions |
| `SessionMatchesTrades` | session figures are of the whole history, the tape its newest part | the cap of the tape |
| `AggressorTagIsTrue` | the side on the tape is the aggressor's, on our own trades only | no frame carries a side |
| `LadderMatchesBlotter` | both streams in: at every price that a snapshot has room for, the ladder shows our open rows plus what others show, and beyond the last level of a full snapshot nothing | two streams; an own order that the ladder trims |
| `OrdersAreAnswered` | every row leaves PENDING, unless the connection drops | an answer that is not for this row |

Of the page (`ClientSocket`, `OrderTicket`):

| property | says | hazard |
|---|---|---|
| `TypeOK` | nothing malformed gets into the state | a field narrowed too little |
| `OneLiveConnection` | one attached socket or one timer while mounted, of the current run; none otherwise | StrictMode, unmount, back-off |
| `StatusIsTruthful` | open on show exactly while the socket is open, or lost and not yet closed | a late event |
| `OrdersAreAcceptable` | an order that is sent gets through FIX and the parser, and the constructor is called with its terms and takes them | hidden fields; a frame that is dropped without an answer |
| `RowsAreTheWrittenOrders` | a row for each order written, no other, over all connections | a send that fails |
| `ShownIdIsUsed` | an order goes out under the id that was shown | ids taken by cancels and failed sends |
| `EventuallyOpen` | a page that stays mounted ends up connected | a close without a retry |

Of the views (`ClientViews`):

| property | says | hazard |
|---|---|---|
| `PanelsShowOneBook` | curve, ladder, header and click bands tell the same levels, depths, midpoint and spread; a click goes to the nearest level | the levels are derived four times |
| `ChartAgreesWithStats` | the chart, from the capped tape, lies in the session's range and reaches it while nothing is forgotten | caps |
| `TicksTellTheMove` | where a visible print is above an earlier visible one, some print between is coloured up | colours by position under a filter |
| `SelectionSticks` | the picked packet stays on show while it is in the list; only a report of no trade can give way, to another of the same stamp | keys rebuilt under a moving log |
| `LateAnswersAreIgnored` | the opening price is set by the current run of the effect or not at all; a run that was disposed of neither waits for a retry nor fetches again | unmount during the fetch or the wait |

The exception in `SelectionSticks` is what the code does: the key of a report
without a trade is `exec--1-` and its stamp (`F/components/FixInspector.tsx:59`), so
two of one stamp, of the same order or of different ones, have one key, and the
newer takes the place of the one that was picked. In the run both happen: refusals
that share a stamp, and ones that do not.

### Runs

| run | instance | result |
|---|---|---|
| `engine_lit` | 9 tickets at 2 prices (limits, icebergs with peaks 1 and 2, IOC, FOK), 3 cancel ids, 4 calls; 46,578 distinct states | passes |
| `engine_peg` | 9 tickets (2 resting limits, pegs on both sides, FOK on both kinds, IOC on both kinds), 2 cancel ids, 5 calls; 192,141 states | passes |
| `feed_reconnect` | 1 client with 2 connections, 2 slots, 3 events, the network thread may stand still; 195,370 states | passes |
| `client_session` | 3 orders of the client (a buy that rests, an IOC and an FOK) and 2 of others at 2 prices, cancels of both own ids and of one other, 3 calls, 1 drop, a tape of 1, snapshots of one level; 421,068 states | passes |
| `client_page` | 2 mounts, 1 failure, 1 message of 4 (2 of which the parser drops), 2 ids; every control of the ticket; 664,804 states | passes |
| `client_views` | 2 books, 3 prints, an echo, refusals, 4 frames with stamps that may repeat, a tape of 3, a log of 2, 2 mounts; 571,030 states | passes |
| `engine_reused_ids` | ids may repeat, 4 calls | violation, see below |
| `feed_stalled_quote` | 1 client, `MarketDataService` stands still | violation, see below |
| `feed_ladder_after_drop` | 1 client, 1 connection | violation, see below |
| `client_rejected_row` | 1 order of the client, 1 of others, 4 calls, 1 drop | violation, see below |
| `client_wide_quantity` | as `client_page`, `MAX_INT` = 7, a quantity of 16 + 5 | violation, see below |
| `client_disabled_ticket` | as `client_page` | violation, see below |

Bounds. Two prices are enough for better and worse levels, for a midpoint
strictly between the tops, and for a limit at, above and below it. Four calls
are enough to build a level of two orders with an iceberg in it, sweep it with
a third and cancel with a fourth; five let pegs rest on both sides of a
one-sided book, a limit order restore the midpoint, and one more order follow.
Quantities go up to 4, so an iceberg with peak 1 or 2 reloads more than once
within one call. Every ticket is used at most once when ids are unique, so the
ids also serve as the bound on the state. `MaxCalls` ends the behaviour and
`Exhausted` is the stutter there: it stands for no code.

For the feed, two slots and three events make the ring wrap and fill; two
connections of one client let frames of the first be under way while the second
connects. For a session, three calls let an order rest, fill in part and be
cancelled late or fill a second time, own orders meet each other, and the tape
of one forget. A snapshot of one level (`MAX_DEPTH_LEVELS`) is full as soon as
anything rests, and a better bid of another takes the client's own off the ladder.
On the page two mounts are StrictMode's, and one failure hits a
connection before or after it opens; two ids let a cancel or a failed send take
the id that was on show. Two books, one of them one-sided, and prints between
and on the ticks reach every branch of the panels. While the opening price is being
fetched at most `BusyFrames`, one, arrives: the fetch and the frames share nothing,
and their interleavings would only multiply the states. The proofs lift the bounds of
the engine, the feed, the session, the page and the fetch.

`MaxEvents`, `MaxConnections`, `MaxDrops`, `MaxEffects`, `MaxFailures`,
`MaxMessages`, `MaxIds`, `MaxFrames`, `BusyFrames` and `MaxMounts` end behaviours, and a venue
that gets no orders and a page nobody uses are at rest, so the configurations of
the feed and the client do not check deadlock; the liveness properties say what
must not get stuck. The engine's do check it.

Fairness. The engine's `FairSpec` asks weak fairness of `Continue`, the
iterations of a running call: the engine thread, once in `addOrder`, waits for
nothing in the engine. In the feed, `FairConsumersSpec` asks weak fairness of
the two consumer threads, none of whose steps waits for anything but its own
input; that of the network thread is a hypothesis of `ClientsCatchUp` alone, so
that `RingGetsRoom` is seen not to depend on it. `FairSessionSpec` asks it of
the engine thread and of the delivery of executions on a standing connection.
`FairPageSpec` asks that a timer that is set fires, and that a socket that is
connecting opens or closes and one that is closing closes, as the browser
promises. Nobody is assumed to send an order, use the page, mount or unmount it;
a server that never accepts a connection is excluded by the bound on failures.

### Findings

`engine_reused_ids`: `addToBook` and `restPeg` call `openOrders.put` with the
client's id and no code refuses an id twice. A second order under the same id
replaces the first in the index; after one cancel the other order rests with no
way to cancel it, and `cancelOrder` answers false although its comment
(`J/engine/MatchingEngine.java:430-434`) says false means an unknown id or a
filled order.

`feed_stalled_quote`: the comment at `J/Main.java:103-104` says that no consumer
blocks the others or the engine. Each consumer's sequence gates the ring, so one
that stands still stops the engine after 1024 events. The ring needs every
consumer, and `RingGetsRoom` holds because both are assumed to run.

`feed_ladder_after_drop`: the comment at `F/state/useOrderBook.ts:81-83` says
that a drop clears the book, and that a reconnected client sees an empty ladder
until the next order. The reducer (`F/state/reducer.ts:488-499`) keeps the book,
and the server sends the cached one on connect.

`client_rejected_row`: a comment at `F/components/Header.tsx:125-126` says that
a REJECTED row contributes zero to the header's filled quantity. An order fills
in part, the report of its last fill is lost with the connection, the client
cancels it and is refused: `nextOrder` (`F/state/reducer.ts:305`) makes the row
REJECTED and the header still counts the first fill. The count is the honest
one; it is the comment that is wrong.

`client_wide_quantity`: the ticket takes any safe integer as a quantity, the
parser looks at 64 bits (`J/gateway/FixParser.java:249`), and the handler casts
to `int` before the constructor looks (`J/engine/MatchingEngineHandler.java:112`).
2^32+5 passes all of them and is worked as an order for 5, while the client's row
goes on waiting for the rest. `handleOrderJson`
(`J/net/WebSocketFrameHandler.java:184-185`) leaves the validation of quantities
to these two.

`client_disabled_ticket`: a comment at `F/components/OrderEntry.tsx:183` says
that the whole ticket is inert while the socket is not open. The handle given to
the depth curve writes the price field all the same (`OrderEntry.tsx:212`). The
stylesheet says so too: click-to-price stays enabled while disconnected
(`F/styles/terminal.css:2146-2149`). The two comments contradict each other, and the
code does what the second says.

## 4. What is proved

`EngineProofs` proves, from the two assumptions on the constants in
`MatchingEngine` (every ticket passes the constructor's checks, bounds are
numbers) and for every value of them:

| theorem | statement |
|---|---|
| `IInvHolds` | `Spec => []IInv` |
| `TypeCorrect` | `Spec => []TypeOK` |
| `OnlyLiveOrdersRest` | `Spec => []BookHoldsLiveOrders` |
| `EveryLevelShowsASlice` | `Spec => []DisplayedSlice` |
| `BookNeverCrosses` | `Spec => []BookNotCrossed` |

None of the last four is inductive alone. A fill keeps the types only if the
head of a queue shows between one and all of its quantity, which is
`DisplayedSlice`; that needs the queues to hold live orders, each once, or
filling one place would change another; that needs the incoming order not to be
in any queue while the loops run (`IncomingIsNotResting`), and resting it keeps
the book uncrossed only because `pc = "rest"` is reached with nothing left to
trade against (`PhaseFacts`). `IInv` is the conjunction of these with
`LimitsHavePrices`. It holds whether or not ids are reused: the cancel path
finds an order through `openOrders` and `BookHoldsLiveOrders` says where it is.

The proof has one lemma per action, and in it one step per conjunct that the
action can disturb; the first section of `EngineProofs` states once what taking the head, appending
and removing do to a queue's members and to its having no duplicates. Together
with the code's guards the theorems show that `getFirst` never throws and that
`fill` is never called with zero or with more than is left.

`DepthFeedProofs` proves, for any clients, any ring size above zero and any
bounds:

| theorem | statement |
|---|---|
| `FeedInvHolds` | `FeedSpec => []FeedInv` |
| `SlotsStayIntact` | `FeedSpec => []SlotsIntact` |
| `CacheStaysAhead` | `FeedSpec => []CacheIsAhead` |
| `ConnectedClientsAreCurrent` | `FeedSpec => []ShowsCurrentBook` |
| `LaddersGoBackOnlyAfterConnect` | `FeedSpec => BackOnlyAfterConnect` |

`ShowsCurrentBook` speaks of moments of rest only. What holds at every moment is
`FreshHolds`: for each connected client, the last frame on its way over its
standing channel (the last one queued, else the one read from the cache, else
the ladder itself) is what the cache holds, or the one before while the
publisher has yet to send it to that channel. The one exception is a channel
that has just joined and for which the cache has not been read. It needs
`ChannelsHold` (nothing is queued for a channel that has not joined) and
`PublisherHolds` (the cache is at most one event ahead of what the publisher is
done with). The ring part rests on arithmetic: two positions less than a ring
apart have different slots (`DistinctSlots`). `LaddersGoBackOnlyAfterConnect`
adds that queues are in order and that what is read from the cache is as new as
anything shown.

`PriorityProofs` goes on from `IInv`, for every instance of the engine:

| theorem | statement |
|---|---|
| `ArrivalOrderHolds` | `Spec => []TimePriority` |
| `NobodyJumpsTheQueue` | `Spec => NoQueueJump` |
| `MidStaysCurrent` | `Spec => []MidStillCurrent` |
| `PoolsSettle` | `Spec => []PegPoolsSettled` |
| `IndexIsExact` | `Spec => []OpenOrdersAreTheRestingOrders` |
| `TheLaterOrderIsTheAggressor` | `Spec => []LaterOrderIsAggressor` |

The first two rest on `StepsThroughQueues`: whatever a step does, each queue is
left alone, loses its head or another member, moves its head to its end because
the head's slice was used up, or gets the newest order of all at its end; each of
the five keeps arrival order. `PegPoolsSettled` speaks of moments between calls;
`PegsInv` says in which loops pegs may stand on both sides with a midpoint, and
that a limit order that rests goes on to `crossPegPools`. `IndexIsExact` needs
that ids differ while they are not reused (`IdsDiffer`), and
`TheLaterOrderIsTheAggressor` that stamps ascend while the clock moves
(`StampsAscend`), because the code compares stamps and not arrivals.

`LedgerProofs` goes on from these, for every instance of the engine:

| theorem | statement |
|---|---|
| `NoQuantityIsLost` | `Spec => []QuantityConserved` |
| `TheReportsTellTheStory` | `Spec => []ReportsTellTheStory` |
| `FillOrKillHolds` | `Spec => []FillOrKillIsAllOrNothing` |
| `TheEngineIsSound` | `Spec => []EngineIsSound` |
| `TheEngineIsAVenue` | `Spec => ImplementsVenue` |

Sums are folds over sets (`MapThenSumSet`). The library's induction theorems
cannot be used, so the first section proves by induction over sizes written out
in the proof that a sum exists, that it does not depend on the order of
summation, and what one more or one changed summand does to it. Every step of
the engine is then one of four ledger steps, whatever loop it is in: a trade of
two live orders, an arrival, an order that ends, or none of these (`LedgerStep`).

- `QuantityConserved` is inductive over ledger steps.
- `ReportsTellTheStory` needs `StoryInv`: the order of the running call has an
  outcome as soon as nothing of it is left and no sooner, what rests has been
  accepted, and only a GTC order is ever accepted.
- For `FillOrKillIsAllOrNothing`, `FokInv` says that while a fill-or-kill order
  is worked, what the probe would count ahead of it is still at least what is
  left of it (`EnoughAhead`). The loops take from that sum what they take from
  the order; with `BookNotCrossed` and `MidStillCurrent` this is why probe and
  loops agree although they are different code.
- For the refinement, `PoolInv` says that an order that is past the pool's loop
  has nothing left to trade with there, which stays true as it sweeps the lit book
  because the midpoint only recedes; and each of the engine's actions is mapped to the action of
  `Venue` it is, or to none. That the engine's head of a queue is the venue's
  oldest peg and its first level the best price is where `TimePriority` and
  `BookNotCrossed` are used; that a remainder rests or is given up only when
  nothing is left to trade with is where `PhaseFacts` is.

`SessionProofs` is about `ClientSession`, for any tickets of the client and of
others, any number of calls and drops and any caps:

| theorem | statement |
|---|---|
| `TheSessionRunsTheEngine` | `SessionSpec => Spec /\ []InboundInv` |
| `TheTapeTagsItsOwnTrades` | `~ReuseIds`: `SessionSpec => []AggressorTagIsTrue` |
| `TheFiguresOutliveTheTape` | `SessionSpec => []SessionMatchesTrades` |
| `NoRowIsAhead` | `~ReuseIds`: `SessionSpec => []RowsAreNeverAhead` |
| `RowsAgree` | `~ReuseIds`: `SessionSpec => []RowsAgreeWithVenue` |
| `TheLadderAndTheBlotterAgree` | `~ReuseIds`: `SessionSpec => []LadderMatchesBlotter` |
| `TheClientShowsABook` | `SessionSpec => [](IsTopped(app.book) /\ \A n \in DOMAIN snapshots : IsTopped(snapshots[n]))` |

The first makes every theorem about the engine one about a session: a frame of
the client's reaches `addOrder` as the order it was made from. `ReportStep`
sharpens `LedgerStep` with what is reported. From it follow that the reports are
a true account: after the first `n` of them `Left(r, n)` is what was left of
order `r` when report `n` was made (`ReportsAreTrue`), it never grows
(`LeftShrinks`), an order that was reported expired or cancelled stays so
(`StatusInv`, `OverStays`), and the FILL reports are the trades, in order
(`FillsAreTrades`). Every step of the session sends, works in the engine, reads
one frame, or turns the connection (`SessionStep`); `StreamsInv` relates what is
read, waiting and known to the streams, and `RowsInv` each row to the order it
stands for. On these invariants rest: `TapeInv` (each entry of the tape is a
trade, its tag that of the row looked up), `StatsInv` (the figures are the
tallies of the fills read), and `AheadInv` (a row's remainder is at least
`Left` at what was read, and a row that says it ended was told so).

`RowsAreNeverAhead` bounds a row from one side and holds whatever was lost;
`RowsAgreeWithVenue` is an equality, for a client that has lost nothing, and
needs more:

- `HistoryInv`: the fills account for all of an order's quantity from its
  beginning, and nothing of an order is traded after the report that ends it.
- `QueueInv`: the client's frames are handled in the order in which they were
  written, so that a request to cancel finds its order at the engine. Otherwise
  the refusal would turn a PENDING row into REJECTED for good.
- `RefusalsInv`, which rests on it: when a request of the client's is refused,
  the order was over before, and an earlier report said so; the row is final when
  the refusal is read.
- `AgreeInv`: each row shows its order as the reports read so far tell it
  (`ShowsOrder`: `Left` as its remainder, and the status that goes with it and
  with what was told), or is as it was sent. Reading one more report keeps it
  (`ReadingAgrees`), a step of the engine does not touch it (`EngineAgrees`).

At the last report `Left` is what the engine has left, and between calls
`StoryInv` and `StatusInv` leave one status for each row (`ARowAgrees`). The
header's Filled is an exchange of two sums, over rows and over trades: by
induction over the rows, each adds to the trades of its order what
`QuantityConserved` says was filled of it (`TradesOfARow`, `FilledIsTraded`).

`LadderMatchesBlotter` joins the two streams, and with them everything above:

- `BooksInv`: the book on show is the snapshot read last, and the last snapshot
  shows the engine's book until the next call begins (`BooksKept`). A snapshot
  lists each price once, best first, because the places of the prices are those
  of a finite order (`PlacesAreTaken` of `ClientTheorems`), and of the places it
  keeps the first `MAX_DEPTH_LEVELS`. A price it does not list is therefore worse
  than the last level of a full side (`NothingIsShownBeyond`), or has no order.
- What a level shows is a sum over its queue. It is split into the client's
  orders and the others' (`SumSplits`), and the client's part is moved, order by
  order, to the open rows at that price (`SumMoves`, `OwnRowsAreOwnOrders`): by
  `AgreeInv` an open row is a resting order with the same remainder, and
  `RowsInv` gives it the same side, price and slice.
- A peg's row has no price (`PegsHaveNoPrice`), so it is on no level, as in the
  engine, where pegs wait in pools that no snapshot shows.

`TheClientShowsABook` needs no assumption on ids, and a lost connection does not
disturb it. A queue of the book shows something because each of its orders does
(`QueuesShowSomething`, from `DisplayedSlice`), the places of the prices give the
order of the levels (`LevelsShowTheBook`), `BookNotCrossed` keeps the sides apart,
and the first level of a side is its best price (`TheTopIsTheBest`). The client's
book is only ever one of the snapshots (`TheBookIsASnapshot`), so that what the
panels of `ClientViews` are given there as an assumption holds of the whole.

Four theorems assume `~ReuseIds`: with ids that repeat, a report names two orders
of different sides and neither a tag nor a remainder can be right for both; the
page never makes an id twice (`RowsAreTheWrittenOrders`). `OwnIdsAssumption` says
that no other client has the client's ids, which it takes from its clock, and
that it may ask for any of its own to be cancelled. `ParsedAssumption` says
that its orders get through the parser and that their quantity fits an `int`;
that the page can write one that does not fit is `client_wide_quantity`. Working
on the proof of `RowsAreNeverAhead` showed that the status of the engine's object
is not what the client is told: a fill-or-kill order that was killed is reported
EXPIRED while its object stays OPEN. The property compares with the outcome that
was reported (`Verdict`), and the run has such an order of the client's.

`ClientTheorems` proves that a price on the tick is read back from its text as
itself (`PricesReadBack`), that whatever is typed, what is read as a price is
positive and on the tick (`ParsedPricesAreOnTick`), that tag 44 carries a price
unchanged (`PricesSurviveTheWire`), and that the cast keeps what fits.
It also says that each case of the reducer keeps the types of the state, and what
of the rows it leaves alone. On these
`PageProofs` rests, for any server, any messages, mounts, failures and ids:

| theorem | statement |
|---|---|
| `PageInvHolds` | `PageSpec => []PageInv` |
| `PageTypeCorrect` | `PageSpec => []TypeOK` |
| `NoOrphanConnection` | `PageSpec => []OneLiveConnection` |
| `TheStatusIsTruthful` | `PageSpec => []StatusIsTruthful` |
| `EveryOrderIsAcceptable` | `PageSpec => []OrdersAreAcceptable` |
| `TheRowsAreTheWrittenOrders` | `PageSpec => []RowsAreTheWrittenOrders` |
| `TheShownIdIsUsed` | `PageSpec => ShownIdIsUsed` |

`PageInv` says that the page is away, connected or waiting for its timer, with
what each of these means for every socket and every run of the effect (of the
older runs, that they are disposed of); that the id on show is the next one while
a frame can be written (it need not be at other times, which is why the property
is true although the page is not rendered when an id is lost); and that the ids
written so far are below the next one, without which a new row could be taken for
a duplicate.

`ViewsProofs` is about `ClientViews`, for any books, prints, echoes, answers and
caps:

| theorem | statement |
|---|---|
| `LateAnswersChangeNothing` | `ViewsSpec => LateAnswersAreIgnored` |
| `ChartShowsTheSession` | `ViewsSpec => []ChartAgreesWithStats` |
| `ColoursTellTheMove` | `ViewsSpec => []TicksTellTheMove` |
| `TheSelectionSticks` | `ViewsSpec => SelectionSticks` |
| `ThePanelsAgree` | `ViewsSpec => []PanelsShowOneBook` |

The first rests on `FetchInv`: every run of the effect but the last is disposed
of, and a run that is disposed of has no timer, so that nothing makes it fetch again
(`DisposedRunsEnd`). The chart's rests on `ChartInv`: every price on the tape is positive and
between the session's low and high, which are themselves on the tape until it
first forgets, and the newest entry is the latest. That a print has a positive
price is an assumption on `Prints` (`ViewsAssumption`); it is what `ReportsAreTrue`
of `SessionProofs` says of the engine's fills, and without it a low of zero would
be taken for one that was never set. The colours need only that what a filter
leaves is a list of entries of the tape, and an induction along it.

The selection rests on `LogInv`: no two entries of the log have the same key,
unless both are reports of no trade with one stamp. Stamps may repeat, so it is not
they alone that tell entries apart. Trades are numbered, each higher than all before
(`ReportDiffers`); echoes of one connection are too, and an echo numbered lower is
one of a later connection, with a later stamp (`EchoDiffers`). What a filter keeps is a recursive function in the model (`Kept`),
which the proof shows to exist, because `SelectSeq` is a constant the provers
know nothing of.

`ThePanelsAgree` rests on `ShownInv`: the book on show is one that was published,
with its tops, or none. The rest is about one book (`IsBook`): levels on the tick
with something to show, outwards from the touch, the bids below the asks, which
`ViewsAssumption` asks of the books and `TheClientShowsABook` of `SessionProofs`
proves of the snapshots of every session. Then the running totals grow
strictly (`CumulateIsALadderSide`), so that the corners of the staircase, of which
each price but the first has two, come back as one anchor for each level: the
proof gives the list of anchors after every corner (`AnchorsAreTheLevels`). The
prices of both sides differ, so that sorting them is putting each at its place
(`PlacedPricesAscend`), and bands between ascending prices that meet halfway hold
what is nearest (`BandsHoldTheNearest`). The totals and the anchors are recursive
functions in the model, as the loops of the code are, and the sort is a choice by
place; sums and sorts of the community modules would be out of the provers' reach.

Each proof starts from the named assumptions on the constants of its module:
that tickets pass the constructor's checks, that bounds and widths are numbers,
that messages are frames, that typed texts are texts, that the client's ids are its own. TLC evaluates them in the
runs.

Of the properties of the passing runs only liveness is left to TLC
(`CallsReturn`, `ClientsCatchUp`, `RingGetsRoom`, `OrdersAreAnswered`,
`EventuallyOpen`): it needs ENABLED, which is outside the prover's reach. Every
invariant and every action property that a run checks is also proved.

## 5. Not modelled

- The inbound and the execution ring with their slots, and shutdown: the
  snapshot ring shows the pattern, and nothing outlives the process.
- Bytes: the split of frames into tags, checksums, JSON syntax, the 64-bit
  overflow of a price far beyond what the page sends, heartbeats.
- Frames other clients might write that the page does not: malformed JSON,
  unknown sides or types. The code drops them with a log line.
- A constructor that throws inside the handler: `OrdersAreAcceptable` says that
  the page sends no such order, and `client_wide_quantity` what the cast does.
- The trade logger, the printing of the book and the getters.
- On the page: error lines, send times, clock texts and grouping of digits, the
  inspector's open flag, copying of packets, links, colours and pixels. The
  tape's filter is a parameter of what is said of the tape.
- Benchmarks and tests.
