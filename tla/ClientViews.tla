---------------------------- MODULE ClientViews ----------------------------
(***************************************************************************)
(* What the client shows: the panels computed from its state (depth.ts,    *)
(* priceSeries.ts, sessionStats.ts and the components DepthLadder,         *)
(* DepthCurve, PriceChart, TradeTape, Header), the inspector with its      *)
(* filter and selection (FixInspector), and the market's opening price,    *)
(* fetched once when the page mounts (useIgnitionPrice).                   *)
(*                                                                         *)
(* The panels are functions of the state, which the venue's frames move    *)
(* on.  Positions are kept in the units of their axis, not in pixels: a    *)
(* scale is a linear map, and a point lies in a picture where its value    *)
(* lies in the domain.  Colours, labels and clock times are left out.      *)
(***************************************************************************)
EXTENDS Reducer, Format, FiniteSetsExt, SequencesExt

CONSTANTS
    Books,          \* the books that are published: bids and asks, best first
    Prints,         \* the trades: price and quantity
    Echoes,         \* the packets echoed back: sequences of FIX fields
    Opens,          \* the opening prices Alpaca answers with, NA for a failure
    MaxFrames,      \* bound on the frames that arrive
    BusyFrames,     \* bound on those that arrive while the price is being fetched
    MaxMounts,      \* bound on the times the page mounts
    UsedFilters     \* the inspector's filters that are clicked

ASSUME ViewsAssumption ==
    /\ \A b \in Books : IsBook(b)
    /\ Prints \subseteq [ price : Nat \ {0}, quantity : Nat ]
    /\ Opens \subseteq Int
    /\ MaxFrames \in Nat /\ BusyFrames \in Nat /\ MaxMounts \in Nat
    /\ UsedFilters \subseteq {"all", "new", "cancel", "exec"}

VARIABLES
    app,            \* the AppState
    inspector,      \* filter and selectedKey
    ignition,       \* the IgnitionState
    fetches,        \* the runs of its effect, with their local variables
    frames,         \* number of frames so far
    latest          \* the newest stamp of each stream, and the newest seqNum

viewVars == <<app, inspector, ignition, fetches, frames, latest>>

\* list.filter(Test), as a recursive function, which a proof can look into.
Kept(list, Test(_)) ==
    LET kept[n \in 0 .. Len(list)] ==
          IF n = 0 THEN <<>>
          ELSE IF Test(list[n]) THEN Append(kept[n - 1], list[n]) ELSE kept[n - 1]
    IN  kept[Len(list)]

-----------------------------------------------------------------------------
(***************************************************************************)
(* The book: the ladder and the depth curve.                               *)
(***************************************************************************)
\* Each level with the running total up to it.
cumulate(levels) ==
    LET cum[i \in 0 .. Len(levels)] == IF i = 0 THEN 0 ELSE cum[i - 1] + levels[i][2]
    IN  [ i \in DOMAIN levels |->
            [ pricePx |-> levels[i][1], qty |-> levels[i][2], cumQty |-> cum[i] ] ]

\* The corners of a staircase: to each further price at the old depth, then up.
stepCorners(cum) ==
    IF cum = <<>> THEN <<>>
    ELSE [ k \in 1 .. 2 * Len(cum) - 1 |->
             [ pricePx |-> cum[k \div 2 + 1].pricePx, cumQty |-> cum[(k + 1) \div 2].cumQty ] ]

buildDepthCurve(book) ==
    [ bids |-> stepCorners(cumulate(book.bids)), asks |-> stepCorners(cumulate(book.asks)) ]

\* Of the corners at a price the one with most depth is kept.
WithCorner(anchors, p) ==
    IF anchors = <<>> \/ Last(anchors).pricePx # p.pricePx THEN Append(anchors, p)
    ELSE IF p.cumQty > Last(anchors).cumQty THEN [anchors EXCEPT ![Len(anchors)] = p]
    ELSE anchors

\* (fault) Of the corners at a price the first is kept.
levelAnchorsFirst(points) ==
    FoldLeft(LAMBDA anchors, p :
                IF anchors # <<>> /\ Last(anchors).pricePx = p.pricePx THEN anchors
                ELSE Append(anchors, p),
             <<>>, points)

\* One anchor for each level again.
levelAnchors(points) ==
    LET anchors[k \in 0 .. Len(points)] ==
          IF k = 0 THEN <<>> ELSE WithCorner(anchors[k - 1], points[k])
    IN  anchors[Len(points)]

Anchors(book) ==
    LET curve == buildDepthCurve(book)
    IN  levelAnchors(curve.bids) \o levelAnchors(curve.asks)

\* Twice the midpoint of two anchors.
BandEdge(a, b) == a.pricePx + b.pricePx

\* The click bands, by price, in half units.  The outer ones end with the plot.
Bands(book) ==
    LET anchors  == Anchors(book)
        place(i) == Cardinality({j \in DOMAIN anchors :
                                    anchors[j].pricePx <= anchors[i].pricePx})
        sorted   == [ p \in DOMAIN anchors |->
                        anchors[CHOOSE i \in DOMAIN anchors : place(i) = p] ]
        n        == Len(anchors)
    IN  [ i \in 1 .. n |->
            [ pricePx |-> sorted[i].pricePx,
              left  |-> IF i = 1 THEN 2 * sorted[1].pricePx
                        ELSE BandEdge(sorted[i - 1], sorted[i]),
              right |-> IF i = n THEN 2 * sorted[n].pricePx
                        ELSE BandEdge(sorted[i], sorted[i + 1]) ] ]

TotalOf(cum) == IF cum = <<>> THEN 0 ELSE Last(cum).cumQty

\* The rows of both sides; a bar is cumQty of the shared maximum.
buildLadder(book) ==
    LET bidCum == cumulate(book.bids)
        askCum == cumulate(book.asks)
    IN  [ bids |-> bidCum, asks |-> askCum,
          sharedMax |-> Greatest(TotalOf(bidCum), TotalOf(askCum)) ]

twoSided(bestBid, bestAsk) == bestBid > 0 /\ bestAsk > 0

spreadLabel(bestBid, bestAsk) ==
    IF twoSided(bestBid, bestAsk) THEN formatPrice(bestAsk - bestBid) ELSE EMPTY_PRICE

-----------------------------------------------------------------------------
(***************************************************************************)
(* The trades: the header, the tape, the chart and the session's figures.  *)
(***************************************************************************)
LastPx(tape) == IF tape = <<>> THEN NA ELSE tape[1].pricePx

changeDir(lastPx, sessionOpenPx) ==
    IF lastPx <= 0 \/ sessionOpenPx <= 0 THEN "none"
    ELSE IF lastPx > sessionOpenPx THEN "up"
    ELSE IF lastPx < sessionOpenPx THEN "down" ELSE "flat"

\* deriveHeader, but for the counters over the rows.
deriveHeader(state) ==
    LET bid == state.book.bestBid
        ask == state.book.bestAsk
    IN  [ last |-> formatPrice(LastPx(state.tape)),
          changeDir |-> changeDir(LastPx(state.tape), state.sessionOpenPx),
          mid |-> midpointLabel(bid, ask),
          spreadTicks |-> IF twoSided(bid, ask) THEN (ask - bid) \div TICK ELSE NA ]

BlockFilters == {"all", "gt200", "gt500"}

passesBlockFilter(quantity, filter) ==
    \/ filter = "all"
    \/ filter = "gt200" /\ quantity > 200
    \/ filter = "gt500" /\ quantity > 500

ShownPrints(tape, filter) ==
    Kept(tape, LAMBDA entry : passesBlockFilter(entry.quantity, filter))

\* Against the entry before it in time, which comes next in the list.
tickDirections(entries) ==
    [ i \in DOMAIN entries |->
        IF i = Len(entries) \/ entries[i].pricePx = entries[i + 1].pricePx THEN "flat"
        ELSE IF entries[i].pricePx > entries[i + 1].pricePx THEN "up" ELSE "down" ]

\* (fault) The directions are those of the whole tape.
DirectionsOfAll(tape, filter) == tickDirections(tape)

Directions(tape, filter) == tickDirections(ShownPrints(tape, filter))

SeriesOf(points) ==
    LET times  == {points[i].t : i \in DOMAIN points}
        prices == {points[i].pricePx : i \in DOMAIN points}
    IN  [ points |-> points, tMin |-> Min(times), tMax |-> Max(times),
          cMin |-> Min(prices), cMax |-> Max(prices) ]

EMPTY_SERIES == [ points |-> <<>>, tMin |-> NA, tMax |-> NA, cMin |-> NA, cMax |-> NA ]

PointOf(entry) == [ t |-> entry.timestamp, pricePx |-> entry.pricePx ]

\* (fault) The oldest entry is skipped once there is another.
buildPriceSeriesShort(tape) ==
    IF tape = <<>> THEN EMPTY_SERIES
    ELSE LET n == Greatest(1, Len(tape) - 1)
         IN  SeriesOf([ i \in 1 .. n |-> PointOf(tape[n + 1 - i]) ])

\* Oldest first, with the bounds of both axes.
buildPriceSeries(tape) ==
    IF tape = <<>> THEN EMPTY_SERIES
    ELSE SeriesOf([ i \in DOMAIN tape |-> PointOf(tape[Len(tape) + 1 - i]) ])

\* A reference line, where its price is set and in the domain, or NA.
Reference(series, px) ==
    IF series.points # <<>> /\ px > 0 /\ px \in series.cMin .. series.cMax THEN px ELSE NA

buildSessionStats(state) ==
    [ high |-> formatPrice(state.sessionHighPx), low |-> formatPrice(state.sessionLowPx),
      trades |-> state.sessionTradeCount,
      lastPrice |-> IF state.tape = <<>> THEN EMPTY_PRICE
                    ELSE formatPrice(state.tape[1].pricePx),
      lastSize |-> IF state.tape = <<>> THEN NA ELSE state.tape[1].quantity ]

-----------------------------------------------------------------------------
(***************************************************************************)
(* The inspector.                                                          *)
(***************************************************************************)
InspectorFilters == {"all", "new", "cancel", "exec"}

\* The value of the first field with tag 35.
fixMsgType(raw) ==
    LET at == {i \in DOMAIN raw : raw[i][1] = "35"}
    IN  IF at = {} THEN Undefined ELSE raw[Min(at)][2]

matchesFilter(entry, filter) ==
    \/ filter = "all"
    \/ filter = "exec" /\ entry.type = "EXEC"
    \/ filter = "new" /\ entry.type = "FIX" /\ fixMsgType(entry.raw) = "D"
    \/ filter = "cancel" /\ entry.type = "FIX" /\ fixMsgType(entry.raw) = "F"

\* (fault) The key of an execution is its trade's.
entryKeyUntimed(entry) ==
    IF entry.type = "FIX" THEN <<"fix", entry.seqNum, entry.timestamp>>
    ELSE <<"exec", entry.tradeId, 0>>

entryKey(entry) ==
    IF entry.type = "FIX" THEN <<"fix", entry.seqNum, entry.timestamp>>
    ELSE <<"exec", entry.tradeId, entry.timestamp>>

NoKey   == <<"none", 0, 0>>
NoEntry == [ type |-> "none" ]

Filtered == Kept(app.inspectorLog, LAMBDA entry : matchesFilter(entry, inspector.filter))

\* The entry with the key that was picked, or else the newest visible one.
Selected ==
    LET visible == Filtered
        hits    == {i \in DOMAIN visible : entryKey(visible[i]) = inspector.selectedKey}
    IN  IF hits # {} THEN visible[Min(hits)]
        ELSE IF visible # <<>> THEN visible[1] ELSE NoEntry

NewInspector == [ filter |-> "all", selectedKey |-> NoKey ]

ViewTo(newInspector) ==
    inspector' = newInspector /\ UNCHANGED <<app, ignition, fetches, frames, latest>>

\* Closing and opening it again changes neither.
ChooseFilter(filter) == ViewTo([inspector EXCEPT !.filter = filter])

SelectRow(entry) == ViewTo([inspector EXCEPT !.selectedKey = entryKey(entry)])

\* Another page is shown, and what this one's inspector held is forgotten.
LeavePage == inspector # NewInspector /\ ViewTo(NewInspector)

-----------------------------------------------------------------------------
(***************************************************************************)
(* The opening price: one fetch when the page mounts, one more two seconds *)
(* after it fails.  As in ClientSocket, each run of the effect has its own *)
(* local variables.                                                        *)
(***************************************************************************)
Mounted == fetches # <<>> /\ ~ Last(fetches).disposed

\* The number of the answer rounded to the cent (toFixed), then parsed.
parseIgnitionOpen(o) ==
    IF o <= 0 THEN NA ELSE parsePrice(formatPrice(((o + TICK \div 2) \div TICK) * TICK))

MountPage ==
    /\ ~ Mounted /\ Len(fetches) < MaxMounts
    /\ fetches' = Append(fetches, [ disposed |-> FALSE, at |-> "fetch", retriesLeft |-> 1 ])
    /\ UNCHANGED <<app, inspector, ignition, frames, latest>>

\* The run has returned, and its variables are gone.
Over(run) == [run EXCEPT !.at = "done", !.retriesLeft = 0]

\* StrictMode's unmount, before anything else: the page is never left.  The
\* timer is cleared and the fetch aborted, which makes it answer null; an
\* answer that has come already is still handed over.
UnmountPage ==
    /\ Mounted /\ frames = 0
    /\ LET run == [Last(fetches) EXCEPT !.disposed = TRUE]
       IN  fetches' = [fetches EXCEPT ![Len(fetches)] =
                         IF run.at = "timer" THEN Over(run) ELSE run]
    /\ UNCHANGED <<app, inspector, ignition, frames, latest>>

\* (fault) The answer counts even when the run is disposed of.
AnswerCountsAlways(e) == TRUE

AnswerCounts(e) == ~ fetches[e].disposed

FetchAnswers(e, o) ==
    LET px == parseIgnitionOpen(o)
    IN  /\ fetches[e].at = "fetch"
        /\ IF AnswerCounts(e) /\ px = NA /\ fetches[e].retriesLeft > 0
           THEN fetches' = [fetches EXCEPT ![e].at = "timer"] /\ UNCHANGED ignition
           ELSE /\ fetches' = [fetches EXCEPT ![e] = Over(@)]
                /\ ignition' =
                      IF ~ AnswerCounts(e) THEN ignition
                      ELSE IF px = NA THEN [ openPx |-> NA, status |-> "unavailable" ]
                      ELSE [ openPx |-> px, status |-> "ready" ]
        /\ UNCHANGED <<app, inspector, frames, latest>>

RetryFires(e) ==
    /\ fetches[e].at = "timer"
    /\ fetches' = [fetches EXCEPT ![e].at = "fetch", ![e].retriesLeft = @ - 1]
    /\ UNCHANGED <<app, inspector, ignition, frames, latest>>

-----------------------------------------------------------------------------
(***************************************************************************)
(* The venue's frames.  Each thread stamps its own with the same clock,    *)
(* nanoTime from the epoch on, which never goes back but need not move on  *)
(* between two readings, and the client rounds a stamp to a double.  So    *)
(* the stamps of a stream never fall and may repeat.  All that is looked   *)
(* at is their order within a stream, for which one step at a time is      *)
(* enough.                                                                 *)
(***************************************************************************)
Readings(t) == {t, t + 1}

Arrives(frame) ==
    /\ Mounted
    /\ frames < IF \A run \in Range(fetches) : run.at = "done" THEN MaxFrames ELSE BusyFrames
    /\ app' = reduceFrame(app, frame)
    /\ frames' = frames + 1
    /\ UNCHANGED <<inspector, ignition, fetches>>

BookArrives(b) ==
    \E t \in Readings(latest.book) :
        /\ Arrives([ type |-> "BOOK", bestBid |-> TopOf(b.bids), bestAsk |-> TopOf(b.asks),
                     bids |-> b.bids, asks |-> b.asks, timestamp |-> t ])
        /\ latest' = [latest EXCEPT !.book = t]

\* A report without a trade, here of a cancel that is refused, each of another order.
Refusal(t) ==
    [ type |-> "EXEC", execType |-> "ORDER_REJECTED", orderId |-> frames + 1, tradeId |-> NA,
      price |-> NA, filledQuantity |-> NA, remainingQuantity |-> NA,
      aggressorOrderId |-> NA, passiveOrderId |-> NA, timestamp |-> t ]

RefusalArrives ==
    \E t \in Readings(latest.exec) :
        Arrives(Refusal(t)) /\ latest' = [latest EXCEPT !.exec = t]

Trade(t, print) ==
    [ Refusal(t) EXCEPT !.execType = "ORDER_FILLED",
        !.price = print.price, !.tradeId = app.sessionTradeCount + 1,
        !.filledQuantity = print.quantity, !.remainingQuantity = 0,
        !.aggressorOrderId = 1, !.passiveOrderId = 2 ]

PrintArrives(print) ==
    \E t \in Readings(latest.exec) :
        Arrives(Trade(t, print)) /\ latest' = [latest EXCEPT !.exec = t]

\* The server numbers the echoes of a connection.  A new connection numbers its own
\* from one, and as it is opened after a pause, its first is stamped later.
EchoArrives(raw) ==
    \E n \in {1, latest.seqNum + 1}, t \in Readings(latest.echo) :
        /\ n = 1 => t > latest.echo
        /\ Arrives([ type |-> "FIX", seqNum |-> n, raw |-> raw, timestamp |-> t ])
        /\ latest' = [latest EXCEPT !.echo = t, !.seqNum = n]

ViewsInit ==
    /\ app = initialState
    /\ inspector = NewInspector
    /\ ignition = [ openPx |-> NA, status |-> "loading" ]
    /\ fetches = <<>> /\ frames = 0
    /\ latest = [ exec |-> 0, book |-> 0, echo |-> 0, seqNum |-> 0 ]

ViewsNext ==
    \/ \E b \in Books : BookArrives(b)
    \/ \E print \in Prints : PrintArrives(print)
    \/ \E raw \in Echoes : EchoArrives(raw)
    \/ RefusalArrives
    \/ LeavePage
    \/ \E filter \in UsedFilters : ChooseFilter(filter)
    \/ \E entry \in Range(Filtered) : SelectRow(entry)
    \/ MountPage \/ UnmountPage
    \/ \E e \in DOMAIN fetches :
          \/ RetryFires(e)
          \/ \E o \in Opens : FetchAnswers(e, o)

ViewsSpec == ViewsInit /\ [][ViewsNext]_viewVars

-----------------------------------------------------------------------------
Distance(x, y) == Greatest(x - y, y - x)

\* The header of DepthCurve: a click anywhere snaps to the nearest level.  The
\* bands cover the plot with no gap and no overlap, and at either end of a band,
\* and so anywhere in it, no other level is nearer.
ClicksSnapToTheNearestLevel ==
    LET bands == Bands(app.book)
    IN  /\ \A i \in 1 .. Len(bands) - 1 : bands[i].right = bands[i + 1].left
        /\ \A i, j \in DOMAIN bands : \A x \in {bands[i].left, bands[i].right} :
              Distance(x, 2 * bands[i].pricePx) <= Distance(x, 2 * bands[j].pricePx)

(***************************************************************************)
(* The ladder, the depth curve and the header show one book, although each *)
(* derives it anew: the curve's anchors are the ladder's rows, with their  *)
(* totals; both sides of both panels share one scale, on which no bar      *)
(* overflows and one is full; the midpoint lies strictly inside the        *)
(* spread, which the header and the ladder put at the same value; a click  *)
(* on the curve takes the nearest level; and a price that is read off a    *)
(* row and typed into the ticket is that price.                            *)
(***************************************************************************)
PanelsShowOneBook ==
    LET ladder  == buildLadder(app.book)
        rows    == ladder.bids \o ladder.asks
        anchors == Anchors(app.book)
        header  == deriveHeader(app)
        mid     == midpointPx(app.book.bestBid, app.book.bestAsk)
    IN  /\ [ i \in DOMAIN rows |-> <<rows[i].pricePx, rows[i].cumQty>> ]
              = [ i \in DOMAIN anchors |-> <<anchors[i].pricePx, anchors[i].cumQty>> ]
        /\ rows # <<>> => Max({rows[i].cumQty : i \in DOMAIN rows}) = ladder.sharedMax
        /\ IF ladder.bids = <<>> \/ ladder.asks = <<>>
           THEN mid = NA /\ header.mid = EMPTY_PRICE /\ header.spreadTicks = NA
           ELSE /\ ladder.bids[1].pricePx < mid /\ mid < ladder.asks[1].pricePx
                /\ parsePrice(spreadLabel(app.book.bestBid, app.book.bestAsk))
                      = header.spreadTicks * TICK
        /\ \A row \in Range(rows) : parsePrice(formatPrice(row.pricePx)) = row.pricePx
        /\ ClicksSnapToTheNearestLevel

(***************************************************************************)
(* The chart is drawn from the tape, which forgets, and the figures beside *)
(* it from the session, which does not.  The prints on the chart lie       *)
(* between the session's low and high, and reach them as long as nothing   *)
(* has been forgotten, when the session's open is drawn too; and the last  *)
(* point is the newest, at the price of header and figures, above the open *)
(* exactly when the header says up.                                        *)
(***************************************************************************)
ChartAgreesWithStats ==
    LET series == buildPriceSeries(app.tape)
        whole  == app.sessionTradeCount <= TAPE_CAP
    IN  IF series.points = <<>> THEN app.sessionTradeCount = 0
        ELSE LET newest == Last(series.points)
                 header == deriveHeader(app)
                 stats  == buildSessionStats(app)
             IN  /\ newest.t = series.tMax
                 /\ header.last = formatPrice(newest.pricePx)
                 /\ stats.lastPrice = header.last
                 /\ app.sessionLowPx <= series.cMin /\ series.cMax <= app.sessionHighPx
                 /\ whole => /\ stats.low = formatPrice(series.cMin)
                             /\ stats.high = formatPrice(series.cMax)
                             /\ Reference(series, app.sessionOpenPx) = app.sessionOpenPx
                 /\ header.changeDir = "up" <=> newest.pricePx > app.sessionOpenPx

(***************************************************************************)
(* The colours of the tape are true of what it shows, whatever the filter  *)
(* hides in between: where one visible print is above an earlier one, a    *)
(* print in that stretch is coloured up, and likewise down.                *)
(***************************************************************************)
TicksTellTheMove ==
    \A filter \in BlockFilters :
        LET shown == ShownPrints(app.tape, filter)
            dirs  == Directions(app.tape, filter)
        IN  \A i, j \in DOMAIN shown : i < j =>
              /\ shown[i].pricePx > shown[j].pricePx =>
                    \E k \in i .. j - 1 : dirs[k] = "up"
              /\ shown[i].pricePx < shown[j].pricePx =>
                    \E k \in i .. j - 1 : dirs[k] = "down"

\* Reports of one instant that are of no trade have the same key.
OneKey(a, b) ==
    /\ a.type = "EXEC" /\ b.type = "EXEC"
    /\ a.tradeId = NA /\ b.tradeId = NA /\ a.timestamp = b.timestamp

(***************************************************************************)
(* The entry that was picked stays the one on show as long as it is in the *)
(* list, while other entries arrive on top of it, the log forgets and the  *)
(* filter changes.  The one thing that can take its place is a report of   *)
(* no trade for another of the same stamp: a trade or an echo stays.       *)
(***************************************************************************)
SelectionSticks ==
    [][ LET entry == Selected
        IN  (/\ entry # NoEntry /\ entryKey(entry) = inspector.selectedKey
             /\ inspector'.selectedKey = inspector.selectedKey
             /\ entry \in Range(Filtered'))
            => Selected' = entry \/ OneKey(entry, Selected') ]_viewVars

(***************************************************************************)
(* The opening price is set by the effect's current run or by none: an     *)
(* answer that arrives after the unmount, or to the first of StrictMode's  *)
(* two runs, changes nothing, and a run that is over neither waits for a   *)
(* retry nor fetches again.                                                *)
(***************************************************************************)
LateAnswersAreIgnored ==
    [][ /\ ignition' # ignition =>
              Mounted /\ Last(fetches).at = "fetch" /\ Last(fetches').at = "done"
        /\ \A e \in DOMAIN fetches :
              fetches[e].disposed => fetches'[e].at \in {fetches[e].at, "done"} ]_viewVars
=============================================================================
