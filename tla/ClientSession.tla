--------------------------- MODULE ClientSession ---------------------------
(***************************************************************************)
(* One client of the venue: the orders it sends travel to the engine, the  *)
(* engine's executions and book snapshots travel back to it and to every   *)
(* other client, and its reducer turns what arrives into rows, a tape, a   *)
(* ladder and session figures.                                             *)
(*                                                                         *)
(* The engine's listener calls (reports) are the EXEC stream and the       *)
(* snapshots after each event the BOOK stream.  Two consumer threads       *)
(* broadcast them, so each arrives in order but they overtake each other.  *)
(* Both streams are histories here; execRead and bookRead say how much of  *)
(* each the client has had.  Nothing is kept for a client that is away.    *)
(*                                                                         *)
(* OwnTickets are this client's orders, the other tickets other clients'.  *)
(* Orders are cancelled by the client that sent them: the venue does not   *)
(* check it, but nobody else is told the id before the order rests.        *)
(***************************************************************************)
EXTENDS MatchingEngine, Reducer, Inbound

CONSTANTS
    OwnTickets,         \* the orders this client may send
    MAX_DEPTH_LEVELS,   \* the most levels of a side a snapshot holds
    MaxDrops            \* bound on the times its connection drops

ASSUME SessionAssumption ==
    /\ OwnTickets \subseteq Tickets
    /\ MAX_DEPTH_LEVELS \in Nat \ {0}
    /\ MaxDrops \in Nat

\* The client makes its ids from a clock, one by one, and no other client has
\* them; it may ask for the cancel of each.
ASSUME OwnIdsAssumption ==
    /\ \A ticket \in OwnTickets : ticket.orderID \in CancelIds
    /\ \A ticket \in OwnTickets, other \in Tickets \ OwnTickets :
          ticket.orderID # other.orderID

VARIABLES
    app,         \* the client's AppState
    inbound,     \* its frames on their way to the engine: the socket, the ring
    snapshots,   \* the BOOK frames published so far
    execRead,    \* how many EXEC frames it has had, or missed
    bookRead,    \* how many BOOK frames it has had, or missed
    up,          \* does its connection stand?
    drops,       \* number of drops so far
    missed       \* has an EXEC frame or a frame of its own been lost? (history)

clientVars  == <<app, inbound, execRead, bookRead, up, drops, missed>>
sessionVars == <<vars, clientVars, snapshots>>

SessionInit ==
    /\ Init
    /\ app = reduceConnection(initialState, "open")
    /\ inbound = <<>> /\ snapshots = <<>>
    /\ execRead = 0 /\ bookRead = 0
    /\ up = TRUE /\ drops = 0 /\ missed = FALSE

-----------------------------------------------------------------------------
(***************************************************************************)
(* The frames.  What the parser drops reaches no engine and is no order of *)
(* this module, nor is a quantity that the cast to int changes             *)
(* (OrdersArriveWhole of OrderTicket says what becomes of one).            *)
(***************************************************************************)
IntentOf(ticket) ==
    [ side |-> ticket.side, ordType |-> ticket.ordType, tif |-> ticket.tif,
      pricePx |-> ticket.price, qty |-> ticket.quantity, displayQty |-> ticket.peak ]

ASSUME ParsedAssumption ==
    \A ticket \in OwnTickets :
        /\ IsParsed(newOrderSingle(newOrderFrame(ticket.orderID, IntentOf(ticket))))
        /\ ticket.quantity <= MAX_INT

IdOf(r) == IF r = NA THEN NA ELSE orders[r].orderID

Fills(n) == {j \in 1 .. n : reports[j].kind = "FILL"}

FillType(report) ==
    IF report.remaining = 0 THEN "ORDER_FILLED" ELSE "ORDER_PARTIALLY_FILLED"

Exec(execType, orderId, i) ==
    [ type |-> "EXEC", execType |-> execType, orderId |-> orderId, tradeId |-> NA,
      price |-> NA, filledQuantity |-> NA, remainingQuantity |-> NA,
      aggressorOrderId |-> NA, passiveOrderId |-> NA, timestamp |-> i ]

\* The EXEC frame of the i-th report, stamped in the order of publication.
ExecOf(i) ==
    LET report == reports[i]
    IN  CASE report.kind = "FILL" ->
               [ Exec(FillType(report), IdOf(report.order), i) EXCEPT
                   !.tradeId = Cardinality(Fills(i)), !.price = report.price,
                   !.filledQuantity = report.quantity,
                   !.remainingQuantity = report.remaining,
                   !.aggressorOrderId = IdOf(report.order),
                   !.passiveOrderId = IdOf(report.passive) ]
          [] report.kind = "ACCEPTED" ->
               [ Exec("ORDER_ACCEPTED", IdOf(report.order), i) EXCEPT
                   !.price = report.price, !.remainingQuantity = report.remaining ]
          [] report.kind = "EXPIRED" ->
               [ Exec("ORDER_EXPIRED", IdOf(report.order), i) EXCEPT
                   !.remainingQuantity = report.remaining ]
          [] report.kind = "CANCELLED" -> Exec("ORDER_CANCELLED", report.id, i)
          [] report.kind = "REJECTED"  -> Exec("ORDER_REJECTED", report.id, i)

\* An iceberg contributes its displayed slice only.
LevelQty(queue) == MapThenSumSet(LAMBDA r : orders[r].visibleQty, Range(queue))

\* fillSide: the levels of a side, best first, as many as a snapshot holds.  The
\* price in the i-th place is the one that i prices of the side are as good as.
Levels(side) ==
    LET prices   == DOMAIN book[side]
        Place(p) == Cardinality({q \in prices : IF side = "BUY" THEN q >= p ELSE q <= p})
        best     == [ i \in 1 .. Least(MAX_DEPTH_LEVELS, Cardinality(prices)) |->
                        CHOOSE p \in prices : Place(p) = i ]
    IN  [ i \in DOMAIN best |-> <<best[i], LevelQty(book[side][best[i]])>> ]

BookSnapshot ==
    [ type |-> "BOOK", bestBid |-> IF Bids = {} THEN NA ELSE Max(Bids),
      bestAsk |-> IF Asks = {} THEN NA ELSE Min(Asks),
      bids |-> Levels("BUY"), asks |-> Levels("SELL"), timestamp |-> calls ]

-----------------------------------------------------------------------------
(***************************************************************************)
(* The client sends.  A frame is recorded in the state as it is written to *)
(* the socket, before anything can come back.                              *)
(***************************************************************************)
\* Room for one more call, the frames under way included.
RoomForCall == calls + Len(inbound) < MaxCalls

Write(frame) ==
    /\ up /\ RoomForCall
    /\ inbound' = Append(inbound, frame)
    /\ app' = reduceSent(app, frame)
    /\ UNCHANGED <<vars, snapshots, execRead, bookRead, up, drops, missed>>

SendNew(ticket) ==
    /\ ~ IsDuplicate(app.myOrders, ticket.orderID)
    /\ Write(newOrderFrame(ticket.orderID, IntentOf(ticket)))

\* The request takes an id of its own, which nothing refers to.
SendCancel(id) ==
    /\ IsDuplicate(app.myOrders, id)
    /\ Write(cancelOrderFrame(0, id))

-----------------------------------------------------------------------------
(***************************************************************************)
(* The engine thread handles one event at a time, from this client or from *)
(* another, and ends each with a snapshot.                                 *)
(***************************************************************************)
\* Every event so far has been given its snapshot.
EventDone == pc = "idle" /\ Len(snapshots) = calls

HandleNew(ticket) == AddOrder(ticket) \/ AddOrderKilled(ticket)
HandleCancel(id)  == CancelOrder(id) \/ CancelOrderRefused(id)

HandleOwn ==
    /\ EventDone /\ inbound # <<>>
    /\ LET frame == Head(inbound)
       IN  \/ /\ frame.type = "NEW"
              /\ \E ticket \in {TicketOf(frame)} : HandleNew(ticket)
           \/ frame.type = "CANCEL" /\ HandleCancel(frame.origClOrdId)
    /\ inbound' = Tail(inbound)
    /\ UNCHANGED <<app, snapshots, execRead, bookRead, up, drops, missed>>

HandleForeign ==
    /\ EventDone /\ RoomForCall
    /\ \/ \E ticket \in Tickets \ OwnTickets : HandleNew(ticket)
       \/ \E id \in CancelIds \ {t.orderID : t \in OwnTickets} : HandleCancel(id)
    /\ UNCHANGED <<clientVars, snapshots>>

EngineRuns == Continue /\ UNCHANGED <<clientVars, snapshots>>

PublishBook ==
    /\ pc = "idle" /\ Len(snapshots) < calls
    /\ snapshots' = Append(snapshots, BookSnapshot)
    /\ UNCHANGED <<vars, clientVars>>

-----------------------------------------------------------------------------
(***************************************************************************)
(* The client receives, loses its connection and gets a new one.           *)
(***************************************************************************)
ReceiveExec ==
    /\ up /\ execRead < Len(reports)
    /\ app' = reduceFrame(app, ExecOf(execRead + 1))
    /\ execRead' = execRead + 1
    /\ UNCHANGED <<vars, snapshots, inbound, bookRead, up, drops, missed>>

ReceiveBook ==
    /\ up /\ bookRead < Len(snapshots)
    /\ app' = reduceFrame(app, snapshots[bookRead + 1])
    /\ bookRead' = bookRead + 1
    /\ UNCHANGED <<vars, snapshots, inbound, execRead, up, drops, missed>>

\* Of what the client has written, the server still reads a prefix.
DropConnection ==
    /\ up /\ drops < MaxDrops
    /\ up' = FALSE /\ drops' = drops + 1
    /\ app' = reduceConnection(app, "reconnecting")
    /\ \E n \in 0 .. Len(inbound) :
          /\ inbound' = SubSeq(inbound, 1, n)
          /\ missed' = (missed \/ n < Len(inbound))
    /\ UNCHANGED <<vars, snapshots, execRead, bookRead>>

\* What was broadcast meanwhile is gone; the last cached book is sent anew.
Reconnect ==
    /\ ~ up
    /\ up' = TRUE
    /\ \E e \in execRead .. Len(reports), b \in bookRead .. Len(snapshots) :
          /\ execRead' = e /\ bookRead' = b
          /\ missed' = (missed \/ e > execRead)
          /\ app' = LET opened == reduceConnection(app, "open")
                    IN  IF b = 0 THEN opened ELSE reduceFrame(opened, snapshots[b])
    /\ UNCHANGED <<vars, snapshots, inbound, drops>>

SessionNext ==
    \/ \E t \in OwnTickets : SendNew(t)
    \/ \E id \in {t.orderID : t \in OwnTickets} : SendCancel(id)
    \/ HandleOwn \/ HandleForeign \/ EngineRuns \/ PublishBook
    \/ ReceiveExec \/ ReceiveBook
    \/ DropConnection \/ Reconnect

SessionSpec == SessionInit /\ [][SessionNext]_sessionVars

\* The engine thread works while it has something to do, and the network
\* delivers; nobody need send, and a connection need neither drop nor return.
EngineThread == HandleOwn \/ EngineRuns \/ PublishBook

FairSessionSpec ==
    SessionSpec /\ WF_sessionVars(EngineThread) /\ WF_sessionVars(ReceiveExec)

-----------------------------------------------------------------------------
Rows == {app.myOrders[i] : i \in DOMAIN app.myOrders}

OwnIds == {t.orderID : t \in OwnTickets}

\* The order a row stands for, if it has reached the engine.
OrderOf(row)  == CHOOSE r \in Refs : orders[r].orderID = row.clOrdId
Arrived(row)  == \E r \in Refs : orders[r].orderID = row.clOrdId
\* Has the listener been told of it?
Reported(row) ==
    \E i \in DOMAIN reports :
        \/ reports[i].kind \in {"FILL", "ACCEPTED", "EXPIRED"}
              /\ orders[reports[i].order].orderID = row.clOrdId
        \/ reports[i].kind = "FILL" /\ orders[reports[i].passive].orderID = row.clOrdId

CaughtUp == ~ missed /\ execRead = Len(reports)

\* The header's Filled, over every row, and Rem, over those still working.
sessionFilledQty(rows) == MapThenSumSet(filledOf, rows)
sessionWorkingQty(rows) ==
    MapThenSumSet(LAMBDA row : row.remainingQty, {row \in rows : ~ isTerminal(row.status)})

\* The part of this client's orders in trade i: both, when it met itself.
OwnPart(i) ==
    trades[i].quantity
      * Cardinality({r \in {trades[i].buy, trades[i].sell} :
                       orders[r].orderID \in OwnIds})

\* What the engine has made of an order.  A fill-or-kill order that it kills
\* is over too, although the object is left OPEN.
Verdict(r) ==
    IF orders[r].tif = "FOK" /\ orders[r].quantity > 0 /\ (pc = "idle" \/ incoming # r)
    THEN "EXPIRED" ELSE orders[r].status

\* What is left to be traded of the order a row stands for.
WorkingPart(row) ==
    IF ~ Arrived(row) THEN row.originalQty
    ELSE IF Verdict(OrderOf(row)) \in {"OPEN", "PARTIALLY_FILLED"}
         THEN orders[OrderOf(row)].quantity ELSE 0

(***************************************************************************)
(* A client that has missed nothing has, in each row, the remainder the    *)
(* engine has, at every instant, and between calls the engine's verdict.   *)
(* Nobody tells it of its passive fills, of an acceptance that followed    *)
(* fills, or of a cancel that came too late (nextOrder, passiveFill).  The *)
(* header's Filled is the client's part of all the trades, although the    *)
(* rows are all it is computed from, and Rem what the engine has left.     *)
(***************************************************************************)
RowsAgreeWithVenue ==
    CaughtUp =>
        /\ \A row \in Rows :
              IF ~ Arrived(row) \/ ~ Reported(row)
              THEN row.status = "PENDING" /\ row.remainingQty = row.originalQty
              ELSE LET order == orders[OrderOf(row)]
                   IN  /\ row.remainingQty = order.quantity
                       /\ pc = "idle" => row.status = Verdict(OrderOf(row))
        /\ sessionFilledQty(Rows) = MapThenSumSet(OwnPart, DOMAIN trades)
        /\ pc = "idle" =>
              sessionWorkingQty(Rows) = MapThenSumSet(WorkingPart, Rows)

(***************************************************************************)
(* Whatever was lost or is late, a row never claims more than happened: it *)
(* has at least the engine's remainder left, and a row shown as filled,    *)
(* cancelled or expired is so at the engine.                               *)
(***************************************************************************)
RowsAreNeverAhead ==
    \A row \in Rows :
        /\ Arrived(row) => row.remainingQty >= orders[OrderOf(row)].quantity
        /\ row.status \in {"FILLED", "CANCELLED", "EXPIRED"} =>
              Arrived(row) /\ Verdict(OrderOf(row)) = row.status

\* The trades whose EXEC frames have arrived, when none was missed.
TradesSeen == 1 .. Cardinality(Fills(execRead))

(***************************************************************************)
(* The session figures are those of the whole history of trades and not of *)
(* the capped tape: volume, open, high, low and count.  The tape is the    *)
(* newest TAPE_CAP trades, newest first.                                   *)
(***************************************************************************)
SessionMatchesTrades ==
    ~ missed =>
        /\ app.sessionTradeCount = Cardinality(TradesSeen)
        /\ app.sessionVolume = MapThenSumSet(LAMBDA i : trades[i].quantity, TradesSeen)
        /\ LET prices == {trades[i].price : i \in TradesSeen}
           IN  IF prices = {}
               THEN {app.sessionOpenPx, app.sessionHighPx, app.sessionLowPx}
                      = {SESSION_OPEN_UNSET}
               ELSE /\ app.sessionOpenPx = trades[1].price
                    /\ app.sessionHighPx = Max(prices)
                    /\ app.sessionLowPx = Min(prices)
        /\ Len(app.tape) = Least(TAPE_CAP, Cardinality(TradesSeen))
        /\ \A i \in DOMAIN app.tape :
              app.tape[i].tradeId = Cardinality(TradesSeen) + 1 - i

SideOfId(id) == orders[CHOOSE r \in Refs : orders[r].orderID = id].side

(***************************************************************************)
(* aggressorSideFor's comment: the tape tags a side exactly on the trades  *)
(* of this client's own orders, although no frame carries a side.  The tag *)
(* is the aggressor's true side, with our order aggressive or passive.     *)
(***************************************************************************)
AggressorTagIsTrue ==
    \A i \in DOMAIN app.tape :
        LET entry == app.tape[i]
        IN  /\ entry.mine = ({entry.aggressorOrderId, entry.passiveOrderId} \cap OwnIds # {})
            /\ entry.aggressorSide =
                  IF entry.mine THEN SideOfId(entry.aggressorOrderId) ELSE Undefined

LadderOf(side) == IF side = "BUY" THEN app.book.bids ELSE app.book.asks

\* The ladder holds no more levels, and all of them are better than this price.
BeyondLadder(side, p) ==
    LET levels == LadderOf(side)
    IN  /\ Len(levels) = MAX_DEPTH_LEVELS
        /\ \A i \in DOMAIN levels : IF side = "BUY" THEN p < levels[i][1]
                                                     ELSE p > levels[i][1]

\* What the ladder shows at a price, what the client's own rows account for,
\* and what the orders of others show there.
Shown(side, p) ==
    LET levels == LadderOf(side)
    IN  MapThenSumSet(LAMBDA i : levels[i][2], {i \in DOMAIN levels : levels[i][1] = p})

OwnAt(side, p) ==
    {row \in Rows : isCancellable(row.status) /\ row.side = side /\ row.pricePx = p}

ShownByOthers(side, p) ==
    MapThenSumSet(LAMBDA r : orders[r].visibleQty,
                  {r \in Range(QueueAt(book[side], p)) : orders[r].orderID \notin OwnIds})

(***************************************************************************)
(* Once both streams are in, the ladder and the blotter tell one story:    *)
(* each level of the ladder is what the client's own open rows have left   *)
(* at that price (none of them hiding a reserve) and what others show.  A  *)
(* snapshot holds MAX_DEPTH_LEVELS of a side, the best: where the ladder   *)
(* has no room left it says nothing of a worse price, though the blotter   *)
(* has the client's orders there too; at every other price it is whole.    *)
(***************************************************************************)
LadderMatchesBlotter ==
    CaughtUp /\ EventDone /\ bookRead = Len(snapshots) =>
        \A side \in Sides, p \in Price :
            (\A row \in OwnAt(side, p) : row.displayQty = 0) =>
                Shown(side, p) =
                    IF BeyondLadder(side, p) THEN 0
                    ELSE ShownByOthers(side, p)
                           + MapThenSumSet(LAMBDA row : row.remainingQty, OwnAt(side, p))

IsPending(id) == \E row \in Rows : row.clOrdId = id /\ row.status = "PENDING"

(***************************************************************************)
(* Every order is answered: its row leaves PENDING, unless the connection  *)
(* drops.  An order that expires with no trade gets its expiry and nothing *)
(* else.                                                                   *)
(***************************************************************************)
OrdersAreAnswered == \A id \in OwnIds : IsPending(id) ~> ~ IsPending(id) \/ drops > 0

(***************************************************************************)
(* The comment on sessionFilledQty (Header.tsx): a row that is REJECTED    *)
(* contributes zero to the session's filled quantity, "by the same         *)
(* arithmetic, with no special case".                                      *)
(***************************************************************************)
RejectedContributesNothing ==
    \A row \in Rows : row.status = "REJECTED" => filledOf(row) = 0
=============================================================================
