------------------------------ MODULE Reducer ------------------------------
(***************************************************************************)
(* The client's state and the pure function that advances it               *)
(* (state/reducer.ts, with the frame shapes of protocol/messages.ts).      *)
(*                                                                         *)
(* An application state is a record with the fields of AppState; a client  *)
(* keeps one for as long as its page lives and changes it by Reduce alone. *)
(* Symbols and send times are left out.  The raw text of a FIX echo is the *)
(* sequence of its fields, each a tag and a value.                         *)
(*                                                                         *)
(* Operators marked (fault) are plausible slips in the operator that       *)
(* follows them; nothing uses them but the mutants that show which         *)
(* property notices.                                                       *)
(***************************************************************************)
EXTENDS Order, Sequences

CONSTANTS
    TAPE_CAP,           \* entries the tape keeps (200 in the code)
    INSPECTOR_CAP       \* entries the inspector keeps (500 in the code)

ASSUME CapsAssumption ==
    /\ TAPE_CAP \in Nat \ {0}
    /\ INSPECTOR_CAP \in Nat \ {0}

SESSION_OPEN_UNSET == -1
Undefined == "undefined"

ConnectionStatuses == {"connecting", "open", "reconnecting"}
TERMINAL      == {"FILLED", "CANCELLED", "REJECTED", "EXPIRED"}
OrderStatuses == {"PENDING", "OPEN", "PARTIALLY_FILLED"} \cup TERMINAL

isTerminal(status)    == status \in TERMINAL
isCancellable(status) == status \in {"OPEN", "PARTIALLY_FILLED"}

-----------------------------------------------------------------------------
(***************************************************************************)
(* The frames, server to client and client to server.                      *)
(***************************************************************************)
FillTypes == {"ORDER_FILLED", "ORDER_PARTIALLY_FILLED"}
ExecTypes == FillTypes \cup
    {"ORDER_ACCEPTED", "ORDER_CANCELLED", "ORDER_REJECTED", "ORDER_EXPIRED"}

BookFrame ==
    [ type : {"BOOK"}, bestBid : Int, bestAsk : Int,
      bids : Seq(Int \X Int), asks : Seq(Int \X Int), timestamp : Int ]

\* What the engine puts into a snapshot: levels on the tick with something to
\* show, outwards from the touch, and the bids below the asks.
IsBook(b) ==
    /\ b.bids \in Seq(Nat \X Nat) /\ b.asks \in Seq(Nat \X Nat)
    /\ \A i \in DOMAIN b.bids : IsOnTick(b.bids[i][1]) /\ b.bids[i][2] > 0
    /\ \A i \in DOMAIN b.asks : IsOnTick(b.asks[i][1]) /\ b.asks[i][2] > 0
    /\ \A i, j \in DOMAIN b.bids : i < j => b.bids[i][1] > b.bids[j][1]
    /\ \A i, j \in DOMAIN b.asks : i < j => b.asks[i][1] < b.asks[j][1]
    /\ \A i \in DOMAIN b.bids, j \in DOMAIN b.asks : b.bids[i][1] < b.asks[j][1]

\* getBestBid and getBestAsk, of the levels of a side.
TopOf(levels) == IF levels = <<>> THEN NA ELSE levels[1][1]

ExecFrame ==
    [ type : {"EXEC"}, execType : ExecTypes, orderId : Int, tradeId : Int,
      price : Int, filledQuantity : Int, remainingQuantity : Int,
      aggressorOrderId : Int, passiveOrderId : Int, timestamp : Int ]

FixFrame ==
    [ type : {"FIX"}, seqNum : Int, raw : Seq(STRING \X STRING), timestamp : Int ]

ServerFrame == BookFrame \cup ExecFrame \cup FixFrame

OrderIntent ==
    [ side : Sides, ordType : OrdTypes, tif : TimesInForce,
      pricePx : Int, qty : Int, displayQty : Int ]

NewOrderFrame ==
    [ type : {"NEW"}, clOrdId : Int, side : Sides, ordType : OrdTypes,
      tif : TimesInForce, price : Int, qty : Int, maxFloor : Int ]

CancelOrderFrame == [ type : {"CANCEL"}, clOrdId : Int, origClOrdId : Int ]

isFill(frame) == frame.execType \in FillTypes

\* The frame for a resolved intent; it throws for numbers not positive, which
\* the ticket never passes.
newOrderFrame(clOrdId, intent) ==
    [ type |-> "NEW", clOrdId |-> clOrdId, side |-> intent.side,
      ordType |-> intent.ordType, tif |-> intent.tif,
      price |-> IF intent.ordType = "PEG_MID" THEN NA ELSE intent.pricePx,
      qty |-> intent.qty, maxFloor |-> intent.displayQty ]

cancelOrderFrame(clOrdId, origClOrdId) ==
    [ type |-> "CANCEL", clOrdId |-> clOrdId, origClOrdId |-> origClOrdId ]

-----------------------------------------------------------------------------
(***************************************************************************)
(* The state.                                                              *)
(***************************************************************************)
BookState ==
    [ bestBid : Int, bestAsk : Int, bids : Seq(Int \X Int),
      asks : Seq(Int \X Int), timestamp : Int ]

TapeEntry ==
    [ tradeId : Int, pricePx : Int, quantity : Int, aggressorOrderId : Int,
      passiveOrderId : Int, timestamp : Int, mine : BOOLEAN,
      aggressorSide : Sides \cup {Undefined} ]

MyOrder ==
    [ clOrdId : Int, side : Sides, pricePx : Int, originalQty : Int,
      remainingQty : Int, status : OrderStatuses, ordType : OrdTypes,
      tif : TimesInForce, displayQty : Int ]

InspectorEntry == FixFrame \cup ExecFrame

\* Lists are newest first.
AppState ==
    [ connection : ConnectionStatuses, book : BookState, tape : Seq(TapeEntry),
      myOrders : Seq(MyOrder), sessionVolume : Int, sessionOpenPx : Int,
      sessionHighPx : Int, sessionLowPx : Int, sessionTradeCount : Int,
      msgSeqNum : Int, lastFrameNanos : Int, inspectorLog : Seq(InspectorEntry) ]

EMPTY_BOOK ==
    [ bestBid |-> NA, bestAsk |-> NA, bids |-> <<>>, asks |-> <<>>, timestamp |-> 0 ]

initialState ==
    [ connection |-> "connecting", book |-> EMPTY_BOOK, tape |-> <<>>,
      myOrders |-> <<>>, sessionVolume |-> 0,
      sessionOpenPx |-> SESSION_OPEN_UNSET, sessionHighPx |-> SESSION_OPEN_UNSET,
      sessionLowPx |-> SESSION_OPEN_UNSET, sessionTradeCount |-> 0,
      msgSeqNum |-> 0, lastFrameNanos |-> 0, inspectorLog |-> <<>> ]

\* [entry, ...list].slice(0, cap)
Prepend(entry, list, cap) ==
    [ i \in 1 .. Least(cap, Len(list) + 1) |-> IF i = 1 THEN entry ELSE list[i - 1] ]

Greatest(a, b) == IF a >= b THEN a ELSE b

\* What a row says has been filled, in the blotter and in the header's sum.
filledOf(order) == Greatest(0, order.originalQty - order.remainingQty)

-----------------------------------------------------------------------------
(***************************************************************************)
(* An execution report.                                                    *)
(***************************************************************************)
knows(myOrders, id) == id > 0 /\ \E i \in DOMAIN myOrders : myOrders[i].clOrdId = id

SideOf(myOrders, id) ==
    myOrders[CHOOSE i \in DOMAIN myOrders : myOrders[i].clOrdId = id].side

\* (fault) The passive side is taken for the aggressor's.
aggressorSideForPassive(myOrders, aggressorOrderId, passiveOrderId) ==
    IF knows(myOrders, aggressorOrderId) THEN SideOf(myOrders, aggressorOrderId)
    ELSE IF knows(myOrders, passiveOrderId) THEN SideOf(myOrders, passiveOrderId)
    ELSE Undefined

\* The aggressor's side, known when one of this client's orders is in the trade.
aggressorSideFor(myOrders, aggressorOrderId, passiveOrderId) ==
    IF knows(myOrders, aggressorOrderId) THEN SideOf(myOrders, aggressorOrderId)
    ELSE IF knows(myOrders, passiveOrderId) THEN Opposite(SideOf(myOrders, passiveOrderId))
    ELSE Undefined

\* What a report makes of the status, but for the exception in nextOrder.
StatusReported ==
    [ ORDER_ACCEPTED |-> "OPEN", ORDER_PARTIALLY_FILLED |-> "PARTIALLY_FILLED",
      ORDER_FILLED |-> "FILLED", ORDER_CANCELLED |-> "CANCELLED",
      ORDER_REJECTED |-> "REJECTED", ORDER_EXPIRED |-> "EXPIRED" ]

\* A cancel and a rejection leave the remainder at its last known value.
RemainingReported(order, frame) ==
    CASE frame.execType = "ORDER_FILLED" -> 0
      [] frame.execType \in {"ORDER_CANCELLED", "ORDER_REJECTED"} -> order.remainingQty
      [] OTHER -> frame.remainingQuantity

\* (fault) An acceptance after a partial fill makes the row OPEN.
nextOrderForgetsFills(order, frame) ==
    IF isTerminal(order.status) THEN order
    ELSE [ order EXCEPT !.status = StatusReported[frame.execType],
                        !.remainingQty = RemainingReported(order, frame) ]

\* (fault) An expiry is not handled.
nextOrderIgnoresExpiry(order, frame) ==
    IF isTerminal(order.status) \/ frame.execType = "ORDER_EXPIRED" THEN order
    ELSE [ order EXCEPT !.status = StatusReported[frame.execType],
                        !.remainingQty = RemainingReported(order, frame) ]

\* The row the report names as its order, which is the aggressor of a fill.
\* The acceptance of a remainder keeps the more telling PARTIALLY_FILLED.
nextOrder(order, frame) ==
    IF isTerminal(order.status) THEN order
    ELSE [ order EXCEPT
             !.status = IF frame.execType = "ORDER_ACCEPTED" /\ @ = "PARTIALLY_FILLED"
                        THEN @ ELSE StatusReported[frame.execType],
             !.remainingQty = RemainingReported(order, frame) ]

\* (fault) The clamp at zero takes a small remainder for none.
passiveFillRounded(order, filledQty) ==
    IF isTerminal(order.status) THEN order
    ELSE LET remainingQty == Greatest(0, order.remainingQty - filledQty - 1)
         IN  [ order EXCEPT !.remainingQty = remainingQty,
                            !.status = IF remainingQty = 0 THEN "FILLED"
                                       ELSE "PARTIALLY_FILLED" ]

\* The row a fill names as passive, which gets no report of its own.
passiveFill(order, filledQty) ==
    IF isTerminal(order.status) THEN order
    ELSE LET remainingQty == Greatest(0, order.remainingQty - filledQty)
         IN  [ order EXCEPT !.remainingQty = remainingQty,
                            !.status = IF remainingQty = 0 THEN "FILLED"
                                       ELSE "PARTIALLY_FILLED" ]

TapeEntryOf(state, frame) ==
    [ tradeId |-> frame.tradeId, pricePx |-> frame.price,
      quantity |-> frame.filledQuantity,
      aggressorOrderId |-> frame.aggressorOrderId,
      passiveOrderId |-> frame.passiveOrderId, timestamp |-> frame.timestamp,
      mine |-> knows(state.myOrders, frame.aggressorOrderId)
                 \/ knows(state.myOrders, frame.passiveOrderId),
      aggressorSide |-> aggressorSideFor(state.myOrders, frame.aggressorOrderId,
                                         frame.passiveOrderId) ]

\* (fault) The low is compared with the sentinel instead of being seeded.
WithTradeUnseeded(state, frame) ==
    [ state EXCEPT
        !.tape = Prepend(TapeEntryOf(state, frame), @, TAPE_CAP),
        !.sessionVolume = @ + frame.filledQuantity,
        !.sessionOpenPx = IF @ <= 0 THEN frame.price ELSE @,
        !.sessionHighPx = Greatest(@, frame.price),
        !.sessionLowPx  = Least(@, frame.price),
        !.sessionTradeCount = @ + 1 ]

\* The tape and the session aggregates, which outlive what the tape forgets.
WithTrade(state, frame) ==
    LET unset == state.sessionHighPx <= 0 \/ state.sessionLowPx <= 0
    IN  [ state EXCEPT
            !.tape = Prepend(TapeEntryOf(state, frame), @, TAPE_CAP),
            !.sessionVolume = @ + frame.filledQuantity,
            !.sessionOpenPx = IF @ <= 0 THEN frame.price ELSE @,
            !.sessionHighPx = IF unset THEN frame.price ELSE Greatest(@, frame.price),
            !.sessionLowPx  = IF unset THEN frame.price ELSE Least(@, frame.price),
            !.sessionTradeCount = @ + 1 ]

UpdatedRows(myOrders, frame) ==
    [ i \in DOMAIN myOrders |->
        IF myOrders[i].clOrdId = frame.orderId THEN nextOrder(myOrders[i], frame)
        ELSE IF /\ isFill(frame) /\ frame.passiveOrderId > 0
                /\ myOrders[i].clOrdId = frame.passiveOrderId
             THEN passiveFill(myOrders[i], frame.filledQuantity)
        ELSE myOrders[i] ]

applyExec(state, frame) ==
    LET traded == IF isFill(frame) THEN WithTrade(state, frame) ELSE state
    IN  [ traded EXCEPT
            !.myOrders = UpdatedRows(@, frame),
            !.lastFrameNanos = frame.timestamp,
            !.inspectorLog = Prepend(frame, @, INSPECTOR_CAP) ]

-----------------------------------------------------------------------------
(***************************************************************************)
(* The other actions.                                                      *)
(***************************************************************************)
RowOf(frame) ==
    [ clOrdId |-> frame.clOrdId, side |-> frame.side, pricePx |-> frame.price,
      originalQty |-> frame.qty, remainingQty |-> frame.qty, status |-> "PENDING",
      ordType |-> frame.ordType, tif |-> frame.tif, displayQty |-> frame.maxFloor ]

IsDuplicate(myOrders, id) == \E i \in DOMAIN myOrders : myOrders[i].clOrdId = id

applySent(state, frame) ==
    [ state EXCEPT !.msgSeqNum = @ + 1,
        !.myOrders = IF frame.type = "NEW" /\ ~ IsDuplicate(@, frame.clOrdId)
                     THEN <<RowOf(frame)>> \o @ ELSE @ ]

\* (fault) A frame with the same best prices is taken for a repetition.
applyBookIfTopMoved(state, frame) ==
    IF state.book.bestBid = frame.bestBid /\ state.book.bestAsk = frame.bestAsk THEN state
    ELSE [ state EXCEPT
             !.book = [ bestBid |-> frame.bestBid, bestAsk |-> frame.bestAsk,
                        bids |-> frame.bids, asks |-> frame.asks,
                        timestamp |-> frame.timestamp ],
             !.lastFrameNanos = frame.timestamp ]

\* Replaced wholesale, never merged.
applyBook(state, frame) ==
    [ state EXCEPT
        !.book = [ bestBid |-> frame.bestBid, bestAsk |-> frame.bestAsk,
                   bids |-> frame.bids, asks |-> frame.asks,
                   timestamp |-> frame.timestamp ],
        !.lastFrameNanos = frame.timestamp ]

applyFix(state, frame) ==
    [ state EXCEPT !.lastFrameNanos = frame.timestamp,
                   !.inspectorLog = Prepend(frame, @, INSPECTOR_CAP) ]

\* A drop clears nothing: rows, tape and aggregates belong to the page.
reduceConnection(state, status) == [ state EXCEPT !.connection = status ]

reduceFrame(state, frame) ==
    CASE frame.type = "BOOK" -> applyBook(state, frame)
      [] frame.type = "FIX"  -> applyFix(state, frame)
      [] frame.type = "EXEC" -> applyExec(state, frame)

reduceSent(state, frame) == applySent(state, frame)
=============================================================================
