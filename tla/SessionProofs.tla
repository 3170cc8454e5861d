--------------------------- MODULE SessionProofs ---------------------------
(***************************************************************************)
(* Proofs about one client of the venue and the engine behind it, for      *)
(* every set of orders, any number of calls and of dropped connections.    *)
(***************************************************************************)
EXTENDS ClientSession, LedgerProofs, ClientTheorems

-----------------------------------------------------------------------------
(* The client's frames reach the engine as the orders they were made from, *)
(* so that every step of a session is a step of the engine, or none.       *)

NewFrames    == {newOrderFrame(t.orderID, IntentOf(t)) : t \in OwnTickets}
CancelFrames == {cancelOrderFrame(0, id) : id \in OwnIds}

InboundInv == inbound \in Seq(NewFrames \cup CancelFrames)

\* What the client writes for an order is a frame, and the engine is called with
\* the order it was written for.
LEMMA OwnTicketsArrive ==
    ASSUME NEW t \in OwnTickets
    PROVE  LET f == newOrderFrame(t.orderID, IntentOf(t))
           IN  /\ f \in NewOrderFrame /\ f.type = "NEW" /\ TicketOf(f) = t
               /\ f.clOrdId = t.orderID /\ f.side = t.side /\ f.qty = t.quantity
               /\ f.price = t.price /\ f.maxFloor = t.peak
<1> DEFINE f == newOrderFrame(t.orderID, IntentOf(t))
<1>1. t \in TicketRecord /\ ConstructorAccepts(t) /\ t.quantity <= MAX_INT
  BY SessionAssumption, TicketsAssumption, ParsedAssumption
<1>2. /\ t.orderID \in Int /\ t.side \in Sides /\ t.quantity \in Int /\ t.price \in Int
      /\ t.tif \in TimesInForce /\ t.peak \in Int /\ t.ordType \in OrdTypes
      /\ t.ordType = "PEG_MID" => t.price = NA
  <2>1. \A p \in Price \cup {NA} : p \in Int
    BY DEF Price, NA
  <2> QED BY <1>1, <2>1 DEF TicketRecord, ConstructorAccepts
<1>3. f = [ type |-> "NEW", clOrdId |-> t.orderID, side |-> t.side,
            ordType |-> t.ordType, tif |-> t.tif, price |-> t.price,
            qty |-> t.quantity, maxFloor |-> t.peak ]
  BY <1>2 DEF newOrderFrame, IntentOf
<1> HIDE DEF f
<1>4. f \in NewOrderFrame
  BY <1>2, <1>3 DEF NewOrderFrame
<1>5. FrameTerms(f) = t
  <2>1. t = [ orderID |-> t.orderID, side |-> t.side, quantity |-> t.quantity,
              price |-> t.price, tif |-> t.tif, peak |-> t.peak, ordType |-> t.ordType ]
    BY <1>1 DEF TicketRecord
  <2> QED BY <1>3, <2>1 DEF FrameTerms
<1>6. TicketOf(f) = t
  BY <1>1, <1>3, <1>4, <1>5, FramesArrive
<1> QED BY <1>3, <1>4, <1>6 DEF f

\* A cancel request carries the id of one of the client's orders.
LEMMA OwnCancels ==
    ASSUME NEW f \in CancelFrames
    PROVE  /\ f \in CancelOrderFrame /\ f.type = "CANCEL"
           /\ f.origClOrdId \in OwnIds /\ f.origClOrdId \in CancelIds
<1>1. PICK id \in OwnIds : f = cancelOrderFrame(0, id)
  BY DEF CancelFrames
<1>2. id \in CancelIds
  BY <1>1, OwnIdsAssumption DEF OwnIds
<1>3. id \in Int
  BY <1>2, BoundsAssumption
<1> QED BY <1>1, <1>2, <1>3 DEF cancelOrderFrame, CancelOrderFrame

\* A call of the session's is a call the engine may get.
HandlesFrame ==
    \/ \E t \in OwnTickets : /\ Head(inbound) = newOrderFrame(t.orderID, IntentOf(t))
                             /\ HandleNew(t)
    \/ \E id \in OwnIds : /\ Head(inbound) = cancelOrderFrame(0, id)
                          /\ HandleCancel(id)

LEMMA OwnFramesAreCalls ==
    ASSUME InboundInv, HandleOwn
    PROVE  HandlesFrame /\ Next /\ inbound' = Tail(inbound) /\ inbound # <<>>
<1>1. /\ inbound # <<>> /\ inbound' = Tail(inbound)
      /\ \/ /\ Head(inbound).type = "NEW"
            /\ \E ticket \in {TicketOf(Head(inbound))} : HandleNew(ticket)
         \/ Head(inbound).type = "CANCEL" /\ HandleCancel(Head(inbound).origClOrdId)
  BY DEF HandleOwn
<1>2. Head(inbound) \in NewFrames \cup CancelFrames
  BY <1>1 DEF InboundInv
<1>3. CASE Head(inbound) \in NewFrames
  <2>1. PICK t \in OwnTickets : Head(inbound) = newOrderFrame(t.orderID, IntentOf(t))
    BY <1>3 DEF NewFrames
  <2>2. Head(inbound).type = "NEW" /\ TicketOf(Head(inbound)) = t
    BY <2>1, OwnTicketsArrive
  <2>3. HandleNew(t)
    BY <1>1, <2>2
  <2>4. t \in Tickets
    BY SessionAssumption
  <2> QED BY <1>1, <2>1, <2>3, <2>4 DEF HandlesFrame, HandleNew, Next
<1>4. CASE Head(inbound) \in CancelFrames
  <2>1. PICK id \in OwnIds : Head(inbound) = cancelOrderFrame(0, id)
    BY <1>4 DEF CancelFrames
  <2>2. Head(inbound).type = "CANCEL" /\ Head(inbound).origClOrdId = id /\ id \in CancelIds
    BY <2>1, <1>4, OwnCancels DEF cancelOrderFrame
  <2>3. HandleCancel(id)
    BY <1>1, <2>2
  <2> QED BY <1>1, <2>1, <2>2, <2>3 DEF HandlesFrame, HandleCancel, Next
<1> QED BY <1>2, <1>3, <1>4

LEMMA ForeignCallsAreCalls == HandleForeign => Next /\ inbound' = inbound
BY DEF HandleForeign, HandleNew, HandleCancel, Next, clientVars

\* The client sends one of its own frames.
LEMMA OwnFramesAreSent ==
    ASSUME InboundInv,
           \/ \E t \in OwnTickets : SendNew(t)
           \/ \E id \in {t.orderID : t \in OwnTickets} : SendCancel(id)
    PROVE  InboundInv'
<1>1. PICK f \in NewFrames \cup CancelFrames : Write(f)
  BY DEF SendNew, SendCancel, NewFrames, CancelFrames, OwnIds
<1>2. inbound' = Append(inbound, f)
  BY <1>1 DEF Write
<1> DEFINE S == NewFrames \cup CancelFrames
<1>3. inbound \in Seq(S) /\ f \in S
  BY DEF InboundInv
<1> HIDE DEF S
<1>4. inbound' \in Seq(S)
  BY <1>2, <1>3
<1> QED BY <1>4 DEF InboundInv, S, NewFrames, CancelFrames

LEMMA InboundStays == inbound' = inbound /\ InboundInv => InboundInv'
BY DEF InboundInv, NewFrames, CancelFrames

LEMMA SessionStepsAreEngineSteps ==
    InboundInv /\ [SessionNext]_sessionVars => [Next]_vars /\ InboundInv'
<1> SUFFICES ASSUME InboundInv, [SessionNext]_sessionVars
             PROVE  [Next]_vars /\ InboundInv'
  OBVIOUS
<1> DEFINE S == NewFrames \cup CancelFrames
<1>1. CASE \/ \E t \in OwnTickets : SendNew(t)
           \/ \E id \in {t.orderID : t \in OwnTickets} : SendCancel(id)
  <2>1. UNCHANGED vars
    BY <1>1 DEF SendNew, SendCancel, Write, vars
  <2> QED BY <1>1, <2>1, OwnFramesAreSent
<1>2. CASE HandleOwn
  <2>1. Next /\ inbound' = Tail(inbound) /\ inbound # <<>>
    BY <1>2, OwnFramesAreCalls
  <2>2. inbound \in Seq(S)
    BY DEF InboundInv
  <2> HIDE DEF S
  <2>3. inbound' \in Seq(S)
    BY <2>1, <2>2
  <2> QED BY <2>1, <2>3 DEF InboundInv, S, NewFrames, CancelFrames
<1>3. CASE HandleForeign
  BY <1>3, ForeignCallsAreCalls, InboundStays
<1>4. CASE EngineRuns
  BY <1>4, InboundStays DEF EngineRuns, Next, clientVars
<1>5. CASE PublishBook \/ ReceiveExec \/ ReceiveBook \/ Reconnect
  BY <1>5, InboundStays DEF PublishBook, ReceiveExec, ReceiveBook, Reconnect, clientVars
<1>6. CASE DropConnection
  <2>1. PICK n \in 0 .. Len(inbound) : inbound' = SubSeq(inbound, 1, n)
    BY <1>6 DEF DropConnection
  <2>2. inbound \in Seq(S)
    BY DEF InboundInv
  <2> HIDE DEF S
  <2>3. inbound' \in Seq(S)
    BY <2>1, <2>2, SubSeqProperties
  <2> QED BY <1>6, <2>3 DEF DropConnection, InboundInv, S, NewFrames, CancelFrames
<1>7. CASE UNCHANGED sessionVars
  BY <1>7, InboundStays DEF sessionVars, clientVars
<1> QED
  BY <1>1, <1>2, <1>3, <1>4, <1>5, <1>6, <1>7 DEF SessionNext

(***************************************************************************)
(* The engine behind a session is the engine of MatchingEngine, called by  *)
(* this client and by others: what the client writes reaches it as it was  *)
(* meant (JsonToFix, FixParser, MatchingEngineHandler.process), and        *)
(* nothing of the network or of the client does anything to it.            *)
(***************************************************************************)
THEOREM TheSessionRunsTheEngine == SessionSpec => Spec /\ []InboundInv
<1>1. SessionInit => Init /\ InboundInv
  BY DEF SessionInit, InboundInv
<1> QED BY <1>1, SessionStepsAreEngineSteps, PTL DEF SessionSpec, Spec

-----------------------------------------------------------------------------
(* The engine's steps, as its reports tell them. *)

\* A trade is between a buy and a sell, at a price.
Deals(a, h, n, price) ==
    /\ Trade(a, h, n, price)
    /\ orders[a].side # orders[h].side /\ price \in Nat \ {0}

\* The order of a ticket is in: the call goes on, or it is killed.
ArrivesAs(t) ==
    /\ Arrives /\ incoming' \in Refs' /\ incoming' \in Nat
    /\ LET o == orders'[incoming']
       IN  /\ o.orderID = t.orderID /\ o.side = t.side /\ o.tif = t.tif
           /\ o.orderQty = t.quantity /\ o.quantity = t.quantity /\ o.status = "OPEN"
           /\ o.price = t.price /\ o.peak = IF t.peak = t.quantity THEN 0 ELSE t.peak
           /\ o.ordType = t.ordType

Remains == orders[incoming].quantity > 0 /\ orders[incoming].tif # "GTC"

\* The running call is done with its own order, which expires if it may not rest.
FinishesAs ==
    /\ Finishes /\ TermsStay /\ incoming \in Refs
    /\ \A r \in Refs : orders'[r].status =
          IF r = incoming /\ Remains THEN "EXPIRED" ELSE orders[r].status

\* A resting order is cancelled.
Withdraws(id) ==
    /\ Passes /\ TermsStay /\ pc = "idle" /\ pc' = "idle"
    /\ \E r \in Resting : /\ r \in Refs /\ orders[r].orderID = id
                          /\ Resting' = Resting \ {r} /\ orders'[r].status = "CANCELLED"
                          /\ \A q \in Refs \ {r} : orders'[q] = orders[q]
    /\ reports' = Append(reports, Answer("CANCELLED", id))

\* A cancel finds nothing.
Refuses(id) ==
    /\ Passes /\ pc = "idle" /\ pc' = "idle" /\ orders' = orders /\ Resting' = Resting
    /\ ~ ReuseIds => \A r \in Resting : orders[r].orderID # id
    /\ reports' = Append(reports, Answer("REJECTED", id))

\* A loop ends, or nothing happens at all.
Idles == /\ Passes /\ orders' = orders /\ reports' = reports /\ Resting' = Resting
         /\ pc # "idle" \/ pc' = "idle"

ReportStep ==
    \/ \E a, h, n, price : Deals(a, h, n, price)
    \/ \E t \in Tickets : ArrivesAs(t)
    \/ FinishesAs
    \/ \E id \in CancelIds : Withdraws(id) \/ Refuses(id)
    \/ Idles

\* There is a midpoint at the trades that are made at it, and it is a price.
LEMMA MidIsPositive ==
    ASSUME IInv, MidStillCurrent, pc \in {"pegs", "cross"}, mid # NA
    PROVE  mid \in Nat \ {0}
<1>1. mid = MidOf(Bids, Asks)
  BY DEF MidStillCurrent, Mid
<1>2. Bids \in SUBSET Price /\ Asks \in SUBSET Price
  BY DEF IInv, TypeOK, Sides, Bids, Asks
<1>3. Bids # {} /\ Asks # {}
  BY <1>1 DEF MidOf
<1> DEFINE b == BestPrice("BUY", Bids)
           a == BestPrice("SELL", Asks)
<1>4. b \in Bids /\ a \in Asks
  BY <1>2, <1>3, BestPriceIsBest DEF Sides
<1>5. \A p \in Price : p \in Nat /\ p >= TICK
  BY BoundsAssumption DEF Price, IsOnTick, TICK
<1>6. b \in Nat /\ a \in Nat /\ b >= TICK /\ a >= TICK
  BY <1>2, <1>4, <1>5
<1>7. mid = (b + a) \div 2
  BY <1>1, <1>3 DEF MidOf
<1> HIDE DEF b, a
<1> QED BY <1>6, <1>7 DEF TICK

LEMMA LoopsDeal ==
    ASSUME IInv, MidStillCurrent,
           MatchPegPool \/ CrossPegPools \/ \E p \in Price : MatchLit(p)
    PROVE  \E a, h, n, price : Deals(a, h, n, price)
<1>0. TypeOK /\ BookHoldsLiveOrders
  BY DEF IInv
<1>1. CASE MatchPegPool
  <2> DEFINE side == Opposite(incomingSide)
             h    == Head(pegs[side])
             n    == Least(orders[incoming].quantity, orders[h].quantity)
  <2>1. h \in PegOrders(side) /\ Trade(incoming, h, n, mid)
    BY <1>1, MatchPegPoolTrades DEF MatchPegPoolTrade
  <2>2. pc = "pegs" /\ mid # NA
    BY <1>1 DEF MatchPegPool, IInv, PhaseFacts
  <2>3. incomingSide \in Sides /\ orders[incoming].side = incomingSide
    BY <2>2, IncomingOrder DEF Dealing
  <2>4. side \in Sides /\ side # incomingSide
    BY <2>3 DEF Sides, Opposite
  <2>5. orders[h].side = side
    BY <1>0, <2>1, <2>4, RestingOrders
  <2> QED BY <2>1, <2>2, <2>3, <2>4, <2>5, MidIsPositive DEF Deals
<1>2. CASE CrossPegPools
  <2> DEFINE b == Head(pegs["BUY"])
             s == Head(pegs["SELL"])
             n == Least(orders[b].quantity, orders[s].quantity)
             g == LaterArrival(b, s)
             o == IF g = b THEN s ELSE b
  <2>1. b \in PegOrders("BUY") /\ s \in PegOrders("SELL") /\ Trade(g, o, n, mid)
    BY <1>2, CrossPegPoolsTrades DEF CrossPegPoolsTrade
  <2>2. pc = "cross" /\ mid # NA
    BY <1>2 DEF CrossPegPools
  <2>3. orders[b].side = "BUY" /\ orders[s].side = "SELL"
    BY <1>0, <2>1, RestingOrders DEF Sides
  <2>4. g \in {b, s}
    BY DEF LaterArrival
  <2>5. orders[g].side # orders[o].side
    BY <2>3, <2>4
  <2> QED BY <2>1, <2>2, <2>5, MidIsPositive DEF Deals
<1>3. ASSUME NEW p \in Price, MatchLit(p)
      PROVE  \E a, h, n, price : Deals(a, h, n, price)
  <2> DEFINE side == Opposite(incomingSide)
             h    == Head(book[side][p])
             n    == Least(orders[incoming].quantity, orders[h].visibleQty)
  <2>1. h \in Range(book[side][p]) /\ Trade(incoming, h, n, p)
    BY <1>3, MatchLitTrades DEF MatchLitTrade
  <2>2. pc = "lit" /\ p \in DOMAIN book[side]
    BY <1>3 DEF MatchLit, IsMatchLevel
  <2>3. incomingSide \in Sides /\ orders[incoming].side = incomingSide
    BY <2>2, IncomingOrder DEF Dealing
  <2>4. side \in Sides /\ side # incomingSide
    BY <2>3 DEF Sides, Opposite
  <2>5. orders[h].side = side
    BY <1>0, <2>1, <2>2, <2>4, RestingOrders
  <2>6. p \in Nat \ {0}
    BY PricesAreNat
  <2> QED BY <2>1, <2>3, <2>4, <2>5, <2>6 DEF Deals
<1> QED BY <1>1, <1>2, <1>3

LEMMA NewOrdersArrive ==
    ASSUME IInv, NEW t \in Tickets, HandleNew(t)
    PROVE  ArrivesAs(t)
<1>1. Arrives /\ Arrive(t) /\ TypeOK
  BY AddOrderArrives DEF HandleNew, AddOrder, AddOrderKilled, IInv
<1>2. incoming' \in Refs' /\ \E ts \in Nat : orders'[incoming'] = NewOrder(t, ts)
  BY <1>1, ArrivalGrowsHeap
<1>3. incoming' \in Nat
  BY <1>1, ArrivalGrowsHeap, HeapHoldsOrders
<1> QED BY <1>1, <1>2, <1>3 DEF ArrivesAs, NewOrder

LEMMA RemainderFinishesAs ==
    ASSUME IInv, RestPeg \/ AddToBook \/ ExpireRemainder \/ NoRemainder
    PROVE  FinishesAs
<1>1. Finishes /\ pc = "rest"
  BY RemainderFinishes DEF Finishes
<1>2. incoming \in Refs /\ orders[incoming] \in OrderRecord /\ TypeOK
  BY <1>1, IncomingOrder DEF Dealing, IInv
<1>3. \A r \in Refs : SameTerms(orders[r], orders[r])
  BY DEF SameTerms
<1> DEFINE order == orders[incoming]
           Changes(o) == /\ orders' = [orders EXCEPT ![incoming] = o]
                         /\ o \in OrderRecord /\ SameTerms(o, order)
<1>4. \/ orders' = orders /\ ~ Remains
      \/ Changes(RefreshDisplay(order)) /\ RefreshDisplay(order).status = order.status
            /\ ~ Remains
      \/ Changes(Expire(order)) /\ Expire(order).status = "EXPIRED" /\ Remains
  <2>1. /\ RefreshDisplay(order) \in OrderRecord /\ SameTerms(RefreshDisplay(order), order)
        /\ RefreshDisplay(order).status = order.status
    BY <1>2, RefreshOrder, OperationsKeepTerms DEF RefreshDisplay, OrderRecord
  <2>2. /\ Expire(order) \in OrderRecord /\ SameTerms(Expire(order), order)
        /\ Expire(order).status = "EXPIRED"
    BY <1>2, OperationsKeepTerms DEF Expire, OrderRecord, Statuses
  <2>3. CASE RestPeg \/ NoRemainder
    BY <2>3 DEF RestPeg, NoRemainder, Remains
  <2>4. CASE AddToBook
    BY <2>4, <2>1 DEF AddToBook, Remains
  <2>5. CASE ExpireRemainder
    BY <2>5, <2>2 DEF ExpireRemainder, Remains
  <2> QED BY <2>3, <2>4, <2>5
<1>5. CASE orders' = orders /\ ~ Remains
  BY <1>1, <1>2, <1>3, <1>5 DEF FinishesAs, TermsStay, Refs
<1>6. ASSUME NEW o, Changes(o), o.status = IF Remains THEN "EXPIRED" ELSE order.status
      PROVE  FinishesAs
  <2>1. /\ Refs' = Refs /\ orders'[incoming] = o
        /\ \A r \in Refs \ {incoming} : orders'[r] = orders[r]
    BY <1>2, <1>6, HeapHoldsOrders, OneOrderChanges DEF Refs, incoming
  <2>2. TermsStay
    BY <2>1, <1>3, <1>6 DEF TermsStay
  <2> QED BY <1>1, <1>2, <1>6, <2>1, <2>2 DEF FinishesAs
<1> HIDE DEF Changes
<1> QED BY <1>4, <1>5, <1>6

LEMMA CancelsAnswer ==
    ASSUME IInv, IndexInv, NEW id \in CancelIds, HandleCancel(id)
    PROVE  Withdraws(id) \/ Refuses(id)
<1>1. Passes
  BY CancelPasses DEF HandleCancel
<1>2. CASE CancelOrder(id)
  <2> DEFINE r == openOrders[id]
             o == Cancel(orders[r])
  <2>1. /\ r \in Refs /\ r \in Resting /\ orders[r].orderID = id /\ TermsStay
        /\ Resting' = Resting \ {r}
    BY <1>2, CancelOrderLeaves DEF NamedOrderLeaves
  <2>2. /\ orders' = [orders EXCEPT ![r] = o] /\ pc = "idle" /\ pc' = "idle"
        /\ reports' = Append(reports, Answer("CANCELLED", id))
    BY <1>2 DEF CancelOrder, Call
  <2>3. o \in OrderRecord /\ o.status = "CANCELLED"
    <3>1. orders[r] \in OrderRecord
      BY <2>1, HeapHoldsOrders DEF IInv
    <3> QED BY <3>1 DEF Cancel, OrderRecord, Statuses
  <2> HIDE DEF r, o
  <2>4. orders'[r] = o /\ \A q \in Refs \ {r} : orders'[q] = orders[q]
    BY <2>1, <2>2, <2>3, HeapHoldsOrders, OneOrderChanges DEF IInv, Refs, incoming
  <2> QED BY <1>1, <2>1, <2>2, <2>3, <2>4 DEF Withdraws
<1>3. CASE CancelOrderRefused(id)
  <2>1. /\ UNCHANGED <<orders, book, pegs>> /\ pc = "idle" /\ pc' = "idle" /\ ~ IsOpen(id)
        /\ reports' = Append(reports, Answer("REJECTED", id))
    BY <1>3 DEF CancelOrderRefused, Call
  <2>2. Resting' = Resting
    BY <2>1 DEF Resting, LitOrders, PegOrders
  <2>3. ASSUME ~ ReuseIds, NEW r \in Resting, orders[r].orderID = id
        PROVE  FALSE
    <3>1. id \in DOMAIN openOrders /\ openOrders[id] \in Resting
      BY <2>3 DEF IndexInv, RegisteredRest
    <3>2. orders[openOrders[id]].quantity > 0
      BY <3>1 DEF IInv, BookHoldsLiveOrders, LitLevelsHoldLiveOrders,
                  PegPoolsHoldLiveOrders, Resting, LitOrders, PegOrders, IsLive
    <3> QED BY <2>1, <3>1, <3>2 DEF IsOpen
  <2> QED BY <1>1, <2>1, <2>2, <2>3 DEF Refuses
<1> QED BY <1>2, <1>3 DEF HandleCancel

\* Every step of the engine is one of these.
LEMMA EveryStepIsAReportStep ==
    IInv /\ IndexInv /\ MidStillCurrent /\ [Next]_vars => ReportStep
<1> SUFFICES ASSUME IInv, IndexInv, MidStillCurrent, [Next]_vars PROVE ReportStep
  OBVIOUS
<1>1. ASSUME NEW t \in Tickets, AddOrder(t) \/ AddOrderKilled(t) PROVE ReportStep
  BY <1>1, NewOrdersArrive DEF HandleNew, ReportStep
<1>2. ASSUME NEW id \in CancelIds, CancelOrder(id) \/ CancelOrderRefused(id)
      PROVE  ReportStep
  BY <1>2, CancelsAnswer DEF HandleCancel, ReportStep
<1>3. CASE MatchPegPool \/ CrossPegPools \/ \E p \in Price : MatchLit(p)
  BY <1>3, LoopsDeal DEF ReportStep
<1>4. CASE RestPeg \/ AddToBook \/ ExpireRemainder \/ NoRemainder
  BY <1>4, RemainderFinishesAs DEF ReportStep
<1>5. CASE MatchPegPoolEnds \/ MatchLitEnds \/ CrossPegPoolsEnds \/ UNCHANGED vars
  <2>1. /\ UNCHANGED <<orders, book, pegs, trades, reports>> /\ (Dealing' <=> Dealing)
        /\ pc # "idle" \/ pc' = "idle"
    BY <1>5 DEF MatchPegPoolEnds, MatchLitEnds, CrossPegPoolsEnds, Return, vars, books,
                Dealing
  <2>2. Resting' = Resting
    BY <2>1 DEF Resting, LitOrders, PegOrders
  <2> QED BY <2>1, <2>2 DEF ReportStep, Idles, Passes, Refs, incoming
<1> QED BY <1>1, <1>2, <1>3, <1>4, <1>5 DEF Next, Continue, Exhausted

LEMMA ReportStepsAreLedgerSteps == ReportStep => LedgerStep
BY DEF ReportStep, Deals, ArrivesAs, FinishesAs, Withdraws, Refuses, Idles, LedgerStep

-----------------------------------------------------------------------------
(* What was left of an order when the n-th report was made, whatever has   *)
(* happened since.                                                         *)

Left(r, n) == orders[r].quantity + QuantityIn(reports, LaterFills(r, n))

LEMMA ReportsHaveTypes ==
    ASSUME TypeOK
    PROVE  \A i \in DOMAIN reports : reports[i] \in ReportRecord \cup AnswerRecord
BY DEF TypeOK

\* Only a trade reports a fill.
LEMMA OtherReports ==
    ASSUME Arrives \/ Finishes \/ Passes
    PROVE  reports' = reports \/ \E e : /\ reports' = Append(reports, e)
                                        /\ e.kind \in ReportKinds /\ e.kind # "FILL"
<1>1. \A kind, r, other, price, quantity, remaining :
         Report(kind, r, other, price, quantity, remaining).kind = kind
  BY DEF Report
<1>2. \A kind, id : Answer(kind, id).kind = kind
  BY DEF Answer
<1>3. CASE Arrives
  BY <1>1, <1>3 DEF Arrives, ReportKinds
<1>4. CASE Finishes
  BY <1>1, <1>4 DEF Finishes, ReportKinds
<1>5. CASE Passes
  BY <1>2, <1>5 DEF Passes, ReportKinds
<1> QED BY <1>3, <1>4, <1>5

LEMMA LaterFillsAre ==
    ASSUME TypeOK, StoryInv, NEW r, NEW n
    PROVE  /\ LaterFills(r, n) \subseteq DOMAIN reports /\ IsFiniteSet(LaterFills(r, n))
           /\ \A i \in LaterFills(r, n) : reports[i].quantity \in Nat
           /\ QuantityIn(reports, LaterFills(r, n)) \in Nat
<1>1. IsFiniteSet(LaterFills(r, n)) /\ LaterFills(r, n) \subseteq DOMAIN reports
  <2>1. PICK S : reports \in Seq(S)
    BY DEF TypeOK
  <2>2. \A T \in SUBSET (DOMAIN reports) : IsFiniteSet(T)
    BY <2>1, OneMoreElement
  <2> QED BY <2>2 DEF LaterFills
<1>2. \A i \in LaterFills(r, n) : reports[i].quantity \in Nat
  BY DEF StoryInv, LaterFills
<1> QED BY <1>1, <1>2, QuantityInIsNatural

\* No less is left before than after.
LEMMA LeftIsEnough ==
    ASSUME TypeOK, StoryInv, NEW r \in Refs, NEW n
    PROVE  Left(r, n) \in Nat /\ orders[r].quantity \in Nat /\ orders[r].quantity <= Left(r, n)
<1>1. orders[r].quantity \in Nat
  BY HeapHoldsOrders, OrderFields
<1> QED BY <1>1, LaterFillsAre DEF Left

LEMMA ReportsAreNumbered ==
    ASSUME TypeOK
    PROVE  Len(reports) \in Nat /\ DOMAIN reports = 1 .. Len(reports)
BY DEF TypeOK

\* After the last report there is what there is.
LEMMA LeftAtTheEnd ==
    ASSUME TypeOK, NEW r \in Refs
    PROVE  Left(r, Len(reports)) = orders[r].quantity
<1>1. LaterFills(r, Len(reports)) = {}
  BY ReportsAreNumbered DEF LaterFills
<1>2. orders[r].quantity \in Nat
  BY HeapHoldsOrders, OrderFields
<1> QED BY <1>1, <1>2, QuantityInNothing DEF Left

Names(report, r) == report.kind = "FILL" /\ r \in {report.order, report.passive}

\* A fill takes its quantity from the two orders it names, any other report nothing.
LEMMA LeftAfterOneMore ==
    ASSUME TypeOK, StoryInv, NEW r \in Refs, NEW n \in Nat, n < Len(reports)
    PROVE  /\ n + 1 \in DOMAIN reports
           /\ Names(reports[n + 1], r) =>
                 /\ reports[n + 1].quantity \in Nat
                 /\ Left(r, n) = Left(r, n + 1) + reports[n + 1].quantity
           /\ ~ Names(reports[n + 1], r) => Left(r, n) = Left(r, n + 1)
<1> DEFINE k == n + 1
           S == LaterFills(r, k)
           T == LaterFills(r, n)
<1>1. /\ k \in DOMAIN reports /\ \A i \in DOMAIN reports : i > n <=> i = k \/ i > k
      /\ ~ (k > k)
  BY ReportsAreNumbered
<1>2. /\ IsFiniteSet(S) /\ \A i \in S : reports[i].quantity \in Nat
      /\ QuantityIn(reports, S) \in Nat
  BY LaterFillsAre
<1>3. orders[r].quantity \in Nat
  BY HeapHoldsOrders, OrderFields
<1> HIDE DEF k
<1>4. T = IF Names(reports[k], r) THEN S \cup {k} ELSE S
  BY <1>1 DEF LaterFills, Names
<1>5. k \notin S
  BY <1>1 DEF LaterFills
<1>6. ASSUME Names(reports[k], r)
      PROVE  reports[k].quantity \in Nat /\ Left(r, n) = Left(r, k) + reports[k].quantity
  <2>1. T = S \cup {k}
    BY <1>4, <1>6
  <2>2. reports[k].quantity \in Nat
    BY <1>1, <1>6 DEF Names, StoryInv
  <2> HIDE DEF S, T
  <2>3. QuantityIn(reports, S \cup {k}) = QuantityIn(reports, S) + reports[k].quantity
    <3>1. \A i \in S \cup {k} : reports[i].quantity \in Int
      BY <1>2, <2>2
    <3> QED BY <1>2, <1>5, <3>1, QuantityInOneMore
  <2> QED BY <1>2, <1>3, <2>1, <2>2, <2>3 DEF Left, S, T
<1>7. ASSUME ~ Names(reports[k], r)
      PROVE  Left(r, n) = Left(r, k)
  BY <1>4, <1>7 DEF Left
<1> QED BY <1>1, <1>6, <1>7 DEF k

\* Whatever the engine does, it does not change what was left then.
LEMMA LeftStays ==
    ASSUME IInv, StoryInv, LedgerStep, NEW r \in Refs, NEW n \in 0 .. Len(reports)
    PROVE  Left(r, n)' = Left(r, n)
<1> DEFINE k == Len(reports) + 1
           T == LaterFills(r, n)
<1>0. TypeOK
  BY DEF IInv
<1>1. /\ T \subseteq DOMAIN reports /\ IsFiniteSet(T)
      /\ \A i \in T : reports[i].quantity \in Nat
      /\ QuantityIn(reports, T) \in Nat /\ orders[r].quantity \in Nat
  BY <1>0, LaterFillsAre, LeftIsEnough
<1>2. Left(r, n)' = orders'[r].quantity + QuantityIn(reports', LaterFills(r, n)')
  BY DEF Left, QuantityIn, MapThenSumSet, MapThenFoldSet
<1>3. LaterFills(r, n)' = {i \in DOMAIN reports' : /\ i > n /\ reports'[i].kind = "FILL"
                              /\ r \in {reports'[i].order, reports'[i].passive}}
  BY DEF LaterFills
<1>4. k > n
  BY <1>0, ReportsAreNumbered
<1>5. ASSUME NEW e, e.kind \in ReportKinds, reports' = Append(reports, e)
      PROVE  /\ QuantityIn(reports', T) = QuantityIn(reports, T)
             /\ reports'[k] = e /\ k \notin T
             /\ LaterFills(r, n)' = IF Names(e, r) THEN T \cup {k} ELSE T
  <2>1. /\ DOMAIN reports' = DOMAIN reports \cup {k} /\ reports'[k] = e
        /\ k \notin DOMAIN reports /\ \A i \in DOMAIN reports : reports'[i] = reports[i]
    BY <1>0, <1>5, ReportAdded
  <2> HIDE DEF k
  <2>2. LaterFills(r, n)' = IF Names(e, r) THEN T \cup {k} ELSE T
    BY <1>3, <1>4, <2>1 DEF LaterFills, Names
  <2> HIDE DEF T
  <2>3. QuantityIn(reports', T) = QuantityIn(reports, T)
    BY <1>1, <2>1, QuantityInTheSame
  <2> QED BY <1>1, <2>1, <2>2, <2>3
<1>6. ASSUME NEW a, NEW h, NEW q, NEW price, Trade(a, h, q, price)
      PROVE  Left(r, n)' = Left(r, n)
  <2> DEFINE e == Report("FILL", a, h, price, q, orders[a].quantity - q)
  <2>1. /\ reports' = Append(reports, e) /\ e.quantity = q
        /\ e.kind \in ReportKinds /\ e.kind = "FILL" /\ e.order = a /\ e.passive = h
    BY <1>6 DEF Trade, Execute, Report, ReportKinds
  <2> HIDE DEF e
  <2>2. q \in Nat /\ orders'[r].quantity = IF r \in {a, h} THEN orders[r].quantity - q
                                                         ELSE orders[r].quantity
    BY <1>6 DEF Trade
  <2>3. /\ QuantityIn(reports', T) = QuantityIn(reports, T) /\ reports'[k] = e /\ k \notin T
        /\ LaterFills(r, n)' = IF Names(e, r) THEN T \cup {k} ELSE T
    BY <1>5, <2>1
  <2> HIDE DEF k, T
  <2>4. CASE Names(e, r)
    <3>1. \A i \in T \cup {k} : reports'[i].quantity \in Int
      <4>1. T \subseteq DOMAIN reports /\ \A i \in DOMAIN reports : reports'[i] = reports[i]
        BY <1>0, <1>1, <2>1, ReportAdded
      <4>2. \A i \in T : reports'[i] = reports[i]
        BY <4>1
      <4>3. \A i \in T : reports'[i].quantity \in Int
        BY <1>1, <4>2
      <4>4. reports'[k].quantity \in Int
        BY <2>1, <2>2, <2>3
      <4> QED BY <4>3, <4>4
    <3>2. QuantityIn(reports', T \cup {k}) = QuantityIn(reports', T) + reports'[k].quantity
      BY <1>1, <2>3, <3>1, QuantityInOneMore
    <3> QED BY <1>1, <1>2, <2>1, <2>2, <2>3, <2>4, <3>2 DEF Left, Names, T
  <2>5. CASE ~ Names(e, r)
    BY <1>2, <2>1, <2>2, <2>3, <2>5 DEF Left, Names, T
  <2> QED BY <2>4, <2>5
<1>7. CASE Arrives \/ Finishes \/ Passes
  <2>1. orders'[r].quantity = orders[r].quantity
    BY <1>7 DEF Arrives, Finishes, Passes
  <2>2. CASE reports' = reports
    <3>1. LaterFills(r, n)' = T
      BY <2>2, <1>3 DEF LaterFills
    <3> QED BY <1>2, <2>1, <2>2, <3>1 DEF Left
  <2>3. ASSUME NEW e, reports' = Append(reports, e), e.kind \in ReportKinds, e.kind # "FILL"
        PROVE  Left(r, n)' = Left(r, n)
    <3>1. QuantityIn(reports', T) = QuantityIn(reports, T) /\ LaterFills(r, n)' = T
      BY <1>5, <2>3 DEF Names
    <3> QED BY <1>2, <2>1, <3>1 DEF Left
  <2>4. reports' = reports \/ \E e : /\ reports' = Append(reports, e)
                                     /\ e.kind \in ReportKinds /\ e.kind # "FILL"
    BY <1>7, OtherReports
  <2> QED BY <2>2, <2>3, <2>4
<1> QED BY <1>6, <1>7 DEF LedgerStep

\* Nothing has been traded of an order that is new.
LEMMA AllIsLeftAtFirst ==
    ASSUME IInv, Arrives, NEW new \in Nat, new = incoming', NEW n
    PROVE  LaterFills(new, n)' = {}
<1>1. TypeOK /\ new \notin Refs
  BY DEF IInv, Arrives
<1>2. \A i \in DOMAIN reports' : reports'[i].kind = "FILL" =>
         reports'[i].order \in Refs /\ reports'[i].passive \in Refs \cup {NA}
  <2>1. \A i \in DOMAIN reports : reports[i].kind = "FILL" =>
           reports[i].order \in Refs /\ reports[i].passive \in Refs \cup {NA}
    BY <1>1, ReportsHaveTypes DEF ReportRecord, AnswerRecord
  <2>2. CASE reports' = reports
    BY <2>1, <2>2
  <2>3. ASSUME NEW e, reports' = Append(reports, e), e.kind \in ReportKinds, e.kind # "FILL"
        PROVE  \A i \in DOMAIN reports' : reports'[i].kind = "FILL" =>
                  reports'[i].order \in Refs /\ reports'[i].passive \in Refs \cup {NA}
    BY <1>1, <2>1, <2>3, ReportAdded
  <2> QED BY <2>2, <2>3, OtherReports
<1>3. new # NA
  BY DEF NA
<1> QED BY <1>1, <1>2, <1>3 DEF LaterFills

LEMMA LeftAtTheNewEnd ==
    ASSUME TypeOK', NEW r \in Refs', NEW k, k = Len(reports')
    PROVE  Left(r, k)' = orders'[r].quantity
<1>1. LaterFills(r, k)' = {i \in DOMAIN reports' : /\ i > k /\ reports'[i].kind = "FILL"
                              /\ r \in {reports'[i].order, reports'[i].passive}}
  BY DEF LaterFills
<1>2. Len(reports') \in Nat /\ DOMAIN reports' = 1 .. Len(reports')
  BY DEF TypeOK
<1>3. LaterFills(r, k)' = {}
  BY <1>1, <1>2
<1>4. orders'[r].quantity \in Nat
  <2>1. orders' \in Seq(OrderRecord) /\ Refs' = DOMAIN orders'
    BY DEF TypeOK, Refs
  <2>2. orders'[r] \in OrderRecord
    BY <2>1
  <2> QED BY <2>2, OrderFields
<1>5. Left(r, k)' = orders'[r].quantity + QuantityIn(reports', LaterFills(r, k)')
  BY DEF Left, QuantityIn, MapThenSumSet, MapThenFoldSet
<1> QED BY <1>3, <1>4, <1>5, QuantityInNothing

-----------------------------------------------------------------------------
(* Each report is true when it is made, and stays true of that moment.     *)

OrderReports == {"FILL", "ACCEPTED", "EXPIRED"}

\* A report says what is left of its order; a fill is between a buy and a sell, of
\* something, at a price.
ReportsAreTrue ==
    \A j \in DOMAIN reports :
        /\ reports[j].kind \in OrderReports =>
              /\ reports[j].order \in Refs
              /\ reports[j].remaining = Left(reports[j].order, j)
        /\ reports[j].kind = "FILL" =>
              /\ reports[j].passive \in Refs /\ reports[j].passive # reports[j].order
              /\ orders[reports[j].order].side # orders[reports[j].passive].side
              /\ reports[j].quantity \in Nat \ {0} /\ reports[j].price \in Nat \ {0}

\* The report a step makes.
LEMMA NewReportIsTrue ==
    ASSUME ReportStep, TermsStay
    PROVE  \/ reports' = reports
           \/ \E e : /\ reports' = Append(reports, e) /\ e.kind \in ReportKinds
                     /\ e.kind \in OrderReports =>
                           e.order \in Refs' /\ e.remaining = orders'[e.order].quantity
                     /\ e.kind = "FILL" =>
                           /\ e.passive \in Refs' /\ e.passive # e.order
                           /\ orders'[e.order].side # orders'[e.passive].side
                           /\ e.quantity \in Nat \ {0} /\ e.price \in Nat \ {0}
<1>1. ASSUME NEW a, NEW h, NEW n, NEW price, Deals(a, h, n, price)
      PROVE  \E e : /\ reports' = Append(reports, e) /\ e.kind \in ReportKinds
                    /\ e.kind \in OrderReports =>
                          e.order \in Refs' /\ e.remaining = orders'[e.order].quantity
                    /\ e.kind = "FILL" =>
                          /\ e.passive \in Refs' /\ e.passive # e.order
                          /\ orders'[e.order].side # orders'[e.passive].side
                          /\ e.quantity \in Nat \ {0} /\ e.price \in Nat \ {0}
  <2> DEFINE e == Report("FILL", a, h, price, n, orders[a].quantity - n)
  <2>1. /\ e.kind = "FILL" /\ e.order = a /\ e.passive = h /\ e.quantity = n
        /\ e.price = price /\ e.remaining = orders[a].quantity - n
    BY DEF Report
  <2>2. /\ reports' = Append(reports, e) /\ a \in Refs /\ h \in Refs /\ Refs' = Refs /\ a # h
        /\ orders'[a].quantity = orders[a].quantity - n
        /\ n \in Nat \ {0} /\ price \in Nat \ {0} /\ orders[a].side # orders[h].side
    BY <1>1 DEF Deals, Trade, Execute
  <2>3. orders'[a].side = orders[a].side /\ orders'[h].side = orders[h].side
    BY <2>2 DEF TermsStay, SameTerms
  <2> HIDE DEF e
  <2> QED BY <2>1, <2>2, <2>3 DEF ReportKinds
<1>2. ASSUME NEW t \in Tickets, ArrivesAs(t)
      PROVE  \/ reports' = reports
             \/ \E e : /\ reports' = Append(reports, e) /\ e.kind = "EXPIRED"
                       /\ e.order \in Refs' /\ e.remaining = orders'[e.order].quantity
  <2> DEFINE e == Report("EXPIRED", incoming', NA, NA, NA, orders'[incoming'].quantity)
  <2>1. /\ e.kind = "EXPIRED" /\ e.order = incoming'
        /\ e.remaining = orders'[incoming'].quantity
    BY DEF Report
  <2>2. reports' = reports \/ reports' = Append(reports, e)
    BY <1>2 DEF ArrivesAs, Arrives
  <2>3. incoming' \in Refs'
    BY <1>2 DEF ArrivesAs
  <2> HIDE DEF e
  <2> QED BY <2>1, <2>2, <2>3
<1>3. ASSUME FinishesAs
      PROVE  \/ reports' = reports
             \/ \E e : /\ reports' = Append(reports, e) /\ e.kind \in {"EXPIRED", "ACCEPTED"}
                       /\ e.order \in Refs' /\ e.remaining = orders'[e.order].quantity
  <2> DEFINE x == Report("EXPIRED", incoming, NA, NA, NA, orders[incoming].quantity)
             y == Report("ACCEPTED", incoming, NA, orders[incoming].price, NA,
                         orders[incoming].quantity)
  <2>1. /\ x.kind = "EXPIRED" /\ x.order = incoming
        /\ x.remaining = orders[incoming].quantity
        /\ y.kind = "ACCEPTED" /\ y.order = incoming
        /\ y.remaining = orders[incoming].quantity
    BY DEF Report
  <2>2. reports' = reports \/ reports' = Append(reports, x) \/ reports' = Append(reports, y)
    BY <1>3 DEF FinishesAs, Finishes
  <2>3. /\ incoming \in Refs' /\ orders'[incoming].quantity = orders[incoming].quantity
    BY <1>3 DEF FinishesAs, Finishes
  <2> HIDE DEF x, y
  <2> QED BY <2>1, <2>2, <2>3
<1>4. ASSUME NEW id, Withdraws(id) \/ Refuses(id)
      PROVE  \E e : reports' = Append(reports, e) /\ e.kind \in {"CANCELLED", "REJECTED"}
  <2>1. \A kind : Answer(kind, id).kind = kind
    BY DEF Answer
  <2> QED BY <1>4, <2>1 DEF Withdraws, Refuses
<1>5. Idles => reports' = reports
  BY DEF Idles
<1> QED BY <1>1, <1>2, <1>3, <1>4, <1>5 DEF ReportStep, ReportKinds, OrderReports

LEMMA StepsKeepReportsTrue ==
    ASSUME IInv, TypeOK', StoryInv, ReportsAreTrue, ReportStep, TermsStay
    PROVE  ReportsAreTrue'
<1>0. TypeOK /\ LedgerStep
  BY ReportStepsAreLedgerSteps DEF IInv
<1>1. ASSUME NEW j \in DOMAIN reports
      PROVE  LET e == reports[j]
             IN  /\ e.kind \in OrderReports =>
                       /\ e.order \in Refs'
                       /\ \A r \in Refs : r = e.order => e.remaining = Left(r, j)'
                 /\ e.kind = "FILL" =>
                       /\ e.passive \in Refs' /\ e.passive # e.order
                       /\ orders'[e.order].side # orders'[e.passive].side
                       /\ e.quantity \in Nat \ {0} /\ e.price \in Nat \ {0}
  <2>1. j \in 0 .. Len(reports)
    BY <1>0, ReportsAreNumbered
  <2>2. \A r \in Refs : Left(r, j)' = Left(r, j) /\ r \in Refs'
                        /\ orders'[r].side = orders[r].side
    BY <1>0, <2>1, LeftStays DEF TermsStay, SameTerms
  <2>3. /\ reports[j].kind \in OrderReports =>
              /\ reports[j].order \in Refs
              /\ reports[j].remaining = Left(reports[j].order, j)
        /\ reports[j].kind = "FILL" =>
              /\ reports[j].passive \in Refs /\ reports[j].passive # reports[j].order
              /\ orders[reports[j].order].side # orders[reports[j].passive].side
              /\ reports[j].quantity \in Nat \ {0} /\ reports[j].price \in Nat \ {0}
    BY DEF ReportsAreTrue
  <2>4. reports[j].kind = "FILL" => reports[j].kind \in OrderReports
    BY DEF OrderReports
  <2> QED BY <2>2, <2>3, <2>4
<1>2. ReportsAreTrue' <=>
         \A j \in DOMAIN reports' :
            /\ reports'[j].kind \in OrderReports =>
                  /\ reports'[j].order \in Refs'
                  /\ \A r \in Refs' : r = reports'[j].order =>
                        reports'[j].remaining = Left(r, j)'
            /\ reports'[j].kind = "FILL" =>
                  /\ reports'[j].passive \in Refs' /\ reports'[j].passive # reports'[j].order
                  /\ orders'[reports'[j].order].side # orders'[reports'[j].passive].side
                  /\ reports'[j].quantity \in Nat \ {0} /\ reports'[j].price \in Nat \ {0}
  BY DEF ReportsAreTrue, OrderReports
<1>3. \A j \in DOMAIN reports : reports[j].kind \in OrderReports => reports[j].order \in Refs
  BY DEF ReportsAreTrue
<1>4. CASE reports' = reports
  BY <1>1, <1>2, <1>3, <1>4
<1>5. ASSUME NEW e, reports' = Append(reports, e), e.kind \in ReportKinds,
             e.kind \in OrderReports =>
                e.order \in Refs' /\ e.remaining = orders'[e.order].quantity,
             e.kind = "FILL" =>
                /\ e.passive \in Refs' /\ e.passive # e.order
                /\ orders'[e.order].side # orders'[e.passive].side
                /\ e.quantity \in Nat \ {0} /\ e.price \in Nat \ {0}
      PROVE  ReportsAreTrue'
  <2>0. PICK k : k = Len(reports) + 1
    OBVIOUS
  <2>1. /\ DOMAIN reports' = DOMAIN reports \cup {k} /\ reports'[k] = e
        /\ k \notin DOMAIN reports /\ \A i \in DOMAIN reports : reports'[i] = reports[i]
    BY <1>0, <1>5, <2>0, ReportAdded
  <2>2. k = Len(reports')
    BY <1>0, <1>5, <2>0 DEF TypeOK
  <2>3. \A r \in Refs' : Left(r, k)' = orders'[r].quantity
    BY <2>2, LeftAtTheNewEnd
  <2> QED BY <1>1, <1>2, <1>3, <1>5, <2>1, <2>3
<1> QED BY <1>4, <1>5, NewReportIsTrue

-----------------------------------------------------------------------------
(* An order's status follows what is left of it, and an order that is over *)
(* was reported to be.                                                     *)

\* The running call deals with this order.
Busy(r) == Dealing /\ r = incoming

Ended(r) ==
    \E j \in DOMAIN reports :
        \/ reports[j].kind = "EXPIRED" /\ reports[j].order = r
        \/ reports[j].kind = "CANCELLED" /\ reports[j].id = orders[r].orderID

StatusIsTrue(r) ==
    /\ orders[r].quantity <= orders[r].orderQty
    /\ orders[r].quantity = 0 <=> orders[r].status = "FILLED"
    /\ orders[r].status = "OPEN" => orders[r].quantity = orders[r].orderQty
    /\ orders[r].status = "PARTIALLY_FILLED" => orders[r].quantity < orders[r].orderQty
    /\ orders[r].status \in {"CANCELLED", "EXPIRED"} => r \notin Resting /\ ~ Busy(r)
    /\ orders[r].status = "CANCELLED" => orders[r].tif = "GTC"
    /\ r \notin Resting /\ ~ Busy(r) /\ orders[r].quantity > 0 => Ended(r)

\* A fill-or-kill order that was killed stays OPEN.
IsExpired(r) ==
    /\ orders[r].quantity > 0 /\ r \notin Resting /\ ~ Busy(r)
    /\ \/ orders[r].status = "EXPIRED"
       \/ orders[r].tif = "FOK" /\ (pc = "idle" \/ r # incoming)

EndIsTrue(j) ==
    /\ reports[j].kind = "CANCELLED" =>
          \E r \in Refs : orders[r].orderID = reports[j].id /\ orders[r].status = "CANCELLED"
    /\ reports[j].kind = "EXPIRED" =>
          \E r \in Refs : r = reports[j].order /\ IsExpired(r)

StatusInv == /\ \A r \in Refs : StatusIsTrue(r)
             /\ \A j \in DOMAIN reports : EndIsTrue(j)

\* What is there in the heap.
LEMMA StatusTypes ==
    ASSUME TypeOK, NEW r \in Refs
    PROVE  /\ orders[r].quantity \in Nat /\ orders[r].orderQty \in Nat
           /\ orders[r].status \in Statuses
<1>1. orders[r] \in OrderRecord
  BY HeapHoldsOrders
<1> QED BY <1>1 DEF OrderRecord

LEMMA EndedStays ==
    ASSUME TypeOK, TermsStay, NEW r \in Refs, Ended(r),
           \/ reports' = reports
           \/ \E e : reports' = Append(reports, e) /\ e.kind \in ReportKinds
    PROVE  Ended(r)'
<1>1. /\ DOMAIN reports \subseteq DOMAIN reports'
      /\ \A j \in DOMAIN reports : reports'[j] = reports[j]
  <2>1. ASSUME NEW e, reports' = Append(reports, e), e.kind \in ReportKinds
        PROVE  /\ DOMAIN reports \subseteq DOMAIN reports'
               /\ \A j \in DOMAIN reports : reports'[j] = reports[j]
    BY <2>1, ReportAdded
  <2> QED BY <2>1
<1>2. orders'[r].orderID = orders[r].orderID
  BY DEF TermsStay, SameTerms
<1> QED BY <1>1, <1>2 DEF Ended

LEMMA TradeKeepsStatus ==
    ASSUME IInv, StatusInv, NEW a, NEW h, NEW n, NEW price, Deals(a, h, n, price)
    PROVE  StatusInv'
<1> DEFINE e == Report("FILL", a, h, price, n, orders[a].quantity - n)
<1>1. Trade(a, h, n, price) /\ TypeOK
  BY DEF Deals, IInv
<1>2. /\ a \in Refs /\ h \in Refs /\ Refs' = Refs /\ TermsStay
      /\ n \in Nat \ {0} /\ n <= orders[a].quantity /\ n <= orders[h].quantity
      /\ \A r \in {a, h} : /\ r \in Resting \/ Busy(r)
                           /\ orders'[r].quantity = orders[r].quantity - n
                           /\ orders'[r].status = FilledStatus(orders[r], n)
      /\ \A r \in Refs \ {a, h} : orders'[r] = orders[r]
  BY <1>1, StatusTypes DEF Trade, Busy
<1>3. pc' = pc /\ incoming' = incoming /\ \A r : Busy(r)' <=> Busy(r)
  BY <1>1 DEF Trade, Busy, Dealing
<1>4. \A r \in Refs : r \in Resting' <=>
         r \in Resting /\ ~ (r \in {a, h} /\ orders[r].quantity = n)
  BY <1>1, TradeLeavesResting DEF Gone
<1>5. reports' = Append(reports, e) /\ e.kind = "FILL" /\ e.kind \in ReportKinds
  BY <1>1 DEF Trade, Execute, Report, ReportKinds
<1> HIDE DEF e
<1>6. \A r \in Refs : Ended(r) => Ended(r)'
  BY <1>1, <1>2, <1>5, EndedStays
<1>7. ASSUME NEW r \in Refs
      PROVE  StatusIsTrue(r)'
  <2>1. StatusIsTrue(r) /\ orders[r].quantity \in Nat /\ orders[r].orderQty \in Nat
    BY <1>1, StatusTypes DEF StatusInv
  <2>2. orders'[r].orderQty = orders[r].orderQty /\ orders'[r].tif = orders[r].tif
    BY <1>2 DEF TermsStay, SameTerms
  <2>3. CASE r \in {a, h}
    <3>1. /\ orders'[r].quantity = orders[r].quantity - n /\ n <= orders[r].quantity
          /\ orders'[r].status = IF orders[r].quantity = n THEN "FILLED"
                                                           ELSE "PARTIALLY_FILLED"
      BY <1>2, <2>3 DEF FilledStatus
    <3>2. r \notin Resting' /\ ~ Busy(r)' => orders[r].quantity = n
      BY <1>2, <1>3, <1>4, <2>3
    <3> QED BY <1>2, <2>1, <2>2, <3>1, <3>2 DEF StatusIsTrue
  <2>4. CASE r \notin {a, h}
    BY <1>2, <1>3, <1>4, <1>6, <2>1, <2>4 DEF StatusIsTrue
  <2> QED BY <2>3, <2>4
<1>8. ASSUME NEW j \in DOMAIN reports'
      PROVE  EndIsTrue(j)'
  <2>1. /\ reports'[j].kind # "FILL" => j \in DOMAIN reports /\ reports'[j] = reports[j]
    BY <1>1, <1>5, ReportAdded
  <2>2. \A r \in Refs : IsExpired(r) => IsExpired(r)'
    BY <1>2, <1>3, <1>4 DEF IsExpired
  <2>3. \A r \in Refs : orders[r].status = "CANCELLED" => orders'[r] = orders[r]
    BY <1>2 DEF StatusInv, StatusIsTrue
  <2>4. j \in DOMAIN reports => EndIsTrue(j)
    BY DEF StatusInv
  <2> QED BY <1>2, <2>1, <2>2, <2>3, <2>4 DEF EndIsTrue
<1> QED BY <1>2, <1>7, <1>8 DEF StatusInv

LEMMA ArrivalKeepsStatus ==
    ASSUME IInv, StatusInv, TermsStay, NEW t \in Tickets, ArrivesAs(t)
    PROVE  StatusInv'
<1>0. PICK new : new = incoming'
  OBVIOUS
<1> DEFINE e == Report("EXPIRED", incoming', NA, NA, NA, orders'[incoming'].quantity)
<1>1. /\ TypeOK /\ Refs' = Refs \cup {new} /\ new \notin Refs /\ Resting' = Resting
      /\ \A r \in Refs : orders'[r] = orders[r]
      /\ orders'[new].quantity = orders'[new].orderQty /\ orders'[new].status = "OPEN"
      /\ orders'[new].quantity \in Nat \ {0} /\ pc = "idle"
      /\ \/ Dealing' /\ reports' = reports
         \/ pc' = "idle" /\ orders'[new].tif = "FOK" /\ reports' = Append(reports, e)
  BY <1>0 DEF IInv, ArrivesAs, Arrives
<1>2. e.kind = "EXPIRED" /\ e.order = new /\ e.kind \in ReportKinds
  BY <1>0 DEF Report, ReportKinds
<1> HIDE DEF e
<1>3. new \notin Resting /\ \A r \in Refs : ~ Busy(r) /\ ~ Busy(r)' /\ r # incoming'
  <2>1. Resting \subseteq Refs
    <3>1. \A r \in Resting : \E s \in Sides : r \in LitOrders(s) \/ r \in PegOrders(s)
      BY DEF Resting
    <3> QED BY <1>1, <3>1, RestingOrders DEF IInv, LitOrders
  <2> QED BY <1>0, <1>1, <2>1 DEF Busy, Dealing
<1>4. \A r \in Refs : Ended(r) => Ended(r)'
  BY <1>1, <1>2, EndedStays
<1>5. ASSUME NEW r \in Refs'
      PROVE  StatusIsTrue(r)'
  <2>1. CASE r \in Refs
    BY <1>1, <1>3, <1>4, <2>1 DEF StatusInv, StatusIsTrue
  <2>2. CASE r = new
    <3>1. Busy(r)' \/ Ended(r)'
      <4>1. CASE Dealing'
        BY <1>0, <2>2, <4>1 DEF Busy
      <4>2. CASE reports' = Append(reports, e)
        <5>1. \E j \in DOMAIN reports' : reports'[j] = e
          BY <1>1, <1>2, <4>2, ReportAdded
        <5> QED BY <1>2, <2>2, <5>1 DEF Ended
      <4> QED BY <1>1, <4>1, <4>2
    <3> QED BY <1>1, <1>3, <2>2, <3>1 DEF StatusIsTrue
  <2> QED BY <1>1, <2>1, <2>2
<1>6. ASSUME NEW j \in DOMAIN reports'
      PROVE  EndIsTrue(j)'
  <2>1. \/ j \in DOMAIN reports /\ reports'[j] = reports[j]
        \/ reports'[j] = e /\ pc' = "idle" /\ orders'[new].tif = "FOK"
    BY <1>1, <1>2, ReportAdded
  <2>2. \A r \in Refs : IsExpired(r) => IsExpired(r)'
    BY <1>1, <1>3 DEF IsExpired
  <2>3. CASE j \in DOMAIN reports /\ reports'[j] = reports[j]
    BY <1>1, <2>2, <2>3 DEF StatusInv, EndIsTrue
  <2>4. CASE reports'[j] = e /\ pc' = "idle" /\ orders'[new].tif = "FOK"
    <3>1. IsExpired(new)'
      BY <1>1, <1>3, <2>4 DEF IsExpired, Busy, Dealing
    <3> QED BY <1>1, <1>2, <2>4, <3>1 DEF EndIsTrue
  <2> QED BY <2>1, <2>3, <2>4
<1> QED BY <1>5, <1>6 DEF StatusInv

LEMMA FinishKeepsStatus ==
    ASSUME IInv, StatusInv, FinishesAs
    PROVE  StatusInv'
<1> DEFINE x == Report("EXPIRED", incoming, NA, NA, NA, orders[incoming].quantity)
           y == Report("ACCEPTED", incoming, NA, orders[incoming].price, NA,
                       orders[incoming].quantity)
<1>1. /\ TypeOK /\ Refs' = Refs /\ incoming' = incoming /\ incoming \in Refs /\ TermsStay
      /\ pc = "rest" /\ ~ Dealing' /\ Dealing
      /\ \A r \in Refs : orders'[r].quantity = orders[r].quantity
      /\ \A r \in Refs : orders'[r].status =
            IF r = incoming /\ Remains THEN "EXPIRED" ELSE orders[r].status
  BY DEF IInv, FinishesAs, Finishes, Dealing
<1>2. /\ x.kind = "EXPIRED" /\ x.order = incoming /\ x.kind \in ReportKinds
      /\ y.kind = "ACCEPTED" /\ y.order = incoming /\ y.kind \in ReportKinds
  BY DEF Report, ReportKinds
<1>3. \/ orders[incoming].quantity = 0 /\ reports' = reports /\ Resting' = Resting
      \/ Remains /\ Resting' = Resting /\ reports' = Append(reports, x)
      \/ /\ orders[incoming].quantity > 0 /\ ~ Remains
         /\ Resting' = Resting \cup {incoming} /\ reports' = Append(reports, y)
  BY DEF FinishesAs, Finishes, Remains
<1> HIDE DEF x, y
<1>4. incoming \notin Resting /\ Busy(incoming)
  BY <1>1, IncomingOrder DEF Busy
<1>5. \A r \in Refs : Ended(r) => Ended(r)'
  BY <1>1, <1>2, <1>3, EndedStays
<1>6. \A r \in Refs : orders'[r].tif = orders[r].tif /\ orders'[r].orderQty = orders[r].orderQty
                      /\ orders'[r].orderID = orders[r].orderID
  BY <1>1 DEF TermsStay, SameTerms
<1>7. \A r : ~ Busy(r)'
  BY <1>1 DEF Busy
<1>8. ASSUME NEW r \in Refs
      PROVE  StatusIsTrue(r)'
  <2>1. StatusIsTrue(r) /\ orders[r].quantity \in Nat
    BY <1>1, StatusTypes DEF StatusInv
  <2>2. CASE r # incoming
    <3>1. /\ orders'[r].status = orders[r].status /\ (r \in Resting' <=> r \in Resting)
          /\ ~ Busy(r)
      BY <1>1, <1>3, <2>2 DEF Busy
    <3> QED BY <1>1, <1>5, <1>6, <1>7, <2>1, <3>1 DEF StatusIsTrue
  <2>3. CASE r = incoming
    <3>1. CASE orders[r].quantity = 0
      <4>1. ~ Remains /\ orders[r].status = "FILLED" /\ orders'[r].status = "FILLED"
        BY <1>1, <2>1, <2>3, <3>1 DEF Remains, StatusIsTrue
      <4> QED BY <1>1, <1>6, <2>1, <3>1, <4>1 DEF StatusIsTrue
    <3>2. CASE Remains
      <4>1. reports' = Append(reports, x) /\ Resting' = Resting
        BY <1>3, <3>2 DEF Remains
      <4>2. Ended(r)'
        <5>1. \E j \in DOMAIN reports' : reports'[j] = x
          BY <1>1, <1>2, <4>1, ReportAdded
        <5> QED BY <1>2, <2>3, <5>1 DEF Ended
      <4>3. orders'[r].status = "EXPIRED" /\ orders'[r].quantity > 0
        BY <1>1, <2>3, <3>2 DEF Remains
      <4> QED BY <1>1, <1>4, <1>6, <1>7, <2>1, <2>3, <4>1, <4>2, <4>3 DEF StatusIsTrue
    <3>3. CASE orders[r].quantity > 0 /\ ~ Remains
      <4>1. r \in Resting' /\ orders'[r].status = orders[r].status
        BY <1>1, <1>3, <2>3, <3>3
      <4>2. orders[r].status \notin {"CANCELLED", "EXPIRED"}
        BY <1>4, <2>1, <2>3 DEF StatusIsTrue
      <4> QED BY <1>1, <1>6, <2>1, <4>1, <4>2 DEF StatusIsTrue
    <3> QED BY <2>1, <3>1, <3>2, <3>3
  <2> QED BY <2>2, <2>3
<1>9. ASSUME NEW j \in DOMAIN reports'
      PROVE  EndIsTrue(j)'
  <2>1. \/ j \in DOMAIN reports /\ reports'[j] = reports[j]
        \/ reports'[j] = x /\ Remains /\ Resting' = Resting
        \/ reports'[j] = y
    BY <1>1, <1>2, <1>3, ReportAdded
  <2>2. \A r \in Refs : IsExpired(r) => IsExpired(r)'
    <3> SUFFICES ASSUME NEW r \in Refs, IsExpired(r) PROVE IsExpired(r)'
      OBVIOUS
    <3>1. r # incoming
      BY <1>4 DEF IsExpired
    <3> QED BY <1>1, <1>3, <1>6, <1>7, <3>1 DEF IsExpired
  <2>3. \A r \in Refs : orders[r].status = "CANCELLED" => orders'[r].status = "CANCELLED"
    <3>1. orders[incoming].status # "CANCELLED"
      BY <1>1, <1>4 DEF StatusInv, StatusIsTrue
    <3> QED BY <1>1, <3>1
  <2>4. CASE j \in DOMAIN reports /\ reports'[j] = reports[j]
    BY <1>1, <1>6, <2>2, <2>3, <2>4 DEF StatusInv, EndIsTrue
  <2>5. CASE reports'[j] = x /\ Remains /\ Resting' = Resting
    <3>1. IsExpired(incoming)'
      BY <1>1, <1>4, <1>7, <2>5 DEF IsExpired, Remains
    <3> QED BY <1>1, <1>2, <2>5, <3>1 DEF EndIsTrue
  <2>6. CASE reports'[j] = y
    BY <1>2, <2>6 DEF EndIsTrue
  <2> QED BY <2>1, <2>4, <2>5, <2>6
<1> QED BY <1>1, <1>8, <1>9 DEF StatusInv

LEMMA CancelKeepsStatus ==
    ASSUME IInv, StatusInv, NEW id \in CancelIds, Withdraws(id)
    PROVE  StatusInv'
<1> DEFINE e == Answer("CANCELLED", id)
<1>1. PICK c \in Resting : /\ c \in Refs /\ orders[c].orderID = id
                           /\ Resting' = Resting \ {c} /\ orders'[c].status = "CANCELLED"
                           /\ \A q \in Refs \ {c} : orders'[q] = orders[q]
  BY DEF Withdraws
<1>2. /\ TypeOK /\ Refs' = Refs /\ incoming' = incoming /\ TermsStay
      /\ pc = "idle" /\ pc' = "idle" /\ reports' = Append(reports, e)
      /\ \A r \in Refs : orders'[r].quantity = orders[r].quantity
  BY DEF IInv, Withdraws, Passes
<1>3. e.kind = "CANCELLED" /\ e.id = id /\ e.kind \in ReportKinds
  BY DEF Answer, ReportKinds
<1> HIDE DEF e
<1>4. \A r \in Refs : orders'[r].tif = orders[r].tif /\ orders'[r].orderQty = orders[r].orderQty
                      /\ orders'[r].orderID = orders[r].orderID
  BY <1>2 DEF TermsStay, SameTerms
<1>5. orders[c].tif = "GTC" /\ orders[c].quantity > 0
  BY <1>1 DEF IInv, BookHoldsLiveOrders, LitLevelsHoldLiveOrders, PegPoolsHoldLiveOrders,
              Resting, LitOrders, PegOrders, IsLive
<1>6. \A r : ~ Busy(r) /\ ~ Busy(r)'
  BY <1>2 DEF Busy, Dealing
<1>7. \A r \in Refs : Ended(r) => Ended(r)'
  BY <1>2, <1>3, EndedStays
<1>8. ASSUME NEW r \in Refs
      PROVE  StatusIsTrue(r)'
  <2>1. StatusIsTrue(r) /\ orders[r].quantity \in Nat
    BY <1>2, StatusTypes DEF StatusInv
  <2>2. CASE r # c
    BY <1>1, <1>6, <1>7, <2>1, <2>2 DEF StatusIsTrue
  <2>3. CASE r = c
    <3>1. Ended(r)'
      <4>1. \E j \in DOMAIN reports' : reports'[j] = e
        BY <1>2, <1>3, ReportAdded
      <4>2. orders'[r].orderID = id
        BY <1>1, <1>4, <2>3
      <4> QED BY <1>3, <4>1, <4>2 DEF Ended
    <3> QED BY <1>1, <1>2, <1>4, <1>5, <1>6, <2>1, <2>3, <3>1 DEF StatusIsTrue
  <2> QED BY <2>2, <2>3
<1>9. ASSUME NEW j \in DOMAIN reports'
      PROVE  EndIsTrue(j)'
  <2>1. (j \in DOMAIN reports /\ reports'[j] = reports[j]) \/ reports'[j] = e
    BY <1>2, <1>3, ReportAdded
  <2>2. \A r \in Refs : IsExpired(r) => IsExpired(r)'
    BY <1>1, <1>2, <1>6 DEF IsExpired
  <2>3. \A r \in Refs : orders[r].status = "CANCELLED" => orders'[r].status = "CANCELLED"
    BY <1>1
  <2>4. CASE j \in DOMAIN reports /\ reports'[j] = reports[j]
    BY <1>2, <1>4, <2>2, <2>3, <2>4 DEF StatusInv, EndIsTrue
  <2>5. CASE reports'[j] = e
    BY <1>1, <1>2, <1>3, <1>4, <2>5 DEF EndIsTrue
  <2> QED BY <2>1, <2>4, <2>5
<1> QED BY <1>2, <1>8, <1>9 DEF StatusInv

LEMMA QuietKeepsStatus ==
    ASSUME IInv, StatusInv, Idles \/ \E id : Refuses(id)
    PROVE  StatusInv'
<1>1. /\ TypeOK /\ orders' = orders /\ Refs' = Refs /\ incoming' = incoming
      /\ (Dealing' <=> Dealing) /\ Resting' = Resting /\ (pc = "idle" => pc' = "idle")
  BY DEF IInv, Idles, Refuses, Passes
<1>2. reports' = reports \/ \E e : reports' = Append(reports, e) /\ e.kind = "REJECTED"
  <2>1. \A kind, id : Answer(kind, id).kind = kind
    BY DEF Answer
  <2> QED BY <2>1 DEF Idles, Refuses
<1>3. TermsStay /\ \A r : Busy(r)' <=> Busy(r)
  BY <1>1 DEF TermsStay, SameTerms, Busy
<1>4. \A r \in Refs : Ended(r) => Ended(r)'
  BY <1>1, <1>2, <1>3, EndedStays DEF ReportKinds
<1>5. \A r \in Refs : StatusIsTrue(r)'
  BY <1>1, <1>3, <1>4 DEF StatusInv, StatusIsTrue
<1>6. ASSUME NEW j \in DOMAIN reports'
      PROVE  EndIsTrue(j)'
  <2>1. reports'[j].kind # "REJECTED" => j \in DOMAIN reports /\ reports'[j] = reports[j]
    BY <1>1, <1>2, ReportAdded DEF ReportKinds
  <2>2. \A r \in Refs : IsExpired(r) => IsExpired(r)'
    BY <1>1, <1>3 DEF IsExpired
  <2> QED BY <1>1, <2>1, <2>2 DEF StatusInv, EndIsTrue
<1> QED BY <1>1, <1>5, <1>6 DEF StatusInv

LEMMA StepsKeepStatus ==
    ASSUME IInv, StatusInv, ReportStep, TermsStay
    PROVE  StatusInv'
BY TradeKeepsStatus, ArrivalKeepsStatus, FinishKeepsStatus, CancelKeepsStatus, QuietKeepsStatus
   DEF ReportStep

-----------------------------------------------------------------------------
(* The fills that are reported are the trades, in the same order.          *)

FillsAreTrades ==
    /\ Cardinality(Fills(Len(reports))) = Len(trades)
    /\ \A j \in Fills(Len(reports)) :
          LET k == Cardinality(Fills(j))
          IN  /\ k \in DOMAIN trades /\ trades[k].quantity = reports[j].quantity
              /\ trades[k].price = reports[j].price

\* Of the fills up to the n-th report.
LEMMA FillsUpTo ==
    ASSUME TypeOK, NEW n \in 0 .. Len(reports)
    PROVE  /\ IsFiniteSet(Fills(n)) /\ Cardinality(Fills(n)) \in Nat
           /\ n < Len(reports) => 
                 Fills(n + 1) = IF reports[n + 1].kind = "FILL" THEN Fills(n) \cup {n + 1}
                                                                ELSE Fills(n)
           /\ n < Len(reports) => n + 1 \notin Fills(n) /\ n + 1 \in DOMAIN reports
           /\ Cardinality(Fills(n)) <= Cardinality(Fills(Len(reports)))
<1>1. Len(reports) \in Nat /\ DOMAIN reports = 1 .. Len(reports)
  BY ReportsAreNumbered
<1>2. IsFiniteSet(1 .. Len(reports))
  BY <1>1, FS_Interval
<1>3. Fills(n) \subseteq Fills(Len(reports)) /\ Fills(Len(reports)) \subseteq 1 .. Len(reports)
  BY <1>1 DEF Fills
<1>4. /\ IsFiniteSet(Fills(n)) /\ Cardinality(Fills(n)) \in Nat
      /\ Cardinality(Fills(n)) <= Cardinality(Fills(Len(reports)))
  BY <1>2, <1>3, FS_Subset, FS_CardinalityType
<1>5. ASSUME n < Len(reports)
      PROVE  /\ n + 1 \notin Fills(n) /\ n + 1 \in DOMAIN reports
             /\ Fills(n + 1) = IF reports[n + 1].kind = "FILL" THEN Fills(n) \cup {n + 1}
                                                               ELSE Fills(n)
  <2>1. n + 1 \in 1 .. Len(reports) /\ 1 .. n + 1 = (1 .. n) \cup {n + 1} /\ n + 1 \notin 1 .. n
    BY <1>1, <1>5
  <2> QED BY <1>1, <2>1 DEF Fills
<1> QED BY <1>4, <1>5

\* What has been published does not change.
LEMMA FillsStay ==
    ASSUME TypeOK, NEW n \in 0 .. Len(reports),
           \/ reports' = reports
           \/ \E e : reports' = Append(reports, e) /\ e.kind \in ReportKinds
    PROVE  Fills(n)' = Fills(n)
<1>1. \A i \in DOMAIN reports : reports'[i] = reports[i]
  <2>1. ASSUME NEW e, reports' = Append(reports, e), e.kind \in ReportKinds
        PROVE  \A i \in DOMAIN reports : reports'[i] = reports[i]
    BY <2>1, ReportAdded
  <2> QED BY <2>1
<1>2. 1 .. n \subseteq DOMAIN reports
  BY ReportsAreNumbered
<1> QED BY <1>1, <1>2 DEF Fills

LEMMA TradeIsReported ==
    ASSUME IInv, FillsAreTrades, NEW a, NEW h, NEW n, NEW price, Trade(a, h, n, price)
    PROVE  FillsAreTrades'
<1> DEFINE e == Report("FILL", a, h, price, n, orders[a].quantity - n)
           b == IF orders[a].side = "BUY" THEN a ELSE h
           s == IF b = a THEN h ELSE a
           d == [ buy |-> b, sell |-> s, price |-> price, quantity |-> n ]
<1>1. /\ TypeOK /\ reports' = Append(reports, e) /\ trades' = Append(trades, d)
      /\ e.kind = "FILL" /\ e.quantity = n /\ e.price = price /\ e.kind \in ReportKinds
      /\ d.quantity = n /\ d.price = price
  BY DEF IInv, Trade, Execute, Report, ReportKinds
<1> HIDE DEF e, d
<1>2. PICK m : m = Len(reports)
  OBVIOUS
<1>3. PICK k : k = m + 1
  OBVIOUS
<1>4. m \in Nat /\ DOMAIN reports = 1 .. m /\ m \in 0 .. m
  BY <1>1, <1>2, ReportsAreNumbered
<1>5. /\ reports'[k] = e /\ \A i \in DOMAIN reports : reports'[i] = reports[i]
      /\ Len(reports') = k
  BY <1>1, <1>2, <1>3, ReportAdded DEF TypeOK
<1>6. \A j \in 0 .. m : Fills(j)' = Fills(j)
  BY <1>1, <1>2, FillsStay
<1>7. Fills(k)' = Fills(m) \cup {k} /\ k \notin Fills(m) /\ Fills(m) \subseteq 1 .. m
  <2>1. k \notin 1 .. m /\ 1 .. k = (1 .. m) \cup {k}
    BY <1>3, <1>4
  <2>2. Fills(k)' = {j \in 1 .. k : reports'[j].kind = "FILL"}
    BY DEF Fills
  <2> QED BY <1>1, <1>4, <1>5, <2>1, <2>2 DEF Fills
<1>8. IsFiniteSet(Fills(m)) /\ Cardinality(Fills(m)) \in Nat
  BY <1>1, <1>2, <1>4, FillsUpTo
<1>9. Cardinality(Fills(k)') = Cardinality(Fills(m)) + 1
  BY <1>7, <1>8, FS_AddElement
<1>10. /\ DOMAIN trades' = DOMAIN trades \cup {Len(trades) + 1} /\ Len(trades') = Len(trades) + 1
       /\ Len(trades) + 1 \notin DOMAIN trades
       /\ trades'[Len(trades) + 1] = d /\ \A i \in DOMAIN trades : trades'[i] = trades[i]
  BY <1>1, OneMoreElement DEF TypeOK
<1>11. Cardinality(Fills(m)) = Len(trades)
  BY <1>2 DEF FillsAreTrades
<1>12. Cardinality(Fills(Len(reports)))' = Len(trades')
  BY <1>5, <1>9, <1>10, <1>11 DEF Fills
<1>13. ASSUME NEW j \in Fills(k)'
       PROVE  LET c == Cardinality(Fills(j)')
              IN  /\ c \in DOMAIN trades' /\ trades'[c].quantity = reports'[j].quantity
                  /\ trades'[c].price = reports'[j].price
  <2>1. CASE j = k
    BY <1>1, <1>5, <1>9, <1>10, <1>11, <2>1
  <2>2. CASE j # k
    <3>1. j \in Fills(m) /\ j \in 0 .. m /\ j \in DOMAIN reports
      BY <1>4, <1>7, <1>13, <2>2
    <3>2. LET c == Cardinality(Fills(j))
          IN  /\ c \in DOMAIN trades /\ trades[c].quantity = reports[j].quantity
              /\ trades[c].price = reports[j].price
      BY <1>2, <3>1 DEF FillsAreTrades
    <3> QED BY <1>5, <1>6, <1>10, <3>1, <3>2
  <2> QED BY <2>1, <2>2
<1>14. \A j \in Fills(Len(reports))' :
          LET c == Cardinality(Fills(j)')
          IN  /\ c \in DOMAIN trades' /\ trades'[c].quantity = reports'[j].quantity
              /\ trades'[c].price = reports'[j].price
  BY <1>5, <1>13 DEF Fills
<1> QED BY <1>12, <1>14 DEF FillsAreTrades

LEMMA OthersReportNoTrade ==
    ASSUME IInv, FillsAreTrades, Arrives \/ Finishes \/ Passes
    PROVE  FillsAreTrades'
<1>1. TypeOK /\ trades' = trades
  BY DEF IInv, Arrives, Finishes, Passes
<1>2. CASE reports' = reports
  BY <1>1, <1>2 DEF FillsAreTrades, Fills
<1>3. ASSUME NEW e, reports' = Append(reports, e), e.kind \in ReportKinds, e.kind # "FILL"
      PROVE  FillsAreTrades'
  <2>1. PICK m : m = Len(reports)
    OBVIOUS
  <2>2. PICK k : k = m + 1
    OBVIOUS
  <2>3. m \in Nat /\ DOMAIN reports = 1 .. m /\ m \in 0 .. m
    BY <1>1, <2>1, ReportsAreNumbered
  <2>4. /\ reports'[k] = e /\ \A i \in DOMAIN reports : reports'[i] = reports[i]
        /\ Len(reports') = k
    BY <1>1, <1>3, <2>1, <2>2, ReportAdded DEF TypeOK
  <2>5. \A j \in 0 .. m : Fills(j)' = Fills(j)
    BY <1>1, <1>3, <2>1, FillsStay
  <2>6. Fills(k)' = Fills(m) /\ Fills(m) \subseteq 1 .. m
    <3>1. k \notin 1 .. m /\ 1 .. k = (1 .. m) \cup {k}
      BY <2>2, <2>3
    <3>2. Fills(k)' = {j \in 1 .. k : reports'[j].kind = "FILL"}
      BY DEF Fills
    <3> QED BY <1>3, <2>3, <2>4, <3>1, <3>2 DEF Fills
  <2>7. Cardinality(Fills(Len(reports)))' = Len(trades')
    BY <1>1, <2>1, <2>4, <2>6 DEF Fills, FillsAreTrades
  <2>8. \A j \in Fills(m) : Fills(j)' = Fills(j) /\ reports'[j] = reports[j]
    BY <2>3, <2>4, <2>5, <2>6
  <2>9. \A j \in Fills(Len(reports))' : j \in Fills(m)
    BY <2>4, <2>6 DEF Fills
  <2> QED BY <1>1, <2>1, <2>7, <2>8, <2>9 DEF FillsAreTrades
<1> QED BY <1>2, <1>3, OtherReports

-----------------------------------------------------------------------------
(* What a session may count on of the engine. *)

EngineFacts ==
    /\ IInv /\ IndexInv /\ StoryInv /\ MidStillCurrent
    /\ ReportsAreTrue /\ StatusInv /\ FillsAreTrades

LEMMA ReportsHold ==
    Spec => [](ReportsAreTrue /\ StatusInv /\ FillsAreTrades)
<1>1. Init => ReportsAreTrue /\ StatusInv /\ FillsAreTrades
  <2> SUFFICES ASSUME Init PROVE ReportsAreTrue /\ StatusInv /\ FillsAreTrades
    OBVIOUS
  <2>1. reports = <<>> /\ trades = <<>> /\ Refs = {} /\ DOMAIN reports = {} /\ Len(trades) = 0
        /\ Len(reports) = 0
    BY DEF Init, Refs
  <2>2. Fills(Len(reports)) = {}
    BY <2>1 DEF Fills
  <2> QED BY <2>1, <2>2, FS_EmptySet DEF ReportsAreTrue, StatusInv, FillsAreTrades
<1>2. (/\ IInv /\ IndexInv /\ StoryInv /\ MidStillCurrent
       /\ ReportsAreTrue /\ StatusInv /\ FillsAreTrades /\ [Next]_vars)
      => (ReportsAreTrue /\ StatusInv /\ FillsAreTrades)'
  <2> SUFFICES ASSUME IInv, IndexInv, StoryInv, MidStillCurrent, ReportsAreTrue, StatusInv,
                      FillsAreTrades, [Next]_vars
               PROVE  (ReportsAreTrue /\ StatusInv /\ FillsAreTrades)'
    OBVIOUS
  <2>1. ReportStep /\ TermsStay /\ TypeOK' /\ LedgerStep
    BY EveryStepIsAReportStep, NextSteps, NextKeepsIInv, ReportStepsAreLedgerSteps
       DEF StepsThroughQueues, IInv
  <2>2. ReportsAreTrue'
    BY <2>1, StepsKeepReportsTrue
  <2>3. StatusInv'
    BY <2>1, StepsKeepStatus
  <2>4. FillsAreTrades'
    BY <2>1, TradeIsReported, OthersReportNoTrade DEF LedgerStep
  <2> QED BY <2>2, <2>3, <2>4
<1> QED BY <1>1, <1>2, IInvHolds, IndexInvHolds, StoryInvHolds, MidStaysCurrent, PTL DEF Spec

LEMMA EngineFactsHold == Spec => []EngineFacts
<1>1. (/\ IInv /\ IndexInv /\ StoryInv /\ MidStillCurrent
       /\ ReportsAreTrue /\ StatusInv /\ FillsAreTrades) => EngineFacts
  BY DEF EngineFacts
<1> QED BY <1>1, ReportsHold, IInvHolds, IndexInvHolds, StoryInvHolds, MidStaysCurrent, PTL

-----------------------------------------------------------------------------
(* The steps of a session, and where its two streams stand. *)

Waiting == Range(inbound)

StreamsInv ==
    /\ \E S : snapshots \in Seq(S)
    /\ \A i \in DOMAIN snapshots : snapshots[i].type = "BOOK"
    /\ execRead \in 0 .. Len(reports) /\ bookRead \in 0 .. Len(snapshots)
    /\ IsApp(app)

\* The client writes a frame.
Sends(f) ==
    /\ f \in NewFrames \cup CancelFrames
    /\ f.type = "NEW" => ~ IsDuplicate(app.myOrders, f.clOrdId)
    /\ app' = reduceSent(app, f) /\ Waiting' = Waiting \cup {f}
    /\ UNCHANGED <<vars, snapshots, execRead, bookRead, missed>>

\* The engine works.  An order of the client's that arrives was on its way.
Works ==
    /\ ReportStep /\ TermsStay /\ LedgerStep
    /\ Arrives => \/ orders'[incoming'].orderID \notin OwnIds
                  \/ \E t \in OwnTickets : /\ ArrivesAs(t)
                                           /\ newOrderFrame(t.orderID, IntentOf(t)) \in Waiting
    /\ Waiting' \subseteq Waiting
    /\ UNCHANGED <<app, snapshots, execRead, bookRead, missed>>

\* A report reaches the client.
Reads ==
    /\ execRead < Len(reports)
    /\ app' = reduceFrame(app, ExecOf(execRead + 1)) /\ execRead' = execRead + 1
    /\ Waiting' = Waiting
    /\ UNCHANGED <<vars, snapshots, bookRead, missed>>

\* Anything else touches neither the engine, nor rows, tape and figures.
Turns ==
    /\ UNCHANGED vars
    /\ IsApp(app') /\ app'.myOrders = app.myOrders /\ SameAggregates(app', app)
    /\ Waiting' \subseteq Waiting
    /\ execRead' \in execRead .. Len(reports) /\ bookRead' \in 0 .. Len(snapshots')
    /\ execRead' # execRead => missed'
    /\ missed => missed'
    /\ \/ snapshots' = snapshots
       \/ \E frame : snapshots' = Append(snapshots, frame) /\ frame.type = "BOOK"

\* What waits, when frames come and go.
LEMMA FramesMove ==
    ASSUME InboundInv
    PROVE  /\ \A f \in NewFrames \cup CancelFrames :
                 inbound' = Append(inbound, f) => Waiting' = Waiting \cup {f}
           /\ inbound # <<>> => Head(inbound) \in Waiting
           /\ inbound # <<>> /\ inbound' = Tail(inbound) => Waiting' \subseteq Waiting
           /\ \A n \in 0 .. Len(inbound) :
                 inbound' = SubSeq(inbound, 1, n) => Waiting' \subseteq Waiting
<1> DEFINE S == NewFrames \cup CancelFrames
<1>1. inbound \in Seq(S) /\ Len(inbound) \in Nat /\ DOMAIN inbound = 1 .. Len(inbound)
  BY DEF InboundInv
<1> HIDE DEF S
<1>2. ASSUME NEW f \in S, inbound' = Append(inbound, f)
      PROVE  Waiting' = Waiting \cup {f}
  <2>1. /\ DOMAIN inbound' = 1 .. Len(inbound) + 1 /\ inbound'[Len(inbound) + 1] = f
        /\ \A i \in 1 .. Len(inbound) : inbound'[i] = inbound[i]
    BY <1>1, <1>2, AppendProperties
  <2>2. 1 .. Len(inbound) + 1 = (1 .. Len(inbound)) \cup {Len(inbound) + 1}
    BY <1>1
  <2> QED BY <1>1, <2>1, <2>2 DEF Waiting, Range
<1>3. ASSUME inbound # <<>>
      PROVE  Head(inbound) \in Waiting
  <2>1. 1 \in DOMAIN inbound /\ Head(inbound) = inbound[1]
    BY <1>1, <1>3
  <2> QED BY <2>1 DEF Waiting, Range
<1>4. ASSUME inbound # <<>>, inbound' = Tail(inbound)
      PROVE  Waiting' \subseteq Waiting
  <2>1. /\ Len(inbound') = Len(inbound) - 1 /\ DOMAIN inbound' = 1 .. Len(inbound')
        /\ \A i \in 1 .. Len(inbound') : inbound'[i] = inbound[i + 1]
    BY <1>1, <1>4, HeadTailProperties, LenProperties
  <2>2. \A i \in DOMAIN inbound' : i + 1 \in DOMAIN inbound
    BY <1>1, <2>1
  <2> QED BY <2>1, <2>2 DEF Waiting, Range
<1>5. ASSUME NEW n \in 0 .. Len(inbound), inbound' = SubSeq(inbound, 1, n)
      PROVE  Waiting' \subseteq Waiting
  <2>1. \A i \in 1 .. n : inbound[i] \in S
    BY <1>1
  <2>2. n \in Int /\ 1 \in Int /\ n - 1 + 1 = n
    BY <1>1
  <2>3. /\ SubSeq(inbound, 1, n) \in Seq(S)
        /\ Len(SubSeq(inbound, 1, n)) = IF 1 <= n THEN n - 1 + 1 ELSE 0
        /\ \A i \in 1 .. n - 1 + 1 : SubSeq(inbound, 1, n)[i] = inbound[1 + i - 1]
    BY <2>1, <2>2, SubSeqProperties
  <2>4. DOMAIN inbound' = 1 .. n /\ \A i \in 1 .. n : inbound'[i] = inbound[i]
    BY <1>1, <1>5, <2>3, LenProperties
  <2>5. 1 .. n \subseteq DOMAIN inbound
    BY <1>1
  <2> QED BY <2>4, <2>5 DEF Waiting, Range
<1> QED BY <1>2, <1>3, <1>4, <1>5 DEF S

LEMMA WaitingStays == inbound' = inbound => Waiting' = Waiting
BY DEF Waiting, Range

\* An order of the client's that arrives was on its way.
LEMMA OwnArrivals ==
    ASSUME IInv, IndexInv, InboundInv, HandleOwn
    PROVE  Arrives => \E t \in OwnTickets :
                         /\ ArrivesAs(t)
                         /\ newOrderFrame(t.orderID, IntentOf(t)) \in Waiting
<1>1. HandlesFrame /\ Head(inbound) \in Waiting
  BY OwnFramesAreCalls, FramesMove
<1>2. CASE \E t \in OwnTickets : /\ Head(inbound) = newOrderFrame(t.orderID, IntentOf(t))
                                 /\ HandleNew(t)
  BY <1>1, <1>2, NewOrdersArrive, SessionAssumption
<1>3. CASE \E id \in OwnIds : HandleCancel(id)
  <2>1. OwnIds \subseteq CancelIds
    BY OwnIdsAssumption DEF OwnIds
  <2>2. Refs' = Refs /\ incoming' = incoming
    BY <1>3, <2>1, CancelPasses DEF HandleCancel, Passes
  <2> QED BY <2>2 DEF Arrives, Refs, incoming
<1> QED BY <1>1, <1>2, <1>3 DEF HandlesFrame

LEMMA ForeignArrivals ==
    ASSUME IInv, IndexInv, HandleForeign
    PROVE  Arrives => orders'[incoming'].orderID \notin OwnIds
<1>1. CASE \E t \in Tickets \ OwnTickets : HandleNew(t)
  <2>1. PICK t \in Tickets \ OwnTickets : HandleNew(t)
    BY <1>1
  <2>2. orders'[incoming'].orderID = t.orderID
    BY <2>1, NewOrdersArrive DEF ArrivesAs
  <2> QED BY <2>2, OwnIdsAssumption DEF OwnIds
<1>2. CASE \E id \in CancelIds : HandleCancel(id)
  <2>1. Refs' = Refs /\ incoming' = incoming
    BY <1>2, CancelPasses DEF HandleCancel, Passes
  <2> QED BY <2>1 DEF Arrives, Refs, incoming
<1> QED BY <1>1, <1>2 DEF HandleForeign

\* Every step of a session is one of these.
LEMMA EngineWorks ==
    ASSUME EngineFacts, InboundInv, HandleOwn \/ HandleForeign \/ EngineRuns
    PROVE  Works
<1>1. IInv /\ IndexInv /\ MidStillCurrent
  BY DEF EngineFacts
<1>2. Next /\ UNCHANGED <<app, snapshots, execRead, bookRead, missed>>
  BY OwnFramesAreCalls, ForeignCallsAreCalls
     DEF HandleOwn, HandleForeign, EngineRuns, Next, clientVars
<1>3. ReportStep /\ TermsStay /\ LedgerStep
  BY <1>1, <1>2, EveryStepIsAReportStep, NextSteps, ReportStepsAreLedgerSteps
     DEF StepsThroughQueues
<1>4. CASE HandleOwn
  <2>1. inbound # <<>> /\ inbound' = Tail(inbound)
    BY <1>4 DEF HandleOwn
  <2>2. Waiting' \subseteq Waiting
    BY <2>1, FramesMove
  <2> QED BY <1>1, <1>2, <1>3, <1>4, <2>2, OwnArrivals DEF Works
<1>5. CASE HandleForeign
  <2>1. Waiting' = Waiting
    BY <1>5, WaitingStays DEF HandleForeign, clientVars
  <2> QED BY <1>1, <1>2, <1>3, <1>5, <2>1, ForeignArrivals DEF Works
<1>6. CASE EngineRuns
  <2>1. Waiting' = Waiting
    BY <1>6, WaitingStays DEF EngineRuns, clientVars
  <2>2. pc # "idle"
    BY <1>6 DEF EngineRuns, Continue, MatchPegPool, MatchPegPoolEnds, MatchLit, MatchLitEnds,
                RestPeg, AddToBook, ExpireRemainder, NoRemainder, CrossPegPools,
                CrossPegPoolsEnds
  <2>3. ~ Arrives
    BY <2>2 DEF Arrives
  <2> QED BY <1>2, <1>3, <2>1, <2>3 DEF Works
<1> QED BY <1>4, <1>5, <1>6

SessionStep == (\E f : Sends(f)) \/ Works \/ Reads \/ Turns

\* The client's connection and its books concern neither the engine nor the reports.
LEMMA OthersTurn ==
    ASSUME EngineFacts, InboundInv, StreamsInv,
           PublishBook \/ ReceiveBook \/ DropConnection \/ Reconnect \/ UNCHANGED sessionVars
    PROVE  Turns
<1>0. /\ IsApp(app) /\ SameAggregates(app, app) /\ execRead \in 0 .. Len(reports)
      /\ bookRead \in 0 .. Len(snapshots) /\ Len(reports) \in Nat
  BY ReportsAreNumbered DEF StreamsInv, SameAggregates, EngineFacts, IInv
<1>1. CASE PublishBook
  <2>1. Waiting' = Waiting
    BY <1>1, WaitingStays DEF PublishBook, clientVars
  <2>2. PICK S : snapshots \in Seq(S)
    BY DEF StreamsInv
  <2>3. BookSnapshot.type = "BOOK" /\ snapshots' = Append(snapshots, BookSnapshot)
    BY <1>1 DEF PublishBook, BookSnapshot
  <2>4. Len(snapshots') = Len(snapshots) + 1 /\ Len(snapshots) \in Nat
    <3>1. PICK frame : frame = BookSnapshot
      OBVIOUS
    <3>2. snapshots \in Seq(S \cup {frame}) /\ frame \in S \cup {frame}
      BY <2>2
    <3> QED BY <2>3, <3>1, <3>2, AppendProperties
  <2>5. UNCHANGED <<vars, app, execRead, bookRead, missed>>
    BY <1>1 DEF PublishBook, clientVars
  <2>6. \E frame : snapshots' = Append(snapshots, frame) /\ frame.type = "BOOK"
    BY <2>3
  <2>7. execRead' \in execRead .. Len(reports) /\ bookRead' \in 0 .. Len(snapshots')
    BY <1>0, <2>4, <2>5
  <2> QED BY <1>0, <2>1, <2>5, <2>6, <2>7 DEF Turns
<1>2. CASE ReceiveBook
  <2>1. Waiting' = Waiting
    BY <1>2, WaitingStays DEF ReceiveBook
  <2>2. PICK S : snapshots \in Seq(S)
    BY DEF StreamsInv
  <2>3. bookRead + 1 \in DOMAIN snapshots /\ bookRead' \in 0 .. Len(snapshots')
    BY <1>0, <1>2, <2>2 DEF ReceiveBook
  <2>4. IsApp(app') /\ app'.myOrders = app.myOrders /\ SameAggregates(app', app)
    BY <1>0, <1>2, <2>3, BookEffect DEF ReceiveBook, StreamsInv
  <2> QED BY <1>0, <1>2, <2>1, <2>3, <2>4 DEF Turns, ReceiveBook
<1>3. CASE DropConnection
  <2>1. Waiting' \subseteq Waiting
    BY <1>3, FramesMove DEF DropConnection
  <2>2. IsApp(app') /\ app'.myOrders = app.myOrders /\ SameAggregates(app', app)
    BY <1>0, <1>3, ConnectionEffect DEF DropConnection
  <2>3. missed => missed'
    BY <1>3, Zenon DEF DropConnection
  <2>4. /\ UNCHANGED vars /\ execRead' = execRead /\ bookRead' = bookRead
        /\ snapshots' = snapshots
    BY <1>3 DEF DropConnection
  <2> QED BY <1>0, <2>1, <2>2, <2>3, <2>4 DEF Turns
<1>4. CASE Reconnect
  <2>1. Waiting' = Waiting
    BY <1>4, WaitingStays DEF Reconnect
  <2>2. PICK S : snapshots \in Seq(S)
    BY DEF StreamsInv
  <2>3. PICK e \in execRead .. Len(reports), b \in bookRead .. Len(snapshots) :
           /\ execRead' = e /\ bookRead' = b
           /\ missed' = (missed \/ e > execRead)
           /\ app' = LET opened == reduceConnection(app, "open")
                     IN  IF b = 0 THEN opened ELSE reduceFrame(opened, snapshots[b])
    BY <1>4 DEF Reconnect
  <2>4. PICK opened : opened = reduceConnection(app, "open")
    OBVIOUS
  <2>5. IsApp(opened) /\ opened.myOrders = app.myOrders /\ SameAggregates(opened, app)
    BY <1>0, <2>4, ConnectionEffect
  <2>6. IsApp(app') /\ app'.myOrders = app.myOrders /\ SameAggregates(app', app)
    <3>1. CASE b = 0
      BY <2>3, <2>4, <2>5, <3>1
    <3>2. CASE b # 0
      <4>1. b \in DOMAIN snapshots
        BY <1>0, <2>2, <3>2
      <4>2. /\ IsApp(app') /\ app'.myOrders = opened.myOrders
            /\ SameAggregates(app', opened)
        BY <2>3, <2>4, <2>5, <3>2, <4>1, BookEffect DEF StreamsInv
      <4> QED BY <2>5, <4>2 DEF SameAggregates
    <3> QED BY <3>1, <3>2
  <2>7. /\ execRead' \in execRead .. Len(reports) /\ bookRead' \in 0 .. Len(snapshots)
        /\ execRead' # execRead => e > execRead
    BY <1>0, <2>3
  <2>8. (e > execRead \/ missed) => missed'
    BY <2>3, Zenon
  <2> QED BY <1>4, <2>1, <2>6, <2>7, <2>8 DEF Turns, Reconnect
<1>5. CASE UNCHANGED sessionVars
  <2>1. Waiting' = Waiting
    BY <1>5, WaitingStays DEF sessionVars, clientVars
  <2> QED BY <1>0, <1>5, <2>1 DEF Turns, sessionVars, clientVars
<1> QED BY <1>1, <1>2, <1>3, <1>4, <1>5

LEMMA EverySessionStep ==
    ASSUME EngineFacts, InboundInv, StreamsInv, [SessionNext]_sessionVars
    PROVE  SessionStep
<1>0. /\ IsApp(app) /\ SameAggregates(app, app) /\ execRead \in 0 .. Len(reports)
      /\ bookRead \in 0 .. Len(snapshots) /\ Len(reports) \in Nat
  BY ReportsAreNumbered DEF StreamsInv, SameAggregates, EngineFacts, IInv
<1>1. CASE \/ \E t \in OwnTickets : SendNew(t)
           \/ \E id \in {t.orderID : t \in OwnTickets} : SendCancel(id)
  <2>1. \A t \in OwnTickets : newOrderFrame(t.orderID, IntentOf(t)).clOrdId = t.orderID
    BY DEF newOrderFrame
  <2>2. \A id : cancelOrderFrame(0, id).type = "CANCEL"
    BY DEF cancelOrderFrame
  <2>3. PICK f \in NewFrames \cup CancelFrames :
           Write(f) /\ (f.type = "NEW" => ~ IsDuplicate(app.myOrders, f.clOrdId))
    BY <1>1, <2>1, <2>2 DEF SendNew, SendCancel, NewFrames, CancelFrames, OwnIds
  <2>4. Waiting' = Waiting \cup {f}
    BY <2>3, FramesMove DEF Write
  <2> QED BY <2>3, <2>4 DEF SessionStep, Sends, Write
<1>2. CASE HandleOwn \/ HandleForeign \/ EngineRuns
  BY <1>2, EngineWorks DEF SessionStep
<1>3. CASE ReceiveExec
  <2>1. Waiting' = Waiting
    BY <1>3, WaitingStays DEF ReceiveExec
  <2> QED BY <1>3, <2>1 DEF SessionStep, Reads, ReceiveExec
<1>4. CASE PublishBook \/ ReceiveBook \/ DropConnection \/ Reconnect \/ UNCHANGED sessionVars
  BY <1>4, OthersTurn DEF SessionStep
<1> QED
  BY <1>1, <1>2, <1>3, <1>4 DEF SessionNext

\* The frame a report becomes (ExecutionReportSerializer).
LEMMA ExecIsFrame ==
    ASSUME TypeOK, ReportsAreTrue, NEW i \in DOMAIN reports
    PROVE  LET report == reports[i]
               f == ExecOf(i)
           IN  /\ f \in ExecFrame
               /\ report.kind \in ReportKinds
               /\ report.kind = "FILL" =>
                     /\ isFill(f) /\ f.tradeId = Cardinality(Fills(i))
                     /\ f.execType = FillType(report)
                     /\ f.price = report.price /\ f.filledQuantity = report.quantity
                     /\ f.passiveOrderId = orders[report.passive].orderID
                     /\ f.aggressorOrderId = f.orderId
               /\ report.kind # "FILL" => ~ isFill(f)
               /\ report.kind = "ACCEPTED"  => f.execType = "ORDER_ACCEPTED"
               /\ report.kind = "EXPIRED"   => f.execType = "ORDER_EXPIRED"
               /\ report.kind = "CANCELLED" => f.execType = "ORDER_CANCELLED"
               /\ report.kind = "REJECTED"  => f.execType = "ORDER_REJECTED"
               /\ report.kind \in OrderReports =>
                     /\ f.orderId = orders[report.order].orderID
                     /\ f.remainingQuantity = report.remaining
               /\ report.kind \notin OrderReports => f.orderId = report.id
<1> DEFINE report == reports[i]
           f == ExecOf(i)
<1>1. report \in ReportRecord \cup AnswerRecord /\ report.kind \in ReportKinds
  BY ReportsHaveTypes DEF ReportRecord, AnswerRecord, ReportKinds
<1>2. i \in Nat /\ i \in 0 .. Len(reports)
  BY ReportsAreNumbered
<1>3. Cardinality(Fills(i)) \in Nat
  BY <1>2, FillsUpTo
<1>4. \A r \in Refs : IdOf(r) = orders[r].orderID /\ orders[r].orderID \in Nat
  <2>1. \A r \in Refs : r # NA
    BY HeapHoldsOrders DEF NA
  <2>2. \A r \in Refs : orders[r].orderID \in Nat
    BY HeapHoldsOrders, OrderFields
  <2> QED BY <2>1, <2>2 DEF IdOf
<1>5. \A execType, id :
         Exec(execType, id, i) =
            [ type |-> "EXEC", execType |-> execType, orderId |-> id, tradeId |-> NA,
              price |-> NA, filledQuantity |-> NA, remainingQuantity |-> NA,
              aggressorOrderId |-> NA, passiveOrderId |-> NA, timestamp |-> i ]
  BY DEF Exec
<1>6. NA \in Int
  BY DEF NA
<1>7. CASE report.kind = "FILL"
  <2>1. /\ report.order \in Refs /\ report.passive \in Refs /\ report.remaining \in Nat
        /\ report.price \in Nat /\ report.quantity \in Nat
    BY <1>1, <1>7 DEF ReportsAreTrue, ReportRecord, AnswerRecord, OrderReports
  <2>2. f = [ Exec(FillType(report), IdOf(report.order), i) EXCEPT
                   !.tradeId = Cardinality(Fills(i)), !.price = report.price,
                   !.filledQuantity = report.quantity,
                   !.remainingQuantity = report.remaining,
                   !.aggressorOrderId = IdOf(report.order),
                   !.passiveOrderId = IdOf(report.passive) ]
    BY <1>7 DEF ExecOf
  <2>3. FillType(report) \in FillTypes
    BY DEF FillType, FillTypes
  <2>4. PICK t, id, p, c : /\ t = FillType(report) /\ id = orders[report.order].orderID
                           /\ p = orders[report.passive].orderID
                           /\ c = Cardinality(Fills(i))
    OBVIOUS
  <2>5. f = [ type |-> "EXEC", execType |-> t, orderId |-> id, tradeId |-> c,
              price |-> report.price, filledQuantity |-> report.quantity,
              remainingQuantity |-> report.remaining,
              aggressorOrderId |-> id, passiveOrderId |-> p, timestamp |-> i ]
    <3>1. PICK x : x = Exec(t, id, i)
      OBVIOUS
    <3>2. x = [ type |-> "EXEC", execType |-> t, orderId |-> id, tradeId |-> NA,
                price |-> NA, filledQuantity |-> NA, remainingQuantity |-> NA,
                aggressorOrderId |-> NA, passiveOrderId |-> NA, timestamp |-> i ]
      BY <1>5, <3>1
    <3>3. IdOf(report.order) = id /\ IdOf(report.passive) = p
      BY <1>4, <2>1, <2>4
    <3> HIDE DEF f
    <3>4. f = [ x EXCEPT !.tradeId = c, !.price = report.price,
                         !.filledQuantity = report.quantity,
                         !.remainingQuantity = report.remaining,
                         !.aggressorOrderId = id, !.passiveOrderId = p ]
      BY <2>2, <2>4, <3>1, <3>3
    <3> HIDE DEF report
    <3> QED BY <3>2, <3>4
  <2> HIDE DEF f
  <2>6. f \in ExecFrame
    BY <1>2, <1>3, <1>4, <2>1, <2>3, <2>4, <2>5 DEF ExecFrame, ExecTypes
  <2> QED BY <1>1, <1>7, <2>3, <2>4, <2>5, <2>6 DEF f, isFill, OrderReports
<1>8. CASE report.kind \in {"ACCEPTED", "EXPIRED"}
  <2>1. /\ report.order \in Refs /\ report.remaining \in Nat
        /\ report.price \in Nat \cup {NA}
    BY <1>1, <1>8 DEF ReportRecord, AnswerRecord
  <2>2. PICK id : id = orders[report.order].orderID
    OBVIOUS
  <2>3. \E t, price : /\ price \in Nat \cup {NA}
                      /\ t = IF report.kind = "ACCEPTED" THEN "ORDER_ACCEPTED"
                                                         ELSE "ORDER_EXPIRED"
                      /\ f = [ type |-> "EXEC", execType |-> t, orderId |-> id,
                               tradeId |-> NA, price |-> price, filledQuantity |-> NA,
                               remainingQuantity |-> report.remaining,
                               aggressorOrderId |-> NA, passiveOrderId |-> NA,
                               timestamp |-> i ]
    <3>1. CASE report.kind = "ACCEPTED"
      <4>1. f = [ Exec("ORDER_ACCEPTED", IdOf(report.order), i) EXCEPT
                   !.price = report.price, !.remainingQuantity = report.remaining ]
        BY <3>1 DEF ExecOf
      <4>2. PICK x : x = Exec("ORDER_ACCEPTED", id, i)
        OBVIOUS
      <4>3. x = [ type |-> "EXEC", execType |-> "ORDER_ACCEPTED", orderId |-> id,
                  tradeId |-> NA, price |-> NA, filledQuantity |-> NA,
                  remainingQuantity |-> NA, aggressorOrderId |-> NA,
                  passiveOrderId |-> NA, timestamp |-> i ]
        BY <1>5, <4>2
      <4> HIDE DEF f
      <4>4. f = [ x EXCEPT !.price = report.price, !.remainingQuantity = report.remaining ]
        BY <1>4, <2>1, <2>2, <4>1, <4>2
      <4>5. f = [ type |-> "EXEC", execType |-> "ORDER_ACCEPTED", orderId |-> id,
                  tradeId |-> NA, price |-> report.price, filledQuantity |-> NA,
                  remainingQuantity |-> report.remaining, aggressorOrderId |-> NA,
                  passiveOrderId |-> NA, timestamp |-> i ]
        BY <4>3, <4>4
      <4> QED BY <2>1, <3>1, <4>5
    <3>2. CASE report.kind = "EXPIRED"
      <4>1. f = [ Exec("ORDER_EXPIRED", IdOf(report.order), i) EXCEPT
                   !.remainingQuantity = report.remaining ]
        BY <3>2 DEF ExecOf
      <4>2. PICK x : x = Exec("ORDER_EXPIRED", id, i)
        OBVIOUS
      <4>3. x = [ type |-> "EXEC", execType |-> "ORDER_EXPIRED", orderId |-> id,
                  tradeId |-> NA, price |-> NA, filledQuantity |-> NA,
                  remainingQuantity |-> NA, aggressorOrderId |-> NA,
                  passiveOrderId |-> NA, timestamp |-> i ]
        BY <1>5, <4>2
      <4> HIDE DEF f
      <4>4. f = [ x EXCEPT !.remainingQuantity = report.remaining ]
        BY <1>4, <2>1, <2>2, <4>1, <4>2
      <4>5. f = [ type |-> "EXEC", execType |-> "ORDER_EXPIRED", orderId |-> id,
                  tradeId |-> NA, price |-> NA, filledQuantity |-> NA,
                  remainingQuantity |-> report.remaining, aggressorOrderId |-> NA,
                  passiveOrderId |-> NA, timestamp |-> i ]
        BY <4>3, <4>4
      <4> QED BY <3>2, <4>5
    <3> QED BY <1>8, <3>1, <3>2
  <2> HIDE DEF f
  <2>4. f \in ExecFrame
    BY <1>2, <1>4, <1>6, <2>1, <2>2, <2>3 DEF ExecFrame, ExecTypes
  <2> QED BY <1>1, <1>8, <2>2, <2>3, <2>4 DEF f, isFill, FillTypes, OrderReports
<1>9. CASE report.kind \in {"CANCELLED", "REJECTED"}
  <2>1. report.id \in Nat
    BY <1>1, <1>9, BoundsAssumption DEF ReportRecord, AnswerRecord
  <2>2. f = Exec(IF report.kind = "CANCELLED" THEN "ORDER_CANCELLED" ELSE "ORDER_REJECTED",
                 report.id, i)
    BY <1>9 DEF ExecOf
  <2>3. f = [ type |-> "EXEC",
              execType |-> IF report.kind = "CANCELLED" THEN "ORDER_CANCELLED"
                                                        ELSE "ORDER_REJECTED",
              orderId |-> report.id, tradeId |-> NA, price |-> NA, filledQuantity |-> NA,
              remainingQuantity |-> NA, aggressorOrderId |-> NA, passiveOrderId |-> NA,
              timestamp |-> i ]
    BY <1>5, <2>2
  <2> HIDE DEF f
  <2>4. f \in ExecFrame
    BY <1>2, <1>6, <1>9, <2>1, <2>3 DEF ExecFrame, ExecTypes
  <2> QED BY <1>1, <1>9, <2>3, <2>4 DEF f, isFill, FillTypes, OrderReports
<1> QED BY <1>1, <1>7, <1>8, <1>9 DEF ReportKinds

\* Reports only grow in number, and stay what they are.
LEMMA ReportsStay ==
    ASSUME TypeOK, LedgerStep
    PROVE  /\ Len(reports') >= Len(reports) /\ Len(reports') \in Nat
           /\ DOMAIN reports \subseteq DOMAIN reports'
           /\ \A j \in DOMAIN reports : reports'[j] = reports[j]
           /\ \/ reports' = reports
              \/ \E e : reports' = Append(reports, e) /\ e.kind \in ReportKinds
<1>1. \/ reports' = reports
      \/ \E e : reports' = Append(reports, e) /\ e.kind \in ReportKinds
  <2>1. CASE \E a, h, n, price : Trade(a, h, n, price)
    BY <2>1 DEF Trade, Execute, Report, ReportKinds
  <2>2. CASE Arrives \/ Finishes \/ Passes
    BY <2>2, OtherReports
  <2> QED BY <2>1, <2>2 DEF LedgerStep
<1>2. PICK S : reports \in Seq(S)
  BY DEF TypeOK
<1>3. ASSUME NEW e, reports' = Append(reports, e), e.kind \in ReportKinds
      PROVE  /\ Len(reports') = Len(reports) + 1
             /\ DOMAIN reports \subseteq DOMAIN reports'
             /\ \A j \in DOMAIN reports : reports'[j] = reports[j]
  <2>1. reports \in Seq(S \cup {e}) /\ e \in S \cup {e}
    BY <1>2
  <2>2. Len(reports') = Len(reports) + 1
    BY <1>3, <2>1, AppendProperties
  <2> QED BY <1>3, <2>2, ReportAdded
<1>4. Len(reports) \in Nat
  BY ReportsAreNumbered
<1> QED BY <1>1, <1>3, <1>4

LEMMA StreamsKept ==
    ASSUME EngineFacts, StreamsInv, SessionStep
    PROVE  StreamsInv'
<1>0. /\ TypeOK /\ Len(reports) \in Nat /\ execRead \in 0 .. Len(reports) /\ IsApp(app)
      /\ bookRead \in 0 .. Len(snapshots)
      /\ \A i \in DOMAIN snapshots : snapshots[i].type = "BOOK"
  BY ReportsAreNumbered DEF StreamsInv, EngineFacts, IInv
<1>1. PICK S : snapshots \in Seq(S)
  BY DEF StreamsInv
<1>2. ASSUME NEW f, Sends(f)
      PROVE  StreamsInv'
  <2>1. f \in NewOrderFrame \cup CancelOrderFrame
    BY <1>2, OwnTicketsArrive, OwnCancels DEF Sends, NewFrames
  <2>2. IsApp(reduceSent(app, f))
    BY <1>0, <2>1, SentEffect
  <2>3. PICK next : next = reduceSent(app, f)
    OBVIOUS
  <2>4. app' = next /\ IsApp(next)
    BY <1>2, <2>2, <2>3 DEF Sends
  <2>5. IsApp(app')
    BY <2>4
  <2>6. UNCHANGED <<reports, snapshots, execRead, bookRead>>
    BY <1>2 DEF Sends, vars
  <2> QED BY <1>0, <1>1, <2>5, <2>6 DEF StreamsInv
<1>3. CASE Works
  <2>1. /\ Len(reports') >= Len(reports) /\ Len(reports') \in Nat
        /\ UNCHANGED <<app, snapshots, execRead, bookRead>>
    BY <1>0, <1>3, ReportsStay DEF Works
  <2>2. execRead' \in 0 .. Len(reports')
    BY <1>0, <2>1
  <2>3. IsApp(app')
    BY <1>0, <2>1
  <2> QED BY <1>0, <1>1, <2>1, <2>2, <2>3 DEF StreamsInv
<1>4. CASE Reads
  <2>1. execRead + 1 \in DOMAIN reports /\ execRead + 1 \in 0 .. Len(reports)
    BY <1>0, <1>4, ReportsAreNumbered DEF Reads
  <2>2. ExecOf(execRead + 1) \in ExecFrame
    BY <1>0, <2>1, ExecIsFrame DEF EngineFacts
  <2>3. IsApp(app')
    BY <1>0, <1>4, <2>2, ExecEffect DEF Reads
  <2>4. UNCHANGED <<reports, snapshots, bookRead>> /\ execRead' = execRead + 1
    BY <1>4 DEF Reads, vars
  <2> QED BY <1>0, <1>1, <2>1, <2>3, <2>4 DEF StreamsInv
<1>5. CASE Turns
  <2>1. /\ reports' = reports /\ IsApp(app') /\ execRead' \in 0 .. Len(reports')
        /\ bookRead' \in 0 .. Len(snapshots')
    BY <1>0, <1>5 DEF Turns, vars
  <2>2. CASE snapshots' = snapshots
    BY <1>0, <1>1, <2>1, <2>2 DEF StreamsInv
  <2>3. ASSUME NEW frame, snapshots' = Append(snapshots, frame), frame.type = "BOOK"
        PROVE  StreamsInv'
    <3>1. snapshots \in Seq(S \cup {frame}) /\ frame \in S \cup {frame}
      BY <1>1
    <3>2. /\ snapshots' \in Seq(S \cup {frame})
          /\ \A i \in DOMAIN snapshots' : snapshots'[i] = frame
                \/ (i \in DOMAIN snapshots /\ snapshots'[i] = snapshots[i])
      BY <2>3, <3>1, OneMoreElement, AppendProperties
    <3>3. \A i \in DOMAIN snapshots' : snapshots'[i].type = "BOOK"
      BY <1>0, <2>3, <3>2
    <3> QED BY <2>1, <3>2, <3>3 DEF StreamsInv
  <2> QED BY <1>5, <2>2, <2>3 DEF Turns
<1> QED BY <1>2, <1>3, <1>4, <1>5 DEF SessionStep

-----------------------------------------------------------------------------
(* The client's rows are its orders, each under its own id.                *)

StandsFor(row, r) ==
    /\ row.clOrdId = orders[r].orderID /\ row.side = orders[r].side
    /\ row.originalQty = orders[r].orderQty /\ row.pricePx = orders[r].price
    /\ row.displayQty = 0 => orders[r].peak = 0

\* Is it the row of this frame?
RowOfFrame(row, f) ==
    /\ row.clOrdId = f.clOrdId /\ row.side = f.side /\ row.originalQty = f.qty
    /\ row.pricePx = f.price /\ row.displayQty = f.maxFloor

RowsInv ==
    /\ \A row, other \in Rows : row.clOrdId = other.clOrdId => row = other
    /\ \A row \in Rows : row \in MyOrder /\ row.clOrdId \in OwnIds
    /\ \A r \in Refs : orders[r].orderID \in OwnIds => \E row \in Rows : StandsFor(row, r)
    /\ \A f \in Waiting : f.type = "NEW" => \E row \in Rows : RowOfFrame(row, f)

\* What a frame makes of a row.
RowAfter(row, frame) ==
    IF row.clOrdId = frame.orderId THEN nextOrder(row, frame)
    ELSE IF /\ isFill(frame) /\ frame.passiveOrderId > 0
            /\ row.clOrdId = frame.passiveOrderId
         THEN passiveFill(row, frame.filledQuantity)
    ELSE row

LEMMA RowsStay == app'.myOrders = app.myOrders => Rows' = Rows
BY DEF Rows

LEMMA ARowIsAdded ==
    ASSUME IsApp(app), NEW f, Sends(f)
    PROVE  /\ f \in NewOrderFrame \cup CancelOrderFrame
           /\ f.type = "NEW" =>
                 /\ Rows' = Rows \cup {RowOf(f)} /\ RowOf(f) \in MyOrder
                 /\ \A row \in Rows : row.clOrdId # f.clOrdId
                 /\ RowOfFrame(RowOf(f), f) /\ RowOf(f).clOrdId = f.clOrdId
                 /\ RowOf(f).originalQty = f.qty /\ RowOf(f).remainingQty = f.qty
                 /\ RowOf(f).status = "PENDING" /\ f.clOrdId \in OwnIds
           /\ f.type # "NEW" => Rows' = Rows
           /\ SameAggregates(app', app)
<1>1. f \in NewOrderFrame \cup CancelOrderFrame
  BY OwnTicketsArrive, OwnCancels DEF Sends, NewFrames
<1>2. PICK next : next = reduceSent(app, f)
  OBVIOUS
<1>3. /\ app' = next /\ SameAggregates(next, app)
      /\ next.myOrders = IF f.type = "NEW" /\ ~ IsDuplicate(app.myOrders, f.clOrdId)
                         THEN <<RowOf(f)>> \o app.myOrders ELSE app.myOrders
  BY <1>1, <1>2, SentEffect DEF Sends
<1>4. CASE f.type = "NEW"
  <2>1. PICK row : row = RowOf(f)
    OBVIOUS
  <2>2. f \in NewOrderFrame
    BY <1>1, <1>4 DEF CancelOrderFrame
  <2>3. row \in MyOrder
    BY <2>1, <2>2 DEF RowOf, MyOrder, NewOrderFrame, OrderStatuses
  <2>4. app'.myOrders = <<row>> \o app.myOrders
    BY <1>3, <1>4, <2>1 DEF Sends
  <2>5. app.myOrders \in Seq(MyOrder) /\ <<row>> \in Seq(MyOrder) /\ Len(<<row>>) = 1
    BY <2>3 DEF IsApp
  <2>6. PICK n : n = Len(app.myOrders)
    OBVIOUS
  <2>7. /\ n \in Nat /\ DOMAIN app.myOrders = 1 .. n /\ DOMAIN app'.myOrders = 1 .. 1 + n
        /\ \A i \in 1 .. 1 + n :
              app'.myOrders[i] = IF i <= 1 THEN row ELSE app.myOrders[i - 1]
    <3>1. PICK rows : rows = <<row>> \o app.myOrders
      OBVIOUS
    <3>2. /\ rows \in Seq(MyOrder) /\ Len(rows) = 1 + n
          /\ \A i \in 1 .. 1 + n :
                rows[i] = IF i <= 1 THEN <<row>>[i] ELSE app.myOrders[i - 1]
      BY <2>5, <2>6, <3>1, ConcatProperties
    <3>3. <<row>>[1] = row /\ n \in Nat /\ DOMAIN app.myOrders = 1 .. n
      BY <2>5, <2>6
    <3>4. \A i \in 1 .. 1 + n : i <= 1 => i = 1
      BY <3>3
    <3> QED BY <2>4, <3>1, <3>2, <3>3, <3>4, LenProperties
  <2>8. Rows' = Rows \cup {row}
    <3>1. /\ app'.myOrders[1] = row /\ 1 \in 1 .. 1 + n
          /\ \A i \in 1 .. n : i + 1 \in 1 .. 1 + n /\ app'.myOrders[i + 1] = app.myOrders[i]
          /\ \A i \in 1 .. 1 + n : i = 1 \/ i - 1 \in 1 .. n
      BY <2>7
    <3>2. Rows' = {app'.myOrders[i] : i \in 1 .. 1 + n}
      BY <2>7 DEF Rows
    <3>3. Rows = {app.myOrders[i] : i \in 1 .. n}
      BY <2>7 DEF Rows
    <3>4. ASSUME NEW x \in Rows'
          PROVE  x \in Rows \cup {row}
      <4>1. PICK i \in 1 .. 1 + n : x = app'.myOrders[i]
        BY <3>2
      <4>2. i = 1 \/ (i - 1 \in 1 .. n /\ x = app.myOrders[i - 1])
        BY <2>7, <4>1
      <4> QED BY <2>7, <3>1, <3>3, <4>1, <4>2
    <3>5. \A x \in Rows \cup {row} : x \in Rows'
      BY <3>1, <3>2, <3>3
    <3> QED BY <3>4, <3>5
  <2>9. \A other \in Rows : other.clOrdId # f.clOrdId
    BY <1>4 DEF Sends, IsDuplicate, Rows
  <2>10. f.clOrdId \in OwnIds
    <3>1. f \in NewFrames
      BY <1>4, OwnCancels DEF Sends
    <3> QED BY <3>1, OwnTicketsArrive DEF NewFrames, OwnIds
  <2> QED BY <1>1, <1>3, <1>4, <2>1, <2>3, <2>8, <2>9, <2>10 DEF RowOf, RowOfFrame
<1>5. CASE f.type # "NEW"
  BY <1>1, <1>3, <1>5, RowsStay
<1> QED BY <1>4, <1>5

LEMMA RowsAreUpdated ==
    ASSUME NEW frame \in ExecFrame, IsApp(app), app' = reduceFrame(app, frame)
    PROVE  /\ Rows' = {RowAfter(row, frame) : row \in Rows}
           /\ \A row \in Rows : /\ row \in MyOrder /\ RowAfter(row, frame) \in MyOrder
                                /\ SameOrder(RowAfter(row, frame), row)
<1>1. app.myOrders \in Seq(MyOrder)
  BY DEF IsApp
<1>2. \A row \in Rows : row \in MyOrder
  BY <1>1 DEF Rows
<1>3. app'.myOrders = UpdatedRows(app.myOrders, frame)
  BY ExecEffect
<1>4. app'.myOrders = [i \in DOMAIN app.myOrders |-> RowAfter(app.myOrders[i], frame)]
  BY <1>3 DEF UpdatedRows, RowAfter
<1>5. ASSUME NEW row \in Rows
      PROVE  RowAfter(row, frame) \in MyOrder /\ SameOrder(RowAfter(row, frame), row)
  <2>1. frame.filledQuantity \in Int /\ SameOrder(row, row)
    BY DEF ExecFrame, SameOrder
  <2> QED BY <1>2, <1>5, <2>1, NextOrderType, PassiveFillType DEF RowAfter
<1> QED BY <1>2, <1>4, <1>5 DEF Rows

LEMMA RowsKept ==
    ASSUME EngineFacts, StreamsInv, RowsInv, SessionStep
    PROVE  RowsInv'
<1>0. TypeOK /\ IsApp(app)
  BY DEF EngineFacts, IInv, StreamsInv
<1>1. ASSUME NEW f, Sends(f)
      PROVE  RowsInv'
  <2>1. Refs' = Refs /\ orders' = orders /\ Waiting' = Waiting \cup {f}
    BY <1>1 DEF Sends, vars, Refs
  <2>2. CASE f.type = "NEW"
    <3>1. PICK row : row = RowOf(f)
      OBVIOUS
    <3>2. /\ Rows' = Rows \cup {row} /\ row \in MyOrder /\ row.clOrdId \in OwnIds
          /\ \A other \in Rows : other.clOrdId # row.clOrdId
          /\ RowOfFrame(row, f)
      BY <1>0, <1>1, <2>2, <3>1, ARowIsAdded
    <3>3. \A r \in Refs, x \in Rows : StandsFor(x, r)' <=> StandsFor(x, r)
      BY <2>1 DEF StandsFor
    <3>4. \A x, y \in Rows' : x.clOrdId = y.clOrdId => x = y
      BY <3>2 DEF RowsInv
    <3>5. \A r \in Refs : orders[r].orderID \in OwnIds => \E x \in Rows' : StandsFor(x, r)'
      BY <3>2, <3>3 DEF RowsInv
    <3>6. \A g \in Waiting' : g.type = "NEW" => \E x \in Rows' : RowOfFrame(x, g)
      BY <2>1, <3>2 DEF RowsInv
    <3>7. \A x \in Rows' : x \in MyOrder /\ x.clOrdId \in OwnIds
      BY <3>2 DEF RowsInv
    <3> QED BY <2>1, <3>4, <3>5, <3>6, <3>7 DEF RowsInv, StandsFor
  <2>3. CASE f.type # "NEW"
    <3>1. Rows' = Rows
      BY <1>0, <1>1, <2>3, ARowIsAdded
    <3> QED BY <2>1, <2>3, <3>1 DEF RowsInv, StandsFor
  <2> QED BY <2>2, <2>3
<1>2. CASE Works
  <2>1. Rows' = Rows /\ Waiting' \subseteq Waiting /\ LedgerStep /\ TermsStay
    BY <1>2, RowsStay DEF Works
  <2>2. ASSUME NEW r \in Refs'
        PROVE  orders'[r].orderID \in OwnIds => \E row \in Rows : StandsFor(row, r)'
    <3>1. CASE r \in Refs
      <4>1. /\ orders'[r].orderID = orders[r].orderID /\ orders'[r].side = orders[r].side
            /\ orders'[r].orderQty = orders[r].orderQty
            /\ orders'[r].price = orders[r].price /\ orders'[r].peak = orders[r].peak
        BY <2>1, <3>1 DEF TermsStay, SameTerms
      <4> QED BY <3>1, <4>1 DEF RowsInv, StandsFor
    <3>2. CASE r \notin Refs
      <4>1. Arrives /\ r = incoming'
        BY <2>1, <2>2, <3>2, ZenonT(30) DEF LedgerStep, Trade, Arrives, Finishes, Passes
      <4>2. CASE \E t \in OwnTickets : /\ ArrivesAs(t)
                                       /\ newOrderFrame(t.orderID, IntentOf(t)) \in Waiting
        <5>1. PICK t \in OwnTickets : /\ ArrivesAs(t)
                                      /\ newOrderFrame(t.orderID, IntentOf(t)) \in Waiting
          BY <4>2
        <5>2. PICK f : f = newOrderFrame(t.orderID, IntentOf(t))
          OBVIOUS
        <5>3. /\ f.type = "NEW" /\ f.clOrdId = t.orderID /\ f.side = t.side
              /\ f.qty = t.quantity /\ f.price = t.price /\ f.maxFloor = t.peak
          BY <5>2, OwnTicketsArrive
        <5>4. /\ orders'[r].orderID = t.orderID /\ orders'[r].side = t.side
              /\ orders'[r].orderQty = t.quantity /\ orders'[r].price = t.price
              /\ t.peak = 0 => orders'[r].peak = 0
          BY <4>1, <5>1 DEF ArrivesAs
        <5>5. PICK row \in Rows : RowOfFrame(row, f)
          BY <5>1, <5>2, <5>3 DEF RowsInv
        <5>6. StandsFor(row, r)'
          BY <5>3, <5>4, <5>5 DEF StandsFor, RowOfFrame
        <5> QED BY <5>6
      <4> QED BY <1>2, <4>1, <4>2 DEF Works
    <3> QED BY <3>1, <3>2
  <2> QED BY <2>1, <2>2 DEF RowsInv, OwnIds
<1>3. CASE Reads
  <2>1. execRead + 1 \in DOMAIN reports
    BY <1>0, <1>3, ReportsAreNumbered DEF Reads, StreamsInv
  <2>2. PICK frame : frame = ExecOf(execRead + 1)
    OBVIOUS
  <2>3. frame \in ExecFrame
    BY <1>0, <2>1, <2>2, ExecIsFrame DEF EngineFacts
  <2>4. app' = reduceFrame(app, frame)
    BY <1>3, <2>2 DEF Reads
  <2>5. /\ Rows' = {RowAfter(row, frame) : row \in Rows}
        /\ \A row \in Rows : /\ RowAfter(row, frame) \in MyOrder
                             /\ SameOrder(RowAfter(row, frame), row)
    BY <1>0, <2>3, <2>4, RowsAreUpdated
  <2>6. Refs' = Refs /\ orders' = orders /\ Waiting' = Waiting
    BY <1>3 DEF Reads, vars, Refs
  <2>7. \A row \in Rows : LET next == RowAfter(row, frame)
                          IN  /\ next \in Rows' /\ next \in MyOrder
                              /\ next.clOrdId = row.clOrdId /\ next.side = row.side
                              /\ next.originalQty = row.originalQty
                              /\ next.pricePx = row.pricePx
                              /\ next.displayQty = row.displayQty
    BY <2>5 DEF SameOrder
  <2>8. \A x \in Rows' : \E row \in Rows : x = RowAfter(row, frame)
    BY <2>5
  <2>9. \A x, y \in Rows' : x.clOrdId = y.clOrdId => x = y
    BY <2>7, <2>8 DEF RowsInv
  <2>10. \A x \in Rows' : x \in MyOrder /\ x.clOrdId \in OwnIds
    BY <2>7, <2>8 DEF RowsInv
  <2>11. \A r \in Refs : orders[r].orderID \in OwnIds => \E x \in Rows' : StandsFor(x, r)'
    BY <2>6, <2>7 DEF RowsInv, StandsFor
  <2>12. \A f \in Waiting : f.type = "NEW" => \E x \in Rows' : RowOfFrame(x, f)
    BY <2>7 DEF RowsInv, RowOfFrame
  <2> QED BY <2>6, <2>9, <2>10, <2>11, <2>12 DEF RowsInv, OwnIds
<1>4. CASE Turns
  <2>1. Rows' = Rows /\ Waiting' \subseteq Waiting /\ Refs' = Refs /\ orders' = orders
    BY <1>4, RowsStay DEF Turns, vars, Refs
  <2> QED BY <2>1 DEF RowsInv, StandsFor, OwnIds
<1> QED BY <1>1, <1>2, <1>3, <1>4 DEF SessionStep

-----------------------------------------------------------------------------
(* The state of a session. *)

SessionFacts == EngineFacts /\ InboundInv /\ StreamsInv /\ RowsInv

LEMMA TheAppAtFirst ==
    SessionInit => /\ IsApp(app) /\ app.myOrders = <<>> /\ app.tape = <<>>
                   /\ app.sessionVolume = 0 /\ app.sessionTradeCount = 0
                   /\ app.sessionOpenPx = SESSION_OPEN_UNSET
                   /\ app.sessionHighPx = SESSION_OPEN_UNSET
                   /\ app.sessionLowPx = SESSION_OPEN_UNSET
<1> SUFFICES ASSUME SessionInit
             PROVE  /\ IsApp(app) /\ app.myOrders = <<>> /\ app.tape = <<>>
                    /\ app.sessionVolume = 0 /\ app.sessionTradeCount = 0
                    /\ app.sessionOpenPx = SESSION_OPEN_UNSET
                    /\ app.sessionHighPx = SESSION_OPEN_UNSET
                    /\ app.sessionLowPx = SESSION_OPEN_UNSET
  OBVIOUS
<1>1. app = [ connection |-> "open", book |-> EMPTY_BOOK, tape |-> <<>>,
      myOrders |-> <<>>, sessionVolume |-> 0,
      sessionOpenPx |-> SESSION_OPEN_UNSET, sessionHighPx |-> SESSION_OPEN_UNSET,
      sessionLowPx |-> SESSION_OPEN_UNSET, sessionTradeCount |-> 0,
      msgSeqNum |-> 0, lastFrameNanos |-> 0, inspectorLog |-> <<>> ]
  BY DEF SessionInit, reduceConnection, initialState
<1>2. SESSION_OPEN_UNSET \in Int
  BY DEF SESSION_OPEN_UNSET
<1> QED BY <1>1, <1>2 DEF IsApp

LEMMA SessionFactsHold ==
    SessionSpec => []SessionFacts
<1>1. SessionInit => InboundInv /\ StreamsInv /\ RowsInv
  <2> SUFFICES ASSUME SessionInit PROVE InboundInv /\ StreamsInv /\ RowsInv
    OBVIOUS
  <2>1. /\ inbound = <<>> /\ snapshots = <<>> /\ execRead = 0 /\ bookRead = 0
        /\ reports = <<>> /\ orders = <<>>
    BY DEF SessionInit, Init
  <2>2. Rows = {} /\ Waiting = {} /\ Refs = {}
    BY <2>1, TheAppAtFirst DEF Rows, Waiting, Range, Refs
  <2>3. snapshots \in Seq({}) /\ Len(snapshots) = 0 /\ Len(reports) = 0
    BY <2>1
  <2> QED BY <2>1, <2>2, <2>3, TheAppAtFirst DEF InboundInv, StreamsInv, RowsInv
<1>2. EngineFacts /\ InboundInv /\ StreamsInv /\ RowsInv /\ [SessionNext]_sessionVars
         => StreamsInv' /\ RowsInv'
  BY EverySessionStep, StreamsKept, RowsKept
<1> QED
  BY <1>1, <1>2, TheSessionRunsTheEngine, EngineFactsHold, PTL DEF SessionSpec, SessionFacts

-----------------------------------------------------------------------------
(* The tape's tags. *)

\* An id the client's rows know is the id of an order of its own.
LEMMA KnowsItsOwn ==
    ASSUME SessionFacts, NEW r \in Refs
    PROVE  LET id == orders[r].orderID
           IN  /\ id \in Int
               /\ knows(app.myOrders, id) <=> id \in OwnIds
               /\ knows(app.myOrders, id) => SideOf(app.myOrders, id) = orders[r].side
<1> DEFINE id == orders[r].orderID
           rows == app.myOrders
<1>1. id \in Int
  BY HeapHoldsOrders, OrderFields DEF SessionFacts, EngineFacts, IInv
<1>2. ASSUME knows(rows, id)
      PROVE  id \in OwnIds
  BY <1>2 DEF knows, SessionFacts, RowsInv, Rows
<1>3. ASSUME id \in OwnIds
      PROVE  knows(rows, id) /\ SideOf(rows, id) = orders[r].side
  <2>1. PICK row \in Rows : StandsFor(row, r)
    BY <1>3 DEF SessionFacts, RowsInv
  <2>2. PICK i \in DOMAIN rows : rows[i] = row
    BY DEF Rows
  <2>3. id > 0
    <3>1. \A t \in OwnTickets : t.orderID > 0
      BY SessionAssumption, TicketsAssumption DEF ConstructorAccepts
    <3> QED BY <1>3, <3>1 DEF OwnIds
  <2>4. rows[i].clOrdId = id
    BY <2>1, <2>2 DEF StandsFor
  <2>5. PICK j : j = CHOOSE k \in DOMAIN rows : rows[k].clOrdId = id
    OBVIOUS
  <2>6. j \in DOMAIN rows /\ rows[j].clOrdId = id
    BY <2>4, <2>5
  <2>7. rows[j] = row
    <3>1. rows[j] \in Rows
      BY <2>6 DEF Rows
    <3> QED BY <2>1, <2>6, <3>1 DEF StandsFor, SessionFacts, RowsInv
  <2>8. SideOf(rows, id) = row.side
    BY <2>5, <2>7 DEF SideOf
  <2> QED BY <2>1, <2>3, <2>4, <2>8 DEF knows, StandsFor
<1> QED BY <1>1, <1>2, <1>3

\* What the tape says of a trade, with the two orders that made it.
TellsTheTrade(entry, a, p) ==
    /\ a \in Refs /\ p \in Refs /\ orders[a].side # orders[p].side
    /\ entry.aggressorOrderId = orders[a].orderID
    /\ entry.passiveOrderId = orders[p].orderID
    /\ entry.mine = ({orders[a].orderID, orders[p].orderID} \cap OwnIds # {})
    /\ entry.aggressorSide = IF entry.mine THEN orders[a].side ELSE Undefined

TapeInv == \A i \in DOMAIN app.tape : \E a, p : TellsTheTrade(app.tape[i], a, p)

LEMMA ANewEntryIsTrue ==
    ASSUME SessionFacts, NEW i \in DOMAIN reports, reports[i].kind = "FILL"
    PROVE  \E a, p : TellsTheTrade(TapeEntryOf(app, ExecOf(i)), a, p)
<1> DEFINE a == reports[i].order
           p == reports[i].passive
<1>1. TypeOK /\ ReportsAreTrue
  BY DEF SessionFacts, EngineFacts, IInv
<1>2. a \in Refs /\ p \in Refs /\ orders[a].side # orders[p].side
  BY <1>1 DEF ReportsAreTrue, OrderReports
<1>3. PICK frame : frame = ExecOf(i)
  OBVIOUS
<1>4. frame.aggressorOrderId = orders[a].orderID /\ frame.passiveOrderId = orders[p].orderID
  BY <1>1, <1>3, ExecIsFrame DEF OrderReports
<1>5. PICK x, y : x = orders[a].orderID /\ y = orders[p].orderID
  OBVIOUS
<1>6. /\ knows(app.myOrders, x) <=> x \in OwnIds
      /\ knows(app.myOrders, y) <=> y \in OwnIds
      /\ knows(app.myOrders, x) => SideOf(app.myOrders, x) = orders[a].side
      /\ knows(app.myOrders, y) => SideOf(app.myOrders, y) = orders[p].side
  BY <1>2, <1>5, KnowsItsOwn
<1>7. orders[a].side = Opposite(orders[p].side)
  <2>1. orders[a].side \in Sides /\ orders[p].side \in Sides
    BY <1>1, <1>2, HeapHoldsOrders, OrderFields
  <2> QED BY <1>2, <2>1 DEF Sides, Opposite
<1> DEFINE entry == TapeEntryOf(app, frame)
<1>8. /\ entry.aggressorOrderId = x /\ entry.passiveOrderId = y
      /\ entry.mine = (knows(app.myOrders, x) \/ knows(app.myOrders, y))
      /\ entry.aggressorSide = aggressorSideFor(app.myOrders, x, y)
  BY <1>4, <1>5 DEF TapeEntryOf
<1>9. aggressorSideFor(app.myOrders, x, y) =
         IF knows(app.myOrders, x) \/ knows(app.myOrders, y) THEN orders[a].side
                                                             ELSE Undefined
  BY <1>6, <1>7 DEF aggressorSideFor
<1>10. (knows(app.myOrders, x) \/ knows(app.myOrders, y)) = ({x, y} \cap OwnIds # {})
  BY <1>6 DEF knows
<1> HIDE DEF entry
<1>11. TellsTheTrade(entry, a, p)
  BY <1>2, <1>5, <1>8, <1>9, <1>10 DEF TellsTheTrade
<1> QED BY <1>3, <1>11 DEF entry

LEMMA TapeKept ==
    ASSUME SessionFacts, TapeInv, SessionStep
    PROVE  TapeInv'
<1>0. TypeOK /\ IsApp(app) /\ ReportsAreTrue
  BY DEF SessionFacts, EngineFacts, IInv, StreamsInv
<1>1. ASSUME NEW entry, NEW a, NEW p, TellsTheTrade(entry, a, p), TermsStay,
             Refs \subseteq Refs'
      PROVE  TellsTheTrade(entry, a, p)'
  <2>1. \A r \in Refs : /\ orders'[r].orderID = orders[r].orderID
                        /\ orders'[r].side = orders[r].side
    BY <1>1 DEF TermsStay, SameTerms
  <2> QED BY <1>1, <2>1 DEF TellsTheTrade, OwnIds
<1>2. ASSUME UNCHANGED vars
      PROVE  TermsStay /\ Refs \subseteq Refs'
  BY <1>2 DEF vars, TermsStay, SameTerms, Refs
<1>3. CASE app'.tape = app.tape /\ TermsStay /\ Refs \subseteq Refs'
  BY <1>1, <1>3 DEF TapeInv
<1>4. CASE \E f : Sends(f)
  BY <1>0, <1>2, <1>3, <1>4, ARowIsAdded DEF Sends, SameAggregates
<1>5. CASE Works
  <2>1. Refs \subseteq Refs'
    BY <1>5, ZenonT(30) DEF Works, LedgerStep, Trade, Arrives, Finishes, Passes
  <2> QED BY <1>3, <1>5, <2>1 DEF Works
<1>6. CASE Turns
  BY <1>2, <1>3, <1>6 DEF Turns, SameAggregates
<1>7. CASE Reads
  <2>1. PICK k : k = execRead + 1
    OBVIOUS
  <2>2. k \in DOMAIN reports /\ app' = reduceFrame(app, ExecOf(k))
    BY <1>0, <1>7, <2>1, ReportsAreNumbered DEF Reads, SessionFacts, StreamsInv
  <2>3. PICK frame : frame = ExecOf(k)
    OBVIOUS
  <2>4. frame \in ExecFrame /\ (isFill(frame) <=> reports[k].kind = "FILL")
    BY <1>0, <2>2, <2>3, ExecIsFrame
  <2>5. TermsStay /\ Refs \subseteq Refs'
    BY <1>2, <1>7 DEF Reads
  <2>6. CASE ~ isFill(frame)
    <3>1. app'.tape = app.tape
      BY <1>0, <2>2, <2>3, <2>4, <2>6, ExecEffect DEF SameAggregates
    <3> QED BY <1>3, <2>5, <3>1
  <2>7. CASE isFill(frame)
    <3>1. PICK entry : entry = TapeEntryOf(app, frame)
      OBVIOUS
    <3>2. \E a, p : TellsTheTrade(entry, a, p)
      BY <2>2, <2>3, <2>4, <2>7, <3>1, ANewEntryIsTrue
    <3>3. app'.tape = Prepend(entry, app.tape, TAPE_CAP)
      BY <1>0, <2>2, <2>3, <2>4, <2>7, <3>1, ExecEffect DEF Traded
    <3>4. PICK n : n = Least(TAPE_CAP, Len(app.tape) + 1)
      OBVIOUS
    <3>5. app'.tape = [i \in 1 .. n |-> IF i = 1 THEN entry ELSE app.tape[i - 1]]
      BY <3>3, <3>4 DEF Prepend
    <3>6. /\ Len(app.tape) \in Nat /\ DOMAIN app.tape = 1 .. Len(app.tape)
          /\ n \in Nat /\ n <= Len(app.tape) + 1
      BY <1>0, <3>4, CapsAssumption DEF IsApp, Least
    <3>7. \A i \in 1 .. n : i = 1 \/ i - 1 \in DOMAIN app.tape
      BY <3>6
    <3>8. \A i \in DOMAIN app'.tape : \E a, p : TellsTheTrade(app'.tape[i], a, p)
      BY <3>2, <3>5, <3>7 DEF TapeInv
    <3> SUFFICES ASSUME NEW i \in DOMAIN app'.tape
                 PROVE  \E a, p : TellsTheTrade(app.tape[i], a, p)'
      BY DEF TapeInv
    <3>9. PICK x : x = app'.tape[i]
      OBVIOUS
    <3>10. PICK a, p : TellsTheTrade(x, a, p)
      BY <3>8, <3>9
    <3>11. TellsTheTrade(x, a, p)'
      BY <1>1, <2>5, <3>10
    <3> QED BY <3>9, <3>11 DEF TellsTheTrade, OwnIds
  <2> QED BY <2>6, <2>7
<1> QED BY <1>4, <1>5, <1>6, <1>7 DEF SessionStep

(***************************************************************************)
(* When clients do not reuse ids, the tape tags exactly the trades of this *)
(* client's own orders, and with the side of the order that came later     *)
(* (aggressorSideFor), however many frames were lost.                      *)
(***************************************************************************)
THEOREM TheTapeTagsItsOwnTrades ==
    ASSUME ~ ReuseIds
    PROVE  SessionSpec => []AggressorTagIsTrue
<1>1. SessionInit => TapeInv
  BY TheAppAtFirst DEF TapeInv
<1>2. SessionFacts /\ TapeInv /\ [SessionNext]_sessionVars => TapeInv'
  BY EverySessionStep, TapeKept DEF SessionFacts
<1>3. SessionFacts /\ TapeInv => AggressorTagIsTrue
  <2> SUFFICES ASSUME SessionFacts, TapeInv, NEW i \in DOMAIN app.tape
               PROVE  LET entry == app.tape[i]
                      IN  /\ entry.mine = ({entry.aggressorOrderId, entry.passiveOrderId}
                                             \cap OwnIds # {})
                          /\ entry.aggressorSide = IF entry.mine
                                                   THEN SideOfId(entry.aggressorOrderId)
                                                   ELSE Undefined
    BY DEF AggressorTagIsTrue
  <2>1. PICK a, p : TellsTheTrade(app.tape[i], a, p)
    BY DEF TapeInv
  <2>2. \A r \in Refs : orders[r].orderID = orders[a].orderID => r = a
    BY <2>1 DEF TellsTheTrade, SessionFacts, EngineFacts, IndexInv, IdsDiffer
  <2>3. (CHOOSE r \in Refs : orders[r].orderID = orders[a].orderID) = a
    BY <2>1, <2>2 DEF TellsTheTrade
  <2> QED BY <2>1, <2>3 DEF TellsTheTrade, SideOfId
<1> QED BY <1>1, <1>2, <1>3, SessionFactsHold, PTL DEF SessionSpec

-----------------------------------------------------------------------------
(* The session's figures. *)

\* Volume, count, open, high and low are those of the first c trades, and the tape
\* holds the newest of them.
Tallies(a, ts, c) ==
    /\ \A k \in 1 .. c : ts[k].price \in Nat \ {0} /\ ts[k].quantity \in Nat
    /\ a.sessionTradeCount = c /\ a.sessionVolume = QuantityIn(ts, 1 .. c)
    /\ c = 0 => /\ a.sessionOpenPx = SESSION_OPEN_UNSET
                /\ a.sessionHighPx = SESSION_OPEN_UNSET
                /\ a.sessionLowPx = SESSION_OPEN_UNSET
    /\ c > 0 => /\ a.sessionOpenPx = ts[1].price
                /\ \E k \in 1 .. c : a.sessionHighPx = ts[k].price
                /\ \E k \in 1 .. c : a.sessionLowPx = ts[k].price
    /\ \A k \in 1 .. c : a.sessionLowPx <= ts[k].price /\ ts[k].price <= a.sessionHighPx
    /\ Len(a.tape) = Least(TAPE_CAP, c)
    /\ \A i \in DOMAIN a.tape : a.tape[i].tradeId = c + 1 - i

StatsInv == ~ missed => Tallies(app, trades, Cardinality(Fills(execRead)))

LEMMA TalliesStay ==
    ASSUME NEW a, NEW next, NEW ts, NEW us, NEW c \in Nat, Tallies(a, ts, c),
           SameAggregates(next, a), \A k \in 1 .. c : us[k] = ts[k]
    PROVE  Tallies(next, us, c)
<1>1. IsFiniteSet(1 .. c)
  BY FS_Interval
<1>2. \A k \in 1 .. c : ts[k].quantity \in Int /\ us[k].quantity = ts[k].quantity
  BY DEF Tallies
<1>3. QuantityIn(us, 1 .. c) = QuantityIn(ts, 1 .. c)
  BY <1>1, <1>2, QuantityInTheSame
<1>4. c > 0 => 1 \in 1 .. c
  OBVIOUS
<1> QED BY <1>3, <1>4 DEF Tallies, SameAggregates

LEMMA OneMoreTrade ==
    ASSUME NEW a, IsApp(a), NEW next, IsApp(next), NEW frame, NEW ts, NEW c \in Nat,
           NEW d \in Nat, d = c + 1, Tallies(a, ts, c), Traded(next, a, frame),
           TapeEntryOf(a, frame).tradeId = d, frame.price = ts[d].price,
           frame.filledQuantity = ts[d].quantity,
           ts[d].price \in Nat \ {0}, ts[d].quantity \in Nat
    PROVE  Tallies(next, ts, d)
<1> DEFINE price(k) == ts[k].price
<1>1. 1 .. d = (1 .. c) \cup {d} /\ d \notin 1 .. c /\ d > 0 /\ d # 0
  OBVIOUS
<1>2. \A k \in 1 .. d : price(k) \in Nat \ {0} /\ ts[k].quantity \in Nat
  BY <1>1 DEF Tallies
<1>3. next.sessionTradeCount = d
  BY DEF Tallies, Traded
<1>4. next.sessionVolume = QuantityIn(ts, 1 .. d)
  <2>1. IsFiniteSet(1 .. c)
    BY FS_Interval
  <2>2. \A k \in (1 .. c) \cup {d} : ts[k].quantity \in Int
    BY <1>1, <1>2
  <2>3. QuantityIn(ts, (1 .. c) \cup {d}) = QuantityIn(ts, 1 .. c) + ts[d].quantity
    BY <1>1, <2>1, <2>2, QuantityInOneMore
  <2> QED BY <1>1, <2>3 DEF Tallies, Traded
<1>5. ASSUME c > 0
      PROVE  /\ next.sessionOpenPx = price(1)
             /\ \E k \in 1 .. d : next.sessionHighPx = price(k)
             /\ \E k \in 1 .. d : next.sessionLowPx = price(k)
             /\ \A k \in 1 .. d : next.sessionLowPx <= price(k) /\ price(k) <= next.sessionHighPx
  <2>1. 1 \in 1 .. c /\ 1 \in 1 .. d
    BY <1>5
  <2>2. /\ a.sessionOpenPx = price(1) /\ price(1) \in Nat \ {0}
        /\ \E k \in 1 .. c : a.sessionHighPx = price(k)
        /\ \E k \in 1 .. c : a.sessionLowPx = price(k)
        /\ \A k \in 1 .. c : a.sessionLowPx <= price(k) /\ price(k) <= a.sessionHighPx
    BY <1>1, <1>2, <1>5, <2>1 DEF Tallies
  <2>3. a.sessionHighPx \in Nat \ {0} /\ a.sessionLowPx \in Nat \ {0}
    BY <1>1, <1>2, <2>2
  <2>4. /\ next.sessionOpenPx = price(1)
        /\ next.sessionHighPx = Greatest(a.sessionHighPx, price(d))
        /\ next.sessionLowPx = Least(a.sessionLowPx, price(d))
    BY <2>2, <2>3 DEF Traded
  <2>5. \E k \in 1 .. d : next.sessionHighPx = price(k)
    BY <1>1, <2>2, <2>4 DEF Greatest
  <2>6. \E k \in 1 .. d : next.sessionLowPx = price(k)
    BY <1>1, <2>2, <2>4 DEF Least
  <2>7. price(d) \in Nat
    BY <1>1, <1>2
  <2>8. /\ a.sessionHighPx <= next.sessionHighPx /\ price(d) <= next.sessionHighPx
        /\ next.sessionLowPx <= a.sessionLowPx /\ next.sessionLowPx <= price(d)
        /\ next.sessionHighPx \in Nat /\ next.sessionLowPx \in Nat
    BY <2>3, <2>4, <2>7 DEF Greatest, Least
  <2>9. \A k \in 1 .. d : next.sessionLowPx <= price(k) /\ price(k) <= next.sessionHighPx
    <3>1. ASSUME NEW k \in 1 .. c
          PROVE  next.sessionLowPx <= price(k) /\ price(k) <= next.sessionHighPx
      <4>1. price(k) \in Nat /\ a.sessionLowPx <= price(k) /\ price(k) <= a.sessionHighPx
        BY <1>1, <1>2, <2>2
      <4> HIDE DEF price
      <4> QED BY <2>3, <2>8, <4>1
    <3> QED BY <1>1, <2>8, <3>1
  <2> QED BY <2>4, <2>5, <2>6, <2>9
<1>6. /\ next.sessionOpenPx = price(1)
      /\ \E k \in 1 .. d : next.sessionHighPx = price(k)
      /\ \E k \in 1 .. d : next.sessionLowPx = price(k)
      /\ \A k \in 1 .. d : next.sessionLowPx <= price(k) /\ price(k) <= next.sessionHighPx
  <2>1. CASE c = 0
    <3>1. /\ a.sessionOpenPx = SESSION_OPEN_UNSET /\ a.sessionHighPx = SESSION_OPEN_UNSET
      BY <2>1 DEF Tallies
    <3>2. /\ next.sessionOpenPx = price(d) /\ next.sessionHighPx = price(d)
          /\ next.sessionLowPx = price(d)
      BY <3>1 DEF Traded, SESSION_OPEN_UNSET
    <3>3. d = 1 /\ 1 .. d = {1}
      BY <2>1
    <3> QED BY <2>1, <3>2, <3>3, <1>2
  <2> QED BY <1>5, <2>1
<1>7. /\ Len(next.tape) = Least(TAPE_CAP, d)
      /\ \A i \in DOMAIN next.tape : next.tape[i].tradeId = d + 1 - i
  <2>1. PICK entry, n : entry = TapeEntryOf(a, frame) /\ n = Least(TAPE_CAP, Len(a.tape) + 1)
    OBVIOUS
  <2>2. next.tape = [i \in 1 .. n |-> IF i = 1 THEN entry ELSE a.tape[i - 1]]
    BY <2>1 DEF Traded, Prepend
  <2>3. /\ Len(a.tape) = Least(TAPE_CAP, c) /\ TAPE_CAP \in Nat \ {0}
        /\ \A i \in DOMAIN a.tape : a.tape[i].tradeId = c + 1 - i
        /\ DOMAIN a.tape = 1 .. Len(a.tape) /\ Len(a.tape) \in Nat
    BY CapsAssumption DEF Tallies, IsApp
  <2>4. n = Least(TAPE_CAP, d) /\ n \in Nat /\ n <= Len(a.tape) + 1
    BY <2>1, <2>3 DEF Least
  <2>5. Len(next.tape) = n /\ DOMAIN next.tape = 1 .. n
    <3>1. next.tape \in Seq(TapeEntry)
      BY DEF IsApp
    <3>2. DOMAIN next.tape = 1 .. n
      BY <2>2
    <3> QED BY <2>4, <3>1, <3>2
  <2>6. ASSUME NEW i \in 1 .. n
        PROVE  next.tape[i].tradeId = d + 1 - i
    <3>1. CASE i = 1
      BY <2>1, <2>2, <3>1
    <3>2. CASE i # 1
      <4>1. i - 1 \in DOMAIN a.tape /\ next.tape[i] = a.tape[i - 1]
        BY <2>2, <2>3, <2>4, <3>2
      <4> QED BY <2>3, <4>1
    <3> QED BY <3>1, <3>2
  <2> QED BY <2>4, <2>5, <2>6
<1> QED BY <1>1, <1>2, <1>3, <1>4, <1>6, <1>7 DEF Tallies

\* What has been traded stays so.
LEMMA TradesStay ==
    ASSUME TypeOK, LedgerStep
    PROVE  \A k \in DOMAIN trades : trades'[k] = trades[k]
<1>1. PICK S : trades \in Seq(S)
  BY DEF TypeOK
<1>2. trades' = trades \/ \E d : trades' = Append(trades, d)
  <2>1. ASSUME NEW a, NEW h, NEW n, NEW price, Trade(a, h, n, price)
        PROVE  \E d : trades' = Append(trades, d)
    BY <2>1 DEF Trade, Execute
  <2>2. CASE Arrives \/ Finishes \/ Passes
    BY <2>2 DEF Arrives, Finishes, Passes
  <2> QED BY <2>1, <2>2 DEF LedgerStep
<1> QED BY <1>1, <1>2, OneMoreElement

\* The client has been told of some of the trades.
LEMMA TradesAreCounted ==
    ASSUME SessionFacts, NEW n \in 0 .. Len(reports)
    PROVE  /\ Cardinality(Fills(n)) \in Nat
           /\ \A k \in 1 .. Cardinality(Fills(n)) : k \in DOMAIN trades
<1>1. TypeOK /\ FillsAreTrades
  BY DEF SessionFacts, EngineFacts, IInv
<1>2. /\ Cardinality(Fills(n)) \in Nat
      /\ Cardinality(Fills(n)) <= Cardinality(Fills(Len(reports)))
  BY <1>1, FillsUpTo
<1>3. Cardinality(Fills(Len(reports))) = Len(trades) /\ Len(trades) \in Nat
      /\ DOMAIN trades = 1 .. Len(trades)
  BY <1>1 DEF FillsAreTrades, TypeOK
<1> QED BY <1>2, <1>3

LEMMA StatsKept ==
    ASSUME SessionFacts, StatsInv, SessionStep
    PROVE  StatsInv'
<1>0. /\ TypeOK /\ IsApp(app) /\ ReportsAreTrue /\ FillsAreTrades
      /\ execRead \in 0 .. Len(reports) /\ Len(reports) \in Nat
  BY ReportsAreNumbered DEF SessionFacts, EngineFacts, IInv, StreamsInv
<1>1. PICK c : c = Cardinality(Fills(execRead))
  OBVIOUS
<1>2. c \in Nat /\ \A k \in 1 .. c : k \in DOMAIN trades
  BY <1>0, <1>1, TradesAreCounted
<1>3. ASSUME NEW d, d = Cardinality(Fills(execRead)'),
             ~ missed' => Tallies(app', trades', d)
      PROVE  StatsInv'
  BY <1>3 DEF StatsInv, Fills
<1>4. ASSUME SameAggregates(app', app), Fills(execRead)' = Fills(execRead),
             missed => missed', \A k \in 1 .. c : trades'[k] = trades[k]
      PROVE  StatsInv'
  <2>1. PICK next, us : next = app' /\ us = trades'
    OBVIOUS
  <2>2. ~ missed' => Tallies(app, trades, c)
    BY <1>1, <1>4 DEF StatsInv
  <2>3. ~ missed' => Tallies(next, us, c)
    BY <1>2, <1>4, <2>1, <2>2, TalliesStay
  <2> QED BY <1>1, <1>3, <1>4, <2>1, <2>3
<1>5. CASE \E f : Sends(f)
  <2>1. SameAggregates(app', app) /\ UNCHANGED <<reports, trades, execRead, missed>>
    BY <1>0, <1>5, ARowIsAdded DEF Sends, vars
  <2>2. Fills(execRead)' = Fills(execRead)
    BY <2>1 DEF Fills
  <2> QED BY <1>4, <2>1, <2>2
<1>6. CASE Works
  <2>1. /\ SameAggregates(app', app) /\ UNCHANGED <<execRead, missed>>
        /\ LedgerStep
    BY <1>6 DEF Works, SameAggregates
  <2>2. \A k \in 1 .. c : trades'[k] = trades[k]
    BY <1>0, <1>2, <2>1, TradesStay
  <2>3. PICK n \in 0 .. Len(reports) : n = execRead
    BY <1>0
  <2>4. Fills(n)' = Fills(n)
    BY <1>0, <2>1, ReportsStay, FillsStay
  <2>5. Fills(execRead)' = Fills(execRead)
    BY <2>1, <2>3, <2>4 DEF Fills
  <2> QED BY <1>4, <2>1, <2>2, <2>5
<1>7. CASE Turns
  <2>1. CASE missed'
    BY <2>1 DEF StatsInv
  <2>2. CASE ~ missed'
    <3>1. /\ SameAggregates(app', app) /\ UNCHANGED <<reports, trades, execRead>>
          /\ missed => missed'
      BY <1>7, <2>2 DEF Turns, vars
    <3>2. Fills(execRead)' = Fills(execRead)
      BY <3>1 DEF Fills
    <3> QED BY <1>4, <3>1, <3>2
  <2> QED BY <2>1, <2>2
<1>8. CASE Reads
  <2>1. PICK k : k = execRead + 1
    OBVIOUS
  <2>2. /\ k \in DOMAIN reports /\ app' = reduceFrame(app, ExecOf(k)) /\ execRead' = k
        /\ UNCHANGED <<reports, trades, missed>> /\ execRead < Len(reports)
        /\ k \in 0 .. Len(reports)
    BY <1>0, <1>8, <2>1, ReportsAreNumbered DEF Reads, vars
  <2>3. PICK frame : frame = ExecOf(k)
    OBVIOUS
  <2>4. frame \in ExecFrame /\ (isFill(frame) <=> reports[k].kind = "FILL")
    BY <1>0, <2>2, <2>3, ExecIsFrame
  <2>5. Fills(execRead)' = Fills(k)
    BY <2>2 DEF Fills
  <2>6. /\ Fills(k) = IF reports[k].kind = "FILL" THEN Fills(execRead) \cup {k}
                                                  ELSE Fills(execRead)
        /\ k \notin Fills(execRead) /\ IsFiniteSet(Fills(execRead))
    BY <1>0, <2>1, <2>2, FillsUpTo
  <2>7. CASE ~ isFill(frame)
    <3>1. SameAggregates(app', app)
      BY <1>0, <2>2, <2>3, <2>4, <2>7, ExecEffect
    <3> QED BY <1>4, <2>2, <2>4, <2>5, <2>6, <2>7, <3>1
  <2>8. CASE isFill(frame)
    <3>1. PICK d : d = Cardinality(Fills(k))
      OBVIOUS
    <3>2. d = c + 1 /\ d \in Nat
      <4>1. PICK S : S = Fills(execRead)
        OBVIOUS
      <4>2. Cardinality(S \cup {k}) = Cardinality(S) + 1
        BY <2>6, <4>1, FS_AddElement
      <4>3. Fills(k) = S \cup {k}
        BY <2>4, <2>6, <2>8, <4>1
      <4> QED BY <1>1, <1>2, <3>1, <4>1, <4>2, <4>3
    <3>3. PICK next : next = reduceFrame(app, frame)
      OBVIOUS
    <3>4. IsApp(next) /\ Traded(next, app, frame)
      BY <1>0, <2>4, <2>8, <3>3, ExecEffect
    <3>5. k \in Fills(Len(reports))
      BY <2>2, <2>4, <2>8, ReportsAreNumbered, <1>0 DEF Fills
    <3>6. trades[d].quantity = reports[k].quantity /\ trades[d].price = reports[k].price
      BY <1>0, <3>1, <3>5 DEF FillsAreTrades
    <3>7. reports[k].quantity \in Nat \ {0} /\ reports[k].price \in Nat \ {0}
      BY <1>0, <2>2, <2>4, <2>8 DEF ReportsAreTrue
    <3>8. /\ frame.price = trades[d].price /\ frame.filledQuantity = trades[d].quantity
          /\ TapeEntryOf(app, frame).tradeId = d
      BY <1>0, <2>2, <2>3, <2>4, <2>8, <3>1, <3>6, ExecIsFrame DEF TapeEntryOf
    <3>9. ~ missed => Tallies(app, trades, c)
      BY <1>1 DEF StatsInv
    <3>10. ~ missed => Tallies(next, trades, d)
      BY <1>0, <1>2, <3>2, <3>4, <3>6, <3>7, <3>8, <3>9, OneMoreTrade
    <3> QED BY <1>3, <2>2, <2>3, <2>5, <3>1, <3>3, <3>10
  <2> QED BY <2>7, <2>8
<1> QED BY <1>5, <1>6, <1>7, <1>8 DEF SessionStep

(***************************************************************************)
(* For a client that has missed nothing, the session figures are those of  *)
(* all the trades it has been told of, and the tape holds the newest of    *)
(* them, however many it has forgotten (applyExec): the aggregates outlive *)
(* the capped tape.                                                        *)
(***************************************************************************)
THEOREM TheFiguresOutliveTheTape == SessionSpec => []SessionMatchesTrades
<1>1. SessionInit => StatsInv
  <2> SUFFICES ASSUME SessionInit PROVE Tallies(app, trades, Cardinality(Fills(execRead)))
    BY DEF StatsInv
  <2>1. Fills(execRead) = {} /\ 1 .. 0 = {}
    BY DEF SessionInit, Fills
  <2>2. Least(TAPE_CAP, 0) = 0
    BY CapsAssumption DEF Least
  <2>3. Cardinality(Fills(execRead)) = 0
    BY <2>1, FS_EmptySet
  <2>4. Tallies(app, trades, 0)
    BY <2>1, <2>2, TheAppAtFirst, QuantityInNothing DEF Tallies
  <2> QED BY <2>3, <2>4
<1>2. SessionFacts /\ StatsInv /\ [SessionNext]_sessionVars => StatsInv'
  BY EverySessionStep, StatsKept DEF SessionFacts
<1>3. SessionFacts /\ StatsInv => SessionMatchesTrades
  <2> SUFFICES ASSUME SessionFacts, StatsInv, ~ missed PROVE SessionMatchesTrades
    BY DEF SessionMatchesTrades
  <2>1. PICK c : c = Cardinality(Fills(execRead))
    OBVIOUS
  <2>2. c \in Nat /\ Tallies(app, trades, c)
    BY <2>1, TradesAreCounted DEF SessionFacts, StreamsInv, StatsInv
  <2>3. TradesSeen = 1 .. c /\ Cardinality(TradesSeen) = c
    <3>1. TradesSeen = 1 .. c
      BY <2>1 DEF TradesSeen
    <3>2. Cardinality(1 .. c) = c
      BY <2>2, FS_Interval
    <3> QED BY <3>1, <3>2
  <2>4. app.sessionVolume = MapThenSumSet(LAMBDA i : trades[i].quantity, TradesSeen)
    BY <2>2, <2>3 DEF Tallies, QuantityIn
  <2> DEFINE prices == {trades[i].price : i \in TradesSeen}
  <2>5. IF prices = {}
        THEN {app.sessionOpenPx, app.sessionHighPx, app.sessionLowPx} = {SESSION_OPEN_UNSET}
        ELSE /\ app.sessionOpenPx = trades[1].price
             /\ app.sessionHighPx = Max(prices) /\ app.sessionLowPx = Min(prices)
    <3>1. CASE c = 0
      <4>1. prices = {}
        BY <2>3, <3>1
      <4> QED BY <2>2, <3>1, <4>1 DEF Tallies
    <3>2. CASE c > 0
      <4>1. /\ app.sessionHighPx \in prices /\ app.sessionLowPx \in prices
            /\ \A x \in prices : x \in Nat /\ app.sessionLowPx <= x /\ x <= app.sessionHighPx
        BY <2>2, <2>3, <3>2 DEF Tallies
      <4> HIDE DEF prices
      <4>2. Max(prices) = app.sessionHighPx
        BY <4>1 DEF Max
      <4>3. Min(prices) = app.sessionLowPx
        BY <4>1 DEF Min
      <4> QED BY <2>2, <3>2, <4>1, <4>2, <4>3 DEF Tallies
    <3>3. c = 0 \/ c > 0
      BY <2>2
    <3> HIDE DEF prices
    <3> QED BY <3>1, <3>2, <3>3
  <2>6. /\ app.sessionTradeCount = c /\ Len(app.tape) = Least(TAPE_CAP, c)
        /\ \A i \in DOMAIN app.tape : app.tape[i].tradeId = c + 1 - i
    BY <2>2 DEF Tallies
  <2> QED BY <2>3, <2>4, <2>5, <2>6 DEF SessionMatchesTrades
<1> QED BY <1>1, <1>2, <1>3, SessionFactsHold, PTL DEF SessionSpec

-----------------------------------------------------------------------------
(* Rows are never ahead of the engine. *)

\* What has become of an order does not change any more.
LEMMA OverStays ==
    ASSUME IInv, StatusInv, ReportStep, TermsStay, NEW r \in Refs
    PROVE  /\ r \in Refs'
           /\ \A status \in {"FILLED", "CANCELLED"} :
                 orders[r].status = status => orders'[r].status = status
           /\ IsExpired(r) => IsExpired(r)'
<1>0. /\ TypeOK /\ StatusIsTrue(r) /\ orders[r].quantity \in Nat
  BY StatusTypes DEF IInv, StatusInv
<1>1. orders'[r].tif = orders[r].tif
  BY DEF TermsStay, SameTerms
<1>2. ASSUME NEW a, NEW h, NEW n, NEW price, Deals(a, h, n, price)
      PROVE  /\ r \in Refs'
             /\ \A status \in {"FILLED", "CANCELLED"} :
                   orders[r].status = status => orders'[r].status = status
             /\ IsExpired(r) => IsExpired(r)'
  <2>1. Trade(a, h, n, price)
    BY <1>2 DEF Deals
  <2>2. /\ a \in Refs /\ h \in Refs /\ Refs' = Refs
        /\ n \in 1 .. orders[a].quantity /\ n \in 1 .. orders[h].quantity
        /\ \A q \in {a, h} : q \in Resting \/ Busy(q)
        /\ \A q \in Refs \ {a, h} : orders'[q] = orders[q]
        /\ pc' = pc /\ incoming' = incoming
    BY <2>1 DEF Trade, Busy
  <2>3. Resting' \subseteq Resting
    BY <2>1 DEF Trade, Resting
  <2>4. orders[r].status \in {"FILLED", "CANCELLED"} \/ IsExpired(r) => r \notin {a, h}
    BY <1>0, <2>2 DEF StatusIsTrue, IsExpired
  <2> QED BY <2>2, <2>3, <2>4 DEF IsExpired, Busy, Dealing
<1>3. ASSUME NEW t \in Tickets, ArrivesAs(t)
      PROVE  /\ r \in Refs' /\ orders'[r] = orders[r]
             /\ IsExpired(r) => IsExpired(r)'
  <2>1. /\ r \in Refs' /\ orders'[r] = orders[r] /\ Resting' = Resting /\ r # incoming'
    BY <1>3 DEF ArrivesAs, Arrives
  <2> QED BY <2>1 DEF IsExpired, Busy, Dealing
<1>4. CASE FinishesAs
  <2>1. /\ Refs' = Refs /\ incoming' = incoming /\ Busy(incoming) /\ ~ Dealing'
        /\ orders'[r].quantity = orders[r].quantity
        /\ orders'[r].status = IF r = incoming /\ Remains THEN "EXPIRED" ELSE orders[r].status
        /\ Resting' \subseteq Resting \cup {incoming}
    BY <1>4 DEF FinishesAs, Finishes, Busy, Dealing
  <2>2. orders[r].status = "CANCELLED" \/ IsExpired(r) => r # incoming
    BY <1>0, <2>1 DEF StatusIsTrue, IsExpired
  <2>3. orders[r].status = "FILLED" => ~ (r = incoming /\ Remains)
    BY <1>0 DEF StatusIsTrue, Remains
  <2>4. IsExpired(r) => IsExpired(r)'
    BY <1>1, <2>1, <2>2 DEF IsExpired, Busy
  <2> QED BY <2>1, <2>2, <2>3, <2>4
<1>5. ASSUME NEW id, Withdraws(id)
      PROVE  /\ r \in Refs'
             /\ \A status \in {"FILLED", "CANCELLED"} :
                   orders[r].status = status => orders'[r].status = status
             /\ IsExpired(r) => IsExpired(r)'
  <2>1. PICK c \in Resting : /\ c \in Refs /\ Resting' = Resting \ {c}
                             /\ orders'[c].status = "CANCELLED"
                             /\ \A q \in Refs \ {c} : orders'[q] = orders[q]
    BY <1>5 DEF Withdraws
  <2>2. Refs' = Refs /\ pc = "idle" /\ pc' = "idle"
    BY <1>5 DEF Withdraws, Passes
  <2>3. orders[c].quantity > 0
    BY <2>1 DEF IInv, BookHoldsLiveOrders, LitLevelsHoldLiveOrders, PegPoolsHoldLiveOrders,
                Resting, LitOrders, PegOrders, IsLive
  <2>4. orders[r].status \in {"FILLED", "CANCELLED"} \/ IsExpired(r) => r # c
    BY <1>0, <2>1, <2>3 DEF StatusIsTrue, IsExpired
  <2> QED BY <2>1, <2>2, <2>4 DEF IsExpired, Busy, Dealing
<1>6. CASE Idles \/ \E id : Refuses(id)
  <2>1. /\ orders' = orders /\ Refs' = Refs /\ incoming' = incoming
        /\ (Dealing' <=> Dealing) /\ Resting' = Resting /\ (pc = "idle" => pc' = "idle")
    BY <1>6 DEF Idles, Refuses, Passes
  <2> QED BY <2>1 DEF IsExpired, Busy
<1> QED BY <1>2, <1>3, <1>4, <1>5, <1>6 DEF ReportStep

\* The later, the less is left.
LEMMA LeftShrinks ==
    ASSUME TypeOK, StoryInv, NEW r \in Refs, NEW n, NEW m, n \in Nat, m \in Nat, n <= m
    PROVE  Left(r, m) <= Left(r, n) /\ Left(r, m) \in Nat /\ Left(r, n) \in Nat
<1>1. LaterFills(r, m) \subseteq LaterFills(r, n)
  BY ReportsAreNumbered DEF LaterFills
<1>2. QuantityIn(reports, LaterFills(r, m)) <= QuantityIn(reports, LaterFills(r, n))
  BY <1>1, LaterFillsAre, QuantityInIsNatural
<1> QED BY <1>2, LaterFillsAre, LeftIsEnough DEF Left

\* A row and the engine, n reports having reached the client.
NotAhead(row, n) ==
    /\ \A r \in Refs : orders[r].orderID = row.clOrdId => Left(r, n) <= row.remainingQty
    /\ Arrived(row) \/ row.remainingQty = row.originalQty
    /\ row.status \in {"FILLED", "CANCELLED"} =>
          \E r \in Refs : orders[r].orderID = row.clOrdId /\ orders[r].status = row.status
    /\ row.status = "EXPIRED" =>
          \E r \in Refs : orders[r].orderID = row.clOrdId /\ IsExpired(r)

AheadInv == \A row \in Rows : NotAhead(row, execRead)

\* The engine has more than the client has heard of.
LEMMA HearingLittle ==
    ASSUME SessionFacts, NEW row, NEW n \in Nat, NEW m \in Nat, n <= m,
           row.remainingQty \in Int, NotAhead(row, n)
    PROVE  NotAhead(row, m)
<1>1. TypeOK /\ StoryInv
  BY DEF SessionFacts, EngineFacts, IInv
<1>2. \A r \in Refs : Left(r, m) <= Left(r, n) /\ Left(r, m) \in Nat /\ Left(r, n) \in Nat
  BY <1>1, LeftShrinks
<1> QED BY <1>2 DEF NotAhead

\* A report brings a row no further than the engine was when it made the report.
LEMMA ReadingStaysBehind ==
    ASSUME SessionFacts, ~ ReuseIds, NEW row \in Rows, NEW n \in Nat, NEW k, k = n + 1,
           k \in DOMAIN reports, NotAhead(row, n), NEW frame, frame = ExecOf(k)
    PROVE  NotAhead(RowAfter(row, frame), k)
<1> DEFINE report == reports[k]
<1>0. /\ TypeOK /\ StoryInv /\ ReportsAreTrue /\ StatusInv /\ IInv
      /\ \A q, r \in Refs : q # r => orders[q].orderID # orders[r].orderID
  BY DEF SessionFacts, EngineFacts, IInv, IndexInv, IdsDiffer
<1>1. row \in MyOrder /\ row.remainingQty \in Int
  BY DEF SessionFacts, RowsInv, MyOrder
<1>2. NotAhead(row, k)
  BY <1>1, HearingLittle
<1>3. n < Len(reports) /\ k \in Nat /\ EndIsTrue(k)
  BY <1>0, ReportsAreNumbered DEF StatusInv
<1>4. \A r \in Refs : /\ orders[r].quantity \in Nat /\ Left(r, k) \in Nat
                      /\ orders[r].quantity <= Left(r, k)
                      /\ orders[r].quantity = 0 => orders[r].status = "FILLED"
  BY <1>0, LeftIsEnough DEF StatusInv, StatusIsTrue
<1>5. CASE isTerminal(row.status)
  <2>1. RowAfter(row, frame) = row
    BY <1>5 DEF RowAfter, nextOrder, passiveFill
  <2> QED BY <1>2, <2>1
<1>6. CASE ~ isTerminal(row.status) /\ row.clOrdId = frame.orderId
  <2>1. PICK status, remaining :
           /\ status = IF frame.execType = "ORDER_ACCEPTED" /\ row.status = "PARTIALLY_FILLED"
                       THEN row.status ELSE StatusReported[frame.execType]
           /\ remaining = RemainingReported(row, frame)
    OBVIOUS
  <2>2. PICK x : x = RowAfter(row, frame)
    OBVIOUS
  <2>3. x = [row EXCEPT !.status = status, !.remainingQty = remaining]
    BY <1>6, <2>1, <2>2 DEF RowAfter, nextOrder
  <2>4. /\ x.clOrdId = row.clOrdId /\ x.status = status /\ x.remainingQty = remaining
        /\ x.originalQty = row.originalQty
    BY <1>1, <2>3 DEF MyOrder
  <2>5. CASE report.kind \in OrderReports
    <3>1. PICK o : o = report.order
      OBVIOUS
    <3>2. /\ o \in Refs /\ orders[o].orderID = row.clOrdId /\ report.remaining = Left(o, k)
          /\ frame.remainingQuantity = report.remaining
          /\ \A r \in Refs : orders[r].orderID = row.clOrdId => r = o
      BY <1>0, <1>6, <2>5, <3>1, ExecIsFrame DEF ReportsAreTrue
    <3>3. remaining = Left(o, k) /\ (status = "FILLED" => Left(o, k) = 0)
          /\ (status = "EXPIRED" => report.kind = "EXPIRED")
          /\ status \in {"OPEN", "PARTIALLY_FILLED", "FILLED", "EXPIRED"}
      <4>1. CASE report.kind = "FILL"
        <5>1. frame.execType = IF report.remaining = 0 THEN "ORDER_FILLED"
                                                        ELSE "ORDER_PARTIALLY_FILLED"
          BY <1>0, <4>1, ExecIsFrame DEF FillType
        <5> QED BY <2>1, <3>2, <4>1, <5>1 DEF RemainingReported, StatusReported
      <4>2. CASE report.kind = "ACCEPTED"
        <5>1. frame.execType = "ORDER_ACCEPTED"
          BY <1>0, <4>2, ExecIsFrame
        <5> QED BY <2>1, <3>2, <4>2, <5>1 DEF RemainingReported, StatusReported
      <4>3. CASE report.kind = "EXPIRED"
        <5>1. frame.execType = "ORDER_EXPIRED"
          BY <1>0, <4>3, ExecIsFrame
        <5> QED BY <2>1, <3>2, <4>3, <5>1 DEF RemainingReported, StatusReported
      <4> QED BY <2>5, <4>1, <4>2, <4>3 DEF OrderReports
    <3>4. status = "EXPIRED" => IsExpired(o)
      BY <1>3, <3>1, <3>3 DEF EndIsTrue
    <3>5. status = "FILLED" => orders[o].status = "FILLED"
      BY <1>4, <3>2, <3>3
    <3>6. Arrived(x)
      BY <2>4, <3>2 DEF Arrived
    <3>7. \A r \in Refs : orders[r].orderID = x.clOrdId => Left(r, k) <= x.remainingQty
      BY <1>4, <2>4, <3>2, <3>3
    <3> HIDE DEF report
    <3> QED BY <2>2, <2>4, <3>2, <3>3, <3>4, <3>5, <3>6, <3>7 DEF NotAhead
  <2>6. CASE report.kind = "CANCELLED"
    <3>1. frame.execType = "ORDER_CANCELLED" /\ frame.orderId = report.id
      BY <1>0, <2>6, ExecIsFrame DEF OrderReports
    <3>2. status = "CANCELLED" /\ remaining = row.remainingQty
      BY <2>1, <3>1 DEF RemainingReported, StatusReported
    <3>3. \E r \in Refs : orders[r].orderID = row.clOrdId /\ orders[r].status = "CANCELLED"
      BY <1>3, <1>6, <2>6, <3>1 DEF EndIsTrue
    <3> QED BY <1>2, <2>2, <2>4, <3>2, <3>3 DEF NotAhead, Arrived
  <2>7. CASE report.kind = "REJECTED"
    <3>1. frame.execType = "ORDER_REJECTED"
      BY <1>0, <2>7, ExecIsFrame
    <3>2. status = "REJECTED" /\ remaining = row.remainingQty
      BY <2>1, <3>1 DEF RemainingReported, StatusReported
    <3> QED BY <1>2, <2>2, <2>4, <3>2 DEF NotAhead, Arrived
  <2>8. report.kind \in ReportKinds
    BY <1>0, ExecIsFrame
  <2> QED BY <2>5, <2>6, <2>7, <2>8 DEF ReportKinds, OrderReports
<1>7. CASE /\ ~ isTerminal(row.status) /\ row.clOrdId # frame.orderId
           /\ isFill(frame) /\ frame.passiveOrderId > 0 /\ row.clOrdId = frame.passiveOrderId
  <2>1. PICK p, q, remaining : /\ p = report.passive /\ q = report.quantity
                               /\ remaining = Greatest(0, row.remainingQty - q)
    OBVIOUS
  <2>2. report.kind = "FILL"
    BY <1>0, <1>7, ExecIsFrame
  <2>3. /\ p \in Refs /\ orders[p].orderID = row.clOrdId /\ frame.filledQuantity = q
        /\ q \in Nat \ {0}
        /\ \A r \in Refs : orders[r].orderID = row.clOrdId => r = p
    BY <1>0, <1>7, <2>1, <2>2, ExecIsFrame DEF ReportsAreTrue
  <2>4. Left(p, n) = Left(p, k) + q
    BY <1>0, <1>3, <2>1, <2>2, <2>3, LeftAfterOneMore DEF Names
  <2>5. Left(p, n) <= row.remainingQty
    BY <2>3 DEF NotAhead
  <2>6. Left(p, k) <= remaining /\ (remaining = 0 => Left(p, k) = 0)
    BY <1>1, <1>4, <2>1, <2>3, <2>4, <2>5 DEF Greatest
  <2>7. PICK x : x = RowAfter(row, frame)
    OBVIOUS
  <2>8. x = [ row EXCEPT !.remainingQty = remaining,
                         !.status = IF remaining = 0 THEN "FILLED" ELSE "PARTIALLY_FILLED" ]
    BY <1>7, <2>1, <2>3, <2>7 DEF RowAfter, passiveFill
  <2>9. /\ x.clOrdId = row.clOrdId /\ x.remainingQty = remaining
        /\ x.status = IF remaining = 0 THEN "FILLED" ELSE "PARTIALLY_FILLED"
    BY <1>1, <2>8 DEF MyOrder
  <2>10. x.status = "FILLED" => orders[p].status = "FILLED"
    BY <1>4, <2>3, <2>6, <2>9
  <2>11. Arrived(x)
    BY <2>3, <2>9 DEF Arrived
  <2>12. \A r \in Refs : orders[r].orderID = x.clOrdId => Left(r, k) <= x.remainingQty
    BY <2>3, <2>6, <2>9
  <2> QED BY <2>3, <2>7, <2>9, <2>10, <2>11, <2>12 DEF NotAhead
<1>8. CASE /\ row.clOrdId # frame.orderId
           /\ ~ (/\ isFill(frame) /\ frame.passiveOrderId > 0
                 /\ row.clOrdId = frame.passiveOrderId)
  <2>1. RowAfter(row, frame) = row
    BY <1>8 DEF RowAfter
  <2> QED BY <1>2, <2>1
<1> QED BY <1>5, <1>6, <1>7, <1>8

\* A step of the engine leaves a row where it is, behind.
LEMMA EngineStaysAhead ==
    ASSUME SessionFacts, ~ ReuseIds, Works, EngineFacts', NEW row \in Rows,
           NEW n \in 0 .. Len(reports), NotAhead(row, n)
    PROVE  NotAhead(row, n)'
<1>0. IInv /\ TypeOK /\ StoryInv /\ StatusInv
  BY DEF SessionFacts, EngineFacts, IInv
<1>1. ReportStep /\ TermsStay /\ LedgerStep
  BY DEF Works
<1>2. \A r \in Refs : /\ Left(r, n)' = Left(r, n) /\ r \in Refs'
                      /\ orders'[r].orderID = orders[r].orderID
                      /\ \A status \in {"FILLED", "CANCELLED"} :
                            orders[r].status = status => orders'[r].status = status
                      /\ IsExpired(r) => IsExpired(r)'
  <2> SUFFICES ASSUME NEW r \in Refs
               PROVE  /\ Left(r, n)' = Left(r, n) /\ r \in Refs'
                      /\ orders'[r].orderID = orders[r].orderID
                      /\ \A status \in {"FILLED", "CANCELLED"} :
                            orders[r].status = status => orders'[r].status = status
                      /\ IsExpired(r) => IsExpired(r)'
    OBVIOUS
  <2>1. orders'[r].orderID = orders[r].orderID
    BY <1>1 DEF TermsStay, SameTerms
  <2> QED BY <1>0, <1>1, <2>1, LeftStays, OverStays
<1>3. row.status \in {"FILLED", "CANCELLED"} =>
         \E r \in Refs' : orders'[r].orderID = row.clOrdId /\ orders'[r].status = row.status
  BY <1>2 DEF NotAhead
<1>4. row.status = "EXPIRED" =>
         \E r \in Refs : orders'[r].orderID = row.clOrdId /\ r \in Refs' /\ IsExpired(r)'
  BY <1>2 DEF NotAhead
<1>5. CASE Refs' = Refs
  <2>1. Arrived(row) => Arrived(row)'
    BY <1>2 DEF Arrived
  <2>2. \A r \in Refs' : orders'[r].orderID = row.clOrdId => Left(r, n)' <= row.remainingQty
    BY <1>2, <1>5 DEF NotAhead
  <2> QED BY <1>3, <1>4, <2>1, <2>2 DEF NotAhead
<1>6. CASE Refs' # Refs
  <2>1. Arrives
    BY <1>1, <1>6, ZenonT(30) DEF LedgerStep, Trade, Finishes, Passes
  <2>2. PICK new : new = incoming'
    OBVIOUS
  <2>3. /\ Refs' = Refs \cup {new} /\ new \notin Refs
        /\ orders'[new].quantity = orders'[new].orderQty /\ orders'[new].quantity \in Nat
    BY <2>1, <2>2 DEF Arrives
  <2>4. CASE orders'[new].orderID # row.clOrdId
    <3>1. Arrived(row) => Arrived(row)'
      BY <1>2 DEF Arrived
    <3>2. \A r \in Refs' : orders'[r].orderID = row.clOrdId => Left(r, n)' <= row.remainingQty
      BY <1>2, <2>3, <2>4 DEF NotAhead
    <3> QED BY <1>3, <1>4, <3>1, <3>2 DEF NotAhead
  <2>5. CASE orders'[new].orderID = row.clOrdId
    <3>1. new \in Nat
      <4>1. \E t \in Tickets : ArrivesAs(t)
        <5>1. ~ \E a, h, m, price : Deals(a, h, m, price)
          BY <1>6, ZenonT(30) DEF Deals, Trade
        <5> QED BY <1>1, <1>6, <5>1 DEF ReportStep, FinishesAs, Finishes, Withdraws, Refuses,
                                        Idles, Passes
      <4> QED BY <2>2, <4>1 DEF ArrivesAs
    <3>2. \A r \in Refs : orders[r].orderID # row.clOrdId
      <4>1. \A r \in Refs : orders'[r].orderID # orders'[new].orderID
        BY <1>2, <2>3 DEF EngineFacts, IndexInv, IdsDiffer
      <4> QED BY <1>2, <2>5, <4>1
    <3>3. row.remainingQty = row.originalQty
      BY <3>2 DEF NotAhead, Arrived
    <3>4. row.originalQty = orders'[new].orderQty
      <4>1. row.clOrdId \in OwnIds
        BY DEF SessionFacts, RowsInv
      <4>2. PICK t \in OwnTickets : /\ ArrivesAs(t)
                                    /\ newOrderFrame(t.orderID, IntentOf(t)) \in Waiting
        BY <2>1, <2>2, <2>5, <4>1 DEF Works
      <4>3. PICK f : f = newOrderFrame(t.orderID, IntentOf(t))
        OBVIOUS
      <4>4. f.type = "NEW" /\ f.clOrdId = t.orderID /\ f.qty = t.quantity /\ f \in Waiting
        BY <4>2, <4>3, OwnTicketsArrive
      <4>5. orders'[new].orderID = t.orderID /\ orders'[new].orderQty = t.quantity
        BY <2>2, <4>2 DEF ArrivesAs
      <4>6. \E x \in Rows : x.clOrdId = t.orderID /\ x.originalQty = t.quantity
        BY <4>4 DEF SessionFacts, RowsInv, RowOfFrame
      <4> QED BY <2>5, <4>5, <4>6 DEF SessionFacts, RowsInv
    <3>5. Left(new, n)' = orders'[new].quantity
      <4>1. LaterFills(new, n)' = {}
        BY <1>0, <2>1, <2>2, <3>1, AllIsLeftAtFirst
      <4>2. Left(new, n)' = orders'[new].quantity + QuantityIn(reports', LaterFills(new, n)')
        BY DEF Left, QuantityIn, MapThenSumSet, MapThenFoldSet
      <4> QED BY <2>3, <4>1, <4>2, QuantityInNothing
    <3>6. \A r \in Refs' : orders'[r].orderID = row.clOrdId => Left(r, n)' <= row.remainingQty
      <4>1. \A r \in Refs' : orders'[r].orderID = row.clOrdId => r = new
        BY <1>2, <2>3, <3>2
      <4>2. Left(new, n)' <= row.remainingQty
        BY <2>3, <3>3, <3>4, <3>5
      <4> QED BY <4>1, <4>2
    <3>7. Arrived(row)'
      BY <2>3, <2>5 DEF Arrived
    <3> QED BY <1>3, <1>4, <3>6, <3>7 DEF NotAhead
  <2> QED BY <2>4, <2>5
<1> QED BY <1>5, <1>6

LEMMA AheadKept ==
    ASSUME SessionFacts, ~ ReuseIds, AheadInv, SessionStep, EngineFacts'
    PROVE  AheadInv'
<1>0. /\ TypeOK /\ IsApp(app) /\ ReportsAreTrue
      /\ execRead \in 0 .. Len(reports) /\ Len(reports) \in Nat
  BY ReportsAreNumbered DEF SessionFacts, EngineFacts, IInv, StreamsInv
<1>1. PICK n \in 0 .. Len(reports) : n = execRead
  BY <1>0
<1>2. PICK m : m = execRead'
  OBVIOUS
<1>3. ASSUME \A row \in Rows' : NotAhead(row, m)'
      PROVE  AheadInv'
  <2>1. \A r : Left(r, execRead)' = Left(r, m)'
    BY <1>2 DEF Left, LaterFills
  <2> QED BY <1>3, <2>1 DEF AheadInv, NotAhead
<1>4. ASSUME UNCHANGED vars, \A row \in Rows' : NotAhead(row, m)
      PROVE  AheadInv'
  <2>1. \A row : NotAhead(row, m)' <=> NotAhead(row, m)
    <3>1. UNCHANGED <<orders, book, pegs, reports, pc>>
      BY <1>4 DEF vars, books
    <3>2. Refs' = Refs /\ Resting' = Resting /\ incoming' = incoming /\ (Dealing' <=> Dealing)
      BY <3>1 DEF Refs, Resting, LitOrders, PegOrders, incoming, Dealing
    <3>3. \A r : (IsExpired(r)' <=> IsExpired(r)) /\ Left(r, m)' = Left(r, m)
      BY <3>1, <3>2 DEF IsExpired, Busy, Left, LaterFills
    <3>4. \A row : Arrived(row)' <=> Arrived(row)
      BY <3>1, <3>2 DEF Arrived
    <3> QED BY <3>1, <3>2, <3>3, <3>4 DEF NotAhead
  <2> QED BY <1>3, <1>4, <2>1
<1>5. \A row \in Rows : /\ NotAhead(row, n) /\ row \in MyOrder
                        /\ row.remainingQty \in Int
  BY <1>1 DEF AheadInv, SessionFacts, RowsInv, MyOrder
<1>6. ASSUME NEW f, Sends(f)
      PROVE  AheadInv'
  <2>1. UNCHANGED vars /\ m = n
    BY <1>1, <1>2, <1>6 DEF Sends
  <2>2. CASE f.type = "NEW"
    <3>1. PICK row : row = RowOf(f)
      OBVIOUS
    <3>2. /\ Rows' = Rows \cup {row} /\ row.clOrdId = f.clOrdId
          /\ \A other \in Rows : other.clOrdId # f.clOrdId
          /\ row.originalQty = f.qty /\ row.remainingQty = f.qty
          /\ row.status = "PENDING" /\ f.clOrdId \in OwnIds
      BY <1>0, <1>6, <2>2, <3>1, ARowIsAdded
    <3>3. \A r \in Refs : orders[r].orderID # row.clOrdId
      BY <3>2 DEF SessionFacts, RowsInv, StandsFor
    <3>4. NotAhead(row, n)
      BY <3>2, <3>3 DEF NotAhead
    <3> QED BY <1>4, <1>5, <2>1, <3>2, <3>4
  <2>3. CASE f.type # "NEW"
    <3>1. Rows' = Rows
      BY <1>0, <1>6, <2>3, ARowIsAdded
    <3> QED BY <1>4, <1>5, <2>1, <3>1
  <2> QED BY <2>2, <2>3
<1>7. CASE Works
  <2>1. Rows' = Rows /\ m = n
    BY <1>1, <1>2, <1>7, RowsStay DEF Works
  <2>2. \A row \in Rows : NotAhead(row, n)'
    BY <1>5, <1>7, EngineStaysAhead
  <2> QED BY <1>3, <2>1, <2>2
<1>8. CASE Reads
  <2>1. UNCHANGED vars /\ m = n + 1 /\ m \in DOMAIN reports /\ n \in Nat
    BY <1>0, <1>1, <1>2, <1>8, ReportsAreNumbered DEF Reads
  <2>2. PICK frame : frame = ExecOf(m)
    OBVIOUS
  <2>3. frame \in ExecFrame /\ app' = reduceFrame(app, frame)
    BY <1>0, <1>1, <1>8, <2>1, <2>2, ExecIsFrame DEF Reads
  <2>4. Rows' = {RowAfter(row, frame) : row \in Rows}
    BY <1>0, <2>3, RowsAreUpdated
  <2>5. \A row \in Rows : NotAhead(RowAfter(row, frame), m)
    BY <1>5, <2>1, <2>2, ReadingStaysBehind
  <2> QED BY <1>4, <2>1, <2>4, <2>5
<1>9. CASE Turns
  <2>1. UNCHANGED vars /\ Rows' = Rows /\ m \in Nat /\ n \in Nat /\ n <= m
    BY <1>0, <1>1, <1>2, <1>9, RowsStay DEF Turns
  <2>2. \A row \in Rows : NotAhead(row, m)
    BY <1>5, <2>1, HearingLittle
  <2> QED BY <1>4, <2>1, <2>2
<1> QED BY <1>6, <1>7, <1>8, <1>9 DEF SessionStep

(***************************************************************************)
(* When clients do not reuse ids, a row never claims more than happened,   *)
(* whatever was lost or is late and however the engine and the network     *)
(* interleave: it has at least the engine's remainder left, and a row      *)
(* shown as filled, cancelled or expired is so at the engine (nextOrder,   *)
(* passiveFill, MatchingEngineHandler).                                    *)
(***************************************************************************)
THEOREM NoRowIsAhead ==
    ASSUME ~ ReuseIds
    PROVE  SessionSpec => []RowsAreNeverAhead
<1>1. SessionInit => AheadInv
  BY TheAppAtFirst DEF AheadInv, Rows
<1>2. SessionFacts /\ EngineFacts' /\ AheadInv /\ [SessionNext]_sessionVars => AheadInv'
  BY EverySessionStep, AheadKept DEF SessionFacts
<1>3. SessionFacts /\ AheadInv => RowsAreNeverAhead
  <2> SUFFICES ASSUME SessionFacts, AheadInv, NEW row \in Rows
               PROVE  /\ Arrived(row) => row.remainingQty >= orders[OrderOf(row)].quantity
                      /\ row.status \in {"FILLED", "CANCELLED", "EXPIRED"} =>
                            Arrived(row) /\ Verdict(OrderOf(row)) = row.status
    BY DEF RowsAreNeverAhead
  <2>0. /\ TypeOK /\ StoryInv /\ StatusInv
        /\ \A q, r \in Refs : q # r => orders[q].orderID # orders[r].orderID
    BY DEF SessionFacts, EngineFacts, IInv, IndexInv, IdsDiffer
  <2>1. NotAhead(row, execRead) /\ row.remainingQty \in Int
    BY DEF AheadInv, SessionFacts, RowsInv, MyOrder
  <2>2. ASSUME NEW r \in Refs, orders[r].orderID = row.clOrdId
        PROVE  Arrived(row) /\ OrderOf(row) = r
    BY <2>0, <2>2 DEF Arrived, OrderOf
  <2>3. Arrived(row) => row.remainingQty >= orders[OrderOf(row)].quantity
    <3> SUFFICES ASSUME NEW r \in Refs, orders[r].orderID = row.clOrdId
                 PROVE  row.remainingQty >= orders[OrderOf(row)].quantity
      BY DEF Arrived
    <3>1. Left(r, execRead) <= row.remainingQty
      BY <2>1 DEF NotAhead
    <3>2. /\ Left(r, execRead) \in Nat /\ orders[r].quantity \in Nat
          /\ orders[r].quantity <= Left(r, execRead)
      BY <2>0, LeftIsEnough
    <3> QED BY <2>1, <2>2, <3>1, <3>2
  <2>4. ASSUME row.status \in {"FILLED", "CANCELLED"}
        PROVE  Arrived(row) /\ Verdict(OrderOf(row)) = row.status
    <3>1. PICK r \in Refs : orders[r].orderID = row.clOrdId /\ orders[r].status = row.status
      BY <2>1, <2>4 DEF NotAhead
    <3>2. StatusIsTrue(r) /\ orders[r].quantity \in Nat
      BY <2>0, StatusTypes DEF StatusInv
    <3>3. ~ (orders[r].tif = "FOK" /\ orders[r].quantity > 0)
      BY <2>4, <3>1, <3>2 DEF StatusIsTrue
    <3> QED BY <2>2, <3>1, <3>3 DEF Verdict
  <2>5. ASSUME row.status = "EXPIRED"
        PROVE  Arrived(row) /\ Verdict(OrderOf(row)) = row.status
    <3>1. PICK r \in Refs : orders[r].orderID = row.clOrdId /\ IsExpired(r)
      BY <2>1, <2>5 DEF NotAhead
    <3>2. Verdict(r) = "EXPIRED"
      BY <3>1 DEF IsExpired, Verdict
    <3> QED BY <2>2, <2>5, <3>1, <3>2
  <2> QED BY <2>3, <2>4, <2>5
<1> QED BY <1>1, <1>2, <1>3, SessionFactsHold, PTL DEF SessionSpec, SessionFacts

-----------------------------------------------------------------------------
(* What the first n reports say of an order.  From the report that ends it *)
(* on nothing of it is traded, so that whoever has heard of its end knows  *)
(* what is left.                                                           *)

ToldAccepted(r, n)  == \E j \in 1 .. n : reports[j].kind = "ACCEPTED" /\ reports[j].order = r
ToldExpired(r, n)   == \E j \in 1 .. n : reports[j].kind = "EXPIRED" /\ reports[j].order = r
ToldCancelled(r, n) ==
    \E j \in 1 .. n : reports[j].kind = "CANCELLED" /\ reports[j].id = orders[r].orderID
ToldEnded(r, n)     == ToldExpired(r, n) \/ ToldCancelled(r, n)

HistoryInv ==
    /\ \A r \in Refs : Left(r, 0) = orders[r].orderQty
    /\ \A r \in Refs : \A n \in 0 .. Len(reports) :
          ToldEnded(r, n) => LaterFills(r, n) = {}

\* An order that is told to have ended is over, in one way.
LEMMA EndedIsOver ==
    ASSUME TypeOK, StatusInv, NEW r \in Refs, NEW n \in 0 .. Len(reports),
           \A q \in Refs : q # r => orders[q].orderID # orders[r].orderID
    PROVE  /\ ToldExpired(r, n) => IsExpired(r)
           /\ ToldCancelled(r, n) => orders[r].status = "CANCELLED" /\ orders[r].tif = "GTC"
           /\ ToldEnded(r, n) => orders[r].quantity > 0 /\ r \notin Resting /\ ~ Busy(r)
           /\ ~ (ToldExpired(r, n) /\ ToldCancelled(r, n))
<1>1. 1 .. n \subseteq DOMAIN reports
  BY ReportsAreNumbered
<1>2. StatusIsTrue(r) /\ orders[r].quantity \in Nat
  BY StatusTypes DEF StatusInv
<1>3. ToldExpired(r, n) => IsExpired(r)
  BY <1>1 DEF ToldExpired, StatusInv, EndIsTrue
<1>4. ToldCancelled(r, n) => orders[r].status = "CANCELLED"
  BY <1>1 DEF ToldCancelled, StatusInv, EndIsTrue
<1>5. orders[r].status = "CANCELLED" =>
         /\ orders[r].tif = "GTC" /\ orders[r].quantity > 0 /\ r \notin Resting /\ ~ Busy(r)
  BY <1>2 DEF StatusIsTrue
<1>6. IsExpired(r) => /\ orders[r].quantity > 0 /\ r \notin Resting /\ ~ Busy(r)
                      /\ orders[r].status = "EXPIRED" \/ orders[r].tif = "FOK"
  BY DEF IsExpired
<1> QED BY <1>3, <1>4, <1>5, <1>6 DEF ToldEnded

\* Of what has been reported nothing changes.
LEMMA ToldStays ==
    ASSUME TypeOK, LedgerStep, TermsStay, NEW r \in Refs, NEW n \in 0 .. Len(reports)
    PROVE  /\ ToldAccepted(r, n)' <=> ToldAccepted(r, n)
           /\ ToldExpired(r, n)' <=> ToldExpired(r, n)
           /\ ToldCancelled(r, n)' <=> ToldCancelled(r, n)
<1>1. \A j \in 1 .. n : reports'[j] = reports[j]
  BY ReportsAreNumbered, ReportsStay
<1>2. orders'[r].orderID = orders[r].orderID
  BY DEF TermsStay, SameTerms
<1> QED BY <1>1, <1>2 DEF ToldAccepted, ToldExpired, ToldCancelled

\* A trade is reported of orders that are not over.
LEMMA NewFillsAreLive ==
    ASSUME IInv, ReportStep
    PROVE  \A i \in DOMAIN reports' : reports'[i].kind = "FILL" =>
              \/ i \in DOMAIN reports /\ reports'[i] = reports[i]
              \/ /\ Refs' = Refs
                 /\ \A r \in {reports'[i].order, reports'[i].passive} : r \in Resting \/ Busy(r)
<1>0. TypeOK
  BY DEF IInv
<1>1. ASSUME NEW a, NEW h, NEW n, NEW price, Deals(a, h, n, price)
      PROVE  \A i \in DOMAIN reports' :
                \/ i \in DOMAIN reports /\ reports'[i] = reports[i]
                \/ /\ Refs' = Refs
                   /\ \A r \in {reports'[i].order, reports'[i].passive} :
                         r \in Resting \/ Busy(r)
  <2> DEFINE e == Report("FILL", a, h, price, n, orders[a].quantity - n)
  <2>1. /\ reports' = Append(reports, e) /\ e.order = a /\ e.passive = h
        /\ e.kind \in ReportKinds /\ Refs' = Refs
        /\ \A r \in {a, h} : r \in Resting \/ Busy(r)
    BY <1>1 DEF Deals, Trade, Execute, Report, ReportKinds, Busy
  <2> HIDE DEF e
  <2> QED BY <1>0, <2>1, ReportAdded
<1>2. CASE Arrives \/ Finishes \/ Passes
  <2>1. reports' = reports \/ \E e : /\ reports' = Append(reports, e)
                                     /\ e.kind \in ReportKinds /\ e.kind # "FILL"
    BY <1>2, OtherReports
  <2> QED BY <1>0, <2>1, ReportAdded
<1> QED BY <1>1, <1>2
        DEF ReportStep, ArrivesAs, FinishesAs, Withdraws, Refuses, Idles

\* An order comes only by arriving.
LEMMA NewcomersArrive ==
    ASSUME ReportStep
    PROVE  \/ Refs' = Refs
           \/ /\ Arrives /\ incoming' \in Nat /\ incoming' \in Refs'
              /\ Refs' = Refs \cup {incoming'} /\ incoming' \notin Refs
<1>1. ASSUME NEW a, NEW h, NEW n, NEW price, Deals(a, h, n, price)
      PROVE  Refs' = Refs
  BY <1>1 DEF Deals, Trade
<1> QED BY <1>1 DEF ReportStep, ArrivesAs, Arrives, FinishesAs, Finishes, Withdraws, Refuses,
                    Idles, Passes

LEMMA HistoryKept ==
    ASSUME IInv, TypeOK', StoryInv, StatusInv, HistoryInv, ReportStep, TermsStay,
           \A q, r \in Refs : q # r => orders[q].orderID # orders[r].orderID
    PROVE  HistoryInv'
<1>0. TypeOK /\ LedgerStep
  BY ReportStepsAreLedgerSteps DEF IInv
<1>1. ASSUME NEW r \in Refs'
      PROVE  /\ Left(r, 0)' = orders'[r].orderQty
             /\ \A n \in 0 .. Len(reports') : ToldEnded(r, n)' => LaterFills(r, n)' = {}
  <2>1. CASE r \in Refs
    <3>1. Left(r, 0)' = Left(r, 0) /\ orders'[r].orderQty = orders[r].orderQty
      <4>1. 0 \in 0 .. Len(reports)
        BY <1>0, ReportsAreNumbered
      <4> QED BY <1>0, <2>1, <4>1, LeftStays DEF TermsStay, SameTerms
    <3>2. ASSUME NEW n \in 0 .. Len(reports'), ToldEnded(r, n)',
                 NEW i \in LaterFills(r, n)'
          PROVE  FALSE
      <4>1. /\ i \in DOMAIN reports' /\ i > n /\ reports'[i].kind = "FILL"
            /\ r \in {reports'[i].order, reports'[i].passive}
        BY <3>2 DEF LaterFills
      <4>2. n \in 0 .. Len(reports) /\ n \in Nat
        <5>1. Len(reports') \in Nat /\ DOMAIN reports' = 1 .. Len(reports')
          BY DEF TypeOK
        <5>2. Len(reports') <= Len(reports) + 1 /\ Len(reports) \in Nat
          BY <1>0, ReportsStay, ReportsAreNumbered DEF TypeOK
        <5> QED BY <4>1, <5>1, <5>2
      <4>3. ToldEnded(r, n)
        BY <1>0, <2>1, <3>2, <4>2, ToldStays DEF ToldEnded
      <4>4. LaterFills(r, n) = {}
        BY <2>1, <4>2, <4>3 DEF HistoryInv
      <4>5. r \notin Resting /\ ~ Busy(r)
        BY <1>0, <2>1, <4>2, <4>3, EndedIsOver
      <4>6. i \in DOMAIN reports /\ reports'[i] = reports[i]
        BY <4>1, <4>5, NewFillsAreLive
      <4> QED BY <4>1, <4>4, <4>6 DEF LaterFills
    <3> QED BY <2>1, <3>1, <3>2 DEF HistoryInv
  <2>2. CASE r \notin Refs
    <3>1. Arrives /\ incoming' \in Nat /\ r = incoming'
      BY <1>1, <2>2, NewcomersArrive
    <3>2. /\ LaterFills(r, 0)' = {}
          /\ \A n \in 0 .. Len(reports') : LaterFills(r, n)' = {}
      BY <3>1, AllIsLeftAtFirst
    <3>3. Left(r, 0)' = orders'[r].quantity + QuantityIn(reports', LaterFills(r, 0)')
      BY DEF Left, QuantityIn, MapThenSumSet, MapThenFoldSet
    <3>4. orders'[r].quantity = orders'[r].orderQty /\ orders'[r].quantity \in Nat
      BY <3>1 DEF Arrives
    <3>5. Left(r, 0)' = orders'[r].orderQty
      <4>1. QuantityIn(reports', {}) = 0
        BY QuantityInNothing
      <4>2. QuantityIn(reports', LaterFills(r, 0)') = 0
        BY <3>2, <4>1
      <4> QED BY <3>3, <3>4, <4>2
    <3> QED BY <3>2, <3>5
  <2> QED BY <2>1, <2>2
<1> QED BY <1>1 DEF HistoryInv

LEMMA IdsAreDifferent ==
    ASSUME EngineFacts, ~ ReuseIds
    PROVE  \A q, r \in Refs : q # r => orders[q].orderID # orders[r].orderID
BY DEF EngineFacts, IndexInv, IdsDiffer

LEMMA HistoryHolds ==
    ASSUME ~ ReuseIds
    PROVE  Spec => []HistoryInv
<1>1. Init => HistoryInv
  <2> SUFFICES ASSUME Init PROVE HistoryInv
    OBVIOUS
  <2>1. Refs = {}
    BY DEF Init, Refs
  <2> QED BY <2>1 DEF HistoryInv
<1>2. EngineFacts /\ EngineFacts' /\ HistoryInv /\ [Next]_vars => HistoryInv'
  <2> SUFFICES ASSUME EngineFacts, EngineFacts', HistoryInv, [Next]_vars
               PROVE  HistoryInv'
    OBVIOUS
  <2>1. IInv /\ IndexInv /\ MidStillCurrent /\ StoryInv /\ StatusInv /\ TypeOK'
    BY DEF EngineFacts, IInv
  <2>2. ReportStep /\ TermsStay
    BY <2>1, EveryStepIsAReportStep, NextSteps DEF StepsThroughQueues
  <2> QED BY <2>1, <2>2, IdsAreDifferent, HistoryKept
<1> QED BY <1>1, <1>2, EngineFactsHold, PTL DEF Spec

-----------------------------------------------------------------------------
(* The client's own frames, in the order in which it wrote them: an order  *)
(* is at the engine, or its frame is ahead of any request to cancel it.    *)

HasCome(id) == \E r \in Refs : orders[r].orderID = id

\* Has the order come, or is it among the first n frames under way?
ComesWithin(id, n) ==
    HasCome(id) \/ \E j \in 1 .. n : inbound[j].type = "NEW" /\ inbound[j].clOrdId = id

QueueInv ==
    ~ missed =>
        /\ \A row \in Rows : ComesWithin(row.clOrdId, Len(inbound))
        /\ \A i \in DOMAIN inbound : inbound[i].type = "CANCEL" =>
              ComesWithin(inbound[i].origClOrdId, i - 1)

LEMMA HasComeStays ==
    ASSUME TermsStay, NEW id, HasCome(id)
    PROVE  HasCome(id)'
BY DEF TermsStay, SameTerms, HasCome

\* Frames are only added behind those under way.
LEMMA SendingKeepsQueue ==
    ASSUME SessionFacts, QueueInv, NEW f \in NewFrames \cup CancelFrames, Write(f),
           f.type = "NEW" => ~ IsDuplicate(app.myOrders, f.clOrdId),
           f.type = "CANCEL" => IsDuplicate(app.myOrders, f.origClOrdId)
    PROVE  QueueInv'
<1> DEFINE S == NewFrames \cup CancelFrames
<1>1. inbound \in Seq(S) /\ f \in S
  BY DEF SessionFacts, InboundInv
<1> HIDE DEF S
<1>2. PICK n : n = Len(inbound)
  OBVIOUS
<1>3. PICK m : m = n + 1
  OBVIOUS
<1>4. /\ inbound' = Append(inbound, f) /\ app' = reduceSent(app, f)
      /\ UNCHANGED <<vars, missed>> /\ UNCHANGED <<snapshots, execRead, bookRead>>
  BY DEF Write
<1>5. /\ n \in Nat /\ DOMAIN inbound = 1 .. n /\ Len(inbound') = m /\ DOMAIN inbound' = 1 .. m
      /\ inbound'[m] = f /\ \A i \in 1 .. n : inbound'[i] = inbound[i]
  BY <1>1, <1>2, <1>3, <1>4, AppendProperties
<1>6. \A id : HasCome(id)' <=> HasCome(id)
  BY <1>4 DEF HasCome, Refs, vars
<1>7. \A id : \A i \in 0 .. n : ComesWithin(id, i) => \A k \in i .. m : ComesWithin(id, k)'
  BY <1>3, <1>5, <1>6 DEF ComesWithin
<1>8. Sends(f)
  <2>1. Waiting' = Waiting \cup {f}
    BY <1>4, FramesMove DEF SessionFacts
  <2> QED BY <1>4, <2>1 DEF Sends
<1>9. IsApp(app)
  BY DEF SessionFacts, StreamsInv
<1>10. f.type \in {"NEW", "CANCEL"}
  BY OwnTicketsArrive, OwnCancels DEF NewFrames
<1>11. ASSUME ~ missed, NEW row \in Rows'
       PROVE  ComesWithin(row.clOrdId, m)'
  <2>1. CASE row \in Rows
    <3>1. ComesWithin(row.clOrdId, n)
      BY <1>2, <1>11, <2>1 DEF QueueInv
    <3> QED BY <1>3, <1>5, <1>7, <3>1
  <2>2. CASE row \notin Rows
    <3>1. f.type = "NEW" /\ row.clOrdId = f.clOrdId
      BY <1>8, <1>9, <1>10, <1>11, <2>2, ARowIsAdded
    <3> QED BY <1>3, <1>5, <3>1 DEF ComesWithin
  <2> QED BY <2>1, <2>2
<1>12. ASSUME ~ missed, NEW i \in 1 .. m, inbound'[i].type = "CANCEL",
              NEW id, id = inbound'[i].origClOrdId
       PROVE  ComesWithin(id, i - 1)'
  <2>1. CASE i = m
    <3>1. f.type = "CANCEL" /\ id = f.origClOrdId
      BY <1>5, <1>12, <2>1
    <3>2. \E row \in Rows : row.clOrdId = id
      BY <3>1 DEF IsDuplicate, Rows
    <3>3. ComesWithin(id, n)
      BY <1>2, <1>12, <3>2 DEF QueueInv
    <3>4. n \in 0 .. n /\ i - 1 = n /\ n \in n .. m
      BY <1>3, <1>5, <2>1
    <3> QED BY <1>7, <3>3, <3>4
  <2>2. CASE i # m
    <3>1. i \in 1 .. n /\ inbound'[i] = inbound[i]
      BY <1>3, <1>5, <1>12, <2>2
    <3>2. ComesWithin(id, i - 1)
      BY <1>5, <1>12, <3>1 DEF QueueInv
    <3>3. i - 1 \in 0 .. n /\ i - 1 \in i - 1 .. m
      BY <1>3, <1>5, <3>1
    <3> QED BY <1>7, <3>2, <3>3
  <2> QED BY <2>1, <2>2
<1>13. ~ missed => \A i \in 1 .. m : inbound'[i].type = "CANCEL" =>
                      \A id : id = inbound'[i].origClOrdId => ComesWithin(id, i - 1)'
  BY <1>12
<1>14. ~ missed => \A row \in Rows' : ComesWithin(row.clOrdId, Len(inbound))'
  BY <1>5, <1>11 DEF ComesWithin
<1> QED BY <1>4, <1>5, <1>13, <1>14 DEF QueueInv

\* The engine takes the first frame; if that is an order, it has come.
LEMMA HandlingKeepsQueue ==
    ASSUME SessionFacts, QueueInv, HandleOwn, TermsStay
    PROVE  QueueInv'
<1> DEFINE S == NewFrames \cup CancelFrames
<1>1. inbound \in Seq(S) /\ HandlesFrame /\ inbound # <<>> /\ inbound' = Tail(inbound) /\ IInv
  BY OwnFramesAreCalls DEF SessionFacts, InboundInv, EngineFacts
<1> HIDE DEF S
<1>2. PICK n : n = Len(inbound)
  OBVIOUS
<1>3. PICK m : m = n - 1
  OBVIOUS
<1>4. /\ n \in Nat \ {0} /\ DOMAIN inbound = 1 .. n /\ Head(inbound) = inbound[1]
      /\ Len(inbound') = m /\ DOMAIN inbound' = 1 .. m
      /\ \A i \in 1 .. m : inbound'[i] = inbound[i + 1]
  BY <1>1, <1>2, <1>3, HeadTailProperties, LenProperties
<1>5. ASSUME Head(inbound).type = "NEW", NEW id, id = Head(inbound).clOrdId
      PROVE  HasCome(id)'
  <2>1. \A x : cancelOrderFrame(0, x).type = "CANCEL"
    BY DEF cancelOrderFrame
  <2>2. PICK t \in OwnTickets : /\ Head(inbound) = newOrderFrame(t.orderID, IntentOf(t))
                                /\ HandleNew(t)
    BY <1>1, <1>5, <2>1 DEF HandlesFrame
  <2>3. ArrivesAs(t) /\ id = t.orderID
    BY <1>1, <1>5, <2>2, SessionAssumption, NewOrdersArrive, OwnTicketsArrive
  <2> QED BY <2>3 DEF ArrivesAs, HasCome
<1>6. ASSUME NEW id, NEW i \in 1 .. n, NEW k, k = i - 1, ComesWithin(id, i)
      PROVE  ComesWithin(id, k)'
  <2>1. CASE HasCome(id)
    BY <2>1, HasComeStays DEF ComesWithin
  <2>2. CASE ~ HasCome(id)
    <3>1. PICK j \in 1 .. i : inbound[j].type = "NEW" /\ inbound[j].clOrdId = id
      BY <1>6, <2>2 DEF ComesWithin
    <3>2. CASE j = 1
      <4>1. HasCome(id)'
        BY <1>4, <1>5, <3>1, <3>2
      <4> QED BY <4>1 DEF ComesWithin
    <3>3. CASE j # 1
      <4>1. j - 1 \in 1 .. k /\ j - 1 \in 1 .. m /\ inbound'[j - 1] = inbound[j]
        BY <1>3, <1>4, <1>6, <3>1, <3>3
      <4> QED BY <3>1, <4>1 DEF ComesWithin
    <3> QED BY <3>2, <3>3
  <2> QED BY <2>1, <2>2
<1>7. app' = app /\ missed' = missed
  BY DEF HandleOwn
<1>8. ASSUME ~ missed, NEW row \in Rows'
      PROVE  ComesWithin(row.clOrdId, m)'
  <2>1. row \in Rows /\ n \in 1 .. n
    BY <1>4, <1>7, <1>8, RowsStay
  <2>2. ComesWithin(row.clOrdId, n)
    BY <1>2, <1>8, <2>1 DEF QueueInv
  <2> QED BY <1>3, <1>6, <2>1, <2>2
<1>9. ASSUME ~ missed, NEW i \in 1 .. m, inbound'[i].type = "CANCEL",
             NEW id, id = inbound'[i].origClOrdId
      PROVE  ComesWithin(id, i - 1)'
  <2>1. PICK k : k = i + 1
    OBVIOUS
  <2>2. k \in DOMAIN inbound /\ inbound'[i] = inbound[k] /\ k - 1 = i /\ i \in 1 .. n
    BY <1>3, <1>4, <1>9, <2>1
  <2>3. ComesWithin(id, i)
    BY <1>9, <2>2 DEF QueueInv
  <2> QED BY <1>6, <2>2, <2>3
<1>10. ~ missed => \A row \in Rows' : ComesWithin(row.clOrdId, Len(inbound))'
  BY <1>4, <1>8 DEF ComesWithin
<1> QED BY <1>4, <1>7, <1>9, <1>10 DEF QueueInv

\* Whatever else happens, the frames lie as they lay, or some are lost.
LEMMA RestingKeepsQueue ==
    ASSUME QueueInv, \A id : HasCome(id) => HasCome(id)', missed => missed',
           \A x \in Rows' : \E row \in Rows : x.clOrdId = row.clOrdId,
           ~ missed' => /\ Len(inbound') = Len(inbound) /\ DOMAIN inbound' = DOMAIN inbound
                        /\ \A i \in DOMAIN inbound : inbound'[i] = inbound[i],
           \E S : inbound \in Seq(S)
    PROVE  QueueInv'
<1> SUFFICES ASSUME ~ missed' PROVE QueueInv'
  BY DEF QueueInv
<1>1. PICK n : n = Len(inbound)
  OBVIOUS
<1>2. /\ n \in Nat /\ DOMAIN inbound = 1 .. n /\ DOMAIN inbound' = 1 .. n /\ Len(inbound') = n
      /\ \A i \in 1 .. n : inbound'[i] = inbound[i]
  BY <1>1
<1>3. ASSUME NEW id, NEW k \in 0 .. n, ComesWithin(id, k)
      PROVE  ComesWithin(id, k)'
  <2>1. \A j \in 1 .. k : inbound'[j] = inbound[j]
    BY <1>2
  <2> QED BY <1>3, <2>1 DEF ComesWithin
<1>4. ASSUME NEW x \in Rows'
      PROVE  ComesWithin(x.clOrdId, n)'
  <2>1. PICK id : id = x.clOrdId
    OBVIOUS
  <2>2. ComesWithin(id, n) /\ n \in 0 .. n
    BY <1>1, <1>2, <1>4, <2>1 DEF QueueInv
  <2>3. ComesWithin(id, n)'
    BY <1>3, <2>2
  <2> QED BY <2>1, <2>3
<1>5. ASSUME NEW i \in 1 .. n, inbound'[i].type = "CANCEL", NEW id, id = inbound'[i].origClOrdId
      PROVE  ComesWithin(id, i - 1)'
  <2>1. ComesWithin(id, i - 1) /\ i - 1 \in 0 .. n
    BY <1>2, <1>5 DEF QueueInv
  <2> QED BY <1>3, <2>1
<1>6. \A x \in Rows' : ComesWithin(x.clOrdId, Len(inbound))'
  BY <1>2, <1>4 DEF ComesWithin
<1> QED BY <1>2, <1>5, <1>6 DEF QueueInv

LEMMA QueueKept ==
    ASSUME SessionFacts, QueueInv, [SessionNext]_sessionVars
    PROVE  QueueInv'
<1>0. EngineFacts /\ InboundInv /\ StreamsInv /\ IsApp(app) /\ (\E S : inbound \in Seq(S))
  BY DEF SessionFacts, StreamsInv, InboundInv
<1>1. CASE \/ \E t \in OwnTickets : SendNew(t)
           \/ \E id \in {t.orderID : t \in OwnTickets} : SendCancel(id)
  <2>1. \A t \in OwnTickets : /\ newOrderFrame(t.orderID, IntentOf(t)).clOrdId = t.orderID
                              /\ newOrderFrame(t.orderID, IntentOf(t)).type = "NEW"
    BY DEF newOrderFrame
  <2>2. \A id : /\ cancelOrderFrame(0, id).type = "CANCEL"
                /\ cancelOrderFrame(0, id).origClOrdId = id
    BY DEF cancelOrderFrame
  <2>3. PICK f \in NewFrames \cup CancelFrames :
           /\ Write(f)
           /\ f.type = "NEW" => ~ IsDuplicate(app.myOrders, f.clOrdId)
           /\ f.type = "CANCEL" => IsDuplicate(app.myOrders, f.origClOrdId)
    BY <1>1, <2>1, <2>2 DEF SendNew, SendCancel, NewFrames, CancelFrames, OwnIds
  <2> QED BY <2>3, SendingKeepsQueue
<1>2. ASSUME \A id : HasCome(id) => HasCome(id)', missed => missed', Works \/ Reads \/ Turns,
             ~ missed' => /\ Len(inbound') = Len(inbound) /\ DOMAIN inbound' = DOMAIN inbound
                          /\ \A i \in DOMAIN inbound : inbound'[i] = inbound[i]
      PROVE  QueueInv'
  <2>1. \A x \in Rows' : \E row \in Rows : x.clOrdId = row.clOrdId
    <3>1. CASE Works \/ Turns
      BY <3>1, RowsStay DEF Works, Turns
    <3>2. CASE Reads
      <4>1. PICK frame : frame = ExecOf(execRead + 1)
        OBVIOUS
      <4>2. execRead + 1 \in DOMAIN reports /\ TypeOK /\ ReportsAreTrue
        BY <1>0, <3>2, ReportsAreNumbered DEF Reads, StreamsInv, EngineFacts, IInv
      <4>3. frame \in ExecFrame /\ app' = reduceFrame(app, frame)
        BY <3>2, <4>1, <4>2, ExecIsFrame DEF Reads
      <4> QED BY <1>0, <4>3, RowsAreUpdated DEF SameOrder
    <3> QED BY <1>2, <3>1, <3>2
  <2> QED BY <1>0, <1>2, <2>1, RestingKeepsQueue
<1>3. ASSUME UNCHANGED vars
      PROVE  \A id : HasCome(id) => HasCome(id)'
  BY <1>3 DEF vars, HasCome, Refs
<1>4. CASE HandleOwn
  <2>1. Works
    BY <1>0, <1>4, EngineWorks
  <2> QED BY <1>4, <2>1, HandlingKeepsQueue DEF Works
<1>5. CASE HandleForeign \/ EngineRuns
  <2>1. Works
    BY <1>0, <1>5, EngineWorks
  <2>2. inbound' = inbound /\ missed' = missed
    BY <1>5 DEF HandleForeign, EngineRuns, clientVars
  <2> QED BY <1>2, <2>1, <2>2, HasComeStays DEF Works
<1>6. CASE ReceiveExec
  <2>1. Reads
    <3>1. Waiting' = Waiting
      BY <1>6, WaitingStays DEF ReceiveExec
    <3> QED BY <1>6, <3>1 DEF Reads, ReceiveExec
  <2>2. inbound' = inbound /\ missed' = missed /\ UNCHANGED vars
    BY <1>6 DEF ReceiveExec
  <2> QED BY <1>2, <1>3, <2>1, <2>2
<1>7. CASE PublishBook \/ ReceiveBook \/ Reconnect \/ UNCHANGED sessionVars
  <2>1. Turns
    BY <1>0, <1>7, OthersTurn
  <2>2. inbound' = inbound /\ UNCHANGED vars
    BY <1>7 DEF PublishBook, ReceiveBook, Reconnect, sessionVars, clientVars
  <2> QED BY <1>2, <1>3, <2>1, <2>2 DEF Turns
<1>8. CASE DropConnection
  <2>1. Turns /\ UNCHANGED vars
    BY <1>0, <1>8, OthersTurn DEF Turns
  <2>2. PICK n \in 0 .. Len(inbound) : /\ inbound' = SubSeq(inbound, 1, n)
                                       /\ missed' = (missed \/ n < Len(inbound))
    BY <1>8 DEF DropConnection
  <2>3. ASSUME ~ missed'
        PROVE  /\ Len(inbound') = Len(inbound) /\ DOMAIN inbound' = DOMAIN inbound
               /\ \A i \in DOMAIN inbound : inbound'[i] = inbound[i]
    <3>1. ~ (n < Len(inbound))
      BY <2>2, <2>3, Zenon
    <3>2. PICK S : inbound \in Seq(S)
      BY <1>0
    <3>3. n = Len(inbound) /\ n \in Nat /\ DOMAIN inbound = 1 .. n
      BY <3>1, <3>2
    <3>4. \A i \in 1 .. n : inbound[i] \in S
      BY <3>2, <3>3
    <3>5. n \in Int /\ 1 \in Int /\ n - 1 + 1 = n
      BY <3>3
    <3>6. /\ SubSeq(inbound, 1, n) \in Seq(S)
          /\ Len(SubSeq(inbound, 1, n)) = IF 1 <= n THEN n - 1 + 1 ELSE 0
          /\ \A i \in 1 .. n - 1 + 1 : SubSeq(inbound, 1, n)[i] = inbound[1 + i - 1]
      BY <3>4, <3>5, SubSeqProperties
    <3> QED BY <2>2, <3>3, <3>6, LenProperties
  <2>4. missed => missed'
    BY <2>1 DEF Turns
  <2> QED BY <1>2, <1>3, <2>1, <2>3, <2>4
<1> QED BY <1>1, <1>4, <1>5, <1>6, <1>7, <1>8 DEF SessionNext

-----------------------------------------------------------------------------
(* A refusal of one of the client's requests tells of an order that is     *)
(* over, and that was reported to be before.                               *)

RefusalIsTrue(j) ==
    reports[j].kind = "REJECTED" /\ reports[j].id \in OwnIds =>
        \E r \in Refs : /\ orders[r].orderID = reports[j].id
                        /\ Left(r, j) = 0 \/ ToldEnded(r, j)

RefusalsInv == ~ missed => \A j \in DOMAIN reports : RefusalIsTrue(j)

\* The report that a refusal makes.
LEMMA NewRefusals ==
    ASSUME IInv, ReportStep
    PROVE  \A j \in DOMAIN reports' : reports'[j].kind = "REJECTED" =>
              \/ j \in DOMAIN reports /\ reports'[j] = reports[j]
              \/ \E id : Refuses(id) /\ j = Len(reports')
<1>0. TypeOK
  BY DEF IInv
<1>1. ASSUME NEW e, reports' = Append(reports, e), e.kind \in ReportKinds, e.kind # "REJECTED"
      PROVE  \A j \in DOMAIN reports' : reports'[j].kind = "REJECTED" =>
                j \in DOMAIN reports /\ reports'[j] = reports[j]
  BY <1>0, <1>1, ReportAdded
<1>2. \A kind, r, other, price, quantity, remaining :
         Report(kind, r, other, price, quantity, remaining).kind = kind
  BY DEF Report
<1>3. \A kind, id : Answer(kind, id).kind = kind
  BY DEF Answer
<1>4. CASE \/ \E a, h, n, price : Deals(a, h, n, price)
           \/ \E t \in Tickets : ArrivesAs(t)
           \/ FinishesAs
           \/ \E id \in CancelIds : Withdraws(id)
           \/ Idles
  <2>1. CASE \E a, h, n, price : Deals(a, h, n, price)
    BY <1>2, <2>1, <1>1 DEF Deals, Trade, Execute, ReportKinds
  <2>2. CASE \E t \in Tickets : ArrivesAs(t)
    <3>1. reports' = reports \/ \E e : reports' = Append(reports, e) /\ e.kind = "EXPIRED"
      BY <1>2, <2>2 DEF ArrivesAs, Arrives
    <3> QED BY <1>1, <3>1 DEF ReportKinds
  <2>3. CASE FinishesAs
    <3>1. reports' = reports \/ \E e : /\ reports' = Append(reports, e)
                                       /\ e.kind \in {"EXPIRED", "ACCEPTED"}
      BY <1>2, <2>3 DEF FinishesAs, Finishes
    <3> QED BY <1>1, <3>1 DEF ReportKinds
  <2>4. CASE \E id \in CancelIds : Withdraws(id)
    <3>1. \E e : reports' = Append(reports, e) /\ e.kind = "CANCELLED"
      BY <1>3, <2>4 DEF Withdraws
    <3> QED BY <1>1, <3>1 DEF ReportKinds
  <2>5. CASE Idles
    BY <2>5 DEF Idles
  <2> QED BY <1>4, <2>1, <2>2, <2>3, <2>4, <2>5
<1>5. ASSUME NEW id \in CancelIds, Refuses(id)
      PROVE  \A j \in DOMAIN reports' : reports'[j].kind = "REJECTED" =>
                (j \in DOMAIN reports /\ reports'[j] = reports[j]) \/ j = Len(reports')
  <2>1. PICK e : e = Answer("REJECTED", id)
    OBVIOUS
  <2>2. reports' = Append(reports, e) /\ e.kind \in ReportKinds
    BY <1>3, <1>5, <2>1 DEF Refuses, ReportKinds
  <2>3. Len(reports') = Len(reports) + 1
    BY <1>0, <2>2 DEF TypeOK
  <2> QED BY <1>0, <2>2, <2>3, ReportAdded
<1> QED BY <1>4, <1>5 DEF ReportStep

LEMMA RefusalStays ==
    ASSUME IInv, StoryInv, LedgerStep, TermsStay, NEW j \in DOMAIN reports, RefusalIsTrue(j)
    PROVE  RefusalIsTrue(j)'
<1>1. TypeOK /\ j \in 0 .. Len(reports) /\ reports'[j] = reports[j]
  BY ReportsAreNumbered, ReportsStay DEF IInv
<1>2. \A r \in Refs : /\ r \in Refs' /\ orders'[r].orderID = orders[r].orderID
                      /\ Left(r, j)' = Left(r, j)
                      /\ ToldEnded(r, j)' <=> ToldEnded(r, j)
  BY <1>1, LeftStays, ToldStays DEF TermsStay, SameTerms, ToldEnded
<1> QED BY <1>1, <1>2 DEF RefusalIsTrue

\* An order that is over has nothing left, or was reported to have ended.
LEMMA OverIsTold ==
    ASSUME TypeOK', StatusInv', NEW r \in Refs', r \notin Resting', ~ Busy(r)',
           NEW k, k = Len(reports')
    PROVE  Left(r, k)' = 0 \/ ToldEnded(r, k)'
<1>1. StatusIsTrue(r)'
  BY DEF StatusInv
<1>2. orders'[r].quantity \in Nat
  <2>1. orders' \in Seq(OrderRecord) /\ Refs' = DOMAIN orders'
    BY DEF TypeOK, Refs
  <2>2. orders'[r] \in OrderRecord
    BY <2>1
  <2> QED BY <2>2, OrderFields
<1>3. CASE orders'[r].quantity = 0
  BY <1>3, LeftAtTheNewEnd
<1>4. CASE orders'[r].quantity > 0
  <2>1. Ended(r)'
    BY <1>1, <1>4 DEF StatusIsTrue
  <2>2. DOMAIN reports' = 1 .. k
    BY DEF TypeOK
  <2> QED BY <2>1, <2>2 DEF Ended, ToldEnded, ToldExpired, ToldCancelled
<1> QED BY <1>2, <1>3, <1>4

\* The engine refuses to cancel one of the client's orders.
LEMMA RefusalsKeptByEngine ==
    ASSUME SessionFacts, EngineFacts', ~ ReuseIds, QueueInv, RefusalsInv,
           HandleOwn \/ HandleForeign \/ EngineRuns
    PROVE  RefusalsInv'
<1>0. /\ IInv /\ TypeOK /\ StoryInv /\ IndexInv /\ InboundInv
      /\ TypeOK' /\ StatusInv' /\ missed' = missed
  BY DEF SessionFacts, EngineFacts, IInv, HandleOwn, HandleForeign, EngineRuns, clientVars
<1>1. Works /\ ReportStep /\ LedgerStep /\ TermsStay
  BY EngineWorks DEF SessionFacts, Works
<1>2. ASSUME ~ missed, NEW j \in DOMAIN reports', reports'[j].kind = "REJECTED",
             reports'[j].id \in OwnIds
      PROVE  RefusalIsTrue(j)'
  <2>1. CASE j \in DOMAIN reports /\ reports'[j] = reports[j]
    BY <1>0, <1>1, <1>2, <2>1, RefusalStays DEF RefusalsInv
  <2>2. CASE j = Len(reports') /\ \E id : Refuses(id)
    <3>1. PICK x : Refuses(x)
      BY <2>2
    <3>2. /\ pc = "idle" /\ pc' = "idle" /\ orders' = orders /\ Refs' = Refs
          /\ Resting' = Resting
      BY <3>1 DEF Refuses, Passes
    <3>3. ~ Arrives
      BY <3>2 DEF Arrives
    <3>4. PICK id \in CancelIds : /\ HandleCancel(id)
                                  /\ id \in OwnIds => /\ HandleOwn
                                                      /\ Head(inbound) = cancelOrderFrame(0, id)
      <4>1. CASE HandleOwn
        <5>1. HandlesFrame
          BY <1>0, <4>1, OwnFramesAreCalls
        <5>2. ~ \E t \in OwnTickets : HandleNew(t)
          BY <1>0, <3>3, NewOrdersArrive, SessionAssumption DEF ArrivesAs
        <5>3. OwnIds \subseteq CancelIds
          BY OwnIdsAssumption DEF OwnIds
        <5> QED BY <4>1, <5>1, <5>2, <5>3 DEF HandlesFrame
      <4>2. CASE HandleForeign
        <5>1. ~ \E t \in Tickets : HandleNew(t)
          BY <1>0, <3>3, NewOrdersArrive DEF ArrivesAs
        <5> QED BY <4>2, <5>1 DEF HandleForeign, OwnIds
      <4>3. ~ EngineRuns
        BY <3>2 DEF EngineRuns, Continue, MatchPegPool, MatchPegPoolEnds, MatchLit,
                    MatchLitEnds, RestPeg, AddToBook, ExpireRemainder, NoRemainder,
                    CrossPegPools, CrossPegPoolsEnds
      <4> QED BY <4>1, <4>2, <4>3
    <3>5. reports'[j] = Answer("REJECTED", id) /\ Refuses(id) /\ reports'[j].id = id
      <4>1. PICK e : e = IF Refuses(id) THEN Answer("REJECTED", id) ELSE Answer("CANCELLED", id)
        OBVIOUS
      <4>2. Refuses(id) \/ Withdraws(id)
        BY <1>0, <3>4, CancelsAnswer
      <4>3. reports' = Append(reports, e) /\ e.kind \in ReportKinds /\ e.id = id
        BY <4>1, <4>2 DEF Refuses, Withdraws, Answer, ReportKinds
      <4>4. Len(reports') = Len(reports) + 1
        BY <1>0, <4>3 DEF TypeOK
      <4>5. reports'[j] = e
        BY <1>0, <2>2, <4>3, <4>4, ReportAdded
      <4>6. e.kind = "REJECTED"
        BY <1>2, <4>5
      <4> QED BY <4>1, <4>3, <4>5, <4>6 DEF Answer
    <3>6. HasCome(id)
      <4>1. inbound # <<>> /\ Head(inbound).type = "CANCEL" /\ Head(inbound).origClOrdId = id
        BY <1>2, <3>4, <3>5 DEF HandleOwn, cancelOrderFrame
      <4>2. 1 \in DOMAIN inbound /\ Head(inbound) = inbound[1] /\ 1 .. 1 - 1 = {}
        BY <1>0, <4>1 DEF InboundInv
      <4>3. ComesWithin(id, 1 - 1)
        BY <1>2, <4>1, <4>2 DEF QueueInv
      <4> QED BY <4>2, <4>3 DEF ComesWithin
    <3>7. PICK r \in Refs : orders[r].orderID = id
      BY <3>6 DEF HasCome
    <3>8. r \in Refs' /\ orders'[r].orderID = id /\ r \notin Resting' /\ ~ Busy(r)'
      BY <3>2, <3>5, <3>7 DEF Refuses, Busy, Dealing
    <3>9. PICK k : k = Len(reports')
      OBVIOUS
    <3>10. Left(r, k)' = 0 \/ ToldEnded(r, k)'
      BY <1>0, <3>8, <3>9, OverIsTold
    <3> QED BY <2>2, <3>5, <3>8, <3>9, <3>10 DEF RefusalIsTrue
  <2> QED BY <1>0, <1>1, <1>2, <2>1, <2>2, NewRefusals
<1> QED BY <1>0, <1>2 DEF RefusalsInv, RefusalIsTrue

LEMMA RefusalsKept ==
    ASSUME SessionFacts, EngineFacts', ~ ReuseIds, QueueInv, RefusalsInv,
           [SessionNext]_sessionVars
    PROVE  RefusalsInv'
<1>1. CASE HandleOwn \/ HandleForeign \/ EngineRuns
  BY <1>1, RefusalsKeptByEngine
<1>2. ASSUME UNCHANGED vars, missed => missed'
      PROVE  RefusalsInv'
  <2>1. Refs' = Refs /\ orders' = orders /\ reports' = reports
    BY <1>2 DEF vars, Refs
  <2>2. \A r, n : /\ Left(r, n)' = Left(r, n)
                  /\ ToldEnded(r, n)' <=> ToldEnded(r, n)
    BY <2>1 DEF Left, LaterFills, ToldEnded, ToldExpired, ToldCancelled
  <2>3. \A j : RefusalIsTrue(j)' <=> RefusalIsTrue(j)
    BY <2>1, <2>2 DEF RefusalIsTrue, OwnIds
  <2> QED BY <1>2, <2>1, <2>3 DEF RefusalsInv
<1>3. CASE ~ (HandleOwn \/ HandleForeign \/ EngineRuns)
  <2>1. UNCHANGED vars
    BY <1>3 DEF SessionNext, SendNew, SendCancel, Write, PublishBook, ReceiveExec, ReceiveBook,
                DropConnection, Reconnect, sessionVars
  <2>2. missed => missed'
    <3>1. CASE DropConnection \/ Reconnect
      BY <3>1, OthersTurn DEF SessionFacts, Turns
    <3>2. CASE ~ (DropConnection \/ Reconnect)
      BY <1>3, <3>2 DEF SessionNext, SendNew, SendCancel, Write, PublishBook, ReceiveExec,
                        ReceiveBook, clientVars, sessionVars
    <3> QED BY <3>1, <3>2
  <2> QED BY <1>2, <2>1, <2>2
<1> QED BY <1>1, <1>3

-----------------------------------------------------------------------------
(* Each row shows its order as the reports that the client has had tell.   *)

ShowsOrder(row, r, n) ==
    /\ row.remainingQty = Left(r, n) /\ row.status # "REJECTED"
    /\ row.status = "FILLED" <=> Left(r, n) = 0
    /\ row.status = "EXPIRED" <=> ToldExpired(r, n)
    /\ row.status = "CANCELLED" <=> ToldCancelled(r, n)
    /\ row.status = "PARTIALLY_FILLED" => Left(r, n) < orders[r].orderQty
    /\ row.status \in {"PENDING", "OPEN"} => Left(r, n) = orders[r].orderQty
    /\ row.status = "PENDING" => ~ ToldAccepted(r, n)
    /\ row.status = "OPEN" => ToldAccepted(r, n)

Agrees(row, n) ==
    /\ \A r \in Refs : orders[r].orderID = row.clOrdId => ShowsOrder(row, r, n)
    /\ Arrived(row) \/ (row.status = "PENDING" /\ row.remainingQty = row.originalQty)

AgreeInv == ~ missed => \A row \in Rows : Agrees(row, execRead)

\* What is told by one more report.
LEMMA ToldByOneMore ==
    ASSUME TypeOK, NEW r \in Refs, NEW n \in Nat, NEW k, k = n + 1, NEW report,
           report = reports[k]
    PROVE  /\ ToldAccepted(r, k) <=>
                 ToldAccepted(r, n) \/ (report.kind = "ACCEPTED" /\ report.order = r)
           /\ ToldExpired(r, k) <=>
                 ToldExpired(r, n) \/ (report.kind = "EXPIRED" /\ report.order = r)
           /\ ToldCancelled(r, k) <=>
                 ToldCancelled(r, n) \/ (report.kind = "CANCELLED"
                                           /\ report.id = orders[r].orderID)
<1>1. 1 .. k = (1 .. n) \cup {k}
  OBVIOUS
<1> QED BY <1>1 DEF ToldAccepted, ToldExpired, ToldCancelled

\* What is left of an order before and after a report.
LEMMA LeftByOneMore ==
    ASSUME EngineFacts, HistoryInv, ~ ReuseIds, NEW r \in Refs,
           NEW n \in Nat, NEW k, k = n + 1, k \in DOMAIN reports
    PROVE  /\ Left(r, k) \in Nat /\ Left(r, n) \in Nat /\ orders[r].orderQty \in Nat
           /\ Left(r, k) <= Left(r, n) /\ Left(r, n) <= orders[r].orderQty
           /\ Names(reports[k], r) =>
                 /\ reports[k].quantity \in Nat \ {0}
                 /\ Left(r, n) = Left(r, k) + reports[k].quantity
           /\ ~ Names(reports[k], r) => Left(r, k) = Left(r, n)
           /\ ToldEnded(r, n) => Left(r, k) = Left(r, n)
           /\ ToldEnded(r, k) => Left(r, k) > 0
           /\ ~ (ToldExpired(r, k) /\ ToldCancelled(r, k))
<1>0. TypeOK /\ StoryInv /\ StatusInv /\ ReportsAreTrue
  BY DEF EngineFacts, IInv
<1>1. n < Len(reports) /\ n \in 0 .. Len(reports) /\ k \in 0 .. Len(reports) /\ k \in Nat
      /\ 0 \in Nat /\ 0 <= n /\ n <= k
  BY <1>0, ReportsAreNumbered
<1>2. /\ Left(r, k) <= Left(r, n) /\ Left(r, n) <= Left(r, 0)
      /\ Left(r, k) \in Nat /\ Left(r, n) \in Nat
  BY <1>0, <1>1, LeftShrinks
<1>3. Left(r, 0) = orders[r].orderQty /\ orders[r].orderQty \in Nat
  BY <1>0, StatusTypes DEF HistoryInv
<1>4. /\ Names(reports[k], r) => Left(r, n) = Left(r, k) + reports[k].quantity
      /\ ~ Names(reports[k], r) => Left(r, k) = Left(r, n)
  BY <1>0, <1>1, LeftAfterOneMore
<1>5. Names(reports[k], r) => reports[k].quantity \in Nat \ {0}
  BY <1>0 DEF Names, ReportsAreTrue
<1>6. /\ ~ (ToldExpired(r, k) /\ ToldCancelled(r, k))
      /\ ToldEnded(r, k) => orders[r].quantity > 0
  BY <1>0, <1>1, IdsAreDifferent, EndedIsOver
<1>7. orders[r].quantity \in Nat /\ orders[r].quantity <= Left(r, k)
  BY <1>0, LeftIsEnough
<1>8. ToldEnded(r, n) => Left(r, k) = Left(r, n)
  <2> SUFFICES ASSUME ToldEnded(r, n) PROVE Left(r, k) = Left(r, n)
    OBVIOUS
  <2>1. LaterFills(r, n) = {}
    BY <1>1 DEF HistoryInv
  <2>2. LaterFills(r, k) = {}
    BY <1>0, <1>1, <2>1, ReportsAreNumbered DEF LaterFills
  <2> QED BY <2>1, <2>2 DEF Left
<1> QED BY <1>2, <1>3, <1>4, <1>5, <1>6, <1>7, <1>8

\* A row that shows its order still does after one more report.
LEMMA ReadingShows ==
    ASSUME SessionFacts, HistoryInv, ~ ReuseIds, NEW row \in Rows,
           NEW n \in Nat, NEW k, k = n + 1, k \in DOMAIN reports, RefusalIsTrue(k),
           NEW frame, frame = ExecOf(k),
           NEW r \in Refs, orders[r].orderID = row.clOrdId, ShowsOrder(row, r, n)
    PROVE  ShowsOrder(RowAfter(row, frame), r, k)
<1>0. /\ EngineFacts /\ TypeOK /\ ReportsAreTrue
      /\ \A q \in Refs : orders[q].orderID = row.clOrdId => q = r
  BY IdsAreDifferent DEF SessionFacts, EngineFacts, IInv
<1>1. /\ row \in MyOrder /\ row.clOrdId \in OwnIds /\ row.clOrdId > 0
      /\ row.status \in OrderStatuses /\ row.remainingQty \in Int
  <2>1. row \in MyOrder /\ row.clOrdId \in OwnIds
    BY DEF SessionFacts, RowsInv
  <2>2. row.clOrdId > 0
    BY <2>1, SessionAssumption, TicketsAssumption DEF OwnIds, ConstructorAccepts
  <2> QED BY <2>1, <2>2 DEF MyOrder
<1>2. PICK report : report = reports[k]
  OBVIOUS
<1>3. PICK L, M, Q : L = Left(r, n) /\ M = Left(r, k) /\ Q = orders[r].orderQty
  OBVIOUS
<1>4. /\ L \in Nat /\ M \in Nat /\ Q \in Nat /\ M <= L /\ L <= Q
      /\ Names(report, r) => report.quantity \in Nat \ {0} /\ L = M + report.quantity
      /\ ~ Names(report, r) => M = L
      /\ ToldEnded(r, n) => M = L
      /\ ToldEnded(r, k) => M > 0
      /\ ~ (ToldExpired(r, k) /\ ToldCancelled(r, k))
  BY <1>0, <1>2, <1>3, LeftByOneMore
<1>5. /\ ToldAccepted(r, k) <=>
            ToldAccepted(r, n) \/ (report.kind = "ACCEPTED" /\ report.order = r)
      /\ ToldExpired(r, k) <=>
            ToldExpired(r, n) \/ (report.kind = "EXPIRED" /\ report.order = r)
      /\ ToldCancelled(r, k) <=>
            ToldCancelled(r, n) \/ (report.kind = "CANCELLED" /\ report.id = row.clOrdId)
  BY <1>0, <1>2, ToldByOneMore
<1>6. /\ row.remainingQty = L /\ row.status # "REJECTED"
      /\ row.status = "FILLED" <=> L = 0
      /\ row.status = "EXPIRED" <=> ToldExpired(r, n)
      /\ row.status = "CANCELLED" <=> ToldCancelled(r, n)
      /\ row.status = "PARTIALLY_FILLED" => L < Q
      /\ row.status \in {"PENDING", "OPEN"} => L = Q
      /\ row.status = "PENDING" => ~ ToldAccepted(r, n)
      /\ row.status = "OPEN" => ToldAccepted(r, n)
  BY <1>3 DEF ShowsOrder
<1>7. ASSUME NEW x,
             /\ x.remainingQty = M /\ x.status # "REJECTED"
             /\ x.status = "FILLED" <=> M = 0
             /\ x.status = "EXPIRED" <=> ToldExpired(r, k)
             /\ x.status = "CANCELLED" <=> ToldCancelled(r, k)
             /\ x.status = "PARTIALLY_FILLED" => M < Q
             /\ x.status \in {"PENDING", "OPEN"} => M = Q
             /\ x.status = "PENDING" => ~ ToldAccepted(r, k)
             /\ x.status = "OPEN" => ToldAccepted(r, k),
             RowAfter(row, frame) = x
      PROVE  ShowsOrder(RowAfter(row, frame), r, k)
  BY <1>3, <1>7 DEF ShowsOrder
<1>8. /\ report.kind \in ReportKinds
      /\ report.kind \in OrderReports =>
            /\ report.order \in Refs /\ frame.orderId = orders[report.order].orderID
            /\ frame.remainingQuantity = report.remaining
            /\ report.remaining = Left(report.order, k)
      /\ report.kind \notin OrderReports => frame.orderId = report.id
      /\ report.kind = "FILL" =>
            /\ isFill(frame) /\ frame.filledQuantity = report.quantity
            /\ frame.execType = FillType(report) /\ report.passive \in Refs
            /\ report.passive # report.order
            /\ frame.passiveOrderId = orders[report.passive].orderID
      /\ report.kind # "FILL" => ~ isFill(frame)
      /\ report.kind = "ACCEPTED"  => frame.execType = "ORDER_ACCEPTED"
      /\ report.kind = "EXPIRED"   => frame.execType = "ORDER_EXPIRED"
      /\ report.kind = "CANCELLED" => frame.execType = "ORDER_CANCELLED"
      /\ report.kind = "REJECTED"  => frame.execType = "ORDER_REJECTED"
  BY <1>0, <1>2, ExecIsFrame DEF ReportsAreTrue
<1>9. CASE isTerminal(row.status)
  <2>1. RowAfter(row, frame) = row
    BY <1>9 DEF RowAfter, nextOrder, passiveFill
  <2>2. row.status \in {"FILLED", "EXPIRED", "CANCELLED"}
    BY <1>6, <1>9 DEF isTerminal, TERMINAL
  <2> QED BY <1>4, <1>5, <1>6, <1>7, <2>1, <2>2 DEF ToldEnded
<1>10. CASE ~ isTerminal(row.status)
  <2>1. row.status \in {"PENDING", "OPEN", "PARTIALLY_FILLED"} /\ L > 0 /\ ~ ToldEnded(r, n)
    BY <1>1, <1>4, <1>6, <1>10 DEF isTerminal, TERMINAL, OrderStatuses, ToldEnded
  <2>2. CASE row.clOrdId = frame.orderId
    <3>1. PICK status, remaining :
             /\ status = IF /\ frame.execType = "ORDER_ACCEPTED"
                            /\ row.status = "PARTIALLY_FILLED"
                         THEN row.status ELSE StatusReported[frame.execType]
             /\ remaining = RemainingReported(row, frame)
      OBVIOUS
    <3>2. PICK x : x = RowAfter(row, frame)
      OBVIOUS
    <3>3. x = [row EXCEPT !.status = status, !.remainingQty = remaining]
      BY <1>10, <2>2, <3>1, <3>2 DEF RowAfter, nextOrder
    <3>4. x.status = status /\ x.remainingQty = remaining
      BY <1>1, <3>3 DEF MyOrder
    <3>5. report.kind \in OrderReports => report.order = r
      BY <1>0, <1>8, <2>2
    <3>6. CASE report.kind = "FILL"
      <4>1. report.order = r /\ report.remaining = M /\ Names(report, r)
        BY <1>3, <1>8, <3>5, <3>6 DEF OrderReports, Names
      <4>2. frame.execType = IF M = 0 THEN "ORDER_FILLED" ELSE "ORDER_PARTIALLY_FILLED"
        BY <1>8, <3>6, <4>1 DEF FillType
      <4>3. frame.remainingQuantity = M
        BY <1>8, <3>6, <4>1 DEF OrderReports
      <4>4. remaining = M /\ status = IF M = 0 THEN "FILLED" ELSE "PARTIALLY_FILLED"
        BY <3>1, <4>2, <4>3 DEF RemainingReported, StatusReported
      <4>5. ~ ToldEnded(r, k) /\ M < Q
        BY <1>4, <1>5, <2>1, <3>6, <4>1 DEF ToldEnded
      <4> QED BY <1>7, <3>2, <3>4, <4>4, <4>5 DEF ToldEnded
    <3>7. CASE report.kind = "ACCEPTED"
      <4>1. report.order = r /\ frame.remainingQuantity = M /\ ~ Names(report, r) /\ M = L
        BY <1>3, <1>4, <1>8, <3>5, <3>7 DEF OrderReports, Names
      <4>2. remaining = M
            /\ status = IF row.status = "PARTIALLY_FILLED" THEN "PARTIALLY_FILLED" ELSE "OPEN"
        BY <1>8, <3>1, <3>7, <4>1 DEF RemainingReported, StatusReported
      <4>3. ~ ToldEnded(r, k) /\ ToldAccepted(r, k)
        BY <1>5, <2>1, <3>7, <4>1 DEF ToldEnded
      <4> QED BY <1>6, <1>7, <2>1, <3>2, <3>4, <4>1, <4>2, <4>3 DEF ToldEnded
    <3>8. CASE report.kind = "EXPIRED"
      <4>1. report.order = r /\ frame.remainingQuantity = M
        BY <1>3, <1>8, <3>5, <3>8 DEF OrderReports
      <4>2. remaining = M /\ status = "EXPIRED"
        BY <1>8, <3>1, <3>8, <4>1 DEF RemainingReported, StatusReported
      <4>3. ToldExpired(r, k) /\ ~ ToldCancelled(r, k) /\ M > 0
        BY <1>4, <1>5, <3>8, <4>1 DEF ToldEnded
      <4> QED BY <1>7, <3>2, <3>4, <4>2, <4>3
    <3>9. CASE report.kind = "CANCELLED"
      <4>1. report.id = row.clOrdId /\ ~ Names(report, r) /\ M = L
        BY <1>4, <1>8, <2>2, <3>9 DEF OrderReports, Names
      <4>2. remaining = row.remainingQty /\ status = "CANCELLED"
        BY <1>8, <3>1, <3>9 DEF RemainingReported, StatusReported
      <4>3. ToldCancelled(r, k) /\ ~ ToldExpired(r, k) /\ M > 0
        BY <1>4, <1>5, <3>9, <4>1 DEF ToldEnded
      <4> QED BY <1>6, <1>7, <3>2, <3>4, <4>1, <4>2, <4>3
    <3>10. CASE report.kind = "REJECTED"
      <4>1. report.id = row.clOrdId /\ ~ Names(report, r) /\ M = L
        BY <1>4, <1>8, <2>2, <3>10 DEF OrderReports, Names
      <4>2. M = 0 \/ ToldEnded(r, k)
        BY <1>0, <1>1, <1>2, <1>3, <3>10, <4>1 DEF RefusalIsTrue
      <4>3. ~ ToldEnded(r, k)
        BY <1>5, <2>1, <3>10 DEF ToldEnded
      <4> QED BY <2>1, <4>1, <4>2, <4>3
    <3> QED BY <1>8, <3>6, <3>7, <3>8, <3>9, <3>10 DEF ReportKinds
  <2>3. CASE /\ row.clOrdId # frame.orderId
             /\ report.kind = "FILL" /\ report.passive = r
    <3>1. PICK q, remaining : q = report.quantity /\ remaining = Greatest(0, row.remainingQty - q)
      OBVIOUS
    <3>2. PICK x : x = RowAfter(row, frame)
      OBVIOUS
    <3>3. x = [ row EXCEPT !.remainingQty = remaining,
                           !.status = IF remaining = 0 THEN "FILLED" ELSE "PARTIALLY_FILLED" ]
      BY <1>1, <1>8, <1>10, <2>3, <3>1, <3>2 DEF RowAfter, passiveFill
    <3>4. /\ x.remainingQty = remaining
          /\ x.status = IF remaining = 0 THEN "FILLED" ELSE "PARTIALLY_FILLED"
      BY <1>1, <3>3 DEF MyOrder
    <3>5. q \in Nat \ {0} /\ L = M + q
      BY <1>4, <2>3, <3>1 DEF Names
    <3>6. remaining = M /\ M < Q
      BY <1>4, <1>6, <3>1, <3>5 DEF Greatest
    <3>7. ~ ToldEnded(r, k)
      BY <1>5, <2>1, <2>3 DEF ToldEnded
    <3> QED BY <1>7, <3>2, <3>4, <3>6, <3>7 DEF ToldEnded
  <2>4. CASE /\ row.clOrdId # frame.orderId
             /\ ~ (report.kind = "FILL" /\ report.passive = r)
    <3>1. report.kind = "FILL" => row.clOrdId # frame.passiveOrderId
      BY <1>0, <1>8, <2>4
    <3>2. RowAfter(row, frame) = row
      BY <1>8, <2>4, <3>1 DEF RowAfter
    <3>3. report.kind \in OrderReports => report.order # r
      BY <1>8, <2>4
    <3>4. ~ Names(report, r) /\ M = L
      BY <1>4, <2>4, <3>3 DEF Names, OrderReports
    <3>5. /\ ToldAccepted(r, k) <=> ToldAccepted(r, n)
          /\ ToldExpired(r, k) <=> ToldExpired(r, n)
          /\ ToldCancelled(r, k) <=> ToldCancelled(r, n)
      BY <1>5, <1>8, <2>4, <3>3 DEF OrderReports
    <3> QED BY <1>6, <1>7, <3>2, <3>4, <3>5
  <2> QED BY <2>2, <2>3, <2>4
<1> QED BY <1>9, <1>10

\* So do all the rows: a report is of an order that has arrived.
LEMMA ReadingAgrees ==
    ASSUME SessionFacts, HistoryInv, ~ ReuseIds, NEW row \in Rows,
           NEW n \in Nat, NEW k, k = n + 1, k \in DOMAIN reports, RefusalIsTrue(k),
           NEW frame, frame = ExecOf(k), Agrees(row, n)
    PROVE  Agrees(RowAfter(row, frame), k)
<1>0. EngineFacts /\ TypeOK /\ ReportsAreTrue /\ StatusInv /\ IsApp(app)
  BY DEF SessionFacts, EngineFacts, IInv, StreamsInv
<1>1. PICK x : x = RowAfter(row, frame)
  OBVIOUS
<1>2. x.clOrdId = row.clOrdId
  <2>1. row \in MyOrder /\ SameOrder(row, row)
    BY DEF SessionFacts, RowsInv, SameOrder
  <2>2. frame \in ExecFrame
    BY <1>0, ExecIsFrame
  <2>3. frame.filledQuantity \in Int
    BY <2>2 DEF ExecFrame
  <2> QED BY <1>1, <2>1, <2>2, <2>3, NextOrderType, PassiveFillType DEF RowAfter, SameOrder
<1>3. CASE Arrived(row)
  <2>1. \A r \in Refs : orders[r].orderID = row.clOrdId => ShowsOrder(x, r, k)
    BY <1>1, ReadingShows DEF Agrees
  <2> QED BY <1>1, <1>2, <1>3, <2>1 DEF Agrees, Arrived
<1>4. CASE ~ Arrived(row)
  <2>1. \A r \in Refs : orders[r].orderID # row.clOrdId
    BY <1>4 DEF Arrived
  <2>2. PICK report : report = reports[k]
    OBVIOUS
  <2>3. row.clOrdId # frame.orderId
    <3>1. CASE report.kind \in OrderReports
      <4>1. report.order \in Refs /\ frame.orderId = orders[report.order].orderID
        BY <1>0, <2>2, <3>1, ExecIsFrame DEF ReportsAreTrue
      <4> QED BY <2>1, <4>1
    <3>2. CASE report.kind = "CANCELLED"
      <4>1. frame.orderId = report.id
        BY <1>0, <2>2, <3>2, ExecIsFrame DEF OrderReports
      <4>2. EndIsTrue(k)
        BY <1>0 DEF StatusInv
      <4> QED BY <2>1, <2>2, <3>2, <4>1, <4>2 DEF EndIsTrue
    <3>3. CASE report.kind = "REJECTED"
      <4>1. frame.orderId = report.id
        BY <1>0, <2>2, <3>3, ExecIsFrame DEF OrderReports
      <4>2. row.clOrdId \in OwnIds
        BY DEF SessionFacts, RowsInv
      <4> QED BY <2>1, <2>2, <3>3, <4>1, <4>2 DEF RefusalIsTrue
    <3>4. report.kind \in ReportKinds
      BY <1>0, <2>2, ExecIsFrame
    <3> QED BY <3>1, <3>2, <3>3, <3>4 DEF ReportKinds, OrderReports
  <2>4. isFill(frame) => row.clOrdId # frame.passiveOrderId
    <3> SUFFICES ASSUME isFill(frame) PROVE row.clOrdId # frame.passiveOrderId
      OBVIOUS
    <3>1. report.kind = "FILL"
      BY <1>0, <2>2, ExecIsFrame
    <3>2. report.passive \in Refs /\ frame.passiveOrderId = orders[report.passive].orderID
      BY <1>0, <2>2, <3>1, ExecIsFrame DEF ReportsAreTrue
    <3> QED BY <2>1, <3>2
  <2>5. RowAfter(row, frame) = row
    BY <2>3, <2>4 DEF RowAfter
  <2> QED BY <1>4, <2>1, <2>5 DEF Agrees
<1> QED BY <1>3, <1>4

\* A step of the engine leaves a row where it is, agreeing with what the client has had.
LEMMA EngineAgrees ==
    ASSUME SessionFacts, ~ ReuseIds, Works, EngineFacts', NEW row \in Rows,
           NEW n \in 0 .. Len(reports), Agrees(row, n)
    PROVE  Agrees(row, n)'
<1>0. IInv /\ TypeOK /\ StoryInv /\ StatusInv /\ ReportsAreTrue
      /\ ReportStep /\ TermsStay /\ LedgerStep
  BY DEF SessionFacts, EngineFacts, IInv, Works
<1>1. ASSUME NEW r \in Refs
      PROVE  /\ r \in Refs' /\ orders'[r].orderID = orders[r].orderID
             /\ Left(r, n)' = Left(r, n)
             /\ ShowsOrder(row, r, n) => ShowsOrder(row, r, n)'
  <2>1. /\ r \in Refs' /\ orders'[r].orderID = orders[r].orderID
        /\ orders'[r].orderQty = orders[r].orderQty
    BY <1>0 DEF TermsStay, SameTerms
  <2>2. Left(r, n)' = Left(r, n)
    BY <1>0, LeftStays
  <2>3. /\ ToldAccepted(r, n)' <=> ToldAccepted(r, n)
        /\ ToldExpired(r, n)' <=> ToldExpired(r, n)
        /\ ToldCancelled(r, n)' <=> ToldCancelled(r, n)
    BY <1>0, ToldStays
  <2>4. PICK l : l = Left(r, n)
    OBVIOUS
  <2>5. Left(r, n)' = l
    BY <2>2, <2>4
  <2> QED BY <2>1, <2>2, <2>3 DEF ShowsOrder
<1>2. CASE \A r \in Refs' : r \in Refs \/ orders'[r].orderID # row.clOrdId
  <2>1. \A r \in Refs' : orders'[r].orderID = row.clOrdId => ShowsOrder(row, r, n)'
    BY <1>1, <1>2 DEF Agrees
  <2>2. Arrived(row) => Arrived(row)'
    BY <1>1 DEF Arrived
  <2> QED BY <2>1, <2>2 DEF Agrees
<1>3. ASSUME NEW new \in Refs', new \notin Refs, orders'[new].orderID = row.clOrdId
      PROVE  Agrees(row, n)'
  <2>1. Arrives /\ new = incoming' /\ new \in Nat /\ Refs' = Refs \cup {new}
    BY <1>0, <1>3, NewcomersArrive
  <2>2. orders'[new].quantity = orders'[new].orderQty /\ orders'[new].quantity \in Nat
    BY <2>1 DEF Arrives
  <2>3. \A r \in Refs : orders[r].orderID # row.clOrdId
    <3>1. \A r \in Refs : orders'[r].orderID # orders'[new].orderID
      BY <1>1, <1>3 DEF EngineFacts, IndexInv, IdsDiffer
    <3> QED BY <1>1, <1>3, <3>1
  <2>4. row.status = "PENDING" /\ row.remainingQty = row.originalQty
    BY <2>3 DEF Agrees, Arrived
  <2>5. row.originalQty = orders'[new].orderQty /\ orders'[new].orderQty # 0
    <3>1. row.clOrdId \in OwnIds
      BY DEF SessionFacts, RowsInv
    <3>2. PICK t \in OwnTickets : /\ ArrivesAs(t)
                                  /\ newOrderFrame(t.orderID, IntentOf(t)) \in Waiting
      BY <1>3, <2>1, <3>1 DEF Works
    <3>3. PICK f : f = newOrderFrame(t.orderID, IntentOf(t))
      OBVIOUS
    <3>4. f.type = "NEW" /\ f.clOrdId = t.orderID /\ f.qty = t.quantity /\ f \in Waiting
      BY <3>2, <3>3, OwnTicketsArrive
    <3>5. orders'[new].orderID = t.orderID /\ orders'[new].orderQty = t.quantity
      BY <2>1, <3>2 DEF ArrivesAs
    <3>6. \E x \in Rows : x.clOrdId = t.orderID /\ x.originalQty = t.quantity
      BY <3>4 DEF SessionFacts, RowsInv, RowOfFrame
    <3>7. t.quantity # 0
      BY SessionAssumption, TicketsAssumption DEF ConstructorAccepts
    <3> QED BY <1>3, <3>5, <3>6, <3>7 DEF SessionFacts, RowsInv
  <2>6. Left(new, n)' = orders'[new].quantity
    <3>1. LaterFills(new, n)' = {}
      BY <1>0, <2>1, AllIsLeftAtFirst
    <3>2. Left(new, n)' = orders'[new].quantity + QuantityIn(reports', LaterFills(new, n)')
      BY DEF Left, QuantityIn, MapThenSumSet, MapThenFoldSet
    <3> QED BY <2>2, <3>1, <3>2, QuantityInNothing
  <2>7. ~ ToldAccepted(new, n)' /\ ~ ToldExpired(new, n)' /\ ~ ToldCancelled(new, n)'
    <3>1. /\ \A j \in 1 .. n : j \in DOMAIN reports /\ reports'[j] = reports[j]
      BY <1>0, ReportsAreNumbered, ReportsStay
    <3>2. \A j \in 1 .. n : reports[j].kind \in {"ACCEPTED", "EXPIRED"} =>
             reports[j].order \in Refs
      BY <1>0, <3>1 DEF ReportsAreTrue, OrderReports
    <3>3. \A j \in 1 .. n : reports[j].kind = "CANCELLED" => reports[j].id # row.clOrdId
      BY <1>0, <2>3, <3>1 DEF StatusInv, EndIsTrue
    <3> QED BY <1>3, <3>1, <3>2, <3>3 DEF ToldAccepted, ToldExpired, ToldCancelled
  <2>8. ShowsOrder(row, new, n)'
    BY <2>2, <2>4, <2>5, <2>6, <2>7 DEF ShowsOrder
  <2>9. \A r \in Refs' : orders'[r].orderID = row.clOrdId => r = new
    BY <1>1, <2>1, <2>3
  <2>10. Arrived(row)'
    BY <1>3 DEF Arrived
  <2> QED BY <2>8, <2>9, <2>10 DEF Agrees
<1> QED BY <1>2, <1>3


LEMMA AgreeKept ==
    ASSUME SessionFacts, HistoryInv, RefusalsInv, ~ ReuseIds, AgreeInv, SessionStep, EngineFacts'
    PROVE  AgreeInv'
<1>0. /\ TypeOK /\ IsApp(app) /\ ReportsAreTrue
      /\ execRead \in 0 .. Len(reports) /\ Len(reports) \in Nat
  BY ReportsAreNumbered DEF SessionFacts, EngineFacts, IInv, StreamsInv
<1>1. PICK n \in 0 .. Len(reports) : n = execRead
  BY <1>0
<1>2. PICK m : m = execRead'
  OBVIOUS
<1>3. ASSUME missed' \/ \A row \in Rows' : Agrees(row, m)'
      PROVE  AgreeInv'
  <2>1. \A row : Agrees(row, execRead)' <=> Agrees(row, m)'
    BY <1>2 DEF Agrees, ShowsOrder, ToldAccepted, ToldExpired, ToldCancelled, Left, LaterFills
  <2> QED BY <1>3, <2>1 DEF AgreeInv
<1>4. ASSUME UNCHANGED vars, \A row \in Rows' : Agrees(row, m)
      PROVE  AgreeInv'
  <2>1. Refs' = Refs /\ orders' = orders /\ reports' = reports
    BY <1>4 DEF vars, Refs
  <2>2. \A r : /\ Left(r, m)' = Left(r, m)
               /\ ToldAccepted(r, m)' <=> ToldAccepted(r, m)
               /\ ToldExpired(r, m)' <=> ToldExpired(r, m)
               /\ ToldCancelled(r, m)' <=> ToldCancelled(r, m)
    BY <2>1 DEF Left, LaterFills, ToldAccepted, ToldExpired, ToldCancelled
  <2>3. \A row, r : ShowsOrder(row, r, m)' <=> ShowsOrder(row, r, m)
    BY <2>1, <2>2 DEF ShowsOrder
  <2>4. \A row : Agrees(row, m)' <=> Agrees(row, m)
    BY <2>1, <2>3 DEF Agrees, Arrived
  <2> QED BY <1>3, <1>4, <2>4
<1>5. SUFFICES ASSUME ~ missed'
               PROVE  AgreeInv'
  BY DEF AgreeInv
<1>6. ASSUME ~ missed
      PROVE  \A row \in Rows : Agrees(row, n)
  BY <1>1, <1>6 DEF AgreeInv
<1>7. ASSUME NEW f, Sends(f)
      PROVE  AgreeInv'
  <2>1. UNCHANGED vars /\ m = n /\ ~ missed
    BY <1>1, <1>2, <1>5, <1>7 DEF Sends
  <2>2. CASE f.type = "NEW"
    <3>1. PICK row : row = RowOf(f)
      OBVIOUS
    <3>2. /\ Rows' = Rows \cup {row} /\ row.clOrdId = f.clOrdId
          /\ \A other \in Rows : other.clOrdId # f.clOrdId
          /\ row.originalQty = f.qty /\ row.remainingQty = f.qty
          /\ row.status = "PENDING" /\ f.clOrdId \in OwnIds
      BY <1>0, <1>7, <2>2, <3>1, ARowIsAdded
    <3>3. \A r \in Refs : orders[r].orderID # row.clOrdId
      BY <3>2 DEF SessionFacts, RowsInv, StandsFor
    <3>4. Agrees(row, n)
      BY <3>2, <3>3 DEF Agrees
    <3> QED BY <1>4, <1>6, <2>1, <3>2, <3>4
  <2>3. CASE f.type # "NEW"
    <3>1. Rows' = Rows
      BY <1>0, <1>7, <2>3, ARowIsAdded
    <3> QED BY <1>4, <1>6, <2>1, <3>1
  <2> QED BY <2>2, <2>3
<1>8. CASE Works
  <2>1. Rows' = Rows /\ m = n /\ ~ missed
    BY <1>1, <1>2, <1>5, <1>8, RowsStay DEF Works
  <2>2. \A row \in Rows : Agrees(row, n)'
    BY <1>6, <1>8, <2>1, EngineAgrees
  <2> QED BY <1>3, <2>1, <2>2
<1>9. CASE Reads
  <2>1. UNCHANGED vars /\ m = n + 1 /\ m \in DOMAIN reports /\ n \in Nat /\ ~ missed
    BY <1>0, <1>1, <1>2, <1>5, <1>9, ReportsAreNumbered DEF Reads
  <2>2. PICK frame : frame = ExecOf(m)
    OBVIOUS
  <2>3. frame \in ExecFrame /\ app' = reduceFrame(app, frame)
    BY <1>0, <1>1, <1>9, <2>1, <2>2, ExecIsFrame DEF Reads
  <2>4. Rows' = {RowAfter(row, frame) : row \in Rows}
    BY <1>0, <2>3, RowsAreUpdated
  <2>5. RefusalIsTrue(m)
    BY <2>1 DEF RefusalsInv
  <2>6. \A row \in Rows : Agrees(RowAfter(row, frame), m)
    BY <1>6, <2>1, <2>2, <2>5, ReadingAgrees
  <2> QED BY <1>4, <2>1, <2>4, <2>6
<1>10. CASE Turns
  <2>1. UNCHANGED vars /\ Rows' = Rows /\ m = n /\ ~ missed
    BY <1>1, <1>2, <1>5, <1>10, RowsStay DEF Turns
  <2> QED BY <1>4, <1>6, <2>1
<1> QED BY <1>7, <1>8, <1>9, <1>10 DEF SessionStep

\* All of it holds in every session.
AgreementFacts == SessionFacts /\ HistoryInv /\ QueueInv /\ RefusalsInv /\ AgreeInv

LEMMA AgreementHolds ==
    ASSUME ~ ReuseIds
    PROVE  SessionSpec => []AgreementFacts
<1>1. SessionInit => QueueInv /\ RefusalsInv /\ AgreeInv
  <2> SUFFICES ASSUME SessionInit PROVE QueueInv /\ RefusalsInv /\ AgreeInv
    OBVIOUS
  <2>1. inbound = <<>> /\ reports = <<>> /\ Rows = {}
    BY TheAppAtFirst DEF SessionInit, Init, Rows
  <2> QED BY <2>1 DEF QueueInv, RefusalsInv, AgreeInv
<1>2. (/\ SessionFacts /\ EngineFacts' /\ HistoryInv /\ QueueInv /\ RefusalsInv /\ AgreeInv
       /\ [SessionNext]_sessionVars)
      => QueueInv' /\ RefusalsInv' /\ AgreeInv'
  <2> SUFFICES ASSUME SessionFacts, EngineFacts', HistoryInv, QueueInv, RefusalsInv, AgreeInv,
                      [SessionNext]_sessionVars
               PROVE  QueueInv' /\ RefusalsInv' /\ AgreeInv'
    OBVIOUS
  <2>1. SessionStep
    BY EverySessionStep DEF SessionFacts
  <2> QED BY <2>1, QueueKept, RefusalsKept, AgreeKept
<1>3. SessionFacts => EngineFacts
  BY DEF SessionFacts
<1>4. SessionFacts /\ HistoryInv /\ QueueInv /\ RefusalsInv /\ AgreeInv => AgreementFacts
  BY DEF AgreementFacts
<1> QED BY <1>1, <1>2, <1>3, <1>4, SessionFactsHold, HistoryHolds, TheSessionRunsTheEngine, PTL
        DEF SessionSpec

-----------------------------------------------------------------------------
(* The header's sums and the engine's. *)

\* Members worth nothing may be left out of a sum.
LEMMA SumDropsZeros ==
    ASSUME NEW f, NEW S, NEW T, IsFiniteSet(S), T \subseteq S,
           \A x \in S : f[x] \in Int, \A x \in S \ T : f[x] = 0
    PROVE  SumOver(f, S) = SumOver(f, T)
<1> DEFINE R == S \ T
           Good == {U \in SUBSET R : SumOver(f, T \cup U) = SumOver(f, T)}
<1>1. IsFiniteSet(R) /\ \A U \in SUBSET R : IsFiniteSet(T \cup U)
  BY FS_Subset
<1>2. {} \in Good
  <2>1. T \cup {} = T
    OBVIOUS
  <2> QED BY <2>1
<1>3. ASSUME NEW U \in SUBSET R, NEW x \in R, U \in Good, x \notin U
      PROVE  U \cup {x} \in Good
  <2>1. PICK W : W = T \cup U
    OBVIOUS
  <2>2. IsFiniteSet(W) /\ x \notin W /\ W \cup {x} = T \cup (U \cup {x}) /\ U \cup {x} \in SUBSET R
    BY <1>1, <1>3, <2>1
  <2>3. \A y \in W \cup {x} : f[y] \in Int
    BY <2>1
  <2>4. SumOver(f, W) \in Int
    BY <2>2, <2>3, SumOfIntegers
  <2>5. f[x] = 0
    OBVIOUS
  <2>6. SumOver(f, W \cup {x}) = SumOver(f, W) + f[x]
    BY <2>2, <2>3, SumWithOneMore
  <2>7. SumOver(f, W \cup {x}) = SumOver(f, W)
    BY <2>4, <2>5, <2>6
  <2> QED BY <1>3, <2>1, <2>2, <2>7
<1>4. R \in Good
  <2> HIDE DEF Good, R
  <2> QED BY <1>1, <1>2, <1>3, ElementInduction
<1>5. T \cup R = S
  OBVIOUS
<1> QED BY <1>4, <1>5

\* The sum of two sums.
LEMMA SumOfSums ==
    ASSUME NEW f, NEW g, NEW h, NEW S, IsFiniteSet(S),
           \A x \in S : f[x] \in Int /\ g[x] \in Int /\ h[x] = f[x] + g[x]
    PROVE  SumOver(h, S) = SumOver(f, S) + SumOver(g, S)
<1> DEFINE Good == {T \in SUBSET S : SumOver(h, T) = SumOver(f, T) + SumOver(g, T)}
<1>1. {} \in Good
  BY SumOfNothing
<1>2. ASSUME NEW T \in SUBSET S, NEW x \in S, T \in Good, x \notin T
      PROVE  T \cup {x} \in Good
  <2>1. IsFiniteSet(T) /\ SumOver(h, T) = SumOver(f, T) + SumOver(g, T)
    BY <1>2, FS_Subset
  <2>2. \A y \in T \cup {x} : f[y] \in Int /\ g[y] \in Int /\ h[y] \in Int
    OBVIOUS
  <2>3. /\ SumOver(f, T) \in Int /\ SumOver(g, T) \in Int
        /\ f[x] \in Int /\ g[x] \in Int /\ h[x] = f[x] + g[x]
    BY <2>1, <2>2, SumOfIntegers
  <2>4. /\ SumOver(f, T \cup {x}) = SumOver(f, T) + f[x]
        /\ SumOver(g, T \cup {x}) = SumOver(g, T) + g[x]
        /\ SumOver(h, T \cup {x}) = SumOver(h, T) + h[x]
    BY <1>2, <2>1, <2>2, SumWithOneMore
  <2>5. SumOver(h, T \cup {x}) = SumOver(f, T \cup {x}) + SumOver(g, T \cup {x})
    BY <2>1, <2>3, <2>4
  <2> QED BY <2>5
<1>3. S \in Good
  <2> HIDE DEF Good
  <2> QED BY <1>1, <1>2, ElementInduction
<1> QED BY <1>3

\* The four sums of RowsAgreeWithVenue add up functions.
LEMMA FilledIsSum ==
    ASSUME NEW S, NEW f, IsFiniteSet(S), \A x \in S : f[x] = filledOf(x)
    PROVE  sessionFilledQty(S) = SumOver(f, S)
<1> DEFINE Adds(h) == h = [T \in SUBSET S |->
                 IF T = {} THEN 0 ELSE filledOf(First(T)) + h[T \ {First(T)}]]
<1>1. ASSUME NEW h
      PROVE  Adds(h) <=> AddsUp(h, f, S)
  <2>1. [T \in SUBSET S |-> IF T = {} THEN 0 ELSE filledOf(First(T)) + h[T \ {First(T)}]]
          = [T \in SUBSET S |-> IF T = {} THEN 0 ELSE f[First(T)] + h[T \ {First(T)}]]
    BY FirstIsIn
  <2> QED BY <2>1 DEF AddsUp
<1>2. sessionFilledQty(S) = (CHOOSE h : Adds(h))[S]
  BY DEF sessionFilledQty, MapThenSumSet, MapThenFoldSet, First
<1>3. PICK g : g = CHOOSE h : Adds(h)
  OBVIOUS
<1> HIDE DEF Adds
<1>4. AddsUp(g, f, S)
  BY <1>1, <1>3, AddsUpExists
<1>5. sessionFilledQty(S) = g[S]
  BY <1>2, <1>3
<1> QED BY <1>4, <1>5, SumIsWorth

LEMMA OwnPartsAreSum ==
    ASSUME NEW S, NEW f, IsFiniteSet(S), \A x \in S : f[x] = OwnPart(x)
    PROVE  MapThenSumSet(OwnPart, S) = SumOver(f, S)
<1> DEFINE Adds(h) == h = [T \in SUBSET S |->
                 IF T = {} THEN 0 ELSE OwnPart(First(T)) + h[T \ {First(T)}]]
<1>1. ASSUME NEW h
      PROVE  Adds(h) <=> AddsUp(h, f, S)
  <2>1. [T \in SUBSET S |-> IF T = {} THEN 0 ELSE OwnPart(First(T)) + h[T \ {First(T)}]]
          = [T \in SUBSET S |-> IF T = {} THEN 0 ELSE f[First(T)] + h[T \ {First(T)}]]
    BY FirstIsIn
  <2> QED BY <2>1 DEF AddsUp
<1>2. MapThenSumSet(OwnPart, S) = (CHOOSE h : Adds(h))[S]
  BY DEF MapThenSumSet, MapThenFoldSet, First
<1>3. PICK g : g = CHOOSE h : Adds(h)
  OBVIOUS
<1> HIDE DEF Adds
<1>4. AddsUp(g, f, S)
  BY <1>1, <1>3, AddsUpExists
<1>5. MapThenSumSet(OwnPart, S) = g[S]
  BY <1>2, <1>3
<1> QED BY <1>4, <1>5, SumIsWorth

LEMMA WorkingPartsAreSum ==
    ASSUME NEW S, NEW f, IsFiniteSet(S), \A x \in S : f[x] = WorkingPart(x)
    PROVE  MapThenSumSet(WorkingPart, S) = SumOver(f, S)
<1> DEFINE Adds(h) == h = [T \in SUBSET S |->
                 IF T = {} THEN 0 ELSE WorkingPart(First(T)) + h[T \ {First(T)}]]
<1>1. ASSUME NEW h
      PROVE  Adds(h) <=> AddsUp(h, f, S)
  <2>1. [T \in SUBSET S |-> IF T = {} THEN 0 ELSE WorkingPart(First(T)) + h[T \ {First(T)}]]
          = [T \in SUBSET S |-> IF T = {} THEN 0 ELSE f[First(T)] + h[T \ {First(T)}]]
    BY FirstIsIn
  <2> QED BY <2>1 DEF AddsUp
<1>2. MapThenSumSet(WorkingPart, S) = (CHOOSE h : Adds(h))[S]
  BY DEF MapThenSumSet, MapThenFoldSet, First
<1>3. PICK g : g = CHOOSE h : Adds(h)
  OBVIOUS
<1> HIDE DEF Adds
<1>4. AddsUp(g, f, S)
  BY <1>1, <1>3, AddsUpExists
<1>5. MapThenSumSet(WorkingPart, S) = g[S]
  BY <1>2, <1>3
<1> QED BY <1>4, <1>5, SumIsWorth

LEMMA RemaindersAreSum ==
    ASSUME NEW S, NEW f, IsFiniteSet(S), \A x \in S : f[x] = x.remainingQty
    PROVE  MapThenSumSet(LAMBDA row : row.remainingQty, S) = SumOver(f, S)
<1> DEFINE Adds(h) == h = [T \in SUBSET S |->
                 IF T = {} THEN 0 ELSE First(T).remainingQty + h[T \ {First(T)}]]
<1>1. ASSUME NEW h
      PROVE  Adds(h) <=> AddsUp(h, f, S)
  <2>1. [T \in SUBSET S |-> IF T = {} THEN 0 ELSE First(T).remainingQty + h[T \ {First(T)}]]
          = [T \in SUBSET S |-> IF T = {} THEN 0 ELSE f[First(T)] + h[T \ {First(T)}]]
    BY FirstIsIn
  <2> QED BY <2>1 DEF AddsUp
<1>2. MapThenSumSet(LAMBDA row : row.remainingQty, S) = (CHOOSE h : Adds(h))[S]
  BY DEF MapThenSumSet, MapThenFoldSet, First
<1>3. PICK g : g = CHOOSE h : Adds(h)
  OBVIOUS
<1> HIDE DEF Adds
<1>4. AddsUp(g, f, S)
  BY <1>1, <1>3, AddsUpExists
<1>5. MapThenSumSet(LAMBDA row : row.remainingQty, S) = g[S]
  BY <1>2, <1>3
<1> QED BY <1>4, <1>5, SumIsWorth

LEMMA RowsAreFinite ==
    ASSUME IsApp(app)
    PROVE  IsFiniteSet(Rows)
<1>1. PICK n \in Nat : DOMAIN app.myOrders = 1 .. n
  BY DEF IsApp
<1>2. PICK f : f = [i \in 1 .. n |-> app.myOrders[i]]
  OBVIOUS
<1>3. f \in Surjection(1 .. n, Rows)
  <2>1. Rows = {app.myOrders[i] : i \in 1 .. n}
    BY <1>1 DEF Rows
  <2> QED BY <1>2, <2>1 DEF Surjection
<1>4. IsFiniteSet(1 .. n)
  BY FS_Interval
<1> QED BY <1>3, <1>4, FS_Surjection

\* Of the orders of a trade those that some row stands for.
OfRows(T, i) ==
    {r \in {trades[i].buy, trades[i].sell} : \E row \in T : orders[r].orderID = row.clOrdId}

\* A row that joins others counts in some trades, for what was filled of it.
CountsTrades(x, filled, T) ==
    \E X \in SUBSET (DOMAIN trades) :
        /\ QuantityIn(trades, X) = filled /\ filled \in Int
        /\ \A i \in DOMAIN trades :
              Cardinality(OfRows(T \cup {x}, i))
                 = IF i \in X THEN Cardinality(OfRows(T, i)) + 1 ELSE Cardinality(OfRows(T, i))

LEMMA TradesOfARow ==
    ASSUME SessionFacts, ~ ReuseIds, QuantityConserved, NEW T \in SUBSET Rows, NEW x \in Rows,
           x \notin T, NEW filled,
           \A r \in Refs : orders[r].orderID = x.clOrdId =>
              filled = orders[r].orderQty - orders[r].quantity,
           ~ Arrived(x) => filled = 0
    PROVE  CountsTrades(x, filled, T)
<1>0. /\ TypeOK /\ \A q, r \in Refs : q # r => orders[q].orderID # orders[r].orderID
      /\ \A row \in T : row.clOrdId # x.clOrdId
  <2>1. EngineFacts /\ TypeOK
    BY DEF SessionFacts, EngineFacts, IInv
  <2> QED BY <2>1, IdsAreDifferent DEF SessionFacts, RowsInv
<1>1. /\ \A i \in DOMAIN trades :
            trades[i].quantity \in Nat /\ {trades[i].buy, trades[i].sell} \subseteq Refs
      /\ \A r : TradesOf(r) \subseteq DOMAIN trades /\ IsFiniteSet(TradesOf(r))
  BY <1>0, TradeQuantities
<1>2. CASE ~ Arrived(x)
  <2>1. \A i \in DOMAIN trades : OfRows(T \cup {x}, i) = OfRows(T, i)
    BY <1>1, <1>2 DEF OfRows, Arrived
  <2>2. QuantityIn(trades, {}) = filled /\ filled \in Int
    BY <1>2, QuantityInNothing
  <2> SUFFICES \E X \in SUBSET (DOMAIN trades) :
                  /\ QuantityIn(trades, X) = filled /\ filled \in Int
                  /\ \A i \in DOMAIN trades :
                        Cardinality(OfRows(T \cup {x}, i))
                           = IF i \in X THEN Cardinality(OfRows(T, i)) + 1
                                        ELSE Cardinality(OfRows(T, i))
    BY DEF CountsTrades
  <2> WITNESS {} \in SUBSET (DOMAIN trades)
  <2> QED BY <2>1, <2>2
<1>3. ASSUME NEW o \in Refs, orders[o].orderID = x.clOrdId
      PROVE  CountsTrades(x, filled, T)
  <2>1. PICK X \in SUBSET (DOMAIN trades) : X = TradesOf(o)
    BY <1>1
  <2>2. QuantityIn(trades, X) = filled /\ filled \in Int
    <3>1. orders[o].orderQty = orders[o].quantity + QuantityIn(trades, X)
      BY <2>1, ConservedIsASum
    <3>2. QuantityIn(trades, X) \in Nat
      BY <1>1, <2>1, QuantityInIsNatural
    <3>3. orders[o].quantity \in Nat
      BY <1>0, StatusTypes
    <3> QED BY <1>3, <3>1, <3>2, <3>3
  <2>3. ASSUME NEW i \in DOMAIN trades
        PROVE  Cardinality(OfRows(T \cup {x}, i))
                  = IF i \in X THEN Cardinality(OfRows(T, i)) + 1
                               ELSE Cardinality(OfRows(T, i))
    <3>1. PICK a, b \in Refs : a = trades[i].buy /\ b = trades[i].sell
      BY <1>1
    <3>2. PICK C : C = OfRows(T, i)
      OBVIOUS
    <3>3. C = {r \in {a, b} : \E row \in T : orders[r].orderID = row.clOrdId} /\ o \notin C
      BY <1>0, <1>3, <3>1, <3>2 DEF OfRows
    <3>4. OfRows(T \cup {x}, i)
             = C \cup {r \in {a, b} : orders[r].orderID = x.clOrdId}
      BY <3>1, <3>2 DEF OfRows
    <3>5. {r \in {a, b} : orders[r].orderID = x.clOrdId} = {a, b} \cap {o}
      BY <1>0, <1>3
    <3>6. IsFiniteSet(C)
      <4>1. IsFiniteSet({a, b})
        <5>1. IsFiniteSet({a}) /\ {a, b} = {a} \cup {b}
          BY FS_Singleton
        <5> QED BY <5>1, FS_AddElement
      <4> QED BY <3>3, <4>1, FS_Subset
    <3>7. i \in X <=> o \in {a, b}
      BY <2>1, <3>1 DEF TradesOf
    <3>8. CASE i \in X
      <4>1. OfRows(T \cup {x}, i) = C \cup {o}
        BY <3>4, <3>5, <3>7, <3>8
      <4> QED BY <3>2, <3>3, <3>6, <3>8, <4>1, FS_AddElement
    <3>9. CASE i \notin X
      <4>1. OfRows(T \cup {x}, i) = C
        BY <3>4, <3>5, <3>7, <3>9
      <4> QED BY <3>2, <3>9, <4>1
    <3> QED BY <3>8, <3>9
  <2> QED BY <2>2, <2>3 DEF CountsTrades
<1> QED BY <1>2, <1>3 DEF Arrived

\* When each row shows what was filled of its order, the rows show the trades.
LEMMA FilledIsTraded ==
    ASSUME SessionFacts, ~ ReuseIds, QuantityConserved,
           \A row \in Rows, r \in Refs : orders[r].orderID = row.clOrdId =>
              filledOf(row) = orders[r].orderQty - orders[r].quantity,
           \A row \in Rows : ~ Arrived(row) => filledOf(row) = 0
    PROVE  sessionFilledQty(Rows) = MapThenSumSet(OwnPart, DOMAIN trades)
<1> DEFINE Part(T) == [i \in DOMAIN trades |->
                          trades[i].quantity * Cardinality(OfRows(T, i))]
<1>0. TypeOK /\ IsApp(app)
  BY DEF SessionFacts, EngineFacts, IInv, StreamsInv
<1>1. IsFiniteSet(Rows) /\ \A T \in SUBSET Rows : IsFiniteSet(T)
  BY <1>0, RowsAreFinite, FS_Subset
<1>2. PICK f : f = [row \in Rows |-> filledOf(row)]
  OBVIOUS
<1>3. PICK D : D = DOMAIN trades
  OBVIOUS
<1>4. /\ IsFiniteSet(D)
      /\ \A i \in D : trades[i].quantity \in Nat /\ {trades[i].buy, trades[i].sell} \subseteq Refs
  <2>1. IsFiniteSet(DOMAIN trades)
    BY <1>0, OneMoreElement DEF TypeOK
  <2> QED BY <1>0, <1>3, <2>1, TradeQuantities
<1>5. \A T \in SUBSET Rows, i \in D : Cardinality(OfRows(T, i)) \in Nat
  <2> SUFFICES ASSUME NEW T \in SUBSET Rows, NEW i \in D
               PROVE  Cardinality(OfRows(T, i)) \in Nat
    OBVIOUS
  <2>0. PICK a, b : a = trades[i].buy /\ b = trades[i].sell
    OBVIOUS
  <2>1. IsFiniteSet({a, b})
    <3>1. IsFiniteSet({a}) /\ {a, b} = {a} \cup {b}
      BY FS_Singleton
    <3> QED BY <3>1, FS_AddElement
  <2>2. OfRows(T, i) \subseteq {a, b}
    BY <2>0 DEF OfRows
  <2> QED BY <2>1, <2>2, FS_Subset, FS_CardinalityType
<1>6. \A T \in SUBSET Rows, i \in D :
         Part(T)[i] = trades[i].quantity * Cardinality(OfRows(T, i)) /\ Part(T)[i] \in Int
  BY <1>3, <1>4, <1>5
<1> HIDE DEF Part
<1> DEFINE Good == {T \in SUBSET Rows : SumOver(f, T) = SumOver(Part(T), D)}
<1>7. {} \in Good
  <2>1. \A i \in D : OfRows({}, i) = {}
    BY DEF OfRows
  <2>2. \A i \in D : Part({})[i] = 0
    <3>1. \A q \in Nat : q * 0 = 0
      OBVIOUS
    <3>2. \A i \in D : Part({})[i] = trades[i].quantity * Cardinality(OfRows({}, i))
      BY <1>6
    <3>3. \A i \in D : Cardinality(OfRows({}, i)) = 0
      BY <2>1, FS_EmptySet
    <3> QED BY <1>4, <3>1, <3>2, <3>3
  <2>3. SumOver(Part({}), D) = SumOver(Part({}), {})
    BY <1>4, <2>2, SumDropsZeros
  <2> QED BY <2>3, SumOfNothing
<1>8. ASSUME NEW T \in SUBSET Rows, NEW x \in Rows, T \in Good, x \notin T
      PROVE  T \cup {x} \in Good
  <2>1. PICK X \in SUBSET D :
              /\ QuantityIn(trades, X) = f[x] /\ f[x] \in Int
              /\ \A i \in D :
                    Cardinality(OfRows(T \cup {x}, i))
                       = IF i \in X THEN Cardinality(OfRows(T, i)) + 1
                                    ELSE Cardinality(OfRows(T, i))
    <3>1. f[x] = filledOf(x)
      BY <1>2
    <3>2. \A r \in Refs : orders[r].orderID = x.clOrdId =>
             f[x] = orders[r].orderQty - orders[r].quantity
      BY <3>1
    <3>3. ~ Arrived(x) => f[x] = 0
      BY <3>1
    <3>4. PICK z : z = f[x]
      OBVIOUS
    <3>5. /\ ~ Arrived(x) => z = 0
          /\ \A r \in Refs : orders[r].orderID = x.clOrdId =>
                z = orders[r].orderQty - orders[r].quantity
      BY <3>2, <3>3, <3>4
    <3>6. CountsTrades(x, z, T)
      <4> HIDE DEF Good
      <4>1. x \notin T
        BY <1>8
      <4> QED BY <3>5, <4>1, TradesOfARow
    <3> QED BY <1>3, <3>4, <3>6 DEF CountsTrades
  <2>2. PICK e : e = [i \in D |-> IF i \in X THEN trades[i].quantity ELSE 0]
    OBVIOUS
  <2>3. SumOver(e, D) = f[x]
    <3>1. \A i \in D : e[i] \in Int
      BY <1>4, <2>2
    <3>2. \A i \in D \ X : e[i] = 0
      BY <2>2
    <3>3. \A i \in X : e[i] = trades[i].quantity
      BY <2>2
    <3>4. SumOver(e, D) = SumOver(e, X)
      BY <1>4, <3>1, <3>2, SumDropsZeros
    <3>5. IsFiniteSet(X)
      BY <1>4, FS_Subset
    <3>6. QuantityIn(trades, X) = SumOver(e, X)
      BY <3>3, <3>5, QuantityIsSum
    <3> QED BY <2>1, <3>4, <3>6
  <2>4. PICK U : U = T \cup {x}
    OBVIOUS
  <2>5. U \in SUBSET Rows
    BY <2>4
  <2>6. \A i \in D : /\ Part(T)[i] \in Int /\ e[i] \in Int
                     /\ Part(U)[i] = Part(T)[i] + e[i]
    <3> SUFFICES ASSUME NEW i \in D
                 PROVE  /\ Part(T)[i] \in Int /\ e[i] \in Int
                        /\ Part(U)[i] = Part(T)[i] + e[i]
      OBVIOUS
    <3>1. PICK q, c, d : /\ q = trades[i].quantity /\ c = Cardinality(OfRows(T, i))
                         /\ d = Cardinality(OfRows(U, i))
      OBVIOUS
    <3>2. q \in Nat /\ c \in Nat /\ Part(T)[i] = q * c /\ Part(U)[i] = q * d
      BY <1>4, <1>5, <1>6, <2>5, <3>1
    <3>3. d = IF i \in X THEN c + 1 ELSE c
      BY <2>1, <2>4, <3>1
    <3>4. e[i] = IF i \in X THEN q ELSE 0
      BY <2>2, <3>1
    <3>5. q * (c + 1) = q * c + q /\ q * c \in Nat /\ q * c + 0 = q * c
      BY <3>2
    <3> QED BY <3>2, <3>3, <3>4, <3>5
  <2>7. SumOver(Part(U), D) = SumOver(Part(T), D) + SumOver(e, D)
    BY <1>4, <2>6, SumOfSums
  <2>8. SumOver(f, T \cup {x}) = SumOver(f, T) + f[x]
    <3>1. \A y \in T \cup {x} : f[y] \in Int
      <4>1. \A y \in Rows : filledOf(y) \in Int
        <5>1. \A y \in Rows : y.originalQty \in Int /\ y.remainingQty \in Int
          BY DEF SessionFacts, RowsInv, MyOrder
        <5> QED BY <5>1 DEF filledOf, Greatest
      <4> QED BY <1>2, <4>1
    <3> QED BY <1>1, <1>8, <3>1, SumWithOneMore
  <2> QED BY <1>8, <2>3, <2>4, <2>5, <2>7, <2>8
<1>9. Rows \in Good
  <2> HIDE DEF Good
  <2> QED BY <1>1, <1>7, <1>8, ElementInduction
<1>10. sessionFilledQty(Rows) = SumOver(f, Rows)
  BY <1>1, <1>2, FilledIsSum
<1>11. MapThenSumSet(OwnPart, D) = SumOver(Part(Rows), D)
  <2>1. ASSUME NEW i \in D
        PROVE  Part(Rows)[i] = OwnPart(i)
    <3>1. \A r \in Refs : (\E row \in Rows : orders[r].orderID = row.clOrdId)
                             <=> orders[r].orderID \in OwnIds
      BY DEF SessionFacts, RowsInv, StandsFor
    <3>2. OfRows(Rows, i) = {r \in {trades[i].buy, trades[i].sell} :
                                orders[r].orderID \in OwnIds}
      BY <1>4, <3>1 DEF OfRows
    <3> QED BY <1>6, <3>2 DEF OwnPart
  <2> QED BY <1>4, <2>1, OwnPartsAreSum
<1> QED BY <1>3, <1>9, <1>10, <1>11

\* A row whose client has had every report, and the order it stands for.
LEMMA ARowAgrees ==
    ASSUME SessionFacts, HistoryInv, ~ ReuseIds, NEW row \in Rows, NEW r \in Refs,
           orders[r].orderID = row.clOrdId, ShowsOrder(row, r, Len(reports))
    PROVE  /\ row.remainingQty = orders[r].quantity
           /\ row.originalQty = orders[r].orderQty
           /\ orders[r].quantity \in Nat /\ orders[r].quantity <= orders[r].orderQty
           /\ ~ Reported(row) => row.status = "PENDING" /\ row.remainingQty = row.originalQty
           /\ pc = "idle" => Reported(row) /\ row.status = Verdict(r)
<1>0. /\ EngineFacts /\ TypeOK /\ StoryInv /\ StatusInv /\ ReportsAreTrue
      /\ Len(reports) \in Nat /\ DOMAIN reports = 1 .. Len(reports)
      /\ \A q \in Refs : q # r => orders[q].orderID # orders[r].orderID
  <2>1. EngineFacts /\ TypeOK
    BY DEF SessionFacts, EngineFacts, IInv
  <2> QED BY <2>1, IdsAreDifferent, ReportsAreNumbered DEF EngineFacts
<1>1. PICK N \in 0 .. Len(reports) : N = Len(reports)
  <2>1. Len(reports) \in 0 .. Len(reports)
    BY <1>0
  <2> QED BY <2>1
<1>2. PICK L, Q : L = orders[r].quantity /\ Q = orders[r].orderQty
  OBVIOUS
<1>3. Left(r, N) = L /\ L \in Nat /\ L <= Q /\ StatusIsTrue(r)
  BY <1>0, <1>1, <1>2, LeftAtTheEnd, StatusTypes DEF StatusInv, StatusIsTrue
<1>4. row.originalQty = Q
  <2>1. row.clOrdId \in OwnIds
    BY DEF SessionFacts, RowsInv
  <2>2. PICK x \in Rows : StandsFor(x, r)
    BY <2>1 DEF SessionFacts, RowsInv
  <2>3. x = row
    BY <2>2 DEF SessionFacts, RowsInv, StandsFor
  <2> QED BY <1>2, <2>2, <2>3 DEF StandsFor
<1>5. /\ row.remainingQty = L /\ row.status # "REJECTED"
      /\ row.status = "FILLED" <=> L = 0
      /\ row.status = "EXPIRED" <=> ToldExpired(r, N)
      /\ row.status = "CANCELLED" <=> ToldCancelled(r, N)
      /\ row.status = "PARTIALLY_FILLED" => L < Q
      /\ row.status \in {"PENDING", "OPEN"} => L = Q
      /\ row.status = "PENDING" => ~ ToldAccepted(r, N)
      /\ row.status = "OPEN" => ToldAccepted(r, N)
  BY <1>1, <1>2, <1>3 DEF ShowsOrder
<1>6. row.status \in OrderStatuses
  BY DEF SessionFacts, RowsInv, MyOrder
<1>7. /\ ToldExpired(r, N) => IsExpired(r)
      /\ ToldCancelled(r, N) => orders[r].status = "CANCELLED" /\ orders[r].tif = "GTC"
      /\ ToldEnded(r, N) => orders[r].quantity > 0 /\ r \notin Resting /\ ~ Busy(r)
  BY <1>0, EndedIsOver
<1>8. Concluded(r) => Reported(row)
  <2> SUFFICES ASSUME Concluded(r) PROVE Reported(row)
    OBVIOUS
  <2>1. PICK i : i \in Outcomes(r)
    BY DEF Concluded
  <2>2. i \in DOMAIN reports /\ reports[i].order = r
        /\ reports[i].kind \in {"FILL", "ACCEPTED", "EXPIRED"}
    BY <2>1 DEF Outcomes, LastFills, ReportsOf
  <2> QED BY <2>2 DEF Reported
<1>9. ~ Busy(r) => Concluded(r)
  BY <1>0 DEF StoryInv, Settled, Busy, Dealing
<1>10. L = 0 => Concluded(r)
  BY <1>0, <1>2, <1>9 DEF StoryInv, Busy
<1>11. ASSUME ~ Reported(row)
       PROVE  row.status = "PENDING" /\ row.remainingQty = row.originalQty
  <2>1. \A i \in DOMAIN reports :
           /\ reports[i].kind \in {"FILL", "ACCEPTED", "EXPIRED"} => reports[i].order # r
           /\ reports[i].kind = "FILL" => reports[i].passive # r
    BY <1>11 DEF Reported
  <2>2. ~ ToldAccepted(r, N) /\ ~ ToldExpired(r, N)
    BY <1>0, <1>1, <2>1 DEF ToldAccepted, ToldExpired
  <2>3. ~ ToldCancelled(r, N) /\ L # 0
    BY <1>7, <1>8, <1>9, <1>10, <1>11 DEF ToldEnded
  <2>4. L = Q
    <3>1. LaterFills(r, 0) = {}
      BY <2>1 DEF LaterFills
    <3>2. Left(r, 0) = L + QuantityIn(reports, {})
      BY <1>2, <3>1 DEF Left
    <3> QED BY <1>2, <1>3, <3>2, QuantityInNothing DEF HistoryInv
  <2>5. row.status \notin {"FILLED", "EXPIRED", "CANCELLED", "OPEN", "REJECTED"}
    BY <1>5, <2>2, <2>3
  <2>6. row.status # "PARTIALLY_FILLED"
    BY <1>3, <1>5, <2>4
  <2> QED BY <1>4, <1>5, <1>6, <2>4, <2>5, <2>6 DEF OrderStatuses, TERMINAL
<1>12. ASSUME pc = "idle"
       PROVE  row.status = Verdict(r)
  <2>1. ~ Busy(r)
    BY <1>12 DEF Busy, Dealing
  <2>2. CASE L = 0
    BY <1>2, <1>3, <1>5, <2>2 DEF Verdict, StatusIsTrue
  <2>3. CASE L > 0 /\ r \in Resting
    <3>1. ToldAccepted(r, N) /\ orders[r].tif = "GTC"
      <4>1. ReportsOf("ACCEPTED", r) # {}
        BY <1>0, <2>3 DEF StoryInv
      <4>2. orders[r].tif = "GTC"
        BY <1>0, <4>1 DEF StoryInv
      <4> QED BY <1>0, <1>1, <4>1, <4>2 DEF ReportsOf, ToldAccepted
    <3>2. ~ ToldExpired(r, N) /\ ~ ToldCancelled(r, N)
      BY <1>7, <2>3 DEF ToldEnded
    <3>3. row.status \in {"OPEN", "PARTIALLY_FILLED"}
      BY <1>5, <1>6, <2>3, <3>1, <3>2 DEF OrderStatuses, TERMINAL
    <3>4. orders[r].status \in {"OPEN", "PARTIALLY_FILLED"}
      <4>1. orders[r].status \in Statuses
        BY <1>0, StatusTypes
      <4> QED BY <1>2, <1>3, <2>3, <4>1 DEF StatusIsTrue, Statuses
    <3>5. row.status = orders[r].status
      BY <1>2, <1>3, <1>5, <3>3, <3>4 DEF StatusIsTrue
    <3> QED BY <3>1, <3>5 DEF Verdict
  <2>4. CASE L > 0 /\ r \notin Resting
    <3>1. ToldEnded(r, N)
      BY <1>0, <1>1, <1>2, <1>3, <2>1, <2>4
         DEF StatusIsTrue, Ended, ToldEnded, ToldExpired, ToldCancelled
    <3>2. CASE ToldExpired(r, N)
      BY <1>5, <1>7, <3>2 DEF IsExpired, Verdict
    <3>3. CASE ToldCancelled(r, N)
      BY <1>5, <1>7, <3>3 DEF Verdict
    <3> QED BY <3>1, <3>2, <3>3 DEF ToldEnded
  <2> QED BY <1>3, <2>2, <2>3, <2>4
<1>13. pc = "idle" => Reported(row)
  BY <1>8, <1>9 DEF Busy, Dealing
<1> QED BY <1>2, <1>3, <1>4, <1>5, <1>11, <1>12, <1>13

\* What the rows that still work have left is what the engine has left of them.
LEMMA WorkingIsLeft ==
    ASSUME SessionFacts,
           \A row \in Rows : /\ row.remainingQty \in Int
                             /\ WorkingPart(row) = IF isTerminal(row.status) THEN 0
                                                   ELSE row.remainingQty
    PROVE  sessionWorkingQty(Rows) = MapThenSumSet(WorkingPart, Rows)
<1>1. IsFiniteSet(Rows) /\ \A T \in SUBSET Rows : IsFiniteSet(T)
  BY RowsAreFinite, FS_Subset DEF SessionFacts, StreamsInv
<1>2. PICK f : f = [row \in Rows |-> WorkingPart(row)]
  OBVIOUS
<1>3. PICK T \in SUBSET Rows : T = {row \in Rows : ~ isTerminal(row.status)}
  OBVIOUS
<1>4. \A row \in Rows : f[row] = IF row \in T THEN row.remainingQty ELSE 0
  BY <1>2, <1>3
<1>5. MapThenSumSet(WorkingPart, Rows) = SumOver(f, Rows)
  BY <1>1, <1>2, WorkingPartsAreSum
<1>6. MapThenSumSet(LAMBDA row : row.remainingQty, T) = SumOver(f, T)
  BY <1>1, <1>4, RemaindersAreSum
<1>7. sessionWorkingQty(Rows) = SumOver(f, T)
  BY <1>3, <1>6 DEF sessionWorkingQty, MapThenSumSet, MapThenFoldSet
<1>8. SumOver(f, Rows) = SumOver(f, T)
  <2>1. \A row \in Rows : f[row] \in Int
    BY <1>4
  <2>2. \A row \in Rows \ T : f[row] = 0
    BY <1>4
  <2> QED BY <1>1, <2>1, <2>2, SumDropsZeros
<1> QED BY <1>5, <1>7, <1>8

(***************************************************************************)
(* When clients do not reuse ids, the rows of a client that has missed     *)
(* nothing agree with the engine once it has had every report: each has    *)
(* the engine's remainder at every instant and its verdict between calls,  *)
(* although no report tells a client of its passive fills, of an           *)
(* acceptance that followed fills or of a cancel that came too late        *)
(* (nextOrder, passiveFill).  The header's Filled is the client's part of  *)
(* all the trades and its Rem what the engine has left of its orders.      *)
(***************************************************************************)
THEOREM RowsAgree ==
    ASSUME ~ ReuseIds
    PROVE  SessionSpec => []RowsAgreeWithVenue
<1>1. AgreementFacts /\ QuantityConserved => RowsAgreeWithVenue
  <2> SUFFICES ASSUME AgreementFacts, QuantityConserved, CaughtUp
               PROVE  /\ \A row \in Rows :
                            IF ~ Arrived(row) \/ ~ Reported(row)
                            THEN row.status = "PENDING" /\ row.remainingQty = row.originalQty
                            ELSE LET order == orders[OrderOf(row)]
                                 IN  /\ row.remainingQty = order.quantity
                                     /\ pc = "idle" => row.status = Verdict(OrderOf(row))
                      /\ sessionFilledQty(Rows) = MapThenSumSet(OwnPart, DOMAIN trades)
                      /\ pc = "idle" =>
                            sessionWorkingQty(Rows) = MapThenSumSet(WorkingPart, Rows)
    BY DEF RowsAgreeWithVenue
  <2>0. /\ SessionFacts /\ HistoryInv /\ EngineFacts /\ TypeOK
        /\ \A q, r \in Refs : q # r => orders[q].orderID # orders[r].orderID
    <3>1. SessionFacts /\ HistoryInv /\ EngineFacts /\ TypeOK
      BY DEF AgreementFacts, SessionFacts, EngineFacts, IInv
    <3> QED BY <3>1, IdsAreDifferent
  <2>1. \A row \in Rows : Agrees(row, Len(reports))
    BY DEF AgreementFacts, AgreeInv, CaughtUp
  <2>2. \A row \in Rows : /\ row.remainingQty \in Int /\ row.originalQty \in Int
                          /\ row.status \in OrderStatuses
    BY <2>0 DEF SessionFacts, RowsInv, MyOrder
  <2>3. ASSUME NEW row \in Rows, NEW r \in Refs, orders[r].orderID = row.clOrdId
        PROVE  /\ OrderOf(row) = r /\ Arrived(row)
               /\ row.remainingQty = orders[r].quantity
               /\ row.originalQty = orders[r].orderQty
               /\ orders[r].quantity \in Nat /\ orders[r].quantity <= orders[r].orderQty
               /\ ~ Reported(row) => /\ row.status = "PENDING"
                                     /\ row.remainingQty = row.originalQty
               /\ pc = "idle" => Reported(row) /\ row.status = Verdict(r)
    <3>1. OrderOf(row) = r /\ Arrived(row)
      BY <2>0, <2>3 DEF OrderOf, Arrived
    <3>2. ShowsOrder(row, r, Len(reports))
      BY <2>1, <2>3 DEF Agrees
    <3> QED BY <2>0, <2>3, <3>1, <3>2, ARowAgrees
  <2>4. ASSUME NEW row \in Rows, ~ Arrived(row)
        PROVE  row.status = "PENDING" /\ row.remainingQty = row.originalQty
    BY <2>1, <2>4 DEF Agrees
  <2>5. ASSUME NEW row \in Rows
        PROVE  IF ~ Arrived(row) \/ ~ Reported(row)
               THEN row.status = "PENDING" /\ row.remainingQty = row.originalQty
               ELSE LET order == orders[OrderOf(row)]
                    IN  /\ row.remainingQty = order.quantity
                        /\ pc = "idle" => row.status = Verdict(OrderOf(row))
    <3>1. CASE ~ Arrived(row)
      BY <2>4, <3>1
    <3>2. CASE Arrived(row)
      <4>1. PICK r \in Refs : orders[r].orderID = row.clOrdId
        BY <3>2 DEF Arrived
      <4> QED BY <2>3, <3>2, <4>1
    <3> QED BY <3>1, <3>2
  <2>6. sessionFilledQty(Rows) = MapThenSumSet(OwnPart, DOMAIN trades)
    <3>1. ASSUME NEW row \in Rows, NEW r \in Refs, orders[r].orderID = row.clOrdId
          PROVE  filledOf(row) = orders[r].orderQty - orders[r].quantity
      <4>1. PICK q, Q : q = orders[r].quantity /\ Q = orders[r].orderQty
        OBVIOUS
      <4>2. row.remainingQty = q /\ row.originalQty = Q /\ q \in Nat /\ q <= Q /\ Q \in Int
        BY <2>2, <2>3, <3>1, <4>1
      <4> QED BY <4>1, <4>2 DEF filledOf, Greatest
    <3>2. ASSUME NEW row \in Rows, ~ Arrived(row)
          PROVE  filledOf(row) = 0
      BY <2>2, <2>4, <3>2 DEF filledOf, Greatest
    <3> QED BY <2>0, <3>1, <3>2, FilledIsTraded
  <2>7. ASSUME pc = "idle"
        PROVE  sessionWorkingQty(Rows) = MapThenSumSet(WorkingPart, Rows)
    <3>1. ASSUME NEW row \in Rows
          PROVE  WorkingPart(row) = IF isTerminal(row.status) THEN 0 ELSE row.remainingQty
      <4>1. CASE ~ Arrived(row)
        BY <2>4, <4>1 DEF WorkingPart, isTerminal, TERMINAL
      <4>2. ASSUME NEW r \in Refs, orders[r].orderID = row.clOrdId
            PROVE  WorkingPart(row) = IF isTerminal(row.status) THEN 0 ELSE row.remainingQty
        <5>1. /\ OrderOf(row) = r /\ Arrived(row) /\ row.remainingQty = orders[r].quantity
              /\ row.status = Verdict(r)
          BY <2>3, <2>7, <4>2
        <5>2. row.status # "PENDING"
          <6>1. orders[r].status \in Statuses
            BY <2>0, StatusTypes
          <6> QED BY <5>1, <6>1 DEF Verdict, Statuses
        <5>3. row.status \in {"OPEN", "PARTIALLY_FILLED"} <=> ~ isTerminal(row.status)
          BY <2>2, <5>2 DEF OrderStatuses, isTerminal, TERMINAL
        <5> QED BY <5>1, <5>3 DEF WorkingPart
      <4> QED BY <4>1, <4>2 DEF Arrived
    <3> QED BY <2>0, <2>2, <3>1, WorkingIsLeft
  <2> QED BY <2>5, <2>6, <2>7
<1> QED BY <1>1, AgreementHolds, NoQuantityIsLost, TheSessionRunsTheEngine, PTL
-----------------------------------------------------------------------------
(* The client's ladder is the book: the snapshot of the last event shows   *)
(* it as it is until the next call.                                        *)

\* A side of the n-th snapshot, of which the client has none at first.
BookSent(n, side) ==
    IF n = 0 THEN <<>>
    ELSE IF side = "BUY" THEN snapshots[n].bids ELSE snapshots[n].asks

BooksInv ==
    /\ Len(snapshots) <= calls
    /\ pc # "idle" => Len(snapshots) < calls
    /\ app.book.bids = BookSent(bookRead, "BUY")
    /\ app.book.asks = BookSent(bookRead, "SELL")
    /\ EventDone => \A side \in Sides : BookSent(Len(snapshots), side) = Levels(side)

\* A call is counted as it begins, and until it is done there is no snapshot of it.
LEMMA CallsAreCounted ==
    /\ HandleOwn \/ HandleForeign => EventDone /\ calls' = calls + 1
    /\ EngineRuns => pc # "idle" /\ calls' = calls
<1>1. \A t : HandleNew(t) => calls' = calls + 1
  BY DEF HandleNew, AddOrder, AddOrderKilled, Call
<1>2. \A id : HandleCancel(id) => calls' = calls + 1
  BY DEF HandleCancel, CancelOrder, CancelOrderRefused, Call
<1>3. HandleOwn => EventDone /\ calls' = calls + 1
  BY <1>1, <1>2 DEF HandleOwn
<1>4. HandleForeign => EventDone /\ calls' = calls + 1
  BY <1>1, <1>2 DEF HandleForeign
<1>5. EngineRuns => pc # "idle" /\ calls' = calls
  BY DEF EngineRuns, Continue, MatchPegPool, MatchPegPoolEnds, MatchLit, MatchLitEnds,
         RestPeg, AddToBook, ExpireRemainder, NoRemainder, CrossPegPools, CrossPegPoolsEnds
<1> QED BY <1>3, <1>4, <1>5

\* The book is shown as it was while nothing happens to it.
LEMMA LevelsStay ==
    ASSUME UNCHANGED vars, NEW side
    PROVE  Levels(side)' = Levels(side)
<1>1. orders' = orders /\ book' = book
  BY DEF vars
<1>2. ASSUME NEW p PROVE LevelQty(book[side][p])' = LevelQty(book[side][p])
  BY <1>1 DEF LevelQty, MapThenSumSet, MapThenFoldSet
<1> QED BY <1>1, <1>2 DEF Levels

LEMMA NoLevelsAtFirst ==
    ASSUME Init, NEW side \in Sides
    PROVE  Levels(side) = <<>>
<1>1. DOMAIN book[side] = {} /\ Cardinality({}) = 0
  BY FS_EmptySet DEF Init
<1>2. 1 .. Least(MAX_DEPTH_LEVELS, Cardinality(DOMAIN book[side])) = {}
  BY <1>1, SessionAssumption DEF Least
<1> QED BY <1>2 DEF Levels

LEMMA BooksKept ==
    ASSUME SessionFacts, BooksInv, [SessionNext]_sessionVars
    PROVE  BooksInv'
<1>0. /\ IsApp(app) /\ EngineFacts /\ TypeOK /\ ReportsAreTrue /\ InboundInv /\ StreamsInv
      /\ Len(snapshots) \in Nat /\ DOMAIN snapshots = 1 .. Len(snapshots)
      /\ bookRead \in 0 .. Len(snapshots) /\ calls \in Nat
      /\ \A i \in DOMAIN snapshots : snapshots[i].type = "BOOK"
  BY LenProperties DEF SessionFacts, EngineFacts, IInv, TypeOK, StreamsInv
<1> DEFINE Displays(a, n) == /\ a.book.bids = BookSent(n, "BUY")
                             /\ a.book.asks = BookSent(n, "SELL")
<1>1. ASSUME UNCHANGED <<vars, snapshots>>, Displays(app', bookRead')
      PROVE  BooksInv'
  <2>1. \A n, side : BookSent(n, side)' = BookSent(n, side)
    BY <1>1 DEF BookSent
  <2>2. \A side \in Sides : Levels(side)' = Levels(side)
    BY <1>1, LevelsStay
  <2>3. EventDone' = EventDone /\ pc' = pc /\ calls' = calls
    BY <1>1 DEF EventDone, vars
  <2> QED BY <1>1, <2>1, <2>2, <2>3 DEF BooksInv
<1>2. ASSUME app'.book = app.book, bookRead' = bookRead
      PROVE  Displays(app', bookRead')
  BY <1>2 DEF BooksInv
<1>3. CASE \/ \E t \in OwnTickets : SendNew(t)
           \/ \E id \in {t.orderID : t \in OwnTickets} : SendCancel(id)
  <2>1. PICK f \in NewFrames \cup CancelFrames : Write(f)
    BY <1>3 DEF SendNew, SendCancel, NewFrames, CancelFrames, OwnIds
  <2>2. f \in NewOrderFrame \cup CancelOrderFrame
    BY OwnTicketsArrive, OwnCancels DEF NewFrames
  <2>3. app'.book = app.book
    BY <1>0, <2>1, <2>2, SentEffect DEF Write
  <2> QED BY <1>1, <1>2, <2>1, <2>3 DEF Write
<1>4. CASE HandleOwn \/ HandleForeign \/ EngineRuns
  <2>1. UNCHANGED <<app, snapshots, bookRead>>
    BY <1>4 DEF HandleOwn, HandleForeign, EngineRuns, clientVars
  <2>2. Len(snapshots) < calls'
    BY <1>0, <1>4, CallsAreCounted DEF BooksInv, EventDone
  <2>3. calls' \in Int
    BY <1>0, <1>4, CallsAreCounted
  <2>4. ~ EventDone' /\ Len(snapshots)' < calls' /\ Len(snapshots)' <= calls'
    BY <1>0, <2>1, <2>2, <2>3 DEF EventDone
  <2> QED BY <2>1, <2>4 DEF BooksInv, BookSent
<1>5. CASE PublishBook
  <2>1. PICK frame : frame = BookSnapshot
    OBVIOUS
  <2>2. /\ snapshots' = Append(snapshots, frame) /\ pc = "idle" /\ Len(snapshots) < calls
        /\ UNCHANGED <<vars, app, bookRead>>
    BY <1>5, <2>1 DEF PublishBook, clientVars
  <2>3. PICK S : snapshots \in Seq(S)
    BY <1>0 DEF StreamsInv
  <2>4. snapshots \in Seq(S \cup {frame}) /\ frame \in S \cup {frame}
    BY <2>3
  <2>5. PICK n \in Nat : n = Len(snapshots)
    BY <1>0
  <2>6. /\ Len(snapshots') = n + 1 /\ snapshots'[n + 1] = frame
        /\ \A i \in 1 .. n : snapshots'[i] = snapshots[i]
    BY <2>2, <2>4, <2>5, AppendProperties
  <2>7. \A i \in 0 .. n : \A side : BookSent(i, side)' = BookSent(i, side)
    BY <2>5, <2>6 DEF BookSent
  <2>8. app'.book.bids = BookSent(bookRead, "BUY")' /\ app'.book.asks = BookSent(bookRead, "SELL")'
    <3>1. PICK b \in 0 .. n : b = bookRead
      BY <1>0, <2>5
    <3>2. BookSent(b, "BUY")' = BookSent(b, "BUY") /\ BookSent(b, "SELL")' = BookSent(b, "SELL")
      BY <2>7
    <3> QED BY <2>2, <3>1, <3>2 DEF BooksInv, BookSent
  <2>9. \A side \in Sides : BookSent(n + 1, side)' = Levels(side)'
    <3>1. frame.bids = Levels("BUY") /\ frame.asks = Levels("SELL")
      BY <2>1 DEF BookSnapshot
    <3>2. n + 1 # 0
      OBVIOUS
    <3>3. \A side \in Sides : BookSent(n + 1, side)' = Levels(side)
      BY <2>6, <3>1, <3>2 DEF BookSent, Sides
    <3> QED BY <2>2, <3>3, LevelsStay
  <2>10. \A side \in Sides : BookSent(Len(snapshots), side)' = Levels(side)'
    BY <2>6, <2>9 DEF BookSent
  <2>11. Len(snapshots') <= calls' /\ pc' = "idle"
    BY <1>0, <2>2, <2>5, <2>6 DEF vars
  <2> QED BY <2>8, <2>10, <2>11 DEF BooksInv
<1>6. CASE ReceiveExec
  <2>1. execRead + 1 \in DOMAIN reports
    BY <1>0, <1>6, ReportsAreNumbered DEF ReceiveExec, StreamsInv
  <2>2. ExecOf(execRead + 1) \in ExecFrame
    BY <1>0, <2>1, ExecIsFrame
  <2>3. app'.book = app.book
    BY <1>0, <1>6, <2>2, ExecEffect DEF ReceiveExec
  <2> QED BY <1>1, <1>2, <1>6, <2>3 DEF ReceiveExec
<1>7. ASSUME NEW a, NEW n, IsApp(a), n \in DOMAIN snapshots,
             app' = reduceFrame(a, snapshots[n]), bookRead' = n
      PROVE  Displays(app', bookRead')
  <2>1. app'.book.bids = snapshots[n].bids /\ app'.book.asks = snapshots[n].asks
    BY <1>0, <1>7, BookEffect
  <2>2. n # 0
    BY <1>0, <1>7
  <2> QED BY <1>7, <2>1, <2>2 DEF BookSent
<1>8. CASE ReceiveBook
  <2>1. bookRead + 1 \in DOMAIN snapshots
    BY <1>0, <1>8 DEF ReceiveBook
  <2>2. app' = reduceFrame(app, snapshots[bookRead + 1]) /\ bookRead' = bookRead + 1
    BY <1>8 DEF ReceiveBook
  <2>3. Displays(app', bookRead')
    BY <1>0, <1>7, <2>1, <2>2
  <2> QED BY <1>1, <1>8, <2>3 DEF ReceiveBook
<1>9. CASE DropConnection
  <2>1. app'.book = app.book
    BY <1>0, <1>9, ConnectionEffect DEF DropConnection
  <2> QED BY <1>1, <1>2, <1>9, <2>1 DEF DropConnection
<1>10. CASE Reconnect
  <2>1. PICK opened : opened = reduceConnection(app, "open")
    OBVIOUS
  <2>2. PICK b \in bookRead .. Len(snapshots) :
           /\ bookRead' = b
           /\ app' = IF b = 0 THEN opened ELSE reduceFrame(opened, snapshots[b])
    BY <1>10, <2>1 DEF Reconnect
  <2>3. IsApp(opened) /\ opened.book = app.book
    BY <1>0, <2>1, ConnectionEffect
  <2>4. CASE b = 0
    <3>1. bookRead' = bookRead /\ app'.book = app.book
      BY <1>0, <2>2, <2>3, <2>4
    <3> QED BY <1>1, <1>2, <1>10, <3>1 DEF Reconnect
  <2>5. CASE b # 0
    <3>1. b \in DOMAIN snapshots
      BY <1>0, <2>2, <2>5
    <3>2. Displays(app', bookRead')
      BY <1>7, <2>2, <2>3, <2>5, <3>1
    <3> QED BY <1>1, <1>10, <3>2 DEF Reconnect
  <2> QED BY <2>4, <2>5
<1>11. CASE UNCHANGED sessionVars
  BY <1>1, <1>2, <1>11 DEF sessionVars, clientVars
<1> QED BY <1>3, <1>4, <1>5, <1>6, <1>8, <1>9, <1>10, <1>11 DEF SessionNext

LEMMA BooksHold ==
    SessionSpec => []BooksInv
<1>1. SessionInit => BooksInv
  <2> SUFFICES ASSUME SessionInit PROVE BooksInv
    OBVIOUS
  <2>1. /\ snapshots = <<>> /\ bookRead = 0 /\ calls = 0 /\ pc = "idle" /\ Len(snapshots) = 0
        /\ Init
    BY DEF SessionInit, Init
  <2>2. app.book = EMPTY_BOOK
    <3>1. app = [ connection |-> "open", book |-> EMPTY_BOOK, tape |-> <<>>,
          myOrders |-> <<>>, sessionVolume |-> 0,
          sessionOpenPx |-> SESSION_OPEN_UNSET, sessionHighPx |-> SESSION_OPEN_UNSET,
          sessionLowPx |-> SESSION_OPEN_UNSET, sessionTradeCount |-> 0,
          msgSeqNum |-> 0, lastFrameNanos |-> 0, inspectorLog |-> <<>> ]
      BY DEF SessionInit, reduceConnection, initialState
    <3> QED BY <3>1
  <2>3. app.book.bids = <<>> /\ app.book.asks = <<>>
    BY <2>2 DEF EMPTY_BOOK
  <2> QED BY <2>1, <2>3, NoLevelsAtFirst DEF BooksInv, BookSent
<1> QED BY <1>1, BooksKept, SessionFactsHold, PTL DEF SessionSpec

\* The levels of a side: the best prices of the book, each in a place of its own with
\* what the queue there shows, outwards from the touch.  A price that has no level is
\* worse than all that have one, and then there are as many levels as there may be.
LEMMA LevelsShowTheBook ==
    ASSUME TypeOK, NEW side \in Sides, NEW shown, shown = Levels(side)
    PROVE  /\ \A i \in DOMAIN shown : shown[i][1] \in DOMAIN book[side]
                                      /\ shown[i][2] = LevelQty(book[side][shown[i][1]])
           /\ \A i, j \in DOMAIN shown : shown[i][1] = shown[j][1] => i = j
           /\ \A p \in DOMAIN book[side] :
                 \/ \E i \in DOMAIN shown : shown[i][1] = p
                 \/ /\ DOMAIN shown = 1 .. MAX_DEPTH_LEVELS
                    /\ \A i \in DOMAIN shown : IF side = "BUY" THEN p < shown[i][1]
                                                              ELSE shown[i][1] < p
           /\ \E n \in Nat : DOMAIN shown = 1 .. n
           /\ shown = [i \in DOMAIN shown |-> <<shown[i][1], shown[i][2]>>]
           /\ \A i, j \in DOMAIN shown :
                 i < j => IF side = "BUY" THEN shown[j][1] < shown[i][1]
                                          ELSE shown[i][1] < shown[j][1]
<1> DEFINE prices   == DOMAIN book[side]
           Ahead(p) == {q \in prices : IF side = "BUY" THEN q >= p ELSE q <= p}
           ahead    == [p \in prices |-> Ahead(p)]
           place    == [p \in prices |-> Cardinality(ahead[p])]
           count    == Least(MAX_DEPTH_LEVELS, Cardinality(prices))
           best     == [i \in 1 .. count |->
                          CHOOSE p \in prices : Cardinality(Ahead(p)) = i]
<1>1. prices \subseteq Price /\ \A p \in prices : p \in Nat
  BY PricesAreNat DEF TypeOK
<1>2. IsFiniteSet(prices)
  <2>1. MaxPrice \in Nat /\ 1 \in Int /\ prices \subseteq 1 .. MaxPrice
    BY <1>1, BoundsAssumption DEF Price
  <2> QED BY <2>1, FS_Interval, FS_Subset
<1>3. ahead \in [prices -> SUBSET prices] /\ \A p \in prices : p \in ahead[p]
  BY <1>1
<1>4. ASSUME NEW p \in prices, NEW q \in prices, p # q
      PROVE  \/ ahead[p] \subseteq ahead[q] /\ q \notin ahead[p]
             \/ ahead[q] \subseteq ahead[p] /\ p \notin ahead[q]
  <2>1. p \in Nat /\ q \in Nat
    BY <1>1
  <2>2. CASE side = "BUY"
    <3>1. \A x \in prices : ahead[x] = {y \in prices : y >= x}
      BY <2>2
    <3>2. p < q \/ q < p
      BY <1>4, <2>1
    <3> QED BY <1>1, <2>1, <3>1, <3>2
  <2>3. CASE side # "BUY"
    <3>1. \A x \in prices : ahead[x] = {y \in prices : y <= x}
      BY <2>3
    <3>2. p < q \/ q < p
      BY <1>4, <2>1
    <3> QED BY <1>1, <2>1, <3>1, <3>2
  <2> QED BY <2>2, <2>3
<1>5. \A p \in prices : place[p] = Cardinality(Ahead(p))
  OBVIOUS
<1>6. \A p, q \in prices : ahead[p] \subseteq ahead[q] /\ q \notin ahead[p]
           => IF side = "BUY" THEN q < p ELSE p < q
  BY <1>1
<1>7. shown = [i \in DOMAIN best |-> <<best[i], LevelQty(book[side][best[i]])>>]
  BY DEF Levels
<1>8. DOMAIN best = 1 .. count
      /\ \A i \in DOMAIN best : best[i] = CHOOSE p \in prices : Cardinality(Ahead(p)) = i
  OBVIOUS
<1>9. place = [p \in prices |-> Cardinality(ahead[p])]
  OBVIOUS
<1> HIDE DEF place, ahead, Ahead, best
<1>10. DOMAIN shown = DOMAIN best
  BY <1>7
<1>11. ASSUME NEW i \in DOMAIN best
       PROVE  shown[i][1] = best[i] /\ shown[i][2] = LevelQty(book[side][best[i]])
  <2>1. PICK qty : qty = LevelQty(book[side][best[i]])
    OBVIOUS
  <2>2. shown[i] = <<best[i], qty>>
    BY <1>7, <2>1
  <2> QED BY <2>1, <2>2
<1>12. /\ Cardinality(prices) \in Nat
       /\ \A p \in prices : place[p] \in 1 .. Cardinality(prices)
       /\ \A p, q \in prices : place[p] = place[q] => p = q
       /\ \A i \in 1 .. Cardinality(prices) : \E p \in prices : place[p] = i
  BY <1>2, <1>3, <1>4, <1>9, PlacesAreTaken
<1>13. /\ count \in Nat /\ MAX_DEPTH_LEVELS \in Nat
       /\ \A i \in DOMAIN best : i \in 1 .. Cardinality(prices)
       /\ \A i \in 1 .. Cardinality(prices) :
             i \in DOMAIN best \/ (count = MAX_DEPTH_LEVELS /\ MAX_DEPTH_LEVELS < i)
  BY <1>8, <1>12, SessionAssumption DEF Least
<1> HIDE DEF count
<1>14. \A i \in DOMAIN best : best[i] \in prices /\ place[best[i]] = i
  BY <1>5, <1>8, <1>12, <1>13
<1>15. ASSUME NEW p \in prices, NEW q \in prices, place[p] < place[q]
       PROVE  IF side = "BUY" THEN q < p ELSE p < q
  <2>1. place[p] \in Int /\ place[q] \in Int /\ p # q
    BY <1>12, <1>15
  <2>2. ASSUME ahead[q] \subseteq ahead[p]
        PROVE  FALSE
    <3>1. IsFiniteSet(ahead[p]) /\ ahead[p] \subseteq prices
      BY <1>2, <1>3, FS_Subset
    <3>2. Cardinality(ahead[q]) <= Cardinality(ahead[p])
      BY <2>2, <3>1, FS_Subset
    <3>3. place[q] <= place[p]
      BY <1>9, <3>2
    <3> QED BY <1>15, <2>1, <3>3
  <2>3. ahead[p] \subseteq ahead[q] /\ q \notin ahead[p]
    BY <1>4, <2>1, <2>2
  <2> QED BY <1>6, <2>3
<1>16. ASSUME NEW i \in DOMAIN shown, NEW j \in DOMAIN shown, i < j
       PROVE  IF side = "BUY" THEN shown[j][1] < shown[i][1] ELSE shown[i][1] < shown[j][1]
  <2>1. PICK p, q : p = best[i] /\ q = best[j]
    OBVIOUS
  <2>2. p \in prices /\ q \in prices /\ place[p] = i /\ place[q] = j
    BY <1>10, <1>14, <2>1
  <2>3. shown[i][1] = p /\ shown[j][1] = q
    BY <1>10, <1>11, <2>1
  <2> QED BY <1>15, <1>16, <2>2, <2>3
<1>17. shown = [i \in DOMAIN shown |-> <<shown[i][1], shown[i][2]>>]
  <2>1. PICK qty : qty = [i \in DOMAIN best |-> LevelQty(book[side][best[i]])]
    OBVIOUS
  <2>2. shown = [i \in DOMAIN best |-> <<best[i], qty[i]>>]
    BY <1>7, <2>1
  <2> QED BY <2>2
<1>18. \E n \in Nat : DOMAIN shown = 1 .. n
  BY <1>8, <1>10, <1>13
<1>19. ASSUME NEW p \in prices
       PROVE  \/ \E i \in DOMAIN shown : shown[i][1] = p
              \/ /\ DOMAIN shown = 1 .. MAX_DEPTH_LEVELS
                 /\ \A i \in DOMAIN shown : IF side = "BUY" THEN p < shown[i][1]
                                                           ELSE shown[i][1] < p
  <2>1. CASE place[p] \in DOMAIN best
    <3>1. best[place[p]] = p
      BY <1>12, <1>14, <2>1
    <3> QED BY <1>10, <1>11, <2>1, <3>1
  <2>2. CASE place[p] \notin DOMAIN best
    <3>1. count = MAX_DEPTH_LEVELS /\ MAX_DEPTH_LEVELS < place[p]
      BY <1>12, <1>13, <2>2
    <3>2. DOMAIN shown = 1 .. MAX_DEPTH_LEVELS
      BY <1>8, <1>10, <3>1
    <3>3. ASSUME NEW i \in DOMAIN shown
          PROVE  IF side = "BUY" THEN p < shown[i][1] ELSE shown[i][1] < p
      <4>1. PICK q : q = best[i]
        OBVIOUS
      <4>2. q \in prices /\ place[q] = i /\ shown[i][1] = q
        BY <1>10, <1>11, <1>14, <4>1
      <4>3. place[q] < place[p]
        BY <1>12, <1>13, <3>1, <3>2, <4>2
      <4> QED BY <1>15, <4>2, <4>3
    <3> QED BY <3>2, <3>3
  <2> QED BY <2>1, <2>2
<1>20. \A i, j \in DOMAIN shown : shown[i][1] = shown[j][1] => i = j
  BY <1>10, <1>11, <1>14
<1>21. \A i \in DOMAIN shown : shown[i][1] \in prices
                               /\ shown[i][2] = LevelQty(book[side][shown[i][1]])
  BY <1>10, <1>11, <1>14
<1> QED BY <1>16, <1>17, <1>18, <1>19, <1>20, <1>21

\* Sums of what orders show, and of the sizes of levels, are sums over functions.
LEMMA VisibleIsSum ==
    ASSUME NEW S, NEW f, IsFiniteSet(S), \A x \in S : f[x] = orders[x].visibleQty
    PROVE  MapThenSumSet(LAMBDA r : orders[r].visibleQty, S) = SumOver(f, S)
<1> DEFINE Adds(h) == h = [T \in SUBSET S |->
                 IF T = {} THEN 0 ELSE orders[First(T)].visibleQty + h[T \ {First(T)}]]
<1>1. ASSUME NEW h
      PROVE  Adds(h) <=> AddsUp(h, f, S)
  <2>1. [T \in SUBSET S |-> IF T = {} THEN 0
                            ELSE orders[First(T)].visibleQty + h[T \ {First(T)}]]
          = [T \in SUBSET S |-> IF T = {} THEN 0 ELSE f[First(T)] + h[T \ {First(T)}]]
    BY FirstIsIn
  <2> QED BY <2>1 DEF AddsUp
<1>2. MapThenSumSet(LAMBDA r : orders[r].visibleQty, S) = (CHOOSE h : Adds(h))[S]
  BY DEF MapThenSumSet, MapThenFoldSet, First
<1>3. PICK g : g = CHOOSE h : Adds(h)
  OBVIOUS
<1> HIDE DEF Adds
<1>4. AddsUp(g, f, S)
  BY <1>1, <1>3, AddsUpExists
<1>5. MapThenSumSet(LAMBDA r : orders[r].visibleQty, S) = g[S]
  BY <1>2, <1>3
<1> QED BY <1>4, <1>5, SumIsWorth

SizesOf(levels, S) == MapThenSumSet(LAMBDA i : levels[i][2], S)

LEMMA SizesAreSum ==
    ASSUME NEW levels, NEW S, NEW f, IsFiniteSet(S), \A x \in S : f[x] = levels[x][2]
    PROVE  SizesOf(levels, S) = SumOver(f, S)
<1> DEFINE Adds(h) == h = [T \in SUBSET S |->
                 IF T = {} THEN 0 ELSE levels[First(T)][2] + h[T \ {First(T)}]]
<1>1. ASSUME NEW h
      PROVE  Adds(h) <=> AddsUp(h, f, S)
  <2>1. [T \in SUBSET S |-> IF T = {} THEN 0 ELSE levels[First(T)][2] + h[T \ {First(T)}]]
          = [T \in SUBSET S |-> IF T = {} THEN 0 ELSE f[First(T)] + h[T \ {First(T)}]]
    BY FirstIsIn
  <2> QED BY <2>1 DEF AddsUp
<1>2. SizesOf(levels, S) = (CHOOSE h : Adds(h))[S]
  BY DEF SizesOf, MapThenSumSet, MapThenFoldSet, First
<1>3. PICK g : g = CHOOSE h : Adds(h)
  OBVIOUS
<1> HIDE DEF Adds
<1>4. AddsUp(g, f, S)
  BY <1>1, <1>3, AddsUpExists
<1>5. SizesOf(levels, S) = g[S]
  BY <1>2, <1>3
<1> QED BY <1>4, <1>5, SumIsWorth

\* The orders at a price are finitely many and each shows a part of itself, all of it
\* unless it hides a reserve.
LEMMA OrdersAtAPrice ==
    ASSUME IInv, NEW side \in Sides, NEW p
    PROVE  LET Q == Range(QueueAt(book[side], p))
           IN  /\ IsFiniteSet(Q) /\ (p \notin DOMAIN book[side] => Q = {})
               /\ \A r \in Q : /\ r \in Refs /\ r \in Resting /\ IsLive(r)
                               /\ orders[r].side = side /\ orders[r].price = p
                               /\ orders[r].visibleQty \in Int
                               /\ orders[r].peak = 0 =>
                                     orders[r].visibleQty = orders[r].quantity
<1> DEFINE Q == Range(QueueAt(book[side], p))
<1>1. TypeOK /\ BookHoldsLiveOrders /\ DisplayedSlice
  BY DEF IInv
<1>2. CASE p \notin DOMAIN book[side]
  <2>1. Q = {}
    BY <1>2 DEF QueueAt, Range
  <2> QED BY <1>2, <2>1, FS_EmptySet
<1>3. CASE p \in DOMAIN book[side]
  <2>1. Q = Range(book[side][p])
    BY <1>3 DEF QueueAt
  <2>2. \A r \in Q : /\ r \in Refs /\ r \in LitOrders(side) /\ r \in Resting /\ IsLive(r)
                     /\ orders[r].side = side /\ orders[r].price = p
    BY <1>1, <1>3, <2>1, RestingOrders
  <2>3. IsFiniteSet(Q)
    <3>1. Refs = 1 .. incoming /\ incoming \in Int /\ 1 \in Int
      BY <1>1, HeapHoldsOrders
    <3>2. IsFiniteSet(Refs) /\ Q \subseteq Refs
      BY <2>2, <3>1, FS_Interval
    <3> QED BY <3>2, FS_Subset
  <2> HIDE DEF Q
  <2>4. \A r \in Q : /\ orders[r].visibleQty \in Int
                     /\ orders[r].peak = 0 => orders[r].visibleQty = orders[r].quantity
    BY <1>1, <2>2 DEF DisplayedSlice
  <2> QED BY <1>3, <2>2, <2>3, <2>4 DEF Q
<1> QED BY <1>2, <1>3

\* What the client's ladder shows at a price within its reach is what the orders there
\* show.
LEMMA TheLadderShowsTheOrders ==
    ASSUME IInv, NEW side \in Sides, NEW p, NEW f, ~ BeyondLadder(side, p),
           \A r \in Range(QueueAt(book[side], p)) : f[r] = orders[r].visibleQty,
           Levels(side) = LadderOf(side)
    PROVE  Shown(side, p) = SumOver(f, Range(QueueAt(book[side], p)))
<1> DEFINE Q == Range(QueueAt(book[side], p))
<1>0. TypeOK
  BY DEF IInv
<1>1. IsFiniteSet(Q) /\ (p \notin DOMAIN book[side] => Q = {})
      /\ \A r \in Q : orders[r].visibleQty \in Int
  BY OrdersAtAPrice
<1>2. \A r \in Q : f[r] = orders[r].visibleQty
  OBVIOUS
<1>3. SumOver(f, Q) \in Int
  <2> HIDE DEF Q
  <2> QED BY <1>1, <1>2, SumOfIntegers
<1>4. PICK shown : shown = Levels(side)
  OBVIOUS
<1>5. PICK S : S = {i \in DOMAIN shown : shown[i][1] = p}
  OBVIOUS
<1>6. Shown(side, p) = SizesOf(shown, S)
  BY <1>4, <1>5 DEF Shown, LadderOf, SizesOf, MapThenSumSet, MapThenFoldSet
<1>7. PICK g : g = [i \in S |-> shown[i][2]]
  OBVIOUS
<1>8. /\ \A i \in S : i \in DOMAIN shown /\ shown[i][1] = p
      /\ \A i \in DOMAIN shown : shown[i][1] = p => i \in S
  BY <1>5
<1>9. CASE p \notin DOMAIN book[side]
  <2>1. S = {}
    BY <1>0, <1>4, <1>8, <1>9, LevelsShowTheBook
  <2>2. Shown(side, p) = SumOver(g, S)
    BY <1>6, <1>7, <2>1, SizesAreSum, FS_EmptySet
  <2>3. Q = {}
    BY <1>1, <1>9
  <2> QED BY <2>1, <2>2, <2>3, SumOfNothing
<1>10. CASE p \in DOMAIN book[side]
  <2>0. ASSUME DOMAIN shown = 1 .. MAX_DEPTH_LEVELS
        PROVE  Len(shown) = MAX_DEPTH_LEVELS
    <3>1. PICK S1 : S1 = {shown[j] : j \in DOMAIN shown}
      OBVIOUS
    <3>2. shown = [j \in DOMAIN shown |-> <<shown[j][1], shown[j][2]>>]
      BY <1>0, <1>4, LevelsShowTheBook
    <3>3. MAX_DEPTH_LEVELS \in Nat /\ shown \in [1 .. MAX_DEPTH_LEVELS -> S1]
      BY <2>0, <3>1, <3>2, SessionAssumption
    <3>4. shown \in Seq(S1)
      BY <3>3
    <3> QED BY <2>0, <3>3, <3>4, LenProperties
  <2>1. PICK i \in DOMAIN shown : shown[i][1] = p
    <3>1. CASE \E i \in DOMAIN shown : shown[i][1] = p
      BY <3>1
    <3>2. CASE /\ DOMAIN shown = 1 .. MAX_DEPTH_LEVELS
               /\ \A i \in DOMAIN shown : IF side = "BUY" THEN p < shown[i][1]
                                                         ELSE shown[i][1] < p
      <4>1. \A i \in DOMAIN shown : shown[i][1] \in Nat /\ p \in Nat
        BY <1>0, <1>4, <1>10, LevelsShowTheBook, PricesAreNat DEF TypeOK
      <4>2. BeyondLadder(side, p)
        BY <1>4, <2>0, <3>2, <4>1 DEF BeyondLadder
      <4> QED BY <4>2
    <3> QED BY <1>0, <1>4, <1>10, <3>1, <3>2, LevelsShowTheBook
  <2>2. S = {i}
    <3>1. \A j \in S : j = i
      BY <1>0, <1>4, <1>8, <2>1, LevelsShowTheBook
    <3> QED BY <1>8, <2>1, <3>1
  <2>3. shown[i][2] = LevelQty(book[side][p])
    BY <1>0, <1>4, <2>1, LevelsShowTheBook
  <2>4. LevelQty(book[side][p]) = MapThenSumSet(LAMBDA r : orders[r].visibleQty, Q)
    BY <1>10 DEF LevelQty, QueueAt, MapThenSumSet, MapThenFoldSet
  <2>5. LevelQty(book[side][p]) = SumOver(f, Q)
    <3> HIDE DEF Q
    <3> QED BY <1>1, <1>2, <2>4, VisibleIsSum
  <2>6. IsFiniteSet(S) /\ IsFiniteSet({}) /\ {} \cup {i} = S /\ i \notin {}
    BY <2>2, FS_EmptySet, FS_Singleton
  <2>7. g[i] = SumOver(f, Q) /\ \A j \in S : g[j] = shown[j][2]
    BY <1>7, <2>2, <2>3, <2>5
  <2>8. Shown(side, p) = SumOver(g, S)
    BY <1>6, <2>6, <2>7, SizesAreSum
  <2>9. SumOver(g, S) = SumOver(g, {}) + g[i]
    <3>1. \A y \in {} \cup {i} : g[y] \in Int
      BY <1>3, <2>7
    <3> QED BY <2>6, <3>1, SumWithOneMore
  <2> QED BY <1>3, <2>7, <2>8, <2>9, SumOfNothing
<1> QED BY <1>9, <1>10

\* Beyond the reach of the ladder nothing is shown.
LEMMA NothingIsShownBeyond ==
    ASSUME IInv, NEW side \in Sides, NEW p \in Price, BeyondLadder(side, p),
           Levels(side) = LadderOf(side)
    PROVE  Shown(side, p) = 0
<1>0. TypeOK /\ p \in Nat
  BY PricesAreNat DEF IInv, TypeOK
<1>1. PICK shown : shown = Levels(side)
  OBVIOUS
<1>2. PICK S : S = {i \in DOMAIN shown : shown[i][1] = p}
  OBVIOUS
<1>3. Shown(side, p) = SizesOf(shown, S)
  BY <1>1, <1>2 DEF Shown, SizesOf, MapThenSumSet, MapThenFoldSet
<1>4. ASSUME NEW i \in S
      PROVE  FALSE
  <2>1. i \in DOMAIN shown /\ shown[i][1] = p
    BY <1>2
  <2>2. IF side = "BUY" THEN p < p ELSE p > p
    BY <1>1, <2>1 DEF BeyondLadder
  <2> QED BY <1>0, <2>2
<1>5. S = {}
  BY <1>4
<1>6. PICK g : g = [i \in S |-> shown[i][2]]
  OBVIOUS
<1>7. SizesOf(shown, S) = SumOver(g, S)
  BY <1>5, <1>6, SizesAreSum, FS_EmptySet
<1> QED BY <1>3, <1>5, <1>7, SumOfNothing

\* A sum is the sums over two parts.
LEMMA SumSplits ==
    ASSUME NEW f, NEW S, NEW T, IsFiniteSet(S), T \subseteq S, \A x \in S : f[x] \in Int
    PROVE  SumOver(f, S) = SumOver(f, T) + SumOver(f, S \ T)
<1> DEFINE R == S \ T
           Good == {U \in SUBSET R : SumOver(f, T \cup U) = SumOver(f, T) + SumOver(f, U)}
<1>1. /\ IsFiniteSet(R) /\ IsFiniteSet(T) /\ SumOver(f, T) \in Int
      /\ \A U \in SUBSET R : IsFiniteSet(T \cup U) /\ IsFiniteSet(U)
  BY FS_Subset, SumOfIntegers
<1>2. {} \in Good
  <2>1. T \cup {} = T /\ SumOver(f, {}) = 0
    BY SumOfNothing
  <2> QED BY <1>1, <2>1
<1>3. ASSUME NEW U \in SUBSET R, NEW x \in R, U \in Good, x \notin U
      PROVE  U \cup {x} \in Good
  <2>1. PICK W : W = T \cup U
    OBVIOUS
  <2>2. /\ IsFiniteSet(W) /\ x \notin W /\ W \cup {x} = T \cup (U \cup {x})
        /\ IsFiniteSet(U) /\ U \cup {x} \in SUBSET R /\ f[x] \in Int
    BY <1>1, <1>3, <2>1
  <2>3. (\A y \in W \cup {x} : f[y] \in Int) /\ \A y \in U \cup {x} : f[y] \in Int
    BY <2>1
  <2>4. SumOver(f, W \cup {x}) = SumOver(f, W) + f[x]
    BY <2>2, <2>3, SumWithOneMore
  <2>5. SumOver(f, U \cup {x}) = SumOver(f, U) + f[x]
    BY <1>3, <2>2, <2>3, SumWithOneMore
  <2>6. SumOver(f, U) \in Int
    BY <2>2, <2>3, SumOfIntegers
  <2>7. SumOver(f, W \cup {x}) = SumOver(f, T) + SumOver(f, U \cup {x})
    BY <1>1, <1>3, <2>1, <2>2, <2>4, <2>5, <2>6
  <2> QED BY <2>2, <2>7
<1>4. R \in Good
  <2> HIDE DEF Good, R
  <2> QED BY <1>1, <1>2, <1>3, ElementInduction
<1>5. T \cup R = S
  OBVIOUS
<1> QED BY <1>4, <1>5

\* A sum stays the same when its members are renamed, each to one of its own.
Renames(h, f, g, S) ==
    /\ \A x \in S : f[x] \in Int /\ g[h[x]] = f[x]
    /\ \A x, y \in S : h[x] = h[y] => x = y

LEMMA SumMoves ==
    ASSUME NEW f, NEW g, NEW h, NEW S, IsFiniteSet(S), Renames(h, f, g, S)
    PROVE  SumOver(f, S) = SumOver(g, {h[x] : x \in S})
<1> DEFINE Moved(U) == {h[x] : x \in U}
           Good == {U \in SUBSET S : SumOver(f, U) = SumOver(g, Moved(U))
                                     /\ IsFiniteSet(Moved(U))}
<1>1. {} \in Good
  <2>1. Moved({}) = {}
    OBVIOUS
  <2> QED BY <2>1, SumOfNothing, FS_EmptySet
<1>2. ASSUME NEW U \in SUBSET S, NEW x \in S, U \in Good, x \notin U
      PROVE  U \cup {x} \in Good
  <2>1. PICK W, z : W = Moved(U) /\ z = h[x]
    OBVIOUS
  <2>2. /\ IsFiniteSet(U) /\ IsFiniteSet(W) /\ Moved(U \cup {x}) = W \cup {z}
        /\ z \notin W /\ SumOver(f, U) = SumOver(g, W) /\ g[z] = f[x]
    <3>1. IsFiniteSet(U) /\ IsFiniteSet(W) /\ SumOver(f, U) = SumOver(g, W)
      BY <1>2, <2>1, FS_Subset
    <3>2. Moved(U \cup {x}) = W \cup {z}
      BY <2>1
    <3>3. z \notin W /\ g[z] = f[x]
      BY <1>2, <2>1 DEF Renames
    <3> QED BY <3>1, <3>2, <3>3
  <2>3. \A y \in U \cup {x} : f[y] \in Int
    BY DEF Renames
  <2>4. \A w \in W \cup {z} : g[w] \in Int
    BY <2>1 DEF Renames
  <2> HIDE DEF Good, Moved
  <2>5. SumOver(f, U \cup {x}) = SumOver(f, U) + f[x]
    BY <1>2, <2>2, <2>3, SumWithOneMore
  <2>6. SumOver(g, W \cup {z}) = SumOver(g, W) + g[z]
    BY <2>2, <2>4, SumWithOneMore
  <2>7. SumOver(f, U \cup {x}) = SumOver(g, Moved(U \cup {x}))
    BY <2>2, <2>5, <2>6
  <2>8. IsFiniteSet(Moved(U \cup {x}))
    <3>1. IsFiniteSet(W)
      BY <2>2
    <3>2. IsFiniteSet(W \cup {z})
      BY <3>1, FS_AddElement
    <3> QED BY <2>2, <3>2
  <2> QED BY <2>7, <2>8 DEF Good
<1>3. S \in Good
  <2> HIDE DEF Good
  <2> QED BY <1>1, <1>2, ElementInduction
<1> QED BY <1>3

\* A peg is at no price, so that it is on no level of the ladder.
PegsHaveNoPrice == \A r \in Refs : orders[r].ordType = "PEG_MID" => orders[r].price = NA

LEMMA PegsStayWithoutPrice ==
    Spec => []PegsHaveNoPrice
<1>1. Init => PegsHaveNoPrice
  BY DEF Init, PegsHaveNoPrice, Refs
<1>2. EngineFacts /\ PegsHaveNoPrice /\ [Next]_vars => PegsHaveNoPrice'
  <2> SUFFICES ASSUME EngineFacts, PegsHaveNoPrice, [Next]_vars, NEW r \in Refs',
                      orders'[r].ordType = "PEG_MID"
               PROVE  orders'[r].price = NA
    BY DEF PegsHaveNoPrice
  <2>1. IInv /\ IndexInv /\ MidStillCurrent
    BY DEF EngineFacts
  <2>2. ReportStep /\ TermsStay
    BY <2>1, EveryStepIsAReportStep, NextSteps DEF StepsThroughQueues
  <2>3. CASE r \in Refs
    BY <2>2, <2>3 DEF TermsStay, SameTerms, PegsHaveNoPrice
  <2>4. CASE r \notin Refs
    <3>1. r = incoming' /\ Refs' # Refs
      BY <2>2, <2>4, NewcomersArrive
    <3>2. PICK t \in Tickets : ArrivesAs(t)
      BY <2>2, <3>1, ZenonT(30)
         DEF ReportStep, Deals, Trade, FinishesAs, Finishes, Withdraws, Refuses, Idles, Passes
    <3>3. orders'[r].ordType = t.ordType /\ orders'[r].price = t.price
      BY <3>1, <3>2 DEF ArrivesAs
    <3> QED BY <3>3, TicketsAssumption DEF ConstructorAccepts
  <2> QED BY <2>3, <2>4
<1> QED BY <1>1, <1>2, EngineFactsHold, PTL DEF Spec

\* The client's open rows at a price are its orders that rest there.
LEMMA OwnRowsAreOwnOrders ==
    ASSUME AgreementFacts, PegsHaveNoPrice, ~ ReuseIds, ~ missed, execRead = Len(reports),
           pc = "idle", NEW side \in Sides, NEW p \in Price
    PROVE  LET W == {r \in Range(QueueAt(book[side], p)) : orders[r].orderID \in OwnIds}
           IN  /\ \A r \in W : \E row \in OwnAt(side, p) : StandsFor(row, r)
               /\ \A row \in OwnAt(side, p) : \E r \in W : StandsFor(row, r)
               /\ \A row \in OwnAt(side, p), r \in W : StandsFor(row, r) =>
                     row.remainingQty = orders[r].quantity
<1> DEFINE W == {r \in Range(QueueAt(book[side], p)) : orders[r].orderID \in OwnIds}
<1>0. /\ SessionFacts /\ HistoryInv /\ EngineFacts /\ IInv /\ TypeOK /\ StatusInv
      /\ BookHoldsLiveOrders
  BY DEF AgreementFacts, SessionFacts, EngineFacts, IInv
<1>1. ASSUME NEW row \in Rows, NEW r \in Refs, StandsFor(row, r)
      PROVE  /\ row.remainingQty = orders[r].quantity /\ row.status = Verdict(r)
             /\ ShowsOrder(row, r, Len(reports))
  <2>1. orders[r].orderID = row.clOrdId
    BY <1>1 DEF StandsFor
  <2>2. ShowsOrder(row, r, Len(reports))
    BY <2>1 DEF AgreementFacts, AgreeInv, Agrees
  <2> QED BY <1>0, <2>1, <2>2, ARowAgrees
<1>2. ASSUME NEW r \in W
      PROVE  \E row \in OwnAt(side, p) : StandsFor(row, r)
  <2>1. /\ r \in Refs /\ IsLive(r) /\ orders[r].side = side /\ orders[r].price = p
        /\ orders[r].orderID \in OwnIds
    BY <1>0, OrdersAtAPrice
  <2>2. PICK row \in Rows : StandsFor(row, r)
    BY <1>0, <2>1 DEF SessionFacts, RowsInv
  <2>3. row.status = Verdict(r) /\ row.side = side /\ row.pricePx = p
    BY <1>1, <2>1, <2>2 DEF StandsFor
  <2>4. isCancellable(row.status)
    BY <2>1, <2>3 DEF IsLive, Verdict, isCancellable
  <2> QED BY <2>2, <2>3, <2>4 DEF OwnAt
<1>3. ASSUME NEW row \in OwnAt(side, p)
      PROVE  \E r \in W : StandsFor(row, r)
  <2>1. /\ row \in Rows /\ row.status \in {"OPEN", "PARTIALLY_FILLED"}
        /\ row.side = side /\ row.pricePx = p
    BY DEF OwnAt, isCancellable
  <2>2. Arrived(row)
    BY <2>1 DEF AgreementFacts, AgreeInv, Agrees
  <2>3. PICK r \in Refs : orders[r].orderID = row.clOrdId
    BY <2>2 DEF Arrived
  <2>4. row.clOrdId \in OwnIds
    BY <1>0, <2>1 DEF SessionFacts, RowsInv
  <2>5. StandsFor(row, r)
    <3>1. PICK other \in Rows : StandsFor(other, r)
      BY <1>0, <2>3, <2>4 DEF SessionFacts, RowsInv
    <3> QED BY <1>0, <2>1, <2>3, <3>1 DEF SessionFacts, RowsInv, StandsFor
  <2>6. row.status = Verdict(r) /\ ShowsOrder(row, r, Len(reports))
    BY <1>1, <2>1, <2>5
  <2>7. orders[r].status \in {"OPEN", "PARTIALLY_FILLED"}
    BY <2>1, <2>6 DEF Verdict
  <2>8. r \in Resting
    <3> SUFFICES ASSUME r \notin Resting PROVE FALSE
      OBVIOUS
    <3>1. Ended(r)
      <4>1. StatusIsTrue(r) /\ orders[r].quantity \in Nat
        BY <1>0, StatusTypes DEF StatusInv
      <4> QED BY <2>7, <4>1 DEF StatusIsTrue, Busy, Dealing
    <3>2. PICK N \in 0 .. Len(reports) : N = Len(reports) /\ DOMAIN reports = 1 .. N
      BY <1>0, ReportsAreNumbered
    <3>3. ToldExpired(r, N) \/ ToldCancelled(r, N)
      BY <3>1, <3>2 DEF Ended, ToldExpired, ToldCancelled
    <3>4. row.status = "EXPIRED" \/ row.status = "CANCELLED"
      BY <2>6, <3>2, <3>3 DEF ShowsOrder
    <3> QED BY <2>1, <3>4
  <2>9. r \in Range(QueueAt(book[side], p))
    <3>1. orders[r].side = side /\ orders[r].price = p
      BY <2>1, <2>5 DEF StandsFor
    <3>2. PICK s \in Sides : r \in LitOrders(s) \cup PegOrders(s)
      BY <2>8 DEF Resting
    <3>3. r \notin PegOrders(s)
      <4>1. p # NA
        BY PricesAreNat DEF NA
      <4> QED BY <1>0, <2>3, <3>1, <4>1, RestingOrders DEF PegsHaveNoPrice
    <3>4. PICK q \in DOMAIN book[s] : r \in Range(book[s][q])
      BY <3>2, <3>3 DEF LitOrders
    <3>5. s = side /\ q = p
      BY <1>0, <3>1, <3>4, RestingOrders
    <3> QED BY <3>4, <3>5 DEF QueueAt
  <2> QED BY <2>3, <2>4, <2>5, <2>9
<1>4. \A r \in W : r \in Refs
  BY <1>0, OrdersAtAPrice
<1>5. \A row \in OwnAt(side, p) : row \in Rows
  BY DEF OwnAt
<1> QED BY <1>1, <1>2, <1>3, <1>4, <1>5

(***************************************************************************)
(* When clients do not reuse ids, the ladder and the blotter of a client   *)
(* that has had both streams in full tell one story between two events:    *)
(* each price shows what the client's own open rows there have left, none  *)
(* of which hides a reserve, and what others' orders show, unless the      *)
(* ladder is full of better prices and shows nothing there (fillSide,      *)
(* nextOrder, passiveFill, DepthLadder).                                   *)
(***************************************************************************)
THEOREM TheLadderAndTheBlotterAgree ==
    ASSUME ~ ReuseIds
    PROVE  SessionSpec => []LadderMatchesBlotter
<1>1. AgreementFacts /\ PegsHaveNoPrice /\ BooksInv => LadderMatchesBlotter
  <2> SUFFICES ASSUME AgreementFacts, PegsHaveNoPrice, BooksInv, CaughtUp, EventDone,
                      bookRead = Len(snapshots), NEW side \in Sides, NEW p \in Price,
                      \A row \in OwnAt(side, p) : row.displayQty = 0
               PROVE  Shown(side, p) =
                        IF BeyondLadder(side, p) THEN 0
                        ELSE ShownByOthers(side, p)
                               + MapThenSumSet(LAMBDA row : row.remainingQty, OwnAt(side, p))
    BY DEF LadderMatchesBlotter
  <2>0. /\ SessionFacts /\ EngineFacts /\ IInv /\ IsApp(app)
        /\ \A q, r \in Refs : q # r => orders[q].orderID # orders[r].orderID
    <3>1. SessionFacts /\ EngineFacts /\ IInv /\ IsApp(app)
      BY DEF AgreementFacts, SessionFacts, EngineFacts, StreamsInv
    <3> QED BY <3>1, IdsAreDifferent
  <2>A. Levels(side) = LadderOf(side)
    BY DEF BooksInv, BookSent, LadderOf, Sides
  <2>B. ASSUME BeyondLadder(side, p)
        PROVE  Shown(side, p) = 0
    BY <2>0, <2>A, <2>B, NothingIsShownBeyond
  <2> SUFFICES ASSUME ~ BeyondLadder(side, p)
               PROVE  Shown(side, p) = ShownByOthers(side, p)
                        + MapThenSumSet(LAMBDA row : row.remainingQty, OwnAt(side, p))
    BY <2>B
  <2>1. PICK Q : Q = Range(QueueAt(book[side], p))
    OBVIOUS
  <2>2. PICK W : W = {r \in Q : orders[r].orderID \in OwnIds}
    OBVIOUS
  <2>3. PICK T : T = OwnAt(side, p)
    OBVIOUS
  <2>4. /\ IsFiniteSet(Q) /\ \A r \in Q : /\ r \in Refs /\ orders[r].visibleQty \in Int
                                          /\ orders[r].peak = 0 =>
                                                orders[r].visibleQty = orders[r].quantity
    BY <2>0, <2>1, OrdersAtAPrice
  <2>5. /\ \A r \in W : \E row \in T : StandsFor(row, r)
        /\ \A row \in T : \E r \in W : StandsFor(row, r)
        /\ \A row \in T, r \in W : StandsFor(row, r) => row.remainingQty = orders[r].quantity
    BY <2>1, <2>2, <2>3, OwnRowsAreOwnOrders DEF CaughtUp, EventDone
  <2>6. T \subseteq Rows /\ IsFiniteSet(T) /\ \A row \in T : row.displayQty = 0
    <3>1. T \subseteq Rows
      BY <2>3 DEF OwnAt
    <3> QED BY <2>0, <2>3, <3>1, RowsAreFinite, FS_Subset
  <2>7. PICK f : f = [r \in Q |-> orders[r].visibleQty]
    OBVIOUS
  <2>8. PICK g : g = [row \in T |-> row.remainingQty]
    OBVIOUS
  <2>9. PICK h : h = [r \in W |-> CHOOSE row \in T : StandsFor(row, r)]
    OBVIOUS
  <2>10. \A r \in Q : f[r] = orders[r].visibleQty /\ f[r] \in Int
    BY <2>4, <2>7
  <2>11. Shown(side, p) = SumOver(f, Q)
    BY <2>0, <2>A, <2>1, <2>10, TheLadderShowsTheOrders
  <2>12. SumOver(f, Q) = SumOver(f, W) + SumOver(f, Q \ W)
    BY <2>2, <2>4, <2>10, SumSplits
  <2>13. ShownByOthers(side, p) = SumOver(f, Q \ W)
    <3>1. Q \ W = {r \in Range(QueueAt(book[side], p)) : orders[r].orderID \notin OwnIds}
      BY <2>1, <2>2
    <3>2. ShownByOthers(side, p) = MapThenSumSet(LAMBDA r : orders[r].visibleQty, Q \ W)
      BY <3>1 DEF ShownByOthers, MapThenSumSet, MapThenFoldSet
    <3>3. IsFiniteSet(Q \ W)
      BY <2>4, FS_Subset
    <3> QED BY <2>10, <3>2, <3>3, VisibleIsSum
  <2>14. MapThenSumSet(LAMBDA row : row.remainingQty, OwnAt(side, p)) = SumOver(g, T)
    <3>1. MapThenSumSet(LAMBDA row : row.remainingQty, T) = SumOver(g, T)
      BY <2>6, <2>8, RemaindersAreSum
    <3> QED BY <2>3, <3>1 DEF MapThenSumSet, MapThenFoldSet
  <2>15. SumOver(f, W) = SumOver(g, T)
    <3>1. \A r \in W : h[r] \in T /\ StandsFor(h[r], r)
      BY <2>5, <2>9
    <3>2. ASSUME NEW r \in W
          PROVE  f[r] \in Int /\ h[r] \in T /\ g[h[r]] = f[r]
      <4>1. r \in Q /\ f[r] = orders[r].visibleQty /\ f[r] \in Int
        BY <2>2, <2>10
      <4>2. orders[r].peak = 0
        BY <2>6, <3>1 DEF StandsFor
      <4>3. orders[r].visibleQty = orders[r].quantity
        BY <2>4, <4>1, <4>2
      <4>4. g[h[r]] = orders[r].quantity
        BY <2>5, <2>8, <3>1
      <4> QED BY <3>1, <4>1, <4>3, <4>4
    <3>3. \A q, r \in W : h[q] = h[r] => q = r
      <4>1. \A r \in W : r \in Refs /\ h[r].clOrdId = orders[r].orderID
        BY <2>2, <2>4, <3>1 DEF StandsFor
      <4> QED BY <2>0, <4>1
    <3>4. ASSUME NEW row \in T
          PROVE  \E r \in W : h[r] = row
      <4>1. PICK r \in W : StandsFor(row, r)
        BY <2>5
      <4>2. h[r] \in Rows /\ row \in Rows /\ h[r].clOrdId = row.clOrdId
        BY <2>6, <3>1, <4>1 DEF StandsFor
      <4>3. h[r] = row
        BY <2>0, <4>2 DEF SessionFacts, RowsInv
      <4> QED BY <4>3
    <3>5. IsFiniteSet(W)
      BY <2>2, <2>4, FS_Subset
    <3>6. {h[r] : r \in W} = T
      BY <3>2, <3>4
    <3>7. Renames(h, f, g, W)
      BY <3>2, <3>3 DEF Renames
    <3> QED BY <3>5, <3>6, <3>7, SumMoves
  <2>16. SumOver(f, Q \ W) \in Int /\ SumOver(g, T) \in Int
    <3>1. IsFiniteSet(Q \ W) /\ IsFiniteSet(W) /\ \A r \in (Q \ W) \cup W : f[r] \in Int
      BY <2>2, <2>4, <2>10, FS_Subset
    <3> QED BY <2>15, <3>1, SumOfIntegers
  <2>17. PICK others, own : others = SumOver(f, Q \ W) /\ own = SumOver(g, T)
    OBVIOUS
  <2>18. Shown(side, p) = others + own
    BY <2>11, <2>12, <2>15, <2>16, <2>17
  <2> QED BY <2>13, <2>14, <2>17, <2>18
<1> QED
  BY <1>1, AgreementHolds, PegsStayWithoutPrice, BooksHold, TheSessionRunsTheEngine, PTL

-----------------------------------------------------------------------------
(* What the engine publishes is a book, whatever the session did before.   *)

\* A queue of the book shows something.
LEMMA QueuesShowSomething ==
    ASSUME IInv, NEW side \in Sides, NEW p \in DOMAIN book[side]
    PROVE  LevelQty(book[side][p]) \in Nat \ {0}
<1>0. PICK Q : Q = Range(book[side][p])
  OBVIOUS
<1>1. TypeOK /\ BookHoldsLiveOrders /\ DisplayedSlice
  BY DEF IInv
<1>2. book[side][p] \in Seq(Refs) /\ book[side][p] # <<>>
  BY <1>1, RestingOrders
<1>3. PICK r \in Q : TRUE
  <2>1. 1 \in DOMAIN book[side][p]
    BY <1>2
  <2> QED BY <1>0, <2>1 DEF Range
<1>4. \A x \in Q : x \in Refs /\ x \in LitOrders(side)
  BY <1>0, <1>1, RestingOrders
<1>5. IsFiniteSet(Q)
  <2>1. Q = Range(QueueAt(book[side], p))
    BY <1>0 DEF QueueAt
  <2> QED BY <2>1, OrdersAtAPrice
<1>6. \A x \in Q : orders[x].quantity \in Int
  BY <1>1, <1>4, HeapHoldsOrders DEF OrderRecord
<1>7. \A x \in Q : orders[x].visibleQty \in Nat /\ orders[x].visibleQty > 0
  BY <1>1, <1>4, <1>6 DEF DisplayedSlice
<1>8. PICK f : f = [x \in Q |-> orders[x].visibleQty]
  OBVIOUS
<1>9. LevelQty(book[side][p]) = SumOver(f, Q)
  <2>1. LevelQty(book[side][p]) = MapThenSumSet(LAMBDA x : orders[x].visibleQty, Q)
    BY <1>0 DEF LevelQty, MapThenSumSet, MapThenFoldSet
  <2> QED BY <1>5, <1>8, <2>1, VisibleIsSum
<1>10. IsFiniteSet(Q \ {r}) /\ \A x \in Q : f[x] \in Nat /\ f[x] > 0
  BY <1>5, <1>7, <1>8, FS_Subset
<1>11. SumOver(f, Q) = f[r] + SumOver(f, Q \ {r})
  BY <1>5, <1>10, SumOfIntegers
<1>12. SumOver(f, Q \ {r}) \in Nat
  BY <1>10, SumOfNaturals
<1> QED BY <1>9, <1>10, <1>11, <1>12

\* The levels of a side: prices on the tick with something to show.
LEMMA LevelsAreASide ==
    ASSUME IInv, NEW side \in Sides, NEW shown, shown = Levels(side)
    PROVE  /\ shown \in Seq(Nat \X Nat)
           /\ \A i \in DOMAIN shown : /\ shown[i][1] \in DOMAIN book[side]
                                      /\ IsOnTick(shown[i][1]) /\ shown[i][2] > 0
<1>1. TypeOK
  BY DEF IInv
<1>2. PICK n \in Nat : DOMAIN shown = 1 .. n
  BY <1>1, LevelsShowTheBook
<1>3. ASSUME NEW i \in DOMAIN shown
      PROVE  /\ shown[i] \in Nat \X Nat /\ shown[i][1] \in DOMAIN book[side]
             /\ IsOnTick(shown[i][1]) /\ shown[i][2] > 0
  <2>1. PICK p, qty : p = shown[i][1] /\ qty = shown[i][2] /\ shown[i] = <<p, qty>>
    <3>1. shown = [j \in DOMAIN shown |-> <<shown[j][1], shown[j][2]>>]
      BY <1>1, LevelsShowTheBook
    <3>2. shown[i] = <<shown[i][1], shown[i][2]>>
      BY <3>1
    <3> QED BY <3>2
  <2>2. p \in DOMAIN book[side] /\ qty = LevelQty(book[side][p])
    BY <1>1, <2>1, LevelsShowTheBook
  <2>3. qty \in Nat \ {0}
    BY <2>2, QueuesShowSomething
  <2>4. p \in Nat /\ IsOnTick(p)
    BY <1>1, <2>2 DEF TypeOK, Price
  <2> QED BY <2>1, <2>2, <2>3, <2>4
<1>4. PICK pair : pair = [i \in 1 .. n |-> <<shown[i][1], shown[i][2]>>]
  OBVIOUS
<1>5. shown \in Seq(Nat \X Nat)
  <2>1. shown = pair
    BY <1>1, <1>2, <1>4, LevelsShowTheBook
  <2>2. pair \in [1 .. n -> Nat \X Nat]
    BY <1>2, <1>3, <1>4, <2>1
  <2> QED BY <2>1, <2>2
<1> QED BY <1>3, <1>5

\* The top of a side of the book is its best price.
LEMMA TheTopIsTheBest ==
    ASSUME IInv, NEW side \in Sides, NEW shown, shown = Levels(side)
    PROVE  /\ DOMAIN book[side] = {} => TopOf(shown) = NA
           /\ DOMAIN book[side] # {} => TopOf(shown) = BestPrice(side, DOMAIN book[side])
<1>1. TypeOK /\ DOMAIN book[side] \in SUBSET Price
  BY DEF IInv, TypeOK
<1>2. shown \in Seq(Nat \X Nat)
  BY LevelsAreASide
<1>3. CASE DOMAIN book[side] = {}
  <2>1. DOMAIN shown = {}
    BY <1>1, <1>3, LevelsShowTheBook
  <2>2. shown = <<>>
    BY <1>2, <2>1
  <2> QED BY <1>3, <2>2 DEF TopOf
<1>4. CASE DOMAIN book[side] # {}
  <2>1. PICK b : b = BestPrice(side, DOMAIN book[side])
    OBVIOUS
  <2>2. /\ b \in DOMAIN book[side]
        /\ \A p \in DOMAIN book[side] : IF side = "BUY" THEN p <= b ELSE p >= b
    BY <1>1, <1>4, <2>1, BestPriceIsBest
  <2>3. PICK i \in DOMAIN shown : shown[i][1] = b
    <3> SUFFICES ASSUME \A i \in DOMAIN shown : shown[i][1] # b PROVE FALSE
      OBVIOUS
    <3>1. /\ DOMAIN shown = 1 .. MAX_DEPTH_LEVELS
          /\ \A i \in DOMAIN shown : IF side = "BUY" THEN b < shown[i][1]
                                                    ELSE shown[i][1] < b
      BY <1>1, <2>2, LevelsShowTheBook
    <3>2. 1 \in DOMAIN shown
      BY <3>1, SessionAssumption
    <3>3. shown[1][1] \in DOMAIN book[side]
      BY <1>1, <3>2, LevelsShowTheBook
    <3>4. shown[1][1] \in Nat /\ b \in Nat
      BY <1>1, <2>2, <3>3, PricesAreNat
    <3> QED BY <2>2, <3>1, <3>2, <3>3, <3>4
  <2>4. 1 \in DOMAIN shown /\ i \in Nat /\ 1 <= i /\ shown # <<>>
    BY <1>2, <2>3
  <2>5. shown[1][1] \in DOMAIN book[side]
    BY <1>1, <2>4, LevelsShowTheBook
  <2>6. shown[1][1] \in Nat /\ b \in Nat
    BY <1>1, <2>2, <2>5, PricesAreNat
  <2>7. ASSUME i # 1
        PROVE  FALSE
    <3>1. 1 < i
      BY <2>4, <2>7
    <3>2. IF side = "BUY" THEN b < shown[1][1] ELSE shown[1][1] < b
      BY <1>1, <2>3, <2>4, <3>1, LevelsShowTheBook
    <3> QED BY <2>2, <2>5, <2>6, <3>2
  <2> QED BY <1>4, <2>1, <2>3, <2>4, <2>7 DEF TopOf
<1> QED BY <1>3, <1>4

LEMMA SnapshotsAreBooks ==
    ASSUME IInv
    PROVE  IsTopped(BookSnapshot)
<1>0. "BUY" \in Sides /\ "SELL" \in Sides /\ "BUY" # "SELL" /\ TypeOK /\ BookNotCrossed
  BY DEF IInv, Sides
<1>1. PICK bids, asks : bids = Levels("BUY") /\ asks = Levels("SELL")
  OBVIOUS
<1>2. /\ bids \in Seq(Nat \X Nat)
      /\ \A i \in DOMAIN bids : bids[i][1] \in Bids /\ IsOnTick(bids[i][1]) /\ bids[i][2] > 0
  BY <1>0, <1>1, LevelsAreASide DEF Bids
<1>3. /\ asks \in Seq(Nat \X Nat)
      /\ \A i \in DOMAIN asks : asks[i][1] \in Asks /\ IsOnTick(asks[i][1]) /\ asks[i][2] > 0
  BY <1>0, <1>1, LevelsAreASide DEF Asks
<1>4. ASSUME NEW i \in DOMAIN bids, NEW j \in DOMAIN bids, i < j
      PROVE  bids[i][1] > bids[j][1]
  <2>1. bids[j][1] < bids[i][1]
    BY <1>0, <1>1, <1>4, LevelsShowTheBook
  <2>2. bids[i] \in Nat \X Nat /\ bids[j] \in Nat \X Nat
    BY <1>2
  <2> QED BY <2>1, <2>2
<1>5. \A i, j \in DOMAIN asks : i < j => asks[i][1] < asks[j][1]
  BY <1>0, <1>1, LevelsShowTheBook
<1>6. \A i \in DOMAIN bids, j \in DOMAIN asks : bids[i][1] < asks[j][1]
  BY <1>0, <1>2, <1>3 DEF BookNotCrossed
<1>7. PICK shot : shot = BookSnapshot
  OBVIOUS
<1>8. /\ shot.bids = bids /\ shot.asks = asks
      /\ shot.bestBid = IF Bids = {} THEN NA ELSE BestPrice("BUY", Bids)
      /\ shot.bestAsk = IF Asks = {} THEN NA ELSE BestPrice("SELL", Asks)
  BY <1>0, <1>1, <1>7 DEF BookSnapshot, BestPrice
<1>9. shot.bestBid = TopOf(bids) /\ shot.bestAsk = TopOf(asks)
  BY <1>0, <1>1, <1>8, TheTopIsTheBest DEF Bids, Asks
<1>10. IsBook(shot)
  BY <1>2, <1>3, <1>4, <1>5, <1>6, <1>8 DEF IsBook
<1> QED BY <1>7, <1>8, <1>9, <1>10 DEF IsTopped

\* The client's book changes for one of the snapshots only.
LEMMA TheBookIsASnapshot ==
    ASSUME SessionFacts, [SessionNext]_sessionVars
    PROVE  /\ PublishBook \/ UNCHANGED snapshots
           /\ \/ app'.book = app.book
              \/ \E n \in DOMAIN snapshots :
                    /\ app'.book.bids = snapshots[n].bids
                    /\ app'.book.asks = snapshots[n].asks
                    /\ app'.book.bestBid = snapshots[n].bestBid
                    /\ app'.book.bestAsk = snapshots[n].bestAsk
<1>0. /\ IsApp(app) /\ EngineFacts /\ TypeOK /\ ReportsAreTrue /\ InboundInv /\ StreamsInv
      /\ Len(snapshots) \in Nat /\ DOMAIN snapshots = 1 .. Len(snapshots)
      /\ bookRead \in 0 .. Len(snapshots)
      /\ \A i \in DOMAIN snapshots : snapshots[i].type = "BOOK"
  BY LenProperties DEF SessionFacts, EngineFacts, IInv, TypeOK, StreamsInv
<1>1. ASSUME NEW a, NEW n \in DOMAIN snapshots, IsApp(a), app' = reduceFrame(a, snapshots[n])
      PROVE  /\ app'.book.bids = snapshots[n].bids
             /\ app'.book.asks = snapshots[n].asks
             /\ app'.book.bestBid = snapshots[n].bestBid
             /\ app'.book.bestAsk = snapshots[n].bestAsk
  BY <1>0, <1>1, BookEffect
<1>2. CASE \/ \E t \in OwnTickets : SendNew(t)
           \/ \E id \in {t.orderID : t \in OwnTickets} : SendCancel(id)
  <2>1. PICK f \in NewFrames \cup CancelFrames : Write(f)
    BY <1>2 DEF SendNew, SendCancel, NewFrames, CancelFrames, OwnIds
  <2>2. f \in NewOrderFrame \cup CancelOrderFrame
    BY OwnTicketsArrive, OwnCancels DEF NewFrames
  <2>3. app'.book = app.book
    BY <1>0, <2>1, <2>2, SentEffect DEF Write
  <2> QED BY <2>1, <2>3 DEF Write
<1>3. CASE HandleOwn \/ HandleForeign \/ EngineRuns
  BY <1>3 DEF HandleOwn, HandleForeign, EngineRuns, clientVars
<1>4. CASE PublishBook
  BY <1>4 DEF PublishBook, clientVars
<1>5. CASE ReceiveExec
  <2>1. execRead + 1 \in DOMAIN reports
    BY <1>0, <1>5, ReportsAreNumbered DEF ReceiveExec, StreamsInv
  <2>2. ExecOf(execRead + 1) \in ExecFrame
    BY <1>0, <2>1, ExecIsFrame
  <2>3. app'.book = app.book
    BY <1>0, <1>5, <2>2, ExecEffect DEF ReceiveExec
  <2> QED BY <1>5, <2>3 DEF ReceiveExec
<1>6. CASE ReceiveBook
  <2>1. bookRead + 1 \in DOMAIN snapshots
    BY <1>0, <1>6 DEF ReceiveBook
  <2>2. app' = reduceFrame(app, snapshots[bookRead + 1]) /\ UNCHANGED snapshots
    BY <1>6 DEF ReceiveBook
  <2> QED BY <1>0, <1>1, <2>1, <2>2
<1>7. CASE DropConnection
  <2>1. app'.book = app.book
    BY <1>0, <1>7, ConnectionEffect DEF DropConnection
  <2> QED BY <1>7, <2>1 DEF DropConnection
<1>8. CASE Reconnect
  <2>1. PICK opened : opened = reduceConnection(app, "open")
    OBVIOUS
  <2>2. UNCHANGED snapshots
    BY <1>8 DEF Reconnect
  <2>3. PICK b \in bookRead .. Len(snapshots) :
           app' = IF b = 0 THEN opened ELSE reduceFrame(opened, snapshots[b])
    BY <1>8, <2>1 DEF Reconnect
  <2>4. IsApp(opened) /\ opened.book = app.book
    BY <1>0, <2>1, ConnectionEffect
  <2>5. CASE b = 0
    BY <2>2, <2>3, <2>4, <2>5
  <2>6. CASE b # 0
    <3>1. b \in DOMAIN snapshots /\ app' = reduceFrame(opened, snapshots[b])
      BY <1>0, <2>3, <2>6
    <3> QED BY <1>1, <2>2, <2>4, <3>1
  <2> QED BY <2>5, <2>6
<1>9. CASE UNCHANGED sessionVars
  BY <1>9 DEF sessionVars, clientVars
<1> QED BY <1>2, <1>3, <1>4, <1>5, <1>6, <1>7, <1>8, <1>9 DEF SessionNext

ToppedInv ==
    /\ IsTopped(app.book)
    /\ \A n \in DOMAIN snapshots : IsTopped(snapshots[n])

LEMMA ToppedKept ==
    ASSUME SessionFacts, ToppedInv, [SessionNext]_sessionVars
    PROVE  ToppedInv'
<1>1. IInv /\ StreamsInv
  BY DEF SessionFacts, EngineFacts
<1>2. IsTopped(app'.book)
  <2>1. ASSUME NEW b, NEW c, IsTopped(b), c.bids = b.bids, c.asks = b.asks,
               c.bestBid = b.bestBid, c.bestAsk = b.bestAsk
        PROVE  IsTopped(c)
    BY <2>1 DEF IsTopped, IsBook
  <2> QED BY <2>1, TheBookIsASnapshot DEF ToppedInv
<1>3. CASE UNCHANGED snapshots
  BY <1>2, <1>3 DEF ToppedInv
<1>4. CASE PublishBook
  <2>1. PICK frame : frame = BookSnapshot
    OBVIOUS
  <2>2. snapshots' = Append(snapshots, frame) /\ IsTopped(frame)
    BY <1>1, <1>4, <2>1, SnapshotsAreBooks DEF PublishBook
  <2>3. PICK S : snapshots \in Seq(S)
    BY <1>1 DEF StreamsInv
  <2>4. snapshots \in Seq(S \cup {frame}) /\ frame \in S \cup {frame}
    BY <2>3
  <2>5. PICK n \in Nat : n = Len(snapshots) /\ DOMAIN snapshots = 1 .. n
    BY <2>3, LenProperties
  <2>6. /\ DOMAIN snapshots' = 1 .. n + 1 /\ snapshots'[n + 1] = frame
        /\ \A i \in 1 .. n : snapshots'[i] = snapshots[i]
    BY <2>2, <2>4, <2>5, AppendProperties, LenProperties
  <2>7. ASSUME NEW i \in DOMAIN snapshots'
        PROVE  IsTopped(snapshots'[i])
    <3>1. i \in 1 .. n \/ i = n + 1
      BY <2>5, <2>6
    <3> QED BY <2>2, <2>5, <2>6, <3>1 DEF ToppedInv
  <2> QED BY <1>2, <2>7 DEF ToppedInv
<1> QED BY <1>3, <1>4, TheBookIsASnapshot

(***************************************************************************)
(* Whatever a session does, every snapshot the engine publishes and the    *)
(* book the client shows are books: prices on the tick with something to   *)
(* show, the bids falling, the asks rising, every bid below every ask, and *)
(* the tops the first of each side (captureSnapshot and fillSide, applied  *)
(* by applyBook, with a connection lost or not).  It is what ClientViews   *)
(* assumes of the books its panels are given.                              *)
(***************************************************************************)
THEOREM TheClientShowsABook ==
    SessionSpec => [](IsTopped(app.book) /\ \A n \in DOMAIN snapshots : IsTopped(snapshots[n]))
<1>1. SessionInit => ToppedInv
  <2> SUFFICES ASSUME SessionInit PROVE ToppedInv
    OBVIOUS
  <2>1. snapshots = <<>> /\ DOMAIN snapshots = {}
    BY DEF SessionInit
  <2>2. app.book = EMPTY_BOOK
    <3>1. app = [ connection |-> "open", book |-> EMPTY_BOOK, tape |-> <<>>,
          myOrders |-> <<>>, sessionVolume |-> 0,
          sessionOpenPx |-> SESSION_OPEN_UNSET, sessionHighPx |-> SESSION_OPEN_UNSET,
          sessionLowPx |-> SESSION_OPEN_UNSET, sessionTradeCount |-> 0,
          msgSeqNum |-> 0, lastFrameNanos |-> 0, inspectorLog |-> <<>> ]
      BY DEF SessionInit, reduceConnection, initialState
    <3> QED BY <3>1
  <2>3. /\ app.book.bids = <<>> /\ app.book.asks = <<>>
        /\ app.book.bestBid = NA /\ app.book.bestAsk = NA
    BY <2>2 DEF EMPTY_BOOK
  <2>4. IsTopped(app.book)
    BY <2>3 DEF IsTopped, IsBook, TopOf
  <2> QED BY <2>1, <2>4 DEF ToppedInv
<1>2. ToppedInv => IsTopped(app.book) /\ \A n \in DOMAIN snapshots : IsTopped(snapshots[n])
  BY DEF ToppedInv
<1> QED BY <1>1, <1>2, ToppedKept, SessionFactsHold, PTL DEF SessionSpec
=============================================================================
