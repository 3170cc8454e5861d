--------------------------- MODULE MatchingEngine ---------------------------
(***************************************************************************)
(* The matching engine (engine/MatchingEngine.java): a lit book of price   *)
(* levels, each a FIFO queue, and one FIFO pool of midpoint pegs per side. *)
(*                                                                         *)
(* One thread calls addOrder and cancelOrder, so a call never overlaps     *)
(* another.  But every loop iteration publishes an execution that other    *)
(* threads read while the call goes on, so one iteration is one action     *)
(* here and pc is the loop the call is in.                                 *)
(*                                                                         *)
(* Orders are Java objects.  orders is the heap: orders[r] is the r-th     *)
(* object handed to addOrder, and r its reference.  Order ids are chosen   *)
(* by clients and need not differ, which is why the queues hold references *)
(* and only openOrders is keyed by id.                                     *)
(*                                                                         *)
(* Operators marked (fault), as in Order, are plausible slips in the       *)
(* operator that follows them.                                             *)
(***************************************************************************)
EXTENDS Order, Sequences, FiniteSets, FiniteSetsExt, SequencesExt

CONSTANTS
    Tickets,        \* what addOrder may be called with
    CancelIds,      \* what cancelOrder may be called with
    TimeSteps,      \* how far the clock may move between two orders
    ReuseIds,       \* may a client send an id that was sent before?
    MaxPrice,       \* the largest limit price
    MaxCalls        \* bound on the number of calls (ends the behaviour)

Price == {p \in 1 .. MaxPrice : IsOnTick(p)}

TicketRecord ==
    [ orderID : Nat, side : Sides, quantity : Nat, price : Price \cup {NA},
      tif : TimesInForce, peak : Nat, ordType : OrdTypes ]

ASSUME TicketsAssumption ==
    /\ Tickets \subseteq TicketRecord
    /\ \A t \in Tickets : ConstructorAccepts(t)
ASSUME BoundsAssumption ==
    /\ CancelIds \subseteq Nat
    /\ TimeSteps \subseteq Nat
    /\ ReuseIds \in BOOLEAN
    /\ MaxPrice \in Nat
    /\ MaxCalls \in Nat

VARIABLES
    orders,      \* the heap of Order objects, in the order they arrived
    book,        \* side -> (price -> queue): the fields bids and asks
    pegs,        \* side -> queue: the fields pegBids and pegAsks
    openOrders,  \* id -> reference of the resting order registered under it
    trades,      \* the list of trades; a trade's id is its index
    reports,     \* what the ExecutionListener was called with, in order
    pc,          \* where the running call is; "idle" between calls
    mid,         \* the local variable mid of the running call
    calls        \* number of calls so far

books == <<book, pegs, openOrders>>
vars  == <<orders, book, pegs, openOrders, trades, reports, pc, mid, calls>>

Refs == DOMAIN orders

\* The order the running addOrder was called with.
incoming    == Len(orders)
incomingSide == orders[incoming].side

-----------------------------------------------------------------------------
(***************************************************************************)
(* Reading the book.                                                       *)
(***************************************************************************)
Bids == DOMAIN book["BUY"]
Asks == DOMAIN book["SELL"]

\* (fault) Both maps are ordered lowest first.
LowestPrice(side, levels) == Min(levels)

\* firstKey of a side's TreeMap: bids are ordered highest first.
BestPrice(side, levels) == IF side = "BUY" THEN Max(levels) ELSE Min(levels)

\* mid(): the mean of the best bid and ask, NA when a side is empty.
MidOf(bidPrices, askPrices) ==
    IF bidPrices = {} \/ askPrices = {} THEN NA
    ELSE (BestPrice("BUY", bidPrices) + BestPrice("SELL", askPrices)) \div 2

Mid == MidOf(Bids, Asks)

\* (fault) An order at exactly the contra price does not trade.
MarketableStrictly(side, limit, contraPrice) ==
    IF side = "BUY" THEN contraPrice < limit ELSE contraPrice > limit

\* Can an order of this side and limit trade at the contra price?
Marketable(side, limit, contraPrice) ==
    IF side = "BUY" THEN contraPrice <= limit ELSE contraPrice >= limit

\* (fault) Every limit order visits the peg pool.
AlwaysCrossesMid(side, limit, m) == TRUE

\* Does an order of this side and limit reach the midpoint?
CrossesMid(side, limit, m) ==
    IF side = "BUY" THEN limit >= m ELSE limit <= m

TotalQuantity(refs) == MapThenSumSet(LAMBDA r : orders[r].quantity, refs)

\* (fault) The aggressor's own pool is counted.
PegPoolTotalOwnSide(side) == TotalQuantity(Range(pegs[side]))

\* pegPoolTotal(): what the pool opposite the aggressor holds.
PegPoolTotal(side) == TotalQuantity(Range(pegs[Opposite(side)]))

\* (fault) The probe does not stop at the limit.
LitTotalEveryLevel(side, limit) ==
    LET contra == book[Opposite(side)]
    IN  TotalQuantity(UNION {Range(contra[p]) : p \in DOMAIN contra})

\* What the contra side of the lit book holds at marketable prices, iceberg
\* reserves included.
LitTotal(side, limit) ==
    LET contra == book[Opposite(side)]
        levels == {p \in DOMAIN contra : Marketable(side, limit, p)}
    IN  TotalQuantity(UNION {Range(contra[p]) : p \in levels})

\* canFillCompletely(): the probe a fill-or-kill order must pass.
CanFillCompletely(ticket) ==
    LET pool == PegPoolTotal(ticket.side)
    IN  IF ticket.ordType = "PEG_MID"
        THEN Mid # NA /\ pool >= ticket.quantity
        ELSE LET reachesPool == Mid # NA /\ CrossesMid(ticket.side, ticket.price, Mid)
             IN  LitTotal(ticket.side, ticket.price)
                   + (IF reachesPool THEN pool ELSE 0) >= ticket.quantity

\* The level the match loop works on: firstEntry() of the contra side, when
\* the incoming order is marketable against it.
IsMatchLevel(p) ==
    LET contra == book[Opposite(incomingSide)]
    IN  /\ p \in DOMAIN contra
        /\ p = BestPrice(Opposite(incomingSide), DOMAIN contra)
        /\ Marketable(incomingSide, orders[incoming].price, p)

-----------------------------------------------------------------------------
(***************************************************************************)
(* Changing the book.                                                      *)
(***************************************************************************)
\* (fault) An emptied level stays in the map.
WithLevelKept(levels, p, queue) ==
    [ q \in DOMAIN levels \cup {p} |-> IF q = p THEN queue ELSE levels[q] ]

\* A side of the book with the queue at price p replaced; an emptied level
\* is dropped from the map.
WithLevel(levels, p, queue) ==
    [ q \in IF queue = <<>> THEN DOMAIN levels \ {p} ELSE DOMAIN levels \cup {p}
        |-> IF q = p THEN queue ELSE levels[q] ]

QueueAt(levels, p) == IF p \in DOMAIN levels THEN levels[p] ELSE <<>>

\* (fault) addFirst.
AddFirst(queue, r) == <<r>> \o queue

AddLast(queue, r) == Append(queue, r)

\* Deque.remove(order): by identity, and a reference is in a queue once.
Without(queue, r) ==
    IF r \in Range(queue)
    THEN RemoveAt(queue, CHOOSE i \in DOMAIN queue : queue[i] = r)
    ELSE queue

\* Map.remove(id) for each id of the set.
Unregister(ids) == Restrict(openOrders, DOMAIN openOrders \ ids)

\* Map.put(id, r): replaces whatever was registered under the id.
Register(r) ==
    [ id \in DOMAIN openOrders \cup {orders[r].orderID} |->
        IF id = orders[r].orderID THEN r ELSE openOrders[id] ]

\* (fault) A filled resting order stays registered.
IdsFilledByNone(n, refs) == {}

\* Ids of the orders among refs that a fill of n leaves with nothing.
IdsFilledBy(n, refs) ==
    {orders[r].orderID : r \in {x \in refs : orders[x].quantity = n}}

\* (fault) The aggressor's remainder is read before it is filled.
ReportRemainderBefore(kind, r, other, price, quantity, remaining) ==
    [ kind |-> kind, order |-> r, passive |-> other, price |-> price,
      quantity |-> quantity,
      remaining |-> IF kind = "FILL" THEN remaining + quantity ELSE remaining ]

Report(kind, r, other, price, quantity, remaining) ==
    [ kind |-> kind, order |-> r, passive |-> other, price |-> price,
      quantity |-> quantity, remaining |-> remaining ]

\* Both orders fill, the trade is recorded and the listener told.
Execute(aggressor, passive, n, price) ==
    LET buyer == IF orders[aggressor].side = "BUY" THEN aggressor ELSE passive
    IN  /\ trades' = Append(trades,
               [ buy   |-> buyer,
                 sell  |-> IF buyer = aggressor THEN passive ELSE aggressor,
                 price |-> price, quantity |-> n ])
        /\ reports' = Append(reports,
               Report("FILL", aggressor, passive, price, n,
                      orders[aggressor].quantity - n))

Init ==
    /\ orders = <<>>
    /\ book = [s \in Sides |-> <<>>]
    /\ pegs = [s \in Sides |-> <<>>]
    /\ openOrders = <<>>
    /\ trades = <<>>
    /\ reports = <<>>
    /\ pc = "idle"
    /\ mid = NA
    /\ calls = 0

-----------------------------------------------------------------------------
(***************************************************************************)
(* addOrder.                                                               *)
(***************************************************************************)
Return == pc' = "idle" /\ mid' = NA

Call == pc = "idle" /\ calls < MaxCalls /\ calls' = calls + 1

\* The new object; the gateway stamps orders with a clock that may tie.
\* Nothing in the code checks the id: ReuseIds says what clients do.
Arrive(ticket) ==
    /\ ReuseIds \/ \A r \in Refs : orders[r].orderID # ticket.orderID
    /\ \E step \in TimeSteps :
          orders' = Append(orders, NewOrder(ticket,
                        step + IF orders = <<>> THEN 1
                               ELSE orders[incoming].timeStamp))

\* A fill-or-kill order that the probe turns away: nothing else is touched.
AddOrderKilled(ticket) ==
    /\ Call
    /\ ticket.tif = "FOK" /\ ~ CanFillCompletely(ticket)
    /\ Arrive(ticket)
    /\ reports' = Append(reports,
           Report("EXPIRED", incoming + 1, NA, NA, NA, ticket.quantity))
    /\ UNCHANGED <<book, pegs, openOrders, trades, pc, mid>>

\* Which loop the call enters first; mid is read once, before any fill.
AddOrder(ticket) ==
    /\ Call
    /\ ticket.tif = "FOK" => CanFillCompletely(ticket)
    /\ Arrive(ticket)
    /\ mid' = Mid
    /\ pc' = IF ticket.ordType = "PEG_MID"
             THEN IF Mid = NA THEN "rest" ELSE "pegs"
             ELSE IF Mid # NA /\ CrossesMid(ticket.side, ticket.price, Mid)
                  THEN "pegs" ELSE "lit"
    /\ UNCHANGED <<book, pegs, openOrders, trades, reports>>

\* One iteration of matchPegPool.
MatchPegPool ==
    LET side == Opposite(incomingSide)
        pool == pegs[side]
    IN  /\ pc = "pegs" /\ orders[incoming].quantity > 0 /\ pool # <<>>
        /\ LET resting == Head(pool)
               n == Least(orders[incoming].quantity, orders[resting].quantity)
           IN  /\ orders' = [orders EXCEPT ![incoming] = Fill(@, n),
                                           ![resting]  = Fill(@, n)]
               /\ Execute(incoming, resting, n, mid)
               /\ openOrders' = Unregister(IdsFilledBy(n, {resting}))
               /\ pegs' = IF orders[resting].quantity = n
                          THEN [pegs EXCEPT ![side] = Tail(@)] ELSE pegs
        /\ UNCHANGED <<book, pc, mid, calls>>

\* (fault) The loop does not look whether the pool is empty.
MatchPegPoolEndsFilled ==
    /\ pc = "pegs" /\ orders[incoming].quantity = 0
    /\ pc' = IF orders[incoming].ordType = "PEG_MID" THEN "rest" ELSE "lit"
    /\ UNCHANGED <<orders, books, trades, reports, mid, calls>>

MatchPegPoolEnds ==
    /\ pc = "pegs"
    /\ orders[incoming].quantity = 0 \/ pegs[Opposite(incomingSide)] = <<>>
    /\ pc' = IF orders[incoming].ordType = "PEG_MID" THEN "rest" ELSE "lit"
    /\ UNCHANGED <<orders, books, trades, reports, mid, calls>>

\* (fault) A head that is filled in part gives up its place.
ReloadsAlways(order) == order.quantity > 0

\* An iceberg whose slice is used up, with reserve left.
Reloads(order) == order.quantity > 0 /\ order.visibleQty = 0

\* One iteration of matchBuy or matchSell: the head of the best level fills;
\* it leaves when nothing is left, and goes to the back with a fresh slice
\* when only its displayed slice is.
MatchLit(p) ==
    LET side  == Opposite(incomingSide)
        queue == book[side][p]
        head  == Head(queue)
        n     == Least(orders[incoming].quantity, orders[head].visibleQty)
        filled == Fill(orders[head], n)
        reload == Reloads(filled)
    IN  /\ pc = "lit" /\ orders[incoming].quantity > 0 /\ IsMatchLevel(p)
        /\ orders' = [orders EXCEPT ![incoming] = Fill(@, n),
                          ![head] = IF reload THEN RefreshDisplay(filled) ELSE filled]
        /\ Execute(incoming, head, n, p)
        /\ openOrders' = Unregister(IdsFilledBy(n, {head}))
        /\ book' = [book EXCEPT ![side] =
                      WithLevel(@, p, IF filled.quantity = 0 THEN Tail(queue)
                                      ELSE IF reload THEN AddLast(Tail(queue), head)
                                      ELSE queue)]
        /\ UNCHANGED <<pegs, pc, mid, calls>>

\* (fault) The loop does not look whether the contra side is empty.
MatchLitEndsFilled ==
    /\ pc = "lit" /\ orders[incoming].quantity = 0
    /\ pc' = "rest"
    /\ UNCHANGED <<orders, books, trades, reports, mid, calls>>

MatchLitEnds ==
    /\ pc = "lit"
    /\ \/ orders[incoming].quantity = 0
       \/ \A p \in DOMAIN book[Opposite(incomingSide)] : ~ IsMatchLevel(p)
    /\ pc' = "rest"
    /\ UNCHANGED <<orders, books, trades, reports, mid, calls>>

\* restPeg: the remainder of a peg joins its pool, and the call returns.
RestPeg ==
    LET order == orders[incoming]
    IN  /\ pc = "rest" /\ order.quantity > 0
        /\ order.tif = "GTC" /\ order.ordType = "PEG_MID"
        /\ pegs' = [pegs EXCEPT ![order.side] = AddLast(@, incoming)]
        /\ openOrders' = Register(incoming)
        /\ reports' = Append(reports,
               Report("ACCEPTED", incoming, NA, order.price, NA, order.quantity))
        /\ Return
        /\ UNCHANGED <<orders, book, trades, calls>>

\* addToBook: the remainder of a limit order joins the level at its price.
\* The book may now have a midpoint: crossPegPools reads it.
AddToBook ==
    LET order == orders[incoming]
    IN  /\ pc = "rest" /\ order.quantity > 0
        /\ order.tif = "GTC" /\ order.ordType = "LIMIT"
        /\ orders' = [orders EXCEPT ![incoming] = RefreshDisplay(@)]
        /\ book' = [book EXCEPT ![order.side] =
                      WithLevel(@, order.price, AddLast(QueueAt(@, order.price), incoming))]
        /\ openOrders' = Register(incoming)
        /\ reports' = Append(reports,
               Report("ACCEPTED", incoming, NA, order.price, NA, order.quantity))
        /\ pc' = "cross"
        /\ mid' = MidOf(DOMAIN book'["BUY"], DOMAIN book'["SELL"])
        /\ UNCHANGED <<pegs, trades, calls>>

\* (fault) crossPegPools is given the midpoint addOrder read at its start.
AfterRestOldMid(order) ==
    IF order.ordType = "PEG_MID" THEN Return ELSE pc' = "cross" /\ UNCHANGED mid

\* After the remainder: a peg's call returns, any other crosses the pools,
\* which reads the midpoint afresh.
AfterRest(order) ==
    IF order.ordType = "PEG_MID" THEN Return ELSE pc' = "cross" /\ mid' = Mid

\* What is left of an IOC or FOK order does not rest: it expires.
ExpireRemainder ==
    LET order == orders[incoming]
    IN  /\ pc = "rest" /\ order.quantity > 0 /\ order.tif # "GTC"
        /\ orders' = [orders EXCEPT ![incoming] = Expire(@)]
        /\ reports' = Append(reports,
               Report("EXPIRED", incoming, NA, NA, NA, order.quantity))
        /\ AfterRest(order)
        /\ UNCHANGED <<books, trades, calls>>

NoRemainder ==
    /\ pc = "rest" /\ orders[incoming].quantity = 0
    /\ AfterRest(orders[incoming])
    /\ UNCHANGED <<orders, books, trades, reports, calls>>

\* The later of two pegs is named the aggressor of their trade.
LaterArrival(a, b) ==
    IF orders[a].timeStamp # orders[b].timeStamp
    THEN IF orders[a].timeStamp > orders[b].timeStamp THEN a ELSE b
    ELSE IF orders[a].orderID > orders[b].orderID THEN a ELSE b

\* One iteration of crossPegPools: the heads of the pools trade.
CrossPegPools ==
    /\ pc = "cross" /\ mid # NA
    /\ pegs["BUY"] # <<>> /\ pegs["SELL"] # <<>>
    /\ LET bid == Head(pegs["BUY"])
           ask == Head(pegs["SELL"])
           aggressor == LaterArrival(bid, ask)
           n == Least(orders[bid].quantity, orders[ask].quantity)
       IN  /\ orders' = [orders EXCEPT ![bid] = Fill(@, n), ![ask] = Fill(@, n)]
           /\ Execute(aggressor, IF aggressor = bid THEN ask ELSE bid, n, mid)
           /\ openOrders' = Unregister(IdsFilledBy(n, {bid, ask}))
           /\ pegs' = [s \in Sides |->
                         IF orders[Head(pegs[s])].quantity = n
                         THEN Tail(pegs[s]) ELSE pegs[s]]
    /\ UNCHANGED <<book, pc, mid, calls>>

\* (fault) One pair of pegs is crossed, not all of them.
CrossPegPoolsEndsEarly ==
    /\ pc = "cross"
    /\ Return
    /\ UNCHANGED <<orders, books, trades, reports, calls>>

CrossPegPoolsEnds ==
    /\ pc = "cross"
    /\ mid = NA \/ \E s \in Sides : pegs[s] = <<>>
    /\ Return
    /\ UNCHANGED <<orders, books, trades, reports, calls>>

-----------------------------------------------------------------------------
(***************************************************************************)
(* cancelOrder, which returns whether it found a live resting order; the   *)
(* handler reports the answer, and reports records it here.                *)
(***************************************************************************)
Answer(kind, id) == [ kind |-> kind, id |-> id ]

IsOpen(id) == id \in DOMAIN openOrders /\ orders[openOrders[id]].quantity > 0

CancelOrder(id) ==
    /\ Call
    /\ IsOpen(id)
    /\ LET r == openOrders[id]
           order == orders[r]
       IN  /\ orders' = [orders EXCEPT ![r] = Cancel(@)]
           /\ IF order.ordType = "PEG_MID"
              THEN /\ pegs' = [pegs EXCEPT ![order.side] = Without(@, r)]
                   /\ UNCHANGED book
              ELSE /\ book' = [book EXCEPT ![order.side] =
                          IF order.price \in DOMAIN @
                          THEN WithLevel(@, order.price, Without(@[order.price], r))
                          ELSE @]
                   /\ UNCHANGED pegs
           /\ reports' = Append(reports, Answer("CANCELLED", id))
    /\ openOrders' = Unregister({id})
    /\ UNCHANGED <<trades, pc, mid>>

CancelOrderRefused(id) ==
    /\ Call
    /\ ~ IsOpen(id)
    /\ openOrders' = Unregister({id})
    /\ reports' = Append(reports, Answer("REJECTED", id))
    /\ UNCHANGED <<orders, book, pegs, trades, pc, mid>>

-----------------------------------------------------------------------------
\* The iterations of the running call: nothing outside the engine drives them.
Continue ==
    \/ MatchPegPool \/ MatchPegPoolEnds
    \/ \E p \in Price : MatchLit(p)
    \/ MatchLitEnds
    \/ RestPeg \/ AddToBook \/ ExpireRemainder \/ NoRemainder
    \/ CrossPegPools \/ CrossPegPoolsEnds

\* The bound on calls is used up.
Exhausted == pc = "idle" /\ calls = MaxCalls /\ UNCHANGED vars

Next ==
    \/ \E t \in Tickets : AddOrder(t) \/ AddOrderKilled(t)
    \/ \E id \in CancelIds : CancelOrder(id) \/ CancelOrderRefused(id)
    \/ Continue
    \/ Exhausted

Spec == Init /\ [][Next]_vars

\* The engine thread keeps running once a call has begun; it need never be
\* called.
FairSpec == Spec /\ WF_vars(Continue)
=============================================================================
