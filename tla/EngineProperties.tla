-------------------------- MODULE EngineProperties --------------------------
(***************************************************************************)
(* What must hold of the matching engine: its invariants, what a step may  *)
(* never do, that every call returns, and that it implements Venue.        *)
(***************************************************************************)
EXTENDS MatchingEngine

OrderRecord ==
    [ orderID : Nat, timeStamp : Nat, side : Sides, orderQty : Nat,
      quantity : Nat, price : Price \cup {NA}, status : Statuses,
      tif : TimesInForce, peak : Nat, visibleQty : Nat, ordType : OrdTypes ]

TradeRecord == [ buy : Refs, sell : Refs, price : Nat, quantity : Nat ]

ReportRecord ==
    [ kind : {"FILL", "ACCEPTED", "EXPIRED"}, order : Refs,
      passive : Refs \cup {NA}, price : Nat \cup {NA},
      quantity : Nat \cup {NA}, remaining : Nat ]

AnswerRecord == [ kind : {"CANCELLED", "REJECTED"}, id : CancelIds ]

\* Every variable holds a value of its kind: queues and the id index hold
\* references into the heap, levels have a price on the tick.
TypeOK ==
    /\ orders \in Seq(OrderRecord)
    /\ DOMAIN book = Sides
    /\ \A s \in Sides : /\ DOMAIN book[s] \subseteq Price
                        /\ \A p \in DOMAIN book[s] : book[s][p] \in Seq(Refs)
    /\ pegs \in [Sides -> Seq(Refs)]
    /\ DOMAIN openOrders \subseteq Nat
    /\ \A id \in DOMAIN openOrders : openOrders[id] \in Refs
    /\ trades \in Seq(TradeRecord)
    /\ reports \in Seq(ReportRecord \cup AnswerRecord)
    /\ pc \in {"idle", "pegs", "lit", "rest", "cross"}
    /\ pc \in {"pegs", "lit", "rest"} => orders # <<>>
    /\ mid \in Nat \cup {NA}
    /\ calls \in 0 .. MaxCalls

-----------------------------------------------------------------------------
LitOrders(s) == UNION {Range(book[s][p]) : p \in DOMAIN book[s]}
PegOrders(s) == Range(pegs[s])
Resting      == UNION {LitOrders(s) \cup PegOrders(s) : s \in Sides}

\* Live: something to fill, not cancelled, and allowed to rest.
IsLive(r) ==
    /\ orders[r].quantity > 0
    /\ orders[r].status \in {"OPEN", "PARTIALLY_FILLED"}
    /\ orders[r].tif = "GTC"

LitLevelsHoldLiveOrders ==
    \A s \in Sides : \A p \in DOMAIN book[s] :
        /\ book[s][p] # <<>>
        /\ IsInjective(book[s][p])
        /\ \A r \in Range(book[s][p]) :
             /\ IsLive(r) /\ orders[r].side = s
             /\ orders[r].ordType = "LIMIT" /\ orders[r].price = p

PegPoolsHoldLiveOrders ==
    \A s \in Sides :
       /\ IsInjective(pegs[s])
       /\ \A r \in PegOrders(s) :
            IsLive(r) /\ orders[r].side = s /\ orders[r].ordType = "PEG_MID"

(***************************************************************************)
(* The book holds live orders only, each once and where its side, type and *)
(* price say, and no level is empty.  matchBuy and matchSell call          *)
(* getFirst on the best level's queue, which throws on an empty one.       *)
(***************************************************************************)
BookHoldsLiveOrders == LitLevelsHoldLiveOrders /\ PegPoolsHoldLiveOrders

(***************************************************************************)
(* A resting limit order always shows something, never more than it has,   *)
(* an iceberg at most its peak and any other order all of it.  A head that *)
(* showed nothing would make fill(0) throw on the engine thread.           *)
(***************************************************************************)
DisplayedSlice ==
    \A s \in Sides : \A r \in LitOrders(s) :
        /\ orders[r].visibleQty \in 1 .. orders[r].quantity
        /\ IF orders[r].peak = 0 THEN orders[r].visibleQty = orders[r].quantity
                                 ELSE orders[r].visibleQty <= orders[r].peak

(***************************************************************************)
(* openOrders registers the resting orders and nothing else, so that every *)
(* resting order can be cancelled and nothing that is over can.  It holds  *)
(* as long as clients do not reuse ids.                                    *)
(***************************************************************************)
OpenOrdersAreTheRestingOrders ==
    ~ ReuseIds =>
        /\ \A r \in Resting : orders[r].orderID \in DOMAIN openOrders
        /\ \A id \in DOMAIN openOrders :
              openOrders[id] \in Resting /\ orders[openOrders[id]].orderID = id

(***************************************************************************)
(* The book is never locked or crossed, in the middle of a call either:    *)
(* every bid is below every ask (addOrder rests a remainder only after     *)
(* matchBuy or matchSell found nothing more to trade with).                *)
(***************************************************************************)
BookNotCrossed == \A bid \in Bids, ask \in Asks : bid < ask

(***************************************************************************)
(* Between calls, pegs rest on both sides only while there is no midpoint  *)
(* to trade at (crossPegPools runs after every limit order; neither a peg  *)
(* nor a cancel can make a midpoint).                                      *)
(***************************************************************************)
PegPoolsSettled ==
    pc = "idle" /\ Mid # NA => \E s \in Sides : pegs[s] = <<>>

(***************************************************************************)
(* The midpoint that addOrder and crossPegPools read once and then trade   *)
(* at is still the midpoint of the lit book at each of those trades.       *)
(***************************************************************************)
MidStillCurrent == pc \in {"pegs", "cross"} => mid = Mid

(***************************************************************************)
(* No order is filled twice or loses quantity: what it came with is what   *)
(* is left of it plus its share of the trades list.                        *)
(***************************************************************************)
QuantityConserved ==
    \A r \in Refs :
        orders[r].orderQty =
            orders[r].quantity
              + MapThenSumSet(LAMBDA i : trades[i].quantity,
                              {i \in DOMAIN trades : r \in {trades[i].buy, trades[i].sell}})

\* The orders whose addOrder has returned or no longer deals with them.
Settled == IF pc \in {"pegs", "lit", "rest"} THEN Refs \ {incoming} ELSE Refs

(***************************************************************************)
(* A fill-or-kill order trades all of its quantity or none: the probe      *)
(* canFillCompletely and the three match loops agree on what is available. *)
(***************************************************************************)
FillOrKillIsAllOrNothing ==
    \A r \in Settled : orders[r].tif = "FOK" =>
        orders[r].quantity \in {0, orders[r].orderQty}

ReportsOf(kind, r) ==
    {i \in DOMAIN reports : reports[i].kind = kind /\ reports[i].order = r}

(***************************************************************************)
(* A client hears the outcome of each order exactly once: it is accepted   *)
(* (rests), or it expires, or a fill of it as the incoming order leaves    *)
(* nothing.  IOC and FOK orders are never accepted.                        *)
(***************************************************************************)
OneOutcomePerOrder ==
    \A r \in Settled :
        LET accepted == ReportsOf("ACCEPTED", r)
            expired  == ReportsOf("EXPIRED", r)
            filled   == {i \in ReportsOf("FILL", r) :
                            /\ reports[i].remaining = 0
                            /\ \A j \in accepted : i < j}
        IN  /\ Cardinality(accepted \cup expired \cup filled) = 1
            /\ orders[r].tif # "GTC" => accepted = {}

(***************************************************************************)
(* A client that follows the reports alone knows what is left of its       *)
(* resting order: the accepted quantity less every later fill that names   *)
(* the order, as aggressor or passive.  The passive side of a trade gets   *)
(* no report of its own.                                                   *)
(***************************************************************************)
ReportsTellWhatIsLeft ==
    \A r \in Refs : \A a \in ReportsOf("ACCEPTED", r) :
        orders[r].quantity =
            reports[a].remaining
              - MapThenSumSet(LAMBDA i : reports[i].quantity,
                    {i \in DOMAIN reports :
                        /\ i > a /\ reports[i].kind = "FILL"
                        /\ r \in {reports[i].order, reports[i].passive}})

(***************************************************************************)
(* So a client that has only the reports knows each order's whole story:   *)
(* what is left of it while it rests, and how it ended, exactly once.      *)
(***************************************************************************)
ReportsTellTheStory == OneOutcomePerOrder /\ ReportsTellWhatIsLeft

(***************************************************************************)
(* In every fill the later order is the aggressor and the one that waited  *)
(* the passive one, when two resting pegs trade too (laterArrival).  It    *)
(* takes a clock that never gives two orders the same stamp.               *)
(***************************************************************************)
LaterOrderIsAggressor ==
    0 \notin TimeSteps =>
        \A i \in DOMAIN reports :
            reports[i].kind = "FILL" => reports[i].passive < reports[i].order

(***************************************************************************)
(* Time priority: at one price, and in a peg pool, orders without a hidden *)
(* reserve stand in order of arrival.                                      *)
(***************************************************************************)
InArrivalOrder(queue) ==
    \A i, j \in DOMAIN queue :
        i < j /\ orders[queue[i]].peak = 0 /\ orders[queue[j]].peak = 0
            => queue[i] < queue[j]

TimePriority ==
    \A s \in Sides : /\ InArrivalOrder(pegs[s])
                     /\ \A p \in DOMAIN book[s] : InArrivalOrder(book[s][p])

(***************************************************************************)
(* With pegs resting and trading between the loops of a call, everything   *)
(* said above of the lit book and of the reports still holds.              *)
(***************************************************************************)
EngineIsSound ==
    /\ BookHoldsLiveOrders /\ OpenOrdersAreTheRestingOrders
    /\ QuantityConserved /\ FillOrKillIsAllOrNothing
    /\ ReportsTellTheStory /\ TimePriority /\ LaterOrderIsAggressor

-----------------------------------------------------------------------------
Before(queue, q, r) ==
    \E i, j \in DOMAIN queue : i < j /\ queue[i] = q /\ queue[j] = r

Exhausts(r) == r \in Refs /\ orders[r].peak > 0 /\ orders'[r].quantity > 0
                 /\ orders'[r].quantity = orders[r].quantity - orders[r].visibleQty

(***************************************************************************)
(* An order passes another at its price only if the slice the other showed *)
(* was traded in full: then, and only then, an iceberg goes to the back.   *)
(***************************************************************************)
NoQueueJump ==
    [][\A s \in Sides : \A p \in DOMAIN book[s] \cap DOMAIN book'[s] :
         \A q, r \in Range(book[s][p]) \cap Range(book'[s][p]) :
            Before(book[s][p], q, r) /\ ~ Before(book'[s][p], q, r)
                => Exhausts(q)]_vars

(***************************************************************************)
(* cancelOrder's comment: it returns "true if a live resting order was     *)
(* found and cancelled; false for an unknown id or an order already fully  *)
(* filled".  So a cancel is refused only if nothing with that id rests.    *)
(***************************************************************************)
CancelFindsAnyRestingOrder ==
    [][\A id \in CancelIds : CancelOrderRefused(id) =>
          \A r \in Resting : orders[r].orderID # id]_vars

\* Every call returns: no loop runs forever or gets stuck.
CallsReturn == pc # "idle" ~> pc = "idle"

-----------------------------------------------------------------------------
\* The stage of an order, for the venue: over when it neither rests nor is being worked.
IsOver(r) == r \in Settled \ Resting /\ orders[r].quantity > 0

StageOf(r) ==
    CASE r \in Resting -> "resting"
      [] r \notin Settled /\ orders[r].quantity > 0 -> "working"
      [] orders[r].quantity = 0 -> "filled"
      [] IsOver(r) /\ orders[r].status = "CANCELLED" -> "cancelled"
      [] OTHER -> "expired"

AccountOf(r) ==
    [ side |-> orders[r].side, ordType |-> orders[r].ordType, tif |-> orders[r].tif,
      price |-> orders[r].price, orderQty |-> orders[r].orderQty,
      remaining |-> orders[r].quantity, stage |-> StageOf(r) ]

V == INSTANCE Venue WITH accounts <- [r \in Refs |-> AccountOf(r)], prints <- trades

(***************************************************************************)
(* The queues, the two loops and the probe implement the venue: who may    *)
(* trade with whom at what price, and when an order may rest, expire, be   *)
(* killed or be cancelled.                                                 *)
(***************************************************************************)
ImplementsVenue == V!VenueSpec
=============================================================================
