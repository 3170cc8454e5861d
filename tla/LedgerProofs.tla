---------------------------- MODULE LedgerProofs ----------------------------
(***************************************************************************)
(* The matching engine's accounts, for every instance: quantities against  *)
(* the list of trades, fill-or-kill orders against the probe, the reports  *)
(* against the orders they are about, and all of it against Venue.         *)
(***************************************************************************)
EXTENDS PriorityProofs

-----------------------------------------------------------------------------
(* Sums of quantities: of orders, of trades and of reports. *)

QuantityIn(s, S) == MapThenSumSet(LAMBDA r : s[r].quantity, S)

\* A sum of quantities is a sum of the values of any function that gives them.
LEMMA QuantityIsSum ==
    ASSUME NEW s, NEW S, NEW f, IsFiniteSet(S), \A r \in S : f[r] = s[r].quantity
    PROVE  QuantityIn(s, S) = SumOver(f, S)
<1> DEFINE Adds(g) == g = [T \in SUBSET S |->
                 IF T = {} THEN 0
                 ELSE s[First(T)].quantity + g[T \ {First(T)}]]
<1>1. PICK g : AddsUp(g, f, S)
  BY AddsUpExists
<1>2. \A T \in SUBSET S : T # {} => f[First(T)] = s[First(T)].quantity
  BY FirstIsIn
<1>3. \A h : Adds(h) <=> AddsUp(h, f, S)
  <2> SUFFICES ASSUME NEW h PROVE Adds(h) <=> AddsUp(h, f, S)
    OBVIOUS
  <2>1. [T \in SUBSET S |-> IF T = {} THEN 0 ELSE s[First(T)].quantity + h[T \ {First(T)}]]
          = [T \in SUBSET S |-> IF T = {} THEN 0 ELSE f[First(T)] + h[T \ {First(T)}]]
    BY <1>2
  <2> QED BY <2>1 DEF AddsUp
<1>4. Adds(CHOOSE h : Adds(h))
  <2>1. Adds(g)
    BY <1>1, <1>3
  <2> HIDE DEF Adds
  <2> QED BY <2>1
<1>5. QuantityIn(s, S) = (CHOOSE h : Adds(h))[S]
  BY DEF QuantityIn, MapThenSumSet, MapThenFoldSet, First
<1>6. AddsUp(CHOOSE h : Adds(h), f, S)
  <2> HIDE DEF Adds
  <2> QED BY <1>3, <1>4
<1>7. SumOver(f, S) = (CHOOSE h : Adds(h))[S]
  <2> DEFINE h == CHOOSE h : Adds(h)
  <2> HIDE DEF h
  <2>1. AddsUp(h, f, S)
    BY <1>6 DEF h
  <2>2. SumOver(f, S) = h[S]
    BY <2>1, SumIsWorth
  <2> QED BY <2>2 DEF h
<1> QED BY <1>5, <1>7

LEMMA QuantityInNothing == \A s : QuantityIn(s, {}) = 0
<1> SUFFICES ASSUME NEW s PROVE QuantityIn(s, {}) = 0
  OBVIOUS
<1>1. QuantityIn(s, {}) = SumOver(<<>>, {})
  BY QuantityIsSum, FS_EmptySet
<1> QED BY <1>1, SumOfNothing

\* One more member counts with its quantity.
LEMMA QuantityInOneMore ==
    ASSUME NEW s, NEW S, NEW x, IsFiniteSet(S), x \notin S,
           \A r \in S \cup {x} : s[r].quantity \in Int
    PROVE  QuantityIn(s, S \cup {x}) = QuantityIn(s, S) + s[x].quantity
<1> DEFINE f == [r \in S \cup {x} |-> s[r].quantity]
<1>1. IsFiniteSet(S \cup {x})
  BY FS_AddElement
<1>2. QuantityIn(s, S \cup {x}) = SumOver(f, S \cup {x})
  BY <1>1, QuantityIsSum
<1>3. QuantityIn(s, S) = SumOver(f, S)
  BY QuantityIsSum
<1>4. \A y \in S \cup {x} : f[y] \in Int
  OBVIOUS
<1>5. f[x] = s[x].quantity
  OBVIOUS
<1> HIDE DEF f
<1>6. SumOver(f, S \cup {x}) = SumOver(f, S) + f[x]
  BY <1>4, SumWithOneMore
<1> QED BY <1>2, <1>3, <1>5, <1>6

\* Equal quantities add up to the same.
LEMMA QuantityInTheSame ==
    ASSUME NEW s, NEW t, NEW S, IsFiniteSet(S),
           \A r \in S : s[r].quantity \in Int /\ t[r].quantity = s[r].quantity
    PROVE  QuantityIn(t, S) = QuantityIn(s, S)
<1> DEFINE f == [r \in S |-> s[r].quantity]
<1>1. QuantityIn(s, S) = SumOver(f, S)
  BY QuantityIsSum
<1>2. QuantityIn(t, S) = SumOver(f, S)
  BY QuantityIsSum
<1> QED BY <1>1, <1>2

\* One member changes its quantity.
LEMMA QuantityInOneChanged ==
    ASSUME NEW s, NEW t, NEW S, NEW x \in S, IsFiniteSet(S), t[x].quantity \in Int,
           \A r \in S : s[r].quantity \in Int,
           \A r \in S \ {x} : t[r].quantity = s[r].quantity
    PROVE  QuantityIn(t, S) = QuantityIn(s, S) - s[x].quantity + t[x].quantity
<1> DEFINE f == [r \in S |-> s[r].quantity]
           h == [r \in S |-> t[r].quantity]
<1>1. QuantityIn(s, S) = SumOver(f, S) /\ QuantityIn(t, S) = SumOver(h, S)
  BY QuantityIsSum
<1>2. f[x] = s[x].quantity /\ h[x] = t[x].quantity
  OBVIOUS
<1>3. h[x] \in Int
  OBVIOUS
<1>4. \A y \in S : f[y] \in Int
  OBVIOUS
<1>5. \A y \in S \ {x} : h[y] = f[y]
  OBVIOUS
<1> HIDE DEF f, h
<1>6. SumOver(h, S) = SumOver(f, S) - f[x] + h[x]
  BY <1>3, <1>4, <1>5, SumWithOneChanged
<1> QED BY <1>1, <1>2, <1>6

\* A sum of natural numbers is one, and a part is no more than the whole.
LEMMA QuantityInIsNatural ==
    ASSUME NEW s, NEW S, IsFiniteSet(S), \A r \in S : s[r].quantity \in Nat
    PROVE  /\ QuantityIn(s, S) \in Nat
           /\ \A T \in SUBSET S : QuantityIn(s, T) <= QuantityIn(s, S)
           /\ \A x \in S : QuantityIn(s, S) = s[x].quantity + QuantityIn(s, S \ {x})
<1> DEFINE f == [r \in S |-> s[r].quantity]
<1>1. \A T \in SUBSET S : QuantityIn(s, T) = SumOver(f, T)
  BY FS_Subset, QuantityIsSum
<1>2. \A x \in S : f[x] \in Nat /\ f[x] \in Int /\ f[x] = s[x].quantity
  OBVIOUS
<1> HIDE DEF f
<1>3. SumOver(f, S) \in Nat /\ \A T \in SUBSET S : SumOver(f, T) <= SumOver(f, S)
  BY <1>2, SumOfNaturals
<1>4. \A x \in S : SumOver(f, S) = f[x] + SumOver(f, S \ {x})
  BY <1>2, SumOfIntegers
<1> QED BY <1>1, <1>2, <1>3, <1>4

\* The sum over two sets that share nothing.
LEMMA QuantityInBoth ==
    ASSUME NEW s, NEW S, NEW T, IsFiniteSet(S), IsFiniteSet(T), S \cap T = {},
           \A r \in S \cup T : s[r].quantity \in Nat
    PROVE  QuantityIn(s, S \cup T) = QuantityIn(s, S) + QuantityIn(s, T)
<1> DEFINE Good == {U \in SUBSET T :
                      QuantityIn(s, S \cup U) = QuantityIn(s, S) + QuantityIn(s, U)}
<1>1. \A U \in SUBSET T : /\ IsFiniteSet(U) /\ IsFiniteSet(S \cup U)
                          /\ QuantityIn(s, U) \in Nat /\ QuantityIn(s, S \cup U) \in Nat
  <2> SUFFICES ASSUME NEW U \in SUBSET T
               PROVE  /\ IsFiniteSet(U) /\ IsFiniteSet(S \cup U)
                      /\ QuantityIn(s, U) \in Nat /\ QuantityIn(s, S \cup U) \in Nat
    OBVIOUS
  <2>1. IsFiniteSet(U) /\ IsFiniteSet(S \cup U)
    BY FS_Subset, FS_Union
  <2> QED BY <2>1, QuantityInIsNatural
<1>2. {} \in Good
  <2>1. QuantityIn(s, S) \in Nat /\ S \cup {} = S
    BY QuantityInIsNatural
  <2> QED BY <2>1, QuantityInNothing
<1>3. ASSUME NEW U \in SUBSET T, NEW x \in T, U \in Good, x \notin U
      PROVE  U \cup {x} \in Good
  <2>1. /\ IsFiniteSet(U) /\ IsFiniteSet(S \cup U) /\ x \notin S \cup U
        /\ QuantityIn(s, U) \in Nat /\ QuantityIn(s, S) \in Nat
        /\ (S \cup U) \cup {x} = S \cup (U \cup {x})
        /\ s[x].quantity \in Nat
    BY <1>1, <1>3, QuantityInIsNatural
  <2>2. QuantityIn(s, S \cup U) = QuantityIn(s, S) + QuantityIn(s, U)
    BY <1>3
  <2> HIDE DEF Good
  <2>3. QuantityIn(s, U \cup {x}) = QuantityIn(s, U) + s[x].quantity
    <3>1. \A r \in U \cup {x} : s[r].quantity \in Int
      OBVIOUS
    <3> QED BY <1>3, <2>1, <3>1, QuantityInOneMore
  <2>4. QuantityIn(s, (S \cup U) \cup {x}) = QuantityIn(s, S \cup U) + s[x].quantity
    <3>1. \A r \in (S \cup U) \cup {x} : s[r].quantity \in Int
      OBVIOUS
    <3> QED BY <2>1, <3>1, QuantityInOneMore
  <2>5. QuantityIn(s, S \cup (U \cup {x})) = QuantityIn(s, S) + QuantityIn(s, U \cup {x})
    <3>1. \A a, b, c \in Nat : (a + b) + c = a + (b + c)
      OBVIOUS
    <3>2. (S \cup U) \cup {x} = S \cup (U \cup {x})
      OBVIOUS
    <3>3. QuantityIn(s, S \cup (U \cup {x})) = QuantityIn(s, S \cup U) + s[x].quantity
      BY <2>4, <3>2, Zenon
    <3> QED BY <2>1, <2>2, <2>3, <3>1, <3>3
  <2> QED BY <2>5 DEF Good
<1> HIDE DEF Good
<1>4. T \in Good
  BY <1>2, <1>3, ElementInduction
<1> QED BY <1>4 DEF Good

-----------------------------------------------------------------------------
(* What a step can do to the accounts: trade, let an order in, be done     *)
(* with it, or none of these.                                              *)

\* addOrder lets an order in, or the probe turns it away and it expires.
Arrives ==
    /\ pc = "idle" /\ Refs' = Refs \cup {incoming'} /\ incoming' \notin Refs
    /\ \A r \in Refs : orders'[r] = orders[r]
    /\ orders'[incoming'].quantity = orders'[incoming'].orderQty
    /\ orders'[incoming'].quantity \in Nat \ {0}
    /\ Resting' = Resting /\ trades' = trades
    /\ \/ Dealing' /\ reports' = reports
       \/ /\ pc' = "idle" /\ orders'[incoming'].tif = "FOK"
          /\ reports' = Append(reports, Report("EXPIRED", incoming', NA, NA, NA,
                                               orders'[incoming'].quantity))

\* The matching loops are done with the incoming order: it is filled, or what is left of
\* it expires or rests.
Finishes ==
    /\ pc = "rest" /\ ~ Dealing' /\ Refs' = Refs /\ incoming' = incoming
    /\ \A r \in Refs : orders'[r].quantity = orders[r].quantity
    /\ trades' = trades
    /\ LET order == orders[incoming]
       IN  \/ order.quantity = 0 /\ reports' = reports /\ Resting' = Resting
           \/ /\ order.quantity > 0 /\ order.tif # "GTC" /\ Resting' = Resting
              /\ reports' = Append(reports,
                     Report("EXPIRED", incoming, NA, NA, NA, order.quantity))
           \/ /\ order.quantity > 0 /\ order.tif = "GTC"
              /\ Resting' = Resting \cup {incoming}
              /\ reports' = Append(reports,
                     Report("ACCEPTED", incoming, NA, order.price, NA, order.quantity))

\* Everything else leaves quantities and trades alone, and reports no order.
Passes ==
    /\ Refs' = Refs /\ incoming' = incoming /\ (Dealing' <=> Dealing)
    /\ \A r \in Refs : orders'[r].quantity = orders[r].quantity
    /\ Resting' \subseteq Resting /\ trades' = trades
    /\ \/ reports' = reports
       \/ \E kind \in {"CANCELLED", "REJECTED"} : \E id :
             reports' = Append(reports, Answer(kind, id))

LedgerStep ==
    \/ \E a, h, n, price : Trade(a, h, n, price)
    \/ Arrives \/ Finishes \/ Passes

\* addOrder up to its first loop.
LEMMA AddOrderArrives ==
    ASSUME IInv, NEW t \in Tickets, AddOrder(t) \/ AddOrderKilled(t)
    PROVE  Arrives
<1>1. /\ Arrive(t) /\ UNCHANGED <<book, pegs, openOrders, trades>> /\ pc = "idle"
      /\ \/ Dealing' /\ reports' = reports
         \/ /\ pc' = "idle" /\ t.tif = "FOK"
            /\ reports' = Append(reports,
                   Report("EXPIRED", incoming + 1, NA, NA, NA, t.quantity))
  BY DEF AddOrder, AddOrderKilled, Call, Dealing
<1>2. /\ incoming' = incoming + 1 /\ incoming' \notin Refs /\ Refs' = Refs \cup {incoming'}
      /\ \A r \in Refs : orders'[r] = orders[r]
  BY <1>1, ArrivalGrowsHeap DEF IInv
<1>3. PICK ts \in Nat : orders'[incoming'] = NewOrder(t, ts)
  BY <1>1, ArrivalGrowsHeap DEF IInv
<1>4. /\ orders'[incoming'].quantity = t.quantity /\ orders'[incoming'].tif = t.tif
      /\ orders'[incoming'].orderQty = t.quantity /\ t.quantity \in Nat \ {0}
  BY <1>3, TicketsAssumption DEF NewOrder, TicketRecord, ConstructorAccepts
<1>5. Resting' = Resting
  BY <1>1, ArrivalKeepsBook
<1> QED BY <1>1, <1>2, <1>4, <1>5 DEF Arrives

\* The end of the running call's own order.
LEMMA RemainderFinishes ==
    ASSUME IInv, RestPeg \/ AddToBook \/ ExpireRemainder \/ NoRemainder
    PROVE  Finishes
<1> DEFINE order == orders[incoming]
<1>1. /\ pc = "rest" /\ pc' \in {"idle", "cross"} /\ trades' = trades
      /\ \/ orders' = orders
         \/ orders' = [orders EXCEPT ![incoming] = RefreshDisplay(order)]
         \/ orders' = [orders EXCEPT ![incoming] = Expire(order)]
  BY DEF RestPeg, AddToBook, ExpireRemainder, NoRemainder, AfterRest, Return, books
<1>2. incoming \in Refs /\ order \in OrderRecord /\ order.quantity \in Nat
  BY <1>1, IncomingOrder, OrderFields DEF Dealing
<1>3. /\ Refs' = Refs /\ incoming' = incoming
      /\ \A r \in Refs : orders'[r].quantity = orders[r].quantity
  <2>1. CASE orders' = orders
    BY <2>1 DEF Refs, incoming
  <2>2. ASSUME NEW o, o.quantity = order.quantity, o \in OrderRecord,
               orders' = [orders EXCEPT ![incoming] = o]
        PROVE  /\ Refs' = Refs /\ incoming' = incoming
               /\ \A r \in Refs : orders'[r].quantity = orders[r].quantity
    <3>1. /\ Refs' = Refs /\ incoming' = incoming /\ orders'[incoming] = o
          /\ \A r \in Refs \ {incoming} : orders'[r] = orders[r]
      BY <1>2, <2>2, HeapHoldsOrders, OneOrderChanges DEF IInv, Refs, incoming
    <3> QED BY <3>1, <2>2
  <2>3. /\ RefreshDisplay(order).quantity = order.quantity
        /\ RefreshDisplay(order) \in OrderRecord
    BY <1>2, RefreshOrder DEF RefreshDisplay, OrderRecord
  <2>4. Expire(order).quantity = order.quantity /\ Expire(order) \in OrderRecord
    BY <1>2 DEF Expire, OrderRecord, Statuses
  <2> HIDE DEF order
  <2> QED BY <1>1, <2>1, <2>2, <2>3, <2>4
<1>4. ~ Dealing'
  BY <1>1 DEF Dealing
<1>5. CASE RestPeg \/ AddToBook
  <2>1. /\ order.quantity > 0 /\ order.tif = "GTC"
        /\ reports' = Append(reports,
               Report("ACCEPTED", incoming, NA, order.price, NA, order.quantity))
    BY <1>5 DEF RestPeg, AddToBook
  <2>2. Resting' = Resting \cup {incoming}
    BY <1>5, RestPegRests, AddToBookRests DEF IncomingRests
  <2> QED BY <2>1, <2>2, <1>1, <1>3, <1>4 DEF Finishes
<1>6. CASE ExpireRemainder \/ NoRemainder
  <2>1. /\ UNCHANGED <<book, pegs>>
        /\ \/ order.quantity = 0 /\ reports' = reports
           \/ /\ order.quantity > 0 /\ order.tif # "GTC"
              /\ reports' = Append(reports,
                     Report("EXPIRED", incoming, NA, NA, NA, order.quantity))
    BY <1>6 DEF ExpireRemainder, NoRemainder, books
  <2>2. Resting' = Resting
    BY <2>1 DEF Resting, LitOrders, PegOrders
  <2> QED BY <2>1, <2>2, <1>1, <1>3, <1>4 DEF Finishes
<1> QED BY <1>5, <1>6

\* The ends of the loops, and a call to cancelOrder.
LEMMA CancelPasses ==
    ASSUME IInv, IndexInv, NEW id \in CancelIds, CancelOrder(id) \/ CancelOrderRefused(id)
    PROVE  Passes
<1>1. CASE CancelOrder(id)
  <2> DEFINE r == openOrders[id]
             o == Cancel(orders[r])
  <2>1. /\ orders' = [orders EXCEPT ![r] = o] /\ trades' = trades
        /\ reports' = Append(reports, Answer("CANCELLED", id)) /\ pc = "idle" /\ pc' = "idle"
    BY <1>1 DEF CancelOrder, Call
  <2>2. r \in Refs /\ Resting' = Resting \ {r}
    BY <1>1, CancelOrderLeaves DEF NamedOrderLeaves
  <2>3. o \in OrderRecord /\ o.quantity = orders[r].quantity
    BY <2>2, HeapHoldsOrders DEF IInv, Cancel, OrderRecord, Statuses
  <2> HIDE DEF r, o
  <2>4. /\ Refs' = Refs /\ incoming' = incoming /\ orders'[r] = o
        /\ \A x \in Refs \ {r} : orders'[x] = orders[x]
    BY <2>1, <2>2, <2>3, HeapHoldsOrders, OneOrderChanges DEF IInv, Refs, incoming
  <2> QED BY <2>1, <2>2, <2>3, <2>4 DEF Passes, Dealing
<1>2. CASE CancelOrderRefused(id)
  <2>1. /\ UNCHANGED <<orders, book, pegs, trades, pc>>
        /\ reports' = Append(reports, Answer("REJECTED", id))
    BY <1>2 DEF CancelOrderRefused
  <2>2. Resting' = Resting
    BY <2>1 DEF Resting, LitOrders, PegOrders
  <2> QED BY <2>1, <2>2 DEF Passes, Dealing, Refs, incoming
<1> QED BY <1>1, <1>2

\* Every step does one of the four.
LEMMA EveryStepIsALedgerStep == IInv /\ IndexInv /\ [Next]_vars => LedgerStep
<1> SUFFICES ASSUME IInv, IndexInv, [Next]_vars PROVE LedgerStep
  OBVIOUS
<1>1. ASSUME NEW t \in Tickets, AddOrder(t) \/ AddOrderKilled(t) PROVE LedgerStep
  BY <1>1, AddOrderArrives DEF LedgerStep
<1>2. ASSUME NEW id \in CancelIds, CancelOrder(id) \/ CancelOrderRefused(id)
      PROVE  LedgerStep
  BY <1>2, CancelPasses DEF LedgerStep
<1>3. CASE MatchPegPool \/ CrossPegPools \/ \E p \in Price : MatchLit(p)
  BY <1>3, MatchPegPoolTrades, CrossPegPoolsTrades, MatchLitTrades
     DEF MatchPegPoolTrade, CrossPegPoolsTrade, MatchLitTrade, LedgerStep
<1>4. CASE RestPeg \/ AddToBook \/ ExpireRemainder \/ NoRemainder
  BY <1>4, RemainderFinishes DEF LedgerStep
<1>5. CASE MatchPegPoolEnds \/ MatchLitEnds \/ CrossPegPoolsEnds \/ UNCHANGED vars
  <2>1. /\ UNCHANGED <<orders, book, pegs, trades, reports>> /\ (Dealing' <=> Dealing)
    BY <1>5 DEF MatchPegPoolEnds, MatchLitEnds, CrossPegPoolsEnds, Return, vars, books,
                Dealing
  <2>2. Resting' = Resting
    BY <2>1 DEF Resting, LitOrders, PegOrders
  <2> QED BY <2>1, <2>2 DEF LedgerStep, Passes, Refs, incoming
<1> QED BY <1>1, <1>2, <1>3, <1>4, <1>5 DEF Next, Continue, Exhausted

\* A sequence with one more element.
LEMMA OneMoreElement ==
    ASSUME NEW S, NEW s \in Seq(S), NEW e
    PROVE  /\ IsFiniteSet(DOMAIN s) /\ Len(s) + 1 \notin DOMAIN s
           /\ DOMAIN Append(s, e) = DOMAIN s \cup {Len(s) + 1}
           /\ \A i \in DOMAIN s : Append(s, e)[i] = s[i] /\ i < Len(s) + 1
           /\ Append(s, e)[Len(s) + 1] = e
           /\ \A T \in SUBSET (DOMAIN s) : IsFiniteSet(T)
<1>1. Len(s) \in Nat /\ DOMAIN s = 1 .. Len(s)
  OBVIOUS
<1>2. s \in Seq(S \cup {e}) /\ e \in S \cup {e}
  OBVIOUS
<1>3. /\ DOMAIN Append(s, e) = 1 .. Len(s) + 1
      /\ \A i \in 1 .. Len(s) : Append(s, e)[i] = s[i]
      /\ Append(s, e)[Len(s) + 1] = e
  BY <1>1, <1>2, AppendProperties
<1>4. IsFiniteSet(DOMAIN s)
  BY <1>1, FS_Interval
<1>5. \A T \in SUBSET (DOMAIN s) : IsFiniteSet(T)
  BY <1>4, FS_Subset
<1> QED BY <1>1, <1>3, <1>4, <1>5

-----------------------------------------------------------------------------
(* No quantity is lost or filled twice. *)

TradesOf(r) == {i \in DOMAIN trades : r \in {trades[i].buy, trades[i].sell}}

LEMMA ConservedIsASum ==
    QuantityConserved <=>
        \A r \in Refs : orders[r].orderQty
                          = orders[r].quantity + QuantityIn(trades, TradesOf(r))
  BY DEF QuantityConserved, TradesOf, QuantityIn, MapThenSumSet, MapThenFoldSet

LEMMA TradeQuantities ==
    ASSUME TypeOK
    PROVE  /\ \A i \in DOMAIN trades :
                 trades[i].quantity \in Nat /\ {trades[i].buy, trades[i].sell} \subseteq Refs
           /\ \A r : TradesOf(r) \subseteq DOMAIN trades /\ IsFiniteSet(TradesOf(r))
<1>1. trades \in Seq(TradeRecord)
  BY DEF TypeOK
<1>2. \A i \in DOMAIN trades : trades[i] \in TradeRecord
  BY <1>1
<1>3. IsFiniteSet(DOMAIN trades)
  BY <1>1, OneMoreElement
<1>4. \A r : TradesOf(r) \subseteq DOMAIN trades /\ IsFiniteSet(TradesOf(r))
  BY <1>3, FS_Subset DEF TradesOf
<1> QED BY <1>2, <1>4 DEF TradeRecord

\* A trade counts for both its orders and for no other.
LEMMA TradeConserves ==
    ASSUME IInv, QuantityConserved, NEW a, NEW h, NEW n, NEW price, Trade(a, h, n, price)
    PROVE  QuantityConserved'
<1> DEFINE k == Len(trades) + 1
<1>1. PICK e : /\ trades' = Append(trades, e) /\ {e.buy, e.sell} = {a, h} /\ e.quantity = n
  BY DEF Trade, Execute
<1>2. trades \in Seq(TradeRecord) /\ TypeOK
  BY DEF IInv, TypeOK
<1>3. /\ DOMAIN trades' = DOMAIN trades \cup {k} /\ k \notin DOMAIN trades
      /\ trades'[k] = e /\ \A i \in DOMAIN trades : trades'[i] = trades[i]
  BY <1>1, <1>2, OneMoreElement
<1>4. /\ a \in Refs /\ h \in Refs /\ Refs' = Refs /\ n \in Nat /\ a # h
      /\ \A r \in {a, h} : orders'[r].quantity = orders[r].quantity - n
      /\ \A r \in Refs \ {a, h} : orders'[r].quantity = orders[r].quantity
      /\ \A r \in Refs : orders'[r].orderQty = orders[r].orderQty
  BY DEF Trade, TermsStay, SameTerms
<1>5. \A r \in Refs : orders[r].quantity \in Nat
  BY <1>2, HeapHoldsOrders, OrderFields
<1>6. \A r \in Refs : orders[r].orderQty = orders[r].quantity + QuantityIn(trades, TradesOf(r))
  BY ConservedIsASum
<1>7. ASSUME NEW r \in Refs
      PROVE  orders'[r].orderQty = orders'[r].quantity + QuantityIn(trades', TradesOf(r)')
  <2> DEFINE T == TradesOf(r)
  <2>1. /\ T \subseteq DOMAIN trades /\ IsFiniteSet(T)
        /\ \A i \in T : trades[i].quantity \in Nat /\ trades[i].quantity \in Int
    BY <1>2, TradeQuantities
  <2>2. k \notin T /\ \A i \in T : trades'[i].quantity = trades[i].quantity
    BY <2>1, <1>3
  <2>3. TradesOf(r)' = IF r \in {a, h} THEN T \cup {k} ELSE T
    BY <1>1, <1>3 DEF TradesOf
  <2> HIDE DEF T, k
  <2>4. QuantityIn(trades', T) = QuantityIn(trades, T)
    BY <2>1, <2>2, QuantityInTheSame
  <2>5. QuantityIn(trades, T) \in Nat
    BY <2>1, QuantityInIsNatural
  <2>6. CASE r \in {a, h}
    <3>1. \A i \in T \cup {k} : trades'[i].quantity \in Int
      BY <2>1, <2>2, <1>1, <1>3, <1>4
    <3>2. QuantityIn(trades', T \cup {k}) = QuantityIn(trades', T) + n
      <4>1. IsFiniteSet(T) /\ k \notin T /\ trades'[k].quantity = n
        BY <2>1, <2>2, <1>1, <1>3
      <4> QED BY <3>1, <4>1, QuantityInOneMore
    <3>3. QuantityIn(trades', TradesOf(r)') = QuantityIn(trades, T) + n
      BY <2>3, <2>4, <2>6, <3>2
    <3>4. orders[r].orderQty = orders[r].quantity + QuantityIn(trades, T)
      BY <1>6 DEF T
    <3>5. orders'[r].orderQty = orders[r].orderQty
             /\ orders'[r].quantity = orders[r].quantity - n
      BY <1>4, <2>6
    <3>6. n \in Nat /\ orders[r].quantity \in Nat
      BY <1>4, <1>5
    <3> QED BY <3>3, <3>4, <3>5, <3>6, <2>5
  <2>7. CASE r \notin {a, h}
    <3>1. orders[r].orderQty = orders[r].quantity + QuantityIn(trades, T)
      BY <1>6 DEF T
    <3>2. orders'[r].orderQty = orders[r].orderQty
             /\ orders'[r].quantity = orders[r].quantity
      BY <1>4, <2>7
    <3> QED BY <3>1, <3>2, <2>3, <2>4, <2>7
  <2> QED BY <2>6, <2>7
<1>8. \A r \in Refs' :
         orders'[r].orderQty = orders'[r].quantity + QuantityIn(trades', TradesOf(r)')
  BY <1>4, <1>7
<1>9. QuantityConserved' <=>
        \A r \in Refs' :
           orders'[r].orderQty = orders'[r].quantity + QuantityIn(trades, TradesOf(r))'
  BY DEF QuantityConserved, TradesOf, QuantityIn, MapThenSumSet, MapThenFoldSet
<1>10. \A r : QuantityIn(trades, TradesOf(r))' = QuantityIn(trades', TradesOf(r)')
  OBVIOUS
<1> QED BY <1>8, <1>9, <1>10

\* Every other step leaves the trades alone; a new order is in none.
LEMMA OthersConserve ==
    ASSUME IInv, QuantityConserved, TermsStay, Arrives \/ Finishes \/ Passes
    PROVE  QuantityConserved'
<1>1. trades' = trades /\ \A r \in Refs : orders'[r].quantity = orders[r].quantity
  BY DEF Arrives, Finishes, Passes
<1>2. \A r \in Refs : orders[r].orderQty = orders[r].quantity + QuantityIn(trades, TradesOf(r))
  BY ConservedIsASum
<1>3. \A r \in Refs : orders'[r].orderQty = orders[r].orderQty
  BY DEF TermsStay, SameTerms
<1>4. \A r : TradesOf(r)' = TradesOf(r)
  BY <1>1 DEF TradesOf
<1>5. \A r \in Refs : orders'[r].orderQty = orders'[r].quantity + QuantityIn(trades, TradesOf(r))
  BY <1>1, <1>2, <1>3
<1>6. ASSUME NEW r \in Refs', r \notin Refs
      PROVE  orders'[r].orderQty = orders'[r].quantity + QuantityIn(trades, TradesOf(r))
  <2>1. /\ r = incoming' /\ orders'[r].quantity = orders'[r].orderQty
        /\ orders'[r].quantity \in Nat
    BY <1>6 DEF Arrives, Finishes, Passes
  <2>2. TradesOf(r) = {}
    BY <1>6, TradeQuantities DEF TradesOf, IInv
  <2>3. QuantityIn(trades, TradesOf(r)) = 0
    BY <2>2, QuantityInNothing
  <2> QED BY <2>1, <2>3
<1>7. \A r \in Refs' :
         orders'[r].orderQty = orders'[r].quantity + QuantityIn(trades', TradesOf(r)')
  BY <1>1, <1>4, <1>5, <1>6
<1>9. QuantityConserved' <=>
        \A r \in Refs' :
           orders'[r].orderQty = orders'[r].quantity + QuantityIn(trades, TradesOf(r))'
  BY DEF QuantityConserved, TradesOf, QuantityIn, MapThenSumSet, MapThenFoldSet
<1>10. \A r : QuantityIn(trades, TradesOf(r))' = QuantityIn(trades', TradesOf(r)')
  OBVIOUS
<1> QED BY <1>7, <1>9, <1>10

(***************************************************************************)
(* No order is filled twice or loses quantity, whichever of the three      *)
(* loops trades it: what it came with is what is left of it plus its share *)
(* of the trades list.                                                     *)
(***************************************************************************)
THEOREM NoQuantityIsLost == Spec => []QuantityConserved
<1>1. Init => QuantityConserved
  BY DEF Init, QuantityConserved, Refs
<1>2. IInv /\ IndexInv /\ QuantityConserved /\ [Next]_vars => QuantityConserved'
  <2> SUFFICES ASSUME IInv, IndexInv, QuantityConserved, [Next]_vars
               PROVE  QuantityConserved'
    OBVIOUS
  <2>1. LedgerStep /\ TermsStay
    BY EveryStepIsALedgerStep, NextSteps DEF StepsThroughQueues
  <2> QED BY <2>1, TradeConserves, OthersConserve DEF LedgerStep
<1> QED BY <1>1, <1>2, IInvHolds, IndexInvHolds, PTL DEF Spec

-----------------------------------------------------------------------------
(* Each order has one outcome, and it is reported once. *)

\* The reports that settle an order: it rests, it expires, or a fill that comes before any
\* acceptance leaves nothing of it.
LastFills(r) ==
    {i \in ReportsOf("FILL", r) : /\ reports[i].remaining = 0
                                  /\ \A j \in ReportsOf("ACCEPTED", r) : i < j}
Outcomes(r)  == ReportsOf("ACCEPTED", r) \cup ReportsOf("EXPIRED", r) \cup LastFills(r)
Concluded(r) == \E i : Outcomes(r) = {i}

\* What makes OneOutcomePerOrder inductive: the order of the running call has an outcome
\* as soon as nothing of it is left and no sooner, and what rests has been accepted, as
\* only a GTC order is.
StoryInv ==
    /\ \A r \in Settled : Concluded(r)
    /\ Dealing => /\ ReportsOf("ACCEPTED", incoming) = {}
                  /\ orders[incoming].quantity = 0 => Concluded(incoming)
                  /\ orders[incoming].quantity > 0 => Outcomes(incoming) = {}
    /\ \A r \in Resting : ReportsOf("ACCEPTED", r) # {}
    /\ \A r \in Refs : ReportsOf("ACCEPTED", r) # {} => orders[r].tif = "GTC"
    /\ \A i \in DOMAIN reports : reports[i].kind = "FILL" =>
          reports[i].quantity \in Nat

\* Is this report, the next one, one that settles r?
Concludes(e, r) ==
    \/ e.kind \in {"ACCEPTED", "EXPIRED"} /\ e.order = r
    \/ /\ e.kind = "FILL" /\ e.order = r /\ e.remaining = 0
       /\ ReportsOf("ACCEPTED", r) = {}

ReportKinds == {"FILL", "ACCEPTED", "EXPIRED", "CANCELLED", "REJECTED"}

\* One more report.
LEMMA ReportAdded ==
    ASSUME TypeOK, NEW e, e.kind \in ReportKinds, reports' = Append(reports, e), NEW r
    PROVE  LET k == Len(reports) + 1
           IN  /\ k \notin DOMAIN reports /\ DOMAIN reports' = DOMAIN reports \cup {k}
               /\ \A i \in DOMAIN reports : reports'[i] = reports[i] /\ i < k
               /\ reports'[k] = e
               /\ \A kind : ReportsOf(kind, r)' =
                     IF e.kind = kind /\ e.order = r THEN ReportsOf(kind, r) \cup {k}
                                                     ELSE ReportsOf(kind, r)
               /\ Outcomes(r)' = IF Concludes(e, r) THEN Outcomes(r) \cup {k} ELSE Outcomes(r)
<1> DEFINE k == Len(reports) + 1
<1>1. PICK S : reports \in Seq(S)
  BY DEF TypeOK
<1>2. /\ k \notin DOMAIN reports /\ DOMAIN reports' = DOMAIN reports \cup {k}
      /\ \A i \in DOMAIN reports : reports'[i] = reports[i] /\ i < k
      /\ reports'[k] = e
  BY <1>1, OneMoreElement
<1>3. DOMAIN reports \subseteq Nat /\ k \in Nat
  BY <1>1
<1> HIDE DEF k
<1>4. \A kind : ReportsOf(kind, r)' =
         IF e.kind = kind /\ e.order = r THEN ReportsOf(kind, r) \cup {k}
                                         ELSE ReportsOf(kind, r)
  <2> SUFFICES ASSUME NEW kind
               PROVE  ReportsOf(kind, r)' =
                         IF e.kind = kind /\ e.order = r THEN ReportsOf(kind, r) \cup {k}
                                                         ELSE ReportsOf(kind, r)
    OBVIOUS
  <2>1. ReportsOf(kind, r)' =
           {i \in DOMAIN reports' : reports'[i].kind = kind /\ reports'[i].order = r}
    BY DEF ReportsOf
  <2>2. CASE e.kind = kind /\ e.order = r
    BY <2>1, <2>2, <1>2 DEF ReportsOf
  <2>3. CASE ~ (e.kind = kind /\ e.order = r)
    BY <2>1, <2>3, <1>2 DEF ReportsOf
  <2> QED BY <2>2, <2>3
<1>5. \A kind : ReportsOf(kind, r) \subseteq DOMAIN reports
  BY DEF ReportsOf
<1>6. LastFills(r)' = IF /\ e.kind = "FILL" /\ e.order = r /\ e.remaining = 0
                         /\ ReportsOf("ACCEPTED", r) = {}
                      THEN LastFills(r) \cup {k} ELSE LastFills(r)
  <2>1. LastFills(r)' = {i \in ReportsOf("FILL", r)' :
                            /\ reports'[i].remaining = 0
                            /\ \A j \in ReportsOf("ACCEPTED", r)' : i < j}
    BY DEF LastFills
  <2>2. CASE e.kind = "FILL" /\ e.order = r
    <3>1. /\ ReportsOf("FILL", r)' = ReportsOf("FILL", r) \cup {k}
          /\ ReportsOf("ACCEPTED", r)' = ReportsOf("ACCEPTED", r)
      BY <1>4, <2>2
    <3>2. \A j \in ReportsOf("ACCEPTED", r) : ~ (k < j)
      BY <1>2, <1>3, <1>5
    <3> QED BY <3>1, <3>2, <2>1, <2>2, <1>2, <1>5 DEF LastFills
  <2>3. CASE ~ (e.kind = "FILL" /\ e.order = r)
    <3>1. ReportsOf("FILL", r)' = ReportsOf("FILL", r)
      BY <1>4, <2>3
    <3>2. \A i \in ReportsOf("FILL", r) :
             reports'[i] = reports[i] /\ i < k
      BY <1>2, <1>5
    <3>3. \/ ReportsOf("ACCEPTED", r)' = ReportsOf("ACCEPTED", r)
          \/ ReportsOf("ACCEPTED", r)' = ReportsOf("ACCEPTED", r) \cup {k}
      BY <1>4
    <3> QED BY <3>1, <3>2, <3>3, <2>1, <2>3 DEF LastFills
  <2> QED BY <2>2, <2>3
<1>7. Outcomes(r)' = IF Concludes(e, r) THEN Outcomes(r) \cup {k} ELSE Outcomes(r)
  <2>1. Outcomes(r)' = ReportsOf("ACCEPTED", r)' \cup ReportsOf("EXPIRED", r)'
                          \cup LastFills(r)'
    BY DEF Outcomes
  <2>2. CASE Concludes(e, r)
    BY <2>1, <2>2, <1>4, <1>6 DEF Concludes, Outcomes
  <2>3. CASE ~ Concludes(e, r)
    BY <2>1, <2>3, <1>4, <1>6 DEF Concludes, Outcomes
  <2> QED BY <2>2, <2>3
<1> QED BY <1>2, <1>4, <1>7 DEF k

\* No report, or one that is not about any order.
LEMMA NothingReported ==
    ASSUME TypeOK,
           \/ reports' = reports
           \/ \E kind \in {"CANCELLED", "REJECTED"} : \E id :
                 reports' = Append(reports, Answer(kind, id))
    PROVE  /\ \A r : /\ ReportsOf("ACCEPTED", r)' = ReportsOf("ACCEPTED", r)
                     /\ Outcomes(r)' = Outcomes(r)
           /\ \A i \in DOMAIN reports' : reports'[i].kind = "FILL" =>
                 i \in DOMAIN reports /\ reports'[i] = reports[i]
<1>1. CASE reports' = reports
  BY <1>1 DEF ReportsOf, Outcomes, LastFills
<1>2. ASSUME NEW kind \in {"CANCELLED", "REJECTED"}, NEW id,
             reports' = Append(reports, Answer(kind, id))
      PROVE  /\ \A r : /\ ReportsOf("ACCEPTED", r)' = ReportsOf("ACCEPTED", r)
                       /\ Outcomes(r)' = Outcomes(r)
             /\ \A i \in DOMAIN reports' : reports'[i].kind = "FILL" =>
                   i \in DOMAIN reports /\ reports'[i] = reports[i]
  <2> DEFINE e == Answer(kind, id)
  <2>1. e.kind \in ReportKinds /\ e.kind \notin {"FILL", "ACCEPTED", "EXPIRED"}
    BY DEF Answer, ReportKinds
  <2>2. reports' = Append(reports, e)
    BY <1>2
  <2> HIDE DEF e
  <2>3. \A r : ~ Concludes(e, r)
    BY <2>1 DEF Concludes
  <2>4. ASSUME NEW r
        PROVE  /\ ReportsOf("ACCEPTED", r)' = ReportsOf("ACCEPTED", r)
               /\ Outcomes(r)' = Outcomes(r)
    BY <2>1, <2>2, <2>3, ReportAdded
  <2>5. \A i \in DOMAIN reports' : reports'[i].kind = "FILL" =>
           i \in DOMAIN reports /\ reports'[i] = reports[i]
    <3>1. /\ DOMAIN reports' = DOMAIN reports \cup {Len(reports) + 1}
          /\ \A i \in DOMAIN reports : reports'[i] = reports[i]
          /\ reports'[Len(reports) + 1] = e
      BY <2>1, <2>2, ReportAdded
    <3> QED BY <3>1, <2>1
  <2> QED BY <2>4, <2>5
<1> QED BY <1>1, <1>2

\* Nothing is reported of an order that has not arrived.
LEMMA StrangersAreNotReported ==
    ASSUME TypeOK, NEW r, r \notin Refs
    PROVE  Outcomes(r) = {} /\ ReportsOf("ACCEPTED", r) = {}
<1>1. \A i \in DOMAIN reports : reports[i] \in ReportRecord \cup AnswerRecord
  BY DEF TypeOK
<1>2. \A i \in DOMAIN reports : reports[i].kind \in {"FILL", "ACCEPTED", "EXPIRED"} =>
         reports[i].order \in Refs
  BY <1>1 DEF ReportRecord, AnswerRecord
<1>3. \A kind \in {"FILL", "ACCEPTED", "EXPIRED"} : ReportsOf(kind, r) = {}
  BY <1>2 DEF ReportsOf
<1> QED BY <1>3 DEF Outcomes, LastFills

\* A fill settles the incoming order if it leaves nothing of it, and never a resting one.
LEMMA TradeKeepsStory ==
    ASSUME IInv, StoryInv, NEW a, NEW h, NEW n, NEW price, Trade(a, h, n, price)
    PROVE  StoryInv'
<1> DEFINE k == Len(reports) + 1
           e == Report("FILL", a, h, price, n, orders[a].quantity - n)
<1>1. /\ reports' = Append(reports, e) /\ TypeOK
      /\ e.kind = "FILL" /\ e.order = a /\ e.remaining = orders[a].quantity - n
      /\ e.quantity = n /\ e.kind \in ReportKinds
  BY DEF Trade, Execute, IInv, Report, ReportKinds
<1>2. /\ a \in Refs /\ h \in Refs /\ n \in 1 .. orders[a].quantity /\ a # h
      /\ Refs' = Refs /\ incoming' = incoming /\ (Dealing' <=> Dealing) /\ Settled' = Settled
      /\ \A r \in Refs : orders'[r].tif = orders[r].tif
      /\ a \in Resting \/ (Dealing /\ a = incoming)
      /\ \A r \in {a, h} : orders'[r].quantity = orders[r].quantity - n
      /\ \A r \in Refs \ {a, h} : orders'[r].quantity = orders[r].quantity
      /\ h \in Resting
    BY DEF Trade, TermsStay, SameTerms, Dealing, Settled
<1>3. Resting' \subseteq Resting /\ (Dealing => incoming \notin Resting)
  BY TradeLeavesResting, IncomingOrder
<1>4. orders[a].quantity \in Nat /\ n \in Nat \ {0}
  BY <1>1, <1>2, HeapHoldsOrders, OrderFields
<1>5. \A r : /\ ReportsOf("ACCEPTED", r)' = ReportsOf("ACCEPTED", r)
             /\ Outcomes(r)' = IF Concludes(e, r) THEN Outcomes(r) \cup {k} ELSE Outcomes(r)
  <2> HIDE DEF e
  <2> QED BY <1>1, ReportAdded
<1>6. \A i \in DOMAIN reports' : reports'[i].kind = "FILL" => reports'[i].quantity \in Nat
  <2>1. /\ DOMAIN reports' = DOMAIN reports \cup {k} /\ reports'[k] = e
        /\ \A i \in DOMAIN reports : reports'[i] = reports[i]
    <3> HIDE DEF e
    <3> QED BY <1>1, ReportAdded
  <2> QED BY <2>1, <1>1, <1>4 DEF StoryInv
<1> HIDE DEF e, k
<1>7. \A r : Concludes(e, r) => /\ r = a /\ ReportsOf("ACCEPTED", a) = {}
                                /\ orders[a].quantity = n
  BY <1>1, <1>4 DEF Concludes
<1>8. \A r : Concludes(e, r) => Dealing /\ r = incoming /\ a = incoming
  BY <1>2, <1>7 DEF StoryInv
<1>9. \A r \in Settled' : Concluded(r)'
  <2>1. \A r \in Settled : ~ Concludes(e, r)
    BY <1>8 DEF Settled, Dealing
  <2> QED BY <1>2, <1>5, <2>1 DEF StoryInv, Concluded
<1>10. ASSUME Dealing'
       PROVE  /\ ReportsOf("ACCEPTED", incoming)' = {}
              /\ orders'[incoming'].quantity = 0 => Concluded(incoming)'
              /\ orders'[incoming'].quantity > 0 => Outcomes(incoming)' = {}
  <2>1. /\ ReportsOf("ACCEPTED", incoming) = {} /\ incoming # h /\ incoming \in Refs
        /\ orders[incoming].quantity = 0 => Concluded(incoming)
        /\ orders[incoming].quantity > 0 => Outcomes(incoming) = {}
    BY <1>10, <1>2, <1>3, IncomingOrder DEF StoryInv
  <2>2. ReportsOf("ACCEPTED", incoming)' = ReportsOf("ACCEPTED", incoming)
    BY <1>2, <1>5 DEF ReportsOf
  <2>3. Outcomes(incoming)' = IF Concludes(e, incoming) THEN Outcomes(incoming) \cup {k}
                                                       ELSE Outcomes(incoming)
    BY <1>2, <1>5 DEF Outcomes, ReportsOf, LastFills
  <2>4. CASE a = incoming
    <3>1. Concludes(e, incoming) <=> orders[a].quantity = n
      BY <2>4, <2>1, <1>1, <1>4 DEF Concludes
    <3>2. Outcomes(incoming) = {}
      BY <2>1, <2>4, <1>2, <1>4
    <3>3. orders'[incoming'].quantity = orders[a].quantity - n
      BY <2>4, <1>2
    <3> QED BY <2>1, <2>2, <2>3, <3>1, <3>2, <3>3, <1>4 DEF Concluded
  <2>5. CASE a # incoming
    <3>1. ~ Concludes(e, incoming)
      BY <2>5, <1>7
    <3>2. orders'[incoming'].quantity = orders[incoming].quantity
      BY <2>1, <2>5, <1>2
    <3> QED BY <2>1, <2>2, <2>3, <3>1, <3>2 DEF Concluded
  <2> QED BY <2>4, <2>5
<1>11. \A r \in Resting' : ReportsOf("ACCEPTED", r)' # {}
  BY <1>3, <1>5 DEF StoryInv
<1>12. \A r \in Refs' : ReportsOf("ACCEPTED", r)' # {} => orders'[r].tif = "GTC"
  BY <1>2, <1>5 DEF StoryInv
<1> QED BY <1>6, <1>9, <1>10, <1>11, <1>12 DEF StoryInv

\* A new order has no outcome yet, or it expired at once.
LEMMA ArrivalKeepsStory ==
    ASSUME IInv, StoryInv, TermsStay, Arrives
    PROVE  StoryInv'
<1>1. /\ pc = "idle" /\ TypeOK /\ Resting' = Resting
      /\ Refs' = Refs \cup {incoming'} /\ incoming' \notin Refs
      /\ \A r \in Refs : orders'[r].tif = orders[r].tif
      /\ orders'[incoming'].quantity \in Nat \ {0}
  BY DEF Arrives, IInv, TermsStay, SameTerms
<1>2. ~ Dealing /\ Settled = Refs
  BY <1>1 DEF Dealing, Settled
<1>3. Outcomes(incoming') = {} /\ ReportsOf("ACCEPTED", incoming') = {}
  BY <1>1, StrangersAreNotReported
<1>4. CASE Dealing' /\ reports' = reports
  <2>1. Settled' = Refs
    BY <1>1, <1>4 DEF Settled, Dealing
  <2>2. \A r : /\ ReportsOf("ACCEPTED", r)' = ReportsOf("ACCEPTED", r)
               /\ Outcomes(r)' = Outcomes(r)
    BY <1>1, <1>4, NothingReported
  <2>3. \A r \in Settled' : Concluded(r)'
    BY <1>2, <2>1, <2>2 DEF StoryInv, Concluded
  <2>4. /\ ReportsOf("ACCEPTED", incoming)' = {} /\ Outcomes(incoming)' = {}
        /\ orders'[incoming'].quantity # 0
    BY <1>1, <1>3, <1>4 DEF ReportsOf, Outcomes, LastFills
  <2>5. \A r \in Resting' : ReportsOf("ACCEPTED", r)' # {}
    BY <1>1, <2>2 DEF StoryInv
  <2>6. \A r \in Refs' : ReportsOf("ACCEPTED", r)' # {} => orders'[r].tif = "GTC"
    BY <1>1, <1>3, <2>2 DEF StoryInv
  <2>7. \A i \in DOMAIN reports' : reports'[i].kind = "FILL" => reports'[i].quantity \in Nat
    BY <1>4 DEF StoryInv
  <2> QED BY <2>3, <2>4, <2>5, <2>6, <2>7 DEF StoryInv
<1>5. CASE ~ (Dealing' /\ reports' = reports)
  <2> DEFINE e == Report("EXPIRED", incoming', NA, NA, NA, orders'[incoming'].quantity)
             k == Len(reports) + 1
  <2>1. /\ pc' = "idle" /\ reports' = Append(reports, e)
        /\ e.kind = "EXPIRED" /\ e.order = incoming' /\ e.kind \in ReportKinds
    BY <1>5 DEF Arrives, Report, ReportKinds
  <2> HIDE DEF e
  <2>2. \A r : /\ ReportsOf("ACCEPTED", r)' = ReportsOf("ACCEPTED", r)
               /\ Outcomes(r)' = IF Concludes(e, r) THEN Outcomes(r) \cup {k} ELSE Outcomes(r)
    BY <1>1, <2>1, ReportAdded
  <2>3. \A r : Concludes(e, r) <=> r = incoming'
    BY <2>1 DEF Concludes
  <2>4. \A i \in DOMAIN reports' : reports'[i].kind = "FILL" => reports'[i].quantity \in Nat
    <3>1. /\ DOMAIN reports' = DOMAIN reports \cup {k} /\ reports'[k] = e
          /\ \A i \in DOMAIN reports : reports'[i] = reports[i]
      BY <1>1, <2>1, ReportAdded
    <3> QED BY <3>1, <2>1 DEF StoryInv
  <2> HIDE DEF k
  <2>5. ~ Dealing' /\ Settled' = Refs \cup {incoming'}
    BY <1>1, <2>1 DEF Settled, Dealing
  <2>6. \A r \in Settled' : Concluded(r)'
    <3>1. \A r \in Refs : Concluded(r)'
      BY <1>1, <1>2, <2>2, <2>3 DEF StoryInv, Concluded
    <3>2. ASSUME NEW r, r = incoming' PROVE Concluded(r)'
      BY <1>3, <2>2, <2>3, <3>2 DEF Concluded
    <3> QED BY <2>5, <3>1, <3>2
  <2>7. \A r \in Resting' : ReportsOf("ACCEPTED", r)' # {}
    BY <1>1, <2>2 DEF StoryInv
  <2>8. \A r \in Refs' : ReportsOf("ACCEPTED", r)' # {} => orders'[r].tif = "GTC"
    BY <1>1, <1>3, <2>2 DEF StoryInv
  <2> QED BY <2>4, <2>5, <2>6, <2>7, <2>8 DEF StoryInv
<1> QED BY <1>4, <1>5

\* The remainder of the incoming order, if there is one, gets its outcome: it had none.
LEMMA FinishKeepsStory ==
    ASSUME IInv, StoryInv, TermsStay, Finishes
    PROVE  StoryInv'
<1> DEFINE order == orders[incoming]
           k == Len(reports) + 1
<1>1. /\ pc = "rest" /\ ~ Dealing' /\ Refs' = Refs /\ TypeOK /\ Dealing
      /\ \A r \in Refs : orders'[r].tif = orders[r].tif
  BY DEF Finishes, Dealing, IInv, TermsStay, SameTerms
<1>2. Settled' = Refs /\ Settled = Refs \ {incoming} /\ incoming \in Refs
  BY <1>1, IncomingOrder DEF Settled, Dealing
<1>3. CASE order.quantity = 0 /\ reports' = reports /\ Resting' = Resting
  <2>1. \A r : /\ ReportsOf("ACCEPTED", r)' = ReportsOf("ACCEPTED", r)
               /\ Outcomes(r)' = Outcomes(r)
    BY <1>1, <1>3, NothingReported
  <2>2. \A r \in Settled' : Concluded(r)'
    BY <1>1, <1>2, <1>3, <2>1 DEF StoryInv, Concluded
  <2> QED BY <1>1, <1>3, <2>1, <2>2 DEF StoryInv
<1>4. ASSUME NEW e, reports' = Append(reports, e), e.order = incoming, order.quantity > 0,
             \/ e.kind = "EXPIRED" /\ Resting' = Resting
             \/ /\ e.kind = "ACCEPTED" /\ order.tif = "GTC"
                /\ Resting' = Resting \cup {incoming}
      PROVE  StoryInv'
  <2>1. e.kind \in ReportKinds /\ e.kind \in {"ACCEPTED", "EXPIRED"}
    BY <1>4 DEF ReportKinds
  <2>2. \A r : /\ ReportsOf("ACCEPTED", r)' =
                     IF e.kind = "ACCEPTED" /\ r = incoming
                     THEN ReportsOf("ACCEPTED", r) \cup {k} ELSE ReportsOf("ACCEPTED", r)
               /\ Outcomes(r)' = IF Concludes(e, r) THEN Outcomes(r) \cup {k} ELSE Outcomes(r)
    <3>1. \A r : /\ \A kind : ReportsOf(kind, r)' =
                        IF e.kind = kind /\ e.order = r THEN ReportsOf(kind, r) \cup {k}
                                                        ELSE ReportsOf(kind, r)
                 /\ Outcomes(r)' = IF Concludes(e, r) THEN Outcomes(r) \cup {k}
                                                      ELSE Outcomes(r)
      BY <1>1, <1>4, <2>1, ReportAdded
    <3> HIDE DEF k
    <3> QED BY <1>4, <3>1
  <2>3. \A r : Concludes(e, r) <=> r = incoming
    BY <1>4, <2>1 DEF Concludes
  <2>4. \A i \in DOMAIN reports' : reports'[i].kind = "FILL" => reports'[i].quantity \in Nat
    <3>1. /\ DOMAIN reports' = DOMAIN reports \cup {k} /\ reports'[k] = e
          /\ \A i \in DOMAIN reports : reports'[i] = reports[i]
      BY <1>1, <1>4, <2>1, ReportAdded
    <3> QED BY <3>1, <2>1 DEF StoryInv
  <2> HIDE DEF k
  <2>5. Outcomes(incoming) = {}
    BY <1>1, <1>4 DEF StoryInv
  <2>6. \A r \in Settled' : Concluded(r)'
    BY <1>2, <2>2, <2>3, <2>5 DEF StoryInv, Concluded
  <2>7. \A r \in Resting' : ReportsOf("ACCEPTED", r)' # {}
    BY <1>4, <2>2 DEF StoryInv
  <2>8. \A r \in Refs' : ReportsOf("ACCEPTED", r)' # {} => orders'[r].tif = "GTC"
    BY <1>1, <1>4, <2>2 DEF StoryInv
  <2> QED BY <1>1, <2>4, <2>6, <2>7, <2>8 DEF StoryInv
<1>5. CASE /\ order.quantity > 0 /\ Resting' = Resting
           /\ reports' = Append(reports,
                  Report("EXPIRED", incoming, NA, NA, NA, order.quantity))
  <2>1. /\ Report("EXPIRED", incoming, NA, NA, NA, order.quantity).order = incoming
        /\ Report("EXPIRED", incoming, NA, NA, NA, order.quantity).kind = "EXPIRED"
    BY DEF Report
  <2> QED BY <1>4, <1>5, <2>1
<1>6. CASE /\ order.quantity > 0 /\ order.tif = "GTC" /\ Resting' = Resting \cup {incoming}
           /\ reports' = Append(reports,
                  Report("ACCEPTED", incoming, NA, order.price, NA, order.quantity))
  <2>1. /\ Report("ACCEPTED", incoming, NA, order.price, NA, order.quantity).order = incoming
        /\ Report("ACCEPTED", incoming, NA, order.price, NA, order.quantity).kind
             = "ACCEPTED"
    BY DEF Report
  <2> QED BY <1>4, <1>6, <2>1
<1> QED BY <1>3, <1>5, <1>6 DEF Finishes

\* Nothing else is about an order.
LEMMA PassingKeepsStory ==
    ASSUME IInv, StoryInv, TermsStay, Passes
    PROVE  StoryInv'
<1>1. /\ Refs' = Refs /\ incoming' = incoming /\ (Dealing' <=> Dealing) /\ TypeOK
      /\ Settled' = Settled /\ Resting' \subseteq Resting
      /\ \A r \in Refs : orders'[r].tif = orders[r].tif
      /\ \A r \in Refs : orders'[r].quantity = orders[r].quantity
  BY DEF Passes, IInv, TermsStay, SameTerms, Settled, Dealing
<1>2. /\ \A r : /\ ReportsOf("ACCEPTED", r)' = ReportsOf("ACCEPTED", r)
                /\ Outcomes(r)' = Outcomes(r)
      /\ \A i \in DOMAIN reports' : reports'[i].kind = "FILL" =>
            i \in DOMAIN reports /\ reports'[i] = reports[i]
  BY <1>1, NothingReported DEF Passes
<1>3. Dealing => incoming \in Refs
  BY IncomingOrder
<1>4. \A r \in Settled' : Concluded(r)'
  BY <1>1, <1>2 DEF StoryInv, Concluded
<1>5. ASSUME Dealing'
      PROVE  /\ ReportsOf("ACCEPTED", incoming)' = {}
             /\ orders'[incoming'].quantity = 0 => Concluded(incoming)'
             /\ orders'[incoming'].quantity > 0 => Outcomes(incoming)' = {}
  <2>1. /\ ReportsOf("ACCEPTED", incoming)' = ReportsOf("ACCEPTED", incoming)
        /\ Outcomes(incoming)' = Outcomes(incoming)
    BY <1>1, <1>2 DEF ReportsOf, Outcomes, LastFills
  <2>2. /\ ReportsOf("ACCEPTED", incoming) = {}
        /\ orders[incoming].quantity = 0 => Concluded(incoming)
        /\ orders[incoming].quantity > 0 => Outcomes(incoming) = {}
        /\ orders'[incoming'].quantity = orders[incoming].quantity
    BY <1>1, <1>3, <1>5 DEF StoryInv
  <2> QED BY <2>1, <2>2 DEF Concluded
<1>6. \A r \in Resting' : ReportsOf("ACCEPTED", r)' # {}
  BY <1>1, <1>2 DEF StoryInv
<1>7. \A r \in Refs' : ReportsOf("ACCEPTED", r)' # {} => orders'[r].tif = "GTC"
  BY <1>1, <1>2 DEF StoryInv
<1>8. \A i \in DOMAIN reports' : reports'[i].kind = "FILL" => reports'[i].quantity \in Nat
  BY <1>2 DEF StoryInv
<1> QED BY <1>4, <1>5, <1>6, <1>7, <1>8 DEF StoryInv

LEMMA NextKeepsStory == IInv /\ IndexInv /\ StoryInv /\ [Next]_vars => StoryInv'
<1> SUFFICES ASSUME IInv, IndexInv, StoryInv, [Next]_vars PROVE StoryInv'
  OBVIOUS
<1>1. LedgerStep /\ TermsStay
  BY EveryStepIsALedgerStep, NextSteps DEF StepsThroughQueues
<1> QED BY <1>1, TradeKeepsStory, ArrivalKeepsStory, FinishKeepsStory, PassingKeepsStory
     DEF LedgerStep

LEMMA StoryInvHolds == Spec => []StoryInv
<1>1. Init => StoryInv
  BY DEF Init, StoryInv, Settled, Refs, Dealing, Resting, LitOrders, PegOrders, Range
<1> QED BY <1>1, NextKeepsStory, IInvHolds, IndexInvHolds, PTL DEF Spec

LEMMA StoryHasOneOutcome == TypeOK /\ StoryInv => OneOutcomePerOrder
<1> SUFFICES ASSUME TypeOK, StoryInv, NEW r \in Settled
             PROVE  LET accepted == ReportsOf("ACCEPTED", r)
                        expired  == ReportsOf("EXPIRED", r)
                        filled   == {i \in ReportsOf("FILL", r) :
                                        /\ reports[i].remaining = 0
                                        /\ \A j \in accepted : i < j}
                    IN  /\ Cardinality(accepted \cup expired \cup filled) = 1
                        /\ orders[r].tif # "GTC" => accepted = {}
  BY DEF OneOutcomePerOrder
<1>1. PICK i : Outcomes(r) = {i}
  BY DEF StoryInv, Concluded
<1>2. Cardinality(Outcomes(r)) = 1
  BY <1>1, FS_Singleton
<1>3. orders[r].tif # "GTC" => ReportsOf("ACCEPTED", r) = {}
  BY DEF StoryInv, Settled
<1> QED BY <1>2, <1>3 DEF Outcomes, LastFills

-----------------------------------------------------------------------------
(* The reports alone say what is left of a resting order. *)

\* The fills after report a that name r, as aggressor or passive.
LaterFills(r, a) ==
    {i \in DOMAIN reports : /\ i > a /\ reports[i].kind = "FILL"
                            /\ r \in {reports[i].order, reports[i].passive}}

WhatIsLeft(r, a) ==
    orders[r].quantity = reports[a].remaining - QuantityIn(reports, LaterFills(r, a))

LEMMA WhatIsLeftIsASum ==
    ReportsTellWhatIsLeft <=>
        \A r \in Refs : \A a \in ReportsOf("ACCEPTED", r) : WhatIsLeft(r, a)
  BY DEF ReportsTellWhatIsLeft, WhatIsLeft, LaterFills, QuantityIn, MapThenSumSet,
         MapThenFoldSet

LEMMA WhatIsLeftIsASumThen ==
    ReportsTellWhatIsLeft' <=>
        \A r \in Refs' : \A a \in ReportsOf("ACCEPTED", r)' : WhatIsLeft(r, a)'
  BY DEF ReportsTellWhatIsLeft, WhatIsLeft, LaterFills, QuantityIn, MapThenSumSet,
         MapThenFoldSet

\* The fills of an order and what they add up to.
LEMMA FillQuantities ==
    ASSUME TypeOK, StoryInv, NEW r, NEW a \in ReportsOf("ACCEPTED", r)
    PROVE  /\ LaterFills(r, a) \subseteq DOMAIN reports /\ IsFiniteSet(LaterFills(r, a))
           /\ \A i \in LaterFills(r, a) : reports[i].quantity \in Nat
           /\ QuantityIn(reports, LaterFills(r, a)) \in Nat
           /\ a \in DOMAIN reports /\ reports[a].remaining \in Nat
<1>1. IsFiniteSet(LaterFills(r, a)) /\ LaterFills(r, a) \subseteq DOMAIN reports
  <2>1. PICK S : reports \in Seq(S)
    BY DEF TypeOK
  <2>2. \A T \in SUBSET (DOMAIN reports) : IsFiniteSet(T)
    BY <2>1, OneMoreElement
  <2> QED BY <2>2 DEF LaterFills
<1>2. \A i \in LaterFills(r, a) : reports[i].quantity \in Nat
  BY DEF StoryInv, LaterFills
<1>3. QuantityIn(reports, LaterFills(r, a)) \in Nat
  BY <1>1, <1>2, QuantityInIsNatural
<1>4. a \in DOMAIN reports /\ reports[a].remaining \in Nat
  <2>1. \A i \in DOMAIN reports : reports[i] \in ReportRecord \cup AnswerRecord
    BY DEF TypeOK
  <2> QED BY <2>1 DEF ReportsOf, ReportRecord, AnswerRecord
<1> QED BY <1>1, <1>2, <1>3, <1>4

\* A fill counts for the two orders it names, and those are the ones it fills.
LEMMA FillTellsWhatIsLeft ==
    ASSUME IInv, StoryInv, ReportsTellWhatIsLeft,
           NEW a, NEW h, NEW n, NEW price, Trade(a, h, n, price)
    PROVE  ReportsTellWhatIsLeft'
<1> DEFINE k == Len(reports) + 1
           e == Report("FILL", a, h, price, n, orders[a].quantity - n)
<1>1. /\ reports' = Append(reports, e) /\ TypeOK
      /\ e.kind = "FILL" /\ e.order = a /\ e.passive = h /\ e.quantity = n
      /\ e.kind \in ReportKinds
  BY DEF Trade, Execute, IInv, Report, ReportKinds
<1> HIDE DEF e
<1>2. /\ DOMAIN reports' = DOMAIN reports \cup {k} /\ reports'[k] = e /\ k \notin DOMAIN reports
      /\ \A i \in DOMAIN reports : reports'[i] = reports[i] /\ i < k
      /\ \A r : ReportsOf("ACCEPTED", r)' = ReportsOf("ACCEPTED", r)
  BY <1>1, ReportAdded
<1> HIDE DEF k
<1>3. /\ Refs' = Refs /\ n \in Nat
      /\ \A r \in Refs \cap {a, h} : orders'[r].quantity = orders[r].quantity - n
      /\ \A r \in Refs \ {a, h} : orders'[r].quantity = orders[r].quantity
  BY DEF Trade
<1>4. \A r \in Refs : orders[r].quantity \in Nat
  BY <1>1, HeapHoldsOrders, OrderFields
<1>5. ASSUME NEW r \in Refs, NEW c \in ReportsOf("ACCEPTED", r)
      PROVE  WhatIsLeft(r, c)'
  <2> DEFINE T == LaterFills(r, c)
  <2>1. /\ T \subseteq DOMAIN reports /\ IsFiniteSet(T)
        /\ \A i \in T : reports[i].quantity \in Nat
        /\ QuantityIn(reports, T) \in Nat /\ c \in DOMAIN reports
        /\ reports[c].remaining \in Nat
    BY <1>1, <1>5, FillQuantities
  <2>2. k > c /\ k \notin T
    BY <2>1, <1>2
  <2>3. LaterFills(r, c)' = IF r \in {a, h} THEN T \cup {k} ELSE T
    BY <1>1, <1>2, <2>2 DEF LaterFills
  <2>4. orders[r].quantity = reports[c].remaining - QuantityIn(reports, T)
    BY <1>5, WhatIsLeftIsASum DEF WhatIsLeft
  <2> HIDE DEF T
  <2>5. QuantityIn(reports', T) = QuantityIn(reports, T)
    BY <2>1, <1>2, QuantityInTheSame
  <2>6. orders'[r].quantity = reports'[c].remaining - QuantityIn(reports', LaterFills(r, c)')
    <3>1. CASE r \in {a, h}
      <4>1. IsFiniteSet(T) /\ \A i \in T \cup {k} : reports'[i].quantity \in Int
        BY <2>1, <1>1, <1>2, <1>3
      <4>2. QuantityIn(reports', T \cup {k}) = QuantityIn(reports', T) + reports'[k].quantity
        BY <4>1, <2>2, QuantityInOneMore
      <4>3. /\ QuantityIn(reports', LaterFills(r, c)') = QuantityIn(reports, T) + n
            /\ orders'[r].quantity = orders[r].quantity - n
            /\ reports'[c].remaining = reports[c].remaining
        BY <4>2, <3>1, <2>1, <2>3, <2>5, <1>1, <1>2, <1>3
      <4> QED BY <4>3, <2>1, <2>4, <1>3, <1>4
    <3>2. CASE r \notin {a, h}
      <4>1. /\ QuantityIn(reports', LaterFills(r, c)') = QuantityIn(reports, T)
            /\ orders'[r].quantity = orders[r].quantity
            /\ reports'[c].remaining = reports[c].remaining
        BY <3>2, <2>1, <2>3, <2>5, <1>2, <1>3
      <4> QED BY <4>1, <2>4
    <3> QED BY <3>1, <3>2
  <2> QED BY <2>6 DEF WhatIsLeft
<1> QED BY <1>2, <1>3, <1>5, WhatIsLeftIsASumThen

\* An order's acceptance says what is left of it; no other report but a fill changes that.
LEMMA OthersTellWhatIsLeft ==
    ASSUME IInv, StoryInv, ReportsTellWhatIsLeft, Arrives \/ Finishes \/ Passes
    PROVE  ReportsTellWhatIsLeft'
<1> DEFINE k == Len(reports) + 1
<1>1. TypeOK /\ \A r \in Refs : orders'[r].quantity = orders[r].quantity
  BY DEF IInv, Arrives, Finishes, Passes
<1>2. \/ reports' = reports
      \/ \E e : /\ reports' = Append(reports, e) /\ e.kind \in ReportKinds \ {"FILL"}
                /\ e.kind = "ACCEPTED" => /\ e.order \in Refs
                                          /\ e.remaining = orders'[e.order].quantity
  <2>1. CASE Arrives
    <3>1. Report("EXPIRED", incoming', NA, NA, NA, orders'[incoming'].quantity).kind
            = "EXPIRED"
      BY DEF Report
    <3> QED BY <2>1, <3>1 DEF Arrives, ReportKinds
  <2>2. CASE Finishes
    <3> DEFINE x == Report("EXPIRED", incoming, NA, NA, NA, orders[incoming].quantity)
               y == Report("ACCEPTED", incoming, NA, orders[incoming].price, NA,
                           orders[incoming].quantity)
    <3>1. /\ x.kind = "EXPIRED" /\ y.kind = "ACCEPTED" /\ y.order = incoming
          /\ y.remaining = orders[incoming].quantity
      BY DEF Report
    <3>2. reports' = reports \/ reports' = Append(reports, x) \/ reports' = Append(reports, y)
      BY <2>2 DEF Finishes
    <3>3. incoming \in Refs
      BY <2>2, IncomingOrder DEF Finishes, Dealing
    <3> HIDE DEF x, y
    <3> QED BY <1>1, <3>1, <3>2, <3>3 DEF ReportKinds
  <2>3. CASE Passes
    <3>1. \A kind, id : Answer(kind, id).kind = kind
      BY DEF Answer
    <3> QED BY <2>3, <3>1 DEF Passes, ReportKinds
  <2> QED BY <2>1, <2>2, <2>3
<1>3. ASSUME NEW r \in Refs', r \notin Refs
      PROVE  ReportsOf("ACCEPTED", r)' = {}
  <2>1. ReportsOf("ACCEPTED", r) = {}
    BY <1>1, <1>3, StrangersAreNotReported
  <2>2. CASE reports' = reports
    BY <2>1, <2>2 DEF ReportsOf
  <2>3. ASSUME NEW e, reports' = Append(reports, e), e.kind \in ReportKinds \ {"FILL"},
               e.kind = "ACCEPTED" => e.order \in Refs
        PROVE  ReportsOf("ACCEPTED", r)' = {}
    <3>1. ReportsOf("ACCEPTED", r)' =
             IF e.kind = "ACCEPTED" /\ e.order = r THEN ReportsOf("ACCEPTED", r) \cup {k}
                                                   ELSE ReportsOf("ACCEPTED", r)
      BY <1>1, <2>3, ReportAdded
    <3> QED BY <3>1, <2>1, <2>3, <1>3
  <2> QED BY <1>2, <2>2, <2>3
<1>4. ASSUME NEW r \in Refs, NEW c \in ReportsOf("ACCEPTED", r)'
      PROVE  WhatIsLeft(r, c)'
  <2>1. CASE reports' = reports
    <3>1. c \in ReportsOf("ACCEPTED", r) /\ LaterFills(r, c)' = LaterFills(r, c)
      BY <1>4, <2>1 DEF ReportsOf, LaterFills
    <3>2. orders[r].quantity = reports[c].remaining - QuantityIn(reports, LaterFills(r, c))
      BY <3>1, WhatIsLeftIsASum DEF WhatIsLeft
    <3>3. orders'[r].quantity
            = reports'[c].remaining - QuantityIn(reports', LaterFills(r, c)')
      BY <3>1, <3>2, <2>1, <1>1
    <3> QED BY <3>3 DEF WhatIsLeft
  <2>2. ASSUME NEW e, reports' = Append(reports, e), e.kind \in ReportKinds \ {"FILL"},
               e.kind = "ACCEPTED" => e.remaining = orders'[e.order].quantity
        PROVE  WhatIsLeft(r, c)'
    <3>1. /\ DOMAIN reports' = DOMAIN reports \cup {k} /\ reports'[k] = e
          /\ k \notin DOMAIN reports
          /\ \A i \in DOMAIN reports : reports'[i] = reports[i] /\ i < k
          /\ ReportsOf("ACCEPTED", r)' =
                IF e.kind = "ACCEPTED" /\ e.order = r THEN ReportsOf("ACCEPTED", r) \cup {k}
                                                      ELSE ReportsOf("ACCEPTED", r)
      BY <1>1, <2>2, ReportAdded, ZenonT(30)
    <3>2. LaterFills(r, c)' = LaterFills(r, c)
      BY <3>1, <2>2 DEF LaterFills
    <3> HIDE DEF k
    <3>3. CASE c = k
      <4>1. e.kind = "ACCEPTED" /\ e.order = r
        BY <3>1, <3>3, <1>4 DEF ReportsOf
      <4>2. LaterFills(r, c) = {}
        <5>1. \A i \in DOMAIN reports : ~ (i > k)
          <6>1. Len(reports) \in Nat /\ DOMAIN reports = 1 .. Len(reports)
            BY <1>1 DEF TypeOK
          <6> QED BY <6>1 DEF k
        <5> QED BY <5>1, <3>3 DEF LaterFills
      <4>3. QuantityIn(reports', LaterFills(r, c)') = 0
        BY <4>2, <3>2, QuantityInNothing
      <4>4. orders'[r].quantity = reports'[c].remaining /\ orders'[r].quantity \in Nat
        <5>1. orders[r].quantity \in Nat
          BY <1>1, HeapHoldsOrders, OrderFields
        <5> QED BY <4>1, <3>1, <3>3, <2>2, <5>1, <1>1
      <4>5. orders'[r].quantity
              = reports'[c].remaining - QuantityIn(reports', LaterFills(r, c)')
        BY <4>3, <4>4
      <4> QED BY <4>5 DEF WhatIsLeft
    <3>4. CASE c # k
      <4>1. c \in ReportsOf("ACCEPTED", r)
        BY <3>1, <3>4, <1>4
      <4>2. /\ LaterFills(r, c) \subseteq DOMAIN reports /\ IsFiniteSet(LaterFills(r, c))
            /\ \A i \in LaterFills(r, c) : reports[i].quantity \in Nat
            /\ c \in DOMAIN reports
        BY <1>1, <4>1, FillQuantities
      <4>3. QuantityIn(reports', LaterFills(r, c)) = QuantityIn(reports, LaterFills(r, c))
        <5>1. \A i \in LaterFills(r, c) : /\ reports[i].quantity \in Int
                                          /\ reports'[i].quantity = reports[i].quantity
          BY <4>2, <3>1
        <5> QED BY <5>1, <4>2, QuantityInTheSame
      <4>4. orders[r].quantity = reports[c].remaining - QuantityIn(reports, LaterFills(r, c))
        BY <4>1, WhatIsLeftIsASum DEF WhatIsLeft
      <4>5. orders'[r].quantity
              = reports'[c].remaining - QuantityIn(reports', LaterFills(r, c)')
        BY <4>2, <4>3, <4>4, <3>1, <3>2, <1>1
      <4> QED BY <4>5 DEF WhatIsLeft
    <3> QED BY <3>3, <3>4
  <2> QED BY <1>2, <2>1, <2>2
<1> QED BY <1>3, <1>4, WhatIsLeftIsASumThen

(***************************************************************************)
(* Each order's outcome is reported once, and what is left of a resting    *)
(* order follows from the reports about it.                                *)
(***************************************************************************)
THEOREM TheReportsTellTheStory == Spec => []ReportsTellTheStory
<1>1. Init => ReportsTellWhatIsLeft
  BY DEF Init, ReportsTellWhatIsLeft, Refs
<1>2. IInv /\ IndexInv /\ StoryInv /\ ReportsTellWhatIsLeft /\ [Next]_vars
        => ReportsTellWhatIsLeft'
  BY EveryStepIsALedgerStep, FillTellsWhatIsLeft, OthersTellWhatIsLeft DEF LedgerStep
<1>3. IInv /\ StoryInv /\ ReportsTellWhatIsLeft => ReportsTellTheStory
  BY StoryHasOneOutcome DEF IInv, ReportsTellTheStory
<1> QED BY <1>1, <1>2, <1>3, IInvHolds, IndexInvHolds, StoryInvHolds, PTL DEF Spec

-----------------------------------------------------------------------------
(* Fill-or-kill orders: the probe and the loops agree on what is available. *)

\* The resting limit orders on the other side that an order of this side and limit may
\* trade with.
MarketableOrders(side, limit) ==
    {r \in LitOrders(Opposite(side)) : Marketable(side, limit, orders[r].price)}

\* The quantity the loops have ahead of them: in the pool, and in the lit book.
PoolAhead(o) == QuantityIn(orders, PegOrders(Opposite(o.side)))
LitAhead(o)  == QuantityIn(orders, MarketableOrders(o.side, o.price))

EnoughAhead(o) ==
    /\ pc = "pegs" => o.quantity <= PoolAhead(o)
                         + (IF o.ordType = "LIMIT" THEN LitAhead(o) ELSE 0)
    /\ pc = "lit"  => o.quantity <= LitAhead(o)
    /\ pc = "rest" => o.quantity = 0

\* What makes FillOrKillIsAllOrNothing inductive: a fill-or-kill order that was let in
\* always has enough ahead of it in the loops it has not been through.
FokInv ==
    /\ FillOrKillIsAllOrNothing
    /\ Dealing => \A o \in {orders[incoming]} : o.tif = "FOK" => EnoughAhead(o)

\* What may be summed: resting orders, of the heap, each with a natural quantity.
LEMMA RestingQuantities ==
    ASSUME IInv
    PROVE  /\ IsFiniteSet(Refs) /\ Resting \subseteq Refs
           /\ \A r \in Refs : orders[r].quantity \in Nat
           /\ \A r \in Resting : orders[r].quantity > 0 /\ orders[r].tif = "GTC"
           /\ \A S \in SUBSET Resting : IsFiniteSet(S) /\ QuantityIn(orders, S) \in Nat
           /\ \A s \in Sides : LitOrders(s) \subseteq Resting /\ PegOrders(s) \subseteq Resting
           /\ \A side \in Sides : \A limit : MarketableOrders(side, limit) \subseteq Resting
<1>1. IsFiniteSet(Refs)
  BY OneMoreElement DEF IInv, TypeOK, Refs
<1>2. \A s \in Sides : \A r \in LitOrders(s) \cup PegOrders(s) :
         r \in Refs /\ orders[r].quantity > 0 /\ orders[r].tif = "GTC"
  BY RestingOrders DEF IInv, LitOrders, IsLive
<1>3. /\ Resting \subseteq Refs
      /\ \A r \in Resting : orders[r].quantity > 0 /\ orders[r].tif = "GTC"
  BY <1>2 DEF Resting
<1>4. \A r \in Refs : orders[r].quantity \in Nat
  BY HeapHoldsOrders, OrderFields DEF IInv
<1>5. \A s \in Sides : LitOrders(s) \subseteq Resting /\ PegOrders(s) \subseteq Resting
  BY DEF Resting
<1>6. \A side \in Sides : \A limit : MarketableOrders(side, limit) \subseteq Resting
  BY <1>5 DEF MarketableOrders, Opposite, Sides
<1>7. \A S \in SUBSET Resting : IsFiniteSet(S) /\ QuantityIn(orders, S) \in Nat
  <2> SUFFICES ASSUME NEW S \in SUBSET Resting
               PROVE  IsFiniteSet(S) /\ QuantityIn(orders, S) \in Nat
    OBVIOUS
  <2>1. IsFiniteSet(S) /\ \A r \in S : orders[r].quantity \in Nat
    BY <1>1, <1>3, <1>4, FS_Subset
  <2> QED BY <2>1, QuantityInIsNatural
<1> QED BY <1>1, <1>3, <1>4, <1>5, <1>6, <1>7

\* The probe's walk over the levels counts the marketable orders.
LEMMA LitTotalIsASum ==
    ASSUME IInv, NEW side \in Sides, NEW limit
    PROVE  LitTotal(side, limit) = QuantityIn(orders, MarketableOrders(side, limit))
<1> DEFINE contra == book[Opposite(side)]
           levels == {p \in DOMAIN contra : Marketable(side, limit, p)}
<1>1. UNION {Range(contra[p]) : p \in levels} = MarketableOrders(side, limit)
  <2>1. Opposite(side) \in Sides
    BY DEF Opposite, Sides
  <2>2. \A p \in DOMAIN contra : \A r \in Range(contra[p]) : orders[r].price = p
    BY <2>1, RestingOrders DEF IInv
  <2>3. LitOrders(Opposite(side)) = UNION {Range(contra[p]) : p \in DOMAIN contra}
    BY DEF LitOrders
  <2> HIDE DEF contra
  <2> QED BY <2>2, <2>3 DEF MarketableOrders
<1>2. LitTotal(side, limit) = TotalQuantity(UNION {Range(contra[p]) : p \in levels})
  BY DEF LitTotal
<1>3. \A S : TotalQuantity(S) = QuantityIn(orders, S)
  BY DEF TotalQuantity, QuantityIn, MapThenSumSet, MapThenFoldSet
<1> QED BY <1>1, <1>2, <1>3

LEMMA PegPoolTotalIsASum ==
    \A side : PegPoolTotal(side) = QuantityIn(orders, PegOrders(Opposite(side)))
<1>1. \A S : TotalQuantity(S) = QuantityIn(orders, S)
  BY DEF TotalQuantity, QuantityIn, MapThenSumSet, MapThenFoldSet
<1> QED BY <1>1 DEF PegPoolTotal, PegOrders

\* A trade takes its quantity from every set of resting orders that holds its passive side.
LEMMA TradeTakes ==
    ASSUME IInv, NEW a, NEW h, NEW n, NEW price, Trade(a, h, n, price),
           NEW S \in SUBSET Resting, a \notin S
    PROVE  QuantityIn(orders', S \ Gone(a, h, n))
             = IF h \in S THEN QuantityIn(orders, S) - n ELSE QuantityIn(orders, S)
<1>1. /\ IsFiniteSet(S) /\ S \subseteq Refs /\ QuantityIn(orders, S) \in Nat
      /\ \A r \in S : orders[r].quantity \in Nat /\ orders[r].quantity \in Int
  BY RestingQuantities
<1>2. /\ h \in Refs /\ orders'[h].quantity = orders[h].quantity - n
      /\ n \in 1 .. orders[h].quantity /\ orders[h].quantity \in Nat
      /\ \A r \in Refs \ {a, h} : orders'[r].quantity = orders[r].quantity
  BY RestingQuantities DEF Trade
<1>3. \A x \in Gone(a, h, n) : x = a \/ (x = h /\ orders[h].quantity = n)
  BY DEF Gone
<1>4. orders[h].quantity = n /\ h \in S => h \in Gone(a, h, n)
  BY DEF Gone
<1>5. CASE h \notin S
  <2>1. S \ Gone(a, h, n) = S
    BY <1>3, <1>5
  <2>2. \A r \in S : orders'[r].quantity = orders[r].quantity
    BY <1>1, <1>2, <1>5
  <2>3. QuantityIn(orders', S) = QuantityIn(orders, S)
    BY <1>1, <2>2, QuantityInTheSame
  <2> QED BY <1>5, <2>1, <2>3
<1>6. CASE h \in S /\ orders[h].quantity = n
  <2>1. S \ Gone(a, h, n) = S \ {h}
    BY <1>3, <1>4, <1>6
  <2>2. QuantityIn(orders, S) = orders[h].quantity + QuantityIn(orders, S \ {h})
    BY <1>1, <1>6, QuantityInIsNatural
  <2>3. QuantityIn(orders', S \ {h}) = QuantityIn(orders, S \ {h})
    <3>1. IsFiniteSet(S \ {h})
      BY <1>1, FS_Subset
    <3>2. \A r \in S \ {h} : orders'[r].quantity = orders[r].quantity
      BY <1>1, <1>2
    <3> QED BY <1>1, <3>1, <3>2, QuantityInTheSame
  <2>4. QuantityIn(orders, S \ {h}) \in Nat
    BY RestingQuantities
  <2>5. QuantityIn(orders, S \ {h}) = QuantityIn(orders, S) - n
    BY <1>2, <1>6, <2>2, <2>4
  <2>6. QuantityIn(orders', S \ Gone(a, h, n)) = QuantityIn(orders, S) - n
    BY <2>1, <2>3, <2>5
  <2> QED BY <1>6, <2>6
<1>7. CASE h \in S /\ orders[h].quantity # n
  <2>1. S \ Gone(a, h, n) = S
    BY <1>3, <1>7
  <2>2. orders'[h].quantity \in Int
    BY <1>2
  <2>3. \A r \in S \ {h} : orders'[r].quantity = orders[r].quantity
    BY <1>1, <1>2
  <2>4. QuantityIn(orders', S)
          = QuantityIn(orders, S) - orders[h].quantity + orders'[h].quantity
    BY <1>1, <1>7, <2>2, <2>3, QuantityInOneChanged
  <2>5. QuantityIn(orders', S) = QuantityIn(orders, S) - n
    BY <1>1, <1>2, <2>4
  <2>6. QuantityIn(orders', S \ Gone(a, h, n)) = QuantityIn(orders, S) - n
    BY <2>1, <2>5
  <2> QED BY <1>7, <2>6
<1> QED BY <1>5, <1>6, <1>7

\* The orders that are settled: trades change only those that rest, which are none of
\* these, and the one the running call deals with.
LEMMA TradeKeepsSettled ==
    ASSUME IInv, FillOrKillIsAllOrNothing,
           NEW a, NEW h, NEW n, NEW price, Trade(a, h, n, price)
    PROVE  FillOrKillIsAllOrNothing'
<1>1. /\ Settled' = Settled /\ Settled \subseteq Refs
      /\ a \in Resting \/ a \notin Settled
      /\ \A r \in Refs : /\ orders'[r].tif = orders[r].tif
                         /\ orders'[r].orderQty = orders[r].orderQty
      /\ \A r \in Refs \ {a, h} : orders'[r].quantity = orders[r].quantity
      /\ h \in Resting
  BY DEF Trade, Settled, Dealing, TermsStay, SameTerms
<1>2. \A r \in Settled : orders[r].tif = "FOK" => r \notin {a, h}
  BY <1>1, RestingQuantities
<1> QED BY <1>1, <1>2 DEF FillOrKillIsAllOrNothing

LEMMA OthersKeepSettled ==
    ASSUME IInv, FokInv, TermsStay, Arrives \/ Finishes \/ Passes
    PROVE  FillOrKillIsAllOrNothing'
<1>1. \A r \in Refs : /\ orders'[r].tif = orders[r].tif
                      /\ orders'[r].orderQty = orders[r].orderQty
                      /\ orders'[r].quantity = orders[r].quantity
  BY DEF TermsStay, SameTerms, Arrives, Finishes, Passes
<1>2. \A r \in Settled : orders[r].tif = "FOK" =>
         orders[r].quantity \in {0, orders[r].orderQty}
  BY DEF FokInv, FillOrKillIsAllOrNothing
<1>3. \A r \in Settled' : \/ r \in Settled
                          \/ r \in Refs /\ (orders[r].tif = "FOK" => orders[r].quantity = 0)
                          \/ orders'[r].quantity = orders'[r].orderQty
  <2>1. CASE Arrives
    <3>1. Settled = Refs /\ Settled' \subseteq Refs \cup {incoming'}
      BY <2>1 DEF Arrives, Settled
    <3> QED BY <2>1, <3>1 DEF Arrives
  <2>2. CASE Finishes
    <3>1. Settled' = Refs /\ Settled = Refs \ {incoming}
      BY <2>2 DEF Finishes, Settled, Dealing
    <3>2. orders[incoming].tif = "FOK" => orders[incoming].quantity = 0
      BY <2>2 DEF Finishes, FokInv, Dealing, EnoughAhead
    <3> QED BY <3>1, <3>2
  <2>3. CASE Passes
    BY <2>3 DEF Passes, Settled, Dealing
  <2> QED BY <2>1, <2>2, <2>3
<1>4. Settled \subseteq Refs
  BY DEF Settled
<1> QED BY <1>1, <1>2, <1>3, <1>4 DEF FillOrKillIsAllOrNothing

\* The probe's promise, when the call begins.
LEMMA ProbedOrderHasEnoughAhead ==
    ASSUME IInv, NEW t \in Tickets, AddOrder(t), NEW o, o = orders'[incoming'], o.tif = "FOK"
    PROVE  EnoughAhead(o)'
<1>1. /\ Arrive(t) /\ UNCHANGED <<book, pegs, openOrders, trades>> 
      /\ pc' = IF t.ordType = "PEG_MID"
               THEN IF Mid = NA THEN "rest" ELSE "pegs"
               ELSE IF Mid # NA /\ CrossesMid(t.side, t.price, Mid) THEN "pegs" ELSE "lit"
  BY DEF AddOrder
<1>2. PICK ts \in Nat : orders'[incoming'] = NewOrder(t, ts)
  BY <1>1, ArrivalGrowsHeap DEF IInv
<1>3. /\ t.side \in Sides /\ t.ordType \in OrdTypes /\ t.quantity \in Nat
      /\ Opposite(t.side) \in Sides
  BY TicketsAssumption DEF TicketRecord, Opposite, Sides
<1> DEFINE pool == QuantityIn(orders, PegOrders(Opposite(t.side)))
           lit  == QuantityIn(orders, MarketableOrders(t.side, t.price))
<1>4. /\ o.tif = t.tif /\ o.side = t.side /\ o.price = t.price /\ o.quantity = t.quantity
      /\ o.ordType = t.ordType
  BY <1>2 DEF NewOrder
<1>5. CanFillCompletely(t)
  BY <1>4 DEF AddOrder
<1>6. \A r \in Refs : orders'[r] = orders[r]
  BY <1>1, ArrivalGrowsHeap DEF IInv
<1>7. \A S \in SUBSET Resting : QuantityIn(orders', S) = QuantityIn(orders, S)
  <2> SUFFICES ASSUME NEW S \in SUBSET Resting
               PROVE  QuantityIn(orders', S) = QuantityIn(orders, S)
    OBVIOUS
  <2>1. IsFiniteSet(S) /\ S \subseteq Refs /\ \A r \in S : orders[r].quantity \in Int
    BY RestingQuantities
  <2> QED BY <1>6, <2>1, QuantityInTheSame
<1>8. PoolAhead(o)' = pool
  <2>1. PegOrders(Opposite(t.side))' = PegOrders(Opposite(t.side))
    BY <1>1 DEF PegOrders
  <2>2. PoolAhead(o)' = QuantityIn(orders', PegOrders(Opposite(t.side)))
    BY <1>4, <2>1 DEF PoolAhead, PegOrders
  <2> QED BY <2>2, <1>3, <1>7, RestingQuantities
<1>9. LitAhead(o)' = lit
  <2>1. \A r \in LitOrders(Opposite(t.side)) : r \in Refs
    BY <1>3, RestingQuantities
  <2>2. MarketableOrders(t.side, t.price)' = MarketableOrders(t.side, t.price)
    BY <1>1, <1>6, <2>1 DEF MarketableOrders, LitOrders
  <2>3. LitAhead(o)' = QuantityIn(orders', MarketableOrders(t.side, t.price)')
    BY <1>4 DEF LitAhead
  <2> QED BY <2>2, <2>3, <1>3, <1>7, RestingQuantities
<1>10. PegPoolTotal(t.side) = pool /\ LitTotal(t.side, t.price) = lit
  BY <1>3, PegPoolTotalIsASum, LitTotalIsASum
<1>11. pool \in Nat /\ lit \in Nat
  BY <1>3, RestingQuantities
<1> HIDE DEF pool, lit
<1>12. CASE t.ordType = "PEG_MID"
  <2>1. Mid # NA /\ pool >= t.quantity
    BY <1>5, <1>10, <1>12 DEF CanFillCompletely
  <2> QED BY <1>1, <1>3, <1>4, <1>8, <1>11, <1>12, <2>1 DEF EnoughAhead
<1>13. CASE t.ordType = "LIMIT"
  <2>1. CASE Mid # NA /\ CrossesMid(t.side, t.price, Mid)
    <3>1. lit + pool >= t.quantity
      BY <1>5, <1>10, <1>13, <2>1 DEF CanFillCompletely
    <3> QED BY <1>1, <1>3, <1>4, <1>8, <1>9, <1>11, <1>13, <2>1, <3>1 DEF EnoughAhead
  <2>2. CASE ~ (Mid # NA /\ CrossesMid(t.side, t.price, Mid))
    <3>1. lit + 0 >= t.quantity
      BY <1>5, <1>10, <1>13, <2>2 DEF CanFillCompletely
    <3> QED BY <1>1, <1>3, <1>4, <1>8, <1>9, <1>11, <1>13, <2>2, <3>1 DEF EnoughAhead
  <2> QED BY <2>1, <2>2
<1> QED BY <1>3, <1>12, <1>13 DEF OrdTypes

\* The loops take what is traded from what is ahead, and from the incoming order.
LEMMA TradeKeepsEnoughAhead ==
    ASSUME IInv, Dealing, NEW h, NEW n, NEW price, Trade(incoming, h, n, price),
           EnoughAhead(orders[incoming]), pc \in {"pegs", "lit"},
           pc = "pegs" => h \in PegOrders(Opposite(incomingSide)),
           pc = "lit"  => h \in MarketableOrders(incomingSide, orders[incoming].price),
           NEW o, o = orders'[incoming']
    PROVE  EnoughAhead(o)'
<1> DEFINE was  == orders[incoming]
           pool == PegOrders(Opposite(incomingSide))
           lit  == MarketableOrders(incomingSide, was.price)
           gone == Gone(incoming, h, n)
<1>1. /\ incoming \in Refs /\ incoming \notin Resting /\ incomingSide \in Sides
      /\ was.side = incomingSide /\ Opposite(incomingSide) \in Sides
      /\ was.quantity \in Nat
  BY IncomingOrder, RestingQuantities DEF Opposite, Sides
<1>2. /\ o.side = incomingSide /\ o.price = was.price /\ o.ordType = was.ordType
      /\ o.quantity = was.quantity - n /\ pc' = pc /\ n \in Nat
      /\ \A r \in Refs : orders'[r].price = orders[r].price
      /\ \A s \in Sides : /\ LitOrders(s)' = LitOrders(s) \ gone
                          /\ PegOrders(s)' = PegOrders(s) \ gone
  <2>1. /\ orders'[incoming].side = was.side /\ orders'[incoming].price = was.price
        /\ orders'[incoming].ordType = was.ordType
        /\ orders'[incoming].quantity = was.quantity - n
    BY <1>1 DEF Trade, TermsStay, SameTerms
  <2>2. o = orders'[incoming]
    BY DEF Trade
  <2> QED BY <1>1, <2>1, <2>2 DEF Trade, TermsStay, SameTerms
<1>3. /\ pool \in SUBSET Resting /\ incoming \notin pool
      /\ lit \in SUBSET Resting /\ incoming \notin lit
      /\ QuantityIn(orders, pool) \in Nat /\ QuantityIn(orders, lit) \in Nat
  BY <1>1, RestingQuantities
<1>4. \A r \in LitOrders(Opposite(incomingSide)) : r \in Refs
  BY <1>1, RestingQuantities
<1>5. ASSUME NEW side, side = incomingSide
      PROVE  /\ QuantityIn(orders, PegOrders(Opposite(side)))'
                  = QuantityIn(orders', pool \ gone)
             /\ MarketableOrders(side, was.price) = lit
             /\ \A limit : limit = was.price =>
                   QuantityIn(orders, MarketableOrders(side, limit))'
                     = QuantityIn(orders', lit \ gone)
  <2>1. PegOrders(Opposite(side))' = pool \ gone /\ Opposite(side) \in Sides
    BY <1>1, <1>2, <1>5
  <2>2. ASSUME NEW limit, limit = was.price
        PROVE  MarketableOrders(side, limit)' = lit \ gone
    <3>1. LitOrders(Opposite(side))' = LitOrders(Opposite(side)) \ gone
      BY <1>2, <2>1
    <3>2. \A r \in LitOrders(Opposite(side)) : orders'[r].price = orders[r].price
      BY <1>2, <1>4, <1>5
    <3> HIDE DEF gone
    <3> QED BY <1>5, <2>2, <3>1, <3>2 DEF MarketableOrders
  <2> QED BY <1>5, <2>1, <2>2
<1>6. PoolAhead(o)' = QuantityIn(orders', pool \ gone)
  BY <1>2, <1>5 DEF PoolAhead
<1>7. LitAhead(o)' = QuantityIn(orders', lit \ gone)
  BY <1>2, <1>5 DEF LitAhead
<1>8. PoolAhead(was) = QuantityIn(orders, pool) /\ LitAhead(was) = QuantityIn(orders, lit)
  BY <1>1 DEF PoolAhead, LitAhead
<1>9. /\ QuantityIn(orders', pool \ gone)
            = IF h \in pool THEN QuantityIn(orders, pool) - n ELSE QuantityIn(orders, pool)
      /\ QuantityIn(orders', lit \ gone)
            = IF h \in lit THEN QuantityIn(orders, lit) - n ELSE QuantityIn(orders, lit)
  <2> HIDE DEF pool, lit
  <2>1. QuantityIn(orders', pool \ gone)
          = IF h \in pool THEN QuantityIn(orders, pool) - n ELSE QuantityIn(orders, pool)
    BY <1>3, TradeTakes
  <2>2. QuantityIn(orders', lit \ gone)
          = IF h \in lit THEN QuantityIn(orders, lit) - n ELSE QuantityIn(orders, lit)
    BY <1>3, TradeTakes
  <2> QED BY <2>1, <2>2
<1>10. h \in pool => h \notin lit
  <2>1. h \in pool => orders[h].ordType = "PEG_MID"
    BY <1>1, RestingOrders DEF IInv
  <2>2. h \in lit => orders[h].ordType = "LIMIT"
    BY <1>1, RestingOrders DEF IInv, MarketableOrders, LitOrders
  <2> QED BY <2>1, <2>2
<1> DEFINE p == QuantityIn(orders, pool)
           l == QuantityIn(orders, lit)
<1>11. p \in Nat /\ l \in Nat
  BY <1>3
<1>12. CASE pc = "pegs"
  <2>1. was.quantity <= p + (IF was.ordType = "LIMIT" THEN l ELSE 0)
    BY <1>8, <1>12 DEF EnoughAhead
  <2>2. PoolAhead(o)' = p - n /\ LitAhead(o)' = l
    <3>1. h \in pool /\ h \notin lit
      BY <1>10, <1>12
    <3> HIDE DEF pool, lit, gone
    <3> QED BY <1>6, <1>7, <1>9, <3>1
  <2> HIDE DEF p, l
  <2>3. o.quantity <= PoolAhead(o)' + (IF o.ordType = "LIMIT" THEN LitAhead(o)' ELSE 0)
    <3> HIDE DEF was
    <3> QED BY <1>1, <1>2, <1>11, <2>1, <2>2
  <2> QED BY <1>2, <1>12, <2>3 DEF EnoughAhead
<1>13. CASE pc = "lit"
  <2>1. was.quantity <= l
    BY <1>8, <1>13 DEF EnoughAhead
  <2>2. LitAhead(o)' = l - n
    <3>1. h \in lit
      BY <1>13
    <3> HIDE DEF pool, lit, gone
    <3> QED BY <1>7, <1>9, <3>1
  <2> HIDE DEF p, l
  <2>3. o.quantity <= LitAhead(o)'
    <3> HIDE DEF was
    <3> QED BY <1>1, <1>2, <1>11, <2>1, <2>2
  <2> QED BY <1>2, <1>13, <2>3 DEF EnoughAhead
<1> QED BY <1>12, <1>13

\* Where a loop ends with quantity left, it has taken all there was.
LEMMA LoopEndKeepsEnoughAhead ==
    ASSUME IInv, IInv', Dealing, EnoughAhead(orders[incoming]), orders[incoming].tif = "FOK",
           MatchPegPoolEnds \/ MatchLitEnds \/ UNCHANGED vars,
           NEW o, o = orders'[incoming']
    PROVE  EnoughAhead(o)'
<1>1. UNCHANGED <<orders, book, pegs>> /\ o = orders[incoming]
  BY DEF MatchPegPoolEnds, MatchLitEnds, vars, books, incoming
<1>2. /\ incoming \in Refs /\ incomingSide \in Sides /\ o.side = incomingSide
      /\ Opposite(incomingSide) \in Sides /\ o.quantity \in Nat /\ o.ordType \in OrdTypes
  BY <1>1, IncomingOrder, OrderFields DEF Opposite, Sides
<1>3. PoolAhead(o) \in Nat /\ LitAhead(o) \in Nat
  BY <1>2, RestingQuantities DEF PoolAhead, LitAhead
<1>4. LitAhead(o)' = LitAhead(o) /\ PoolAhead(o)' = PoolAhead(o)
  BY <1>1 DEF LitAhead, PoolAhead, MarketableOrders, LitOrders, PegOrders
<1>5. CASE MatchPegPoolEnds
  <2>1. o.quantity <= PoolAhead(o) + (IF o.ordType = "LIMIT" THEN LitAhead(o) ELSE 0)
    BY <1>1, <1>5 DEF EnoughAhead, MatchPegPoolEnds
  <2>2. o.quantity = 0 \/ PoolAhead(o) = 0
    <3>1. ASSUME pegs[Opposite(incomingSide)] = <<>> PROVE PoolAhead(o) = 0
      <4>1. PegOrders(Opposite(o.side)) = {}
        BY <1>2, <3>1 DEF PegOrders, Range
      <4> QED BY <4>1, QuantityInNothing DEF PoolAhead
    <3> QED BY <1>1, <1>5, <3>1 DEF MatchPegPoolEnds
  <2>3. pc' = IF o.ordType = "PEG_MID" THEN "rest" ELSE "lit"
    BY <1>1, <1>5 DEF MatchPegPoolEnds
  <2>4. o.quantity <= LitAhead(o)
    BY <1>2, <1>3, <2>1, <2>2
  <2>5. o.ordType = "PEG_MID" => o.quantity = 0
    BY <1>2, <1>3, <2>1, <2>2 DEF OrdTypes
  <2> QED BY <1>2, <1>4, <2>3, <2>4, <2>5 DEF EnoughAhead
<1>6. CASE MatchLitEnds
  <2>1. pc = "lit" /\ pc' = "rest" /\ o.quantity <= LitAhead(o) /\ o.ordType = "LIMIT"
    BY <1>1, <1>6 DEF EnoughAhead, MatchLitEnds, IInv, PhaseFacts
  <2>2. ASSUME o.quantity > 0 PROVE MarketableOrders(o.side, o.price) = {}
    <3>1. \A x \in DOMAIN book[Opposite(incomingSide)] :
             ~ Marketable(incomingSide, o.price, x)
      BY <1>1, <2>1, <2>2 DEF IInv, PhaseFacts, incoming, incomingSide
    <3>2. \A r \in LitOrders(Opposite(incomingSide)) :
             orders[r].price \in DOMAIN book[Opposite(incomingSide)]
      BY <1>2, RestingOrders DEF IInv, LitOrders
    <3> QED BY <1>2, <3>1, <3>2 DEF MarketableOrders
  <2>3. o.quantity > 0 => LitAhead(o) = 0
    BY <2>2, QuantityInNothing DEF LitAhead
  <2> QED BY <1>2, <2>1, <2>3 DEF EnoughAhead
<1>7. CASE UNCHANGED vars
  <2>1. pc' = pc
    BY <1>7 DEF vars
  <2> QED BY <1>1, <1>4, <2>1 DEF EnoughAhead
<1> QED BY <1>5, <1>6, <1>7

\* What a running call has ahead of its fill-or-kill order, step by step.
LEMMA NextKeepsEnoughAhead ==
    ASSUME IInv, FokInv, [Next]_vars, Dealing', NEW o, o = orders'[incoming'],
           o.tif = "FOK"
    PROVE  EnoughAhead(o)'
<1>1. IInv'
  BY NextKeepsIInv
<1>2. ASSUME NEW t \in Tickets, AddOrder(t) PROVE EnoughAhead(o)'
  BY <1>2, ProbedOrderHasEnoughAhead
<1>3. ASSUME Dealing, Refs' = Refs, incoming' = incoming, TermsStay
      PROVE  EnoughAhead(orders[incoming]) /\ orders[incoming].tif = "FOK"
  BY <1>3, IncomingOrder DEF FokInv, TermsStay, SameTerms
<1>4. CASE MatchPegPool
  <2>1. MatchPegPoolTrade /\ pc = "pegs" /\ Dealing
    BY <1>4, MatchPegPoolTrades DEF MatchPegPool, Dealing
  <2>2. PICK h, n : /\ Trade(incoming, h, n, mid) /\ h \in PegOrders(Opposite(incomingSide))
    BY <2>1 DEF MatchPegPoolTrade
  <2>3. EnoughAhead(orders[incoming])
    BY <1>3, <2>1, <2>2 DEF Trade
  <2> QED BY <2>1, <2>2, <2>3, TradeKeepsEnoughAhead
<1>5. ASSUME NEW p \in Price, MatchLit(p) PROVE EnoughAhead(o)'
  <2>1. MatchLitTrade(p) /\ pc = "lit" /\ Dealing /\ IsMatchLevel(p)
    BY <1>5, MatchLitTrades DEF MatchLit, Dealing
  <2>2. PICK h, n : /\ Trade(incoming, h, n, p)
                    /\ h \in Range(book[Opposite(incomingSide)][p])
    BY <2>1 DEF MatchLitTrade
  <2>3. EnoughAhead(orders[incoming])
    BY <1>3, <2>1, <2>2 DEF Trade
  <2>4. h \in MarketableOrders(incomingSide, orders[incoming].price)
    <3>1. Opposite(incomingSide) \in Sides
      BY <2>1, IncomingOrder DEF Opposite, Sides
    <3>2. /\ p \in DOMAIN book[Opposite(incomingSide)]
          /\ Marketable(incomingSide, orders[incoming].price, p)
      BY <2>1 DEF IsMatchLevel
    <3>3. h \in LitOrders(Opposite(incomingSide)) /\ orders[h].price = p
      BY <2>2, <3>1, <3>2, RestingOrders DEF IInv
    <3> QED BY <3>2, <3>3 DEF MarketableOrders
  <2> QED BY <2>1, <2>2, <2>3, <2>4, TradeKeepsEnoughAhead
<1>6. CASE MatchPegPoolEnds \/ MatchLitEnds \/ UNCHANGED vars
  <2>1. Dealing /\ UNCHANGED orders
    BY <1>6 DEF MatchPegPoolEnds, MatchLitEnds, vars, Dealing
  <2>2. EnoughAhead(orders[incoming]) /\ orders[incoming].tif = "FOK"
    BY <2>1 DEF FokInv, incoming
  <2> QED BY <1>1, <1>6, <2>1, <2>2, LoopEndKeepsEnoughAhead
<1>7. CASE RestPeg \/ AddToBook \/ ExpireRemainder \/ NoRemainder
              \/ CrossPegPools \/ CrossPegPoolsEnds
  <2>1. pc' \in {"idle", "cross"}
    BY <1>7 DEF RestPeg, AddToBook, ExpireRemainder, NoRemainder, AfterRest, Return,
                CrossPegPools, CrossPegPoolsEnds
  <2> QED BY <2>1 DEF Dealing
<1>8. ASSUME NEW t \in Tickets, AddOrderKilled(t) PROVE EnoughAhead(o)'
  BY <1>8 DEF AddOrderKilled, Call, Dealing
<1>9. ASSUME NEW id \in CancelIds, CancelOrder(id) \/ CancelOrderRefused(id)
      PROVE  EnoughAhead(o)'
  BY <1>9 DEF CancelOrder, CancelOrderRefused, Call, Dealing
<1> QED BY <1>2, <1>4, <1>5, <1>6, <1>7, <1>8, <1>9 DEF Next, Continue, Exhausted

LEMMA FokInvHolds == Spec => []FokInv
<1>1. Init => FokInv
  BY DEF Init, FokInv, FillOrKillIsAllOrNothing, Settled, Refs, Dealing
<1>2. IInv /\ IndexInv /\ FokInv /\ [Next]_vars => FokInv'
  <2> SUFFICES ASSUME IInv, IndexInv, FokInv, [Next]_vars PROVE FokInv'
    OBVIOUS
  <2>1. FillOrKillIsAllOrNothing'
    <3>1. LedgerStep /\ TermsStay
      BY EveryStepIsALedgerStep, NextSteps DEF StepsThroughQueues
    <3> QED BY <3>1, TradeKeepsSettled, OthersKeepSettled DEF LedgerStep, FokInv
  <2>2. ASSUME Dealing', NEW o \in {orders'[incoming']}, o.tif = "FOK"
        PROVE  EnoughAhead(o)'
    BY <2>2, NextKeepsEnoughAhead
  <2> QED BY <2>1, <2>2 DEF FokInv
<1> QED BY <1>1, <1>2, IInvHolds, IndexInvHolds, PTL DEF Spec

(***************************************************************************)
(* A fill-or-kill order trades all of its quantity or none of it: what the *)
(* probe counts is what the loops find.                                    *)
(***************************************************************************)
THEOREM FillOrKillHolds == Spec => []FillOrKillIsAllOrNothing
<1>1. FokInv => FillOrKillIsAllOrNothing
  BY DEF FokInv
<1> QED BY <1>1, FokInvHolds, PTL

(***************************************************************************)
(* The engine is sound: the book, the index, the accounts, the reports and *)
(* the queues, together, in every state it reaches.                        *)
(***************************************************************************)
THEOREM TheEngineIsSound == Spec => []EngineIsSound
<1>1. BookHoldsLiveOrders /\ OpenOrdersAreTheRestingOrders
        /\ QuantityConserved /\ FillOrKillIsAllOrNothing
        /\ ReportsTellTheStory /\ TimePriority /\ LaterOrderIsAggressor => EngineIsSound
  BY DEF EngineIsSound
<1> QED BY <1>1, OnlyLiveOrdersRest, IndexIsExact, NoQuantityIsLost, FillOrKillHolds,
       TheReportsTellTheStory, ArrivalOrderHolds, TheLaterOrderIsTheAggressor, PTL

-----------------------------------------------------------------------------
(* What the loops have already dealt with, when the engine is seen as the  *)
(* venue: an order that is past the pool has nothing left to do there.     *)

PastThePool(o) ==
    \/ pegs[Opposite(o.side)] = <<>> \/ Mid = NA
    \/ o.ordType = "LIMIT" /\ ~ CrossesMid(o.side, o.price, Mid)

\* Pegs hide nothing, an order is in the pool's loop only if its limit reaches the
\* midpoint, and one that has left it has nothing to trade with there, which no trade in
\* the lit book changes.
PoolInv ==
    /\ \A r \in Refs : orders[r].ordType = "PEG_MID" => orders[r].peak = 0
    /\ \A o \in {orders[incoming]} :
          /\ pc = "pegs" /\ o.ordType = "LIMIT" => CrossesMid(o.side, o.price, mid)
          /\ pc \in {"lit", "rest"} /\ o.quantity > 0 => PastThePool(o)

\* As prices leave one side of the lit book, the midpoint moves away from it, or goes.
LEMMA MidRecedes ==
    ASSUME NEW A \in SUBSET Price, NEW A2 \in SUBSET A,
           NEW B \in SUBSET Price, NEW B2 \in SUBSET B
    PROVE  /\ MidOf(B, A2) # NA => MidOf(B, A) # NA /\ MidOf(B, A2) >= MidOf(B, A)
           /\ MidOf(B2, A) # NA => MidOf(B, A) # NA /\ MidOf(B2, A) <= MidOf(B, A)
<1> DEFINE b  == BestPrice("BUY", B)
           a  == BestPrice("SELL", A)
           b2 == BestPrice("BUY", B2)
           a2 == BestPrice("SELL", A2)
<1>1. ASSUME A2 # {}, B # {}
      PROVE  MidOf(B, A) # NA /\ MidOf(B, A2) >= MidOf(B, A)
  <2>1. A # {} /\ A2 \in SUBSET Price
    BY <1>1
  <2>2. b \in B /\ a \in A /\ a2 \in A2 /\ \A p \in A : p >= a
    BY <1>1, <2>1, BestPriceIsBest DEF Sides
  <2>3. b \in Nat /\ a \in Nat /\ a2 \in Nat /\ a2 >= a
    BY <2>2, PricesAreNat
  <2>4. MidOf(B, A) = (b + a) \div 2 /\ MidOf(B, A2) = (b + a2) \div 2
    BY <1>1, <2>1 DEF MidOf
  <2> HIDE DEF b, a, a2
  <2> QED BY <2>3, <2>4 DEF NA
<1>2. ASSUME B2 # {}, A # {}
      PROVE  MidOf(B, A) # NA /\ MidOf(B2, A) <= MidOf(B, A)
  <2>1. B # {} /\ B2 \in SUBSET Price
    BY <1>2
  <2>2. b \in B /\ a \in A /\ b2 \in B2 /\ \A p \in B : p <= b
    BY <1>2, <2>1, BestPriceIsBest DEF Sides
  <2>3. b \in Nat /\ a \in Nat /\ b2 \in Nat /\ b2 <= b
    BY <2>2, PricesAreNat
  <2>4. MidOf(B, A) = (b + a) \div 2 /\ MidOf(B2, A) = (b2 + a) \div 2
    BY <1>2, <2>1 DEF MidOf
  <2> HIDE DEF b, a, b2
  <2> QED BY <2>3, <2>4 DEF NA
<1>3. MidOf(B, A2) # NA => A2 # {} /\ B # {}
  BY DEF MidOf
<1>4. MidOf(B2, A) # NA => B2 # {} /\ A # {}
  BY DEF MidOf
<1> QED BY <1>1, <1>2, <1>3, <1>4

\* The lit loop leaves an order past the pool past it.
LEMMA MatchLitStaysPastThePool ==
    ASSUME IInv, NEW p \in Price, MatchLit(p), NEW o, o.side = incomingSide,
           o.price \in Price, PastThePool(o), UNCHANGED pegs
    PROVE  PastThePool(o)'
<1> DEFINE side == Opposite(incomingSide)
<1>1. /\ p \in DOMAIN book[side] /\ incomingSide \in Sides /\ side \in Sides
      /\ \E q : book' = [book EXCEPT ![side] = WithLevel(@, p, q)]
  BY IncomingOrder DEF MatchLit, IsMatchLevel, Dealing, Opposite, Sides
<1>2. /\ DOMAIN book = Sides /\ Bids \in SUBSET Price /\ Asks \in SUBSET Price
  BY DEF IInv, TypeOK, Bids, Asks, Sides
<1>3. /\ DOMAIN book'[side] \subseteq DOMAIN book[side]
      /\ \A s \in Sides : s # side => book'[s] = book[s]
  BY <1>1, <1>2 DEF WithLevel
<1>4. \/ side = "SELL" /\ incomingSide = "BUY" /\ Asks' \subseteq Asks /\ Bids' = Bids
      \/ side = "BUY" /\ incomingSide = "SELL" /\ Bids' \subseteq Bids /\ Asks' = Asks
  BY <1>1, <1>3 DEF Opposite, Sides, Bids, Asks
<1>5. Mid' # NA => /\ Mid # NA
                   /\ IF incomingSide = "BUY" THEN Mid' >= Mid ELSE Mid' <= Mid
  BY <1>2, <1>4, MidRecedes DEF Mid
<1>6. Mid \in Nat \cup {NA} /\ Mid' \in Nat \cup {NA} /\ o.price \in Nat
  BY <1>2, <1>4, MidIsPriceOrNA, PricesAreNat DEF Mid
<1>7. ASSUME Mid' # NA, ~ CrossesMid(o.side, o.price, Mid)
      PROVE  ~ CrossesMid(o.side, o.price, Mid')
  BY <1>5, <1>6, <1>7 DEF CrossesMid, NA
<1>8. CrossesMid(o.side, o.price, Mid)' <=> CrossesMid(o.side, o.price, Mid')
  OBVIOUS
<1> QED BY <1>5, <1>7, <1>8 DEF PastThePool

LEMMA NextKeepsPoolInv == IInv /\ PoolInv /\ MidStillCurrent /\ [Next]_vars => PoolInv'
<1> SUFFICES ASSUME IInv, PoolInv, MidStillCurrent, [Next]_vars PROVE PoolInv'
  OBVIOUS
<1>1. TermsStay
  BY NextSteps DEF StepsThroughQueues
<1>2. ASSUME NEW t \in Tickets, Arrive(t)
      PROVE  /\ \A r \in Refs' : orders'[r].ordType = "PEG_MID" => orders'[r].peak = 0
             /\ \A o \in {orders'[incoming']} : /\ o.side = t.side /\ o.price = t.price
                                                /\ o.ordType = t.ordType
  <2>1. PICK ts \in Nat : orders'[incoming'] = NewOrder(t, ts)
    BY <1>2, ArrivalGrowsHeap DEF IInv
  <2>2. /\ orders'[incoming'].side = t.side /\ orders'[incoming'].price = t.price
        /\ orders'[incoming'].ordType = t.ordType
    BY <2>1 DEF NewOrder
  <2>3. t.ordType = "PEG_MID" => orders'[incoming'].peak = 0
    <3>1. t.ordType = "PEG_MID" => t.peak = 0
      BY TicketsAssumption DEF ConstructorAccepts
    <3> QED BY <3>1, <2>1 DEF NewOrder
  <2> QED BY <1>2, <2>2, <2>3, ArrivalGrowsHeap DEF PoolInv, IInv
<1>3. ASSUME Refs' = Refs
      PROVE  \A r \in Refs' : orders'[r].ordType = "PEG_MID" => orders'[r].peak = 0
  BY <1>1, <1>3 DEF TermsStay, SameTerms, PoolInv
<1>4. ASSUME NEW t \in Tickets, AddOrder(t) PROVE PoolInv'
  <2>1. /\ Arrive(t) /\ mid' = Mid /\ Mid' = Mid /\ pegs' = pegs
        /\ pc' = IF t.ordType = "PEG_MID"
                 THEN IF Mid = NA THEN "rest" ELSE "pegs"
                 ELSE IF Mid # NA /\ CrossesMid(t.side, t.price, Mid) THEN "pegs" ELSE "lit"
    BY <1>4, SameBookSameMid DEF AddOrder
  <2>2. t.ordType \in {"LIMIT", "PEG_MID"}
    BY TicketsAssumption DEF TicketRecord, OrdTypes
  <2>3. ASSUME NEW o \in {orders'[incoming']}
        PROVE  /\ pc' = "pegs" /\ o.ordType = "LIMIT" => CrossesMid(o.side, o.price, mid)'
               /\ pc' \in {"lit", "rest"} /\ o.quantity > 0 => PastThePool(o)'
    <3>1. o.side = t.side /\ o.price = t.price /\ o.ordType = t.ordType
      BY <1>2, <2>1
    <3> QED BY <2>1, <2>2, <3>1 DEF PastThePool, CrossesMid
  <2> QED BY <1>2, <2>1, <2>3 DEF PoolInv
<1>5. ASSUME NEW t \in Tickets, AddOrderKilled(t) PROVE PoolInv'
  <2>1. Arrive(t) /\ pc' = "idle"
    BY <1>5 DEF AddOrderKilled, Call
  <2> QED BY <1>2, <2>1 DEF PoolInv
<1>6. ASSUME Dealing, Refs' = Refs, incoming' = incoming,
             \A o, w : /\ o = orders'[incoming] /\ w = orders[incoming]
                       /\ SameTerms(o, w) /\ o.quantity \in Nat /\ w.quantity \in Nat
                       => /\ pc' = "pegs" /\ o.ordType = "LIMIT" =>
                                CrossesMid(o.side, o.price, mid)'
                          /\ pc' \in {"lit", "rest"} /\ o.quantity > 0 => PastThePool(o)'
      PROVE  PoolInv'
  <2>1. incoming \in Refs /\ SameTerms(orders'[incoming], orders[incoming])
    BY <1>1, <1>6, IncomingOrder DEF TermsStay
  <2>2. orders[incoming].quantity \in Nat /\ orders'[incoming].quantity \in Nat
    <3>1. IInv'
      BY NextKeepsIInv
    <3>2. orders' \in Seq(OrderRecord)
      BY <3>1 DEF IInv, TypeOK, OrderRecord, OrdTypes, Statuses, Sides, TimesInForce, Price
    <3>3. \A r \in Refs' : orders'[r] \in OrderRecord
      BY <3>2 DEF Refs
    <3>4. \A r \in Refs' : orders'[r].quantity \in Nat
      BY <3>3, OrderFields
    <3> QED BY <1>6, <2>1, <3>4, HeapHoldsOrders, OrderFields DEF IInv
  <2>3. ASSUME NEW o \in {orders'[incoming']}
        PROVE  /\ pc' = "pegs" /\ o.ordType = "LIMIT" => CrossesMid(o.side, o.price, mid)'
               /\ pc' \in {"lit", "rest"} /\ o.quantity > 0 => PastThePool(o)'
    BY <1>6, <2>1, <2>2
  <2> QED BY <1>3, <1>6, <2>3 DEF PoolInv
<1>7. CASE MatchPegPool
  <2>1. MatchPegPoolTrade /\ pc = "pegs" /\ pc' = "pegs" /\ mid' = mid /\ Dealing
    BY <1>7, MatchPegPoolTrades DEF MatchPegPool, Dealing
  <2>2. Refs' = Refs /\ incoming' = incoming
    BY <2>1 DEF MatchPegPoolTrade, Trade
  <2>3. orders[incoming].ordType = "LIMIT" =>
           CrossesMid(orders[incoming].side, orders[incoming].price, mid)
    BY <2>1 DEF PoolInv
  <2> QED BY <1>6, <2>1, <2>2, <2>3 DEF SameTerms, CrossesMid
<1>8. ASSUME NEW p \in Price, MatchLit(p) PROVE PoolInv'
  <2>1. /\ MatchLitTrade(p) /\ pc = "lit" /\ pc' = "lit" /\ UNCHANGED pegs /\ Dealing
        /\ orders[incoming].quantity > 0
    BY <1>8, MatchLitTrades DEF MatchLit, Dealing
  <2>2. Refs' = Refs /\ incoming' = incoming
    BY <2>1 DEF MatchLitTrade, Trade
  <2>3. PastThePool(orders[incoming])
    BY <2>1 DEF PoolInv
  <2>4. orders[incoming].price \in Price /\ orders[incoming].side = incomingSide
    BY <2>1, IncomingOrder DEF IInv, PhaseFacts, LimitsHavePrices
  <2>5. ASSUME NEW o, SameTerms(o, orders[incoming]) PROVE PastThePool(o)'
    <3>1. o.side = incomingSide /\ o.price \in Price /\ PastThePool(o)
      BY <2>3, <2>4, <2>5 DEF SameTerms, PastThePool
    <3> QED BY <1>8, <2>1, <3>1, MatchLitStaysPastThePool
  <2> QED BY <1>6, <2>1, <2>2, <2>5
<1>9. CASE MatchPegPoolEnds \/ MatchLitEnds
  <2>1. /\ UNCHANGED <<orders, book, pegs>> /\ Mid' = Mid /\ pc' \in {"lit", "rest"}
        /\ Dealing
        /\ orders[incoming].quantity > 0 => PastThePool(orders[incoming])
    <3>1. UNCHANGED <<orders, book, pegs>> /\ pc' \in {"lit", "rest"} /\ Dealing
      BY <1>9 DEF MatchPegPoolEnds, MatchLitEnds, books, Dealing
    <3>2. CASE MatchPegPoolEnds
      <4>1. orders[incoming].quantity = 0 \/ pegs[Opposite(incomingSide)] = <<>>
        BY <3>2 DEF MatchPegPoolEnds
      <4> QED BY <4>1, <3>1, SameBookSameMid DEF PastThePool, incomingSide
    <3>3. CASE MatchLitEnds
      <4>1. pc = "lit"
        BY <3>3 DEF MatchLitEnds
      <4> QED BY <4>1, <3>1, SameBookSameMid DEF PoolInv
    <3> QED BY <1>9, <3>2, <3>3
  <2>2. Refs' = Refs /\ incoming' = incoming /\ orders'[incoming] = orders[incoming]
    BY <2>1 DEF Refs, incoming
  <2>3. ASSUME NEW o, o = orders'[incoming], o.quantity > 0 PROVE PastThePool(o)'
    BY <2>1, <2>2, <2>3 DEF PastThePool, CrossesMid
  <2> QED BY <1>6, <2>1, <2>2, <2>3
<1>10. ASSUME Refs' = Refs, pc' \notin {"pegs", "lit", "rest"} PROVE PoolInv'
  BY <1>3, <1>10 DEF PoolInv
<1>11. CASE RestPeg \/ AddToBook \/ ExpireRemainder \/ NoRemainder
               \/ CrossPegPools \/ CrossPegPoolsEnds
  <2>1. pc' \notin {"pegs", "lit", "rest"}
    BY <1>11 DEF RestPeg, AddToBook, ExpireRemainder, NoRemainder, AfterRest, Return,
                 CrossPegPools, CrossPegPoolsEnds
  <2>2. Refs' = Refs
    <3>1. CASE RestPeg \/ AddToBook \/ ExpireRemainder \/ NoRemainder
      BY <3>1, RemainderFinishes DEF Finishes
    <3>2. CASE CrossPegPools
      BY <3>2, CrossPegPoolsTrades DEF CrossPegPoolsTrade, Trade
    <3>3. CASE CrossPegPoolsEnds
      BY <3>3 DEF CrossPegPoolsEnds, Refs
    <3> QED BY <1>11, <3>1, <3>2, <3>3
  <2> QED BY <1>10, <2>1, <2>2
<1>12. ASSUME NEW id \in CancelIds, CancelOrder(id) \/ CancelOrderRefused(id) PROVE PoolInv'
  <2>1. pc' = "idle" /\ Refs' = Refs
    BY <1>12, HeapHoldsOrders DEF CancelOrder, CancelOrderRefused, Call, Refs, IInv
  <2> QED BY <1>10, <2>1
<1>13. CASE UNCHANGED vars
  <2>1. UNCHANGED <<orders, book, pegs, pc, mid>> /\ Mid' = Mid
    BY <1>13, SameBookSameMid DEF vars
  <2> QED BY <2>1 DEF PoolInv, PastThePool, Refs, incoming, CrossesMid
<1> QED BY <1>4, <1>5, <1>7, <1>8, <1>9, <1>11, <1>12, <1>13
     DEF Next, Continue, Exhausted

LEMMA PoolInvHolds == Spec => []PoolInv
<1>1. Init => PoolInv
  BY DEF Init, PoolInv, Refs
<1> QED BY <1>1, NextKeepsPoolInv, IInvHolds, MidStaysCurrent, PTL DEF Spec

-----------------------------------------------------------------------------
(* The engine implements the venue.  Its accounts are read off the heap    *)
(* and the queues; each action is matched with the venue's.                *)

Accounts == [r \in Refs |-> AccountOf(r)]

\* The stages of the orders, one fact at a time.
LEMMA StagesAre ==
    ASSUME IInv, NEW r \in Refs
    PROVE  /\ r \in Settled <=> ~ (Dealing /\ r = incoming)
           /\ StageOf(r) = "resting" <=> r \in Resting
           /\ StageOf(r) = "working" <=> Dealing /\ r = incoming /\ orders[r].quantity > 0
<1>1. r \in Settled <=> ~ (Dealing /\ r = incoming)
  BY DEF Settled, Dealing
<1>2. orders[r].quantity \in Nat
  BY RestingQuantities
<1>3. r \in Resting => orders[r].quantity > 0 /\ r \in Settled
  BY <1>1, RestingQuantities, IncomingOrder
<1> QED BY <1>1, <1>2, <1>3 DEF StageOf, IsOver

\* What the venue reads in the accounts is what the engine has in its queues.
LEMMA VenueSeesTheBook ==
    ASSUME IInv
    PROVE  /\ V!In("working") = {r \in {incoming} : Dealing /\ orders[r].quantity > 0}
           /\ V!In("resting") = Resting
           /\ \A s \in Sides : /\ V!RestingAt(s, "LIMIT") = LitOrders(s)
                               /\ V!RestingAt(s, "PEG_MID") = PegOrders(s)
                               /\ V!Limits(s) = DOMAIN book[s]
           /\ V!HasMid <=> Mid # NA
           /\ Mid # NA => V!Midpoint = Mid
<1>1. /\ V!In("working") = {r \in Refs : StageOf(r) = "working"}
      /\ V!In("resting") = {r \in Refs : StageOf(r) = "resting"}
  BY DEF V!In, AccountOf
<1>2. V!In("working") = {r \in {incoming} : Dealing /\ orders[r].quantity > 0}
  BY <1>1, StagesAre, IncomingOrder
<1>3. V!In("resting") = Resting
  BY <1>1, StagesAre, RestingQuantities
<1>4. \A s \in Sides : \A ordType : V!RestingAt(s, ordType) =
         {r \in Resting : orders[r].side = s /\ orders[r].ordType = ordType}
  BY <1>3, RestingQuantities DEF V!RestingAt, AccountOf
<1>5. \A s \in Sides : /\ \A r \in PegOrders(s) : orders[r].side = s /\ orders[r].ordType = "PEG_MID"
                       /\ \A r \in LitOrders(s) : orders[r].side = s /\ orders[r].ordType = "LIMIT"
  BY RestingOrders DEF IInv, LitOrders
<1>6. ASSUME NEW s \in Sides
      PROVE  V!RestingAt(s, "LIMIT") = LitOrders(s) /\ V!RestingAt(s, "PEG_MID") = PegOrders(s)
  <2>1. LitOrders(s) \subseteq Resting /\ PegOrders(s) \subseteq Resting
    BY DEF Resting
  <2>2. \A r \in Resting : /\ orders[r].side = s /\ orders[r].ordType = "LIMIT" => r \in LitOrders(s)
                           /\ orders[r].side = s /\ orders[r].ordType = "PEG_MID" => r \in PegOrders(s)
    BY <1>5 DEF Resting
  <2>3. LitOrders(s) = {r \in Resting : orders[r].side = s /\ orders[r].ordType = "LIMIT"}
    BY <1>5, <2>1, <2>2
  <2>4. PegOrders(s) = {r \in Resting : orders[r].side = s /\ orders[r].ordType = "PEG_MID"}
    BY <1>5, <2>1, <2>2
  <2> QED BY <1>4, <2>3, <2>4
<1>7. ASSUME NEW s \in Sides PROVE V!Limits(s) = DOMAIN book[s]
  <2>1. V!Limits(s) = {orders[r].price : r \in LitOrders(s)}
    BY <1>6, RestingQuantities DEF V!Limits, AccountOf
  <2>2. \A p \in DOMAIN book[s] : /\ book[s][p] # <<>> /\ book[s][p] \in Seq(Refs)
                                  /\ \A r \in Range(book[s][p]) : orders[r].price = p
    BY RestingOrders DEF IInv
  <2>3. \A p \in DOMAIN book[s] : \E r \in Range(book[s][p]) : orders[r].price = p
    <3> SUFFICES ASSUME NEW p \in DOMAIN book[s]
                 PROVE  \E r \in Range(book[s][p]) : orders[r].price = p
      OBVIOUS
    <3>1. Head(book[s][p]) \in Range(book[s][p])
      BY <2>2, Positions DEF Range
    <3> QED BY <3>1, <2>2
  <2> QED BY <2>1, <2>2, <2>3 DEF LitOrders
<1>8. V!Limits("BUY") = Bids /\ V!Limits("SELL") = Asks
  BY <1>7 DEF Bids, Asks, Sides
<1>9. Bids \in SUBSET Price /\ Asks \in SUBSET Price
  BY DEF IInv, TypeOK, Bids, Asks, Sides
<1>10. ASSUME Bids # {}, Asks # {} PROVE V!Midpoint = Mid /\ Mid # NA
  <2>1. V!Midpoint = (V!Max(Bids) + V!Min(Asks)) \div 2
    BY <1>8 DEF V!Midpoint
  <2>2. V!Max(Bids) = BestPrice("BUY", Bids) /\ V!Min(Asks) = BestPrice("SELL", Asks)
    BY DEF V!Max, V!Min, Max, Min, BestPrice
  <2>3. Mid = (BestPrice("BUY", Bids) + BestPrice("SELL", Asks)) \div 2
    BY <1>10 DEF Mid, MidOf
  <2>4. BestPrice("BUY", Bids) \in Nat /\ BestPrice("SELL", Asks) \in Nat
    BY <1>9, <1>10, BestPriceIsBest, PricesAreNat DEF Sides
  <2> QED BY <2>1, <2>2, <2>3, <2>4 DEF NA
<1>11. V!HasMid <=> Bids # {} /\ Asks # {}
  BY <1>8 DEF V!HasMid
<1>12. Mid # NA => Bids # {} /\ Asks # {}
  BY DEF Mid, MidOf
<1> QED BY <1>2, <1>3, <1>6, <1>7, <1>10, <1>11, <1>12

\* So the venue is quiet whenever no call is running.
LEMMA IdleIsQuiet == IInv /\ PegPoolsSettled /\ pc = "idle" => V!Quiet
<1> SUFFICES ASSUME IInv, PegPoolsSettled, pc = "idle" PROVE V!Quiet
  OBVIOUS
<1>1. V!In("working") = {}
  BY VenueSeesTheBook DEF Dealing
<1>2. V!PegsMustTrade => Mid # NA /\ \A s \in Sides : PegOrders(s) # {}
  BY VenueSeesTheBook DEF V!PegsMustTrade, V!Sides, Sides
<1>3. ASSUME NEW s \in Sides, pegs[s] = <<>> PROVE PegOrders(s) = {}
  BY <1>3 DEF PegOrders, Range
<1> QED BY <1>1, <1>2, <1>3 DEF V!Quiet, PegPoolsSettled

\* The orders an account or a ticket may trade with.
LEMMA VenueSeesTheContra ==
    ASSUME IInv, NEW a, a.side \in Sides, a.ordType \in OrdTypes
    PROVE  /\ V!PegContra(a) = IF Mid # NA /\ (a.ordType = "LIMIT" => CrossesMid(a.side, a.price, Mid))
                               THEN PegOrders(Opposite(a.side)) ELSE {}
           /\ V!LitContra(a) = IF a.ordType = "LIMIT" THEN MarketableOrders(a.side, a.price) ELSE {}
<1>1. V!Opposite(a.side) = Opposite(a.side) /\ Opposite(a.side) \in Sides
  BY DEF V!Opposite, Opposite, Sides
<1>2. a.ordType = "LIMIT" <=> a.ordType # "PEG_MID"
  BY DEF OrdTypes
<1>3. \A price : V!Accepts(a, price) <=>
         (a.ordType = "LIMIT" => IF a.side = "BUY" THEN price <= a.price ELSE price >= a.price)
  BY <1>2 DEF V!Accepts, Sides
<1>4. V!Accepts(a, Mid) <=> (a.ordType = "LIMIT" => CrossesMid(a.side, a.price, Mid))
  BY <1>3 DEF CrossesMid
<1>5. V!PegContra(a) = IF Mid # NA /\ V!Accepts(a, Mid) THEN PegOrders(Opposite(a.side)) ELSE {}
  BY <1>1, VenueSeesTheBook DEF V!PegContra
<1>6. ASSUME a.ordType = "LIMIT" PROVE V!LitContra(a) = MarketableOrders(a.side, a.price)
  <2>1. V!LitContra(a) = {q \in LitOrders(Opposite(a.side)) : V!Accepts(a, orders[q].price)}
    BY <1>1, <1>2, <1>6, VenueSeesTheBook, RestingQuantities DEF V!LitContra, AccountOf
  <2> QED BY <2>1, <1>3, <1>6 DEF MarketableOrders, Marketable
<1>7. a.ordType # "LIMIT" => V!LitContra(a) = {}
  BY <1>2 DEF V!LitContra
<1> QED BY <1>4, <1>5, <1>6, <1>7

\* An account stays as it is while its order keeps its terms, quantity and place.
LEMMA AccountStays ==
    ASSUME IInv, NEW r \in Refs, r \in Refs', SameTerms(orders'[r], orders[r]),
           orders'[r].quantity = orders[r].quantity,
           orders'[r].status = orders[r].status,
           r \in Resting' <=> r \in Resting,
           orders[r].quantity > 0 => (r \in Settled' <=> r \in Settled)
    PROVE  AccountOf(r)' = AccountOf(r)
<1>1. orders[r].quantity \in Nat
  BY RestingQuantities
<1>2. StageOf(r)' = StageOf(r)
  BY <1>1, StagesAre DEF StageOf, IsOver
<1> QED BY <1>2 DEF AccountOf, SameTerms

\* A fill of an account, field by field.
LEMMA FilledAccount ==
    ASSUME NEW side, NEW ordType, NEW tif, NEW price, NEW orderQty, NEW remaining,
           NEW stage, NEW n
    PROVE  V!Filled([ side |-> side, ordType |-> ordType, tif |-> tif, price |-> price,
                      orderQty |-> orderQty, remaining |-> remaining, stage |-> stage ], n)
             = [ side |-> side, ordType |-> ordType, tif |-> tif, price |-> price,
                 orderQty |-> orderQty, remaining |-> remaining - n,
                 stage |-> IF remaining = n THEN "filled" ELSE stage ]
<1> DEFINE With(x, y) == [ side |-> side, ordType |-> ordType, tif |-> tif, price |-> price,
                           orderQty |-> orderQty, remaining |-> x, stage |-> y ]
           next == IF remaining = n THEN "filled" ELSE stage
           a == With(remaining, stage)
           b == [a EXCEPT !.remaining = remaining - n]
<1>1. a.remaining = remaining /\ a.stage = stage
  OBVIOUS
<1>2. b = With(remaining - n, stage)
  OBVIOUS
<1>3. [b EXCEPT !.stage = next] = With(remaining - n, next)
  <2> HIDE DEF b, next
  <2> QED BY <1>2
<1>4. [a EXCEPT !.remaining = remaining - n, !.stage = next] = [b EXCEPT !.stage = next]
  <2> HIDE DEF next
  <2> QED OBVIOUS
<1>5. V!Filled(a, n) = [a EXCEPT !.remaining = remaining - n, !.stage = next]
  <2> HIDE DEF a
  <2> QED BY <1>1 DEF V!Filled
<1> HIDE DEF a, b
<1> QED BY <1>3, <1>4, <1>5 DEF a

\* A trade of the engine is an exchange of the venue.
LEMMA TradeExchanges ==
    ASSUME IInv, NEW a, NEW h, NEW n, NEW price, Trade(a, h, n, price),
           NEW buyer, NEW seller,
           IF orders[a].side = "BUY" THEN buyer = a /\ seller = h ELSE buyer = h /\ seller = a
    PROVE  V!Exchange(buyer, seller, n, price)
<1>1. /\ a \in Refs /\ h \in Refs /\ a # h /\ Refs' = Refs /\ TermsStay
      /\ n \in 1 .. orders[a].quantity /\ n \in 1 .. orders[h].quantity
      /\ orders[a].quantity \in Nat /\ orders[h].quantity \in Nat
  BY RestingQuantities DEF Trade
<1>2. Resting' = Resting \ Gone(a, h, n)
  BY TradeLeavesResting
<1>3. \A r \in Refs : r \in Settled' <=> r \in Settled
  BY DEF Trade, Settled
<1>4. ASSUME NEW r \in Refs \ {a, h} PROVE AccountOf(r)' = AccountOf(r)
  <2>1. r \in Resting' <=> r \in Resting
    BY <1>2 DEF Gone
  <2>2. orders'[r] = orders[r]
    BY DEF Trade
  <2> QED BY <1>1, <1>3, <1>4, <2>1, <2>2, AccountStays DEF SameTerms
<1>5. ASSUME NEW r \in {a, h}
      PROVE  AccountOf(r)' = V!Filled(AccountOf(r), n)
  <2>1. /\ r \in Refs /\ orders[r].quantity \in Nat /\ n \in 1 .. orders[r].quantity
        /\ SameTerms(orders'[r], orders[r]) /\ orders'[r].quantity = orders[r].quantity - n
    BY <1>1 DEF Trade, TermsStay
  <2>2. r \in Resting \/ (Dealing /\ r = incoming)
    BY DEF Trade
  <2>3. r \in Resting' <=> r \in Resting /\ orders[r].quantity # n
    BY <1>2 DEF Gone
  <2>4. r \in Settled <=> ~ (Dealing /\ r = incoming)
    BY <2>1, StagesAre
  <2>5. Dealing /\ r = incoming => r \notin Resting
    BY IncomingOrder
  <2>6. StageOf(r)' = IF orders[r].quantity = n THEN "filled" ELSE StageOf(r)
    <3>1. CASE orders[r].quantity = n
      <4>1. orders'[r].quantity = 0 /\ r \notin Resting'
        BY <2>1, <2>3, <3>1
      <4> QED BY <3>1, <4>1 DEF StageOf, IsOver
    <3>2. CASE orders[r].quantity # n
      <4>1. orders'[r].quantity > 0 /\ orders[r].quantity > 0
        BY <2>1, <3>2
      <4>2. r \in Resting' <=> r \in Resting
        BY <2>3, <3>2
      <4>3. r \in Settled' <=> r \in Settled
        BY <1>3, <2>1
      <4>4. CASE r \in Resting
        BY <4>1, <4>2, <4>3, <4>4, <2>4, <2>5, <3>2 DEF StageOf, IsOver
      <4>5. CASE r \notin Resting
        BY <4>1, <4>2, <4>3, <4>5, <2>2, <2>4, <3>2 DEF StageOf, IsOver
      <4> QED BY <4>4, <4>5
    <3> QED BY <3>1, <3>2
  <2>7. V!Filled(AccountOf(r), n) =
           [ side |-> orders[r].side, ordType |-> orders[r].ordType, tif |-> orders[r].tif,
             price |-> orders[r].price, orderQty |-> orders[r].orderQty,
             remaining |-> orders[r].quantity - n,
             stage |-> IF orders[r].quantity = n THEN "filled" ELSE StageOf(r) ]
    <3> DEFINE stage == StageOf(r)
    <3> HIDE DEF stage
    <3>1. AccountOf(r) = [ side |-> orders[r].side, ordType |-> orders[r].ordType,
             tif |-> orders[r].tif, price |-> orders[r].price, orderQty |-> orders[r].orderQty,
             remaining |-> orders[r].quantity, stage |-> stage ]
      BY DEF AccountOf, stage
    <3> QED BY <3>1, FilledAccount DEF stage
  <2> QED BY <2>1, <2>6, <2>7 DEF AccountOf, SameTerms
<1>6. /\ Accounts' = [Accounts EXCEPT ![buyer] = V!Filled(@, n), ![seller] = V!Filled(@, n)]
      /\ DOMAIN Accounts = Refs /\ \A r \in Refs : Accounts[r] = AccountOf(r)
  BY <1>1, <1>4, <1>5 DEF Accounts
<1>7. n \in 1 .. V!Least(Accounts[buyer].remaining, Accounts[seller].remaining)
  BY <1>1, <1>6 DEF V!Least, AccountOf
<1>8. trades' = Append(trades, [buy |-> buyer, sell |-> seller, price |-> price, quantity |-> n])
  BY <1>1 DEF Trade, Execute
<1> QED BY <1>6, <1>7, <1>8 DEF V!Exchange, Accounts

\* A queue in order of arrival has its least reference at its head.
LEMMA HeadOfPoolIsOldest ==
    ASSUME IInv, TimePriority, PoolInv, NEW s \in Sides, pegs[s] # <<>>
    PROVE  /\ Head(pegs[s]) \in PegOrders(s)
           /\ V!Min(PegOrders(s)) = Head(pegs[s])
<1>1. /\ pegs[s] \in Seq(Refs)
      /\ \A r \in PegOrders(s) : r \in Refs /\ orders[r].ordType = "PEG_MID"
  BY RestingOrders DEF IInv
<1>2. Refs \subseteq Nat
  BY HeapHoldsOrders DEF IInv
<1>3. /\ Head(pegs[s]) = pegs[s][1] /\ 1 \in DOMAIN pegs[s]
      /\ DOMAIN pegs[s] = 1 .. Len(pegs[s]) /\ Len(pegs[s]) \in Nat
  BY <1>1, Positions
<1>4. \A i \in DOMAIN pegs[s] : pegs[s][i] \in PegOrders(s) /\ orders[pegs[s][i]].peak = 0
  BY <1>1 DEF PegOrders, Range, PoolInv
<1>5. \A i \in DOMAIN pegs[s] : Head(pegs[s]) <= pegs[s][i]
  <2> SUFFICES ASSUME NEW i \in DOMAIN pegs[s] PROVE Head(pegs[s]) <= pegs[s][i]
    OBVIOUS
  <2>1. 1 < i => pegs[s][1] < pegs[s][i]
    BY <1>3, <1>4 DEF TimePriority, InArrivalOrder
  <2>2. pegs[s][i] \in Refs
    BY <1>1, <1>4
  <2>3. i = 1 \/ 1 < i
    BY <1>3
  <2>4. pegs[s][1] \in Refs
    BY <1>1, <1>3, <1>4
  <2>5. \A x, y \in Nat : x = y \/ x < y => x <= y
    OBVIOUS
  <2>6. Head(pegs[s]) = pegs[s][1] /\ pegs[s][1] \in Nat /\ pegs[s][i] \in Nat
    BY <1>2, <1>3, <2>2, <2>4
  <2> QED BY <2>1, <2>3, <2>5, <2>6
<1>6. Head(pegs[s]) \in PegOrders(s) /\ \A r \in PegOrders(s) : Head(pegs[s]) <= r
  BY <1>3, <1>4, <1>5 DEF PegOrders, Range
<1> QED BY <1>1, <1>2, <1>6 DEF V!Min

\* The working order trades as the venue says: with the pool first, oldest peg first.
LEMMA MatchPegPoolIsTradeWorking ==
    ASSUME IInv, MidStillCurrent, TimePriority, PoolInv, MatchPegPool
    PROVE  V!VenueNext
<1> DEFINE side == Opposite(incomingSide)
           h == Head(pegs[side])
           n == Least(orders[incoming].quantity, orders[h].quantity)
           order == AccountOf(incoming)
<1>1. /\ pc = "pegs" /\ Dealing /\ orders[incoming].quantity > 0 /\ pegs[side] # <<>>
      /\ mid = Mid /\ Mid # NA
  BY DEF MatchPegPool, Dealing, MidStillCurrent, IInv, PhaseFacts
<1>2. Trade(incoming, h, n, Mid)
  BY <1>1, MatchPegPoolTrades DEF MatchPegPoolTrade
<1>3. /\ incoming \in Refs /\ incomingSide \in Sides /\ side \in Sides
      /\ orders[incoming].side = incomingSide /\ orders[incoming].ordType \in OrdTypes
  BY <1>1, IncomingOrder, OrderFields DEF Opposite, Sides
<1>4. /\ order = Accounts[incoming] /\ order.side = incomingSide
      /\ order.ordType = orders[incoming].ordType /\ order.price = orders[incoming].price
      /\ order.remaining = orders[incoming].quantity /\ DOMAIN Accounts = Refs
  BY <1>3 DEF Accounts, AccountOf
<1>5. order.ordType = "LIMIT" => CrossesMid(order.side, order.price, Mid)
  BY <1>1, <1>3, <1>4 DEF PoolInv
<1>6. V!PegContra(order) = PegOrders(side)
  BY <1>1, <1>3, <1>4, <1>5, VenueSeesTheContra
<1>7. h = V!Min(PegOrders(side)) /\ h \in PegOrders(side) /\ h \in Refs
  BY <1>1, <1>2, <1>3, HeadOfPoolIsOldest DEF Trade
<1>8. incoming \in V!In("working")
  BY <1>1, VenueSeesTheBook
<1>9. V!Midpoint = Mid
  BY <1>1, VenueSeesTheBook
<1>10. IF order.side = "BUY" THEN V!Exchange(incoming, h, n, Mid)
                             ELSE V!Exchange(h, incoming, n, Mid)
  BY <1>2, <1>3, <1>4, TradeExchanges
<1> HIDE DEF order, h, n
<1>11. V!TradeWorking(incoming, h, n)
  BY <1>4, <1>6, <1>7, <1>8, <1>9, <1>10 DEF V!TradeWorking, Accounts
<1>12. n \in 1 .. Accounts[incoming].remaining
  BY <1>2, <1>4 DEF Trade
<1> QED BY <1>3, <1>4, <1>7, <1>11, <1>12 DEF V!VenueNext, Accounts

\* Past the pool, the working order may trade in the lit book alone, and a remainder that
\* is done with the loops with nobody.
LEMMA NothingInThePool ==
    ASSUME IInv, PoolInv, pc \in {"lit", "rest"}, orders[incoming].quantity > 0
    PROVE  /\ V!PegContra(AccountOf(incoming)) = {}
           /\ V!LitContra(AccountOf(incoming)) =
                 IF orders[incoming].ordType = "LIMIT"
                 THEN MarketableOrders(incomingSide, orders[incoming].price) ELSE {}
           /\ pc = "rest" => V!Contra(AccountOf(incoming)) = {}
<1> DEFINE side == Opposite(incomingSide)
           order == AccountOf(incoming)
<1>1. /\ incoming \in Refs /\ incomingSide \in Sides /\ side \in Sides
      /\ orders[incoming].side = incomingSide /\ orders[incoming].ordType \in OrdTypes
  BY IncomingOrder, OrderFields DEF Opposite, Sides, Dealing
<1>2. /\ order.side = incomingSide
      /\ order.ordType = orders[incoming].ordType /\ order.price = orders[incoming].price
  BY <1>1 DEF AccountOf
<1>3. PastThePool(orders[incoming])
  BY DEF PoolInv
<1>4. pegs[side] = <<>> => PegOrders(side) = {}
  BY DEF PegOrders, Range
<1>5. V!PegContra(order) = {}
  BY <1>1, <1>2, <1>3, <1>4, VenueSeesTheContra DEF PastThePool
<1>6. V!LitContra(order) = IF orders[incoming].ordType = "LIMIT"
                           THEN MarketableOrders(incomingSide, orders[incoming].price) ELSE {}
  BY <1>1, <1>2, VenueSeesTheContra
<1>7. ASSUME pc = "rest", orders[incoming].ordType = "LIMIT"
      PROVE  MarketableOrders(incomingSide, orders[incoming].price) = {}
  <2>1. \A p \in DOMAIN book[side] : ~ Marketable(incomingSide, orders[incoming].price, p)
    BY <1>7 DEF IInv, PhaseFacts
  <2>2. \A r \in LitOrders(side) : orders[r].price \in DOMAIN book[side]
    BY <1>1, RestingOrders DEF IInv, LitOrders
  <2> QED BY <2>1, <2>2 DEF MarketableOrders
<1> HIDE DEF order
<1>8. pc = "rest" => V!Contra(order) = {}
  BY <1>5, <1>6, <1>7 DEF V!Contra
<1> QED BY <1>5, <1>6, <1>8 DEF order

\* Then with the lit book, at its best price.
LEMMA MatchLitIsTradeWorking ==
    ASSUME IInv, PoolInv, NEW p \in Price, MatchLit(p)
    PROVE  V!VenueNext
<1> DEFINE side == Opposite(incomingSide)
           h == Head(book[side][p])
           n == Least(orders[incoming].quantity, orders[h].visibleQty)
           order == AccountOf(incoming)
<1>1. /\ pc = "lit" /\ Dealing /\ orders[incoming].quantity > 0
      /\ orders[incoming].ordType = "LIMIT"
      /\ p \in DOMAIN book[side] /\ p = BestPrice(side, DOMAIN book[side])
      /\ Marketable(incomingSide, orders[incoming].price, p)
  BY DEF MatchLit, IsMatchLevel, Dealing, IInv, PhaseFacts
<1>2. Trade(incoming, h, n, p) /\ h \in Range(book[side][p])
  BY <1>1, MatchLitTrades DEF MatchLitTrade
<1>3. /\ incoming \in Refs /\ incomingSide \in Sides /\ side \in Sides
      /\ orders[incoming].side = incomingSide
  BY <1>1, IncomingOrder DEF Opposite, Sides
<1>4. /\ order = Accounts[incoming] /\ order.side = incomingSide
      /\ order.remaining = orders[incoming].quantity /\ DOMAIN Accounts = Refs
      /\ \A r \in Refs : Accounts[r].price = orders[r].price
  BY <1>3 DEF Accounts, AccountOf
<1>5. /\ V!PegContra(order) = {}
      /\ V!LitContra(order) = MarketableOrders(incomingSide, orders[incoming].price)
  BY <1>1, NothingInThePool
<1>6. /\ h \in Refs /\ orders[h].price = p /\ h \in LitOrders(side)
      /\ \A r \in LitOrders(side) : r \in Refs /\ orders[r].price \in DOMAIN book[side]
  BY <1>1, <1>2, <1>3, RestingOrders DEF IInv, LitOrders
<1>7. h \in MarketableOrders(incomingSide, orders[incoming].price)
  BY <1>1, <1>6 DEF MarketableOrders
<1>8. \A other \in MarketableOrders(incomingSide, orders[incoming].price) :
         /\ other \in Refs
         /\ IF incomingSide = "BUY" THEN p <= orders[other].price ELSE p >= orders[other].price
  <2>1. DOMAIN book[side] \in SUBSET Price /\ DOMAIN book[side] # {}
    BY <1>1, <1>3 DEF IInv, TypeOK
  <2>2. \A q \in DOMAIN book[side] : /\ side = "BUY" => q <= p
                                     /\ side # "BUY" => q >= p
                                     /\ q \in Nat /\ p \in Nat
    BY <1>1, <1>3, <2>1, BestPriceIsBest, PricesAreNat
  <2>3. side = "BUY" <=> incomingSide # "BUY"
    BY <1>3 DEF Opposite, Sides
  <2> QED BY <1>6, <2>2, <2>3 DEF MarketableOrders
<1>9. incoming \in V!In("working")
  BY <1>1, VenueSeesTheBook
<1>10. IF order.side = "BUY" THEN V!Exchange(incoming, h, n, p)
                             ELSE V!Exchange(h, incoming, n, p)
  BY <1>2, <1>3, <1>4, TradeExchanges
<1> HIDE DEF order, h, n
<1>11. V!TradeWorking(incoming, h, n)
  BY <1>4, <1>5, <1>6, <1>7, <1>8, <1>9, <1>10 DEF V!TradeWorking, Accounts
<1>12. n \in 1 .. Accounts[incoming].remaining
  BY <1>2, <1>4 DEF Trade
<1> QED BY <1>3, <1>4, <1>6, <1>11, <1>12 DEF V!VenueNext, Accounts

\* And two resting pegs trade, each the oldest of its side.
LEMMA CrossPegPoolsIsTradePegs ==
    ASSUME IInv, MidStillCurrent, TimePriority, PoolInv, CrossPegPools
    PROVE  V!VenueNext
<1> DEFINE b == Head(pegs["BUY"])
           s == Head(pegs["SELL"])
           g == LaterArrival(b, s)
           n == Least(orders[b].quantity, orders[s].quantity)
<1>1. /\ pc = "cross" /\ ~ Dealing /\ pegs["BUY"] # <<>> /\ pegs["SELL"] # <<>>
      /\ mid = Mid /\ Mid # NA
  BY DEF CrossPegPools, Dealing, MidStillCurrent
<1>2. Trade(g, IF g = b THEN s ELSE b, n, Mid) /\ g \in {b, s}
  BY <1>1, CrossPegPoolsTrades DEF CrossPegPoolsTrade, LaterArrival
<1>3. /\ b \in PegOrders("BUY") /\ b = V!Min(PegOrders("BUY"))
      /\ s \in PegOrders("SELL") /\ s = V!Min(PegOrders("SELL"))
  BY <1>1, HeadOfPoolIsOldest DEF Sides
<1>4. b \in Refs /\ orders[b].side = "BUY" /\ s \in Refs /\ orders[s].side = "SELL"
  BY <1>3, RestingOrders DEF IInv, Sides
<1>5. n \in 1 .. orders[b].quantity
  BY <1>2, <1>4 DEF Trade
<1> HIDE DEF b, s, n
<1>6. V!Exchange(b, s, n, Mid)
  BY <1>2, <1>4, TradeExchanges
<1>7. /\ V!In("working") = {} /\ V!PegsMustTrade /\ V!Midpoint = Mid
      /\ V!RestingAt("BUY", "PEG_MID") = PegOrders("BUY")
      /\ V!RestingAt("SELL", "PEG_MID") = PegOrders("SELL")
  BY <1>1, <1>3, VenueSeesTheBook DEF V!PegsMustTrade, V!Sides, Sides
<1>8. V!TradePegs(n)
  BY <1>3, <1>6, <1>7 DEF V!TradePegs
<1>9. Accounts[b].remaining = orders[b].quantity /\ DOMAIN Accounts = Refs
  BY <1>4 DEF Accounts, AccountOf
<1> QED BY <1>4, <1>5, <1>8, <1>9 DEF V!VenueNext, Accounts

\* One order changes its stage and nothing else does.
LEMMA OneStageMoves ==
    ASSUME IInv, NEW r \in Refs, NEW stage, Refs' = Refs, trades' = trades,
           SameTerms(orders'[r], orders[r]), orders'[r].quantity = orders[r].quantity,
           StageOf(r)' = stage,
           \A x \in Refs \ {r} : AccountOf(x)' = AccountOf(x)
    PROVE  V!SetStage(r, stage)
<1> DEFINE old == StageOf(r)
<1>1. AccountOf(r) =
         [ side |-> orders[r].side, ordType |-> orders[r].ordType, tif |-> orders[r].tif,
           price |-> orders[r].price, orderQty |-> orders[r].orderQty,
           remaining |-> orders[r].quantity, stage |-> old ]
  BY DEF AccountOf
<1>2. AccountOf(r)' =
         [ side |-> orders[r].side, ordType |-> orders[r].ordType, tif |-> orders[r].tif,
           price |-> orders[r].price, orderQty |-> orders[r].orderQty,
           remaining |-> orders[r].quantity, stage |-> stage ]
  BY DEF AccountOf, SameTerms
<1> HIDE DEF old
<1>3. AccountOf(r)' = [AccountOf(r) EXCEPT !.stage = stage]
  BY <1>1, <1>2
<1>4. Accounts' = [Accounts EXCEPT ![r].stage = stage]
  BY <1>3 DEF Accounts
<1> QED BY <1>4 DEF V!SetStage, Accounts

\* The remainder of the working order rests, or it is given up.
LEMMA RemainderRestsOrGoes ==
    ASSUME IInv, IndexInv, PoolInv, FokInv, RestPeg \/ AddToBook \/ ExpireRemainder, TermsStay
    PROVE  V!VenueNext
<1> DEFINE order == orders[incoming]
<1>1. /\ pc = "rest" /\ Dealing /\ order.quantity > 0 /\ ~ Dealing'
      /\ \/ order.tif = "GTC" /\ (RestPeg \/ AddToBook)
         \/ order.tif # "GTC" /\ ExpireRemainder
  BY DEF RestPeg, AddToBook, ExpireRemainder, AfterRest, Return, Dealing
<1>2. /\ incoming \in Refs /\ incoming \notin Resting /\ order \in OrderRecord
      /\ order.tif \in TimesInForce /\ order.quantity \in Nat
  BY <1>1, IncomingOrder, OrderFields
<1>3. /\ Refs' = Refs /\ incoming' = incoming /\ trades' = trades
      /\ \A r \in Refs : orders'[r].quantity = orders[r].quantity
  BY RemainderFinishes DEF Finishes
<1>4. Resting' = IF order.tif = "GTC" THEN Resting \cup {incoming} ELSE Resting
  BY <1>1, RemainderFinishes DEF Finishes
<1>5. \A r \in Refs : SameTerms(orders'[r], orders[r])
  BY DEF TermsStay
<1>6. \A r \in Refs \ {incoming} : r \in Settled' /\ r \in Settled
  BY <1>1, <1>3 DEF Settled, Dealing
<1>7. incoming \in Settled'
  BY <1>1, <1>2, <1>3 DEF Settled, Dealing
<1>8. /\ orders'[incoming].status = IF order.tif = "GTC" THEN order.status ELSE "EXPIRED"
      /\ \A r \in Refs \ {incoming} : orders'[r] = orders[r]
  <2>1. CASE RestPeg
    BY <1>1, <2>1 DEF RestPeg
  <2>2. CASE AddToBook
    <3>1. orders' = [orders EXCEPT ![incoming] = RefreshDisplay(order)]
      BY <2>2 DEF AddToBook
    <3>2. RefreshDisplay(order).status = order.status
      BY <1>2 DEF RefreshDisplay, OrderRecord
    <3> QED BY <1>1, <1>2, <2>2, <3>1, <3>2 DEF AddToBook, Refs
  <2>3. CASE ExpireRemainder
    <3>1. orders' = [orders EXCEPT ![incoming] = Expire(order)]
      BY <2>3 DEF ExpireRemainder
    <3>2. Expire(order).status = "EXPIRED"
      BY <1>2 DEF Expire, OrderRecord
    <3> QED BY <1>1, <1>2, <2>3, <3>1, <3>2 DEF ExpireRemainder, Refs
  <2> QED BY <2>1, <2>2, <2>3
<1>9. \A x \in Refs \ {incoming} : AccountOf(x)' = AccountOf(x)
  <2> SUFFICES ASSUME NEW x \in Refs \ {incoming} PROVE AccountOf(x)' = AccountOf(x)
    OBVIOUS
  <2> QED BY <1>3, <1>4, <1>5, <1>6, <1>8, AccountStays
<1>10. /\ incoming \in V!In("working") /\ V!Contra(Accounts[incoming]) = {}
       /\ Accounts[incoming].tif = order.tif /\ incoming \in DOMAIN Accounts
  <2>1. Accounts[incoming] = AccountOf(incoming) /\ incoming \in DOMAIN Accounts
    BY <1>2 DEF Accounts
  <2>2. V!Contra(AccountOf(incoming)) = {} /\ incoming \in V!In("working")
    BY <1>1, NothingInThePool, VenueSeesTheBook
  <2> QED BY <2>1, <2>2 DEF AccountOf
<1> HIDE DEF order
<1>11. CASE order.tif = "GTC"
  <2>1. StageOf(incoming)' = "resting"
    <3>1. incoming \in Resting' /\ orders'[incoming].quantity > 0
      BY <1>1, <1>2, <1>3, <1>4, <1>11 DEF order
    <3>2. orders'[incoming].quantity # 0
      BY <1>1, <1>2, <1>3 DEF order
    <3> QED BY <1>3, <1>7, <3>1, <3>2 DEF StageOf, IsOver
  <2>2. V!SetStage(incoming, "resting")
    BY <1>2, <1>3, <1>5, <1>9, <2>1, OneStageMoves
  <2>3. V!Rest(incoming)
    BY <1>10, <1>11, <2>2 DEF V!Rest, Accounts
  <2> QED BY <1>10, <2>3 DEF V!VenueNext, Accounts
<1>12. CASE order.tif # "GTC"
  <2>1. order.tif # "FOK"
    BY <1>1, <1>2 DEF FokInv, EnoughAhead, order
  <2>2. StageOf(incoming)' = "expired"
    <3>1. /\ incoming \notin Resting' /\ orders'[incoming].quantity # 0
          /\ orders'[incoming].quantity > 0 /\ orders'[incoming].status = "EXPIRED"
      BY <1>1, <1>2, <1>3, <1>4, <1>8, <1>12 DEF order
    <3> QED BY <1>3, <1>7, <3>1 DEF StageOf, IsOver
  <2>3. V!SetStage(incoming, "expired")
    BY <1>2, <1>3, <1>5, <1>9, <2>2, OneStageMoves
  <2>4. V!GiveUp(incoming)
    BY <1>2, <1>10, <1>12, <2>1, <2>3 DEF V!GiveUp, Accounts, TimesInForce
  <2> QED BY <1>10, <2>4 DEF V!VenueNext, Accounts
<1> QED BY <1>11, <1>12

\* A cancel that finds its order is a withdrawal.
LEMMA CancelIsWithdraw ==
    ASSUME IInv, IndexInv, PegPoolsSettled, NEW id \in CancelIds, CancelOrder(id)
    PROVE  V!VenueNext
<1> SUFFICES ASSUME NEW r, r = openOrders[id] PROVE V!VenueNext
  OBVIOUS
<1> DEFINE o == Cancel(orders[r])
<1>1. /\ r \in Refs /\ r \in Resting /\ Refs' = Refs /\ TermsStay /\ Resting' = Resting \ {r}
  BY CancelOrderLeaves DEF NamedOrderLeaves
<1>2. /\ orders' = [orders EXCEPT ![r] = o] /\ trades' = trades /\ pc = "idle" /\ pc' = "idle"
  BY DEF CancelOrder, Call
<1>3. o.quantity = orders[r].quantity /\ o.status = "CANCELLED"
  BY <1>1, HeapHoldsOrders DEF IInv, Cancel, OrderRecord
<1>4. orders[r].quantity \in Nat /\ orders[r].quantity > 0
  BY <1>1, RestingQuantities
<1> HIDE DEF o
<1>5. orders'[r] = o /\ \A x \in Refs \ {r} : orders'[x] = orders[x]
  BY <1>1, <1>2 DEF Refs
<1>6. \A x \in Refs : x \in Settled' /\ x \in Settled
  BY <1>1, <1>2 DEF Settled
<1>7. \A x \in Refs \ {r} : AccountOf(x)' = AccountOf(x)
  <2> SUFFICES ASSUME NEW x \in Refs \ {r} PROVE AccountOf(x)' = AccountOf(x)
    OBVIOUS
  <2> QED BY <1>1, <1>5, <1>6, AccountStays DEF TermsStay
<1>8. StageOf(r)' = "cancelled"
  <2>1. /\ r \notin Resting' /\ orders'[r].quantity # 0 /\ orders'[r].quantity > 0
        /\ orders'[r].status = "CANCELLED"
    BY <1>1, <1>3, <1>4, <1>5
  <2>2. r \in Settled' /\ IsOver(r)'
    BY <1>1, <1>6, <2>1 DEF IsOver
  <2> QED BY <2>1, <2>2 DEF StageOf
<1>9. V!SetStage(r, "cancelled")
  <2>1. SameTerms(orders'[r], orders[r]) /\ orders'[r].quantity = orders[r].quantity
    BY <1>1, <1>3, <1>5 DEF TermsStay
  <2> QED BY <1>1, <1>2, <1>7, <1>8, <2>1, OneStageMoves
<1>10. V!Withdraw(r)
  BY <1>1, <1>2, <1>9, IdleIsQuiet, VenueSeesTheBook DEF V!Withdraw
<1> QED BY <1>1, <1>10 DEF V!VenueNext, Accounts

\* The sum that the venue holds against a fill-or-kill order.
LEMMA RemainingIsASum ==
    ASSUME IInv, NEW S \in SUBSET Resting
    PROVE  V!MapThenSumSet(LAMBDA q : Accounts[q].remaining, S) = QuantityIn(orders, S)
<1> DEFINE f == [r \in S |-> orders[r].quantity]
           Adds(g) == g = [T \in SUBSET S |->
                 IF T = {} THEN 0
                 ELSE Accounts[First(T)].remaining + g[T \ {First(T)}]]
           Sums(g) == g = [T \in SUBSET S |->
                 IF T = {} THEN 0
                 ELSE orders[First(T)].quantity + g[T \ {First(T)}]]
<1>1. \A T \in SUBSET S : T # {} =>
         Accounts[First(T)].remaining = orders[First(T)].quantity
  <2> SUFFICES ASSUME NEW T \in SUBSET S, T # {}
               PROVE  Accounts[First(T)].remaining = orders[First(T)].quantity
    OBVIOUS
  <2>1. First(T) \in Refs
    BY FirstIsIn, RestingQuantities
  <2> QED BY <2>1 DEF Accounts, AccountOf
<1>2. \A g : Adds(g) <=> Sums(g)
  <2> SUFFICES ASSUME NEW g PROVE Adds(g) <=> Sums(g)
    OBVIOUS
  <2>1. [T \in SUBSET S |-> IF T = {} THEN 0
                            ELSE Accounts[First(T)].remaining + g[T \ {First(T)}]]
          = [T \in SUBSET S |-> IF T = {} THEN 0
                                ELSE orders[First(T)].quantity + g[T \ {First(T)}]]
    BY <1>1
  <2> QED BY <2>1
<1>3. (CHOOSE g : Adds(g)) = (CHOOSE g : Sums(g))
  <2> HIDE DEF Adds, Sums
  <2> QED BY <1>2
<1>4. V!MapThenSumSet(LAMBDA q : Accounts[q].remaining, S) = (CHOOSE g : Adds(g))[S]
  BY DEF V!MapThenSumSet, V!MapThenFoldSet, First
<1>5. QuantityIn(orders, S) = (CHOOSE g : Sums(g))[S]
  BY DEF QuantityIn, MapThenSumSet, MapThenFoldSet, First
<1> HIDE DEF Adds, Sums
<1> QED BY <1>3, <1>4, <1>5

\* An order arrives: one account more.
LEMMA OneMoreAccount ==
    ASSUME IInv, NEW t \in Tickets, NEW stage, Arrive(t), pc = "idle",
           UNCHANGED <<book, pegs, openOrders, trades>>,
           NEW new, new = incoming', StageOf(new)' = stage
    PROVE  Accounts' = Append(Accounts, V!Account(t, stage))
<1>1. /\ new = incoming + 1 /\ new \notin Refs /\ Refs' = Refs \cup {new}
      /\ \A r \in Refs : orders'[r] = orders[r]
      /\ incoming \in Nat /\ Refs = 1 .. incoming
  BY ArrivalGrowsHeap, HeapHoldsOrders DEF IInv
<1>2. Resting' = Resting
  BY ArrivalKeepsBook
<1>3. \A r \in Refs : r \in Settled' /\ r \in Settled
  BY <1>1 DEF Settled
<1>4. ASSUME NEW r \in Refs PROVE AccountOf(r)' = AccountOf(r)
  BY <1>1, <1>2, <1>3, AccountStays DEF SameTerms
<1>5. AccountOf(new)' = V!Account(t, stage)
  <2>1. PICK ts \in Nat : orders'[new] = NewOrder(t, ts)
    BY ArrivalGrowsHeap DEF IInv
  <2> QED BY <2>1 DEF V!Account, AccountOf, NewOrder
<1> DEFINE all == {Accounts[r] : r \in Refs} \cup {V!Account(t, stage)}
<1>6. Accounts \in Seq(all) /\ Len(Accounts) = incoming /\ DOMAIN Accounts = Refs
  <2>1. Accounts \in [1 .. incoming -> all] /\ DOMAIN Accounts = Refs
    BY <1>1 DEF Accounts
  <2>2. Accounts \in Seq(all)
    BY <1>1, <2>1
  <2> QED BY <1>1, <2>1, <2>2, LenProperties
<1> DEFINE longer == Append(Accounts, V!Account(t, stage))
<1>7. /\ longer \in Seq(all) /\ Len(longer) = new
      /\ \A r \in Refs : longer[r] = Accounts[r]
      /\ longer[new] = V!Account(t, stage)
  BY <1>1, <1>6, AppendProperties
<1> HIDE DEF longer, all
<1>8. longer \in [Refs' -> all]
  <2>1. longer \in [1 .. new -> all]
    BY <1>7, LenProperties
  <2> QED BY <1>1, <2>1
<1>9. \A r \in Refs' : longer[r] = AccountOf(r)'
  BY <1>1, <1>4, <1>5, <1>7 DEF Accounts
<1>10. Accounts' = [r \in Refs' |-> AccountOf(r)']
  BY DEF Accounts
<1> QED BY <1>8, <1>9, <1>10 DEF longer

LEMMA AddOrderIsSend ==
    ASSUME IInv, PegPoolsSettled, NEW t \in Tickets, AddOrder(t)
    PROVE  V!VenueNext
<1> SUFFICES ASSUME NEW new, new = incoming' PROVE V!VenueNext
  OBVIOUS
<1>1. /\ Arrive(t) /\ pc = "idle" /\ UNCHANGED <<book, pegs, openOrders, trades>> /\ Dealing'
  BY DEF AddOrder, Call, Dealing
<1>2. /\ new \in Refs' /\ new \notin Resting'
      /\ \E ts \in Nat : orders'[new] = NewOrder(t, ts)
  BY <1>1, ArrivalGrowsHeap, ArrivalKeepsBook DEF IInv
<1>3. t.quantity \in Nat /\ t.quantity > 0
  BY TicketsAssumption DEF TicketRecord, ConstructorAccepts
<1>4. orders'[new].quantity > 0 /\ new \notin Settled'
  BY <1>1, <1>2, <1>3 DEF NewOrder, Settled, Dealing
<1>5. StageOf(new)' = "working"
  BY <1>2, <1>3, <1>4 DEF StageOf, IsOver
<1>6. Accounts' = Append(Accounts, V!Account(t, "working"))
  BY <1>1, <1>5, OneMoreAccount
<1>7. V!Send(t)
  BY <1>1, <1>6, IdleIsQuiet DEF V!Send, Accounts
<1> QED BY <1>7 DEF V!VenueNext

\* The probe turns an order away only if the orders it might trade with hold too little.
LEMMA ProbeFailsForWant ==
    ASSUME IInv, NEW t \in Tickets, ~ CanFillCompletely(t)
    PROVE  /\ V!Contra(t) \subseteq Resting
           /\ QuantityIn(orders, V!Contra(t)) < t.quantity
<1> DEFINE pool == PegOrders(Opposite(t.side))
           lit  == MarketableOrders(t.side, t.price)
           want == t.quantity
<1>1. t.side \in Sides /\ Opposite(t.side) \in Sides /\ t.ordType \in OrdTypes /\ want \in Nat /\ want > 0
  BY TicketsAssumption DEF TicketRecord, ConstructorAccepts, Opposite, Sides
<1>2. /\ V!PegContra(t) = IF Mid # NA /\ (t.ordType = "LIMIT" => CrossesMid(t.side, t.price, Mid))
                          THEN pool ELSE {}
      /\ V!LitContra(t) = IF t.ordType = "LIMIT" THEN lit ELSE {}
  BY <1>1, VenueSeesTheContra
<1>3. /\ IsFiniteSet(pool) /\ IsFiniteSet(lit) /\ pool \subseteq Resting /\ lit \subseteq Resting
      /\ QuantityIn(orders, pool) \in Nat /\ QuantityIn(orders, lit) \in Nat
      /\ \A r \in pool \cup lit : orders[r].quantity \in Nat
  BY <1>1, RestingQuantities
<1>4. pool \cap lit = {}
  BY <1>1, RestingOrders DEF MarketableOrders, IInv, LitOrders
<1>5. PegPoolTotal(t.side) = QuantityIn(orders, pool)
  BY PegPoolTotalIsASum
<1>6. LitTotal(t.side, t.price) = QuantityIn(orders, lit)
  BY <1>1, LitTotalIsASum
<1>7. QuantityIn(orders, pool \cup lit) = QuantityIn(orders, pool) + QuantityIn(orders, lit)
  <2> HIDE DEF pool, lit
  <2> QED BY <1>3, <1>4, QuantityInBoth
<1>8. QuantityIn(orders, {}) = 0
  BY QuantityInNothing
<1> HIDE DEF pool, lit
<1>9. CASE t.ordType = "PEG_MID"
  <2>1. V!Contra(t) = IF Mid # NA THEN pool ELSE {}
    BY <1>2, <1>9 DEF V!Contra
  <2>2. Mid = NA \/ ~ (QuantityIn(orders, pool) >= want)
    BY <1>5, <1>9 DEF CanFillCompletely
  <2> QED BY <1>1, <1>3, <1>8, <2>1, <2>2
<1>10. CASE t.ordType = "LIMIT"
  <2> DEFINE reaches == Mid # NA /\ CrossesMid(t.side, t.price, Mid)
  <2>1. V!Contra(t) = IF reaches THEN pool \cup lit ELSE lit
    BY <1>2, <1>10 DEF V!Contra
  <2>2. ~ (QuantityIn(orders, lit) + (IF reaches THEN QuantityIn(orders, pool) ELSE 0) >= want)
    BY <1>5, <1>6, <1>10 DEF CanFillCompletely
  <2> HIDE DEF reaches
  <2> QED BY <1>1, <1>3, <1>7, <2>1, <2>2
<1> QED BY <1>1, <1>9, <1>10 DEF OrdTypes

LEMMA AddOrderKilledIsKill ==
    ASSUME IInv, PegPoolsSettled, NEW t \in Tickets, AddOrderKilled(t)
    PROVE  V!VenueNext
<1> SUFFICES ASSUME NEW new, new = incoming' PROVE V!VenueNext
  OBVIOUS
<1>1. /\ Arrive(t) /\ pc = "idle" /\ UNCHANGED <<book, pegs, openOrders, trades>>
      /\ pc' = "idle" /\ t.tif = "FOK" /\ ~ CanFillCompletely(t)
  BY DEF AddOrderKilled, Call
<1>2. /\ new \in Refs' /\ new \notin Resting'
      /\ \E ts \in Nat : orders'[new] = NewOrder(t, ts)
  BY <1>1, ArrivalGrowsHeap, ArrivalKeepsBook DEF IInv
<1>3. t.quantity \in Nat /\ t.quantity > 0
  BY TicketsAssumption DEF TicketRecord, ConstructorAccepts
<1>4. /\ orders'[new].quantity > 0 /\ orders'[new].quantity # 0
      /\ orders'[new].status = "OPEN" /\ new \in Settled'
  BY <1>1, <1>2, <1>3 DEF NewOrder, Settled
<1>5. StageOf(new)' = "expired"
  BY <1>2, <1>4 DEF StageOf, IsOver
<1>6. Accounts' = Append(Accounts, V!Account(t, "expired"))
  BY <1>1, <1>5, OneMoreAccount
<1>7. V!MapThenSumSet(LAMBDA q : Accounts[q].remaining, V!Contra(t)) < t.quantity
  BY <1>1, ProbeFailsForWant, RemainingIsASum
<1>8. V!Kill(t)
  BY <1>1, <1>6, <1>7, IdleIsQuiet DEF V!Kill, Accounts
<1> QED BY <1>8 DEF V!VenueNext

\* The ends of the loops, and a cancel that finds nothing, are not the venue's business.
LEMMA NothingForTheVenue ==
    ASSUME IInv, UNCHANGED <<orders, book, pegs, trades>>,
           (Dealing' <=> Dealing) \/ (~ Dealing' /\ orders[incoming].quantity = 0)
    PROVE  UNCHANGED V!venueVars
<1>1. Resting' = Resting /\ Refs' = Refs /\ incoming' = incoming
  BY DEF Resting, LitOrders, PegOrders, Refs, incoming
<1>2. \A r \in Refs : orders[r].quantity > 0 => (r \in Settled' <=> r \in Settled)
  BY <1>1, RestingQuantities DEF Settled, Dealing
<1>3. \A r \in Refs : AccountOf(r)' = AccountOf(r)
  BY <1>1, <1>2, AccountStays DEF SameTerms
<1>4. Accounts' = Accounts
  BY <1>1, <1>3 DEF Accounts
<1> QED BY <1>4 DEF V!venueVars, Accounts

\* Every step of the engine is a step of the venue, or nothing the venue sees.
LEMMA EveryStepIsAVenueStep ==
    IInv /\ IndexInv /\ PegsInv /\ TimePriority /\ FokInv /\ PoolInv /\ [Next]_vars
        => [V!VenueNext]_(V!venueVars)
<1> SUFFICES ASSUME IInv, IndexInv, PegsInv, TimePriority, FokInv, PoolInv, [Next]_vars
             PROVE  V!VenueNext \/ UNCHANGED V!venueVars
  BY DEF V!venueVars
<1>1. PegPoolsSettled /\ MidStillCurrent /\ TermsStay
  BY NextSteps DEF PegsInv, StepsThroughQueues
<1>2. ASSUME NEW t \in Tickets, AddOrder(t) \/ AddOrderKilled(t) PROVE V!VenueNext
  BY <1>1, <1>2, AddOrderIsSend, AddOrderKilledIsKill
<1>3. ASSUME NEW id \in CancelIds, CancelOrder(id) PROVE V!VenueNext
  BY <1>1, <1>3, CancelIsWithdraw
<1>4. CASE MatchPegPool \/ CrossPegPools \/ \E p \in Price : MatchLit(p)
  BY <1>1, <1>4, MatchPegPoolIsTradeWorking, MatchLitIsTradeWorking, CrossPegPoolsIsTradePegs
<1>5. CASE RestPeg \/ AddToBook \/ ExpireRemainder
  BY <1>1, <1>5, RemainderRestsOrGoes
<1>6. ASSUME UNCHANGED vars \/ MatchPegPoolEnds \/ MatchLitEnds \/ CrossPegPoolsEnds
                \/ NoRemainder \/ \E id \in CancelIds : CancelOrderRefused(id)
      PROVE  UNCHANGED V!venueVars
  <2>1. UNCHANGED <<orders, book, pegs, trades>>
    BY <1>6 DEF vars, MatchPegPoolEnds, MatchLitEnds, CrossPegPoolsEnds, NoRemainder,
                CancelOrderRefused, books
  <2>2. (Dealing' <=> Dealing) \/ (~ Dealing' /\ orders[incoming].quantity = 0)
    BY <1>6 DEF vars, MatchPegPoolEnds, MatchLitEnds, CrossPegPoolsEnds, NoRemainder,
                CancelOrderRefused, AfterRest, Return, Call, Dealing
  <2> QED BY <2>1, <2>2, NothingForTheVenue
<1> QED BY <1>2, <1>3, <1>4, <1>5, <1>6 DEF Next, Continue, Exhausted

(***************************************************************************)
(* The engine implements the venue: an order trades with the orders its    *)
(* limit allows, the oldest peg first and then the best price, rests or is *)
(* given up only when there are none, and is killed only when they hold    *)
(* too little.                                                             *)
(***************************************************************************)
THEOREM TheEngineIsAVenue == Spec => ImplementsVenue
<1>1. Init => V!VenueInit
  <2> SUFFICES ASSUME Init PROVE V!VenueInit
    OBVIOUS
  <2>1. Refs = {} /\ trades = <<>>
    BY DEF Init, Refs
  <2>2. [r \in Refs |-> AccountOf(r)] = <<>>
    BY <2>1
  <2> QED BY <2>1, <2>2 DEF V!VenueInit
<1>2. V!VenueSpec <=> V!VenueInit /\ [][V!VenueNext]_(V!venueVars)
  BY DEF V!VenueSpec
<1> QED BY <1>1, <1>2, EveryStepIsAVenueStep, IInvHolds, IndexInvHolds, PegsInvHolds,
       ArrivalOrderHolds, FokInvHolds, PoolInvHolds, PTL DEF Spec, ImplementsVenue
=============================================================================
