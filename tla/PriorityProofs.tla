--------------------------- MODULE PriorityProofs ---------------------------
(***************************************************************************)
(* More about the matching engine, for every instance: time priority, the  *)
(* midpoint that is read once, the peg pools between calls, the index of   *)
(* open orders, and who is named the aggressor of a trade.                 *)
(***************************************************************************)
EXTENDS EngineProofs

-----------------------------------------------------------------------------
(* What no step changes of an order. *)

\* What an order came with: everything but its quantity, its slice and its status.
SameTerms(o, p) ==
    /\ o.orderID = p.orderID /\ o.timeStamp = p.timeStamp /\ o.side = p.side
    /\ o.price = p.price /\ o.tif = p.tif /\ o.peak = p.peak /\ o.ordType = p.ordType
    /\ o.orderQty = p.orderQty

\* The four operations of Order leave the terms alone.
LEMMA OperationsKeepTerms ==
    ASSUME NEW o \in OrderRecord, NEW n
    PROVE  /\ SameTerms(Fill(o, n), o) /\ SameTerms(RefreshDisplay(Fill(o, n)), o)
           /\ SameTerms(RefreshDisplay(o), o)
           /\ SameTerms(Cancel(o), o) /\ SameTerms(Expire(o), o)
  BY DEF SameTerms, Fill, RefreshDisplay, Cancel, Expire, OrderRecord

\* No step of the engine takes an order away or changes its terms.
TermsStay == Refs \subseteq Refs' /\ \A r \in Refs : SameTerms(orders'[r], orders[r])

\* Changing two objects of the heap by operations of Order.
LEMMA TwoKeepTerms ==
    ASSUME TypeOK, NEW a, NEW h, NEW x, NEW y,
           orders' = [orders EXCEPT ![a] = x, ![h] = y],
           a \in Refs => SameTerms(x, orders[a]), h \in Refs => SameTerms(y, orders[h])
    PROVE  TermsStay /\ Refs' = Refs
<1>1. Refs' = Refs
  BY DEF Refs
<1>2. ASSUME NEW r \in Refs PROVE SameTerms(orders'[r], orders[r])
  <2>1. CASE r = h
    BY <2>1 DEF Refs
  <2>2. CASE r = a /\ r # h
    BY <2>2 DEF Refs
  <2>3. CASE r # a /\ r # h
    BY <2>3 DEF Refs, SameTerms
  <2> QED BY <2>1, <2>2, <2>3
<1> QED BY <1>1, <1>2 DEF TermsStay

\* Likewise one object.
LEMMA OneKeepsTerms ==
    ASSUME TypeOK, NEW a, NEW x, orders' = [orders EXCEPT ![a] = x],
           a \in Refs => SameTerms(x, orders[a])
    PROVE  TermsStay /\ Refs' = Refs
<1>1. Refs' = Refs
  BY DEF Refs
<1>2. ASSUME NEW r \in Refs PROVE SameTerms(orders'[r], orders[r])
  <2>1. CASE r = a
    BY <2>1 DEF Refs
  <2>2. CASE r # a
    BY <2>2 DEF Refs, SameTerms
  <2> QED BY <2>1, <2>2
<1> QED BY <1>1, <1>2 DEF TermsStay

-----------------------------------------------------------------------------
(* The order of a queue. *)

\* The members of F stand in order of arrival.
Ascending(q, F) ==
    \A i, j \in DOMAIN q : i < j /\ q[i] \in F /\ q[j] \in F => q[i] < q[j]

\* What Tail and Append put where.
LEMMA Positions ==
    ASSUME NEW S, NEW q \in Seq(S)
    PROVE  /\ Len(q) \in Nat /\ DOMAIN q = 1 .. Len(q)
           /\ q # <<>> => /\ Tail(q) \in Seq(S) /\ DOMAIN Tail(q) = 1 .. Len(q) - 1
                          /\ \A i \in 1 .. Len(q) - 1 : Tail(q)[i] = q[i + 1]
                          /\ Head(q) = q[1] /\ Len(q) > 0 /\ Head(q) \in S
           /\ \A x \in S : /\ DOMAIN Append(q, x) = 1 .. Len(q) + 1
                           /\ \A i \in 1 .. Len(q) : Append(q, x)[i] = q[i]
                           /\ Append(q, x)[Len(q) + 1] = x
  OBVIOUS

\* remove of one position shifts those behind it.
LEMMA RemovedPositions ==
    ASSUME NEW S, NEW q \in Seq(S), NEW k \in DOMAIN q
    PROVE  LET w == RemoveAt(q, k)
           IN  /\ DOMAIN w = 1 .. Len(q) - 1
               /\ \A i \in 1 .. k - 1 : w[i] = q[i]
               /\ \A i \in k .. Len(q) - 1 : w[i] = q[i + 1]
<1> DEFINE w     == RemoveAt(q, k)
           left  == SubSeq(q, 1, k - 1)
           right == SubSeq(q, k + 1, Len(q))
<1>1. Len(q) \in Nat /\ k \in 1 .. Len(q) /\ DOMAIN q = 1 .. Len(q)
  OBVIOUS
<1>2. /\ left \in Seq(S) /\ Len(left) = k - 1
      /\ \A i \in 1 .. k - 1 : left[i] = q[i]
  BY <1>1, SubSeqProperties
<1>3. /\ right \in Seq(S) /\ Len(right) = Len(q) - k
      /\ \A i \in 1 .. Len(q) - k : right[i] = q[k + i]
  BY <1>1, SubSeqProperties
<1>4. w = left \o right
  BY DEF RemoveAt
<1> HIDE DEF w, left, right
<1>5. w \in Seq(S) /\ Len(w) = Len(q) - 1 /\ DOMAIN w = 1 .. Len(q) - 1
  <2>1. w \in Seq(S) /\ Len(w) = Len(left) + Len(right)
    BY <1>2, <1>3, <1>4, ConcatProperties
  <2> QED BY <2>1, <1>1, <1>2, <1>3
<1>6. \A i \in 1 .. k - 1 : w[i] = q[i]
  BY <1>1, <1>2, <1>3, <1>4, ConcatProperties
<1>7. ASSUME NEW i \in k .. Len(q) - 1 PROVE w[i] = q[i + 1]
  <2>1. w[i] = right[i - (k - 1)]
    BY <1>1, <1>2, <1>3, <1>4, ConcatProperties
  <2>2. i - (k - 1) \in 1 .. Len(q) - k /\ k + (i - (k - 1)) = i + 1
    BY <1>1
  <2>3. right[i - (k - 1)] = q[k + (i - (k - 1))]
    BY <2>2, <1>3
  <2> QED BY <2>1, <2>2, <2>3
<1> QED BY <1>5, <1>6, <1>7 DEF w

\* pollFirst keeps those that stay in order.
LEMMA TailAscends ==
    ASSUME NEW S, NEW q \in Seq(S), q # <<>>, NEW F, Ascending(q, F)
    PROVE  Ascending(Tail(q), F)
<1> SUFFICES ASSUME NEW i \in 1 .. Len(q) - 1, NEW j \in 1 .. Len(q) - 1, i < j,
                    Tail(q)[i] \in F, Tail(q)[j] \in F
             PROVE  Tail(q)[i] < Tail(q)[j]
  BY Positions DEF Ascending
<1>1. Tail(q)[i] = q[i + 1] /\ Tail(q)[j] = q[j + 1]
  BY Positions
<1>2. i + 1 \in DOMAIN q /\ j + 1 \in DOMAIN q /\ i + 1 < j + 1
  BY Positions
<1> QED BY <1>1, <1>2 DEF Ascending

\* addLast of the last to arrive, or of one whose place does not count.
LEMMA AppendAscends ==
    ASSUME NEW S, NEW q \in Seq(S), NEW x \in S, NEW F, Ascending(q, F),
           x \in F => \A y \in Range(q) : y < x
    PROVE  Ascending(Append(q, x), F)
<1> DEFINE w == Append(q, x)
<1> SUFFICES ASSUME NEW i \in 1 .. Len(q) + 1, NEW j \in 1 .. Len(q) + 1, i < j,
                    w[i] \in F, w[j] \in F
             PROVE  w[i] < w[j]
  BY Positions DEF Ascending
<1>1. /\ Len(q) \in Nat /\ DOMAIN q = 1 .. Len(q)
      /\ \A k \in 1 .. Len(q) : w[k] = q[k] /\ w[Len(q) + 1] = x
  BY Positions
<1> HIDE DEF w
<1>2. i \in 1 .. Len(q) /\ w[i] = q[i]
  BY <1>1
<1>3. CASE j = Len(q) + 1
  <2>1. w[j] = x /\ w[i] \in Range(q)
    BY <1>1, <1>2, <1>3 DEF Range
  <2> QED BY <2>1
<1>4. CASE j \in 1 .. Len(q)
  BY <1>1, <1>2, <1>4 DEF Ascending
<1> QED BY <1>1, <1>3, <1>4

\* remove keeps those that stay in order.
LEMMA WithoutAscends ==
    ASSUME NEW S, NEW q \in Seq(S), NEW r, NEW F, Ascending(q, F)
    PROVE  Ascending(Without(q, r), F)
<1>1. CASE r \notin Range(q)
  BY <1>1 DEF Without
<1>2. CASE r \in Range(q)
  <2> DEFINE k == CHOOSE i \in DOMAIN q : q[i] = r
             w == RemoveAt(q, k)
  <2>1. k \in DOMAIN q /\ Without(q, r) = w
    BY <1>2 DEF Range, Without
  <2> HIDE DEF k
  <2>2. /\ DOMAIN w = 1 .. Len(q) - 1
        /\ \A i \in 1 .. k - 1 : w[i] = q[i]
        /\ \A i \in k .. Len(q) - 1 : w[i] = q[i + 1]
    BY <2>1, RemovedPositions
  <2> HIDE DEF w
  <2>3. Len(q) \in Nat /\ k \in 1 .. Len(q) /\ DOMAIN q = 1 .. Len(q)
    BY <2>1
  <2>4. ASSUME NEW i \in 1 .. Len(q) - 1, NEW j \in 1 .. Len(q) - 1, i < j,
               w[i] \in F, w[j] \in F
        PROVE  w[i] < w[j]
    <3> DEFINE from(m) == IF m < k THEN m ELSE m + 1
    <3>1. /\ from(i) \in DOMAIN q /\ from(j) \in DOMAIN q /\ from(i) < from(j)
          /\ w[i] = q[from(i)] /\ w[j] = q[from(j)]
      BY <2>2, <2>3, <2>4
    <3> HIDE DEF from
    <3> QED BY <3>1, <2>4 DEF Ascending
  <2> QED BY <2>1, <2>2, <2>4 DEF Ascending
<1> QED BY <1>1, <1>2

-----------------------------------------------------------------------------
(* Every step does one thing to a queue. *)

\* A step leaves a queue alone, polls its head, removes one order, adds the incoming
\* one, or sends the head to the back because its slice is used up.
QueueStep(q, q2) ==
    \/ q2 = q
    \/ q # <<>> /\ q2 = Tail(q)
    \/ \E r : q2 = Without(q, r)
    \/ Dealing /\ q2 = Append(q, incoming)
    \/ q # <<>> /\ q2 = Append(Tail(q), Head(q)) /\ Exhausts(Head(q))

\* What every step does to the terms of the orders and to each queue.
StepsThroughQueues ==
    /\ TermsStay
    /\ \A s \in Sides :
          /\ QueueStep(pegs[s], pegs'[s])
          /\ \A p \in DOMAIN book'[s] : QueueStep(QueueAt(book[s], p), book'[s][p])

\* A step that leaves the lit book alone moves none of its queues.
LEMMA SameBookSameQueues ==
    ASSUME \A s \in Sides : book'[s] = book[s]
    PROVE  \A s \in Sides : \A p \in DOMAIN book'[s] :
              QueueStep(QueueAt(book[s], p), book'[s][p])
  BY DEF QueueStep, QueueAt

\* A level that is replaced in one side of the book.
LEMMA OneLevelSteps ==
    ASSUME TypeOK, NEW s \in Sides, NEW p, NEW queue, QueueStep(QueueAt(book[s], p), queue),
           book' = [book EXCEPT ![s] = WithLevel(book[s], p, queue)]
    PROVE  \A z \in Sides : \A x \in DOMAIN book'[z] :
              QueueStep(QueueAt(book[z], x), book'[z][x])
<1> SUFFICES ASSUME NEW z \in Sides, NEW x \in DOMAIN book'[z]
             PROVE  QueueStep(QueueAt(book[z], x), book'[z][x])
  OBVIOUS
<1>1. book'[z] = IF z = s THEN WithLevel(book[s], p, queue) ELSE book[z]
  BY DEF TypeOK
<1>2. CASE z # s
  BY <1>1, <1>2 DEF QueueStep, QueueAt
<1>3. CASE z = s /\ x = p
  <2>1. book'[z][x] = queue
    BY <1>1, <1>3, LevelReplaced
  <2> QED BY <2>1, <1>3
<1>4. CASE z = s /\ x # p
  <2>1. x \in DOMAIN book[z] /\ book'[z][x] = book[z][x]
    BY <1>1, <1>4, LevelReplaced
  <2> QED BY <2>1 DEF QueueStep, QueueAt
<1> QED BY <1>2, <1>3, <1>4

\* matchPegPool: the head of the pool leaves or stays.
LEMMA MatchPegPoolSteps == IInv /\ MatchPegPool => StepsThroughQueues
<1> SUFFICES ASSUME IInv, MatchPegPool PROVE StepsThroughQueues
  OBVIOUS
<1> DEFINE side == Opposite(incomingSide)
           a    == incoming
           h    == Head(pegs[side])
           n    == Least(orders[a].quantity, orders[h].quantity)
<1>1. /\ pegs[side] # <<>> /\ book' = book
      /\ orders' = [orders EXCEPT ![a] = Fill(@, n), ![h] = Fill(@, n)]
      /\ pegs' = IF orders[h].quantity = n THEN [pegs EXCEPT ![side] = Tail(@)] ELSE pegs
      /\ pc = "pegs"
  BY DEF MatchPegPool
<1>2. TypeOK /\ a \in Refs /\ a \notin Resting /\ side \in Sides
  <2>1. Dealing
    BY <1>1 DEF Dealing
  <2>2. incomingSide \in Sides /\ a \in Refs /\ a \notin Resting
    BY <2>1, IncomingOrder
  <2> QED BY <2>2 DEF IInv, Opposite, Sides
<1>3. h \in Refs /\ h # a
  <2>1. h \in Range(pegs[side])
    BY <1>1, <1>2, RestingOrders, TailOfQueue DEF IInv
  <2> QED BY <2>1, <1>2, RestingOrders DEF IInv, PegOrders
<1> HIDE DEF n, a, h, side
<1>4. TermsStay
  <2>1. orders' = [orders EXCEPT ![a] = Fill(orders[a], n), ![h] = Fill(orders[h], n)]
    BY <1>1, <1>3
  <2> QED BY <2>1, <1>2, <1>3, HeapHoldsOrders, OperationsKeepTerms, TwoKeepTerms
<1>5. ASSUME NEW s \in Sides PROVE QueueStep(pegs[s], pegs'[s])
  <2>1. pegs'[s] = pegs[s] \/ (pegs[s] # <<>> /\ pegs'[s] = Tail(pegs[s]))
    BY <1>1, <1>2 DEF TypeOK
  <2> QED BY <2>1 DEF QueueStep
<1> QED BY <1>1, <1>4, <1>5, SameBookSameQueues DEF StepsThroughQueues

\* crossPegPools: each head leaves its pool or stays.
LEMMA CrossPegPoolsSteps == IInv /\ CrossPegPools => StepsThroughQueues
<1> SUFFICES ASSUME IInv, CrossPegPools PROVE StepsThroughQueues
  OBVIOUS
<1> DEFINE b == Head(pegs["BUY"])
           a == Head(pegs["SELL"])
           n == Least(orders[b].quantity, orders[a].quantity)
<1>1. /\ \A s \in Sides : pegs[s] # <<>>
      /\ orders' = [orders EXCEPT ![b] = Fill(@, n), ![a] = Fill(@, n)]
      /\ pegs' = [s \in Sides |-> IF orders[Head(pegs[s])].quantity = n
                                 THEN Tail(pegs[s]) ELSE pegs[s]]
      /\ book' = book
  BY DEF CrossPegPools, Sides
<1>2. \A s \in Sides : Head(pegs[s]) \in Refs /\ orders[Head(pegs[s])].side = s
  <2>1. \A s \in Sides : Head(pegs[s]) \in PegOrders(s)
    BY <1>1, RestingOrders, TailOfQueue DEF PegOrders, IInv
  <2> QED BY <2>1, RestingOrders DEF IInv
<1>3. a \in Refs /\ b \in Refs /\ a # b
  BY <1>2 DEF Sides
<1> HIDE DEF n, a, b
<1>4. TermsStay
  <2>1. orders' = [orders EXCEPT ![b] = Fill(orders[b], n), ![a] = Fill(orders[a], n)]
    BY <1>1, <1>3
  <2> QED BY <2>1, <1>3, HeapHoldsOrders, OperationsKeepTerms, TwoKeepTerms DEF IInv
<1>5. ASSUME NEW s \in Sides PROVE QueueStep(pegs[s], pegs'[s])
  BY <1>1 DEF QueueStep
<1> QED BY <1>1, <1>4, <1>5, SameBookSameQueues DEF StepsThroughQueues

\* matchBuy and matchSell: the head leaves, stays, or goes to the back, and then because
\* the fill took just the slice it showed.
LEMMA MatchLitSteps == \A p \in Price : IInv /\ MatchLit(p) => StepsThroughQueues
<1> SUFFICES ASSUME NEW p \in Price, IInv, MatchLit(p) PROVE StepsThroughQueues
  OBVIOUS
<1> DEFINE a      == incoming
           side   == Opposite(incomingSide)
           queue  == book[side][p]
           h      == Head(queue)
           n      == Least(orders[a].quantity, orders[h].visibleQty)
           filled == Fill(orders[h], n)
           reload == filled.quantity > 0 /\ filled.visibleQty = 0
           next   == IF reload THEN RefreshDisplay(filled) ELSE filled
           newQueue == IF filled.quantity = 0 THEN Tail(queue)
                       ELSE IF reload THEN Append(Tail(queue), h) ELSE queue
<1>1. /\ pc = "lit" /\ orders[a].quantity > 0 /\ p \in DOMAIN book[side]
      /\ orders' = [orders EXCEPT ![a] = Fill(@, n), ![h] = next]
      /\ book' = [book EXCEPT ![side] = WithLevel(@, p, newQueue)]
      /\ pegs' = pegs
  BY DEF MatchLit, IsMatchLevel, AddLast, Reloads
<1>2. a \in Refs /\ a \notin Resting /\ side \in Sides /\ orders[a] \in OrderRecord
  <2>1. Dealing
    BY <1>1 DEF Dealing
  <2>2. incomingSide \in Sides
    BY <2>1, IncomingOrder
  <2> QED BY <2>1, <2>2, IncomingOrder DEF Opposite, Sides
<1> HIDE DEF a, side
<1>3. queue \in Seq(Refs) /\ queue # <<>> /\ IsInjective(queue)
      /\ \A x \in Range(queue) : x \in Refs /\ x \in Resting
  BY <1>1, <1>2, RestingOrders DEF IInv
<1>4. h \in Range(queue) /\ h \in Refs /\ h # a
  BY <1>2, <1>3, TailOfQueue
<1>5. FitsLevel(orders[h], side, p) /\ orders[h] \in OrderRecord
  BY <1>1, <1>2, <1>4, HeapHoldsOrders, OrdersFitTheirLevels DEF IInv
<1> HIDE DEF queue, h
<1>6. n \in 1 .. orders[h].visibleQty /\ n \in 1 .. orders[h].quantity
  <2>1. /\ orders[h].visibleQty \in Nat /\ orders[h].visibleQty > 0
        /\ orders[h].quantity \in Nat /\ orders[h].visibleQty <= orders[h].quantity
        /\ orders[a].quantity \in Nat /\ orders[a].quantity > 0
    BY <1>1, <1>2, <1>5, OrderFields DEF FitsLevel
  <2> QED BY <2>1 DEF Least
<1> HIDE DEF n
<1>7. /\ filled.quantity = orders[h].quantity - n
      /\ filled.visibleQty = orders[h].visibleQty - n
  BY <1>5, <1>6, FillOrder, OrderFields
<1>8. SameTerms(next, orders[h]) /\ next.quantity = filled.quantity
  <2>1. RefreshDisplay(filled).quantity = filled.quantity
    BY <1>5, <1>6, FillOrder, RefreshOrder DEF OrderRecord
  <2> QED BY <2>1, <1>5, OperationsKeepTerms
<1>9. reload => Exhausts(h)
  <2> SUFFICES ASSUME reload PROVE Exhausts(h)
    OBVIOUS
  <2>1. orders'[h] = next
    BY <1>1, <1>4 DEF Refs
  <2>2. /\ orders[h].quantity \in Nat /\ orders[h].visibleQty \in Nat /\ orders[h].peak \in Nat
    BY <1>5, OrderFields
  <2>3. n = orders[h].visibleQty /\ orders[h].quantity > n
    BY <2>2, <1>6, <1>7
  <2>4. orders[h].peak > 0
    BY <2>2, <2>3, <1>5 DEF FitsLevel
  <2>5. next.quantity = orders[h].quantity - orders[h].visibleQty /\ next.quantity > 0
    BY <2>2, <2>3, <1>7, <1>8
  <2> QED BY <2>1, <2>4, <2>5, <1>4 DEF Exhausts
<1>10. QueueStep(queue, newQueue)
  <2>1. h = Head(queue)
    BY DEF h
  <2> QED BY <2>1, <1>3, <1>9 DEF QueueStep
<1> HIDE DEF next, newQueue, filled, reload
<1>11. TermsStay
  <2>1. orders' = [orders EXCEPT ![a] = Fill(orders[a], n), ![h] = next]
    BY <1>1
  <2>2. SameTerms(Fill(orders[a], n), orders[a]) /\ TypeOK
    BY <1>2, OperationsKeepTerms DEF IInv
  <2> QED BY <2>1, <2>2, <1>8, TwoKeepTerms
<1>12. \A z \in Sides : \A x \in DOMAIN book'[z] : QueueStep(QueueAt(book[z], x), book'[z][x])
  <2>1. QueueAt(book[side], p) = queue
    BY <1>1 DEF QueueAt, queue
  <2>2. book' = [book EXCEPT ![side] = WithLevel(book[side], p, newQueue)]
    BY <1>1
  <2> QED BY <2>1, <2>2, <1>2, <1>10, OneLevelSteps DEF IInv
<1>13. \A s \in Sides : QueueStep(pegs[s], pegs'[s])
  BY <1>1 DEF QueueStep
<1> QED BY <1>11, <1>12, <1>13 DEF StepsThroughQueues
\* The remainder of a peg goes to the back of its pool.
LEMMA RestPegSteps == IInv /\ RestPeg => StepsThroughQueues
<1> SUFFICES ASSUME IInv, RestPeg PROVE StepsThroughQueues
  OBVIOUS
<1> DEFINE side == orders[incoming].side
<1>1. /\ pc = "rest" /\ orders' = orders /\ book' = book
      /\ pegs' = [pegs EXCEPT ![side] = Append(@, incoming)]
  BY DEF RestPeg, AddLast
<1>2. Dealing /\ TypeOK
  BY <1>1 DEF Dealing, IInv
<1>3. side \in Sides
  BY <1>2, IncomingOrder
<1>4. TermsStay
  BY <1>1 DEF TermsStay, SameTerms, Refs
<1> HIDE DEF side
<1>5. ASSUME NEW s \in Sides PROVE QueueStep(pegs[s], pegs'[s])
  <2>1. pegs'[s] = pegs[s] \/ pegs'[s] = Append(pegs[s], incoming)
    BY <1>1, <1>2, <1>3 DEF TypeOK
  <2> QED BY <2>1, <1>2 DEF QueueStep
<1> QED BY <1>1, <1>4, <1>5, SameBookSameQueues DEF StepsThroughQueues

\* The remainder of a limit order goes to the back of its level.
LEMMA AddToBookSteps == IInv /\ AddToBook => StepsThroughQueues
<1> SUFFICES ASSUME IInv, AddToBook PROVE StepsThroughQueues
  OBVIOUS
<1> DEFINE side  == orders[incoming].side
           price == orders[incoming].price
           queue == Append(QueueAt(book[side], price), incoming)
<1>1. /\ pc = "rest" /\ orders' = [orders EXCEPT ![incoming] = RefreshDisplay(@)]
      /\ book' = [book EXCEPT ![side] = WithLevel(@, price, Append(QueueAt(@, price), incoming))]
      /\ pegs' = pegs
  BY DEF AddToBook, AddLast
<1>2. Dealing /\ TypeOK
  BY <1>1 DEF Dealing, IInv
<1>3. side \in Sides /\ incoming \in Refs /\ orders[incoming] \in OrderRecord
  BY <1>2, IncomingOrder
<1>4. TermsStay
  <2>1. orders' = [orders EXCEPT ![incoming] = RefreshDisplay(orders[incoming])]
    BY <1>1
  <2> QED BY <2>1, <1>2, <1>3, OperationsKeepTerms, OneKeepsTerms
<1>5. QueueStep(QueueAt(book[side], price), queue)
  BY <1>2 DEF QueueStep
<1>6. book' = [book EXCEPT ![side] = WithLevel(book[side], price, queue)]
  BY <1>1
<1> HIDE DEF queue, price, side
<1>7. \A z \in Sides : \A x \in DOMAIN book'[z] : QueueStep(QueueAt(book[z], x), book'[z][x])
  BY <1>2, <1>3, <1>5, <1>6, OneLevelSteps
<1>8. \A s \in Sides : QueueStep(pegs[s], pegs'[s])
  BY <1>1 DEF QueueStep
<1> QED BY <1>4, <1>7, <1>8 DEF StepsThroughQueues

\* An order that expires is on no queue.
LEMMA ExpireRemainderSteps == IInv /\ ExpireRemainder => StepsThroughQueues
<1> SUFFICES ASSUME IInv, ExpireRemainder PROVE StepsThroughQueues
  OBVIOUS
<1>1. /\ pc = "rest" /\ orders' = [orders EXCEPT ![incoming] = Expire(@)]
      /\ book' = book /\ pegs' = pegs
  BY DEF ExpireRemainder, books
<1>2. orders[incoming] \in OrderRecord /\ TypeOK
  BY <1>1, IncomingOrder DEF Dealing, IInv
<1>3. TermsStay
  <2>1. orders' = [orders EXCEPT ![incoming] = Expire(orders[incoming])]
    BY <1>1
  <2> QED BY <2>1, <1>2, OperationsKeepTerms, OneKeepsTerms
<1>4. \A s \in Sides : QueueStep(pegs[s], pegs'[s])
  BY <1>1 DEF QueueStep
<1> QED BY <1>1, <1>3, <1>4, SameBookSameQueues DEF StepsThroughQueues

\* A cancelled order leaves the one queue it stands in.
LEMMA CancelOrderSteps == \A id \in CancelIds : IInv /\ CancelOrder(id) => StepsThroughQueues
<1> SUFFICES ASSUME NEW id \in CancelIds, IInv, CancelOrder(id) PROVE StepsThroughQueues
  OBVIOUS
<1> DEFINE r     == openOrders[id]
           side  == orders[r].side
           price == orders[r].price
<1>1. /\ id \in DOMAIN openOrders
      /\ orders' = [orders EXCEPT ![r] = Cancel(@)]
      /\ \/ book' = book /\ pegs' = [pegs EXCEPT ![side] = Without(@, r)]
         \/ /\ pegs' = pegs
            /\ book' = [book EXCEPT ![side] =
                          IF price \in DOMAIN @
                          THEN WithLevel(@, price, Without(@[price], r)) ELSE @]
  BY DEF CancelOrder, IsOpen
<1>2. r \in Refs /\ TypeOK
  BY <1>1 DEF TypeOK, IInv
<1>3. side \in Sides /\ orders[r] \in OrderRecord
  BY <1>2, HeapHoldsOrders, OrderFields
<1>4. TermsStay
  <2>1. orders' = [orders EXCEPT ![r] = Cancel(orders[r])]
    BY <1>1
  <2>2. SameTerms(Cancel(orders[r]), orders[r])
    BY <1>3, OperationsKeepTerms
  <2> HIDE DEF r
  <2> QED BY <2>1, <2>2, <1>2, OneKeepsTerms
<1> HIDE DEF r, side, price
<1>5. CASE book' = book /\ pegs' = [pegs EXCEPT ![side] = Without(@, r)]
  <2>1. ASSUME NEW s \in Sides PROVE QueueStep(pegs[s], pegs'[s])
    <3>1. pegs'[s] = pegs[s] \/ pegs'[s] = Without(pegs[s], r)
      BY <1>5, <1>2, <1>3 DEF TypeOK
    <3> QED BY <3>1 DEF QueueStep
  <2> QED BY <2>1, <1>4, <1>5, SameBookSameQueues DEF StepsThroughQueues
<1>6. CASE /\ pegs' = pegs
           /\ book' = [book EXCEPT ![side] =
                         IF price \in DOMAIN @
                         THEN WithLevel(@, price, Without(@[price], r)) ELSE @]
  <2>1. \A s \in Sides : QueueStep(pegs[s], pegs'[s])
    BY <1>6 DEF QueueStep
  <2>2. CASE price \notin DOMAIN book[side]
    <3>1. \A s \in Sides : book'[s] = book[s]
      BY <2>2, <1>2, <1>3, <1>6 DEF TypeOK
    <3> QED BY <3>1, <2>1, <1>4, SameBookSameQueues DEF StepsThroughQueues
  <2>3. CASE price \in DOMAIN book[side]
    <3> DEFINE queue == Without(book[side][price], r)
    <3>1. QueueStep(QueueAt(book[side], price), queue)
      BY <2>3 DEF QueueStep, QueueAt
    <3>2. book' = [book EXCEPT ![side] = WithLevel(book[side], price, queue)]
      BY <2>3, <1>6
    <3> HIDE DEF queue
    <3>3. \A z \in Sides : \A x \in DOMAIN book'[z] :
             QueueStep(QueueAt(book[z], x), book'[z][x])
      BY <3>1, <3>2, <1>2, <1>3, OneLevelSteps
    <3> QED BY <3>3, <2>1, <1>4 DEF StepsThroughQueues
  <2> QED BY <2>2, <2>3
<1> QED BY <1>1, <1>5, <1>6

\* The arrival of an order moves nothing.
LEMMA ArrivalSteps ==
    ASSUME IInv, NEW t \in Tickets, Arrive(t), UNCHANGED <<book, pegs>>
    PROVE  StepsThroughQueues
<1>1. TermsStay
  BY ArrivalGrowsHeap DEF TermsStay, SameTerms, IInv
<1>2. \A s \in Sides : QueueStep(pegs[s], pegs'[s])
  BY DEF QueueStep
<1> QED BY <1>1, <1>2, SameBookSameQueues DEF StepsThroughQueues

\* Nor do the steps between two loops, a refused cancel and a stutter.
LEMMA QuietSteps ==
    ASSUME UNCHANGED <<orders, book, pegs>>
    PROVE  StepsThroughQueues
<1>1. TermsStay
  BY DEF TermsStay, SameTerms, Refs
<1>2. \A s \in Sides : QueueStep(pegs[s], pegs'[s])
  BY DEF QueueStep
<1> QED BY <1>1, <1>2, SameBookSameQueues DEF StepsThroughQueues

\* Every step of the engine.
LEMMA NextSteps == IInv /\ [Next]_vars => StepsThroughQueues
<1> SUFFICES ASSUME IInv, [Next]_vars PROVE StepsThroughQueues
  OBVIOUS
<1>1. ASSUME NEW t \in Tickets, AddOrder(t) \/ AddOrderKilled(t) PROVE StepsThroughQueues
  <2>1. Arrive(t) /\ UNCHANGED <<book, pegs>>
    BY <1>1 DEF AddOrder, AddOrderKilled
  <2> QED BY <2>1, ArrivalSteps
<1>2. ASSUME NEW id \in CancelIds, CancelOrder(id) \/ CancelOrderRefused(id)
      PROVE  StepsThroughQueues
  <2>1. CASE CancelOrder(id)
    BY <2>1, CancelOrderSteps
  <2>2. CASE CancelOrderRefused(id)
    BY <2>2, QuietSteps DEF CancelOrderRefused
  <2> QED BY <1>2, <2>1, <2>2
<1>3. ASSUME Continue PROVE StepsThroughQueues
  <2>1. CASE MatchPegPool \/ CrossPegPools \/ RestPeg \/ AddToBook \/ ExpireRemainder
    BY <2>1, MatchPegPoolSteps, CrossPegPoolsSteps, RestPegSteps, AddToBookSteps,
       ExpireRemainderSteps
  <2>2. CASE \E p \in Price : MatchLit(p)
    BY <2>2, MatchLitSteps
  <2>3. CASE MatchPegPoolEnds \/ MatchLitEnds \/ NoRemainder \/ CrossPegPoolsEnds
    <3>1. UNCHANGED <<orders, book, pegs>>
      BY <2>3 DEF MatchPegPoolEnds, MatchLitEnds, NoRemainder, CrossPegPoolsEnds, books
    <3> QED BY <3>1, QuietSteps
  <2> QED BY <1>3, <2>1, <2>2, <2>3 DEF Continue
<1>4. ASSUME UNCHANGED vars PROVE StepsThroughQueues
  BY <1>4, QuietSteps DEF vars
<1> QED BY <1>1, <1>2, <1>3, <1>4 DEF Next, Exhausted
-----------------------------------------------------------------------------
(* Time priority. *)

\* The orders without a hidden reserve.
Plain == {r \in Refs : orders[r].peak = 0}

\* One step keeps a queue's plain orders in order of arrival.
LEMMA QueueStepAscends ==
    ASSUME IInv, NEW q \in Seq(Refs), Range(q) \subseteq Resting, Ascending(q, Plain),
           NEW q2, QueueStep(q, q2)
    PROVE  Ascending(q2, Plain)
<1>1. CASE q2 = q
  BY <1>1
<1>2. CASE q # <<>> /\ q2 = Tail(q)
  BY <1>2, TailAscends
<1>3. CASE \E r : q2 = Without(q, r)
  BY <1>3, WithoutAscends
<1>4. CASE Dealing /\ q2 = Append(q, incoming)
  <2>1. incoming \in Refs /\ incoming \notin Resting
    BY <1>4, IncomingOrder
  <2>2. \A y \in Range(q) : y < incoming
    <3>1. \A y \in Range(q) : y \in Refs /\ y # incoming
      <4>1. Range(q) \subseteq Refs
        BY LenProperties, ElementOfSeq DEF Range
      <4> QED BY <4>1, <2>1
    <3> QED BY <3>1, HeapHoldsOrders DEF IInv
  <2> QED BY <2>1, <2>2, <1>4, AppendAscends
<1>5. CASE q # <<>> /\ q2 = Append(Tail(q), Head(q)) /\ Exhausts(Head(q))
  <2> DEFINE t == Tail(q)
             h == Head(q)
  <2>1. t \in Seq(Refs) /\ h \in Refs
    BY <1>5, Positions
  <2>2. Ascending(t, Plain)
    BY <1>5, TailAscends
  <2>3. h \notin Plain
    <3>1. orders[h].peak > 0 /\ orders[h].peak \in Nat
      BY <1>5, <2>1, HeapHoldsOrders, OrderFields DEF Exhausts, IInv
    <3> QED BY <3>1 DEF Plain
  <2>4. q2 = Append(t, h)
    BY <1>5
  <2> HIDE DEF t, h
  <2> QED BY <2>1, <2>2, <2>3, <2>4, AppendAscends
<1> QED BY <1>1, <1>2, <1>3, <1>4, <1>5 DEF QueueStep

\* And leaves in it only orders that were in the heap.
LEMMA QueueStepAddsNoStranger ==
    ASSUME IInv, NEW q \in Seq(Refs), NEW q2, QueueStep(q, q2)
    PROVE  Range(q2) \subseteq Refs
<1>1. CASE q2 = q
  BY <1>1, LenProperties, ElementOfSeq DEF Range
<1>2. CASE q # <<>> /\ q2 = Tail(q)
  <2>1. q2 \in Seq(Refs)
    BY <1>2
  <2> QED BY <2>1, LenProperties, ElementOfSeq DEF Range
<1>3. CASE \E r : q2 = Without(q, r)
  <2>1. PICK r : q2 = Without(q, r)
    BY <1>3
  <2>2. CASE r \notin Range(q)
    BY <2>1, <2>2, LenProperties, ElementOfSeq DEF Range, Without
  <2>3. CASE r \in Range(q)
    <3> DEFINE k == CHOOSE i \in DOMAIN q : q[i] = r
               w == RemoveAt(q, k)
    <3>1. k \in DOMAIN q /\ q2 = w
      BY <2>1, <2>3 DEF Range, Without
    <3> HIDE DEF k
    <3>2. /\ DOMAIN w = 1 .. Len(q) - 1
          /\ \A i \in 1 .. k - 1 : w[i] = q[i]
          /\ \A i \in k .. Len(q) - 1 : w[i] = q[i + 1]
      BY <3>1, RemovedPositions
    <3> HIDE DEF w
    <3>3. /\ Len(q) \in Nat /\ k \in 1 .. Len(q) /\ DOMAIN q = 1 .. Len(q)
          /\ \A i \in 1 .. Len(q) : q[i] \in Refs
      BY <3>1, LenProperties, ElementOfSeq
    <3>4. ASSUME NEW i \in 1 .. Len(q) - 1 PROVE w[i] \in Refs
      <4>1. CASE i < k
        BY <4>1, <3>2, <3>3
      <4>2. CASE i >= k
        BY <4>2, <3>2, <3>3
      <4> QED BY <4>1, <4>2, <3>3
    <3> QED BY <3>1, <3>2, <3>4 DEF Range
  <2> QED BY <2>2, <2>3
<1>4. CASE Dealing /\ q2 = Append(q, incoming)
  <2>1. incoming \in Refs
    BY <1>4, IncomingOrder
  <2>2. q2 \in Seq(Refs)
    BY <2>1, <1>4
  <2> QED BY <2>2, LenProperties, ElementOfSeq DEF Range
<1>5. CASE q # <<>> /\ q2 = Append(Tail(q), Head(q))
  <2> DEFINE t == Tail(q)
             h == Head(q)
  <2>1. t \in Seq(Refs) /\ h \in Refs /\ q2 = Append(t, h)
    BY <1>5, Positions
  <2> HIDE DEF t, h
  <2>2. q2 \in Seq(Refs)
    BY <2>1
  <2> QED BY <2>2, LenProperties, ElementOfSeq DEF Range
<1> QED BY <1>1, <1>2, <1>3, <1>4, <1>5 DEF QueueStep

\* So a queue in order of arrival stays so.
LEMMA QueueStepKeepsArrivalOrder ==
    ASSUME IInv, TermsStay, NEW q \in Seq(Refs), Range(q) \subseteq Resting,
           InArrivalOrder(q), NEW q2, QueueStep(q, q2)
    PROVE  \A i, j \in DOMAIN q2 :
              i < j /\ orders'[q2[i]].peak = 0 /\ orders'[q2[j]].peak = 0 => q2[i] < q2[j]
<1>1. \A i \in DOMAIN q : q[i] \in Refs
  BY LenProperties, ElementOfSeq
<1>2. Ascending(q, Plain)
  BY <1>1 DEF InArrivalOrder, Ascending, Plain
<1>3. Ascending(q2, Plain)
  BY <1>2, QueueStepAscends
<1>4. \A i \in DOMAIN q2 : q2[i] \in Refs
  BY QueueStepAddsNoStranger DEF Range
<1>5. \A i \in DOMAIN q2 : orders'[q2[i]].peak = 0 => q2[i] \in Plain
  BY <1>4 DEF TermsStay, SameTerms, Plain
<1> QED BY <1>3, <1>5 DEF Ascending

\* At one price, and in a peg pool, orders without a hidden reserve stand in order of
\* arrival (addLast, pollFirst, and a reload of icebergs only).
THEOREM ArrivalOrderHolds == Spec => []TimePriority
<1>1. Init => TimePriority
  <2> SUFFICES ASSUME Init PROVE TimePriority
    OBVIOUS
  <2>1. \A s \in Sides : pegs[s] = <<>> /\ DOMAIN book[s] = {}
    BY DEF Init
  <2> QED BY <2>1 DEF TimePriority, InArrivalOrder
<1>2. IInv /\ TimePriority /\ [Next]_vars => TimePriority'
  <2> SUFFICES ASSUME IInv, TimePriority, [Next]_vars PROVE TimePriority'
    OBVIOUS
  <2>1. StepsThroughQueues /\ TermsStay
    BY NextSteps DEF StepsThroughQueues
  <2>2. ASSUME NEW s \in Sides PROVE InArrivalOrder(pegs[s])'
    <3>1. pegs[s] \in Seq(Refs) /\ Range(pegs[s]) \subseteq Resting
      BY RestingOrders DEF IInv, PegOrders
    <3>2. InArrivalOrder(pegs[s]) /\ QueueStep(pegs[s], pegs'[s])
      BY <2>1 DEF TimePriority, StepsThroughQueues
    <3> DEFINE q2 == pegs'[s]
    <3>3. \A i, j \in DOMAIN q2 :
             i < j /\ orders'[q2[i]].peak = 0 /\ orders'[q2[j]].peak = 0 => q2[i] < q2[j]
      BY <2>1, <3>1, <3>2, QueueStepKeepsArrivalOrder
    <3> QED BY <3>3 DEF InArrivalOrder
  <2>3. ASSUME NEW s \in Sides, NEW p \in DOMAIN book'[s] PROVE InArrivalOrder(book[s][p])'
    <3> DEFINE q  == QueueAt(book[s], p)
               q2 == book'[s][p]
    <3>1. q \in Seq(Refs) /\ Range(q) \subseteq Resting /\ InArrivalOrder(q)
      <4>1. CASE p \in DOMAIN book[s]
        BY <4>1, RestingOrders DEF IInv, QueueAt, TimePriority
      <4>2. CASE p \notin DOMAIN book[s]
        BY <4>2 DEF QueueAt, InArrivalOrder, Range
      <4> QED BY <4>1, <4>2
    <3>2. QueueStep(q, q2)
      BY <2>1 DEF StepsThroughQueues
    <3> HIDE DEF q
    <3>3. \A i, j \in DOMAIN q2 :
             i < j /\ orders'[q2[i]].peak = 0 /\ orders'[q2[j]].peak = 0 => q2[i] < q2[j]
      BY <2>1, <3>1, <3>2, QueueStepKeepsArrivalOrder
    <3> QED BY <3>3 DEF InArrivalOrder
  <2> QED BY <2>2, <2>3 DEF TimePriority
<1> QED BY <1>1, <1>2, IInvHolds, PTL DEF Spec
\* One step changes the order of two that stay in a queue only by sending to the back a
\* head whose slice is used up.
LEMMA QueueStepJumps ==
    ASSUME NEW q \in Seq(Refs), IsInjective(q), incoming \in Refs \/ ~ Dealing,
           NEW q2, QueueStep(q, q2),
           NEW x \in Range(q) \cap Range(q2), NEW y \in Range(q) \cap Range(q2),
           Before(q, x, y), ~ Before(q2, x, y)
    PROVE  Exhausts(x)
<1>1. PICK i \in DOMAIN q, j \in DOMAIN q : i < j /\ q[i] = x /\ q[j] = y
  BY DEF Before
<1>2. Len(q) \in Nat /\ DOMAIN q = 1 .. Len(q)
  OBVIOUS
<1>3. CASE q2 = q
  BY <1>3
<1>4. CASE q # <<>> /\ q2 = Tail(q)
  <2>1. x # Head(q)
    BY <1>4, TailOfQueue
  <2>2. i # 1
    BY <2>1, <1>1, <1>4, Positions
  <2>3. i - 1 \in DOMAIN q2 /\ j - 1 \in DOMAIN q2 /\ q2[i - 1] = x /\ q2[j - 1] = y
    <3>1. i - 1 \in 1 .. Len(q) - 1 /\ j - 1 \in 1 .. Len(q) - 1
      BY <2>2, <1>1, <1>2
    <3> QED BY <3>1, <1>1, <1>2, <1>4, Positions
  <2> QED BY <2>3, <1>1, <1>2 DEF Before
<1>5. CASE \E r : q2 = Without(q, r)
  <2>1. PICK r : q2 = Without(q, r)
    BY <1>5
  <2>2. CASE r \notin Range(q)
    BY <2>1, <2>2 DEF Without
  <2>3. CASE r \in Range(q)
    <3> DEFINE k == CHOOSE m \in DOMAIN q : q[m] = r
               w == RemoveAt(q, k)
    <3>1. k \in DOMAIN q /\ q[k] = r /\ q2 = w
      BY <2>1, <2>3 DEF Range, Without
    <3> HIDE DEF k
    <3>2. /\ DOMAIN w = 1 .. Len(q) - 1
          /\ \A m \in 1 .. k - 1 : w[m] = q[m]
          /\ \A m \in k .. Len(q) - 1 : w[m] = q[m + 1]
      BY <3>1, RemovedPositions
    <3>3. x # r /\ y # r
      BY <2>1, WithoutRemoves
    <3>4. i # k /\ j # k
      BY <3>1, <3>3, <1>1
    <3> HIDE DEF w
    <3> DEFINE to(m) == IF m < k THEN m ELSE m - 1
    <3>5. ASSUME NEW m \in 1 .. Len(q), m # k
          PROVE  to(m) \in 1 .. Len(q) - 1 /\ w[to(m)] = q[m]
      <4>1. CASE m < k
        BY <4>1, <3>1, <3>2, <1>2
      <4>2. CASE m > k
        <5>1. m - 1 \in k .. Len(q) - 1 /\ (m - 1) + 1 = m
          BY <4>2, <3>1, <1>2
        <5>2. w[m - 1] = q[(m - 1) + 1]
          BY <5>1, <3>2
        <5> QED BY <5>1, <5>2, <4>2, <3>1, <1>2
      <4> QED BY <4>1, <4>2, <3>1, <3>5, <1>2
    <3>6. to(i) < to(j)
      BY <3>1, <3>4, <1>1, <1>2
    <3>7. to(i) \in DOMAIN w /\ to(j) \in DOMAIN w /\ w[to(i)] = x /\ w[to(j)] = y
      BY <3>2, <3>4, <3>5, <1>1, <1>2
    <3> HIDE DEF to
    <3> QED BY <3>1, <3>6, <3>7 DEF Before
  <2> QED BY <2>2, <2>3
<1>6. CASE Dealing /\ q2 = Append(q, incoming)
  <2>1. i \in DOMAIN q2 /\ j \in DOMAIN q2 /\ q2[i] = q[i] /\ q2[j] = q[j]
    BY <1>1, <1>2, <1>6, Positions
  <2> QED BY <2>1, <1>1 DEF Before
<1>7. CASE q # <<>> /\ q2 = Append(Tail(q), Head(q)) /\ Exhausts(Head(q))
  <2>1. CASE x = Head(q)
    BY <2>1, <1>7
  <2>2. CASE x # Head(q)
    <3> DEFINE t == Tail(q)
               h == Head(q)
    <3>1. /\ t \in Seq(Refs) /\ h \in Refs /\ q2 = Append(t, h) /\ i # 1
          /\ DOMAIN t = 1 .. Len(q) - 1 /\ \A m \in 1 .. Len(q) - 1 : t[m] = q[m + 1]
      BY <2>2, <1>1, <1>7, Positions
    <3> HIDE DEF t, h
    <3>2. i - 1 \in DOMAIN t /\ j - 1 \in DOMAIN t /\ t[i - 1] = x /\ t[j - 1] = y
      <4>1. i - 1 \in 1 .. Len(q) - 1 /\ j - 1 \in 1 .. Len(q) - 1
        BY <3>1, <1>1, <1>2
      <4> QED BY <4>1, <3>1, <1>1, <1>2
    <3>3. i - 1 \in DOMAIN q2 /\ j - 1 \in DOMAIN q2 /\ q2[i - 1] = x /\ q2[j - 1] = y
      BY <3>1, <3>2, Positions
    <3> QED BY <3>3, <1>1, <1>2 DEF Before
  <2> QED BY <2>1, <2>2
<1> QED BY <1>3, <1>4, <1>5, <1>6, <1>7 DEF QueueStep

\* An order passes another at its price only after the slice the other showed was traded
\* in full (matchBuy, matchSell and cancelOrder).
THEOREM NobodyJumpsTheQueue == Spec => NoQueueJump
<1> DEFINE Fair(s, p) ==
      \A q, r \in Range(book[s][p]) \cap Range(book'[s][p]) :
         Before(book[s][p], q, r) /\ ~ Before(book'[s][p], q, r) => Exhausts(q)
<1>1. ASSUME IInv, [Next]_vars,
             NEW s \in Sides, NEW p \in DOMAIN book[s] \cap DOMAIN book'[s]
      PROVE  Fair(s, p)
  <2>1. QueueStep(book[s][p], book'[s][p])
    BY <1>1, NextSteps DEF StepsThroughQueues, QueueAt
  <2>2. book[s][p] \in Seq(Refs) /\ IsInjective(book[s][p])
    BY <1>1, RestingOrders DEF IInv
  <2>3. incoming \in Refs \/ ~ Dealing
    BY <1>1, IncomingOrder
  <2> QED BY <2>1, <2>2, <2>3, QueueStepJumps
<1>2. IInv /\ [Next]_vars =>
         [\A s \in Sides : \A p \in DOMAIN book[s] \cap DOMAIN book'[s] : Fair(s, p)]_vars
  BY <1>1
<1> QED BY <1>2, IInvHolds, PTL DEF Spec, NoQueueJump
-----------------------------------------------------------------------------
(* The midpoint. *)

\* While the lit book stands still, so does its midpoint.
LEMMA SameBookSameMid ==
    ASSUME book' = book
    PROVE  Mid' = Mid
  BY DEF Mid, Bids, Asks

\* The midpoint read once is the midpoint of every trade at it (addOrder, crossPegPools):
\* the two loops over the pools leave the lit book alone.
THEOREM MidStaysCurrent == Spec => []MidStillCurrent
<1>1. Init => MidStillCurrent
  BY DEF Init, MidStillCurrent
<1>2. MidStillCurrent /\ [Next]_vars => MidStillCurrent'
  <2> SUFFICES ASSUME MidStillCurrent, [Next]_vars, pc' \in {"pegs", "cross"}
               PROVE  mid' = Mid'
    BY DEF MidStillCurrent
  <2>1. CASE UNCHANGED <<book, pc, mid>>
    BY <2>1, SameBookSameMid DEF MidStillCurrent
  <2>2. ASSUME NEW t \in Tickets, AddOrder(t) PROVE mid' = Mid'
    BY <2>2, SameBookSameMid DEF AddOrder
  <2>3. CASE ExpireRemainder \/ NoRemainder
    <3>1. book' = book /\ mid' = Mid
      BY <2>3 DEF ExpireRemainder, NoRemainder, AfterRest, Return, books
    <3> QED BY <3>1, SameBookSameMid
  <2>4. CASE AddToBook
    <3>1. mid' = MidOf(DOMAIN book'["BUY"], DOMAIN book'["SELL"])
      BY <2>4 DEF AddToBook
    <3> QED BY <3>1 DEF Mid, Bids, Asks
  <2>5. ASSUME NEW p \in Price, MatchLit(p) PROVE FALSE
    BY <2>5 DEF MatchLit
  <2>6. ASSUME NEW id \in CancelIds, CancelOrder(id) PROVE FALSE
    BY <2>6 DEF CancelOrder, Call
  <2>7. CASE MatchPegPoolEnds \/ MatchLitEnds \/ RestPeg \/ CrossPegPoolsEnds
    BY <2>7 DEF MatchPegPoolEnds, MatchLitEnds, RestPeg, CrossPegPoolsEnds, Return
  <2>8. CASE MatchPegPool \/ CrossPegPools
    BY <2>1, <2>8 DEF MatchPegPool, CrossPegPools
  <2>9. ASSUME NEW t \in Tickets, AddOrderKilled(t) PROVE FALSE
    BY <2>9 DEF AddOrderKilled, Call
  <2>10. ASSUME NEW id \in CancelIds, CancelOrderRefused(id) PROVE FALSE
    BY <2>10 DEF CancelOrderRefused, Call
  <2>11. CASE UNCHANGED vars
    BY <2>1, <2>11 DEF vars
  <2> QED BY <2>2, <2>3, <2>4, <2>5, <2>6, <2>7, <2>8, <2>9, <2>10, <2>11
       DEF Next, Continue, Exhausted
<1> QED BY <1>1, <1>2, PTL DEF Spec

SettledPools == Mid # NA => \E s \in Sides : pegs[s] = <<>>

\* Between calls the pools are settled, and stay so while the call deals with a peg, whose
\* remainder reaches restPeg only when the pool across is empty or there is no midpoint.
PegsInv ==
    /\ PegPoolsSettled
    /\ MidStillCurrent
    /\ Dealing /\ orders[incoming].ordType = "PEG_MID" => SettledPools
    /\ pc = "rest" /\ orders[incoming].ordType = "PEG_MID" /\ orders[incoming].quantity > 0
          /\ Mid # NA => pegs[Opposite(incomingSide)] = <<>>

\* A cancel takes prices out of the lit book only, so it makes no midpoint.
LEMMA CancelMakesNoMid ==
    ASSUME IInv, NEW id \in CancelIds, CancelOrder(id)
    PROVE  Mid = NA => Mid' = NA
<1>1. \A s \in Sides : DOMAIN book'[s] \subseteq DOMAIN book[s]
  <2> DEFINE r     == openOrders[id]
             side  == orders[r].side
             price == orders[r].price
  <2>1. \/ book' = book
        \/ book' = [book EXCEPT ![side] =
                       IF price \in DOMAIN @
                       THEN WithLevel(@, price, Without(@[price], r)) ELSE @]
    BY DEF CancelOrder
  <2>2. DOMAIN book = Sides
    BY DEF IInv, TypeOK
  <2> HIDE DEF r, side, price
  <2> QED BY <2>1, <2>2 DEF WithLevel
<1>2. ASSUME Mid = NA PROVE Bids = {} \/ Asks = {}
  <2> SUFFICES ASSUME Bids # {}, Asks # {} PROVE FALSE
    OBVIOUS
  <2> DEFINE b == BestPrice("BUY", Bids)
             a == BestPrice("SELL", Asks)
  <2>1. b \in Bids /\ a \in Asks /\ Bids \subseteq Price /\ Asks \subseteq Price
    <3>1. Bids \in SUBSET Price /\ Asks \in SUBSET Price
      BY DEF IInv, TypeOK, Bids, Asks, Sides
    <3> QED BY <3>1, BestPriceIsBest DEF Sides
  <2>2. b \in Nat /\ a \in Nat
    BY <2>1, PricesAreNat
  <2>3. Mid = (b + a) \div 2
    BY DEF Mid, MidOf
  <2> HIDE DEF b, a
  <2> QED BY <1>2, <2>2, <2>3 DEF NA
<1>3. Bids' \subseteq Bids /\ Asks' \subseteq Asks
  BY <1>1 DEF Bids, Asks, Sides
<1> QED BY <1>2, <1>3 DEF Mid, MidOf
\* A pool that is empty stays empty, unless the incoming order joins it.
LEMMA EmptyPoolStays ==
    ASSUME StepsThroughQueues, NEW s \in Sides, pegs[s] = <<>>
    PROVE  pegs'[s] = <<>> \/ (Dealing /\ pegs'[s] = Append(pegs[s], incoming))
<1>1. QueueStep(pegs[s], pegs'[s])
  BY DEF StepsThroughQueues
<1>2. \A r : Without(<<>>, r) = <<>>
  BY DEF Without, Range
<1> QED BY <1>1, <1>2 DEF QueueStep

\* An iteration of matchPegPool empties no pool but that across.
LEMMA MatchPegPoolKeepsPegsInv ==
    ASSUME IInv, PegsInv, MidStillCurrent', MatchPegPool
    PROVE  PegsInv'
<1>1. /\ pc = "pegs" /\ pc' = "pegs" /\ book' = book /\ Dealing
      /\ pegs[Opposite(incomingSide)] # <<>>
      /\ pegs' = pegs \/ pegs' = [pegs EXCEPT ![Opposite(incomingSide)] = Tail(@)]
  BY DEF MatchPegPool, Dealing
<1>2. TermsStay
  BY MatchPegPoolSteps DEF StepsThroughQueues
<1>3. incoming' = incoming /\ incoming \in Refs
  <2>1. \E x, y, h : orders' = [orders EXCEPT ![incoming] = x, ![h] = y]
    BY DEF MatchPegPool
  <2>2. DOMAIN orders' = DOMAIN orders /\ orders \in Seq(OrderRecord)
    BY <2>1 DEF IInv, TypeOK
  <2>3. orders' \in Seq(OrderRecord')
    BY MatchPegPoolKeepsIInv DEF IInv, TypeOK
  <2> QED BY <2>2, <2>3, <1>1, LenProperties, IncomingOrder DEF incoming
<1>4. ASSUME orders'[incoming'].ordType = "PEG_MID" PROVE SettledPools'
  <2>1. orders[incoming].ordType = "PEG_MID"
    BY <1>2, <1>3, <1>4 DEF TermsStay, SameTerms
  <2>2. SettledPools
    BY <2>1, <1>1 DEF PegsInv
  <2>3. \A s \in Sides : pegs[s] = <<>> => pegs'[s] = <<>>
    BY <1>1 DEF IInv, TypeOK
  <2> QED BY <2>2, <2>3, <1>1, SameBookSameMid DEF SettledPools
<1> QED BY <1>1, <1>4 DEF PegsInv, PegPoolsSettled, Dealing

\* The invariant of the pools survives every step.
LEMMA NextKeepsPegsInv == IInv /\ PegsInv /\ MidStillCurrent' /\ [Next]_vars => PegsInv'
<1> SUFFICES ASSUME IInv, PegsInv, MidStillCurrent', [Next]_vars PROVE PegsInv'
  OBVIOUS
<1>0. IInv'
  BY NextKeepsIInv
<1>1. ASSUME NEW t \in Tickets, AddOrder(t) PROVE PegsInv'
  <2>1. /\ pc = "idle" /\ UNCHANGED <<book, pegs>> /\ Arrive(t)
        /\ pc' = IF t.ordType = "PEG_MID"
                 THEN IF Mid = NA THEN "rest" ELSE "pegs"
                 ELSE IF Mid # NA /\ CrossesMid(t.side, t.price, Mid)
                      THEN "pegs" ELSE "lit"
    BY <1>1 DEF AddOrder, Call
  <2>2. Mid' = Mid
    BY <2>1, SameBookSameMid
  <2>3. SettledPools'
    BY <2>1, <2>2 DEF PegsInv, PegPoolsSettled, SettledPools
  <2>4. pc' = "rest" => Mid' = NA
    BY <2>1, <2>2
  <2>5. pc' # "idle"
    BY <2>1
  <2> QED BY <2>3, <2>4, <2>5 DEF PegsInv, PegPoolsSettled
<1>2. CASE UNCHANGED <<book, pegs, pc>> /\ pc = "idle"
  BY <1>2, SameBookSameMid DEF PegsInv, PegPoolsSettled, Dealing
<1>3. ASSUME NEW id \in CancelIds, CancelOrder(id) PROVE PegsInv'
  <2>1. pc = "idle" /\ pc' = "idle"
    BY <1>3 DEF CancelOrder, Call
  <2>2. ASSUME NEW s \in Sides, pegs[s] = <<>> PROVE pegs'[s] = <<>>
    <3>1. StepsThroughQueues
      BY <1>3, CancelOrderSteps
    <3> QED BY <2>1, <2>2, <3>1, EmptyPoolStays DEF Dealing
  <2>3. Mid' # NA => Mid # NA
    BY <1>3, CancelMakesNoMid
  <2> QED BY <2>1, <2>2, <2>3 DEF PegsInv, PegPoolsSettled, Dealing
<1>4. CASE MatchPegPool
  BY <1>4, MatchPegPoolKeepsPegsInv
<1>5. CASE MatchPegPoolEnds
  <2>1. /\ pc = "pegs" /\ pc' \in {"rest", "lit"} /\ UNCHANGED <<orders, book, pegs>>
        /\ orders[incoming].quantity = 0 \/ pegs[Opposite(incomingSide)] = <<>>
    BY <1>5 DEF MatchPegPoolEnds, books
  <2>2. incoming \in Refs /\ orders[incoming].quantity \in Nat
    BY <2>1, IncomingOrder, OrderFields DEF Dealing
  <2> QED BY <2>1, <2>2, SameBookSameMid
       DEF PegsInv, PegPoolsSettled, SettledPools, Dealing, incoming, incomingSide
<1>6. ASSUME NEW p \in Price, MatchLit(p) PROVE PegsInv'
  <2>1. pc' = "lit"
    BY <1>6 DEF MatchLit
  <2> QED BY <2>1, <1>0 DEF IInv, PhaseFacts, PegsInv, PegPoolsSettled
<1>7. CASE MatchLitEnds
  <2>1. pc = "lit" /\ pc' = "rest" /\ orders' = orders
    BY <1>7 DEF MatchLitEnds
  <2> QED BY <2>1 DEF IInv, PhaseFacts, PegsInv, PegPoolsSettled, incoming
<1>8. CASE RestPeg
  <2>1. /\ pc = "rest" /\ pc' = "idle" /\ book' = book /\ orders[incoming].quantity > 0
        /\ orders[incoming].ordType = "PEG_MID"
        /\ pegs' = [pegs EXCEPT ![incomingSide] = Append(@, incoming)]
    BY <1>8 DEF RestPeg, Return, AddLast, incomingSide
  <2>2. Mid # NA => pegs[Opposite(incomingSide)] = <<>>
    BY <2>1 DEF PegsInv
  <2>3. incomingSide \in Sides
    BY <2>1, IncomingOrder DEF Dealing
  <2>4. Opposite(incomingSide) \in Sides /\ Opposite(incomingSide) # incomingSide
    BY <2>3 DEF Opposite, Sides
  <2>5. pegs'[Opposite(incomingSide)] = pegs[Opposite(incomingSide)]
    BY <2>1, <2>4 DEF IInv, TypeOK
  <2> HIDE DEF incomingSide
  <2> QED BY <2>1, <2>2, <2>4, <2>5, SameBookSameMid DEF PegsInv, PegPoolsSettled, Dealing
<1>9. CASE AddToBook
  <2>1. pc' = "cross"
    BY <1>9 DEF AddToBook
  <2> QED BY <2>1 DEF PegsInv, PegPoolsSettled, Dealing
<1>10. CASE ExpireRemainder \/ NoRemainder
  <2>1. /\ pc = "rest" /\ UNCHANGED <<book, pegs>>
        /\ \/ orders[incoming].ordType = "PEG_MID" /\ pc' = "idle"
           \/ pc' = "cross"
    BY <1>10 DEF ExpireRemainder, NoRemainder, AfterRest, Return, books
  <2> QED BY <2>1, SameBookSameMid DEF PegsInv, PegPoolsSettled, SettledPools, Dealing
<1>11. CASE CrossPegPools
  <2>1. pc' = "cross"
    BY <1>11 DEF CrossPegPools
  <2> QED BY <2>1 DEF PegsInv, PegPoolsSettled, Dealing
<1>12. CASE CrossPegPoolsEnds
  <2>1. /\ pc = "cross" /\ pc' = "idle" /\ UNCHANGED <<book, pegs>>
        /\ mid = NA \/ \E s \in Sides : pegs[s] = <<>>
    BY <1>12 DEF CrossPegPoolsEnds, Return, books
  <2> QED BY <2>1, SameBookSameMid DEF PegsInv, PegPoolsSettled, MidStillCurrent, Dealing
<1>13. ASSUME NEW t \in Tickets, AddOrderKilled(t) PROVE PegsInv'
  BY <1>2, <1>13 DEF AddOrderKilled, Call
<1>14. ASSUME NEW id \in CancelIds, CancelOrderRefused(id) PROVE PegsInv'
  BY <1>2, <1>14 DEF CancelOrderRefused, Call
<1>15. ASSUME UNCHANGED vars PROVE PegsInv'
  <2>1. UNCHANGED <<orders, book, pegs, pc, mid>>
    BY <1>15 DEF vars
  <2> QED BY <2>1, SameBookSameMid
       DEF PegsInv, PegPoolsSettled, SettledPools, Dealing, incoming, incomingSide
<1> QED BY <1>1, <1>3, <1>4, <1>5, <1>6, <1>7, <1>8, <1>9, <1>10, <1>11, <1>12, <1>13,
           <1>14, <1>15 DEF Next, Continue, Exhausted

\* The invariant of the pools holds of every behaviour.
LEMMA PegsInvHolds == Spec => []PegsInv
<1>1. Init => PegsInv
  <2> SUFFICES ASSUME Init PROVE PegsInv
    OBVIOUS
  <2>1. pc = "idle" /\ pegs["BUY"] = <<>> /\ "BUY" \in Sides
    BY DEF Init, Sides
  <2> QED BY <2>1 DEF PegsInv, PegPoolsSettled, MidStillCurrent, Dealing
<1> QED BY <1>1, NextKeepsPegsInv, IInvHolds, MidStaysCurrent, PTL DEF Spec

\* Between calls pegs rest on both sides only while there is no midpoint to trade at
\* (crossPegPools after every limit order, matchPegPool before every restPeg).
THEOREM PoolsSettle == Spec => []PegPoolsSettled
<1>1. PegsInv => PegPoolsSettled
  BY DEF PegsInv
<1> QED BY <1>1, PegsInvHolds, PTL
-----------------------------------------------------------------------------
(* The index of open orders. *)

IdsDiffer == \A q, r \in Refs : q # r => orders[q].orderID # orders[r].orderID

\* What is registered under an id rests and has that id, also when clients reuse ids.
RegisteredRest ==
    \A id \in DOMAIN openOrders :
        openOrders[id] \in Resting /\ orders[openOrders[id]].orderID = id

\* The inductive invariant of the index.
IndexInv ==
    /\ RegisteredRest
    /\ ~ ReuseIds => IdsDiffer /\ \A r \in Resting : orders[r].orderID \in DOMAIN openOrders

\* A step that takes orders off the book and their ids out of the index.
LEMMA IndexLosesOrders ==
    ASSUME IInv, IndexInv, TermsStay, Refs' = Refs,
           NEW gone \in SUBSET Resting, Resting' = Resting \ gone,
           openOrders' = Unregister({orders[r].orderID : r \in gone})
    PROVE  IndexInv'
<1>1. \A r \in Refs : orders'[r].orderID = orders[r].orderID
  BY DEF TermsStay, SameTerms
<1>2. Resting \subseteq Refs
  BY RestingOrders DEF Resting, LitOrders, IInv
<1> DEFINE ids == {orders[r].orderID : r \in gone}
<1>3. /\ DOMAIN openOrders' = DOMAIN openOrders \ ids
      /\ \A id \in DOMAIN openOrders' : openOrders'[id] = openOrders[id]
  BY DEF Unregister, Restrict
<1>4. ASSUME NEW id \in DOMAIN openOrders'
      PROVE  openOrders'[id] \in Resting' /\ orders'[openOrders'[id]].orderID = id
  <2>1. /\ openOrders'[id] = openOrders[id] /\ id \notin ids
        /\ openOrders[id] \in Resting /\ orders[openOrders[id]].orderID = id
    BY <1>3 DEF IndexInv, RegisteredRest
  <2>2. openOrders[id] \notin gone /\ openOrders[id] \in Refs
    BY <2>1, <1>2
  <2> QED BY <2>1, <2>2, <1>1
<1>5. ASSUME ~ ReuseIds, NEW r \in Resting' PROVE orders'[r].orderID \in DOMAIN openOrders'
  <2>1. r \in Resting /\ r \notin gone /\ r \in Refs
    BY <1>2
  <2>2. orders[r].orderID \notin ids
    BY <2>1, <1>2, <1>5 DEF IndexInv, IdsDiffer
  <2>3. orders[r].orderID \in DOMAIN openOrders
    BY <2>1, <1>5 DEF IndexInv
  <2> QED BY <2>1, <2>2, <2>3, <1>1, <1>3
<1>6. ~ ReuseIds => IdsDiffer'
  BY <1>1 DEF IndexInv, IdsDiffer
<1> QED BY <1>4, <1>5, <1>6 DEF IndexInv, RegisteredRest

\* The incoming order joins the book and, under its id, the index.
IncomingRests ==
    /\ incoming \in Refs /\ incoming \notin Resting /\ Refs' = Refs /\ TermsStay
    /\ Resting' = Resting \cup {incoming} /\ openOrders' = Register(incoming)

\* A step that puts the incoming order on the book and its id into the index.
LEMMA IndexGainsOrder == IInv /\ IndexInv /\ IncomingRests => IndexInv'
<1> SUFFICES ASSUME IInv, IndexInv, IncomingRests PROVE IndexInv'
  OBVIOUS
<1>0. /\ incoming \in Refs /\ Refs' = Refs
      /\ Resting' = Resting \cup {incoming} /\ openOrders' = Register(incoming)
  BY DEF IncomingRests
<1>1. \A r \in Refs : orders'[r].orderID = orders[r].orderID
  BY DEF IncomingRests, TermsStay, SameTerms
<1>2. Resting \subseteq Refs
  BY RestingOrders DEF Resting, LitOrders, IInv
<1> DEFINE own == orders[incoming].orderID
<1>3. /\ DOMAIN openOrders' = DOMAIN openOrders \cup {own}
      /\ \A id \in DOMAIN openOrders' :
            openOrders'[id] = IF id = own THEN incoming ELSE openOrders[id]
  BY <1>0 DEF Register
<1>4. ASSUME NEW id \in DOMAIN openOrders'
      PROVE  openOrders'[id] \in Resting' /\ orders'[openOrders'[id]].orderID = id
  <2>1. CASE id = own
    BY <2>1, <1>0, <1>1, <1>3
  <2>2. CASE id # own
    <3>1. /\ openOrders'[id] = openOrders[id] /\ id \in DOMAIN openOrders
          /\ openOrders[id] \in Resting /\ orders[openOrders[id]].orderID = id
      BY <2>2, <1>3 DEF IndexInv, RegisteredRest
    <3> QED BY <3>1, <1>0, <1>1, <1>2
  <2> QED BY <2>1, <2>2
<1>5. ASSUME ~ ReuseIds, NEW r \in Resting' PROVE orders'[r].orderID \in DOMAIN openOrders'
  <2>1. r = incoming \/ r \in Resting
    BY <1>0
  <2> QED BY <2>1, <1>0, <1>1, <1>2, <1>3, <1>5 DEF IndexInv
<1>6. ~ ReuseIds => IdsDiffer'
  BY <1>0, <1>1 DEF IndexInv, IdsDiffer
<1> QED BY <1>4, <1>5, <1>6 DEF IndexInv, RegisteredRest

\* A step that touches neither the queues nor the index.
LEMMA IndexUntouched ==
    ASSUME IInv, IndexInv, TermsStay, Refs' = Refs, UNCHANGED <<book, pegs, openOrders>>
    PROVE  IndexInv'
<1>1. Resting' = Resting
  BY DEF Resting, LitOrders, PegOrders
<1>2. Resting \subseteq Refs
  BY RestingOrders DEF Resting, LitOrders, IInv
<1>3. \A r \in Refs : orders'[r].orderID = orders[r].orderID
  BY DEF TermsStay, SameTerms
<1> QED BY <1>1, <1>2, <1>3 DEF IndexInv, IdsDiffer, RegisteredRest

\* The orders of a level are on no other.
LEMMA LevelLosesOrders ==
    ASSUME IInv, NEW s \in Sides, NEW p \in DOMAIN book[s], NEW queue,
           NEW gone \in SUBSET Range(book[s][p]),
           Range(queue) = Range(book[s][p]) \ gone,
           book' = [book EXCEPT ![s] = WithLevel(book[s], p, queue)]
    PROVE  \A z \in Sides : LitOrders(z)' = LitOrders(z) \ gone
<1>1. \A z \in Sides : book'[z] = IF z = s THEN WithLevel(book[s], p, queue) ELSE book[z]
  BY DEF IInv, TypeOK
<1>2. \A x \in gone : orders[x].side = s /\ orders[x].price = p
  BY RestingOrders DEF IInv
<1>3. ASSUME NEW z \in Sides, z # s PROVE LitOrders(z)' = LitOrders(z) \ gone
  <2>1. LitOrders(z)' = LitOrders(z)
    BY <1>1, <1>3 DEF LitOrders
  <2>2. \A x \in LitOrders(z) : orders[x].side = z
    BY RestingOrders DEF IInv, LitOrders
  <2> QED BY <2>1, <2>2, <1>2, <1>3
<1>4. ASSUME NEW x \in LitOrders(s)' PROVE x \in LitOrders(s) \ gone
  <2>1. PICK q \in DOMAIN book'[s] : x \in Range(book'[s][q])
    BY <1>4 DEF LitOrders
  <2>2. CASE q = p
    <3>1. book'[s][q] = queue
      BY <2>2, <1>1, LevelReplaced
    <3> QED BY <3>1, <2>1 DEF LitOrders
  <2>3. CASE q # p
    <3>1. q \in DOMAIN book[s] /\ book'[s][q] = book[s][q]
      BY <2>3, <1>1, LevelReplaced
    <3>2. orders[x].price = q
      BY <3>1, <2>1, RestingOrders DEF IInv
    <3> QED BY <3>1, <3>2, <2>1, <2>3, <1>2 DEF LitOrders
  <2> QED BY <2>2, <2>3
<1>5. ASSUME NEW x \in LitOrders(s) \ gone PROVE x \in LitOrders(s)'
  <2>1. PICK q \in DOMAIN book[s] : x \in Range(book[s][q])
    BY <1>5 DEF LitOrders
  <2>2. CASE q = p
    <3>1. x \in Range(queue)
      BY <2>1, <2>2, <1>5
    <3>2. queue # <<>>
      BY <3>1 DEF Range
    <3>3. p \in DOMAIN book'[s] /\ book'[s][p] = queue
      <4>1. WithLevel(book[s], p, queue) =
               [k \in DOMAIN book[s] \cup {p} |-> IF k = p THEN queue ELSE book[s][k]]
        BY <3>2 DEF WithLevel
      <4> QED BY <4>1, <1>1
    <3> QED BY <3>1, <3>3 DEF LitOrders
  <2>3. CASE q # p
    <3>1. q \in DOMAIN book'[s] /\ book'[s][q] = book[s][q]
      BY <2>3, <1>1 DEF WithLevel
    <3> QED BY <3>1, <2>1 DEF LitOrders
  <2> QED BY <2>2, <2>3
<1> QED BY <1>3, <1>4, <1>5

\* What rests after orders left the lit book and the pools.
LEMMA RestingShrinks ==
    ASSUME NEW gone, \A s \in Sides : LitOrders(s)' = LitOrders(s) \ gone,
           \A s \in Sides : PegOrders(s)' = PegOrders(s) \ gone
    PROVE  Resting' = Resting \ gone
  BY DEF Resting

-----------------------------------------------------------------------------
(* A trade, whichever loop makes it. *)

\* The orders of a trade of n that leave the book: resting ones with nothing left.
Gone(a, h, n) == {x \in {a, h} \cap Resting : orders[x].quantity = n}

FilledStatus(order, n) == IF order.quantity = n THEN "FILLED" ELSE "PARTIALLY_FILLED"

\* A resting order h trades n at a price with a: another one that rests, or the order the
\* running call deals with.  Both lose n, and leave the book and the index if that is all.
Trade(a, h, n, price) ==
    /\ a \in Refs /\ h \in Refs /\ h \in Resting /\ a # h
    /\ a \in Resting \/ (Dealing /\ a = incoming)
    /\ n \in 1 .. orders[a].quantity /\ n \in 1 .. orders[h].quantity
    /\ Refs' = Refs /\ incoming' = incoming /\ TermsStay
    /\ \A r \in {a, h} : orders'[r].quantity = orders[r].quantity - n
    /\ \A r \in {a, h} : orders'[r].status = FilledStatus(orders[r], n)
    /\ \A r \in Refs \ {a, h} : orders'[r] = orders[r]
    /\ \A s \in Sides : /\ LitOrders(s)' = LitOrders(s) \ Gone(a, h, n)
                        /\ PegOrders(s)' = PegOrders(s) \ Gone(a, h, n)
    /\ openOrders' = Unregister({orders[r].orderID : r \in Gone(a, h, n)})
    /\ Execute(a, h, n, price)
    /\ UNCHANGED <<pc, mid, calls>>

\* Two orders of the heap fill; one of them may show a fresh slice.
LEMMA TwoOrdersFill ==
    ASSUME IInv, NEW a \in Refs, NEW h \in Refs, a # h, NEW x \in OrderRecord,
           NEW n \in 1 .. orders[a].quantity, n \in 1 .. orders[h].quantity,
           x \in {Fill(orders[h], n), RefreshDisplay(Fill(orders[h], n))},
           orders' = [orders EXCEPT ![a] = Fill(orders[a], n), ![h] = x]
    PROVE  /\ Refs' = Refs /\ incoming' = incoming /\ TermsStay
           /\ \A r \in {a, h} : orders'[r].quantity = orders[r].quantity - n
           /\ \A r \in {a, h} : orders'[r].status = FilledStatus(orders[r], n)
           /\ \A r \in Refs \ {a, h} : orders'[r] = orders[r]
<1> DEFINE o == Fill(orders[a], n)
<1>1. orders[a] \in OrderRecord /\ orders[h] \in OrderRecord /\ TypeOK
  BY HeapHoldsOrders DEF IInv
<1>2. /\ o \in OrderRecord /\ o.quantity = orders[a].quantity - n /\ SameTerms(o, orders[a])
      /\ o.status = FilledStatus(orders[a], n)
  BY <1>1, FillOrder, OperationsKeepTerms DEF FilledStatus
<1>3. /\ x.quantity = orders[h].quantity - n /\ SameTerms(x, orders[h])
      /\ x.status = FilledStatus(orders[h], n)
  <2> DEFINE f == Fill(orders[h], n)
  <2>1. /\ f \in OrderRecord /\ f.quantity = orders[h].quantity - n
        /\ f.status = FilledStatus(orders[h], n)
    BY <1>1, FillOrder DEF FilledStatus
  <2>2. RefreshDisplay(f).quantity = f.quantity /\ RefreshDisplay(f).status = f.status
    BY <2>1 DEF RefreshDisplay, OrderRecord
  <2>3. SameTerms(f, orders[h]) /\ SameTerms(RefreshDisplay(f), orders[h])
    BY <1>1, OperationsKeepTerms
  <2> HIDE DEF f
  <2> QED BY <2>1, <2>2, <2>3 DEF f
<1>4. orders' = [orders EXCEPT ![a] = o, ![h] = x]
  OBVIOUS
<1> HIDE DEF o
<1>5. TermsStay /\ Refs' = Refs
  BY <1>1, <1>2, <1>3, <1>4, TwoKeepTerms
<1>6. /\ incoming' = incoming /\ orders'[a] = o /\ orders'[h] = x
      /\ \A r \in Refs \ {a, h} : orders'[r] = orders[r]
  BY <1>1, <1>2, <1>4, HeapHoldsOrders, TwoOrdersChange DEF Refs, incoming
<1> QED BY <1>2, <1>3, <1>5, <1>6

\* An iteration of matchPegPool is a trade with the head of the pool across.
MatchPegPoolTrade ==
    LET h == Head(pegs[Opposite(incomingSide)])
    IN  /\ h \in PegOrders(Opposite(incomingSide))
        /\ Trade(incoming, h, Least(orders[incoming].quantity, orders[h].quantity), mid)

LEMMA MatchPegPoolTrades == IInv /\ MatchPegPool => MatchPegPoolTrade
<1> SUFFICES ASSUME IInv, MatchPegPool PROVE MatchPegPoolTrade
  OBVIOUS
<1> DEFINE side == Opposite(incomingSide)
           a    == incoming
           h    == Head(pegs[side])
           n    == Least(orders[a].quantity, orders[h].quantity)
<1>1. /\ pc = "pegs" /\ pegs[side] # <<>> /\ orders[a].quantity > 0
      /\ orders' = [orders EXCEPT ![a] = Fill(@, n), ![h] = Fill(@, n)]
      /\ Execute(a, h, n, mid)
      /\ openOrders' = Unregister(IdsFilledBy(n, {h}))
      /\ pegs' = IF orders[h].quantity = n THEN [pegs EXCEPT ![side] = Tail(@)] ELSE pegs
      /\ UNCHANGED <<book, pc, mid, calls>>
  BY DEF MatchPegPool
<1>2. /\ incomingSide \in Sides /\ TypeOK /\ a \in Refs /\ a \notin Resting /\ Dealing
      /\ orders[a] \in OrderRecord
  BY <1>1, IncomingOrder DEF Dealing, IInv
<1>3. side \in Sides
  BY <1>2 DEF Opposite, Sides
<1>4. /\ h \in PegOrders(side) /\ Range(Tail(pegs[side])) = PegOrders(side) \ {h}
      /\ h \in Resting /\ h \in Refs /\ IsLive(h) /\ orders[h] \in OrderRecord
  <2>1. h \in PegOrders(side) /\ Range(Tail(pegs[side])) = PegOrders(side) \ {h}
    BY <1>1, <1>3, RestingOrders, TailOfQueue DEF IInv, PegOrders
  <2> QED BY <2>1, <1>3, RestingOrders, HeapHoldsOrders DEF IInv
<1>5. \A s \in Sides : h \notin LitOrders(s) /\ (s # side => h \notin PegOrders(s))
  BY <1>3, <1>4, RestingOrders DEF IInv, LitOrders
<1>6. n \in 1 .. orders[a].quantity /\ n \in 1 .. orders[h].quantity
  <2>1. /\ orders[h].quantity \in Nat /\ orders[h].quantity > 0
        /\ orders[a].quantity \in Nat /\ orders[a].quantity > 0
    BY <1>1, <1>2, <1>4, OrderFields DEF IsLive
  <2> QED BY <2>1 DEF Least
<1>7. a # h
  BY <1>2, <1>4
<1> HIDE DEF n, h, a, side
<1> DEFINE gone == Gone(a, h, n)
<1>8. gone = {x \in {h} : orders[x].quantity = n}
  BY <1>2, <1>4 DEF Gone
<1>9. ASSUME NEW s \in Sides PROVE PegOrders(s)' = PegOrders(s) \ gone
  <2>1. CASE s = side /\ orders[h].quantity = n
    <3>1. pegs'[s] = Tail(pegs[side])
      BY <2>1, <1>1, <1>2 DEF TypeOK
    <3> QED BY <2>1, <3>1, <1>4, <1>8 DEF PegOrders
  <2>2. CASE ~ (s = side /\ orders[h].quantity = n)
    <3>1. pegs'[s] = pegs[s]
      BY <2>2, <1>1, <1>2 DEF TypeOK
    <3> QED BY <2>2, <3>1, <1>5, <1>8 DEF PegOrders
  <2> QED BY <2>1, <2>2
<1>10. ASSUME NEW s \in Sides PROVE LitOrders(s)' = LitOrders(s) \ gone
  <2>1. LitOrders(s)' = LitOrders(s)
    BY <1>1 DEF LitOrders
  <2> QED BY <2>1, <1>5, <1>8
<1>11. openOrders' = Unregister({orders[r].orderID : r \in gone})
  BY <1>1, <1>8 DEF IdsFilledBy
<1> HIDE DEF gone
<1>12. /\ Refs' = Refs /\ incoming' = incoming /\ TermsStay
       /\ \A r \in {a, h} : orders'[r].quantity = orders[r].quantity - n
       /\ \A r \in {a, h} : orders'[r].status = FilledStatus(orders[r], n)
       /\ \A r \in Refs \ {a, h} : orders'[r] = orders[r]
  <2>1. Fill(orders[h], n) \in OrderRecord
    BY <1>4, <1>6, FillOrder
  <2>2. orders' = [orders EXCEPT ![a] = Fill(orders[a], n), ![h] = Fill(orders[h], n)]
    BY <1>1, <1>7
  <2> QED BY <2>1, <2>2, <1>2, <1>4, <1>6, <1>7, TwoOrdersFill
<1>13. Trade(a, h, n, mid)
  BY <1>1, <1>2, <1>4, <1>6, <1>7, <1>9, <1>10, <1>11, <1>12 DEF Trade, a, gone
<1> QED BY <1>4, <1>13 DEF MatchPegPoolTrade, a, h, n, side

\* An iteration of crossPegPools is a trade of the heads of the two pools.
CrossPegPoolsTrade ==
    LET b == Head(pegs["BUY"])
        s == Head(pegs["SELL"])
        n == Least(orders[b].quantity, orders[s].quantity)
        g == LaterArrival(b, s)
    IN  /\ b \in PegOrders("BUY") /\ s \in PegOrders("SELL")
        /\ Trade(g, IF g = b THEN s ELSE b, n, mid)

LEMMA CrossPegPoolsTrades == IInv /\ CrossPegPools => CrossPegPoolsTrade
<1> SUFFICES ASSUME IInv, CrossPegPools PROVE CrossPegPoolsTrade
  OBVIOUS
<1> DEFINE b == Head(pegs["BUY"])
           a == Head(pegs["SELL"])
           n == Least(orders[b].quantity, orders[a].quantity)
           g == LaterArrival(b, a)
           o == IF g = b THEN a ELSE b
<1>1. /\ \A s \in Sides : pegs[s] # <<>>
      /\ orders' = [orders EXCEPT ![b] = Fill(@, n), ![a] = Fill(@, n)]
      /\ Execute(g, o, n, mid)
      /\ openOrders' = Unregister(IdsFilledBy(n, {b, a}))
      /\ pegs' = [s \in Sides |-> IF orders[Head(pegs[s])].quantity = n
                                 THEN Tail(pegs[s]) ELSE pegs[s]]
      /\ UNCHANGED <<book, pc, mid, calls>>
  BY DEF CrossPegPools, Sides
<1>2. \A s \in Sides : /\ Head(pegs[s]) \in PegOrders(s)
                        /\ Range(Tail(pegs[s])) = PegOrders(s) \ {Head(pegs[s])}
  BY <1>1, RestingOrders, TailOfQueue DEF PegOrders, IInv
<1>3. \A s \in Sides : LET h == Head(pegs[s])
                       IN  /\ h \in Resting /\ h \in Refs /\ orders[h].side = s
                           /\ IsLive(h) /\ orders[h].ordType = "PEG_MID"
  BY <1>2, RestingOrders DEF IInv
<1>4. /\ a \in Resting /\ a \in Refs /\ IsLive(a) /\ orders[a].side = "SELL"
      /\ b \in Resting /\ b \in Refs /\ IsLive(b) /\ orders[b].side = "BUY"
      /\ orders[a] \in OrderRecord /\ orders[b] \in OrderRecord /\ a # b
  <2>1. /\ a \in Resting /\ a \in Refs /\ IsLive(a) /\ orders[a].side = "SELL"
        /\ b \in Resting /\ b \in Refs /\ IsLive(b) /\ orders[b].side = "BUY"
    BY <1>3 DEF Sides
  <2> QED BY <2>1, HeapHoldsOrders DEF IInv
<1>5. \A s \in Sides : \A x \in {a, b} :
         x \notin LitOrders(s) /\ (x # Head(pegs[s]) => x \notin PegOrders(s))
  <2>1. \A s \in Sides : /\ \A x \in LitOrders(s) : orders[x].ordType = "LIMIT"
                         /\ \A x \in PegOrders(s) : orders[x].side = s
    BY RestingOrders DEF IInv, LitOrders
  <2> QED BY <2>1, <1>3 DEF Sides
<1>6. \A s \in Sides : Head(pegs[s]) \in {a, b}
  BY DEF Sides
<1>7. n \in 1 .. orders[a].quantity /\ n \in 1 .. orders[b].quantity
  <2>1. /\ orders[a].quantity \in Nat /\ orders[a].quantity > 0
        /\ orders[b].quantity \in Nat /\ orders[b].quantity > 0
    BY <1>4, OrderFields DEF IsLive
  <2> QED BY <2>1 DEF Least
<1> HIDE DEF n, a, b
<1>8. g \in {a, b} /\ o \in {a, b} /\ g # o
  BY <1>4 DEF LaterArrival
<1> HIDE DEF g, o
<1> DEFINE gone == Gone(g, o, n)
<1>9. gone = {x \in {b, a} : orders[x].quantity = n}
  BY <1>4, <1>8 DEF Gone
<1>10. ASSUME NEW s \in Sides PROVE PegOrders(s)' = PegOrders(s) \ gone
  <2>1. CASE orders[Head(pegs[s])].quantity = n
    <3>1. pegs'[s] = Tail(pegs[s])
      BY <2>1, <1>1
    <3> QED BY <2>1, <3>1, <1>2, <1>5, <1>6, <1>9 DEF PegOrders
  <2>2. CASE orders[Head(pegs[s])].quantity # n
    <3>1. pegs'[s] = pegs[s]
      BY <2>2, <1>1
    <3> QED BY <2>2, <3>1, <1>5, <1>9 DEF PegOrders
  <2> QED BY <2>1, <2>2
<1>11. ASSUME NEW s \in Sides PROVE LitOrders(s)' = LitOrders(s) \ gone
  <2>1. LitOrders(s)' = LitOrders(s)
    BY <1>1 DEF LitOrders
  <2> QED BY <2>1, <1>5, <1>9
<1>12. openOrders' = Unregister({orders[r].orderID : r \in gone})
  BY <1>1, <1>9 DEF IdsFilledBy
<1> HIDE DEF gone
<1>13. /\ Refs' = Refs /\ incoming' = incoming /\ TermsStay
       /\ \A r \in {b, a} : orders'[r].quantity = orders[r].quantity - n
       /\ \A r \in {b, a} : orders'[r].status = FilledStatus(orders[r], n)
       /\ \A r \in Refs \ {b, a} : orders'[r] = orders[r]
  <2>1. Fill(orders[a], n) \in OrderRecord
    BY <1>4, <1>7, FillOrder
  <2>2. orders' = [orders EXCEPT ![b] = Fill(orders[b], n), ![a] = Fill(orders[a], n)]
    BY <1>1, <1>4
  <2> QED BY <2>1, <2>2, <1>4, <1>7, TwoOrdersFill
<1>14. \A x : x \in {g, o} <=> x \in {b, a}
  BY <1>8
<1>15. Trade(g, o, n, mid)
  BY <1>1, <1>4, <1>7, <1>8, <1>10, <1>11, <1>12, <1>13, <1>14 DEF Trade, gone
<1> QED BY <1>2, <1>15 DEF CrossPegPoolsTrade, b, a, g, o, n, Sides

\* An iteration of matchBuy or matchSell is a trade with the head of the level.
MatchLitTrade(p) ==
    LET h == Head(book[Opposite(incomingSide)][p])
    IN  /\ h \in Range(book[Opposite(incomingSide)][p])
        /\ Trade(incoming, h, Least(orders[incoming].quantity, orders[h].visibleQty), p)

LEMMA MatchLitTrades == \A p \in Price : IInv /\ MatchLit(p) => MatchLitTrade(p)
<1> SUFFICES ASSUME NEW p \in Price, IInv, MatchLit(p) PROVE MatchLitTrade(p)
  OBVIOUS
<1> DEFINE a      == incoming
           side   == Opposite(incomingSide)
           queue  == book[side][p]
           h      == Head(queue)
           n      == Least(orders[a].quantity, orders[h].visibleQty)
           filled == Fill(orders[h], n)
           reload == filled.quantity > 0 /\ filled.visibleQty = 0
           next   == IF reload THEN RefreshDisplay(filled) ELSE filled
           newQueue == IF filled.quantity = 0 THEN Tail(queue)
                       ELSE IF reload THEN Append(Tail(queue), h) ELSE queue
           gone   == Gone(a, h, n)
<1>1. /\ pc = "lit" /\ p \in DOMAIN book[side] /\ orders[a].quantity > 0
      /\ orders' = [orders EXCEPT ![a] = Fill(@, n), ![h] = next]
      /\ Execute(a, h, n, p)
      /\ book' = [book EXCEPT ![side] = WithLevel(@, p, newQueue)]
      /\ openOrders' = Unregister(IdsFilledBy(n, {h}))
      /\ UNCHANGED <<pegs, pc, mid, calls>>
  BY DEF MatchLit, IsMatchLevel, AddLast, Reloads
<1>2. /\ incomingSide \in Sides /\ a \in Refs /\ a \notin Resting /\ Dealing
      /\ orders[a] \in OrderRecord
  BY <1>1, IncomingOrder DEF Dealing
<1>3. side \in Sides
  BY <1>2 DEF Opposite, Sides
<1> HIDE DEF side, a
<1>4. queue \in Seq(Refs) /\ queue # <<>> /\ IsInjective(queue)
      /\ \A x \in Range(queue) : x \in Refs /\ x \in Resting /\ orders[x].ordType = "LIMIT"
  <2>1. p \in DOMAIN book[side] /\ side \in Sides
    BY <1>1, <1>3
  <2> QED BY <2>1, RestingOrders DEF IInv
<1>5. /\ h \in Range(queue) /\ h \in Refs /\ Tail(queue) \in Seq(Refs) /\ h \in Resting
      /\ IsInjective(Tail(queue)) /\ Range(Tail(queue)) = Range(queue) \ {h} /\ h # a
  BY <1>2, <1>4, TailOfQueue
<1>6. FitsLevel(orders[h], side, p) /\ orders[h] \in OrderRecord
  BY <1>1, <1>3, <1>5, HeapHoldsOrders, OrdersFitTheirLevels DEF IInv
<1> HIDE DEF queue, h
<1>7. /\ n \in 1 .. orders[h].quantity /\ n \in 1 .. orders[a].quantity
      /\ n \in 1 .. orders[h].visibleQty
  <2>1. /\ orders[h].visibleQty \in Nat /\ orders[h].visibleQty > 0
        /\ orders[h].quantity \in Nat /\ orders[h].visibleQty <= orders[h].quantity
        /\ orders[a].quantity \in Nat /\ orders[a].quantity > 0
    BY <1>1, <1>2, <1>6, OrderFields DEF FitsLevel
  <2> QED BY <2>1 DEF Least
<1> HIDE DEF n
<1>8. filled.quantity = 0 <=> orders[h].quantity = n
  BY <1>6, <1>7, FillOrder, OrderFields
<1>9. next \in OrderRecord /\ next \in {filled, RefreshDisplay(filled)}
  BY <1>6, <1>7, FilledHead
<1>10. /\ Refs' = Refs /\ incoming' = incoming /\ TermsStay
       /\ \A r \in {a, h} : orders'[r].quantity = orders[r].quantity - n
       /\ \A r \in {a, h} : orders'[r].status = FilledStatus(orders[r], n)
       /\ \A r \in Refs \ {a, h} : orders'[r] = orders[r]
  <2>1. orders' = [orders EXCEPT ![a] = Fill(orders[a], n), ![h] = next]
    BY <1>1
  <2>2. next \in {Fill(orders[h], n), RefreshDisplay(Fill(orders[h], n))}
    BY <1>9
  <2> HIDE DEF next
  <2> QED BY <2>1, <2>2, <1>2, <1>5, <1>7, <1>9, TwoOrdersFill
<1> HIDE DEF filled, reload, next
<1>11. gone = {x \in {h} : orders[x].quantity = n}
  BY <1>2, <1>5 DEF Gone
<1>12. Range(newQueue) = Range(queue) \ gone
  <2>1. CASE filled.quantity = 0
    BY <2>1, <1>5, <1>8, <1>11
  <2>2. CASE filled.quantity # 0 /\ reload
    <3> DEFINE t == Tail(queue)
    <3>1. t \in Seq(Refs) /\ IsInjective(t) /\ h \notin Range(t)
      BY <1>5
    <3>2. newQueue = Append(t, h)
      BY <2>2
    <3> HIDE DEF t, newQueue
    <3>3. Range(newQueue) = Range(t) \cup {h}
      BY <3>1, <3>2, <1>5, AppendToQueue
    <3>4. Range(newQueue) = Range(queue)
      BY <3>3, <1>5 DEF t
    <3> QED BY <3>4, <2>2, <1>8, <1>11
  <2>3. CASE filled.quantity # 0 /\ ~ reload
    BY <2>3, <1>8, <1>11
  <2> QED BY <2>1, <2>2, <2>3
<1> HIDE DEF newQueue
<1>13. \A s \in Sides : LitOrders(s)' = LitOrders(s) \ gone
  <2>1. book' = [book EXCEPT ![side] = WithLevel(book[side], p, newQueue)]
    BY <1>1
  <2>2. gone \in SUBSET Range(book[side][p]) /\ Range(newQueue) = Range(book[side][p]) \ gone
    BY <1>5, <1>11, <1>12 DEF queue
  <2>3. p \in DOMAIN book[side] /\ side \in Sides
    BY <1>1, <1>3
  <2> HIDE DEF gone
  <2> QED BY <2>1, <2>2, <2>3, LevelLosesOrders
<1>14. \A s \in Sides : PegOrders(s)' = PegOrders(s) \ gone
  <2>1. \A s \in Sides : h \notin PegOrders(s)
    BY <1>4, <1>5, RestingOrders DEF IInv
  <2> QED BY <2>1, <1>1, <1>11 DEF PegOrders
<1>15. openOrders' = Unregister({orders[r].orderID : r \in gone})
  BY <1>1, <1>11 DEF IdsFilledBy
<1> HIDE DEF gone
<1>16. Trade(a, h, n, p)
  BY <1>1, <1>2, <1>5, <1>7, <1>10, <1>13, <1>14, <1>15 DEF Trade, a, gone
<1>17. h \in Range(book[side][p])
  BY <1>5 DEF queue
<1> QED BY <1>16, <1>17 DEF MatchLitTrade, a, h, n, side, queue

\* A trade takes off the book those it fills, and nothing else.
LEMMA TradeLeavesResting ==
    ASSUME NEW a, NEW h, NEW n, NEW price, Trade(a, h, n, price)
    PROVE  Resting' = Resting \ Gone(a, h, n) /\ Gone(a, h, n) \in SUBSET Resting
<1> DEFINE gone == Gone(a, h, n)
<1>1. /\ \A s \in Sides : LitOrders(s)' = LitOrders(s) \ gone
      /\ \A s \in Sides : PegOrders(s)' = PegOrders(s) \ gone
  BY DEF Trade
<1>2. gone \in SUBSET Resting
  BY DEF Gone
<1> HIDE DEF gone
<1>3. Resting' = Resting \ gone
  BY <1>1, RestingShrinks
<1> QED BY <1>2, <1>3 DEF gone

\* A trade takes those it fills out of queue and index together; a reloaded iceberg
\* leaves neither.
LEMMA TradeKeepsIndex ==
    ASSUME IInv, IndexInv, NEW a, NEW h, NEW n, NEW price, Trade(a, h, n, price)
    PROVE  IndexInv'
<1> DEFINE gone == Gone(a, h, n)
<1>1. TermsStay /\ Refs' = Refs /\ openOrders' = Unregister({orders[r].orderID : r \in gone})
  BY DEF Trade
<1>2. Resting' = Resting \ gone /\ gone \in SUBSET Resting
  BY TradeLeavesResting
<1> HIDE DEF gone
<1> QED BY <1>1, <1>2, IndexLosesOrders

\* restPeg: the remainder joins pool and index together.
LEMMA RestPegRests == IInv /\ RestPeg => IncomingRests
<1> SUFFICES ASSUME IInv, RestPeg PROVE IncomingRests
  OBVIOUS
<1>0. PICK side : side = orders[incoming].side
  OBVIOUS
<1>1. /\ pc = "rest" /\ orders' = orders /\ book' = book
      /\ pegs' = [pegs EXCEPT ![side] = Append(@, incoming)]
      /\ openOrders' = Register(incoming)
  BY <1>0 DEF RestPeg, AddLast
<1>2. incoming \in Refs /\ incoming \notin Resting /\ side \in Sides /\ TypeOK
  BY <1>0, <1>1, IncomingOrder DEF Dealing, IInv
<1>3. PegOrders(side)' = PegOrders(side) \cup {incoming}
  <2>1. pegs[side] \in Seq(Refs) /\ IsInjective(pegs[side]) /\ incoming \notin Range(pegs[side])
    BY <1>2, RestingOrders DEF IInv, PegOrders
  <2>2. pegs'[side] = Append(pegs[side], incoming)
    BY <1>1, <1>2 DEF TypeOK
  <2> QED BY <2>1, <2>2, <1>2, AppendToQueue DEF PegOrders
<1>4. \A s \in Sides : s # side => PegOrders(s)' = PegOrders(s)
  BY <1>1, <1>2 DEF TypeOK, PegOrders
<1>5. \A s \in Sides : LitOrders(s)' = LitOrders(s)
  BY <1>1 DEF LitOrders
<1>6. Resting' = Resting \cup {incoming}
  BY <1>2, <1>3, <1>4, <1>5 DEF Resting
<1>7. TermsStay /\ Refs' = Refs
  BY <1>1, RestPegSteps DEF StepsThroughQueues, Refs
<1> QED BY <1>1, <1>2, <1>6, <1>7 DEF IncomingRests

\* addToBook: the remainder joins level and index together.
LEMMA AddToBookRests == IInv /\ AddToBook => IncomingRests
<1> SUFFICES ASSUME IInv, AddToBook PROVE IncomingRests
  OBVIOUS
<1>0. PICK side, price : side = orders[incoming].side /\ price = orders[incoming].price
  OBVIOUS
<1> DEFINE old   == QueueAt(book[side], price)
           queue == Append(old, incoming)
<1>1. /\ pc = "rest" /\ pegs' = pegs /\ openOrders' = Register(incoming)
      /\ \E x : orders' = [orders EXCEPT ![incoming] = x]
      /\ book' = [book EXCEPT ![side] = WithLevel(@, price, Append(QueueAt(@, price), incoming))]
  BY <1>0 DEF AddToBook, AddLast
<1>2. incoming \in Refs /\ incoming \notin Resting /\ side \in Sides /\ TypeOK
  BY <1>0, <1>1, IncomingOrder DEF Dealing, IInv
<1>3. /\ old \in Seq(Refs) /\ IsInjective(old) /\ incoming \notin Range(old)
      /\ price \in DOMAIN book[side] => old = book[side][price]
      /\ price \notin DOMAIN book[side] => Range(old) = {}
  <2>1. CASE price \in DOMAIN book[side]
    <3>1. old = book[side][price]
      BY <2>1 DEF QueueAt
    <3> QED BY <3>1, <2>1, <1>2, RestingOrders DEF IInv
  <2>2. CASE price \notin DOMAIN book[side]
    <3>1. old = <<>>
      BY <2>2 DEF QueueAt
    <3> QED BY <3>1, <2>2, EmptySeq DEF Range, IsInjective
  <2> QED BY <2>1, <2>2
<1> HIDE DEF old
<1>4. Range(queue) = Range(old) \cup {incoming} /\ queue # <<>>
  BY <1>2, <1>3, AppendToQueue
<1>5. \A s \in Sides : book'[s] = IF s = side THEN WithLevel(book[side], price, queue)
                                              ELSE book[s]
  BY <1>1, <1>2 DEF TypeOK, old
<1> HIDE DEF queue
<1>6. WithLevel(book[side], price, queue) =
         [k \in DOMAIN book[side] \cup {price} |->
             IF k = price THEN queue ELSE book[side][k]]
  BY <1>4 DEF WithLevel
<1>7. LitOrders(side)' = LitOrders(side) \cup {incoming}
  <2>1. ASSUME NEW x \in LitOrders(side)' PROVE x \in LitOrders(side) \cup {incoming}
    <3>1. PICK k \in DOMAIN book'[side] : x \in Range(book'[side][k])
      BY <2>1 DEF LitOrders
    <3>2. CASE k = price
      <4>1. x \in Range(queue)
        BY <3>1, <3>2, <1>2, <1>5, <1>6
      <4> QED BY <4>1, <1>3, <1>4 DEF LitOrders
    <3>3. CASE k # price
      BY <3>1, <3>3, <1>2, <1>5, <1>6 DEF LitOrders
    <3> QED BY <3>2, <3>3
  <2>2. ASSUME NEW x \in LitOrders(side) \cup {incoming} PROVE x \in LitOrders(side)'
    <3>1. CASE x = incoming
      <4>1. price \in DOMAIN book'[side] /\ book'[side][price] = queue
        BY <1>2, <1>5, <1>6
      <4> QED BY <3>1, <4>1, <1>4 DEF LitOrders
    <3>2. CASE x \in LitOrders(side)
      <4>1. PICK k \in DOMAIN book[side] : x \in Range(book[side][k])
        BY <3>2 DEF LitOrders
      <4>2. k \in DOMAIN book'[side] /\ x \in Range(book'[side][k])
        <5>1. CASE k = price
          BY <5>1, <4>1, <1>2, <1>3, <1>4, <1>5, <1>6
        <5>2. CASE k # price
          BY <5>2, <4>1, <1>2, <1>5, <1>6
        <5> QED BY <5>1, <5>2
      <4> QED BY <4>2 DEF LitOrders
    <3> QED BY <2>2, <3>1, <3>2
  <2> QED BY <2>1, <2>2
<1>8. \A s \in Sides : s # side => LitOrders(s)' = LitOrders(s)
  BY <1>5 DEF LitOrders
<1>9. \A s \in Sides : PegOrders(s)' = PegOrders(s)
  BY <1>1 DEF PegOrders
<1>10. Resting' = Resting \cup {incoming}
  BY <1>2, <1>7, <1>8, <1>9 DEF Resting
<1>11. TermsStay /\ Refs' = Refs
  BY <1>1, AddToBookSteps DEF StepsThroughQueues, Refs
<1> QED BY <1>1, <1>2, <1>10, <1>11 DEF IncomingRests

\* The order the index names under an id leaves the book.
NamedOrderLeaves(id) ==
    /\ id \in DOMAIN openOrders /\ openOrders[id] \in Refs /\ openOrders[id] \in Resting
    /\ orders[openOrders[id]].orderID = id /\ Refs' = Refs /\ TermsStay
    /\ Resting' = Resting \ {openOrders[id]} /\ openOrders' = Unregister({id})

\* cancelOrder: the order the index names under the id is the one that leaves its queue.
LEMMA CancelOrderLeaves ==
    ASSUME IInv, IndexInv, NEW id \in CancelIds, CancelOrder(id)
    PROVE  NamedOrderLeaves(id)
<1> DEFINE r     == openOrders[id]
           side  == orders[r].side
           price == orders[r].price
           queue == Without(book[side][price], r)
<1>1. /\ id \in DOMAIN openOrders /\ openOrders' = Unregister({id})
      /\ orders' = [orders EXCEPT ![r] = Cancel(@)]
      /\ \/ /\ orders[r].ordType = "PEG_MID" /\ book' = book
            /\ pegs' = [pegs EXCEPT ![side] = Without(@, r)]
         \/ /\ orders[r].ordType # "PEG_MID" /\ pegs' = pegs
            /\ book' = [book EXCEPT ![side] =
                          IF price \in DOMAIN @
                          THEN WithLevel(@, price, Without(@[price], r)) ELSE @]
  BY DEF CancelOrder, IsOpen
<1>2. r \in Resting /\ orders[r].orderID = id
  BY <1>1 DEF IndexInv, RegisteredRest
<1>3. r \in Refs /\ TypeOK
  BY <1>1 DEF IInv, TypeOK
<1>4. side \in Sides
  BY <1>3, HeapHoldsOrders, OrderFields
<1>5. TermsStay /\ Refs' = Refs
  BY <1>1, CancelOrderSteps DEF StepsThroughQueues, Refs
<1> HIDE DEF r, side, price
<1>6. ASSUME orders[r].ordType = "PEG_MID" PROVE Resting' = Resting \ {r}
  <2>1. book' = book /\ pegs' = [pegs EXCEPT ![side] = Without(@, r)]
    BY <1>1, <1>6
  <2>2. ASSUME NEW s \in Sides PROVE PegOrders(s)' = PegOrders(s) \ {r}
    <3>1. pegs[s] \in Seq(Refs) /\ IsInjective(pegs[s])
      BY RestingOrders DEF IInv
    <3>2. CASE s = side
      <4>1. pegs'[s] = Without(pegs[s], r)
        BY <2>1, <3>2, <1>3 DEF TypeOK
      <4> QED BY <4>1, <3>1, WithoutRemoves DEF PegOrders
    <3>3. CASE s # side
      <4>1. pegs'[s] = pegs[s]
        BY <2>1, <3>3, <1>3 DEF TypeOK
      <4>2. r \notin PegOrders(s)
        BY <3>3, RestingOrders DEF IInv, side
      <4> QED BY <4>1, <4>2 DEF PegOrders
    <3> QED BY <3>2, <3>3
  <2>3. ASSUME NEW s \in Sides PROVE LitOrders(s)' = LitOrders(s) \ {r}
    <3>1. r \notin LitOrders(s)
      BY <1>6, RestingOrders DEF IInv, LitOrders
    <3> QED BY <3>1, <2>1 DEF LitOrders
  <2> QED BY <2>2, <2>3, RestingShrinks
<1>7. ASSUME orders[r].ordType # "PEG_MID" PROVE Resting' = Resting \ {r}
  <2>1. \A s \in Sides : r \notin PegOrders(s)
    BY <1>7, RestingOrders DEF IInv
  <2>2. price \in DOMAIN book[side] /\ r \in Range(book[side][price])
    <3>1. PICK s \in Sides : r \in LitOrders(s)
      BY <2>1, <1>2 DEF Resting
    <3>2. PICK p \in DOMAIN book[s] : r \in Range(book[s][p])
      BY <3>1 DEF LitOrders
    <3>3. orders[r].side = s /\ orders[r].price = p
      BY <3>2, RestingOrders DEF IInv
    <3> QED BY <3>2, <3>3 DEF side, price
  <2>3. Range(queue) = Range(book[side][price]) \ {r}
    BY <2>2, <1>4, RestingOrders, WithoutRemoves DEF IInv
  <2>4. book' = [book EXCEPT ![side] = WithLevel(book[side], price, queue)] /\ pegs' = pegs
    BY <2>2, <1>1, <1>7
  <2> HIDE DEF queue
  <2> DEFINE gone == {r}
  <2>5. gone \in SUBSET Range(book[side][price])
        /\ Range(queue) = Range(book[side][price]) \ gone
    BY <2>2, <2>3
  <2>6. \A s \in Sides : PegOrders(s)' = PegOrders(s) \ gone
    BY <2>1, <2>4 DEF PegOrders
  <2> HIDE DEF gone
  <2>7. \A s \in Sides : LitOrders(s)' = LitOrders(s) \ gone
    BY <2>2, <2>4, <2>5, <1>4, LevelLosesOrders
  <2>8. Resting' = Resting \ gone
    BY <2>6, <2>7, RestingShrinks
  <2> QED BY <2>8 DEF gone
<1> QED BY <1>1, <1>2, <1>3, <1>5, <1>6, <1>7 DEF NamedOrderLeaves, r

\* A cancel takes the order it names out of queue and index together.
LEMMA CancelOrderKeepsIndex ==
    ASSUME IInv, IndexInv, NEW id \in CancelIds, CancelOrder(id)
    PROVE  IndexInv'
<1> DEFINE r    == openOrders[id]
           gone == {r}
<1>1. /\ TermsStay /\ Refs' = Refs /\ r \in Resting /\ orders[r].orderID = id
      /\ Resting' = Resting \ {r} /\ openOrders' = Unregister({id})
  BY CancelOrderLeaves DEF NamedOrderLeaves
<1> HIDE DEF r
<1>2. openOrders' = Unregister({orders[x].orderID : x \in gone})
  BY <1>1
<1>3. gone \in SUBSET Resting /\ Resting' = Resting \ gone
  BY <1>1
<1> HIDE DEF gone
<1> QED BY <1>1, <1>2, <1>3, IndexLosesOrders

\* A cancel that finds no live order finds nothing under the id.
LEMMA CancelOrderRefusedKeepsIndex ==
    ASSUME IInv, IndexInv, NEW id \in CancelIds, CancelOrderRefused(id)
    PROVE  IndexInv'
<1>1. /\ ~ IsOpen(id) /\ openOrders' = Unregister({id})
      /\ UNCHANGED <<orders, book, pegs>>
  BY DEF CancelOrderRefused
<1>2. id \notin DOMAIN openOrders
  <2> SUFFICES ASSUME id \in DOMAIN openOrders PROVE FALSE
    OBVIOUS
  <2>1. openOrders[id] \in Resting
    BY DEF IndexInv, RegisteredRest
  <2>2. IsLive(openOrders[id])
    BY <2>1, RestingOrders DEF IInv, Resting, LitOrders
  <2> QED BY <2>2, <1>1 DEF IsOpen, IsLive
<1>3. /\ DOMAIN openOrders' = DOMAIN openOrders
      /\ \A x \in DOMAIN openOrders : openOrders'[x] = openOrders[x]
  BY <1>1, <1>2 DEF Unregister, Restrict
<1>4. Resting' = Resting
  BY <1>1 DEF Resting, LitOrders, PegOrders
<1> QED BY <1>1, <1>3, <1>4 DEF IndexInv, IdsDiffer, RegisteredRest, Refs

\* A new order brings an id no other order has, and rests nowhere yet.
LEMMA ArrivalKeepsIndex ==
    ASSUME IInv, IndexInv, NEW t \in Tickets, Arrive(t),
           UNCHANGED <<book, pegs, openOrders, trades>>
    PROVE  IndexInv'
<1>1. /\ Refs' = Refs \cup {incoming'} /\ incoming' \notin Refs
      /\ \A r \in Refs : orders'[r] = orders[r]
      /\ \E ts \in Nat : orders'[incoming'] = NewOrder(t, ts)
  BY ArrivalGrowsHeap DEF IInv
<1>2. orders'[incoming'].orderID = t.orderID
  BY <1>1 DEF NewOrder
<1>3. ~ ReuseIds => IdsDiffer'
  <2>1. ~ ReuseIds => \A r \in Refs : orders[r].orderID # t.orderID
    BY DEF Arrive
  <2> QED BY <2>1, <1>1, <1>2 DEF IndexInv, IdsDiffer
<1>4. Resting' = Resting /\ Resting \subseteq Refs
  <2>1. Resting' = Resting
    BY ArrivalKeepsBook
  <2> QED BY <2>1, RestingOrders DEF Resting, LitOrders, IInv
<1> QED BY <1>1, <1>3, <1>4 DEF IndexInv, RegisteredRest

\* Every step keeps the index and the queues in agreement.
LEMMA NextKeepsIndex == IInv /\ IndexInv /\ [Next]_vars => IndexInv'
<1> SUFFICES ASSUME IInv, IndexInv, [Next]_vars PROVE IndexInv'
  OBVIOUS
<1>1. ASSUME NEW t \in Tickets, AddOrder(t) \/ AddOrderKilled(t) PROVE IndexInv'
  <2>1. Arrive(t) /\ UNCHANGED <<book, pegs, openOrders, trades>>
    BY <1>1 DEF AddOrder, AddOrderKilled
  <2> QED BY <2>1, ArrivalKeepsIndex
<1>2. ASSUME NEW id \in CancelIds, CancelOrder(id) \/ CancelOrderRefused(id)
      PROVE  IndexInv'
  BY <1>2, CancelOrderKeepsIndex, CancelOrderRefusedKeepsIndex
<1>3. TermsStay
  BY NextSteps DEF StepsThroughQueues
<1>4. ASSUME Continue PROVE IndexInv'
  <2>1. CASE RestPeg \/ AddToBook
    BY <2>1, RestPegRests, AddToBookRests, IndexGainsOrder
  <2>2. CASE MatchPegPool \/ CrossPegPools \/ \E p \in Price : MatchLit(p)
    <3>1. \E a, h, n, price : Trade(a, h, n, price)
      BY <2>2, MatchPegPoolTrades, CrossPegPoolsTrades, MatchLitTrades
         DEF MatchPegPoolTrade, CrossPegPoolsTrade, MatchLitTrade
    <3> QED BY <3>1, TradeKeepsIndex
  <2>3. CASE MatchPegPoolEnds \/ MatchLitEnds \/ NoRemainder \/ CrossPegPoolsEnds
                \/ ExpireRemainder
    <3>1. Refs' = Refs /\ UNCHANGED <<book, pegs, openOrders>>
      BY <2>3 DEF MatchPegPoolEnds, MatchLitEnds, NoRemainder, CrossPegPoolsEnds,
                  ExpireRemainder, books, Refs
    <3> QED BY <3>1, <1>3, IndexUntouched
  <2> QED BY <1>4, <2>1, <2>2, <2>3 DEF Continue
<1>5. ASSUME UNCHANGED vars PROVE IndexInv'
  <2>1. Refs' = Refs /\ UNCHANGED <<book, pegs, openOrders>>
    BY <1>5 DEF vars, Refs
  <2> QED BY <2>1, <1>3, IndexUntouched
<1> QED BY <1>1, <1>2, <1>4, <1>5 DEF Next, Exhausted

\* The invariant of the index holds of every behaviour.
LEMMA IndexInvHolds == Spec => []IndexInv
<1>1. Init => IndexInv
  <2> SUFFICES ASSUME Init PROVE IndexInv
    OBVIOUS
  <2>1. Refs = {} /\ DOMAIN openOrders = {}
    BY DEF Init, Refs
  <2>2. Resting = {}
    <3>1. /\ \A s \in Sides : LitOrders(s) = {}
      BY DEF Init, LitOrders
    <3>2. \A s \in Sides : PegOrders(s) = {}
      BY DEF Init, PegOrders, Range
    <3> QED BY <3>1, <3>2 DEF Resting
  <2> QED BY <2>1, <2>2 DEF IndexInv, IdsDiffer, RegisteredRest
<1> QED BY <1>1, NextKeepsIndex, IInvHolds, PTL DEF Spec

\* While clients do not reuse ids, the map openOrders names exactly the orders that rest,
\* each under its own id: a cancel finds every resting order and nothing else.
THEOREM IndexIsExact == Spec => []OpenOrdersAreTheRestingOrders
<1>1. IndexInv => OpenOrdersAreTheRestingOrders
  BY DEF IndexInv, RegisteredRest, OpenOrdersAreTheRestingOrders
<1> QED BY <1>1, IndexInvHolds, PTL
-----------------------------------------------------------------------------
(* Who is named the aggressor. *)

\* Orders are stamped in the order they arrive.
StampsAscend ==
    0 \notin TimeSteps => \A q, r \in Refs : q < r => orders[q].timeStamp < orders[r].timeStamp

\* The inductive invariant of the aggressor: the stamps and the reports together.
AggressorInv == StampsAscend /\ LaterOrderIsAggressor

\* A step that reports nothing, or something that is not a fill, says nothing of aggressors.
LEMMA OtherReportsNameNoAggressor ==
    ASSUME LaterOrderIsAggressor, TypeOK,
           \/ reports' = reports
           \/ \E x : x.kind # "FILL" /\ reports' = Append(reports, x)
    PROVE  LaterOrderIsAggressor'
<1>1. CASE reports' = reports
  BY <1>1 DEF LaterOrderIsAggressor
<1>2. CASE \E x : x.kind # "FILL" /\ reports' = Append(reports, x)
  <2>1. PICK x : x.kind # "FILL" /\ reports' = Append(reports, x)
    BY <1>2
  <2>2. PICK S : reports \in Seq(S)
    BY DEF TypeOK
  <2>3. DOMAIN reports = 1 .. Len(reports) /\ Len(reports) \in Nat
    BY <2>2
  <2>4. /\ DOMAIN reports' = 1 .. Len(reports) + 1
        /\ \A i \in 1 .. Len(reports) : reports'[i] = reports[i]
        /\ reports'[Len(reports) + 1] = x
    BY <2>1, <2>2
  <2>5. ASSUME 0 \notin TimeSteps, NEW i \in DOMAIN reports', reports'[i].kind = "FILL"
        PROVE  reports'[i].passive < reports'[i].order
    <3>1. i \in 1 .. Len(reports) /\ reports'[i] = reports[i]
      <4>1. i # Len(reports) + 1
        BY <2>1, <2>4, <2>5, Zenon
      <4> QED BY <4>1, <2>3, <2>4
    <3> QED BY <3>1, <2>3, <2>5 DEF LaterOrderIsAggressor
  <2> QED BY <2>5 DEF LaterOrderIsAggressor
<1> QED BY <1>1, <1>2

\* A fill that names the later order as its aggressor.
LEMMA FillsNameTheLaterOrder ==
    ASSUME LaterOrderIsAggressor, TypeOK, NEW a, NEW p, NEW n, NEW price,
           Execute(a, p, n, price), 0 \notin TimeSteps => p < a
    PROVE  LaterOrderIsAggressor'
<1>1. PICK x : x.order = a /\ x.passive = p /\ reports' = Append(reports, x)
  BY DEF Execute, Report
<1>2. PICK S : reports \in Seq(S)
  BY DEF TypeOK
<1>3. DOMAIN reports = 1 .. Len(reports) /\ Len(reports) \in Nat
  BY <1>2
<1>4. /\ DOMAIN reports' = 1 .. Len(reports) + 1
      /\ \A i \in 1 .. Len(reports) : reports'[i] = reports[i]
      /\ reports'[Len(reports) + 1] = x
  BY <1>1, <1>2
<1> QED BY <1>1, <1>3, <1>4 DEF LaterOrderIsAggressor

\* Only an arrival adds to the heap.
LEMMA RefsOnlyGrowByArrival ==
    ASSUME [Next]_vars, TypeOK
    PROVE  Refs' = Refs \/ \E t \in Tickets : Arrive(t)
<1>1. ASSUME NEW t \in Tickets, AddOrder(t) \/ AddOrderKilled(t)
      PROVE  \E u \in Tickets : Arrive(u)
  BY <1>1 DEF AddOrder, AddOrderKilled
<1>2. ASSUME NEW id \in CancelIds, CancelOrder(id) \/ CancelOrderRefused(id)
      PROVE  Refs' = Refs
  BY <1>2 DEF CancelOrder, CancelOrderRefused, Refs
<1>3. ASSUME Continue PROVE Refs' = Refs
  <2>1. ASSUME NEW p \in Price, MatchLit(p) PROVE Refs' = Refs
    BY <2>1 DEF MatchLit, Refs
  <2>2. CASE MatchPegPool \/ CrossPegPools \/ AddToBook \/ ExpireRemainder
    BY <2>2 DEF MatchPegPool, CrossPegPools, AddToBook, ExpireRemainder, Refs
  <2>3. CASE MatchPegPoolEnds \/ MatchLitEnds \/ NoRemainder \/ CrossPegPoolsEnds \/ RestPeg
    BY <2>3 DEF MatchPegPoolEnds, MatchLitEnds, NoRemainder, CrossPegPoolsEnds, RestPeg, Refs
  <2> QED BY <1>3, <2>1, <2>2, <2>3 DEF Continue
<1>4. UNCHANGED vars => Refs' = Refs
  BY DEF vars, Refs
<1> QED BY <1>1, <1>2, <1>3, <1>4 DEF Next, Exhausted

\* No step changes a stamp, and a new order gets a later one.
LEMMA StampsKeepAscending ==
    ASSUME IInv, StampsAscend, [Next]_vars
    PROVE  StampsAscend'
<1> SUFFICES ASSUME 0 \notin TimeSteps,
                    NEW q \in Refs', NEW r \in Refs', q < r
             PROVE  orders'[q].timeStamp < orders'[r].timeStamp
  BY DEF StampsAscend
<1>1. TermsStay
  BY NextSteps DEF StepsThroughQueues
<1>2. CASE q \in Refs /\ r \in Refs
  BY <1>1, <1>2 DEF TermsStay, SameTerms, StampsAscend
<1>3. CASE ~ (q \in Refs /\ r \in Refs)
  <2>1. PICK t \in Tickets : Arrive(t)
    BY <1>3, RefsOnlyGrowByArrival DEF IInv
  <2>2. /\ Refs' = Refs \cup {incoming'} /\ incoming' = incoming + 1
        /\ \A x \in Refs : orders'[x] = orders[x]
    BY <2>1, ArrivalGrowsHeap DEF IInv
  <2>3. Refs = 1 .. incoming /\ incoming \in Nat /\ orders \in Seq(OrderRecord)
    BY DEF Refs, incoming, IInv, TypeOK
  <2>4. r = incoming' /\ q \in Refs /\ incoming \in Refs /\ orders # <<>>
    <3>1. r = incoming + 1 /\ q \in Refs
      BY <2>2, <2>3, <1>3
    <3>2. incoming \in Refs
      BY <3>1, <2>3
    <3> QED BY <3>1, <3>2, <2>2, HeapHoldsOrders DEF Refs
  <2>5. orders[q].timeStamp <= orders[incoming].timeStamp
    <3>1. orders[q].timeStamp \in Nat /\ orders[incoming].timeStamp \in Nat
      BY <2>4, HeapHoldsOrders, OrderFields DEF IInv
    <3> QED BY <3>1, <2>3, <2>4 DEF StampsAscend
  <2>6. orders'[r].timeStamp > orders[incoming].timeStamp
    <3>1. PICK step \in TimeSteps :
             orders' = Append(orders, NewOrder(t, step + orders[incoming].timeStamp))
      BY <2>1, <2>4 DEF Arrive
    <3> DEFINE o == NewOrder(t, step + orders[incoming].timeStamp)
    <3>2. o.timeStamp = step + orders[incoming].timeStamp
      BY DEF NewOrder
    <3>3. step \in Nat /\ step # 0
      BY BoundsAssumption
    <3>4. orders[incoming].timeStamp \in Nat
      BY <2>4, HeapHoldsOrders, OrderFields DEF IInv
    <3> HIDE DEF o
    <3>5. orders'[incoming + 1] = o
      BY <3>1, <2>3 DEF o, incoming
    <3> QED BY <3>2, <3>3, <3>4, <3>5, <2>2, <2>4
  <2>7. /\ orders[q].timeStamp \in Nat /\ orders[incoming].timeStamp \in Nat
        /\ orders'[q] = orders[q] /\ orders'[r].timeStamp \in Nat
    <3>1. PICK ts \in Nat : orders'[incoming'] = NewOrder(t, ts)
      BY <2>1, ArrivalGrowsHeap DEF IInv
    <3>2. orders'[r].timeStamp = ts
      BY <3>1, <2>4 DEF NewOrder
    <3> QED BY <3>2, <2>2, <2>4, HeapHoldsOrders, OrderFields DEF IInv
  <2> QED BY <2>5, <2>6, <2>7
<1> QED BY <1>2, <1>3

\* Every step names the later order.
LEMMA NextKeepsAggressors ==
    IInv /\ AggressorInv /\ [Next]_vars => AggressorInv'
<1> SUFFICES ASSUME IInv, AggressorInv, [Next]_vars PROVE LaterOrderIsAggressor'
  BY StampsKeepAscending DEF AggressorInv
<1>1. TypeOK /\ LaterOrderIsAggressor /\ StampsAscend
  BY DEF IInv, AggressorInv
<1>2. Refs = 1 .. incoming /\ incoming \in Nat
  BY <1>1 DEF Refs, incoming, TypeOK
<1>3. CASE MatchPegPool
  <2> DEFINE h == Head(pegs[Opposite(incomingSide)])
  <2>1. /\ pc = "pegs" /\ pegs[Opposite(incomingSide)] # <<>>
        /\ \E n : Execute(incoming, h, n, mid)
    BY <1>3 DEF MatchPegPool
  <2>2. Opposite(incomingSide) \in Sides /\ incoming \notin Resting
    BY <2>1, IncomingOrder DEF Dealing, Opposite, Sides
  <2>3. h \in PegOrders(Opposite(incomingSide))
    BY <2>1, <2>2, RestingOrders, TailOfQueue DEF IInv, PegOrders
  <2>4. h \in Refs /\ h \in Resting
    BY <2>2, <2>3, RestingOrders DEF IInv
  <2> HIDE DEF h
  <2>5. h < incoming
    BY <2>2, <2>4, <1>2
  <2> QED BY <2>1, <2>5, <1>1, FillsNameTheLaterOrder
<1>4. ASSUME NEW p \in Price, MatchLit(p) PROVE LaterOrderIsAggressor'
  <2> DEFINE side == Opposite(incomingSide)
             h    == Head(book[side][p])
  <2>1. pc = "lit" /\ p \in DOMAIN book[side] /\ \E n : Execute(incoming, h, n, p)
    BY <1>4 DEF MatchLit, IsMatchLevel
  <2>2. side \in Sides /\ incoming \notin Resting
    BY <2>1, IncomingOrder DEF Dealing, Opposite, Sides
  <2> HIDE DEF side
  <2>3. book[side][p] \in Seq(Refs) /\ book[side][p] # <<>> /\ IsInjective(book[side][p])
    BY <2>1, <2>2, RestingOrders DEF IInv
  <2>4. h \in Range(book[side][p])
    BY <2>3, TailOfQueue
  <2>5. h \in Refs /\ h \in Resting
    BY <2>1, <2>2, <2>4, RestingOrders DEF IInv
  <2> HIDE DEF h
  <2>6. h < incoming
    BY <2>2, <2>5, <1>2
  <2> QED BY <2>1, <2>6, <1>1, FillsNameTheLaterOrder
<1>5. CASE CrossPegPools
  <2> DEFINE b == Head(pegs["BUY"])
             a == Head(pegs["SELL"])
             g == LaterArrival(b, a)
             p == IF g = b THEN a ELSE b
  <2>1. /\ \A s \in Sides : pegs[s] # <<>>
        /\ \E n : Execute(g, p, n, mid)
    BY <1>5 DEF CrossPegPools, Sides
  <2>2. \A s \in Sides : Head(pegs[s]) \in PegOrders(s)
    BY <2>1, RestingOrders, TailOfQueue DEF PegOrders, IInv
  <2>3. \A s \in Sides : Head(pegs[s]) \in Refs /\ orders[Head(pegs[s])].side = s
    BY <2>2, RestingOrders DEF IInv
  <2>4. b \in Refs /\ a \in Refs /\ b # a
    BY <2>3 DEF Sides
  <2> HIDE DEF b, a
  <2>5. orders[b].timeStamp \in Nat /\ orders[a].timeStamp \in Nat
    BY <2>4, <1>1, HeapHoldsOrders, OrderFields
  <2>6. ASSUME 0 \notin TimeSteps PROVE p < g
    <3>1. CASE b < a
      <4>1. orders[b].timeStamp < orders[a].timeStamp
        BY <3>1, <2>4, <2>6, <1>1 DEF StampsAscend
      <4> QED BY <4>1, <2>5, <3>1 DEF LaterArrival
    <3>2. CASE a < b
      <4>1. orders[a].timeStamp < orders[b].timeStamp
        BY <3>2, <2>4, <2>6, <1>1 DEF StampsAscend
      <4> QED BY <4>1, <2>5, <3>2 DEF LaterArrival
    <3> QED BY <3>1, <3>2, <2>4, <1>2
  <2> HIDE DEF g, p
  <2> QED BY <2>1, <2>6, <1>1, FillsNameTheLaterOrder
<1>6. ASSUME NEW t \in Tickets, AddOrder(t) \/ AddOrderKilled(t)
      PROVE  LaterOrderIsAggressor'
  <2>1. \/ reports' = reports
        \/ \E x : x.kind # "FILL" /\ reports' = Append(reports, x)
    BY <1>6 DEF AddOrder, AddOrderKilled, Report
  <2> QED BY <2>1, <1>1, OtherReportsNameNoAggressor
<1>7. ASSUME NEW id \in CancelIds, CancelOrder(id) \/ CancelOrderRefused(id)
      PROVE  LaterOrderIsAggressor'
  <2>1. \E x : x.kind # "FILL" /\ reports' = Append(reports, x)
    BY <1>7 DEF CancelOrder, CancelOrderRefused, Answer
  <2> QED BY <2>1, <1>1, OtherReportsNameNoAggressor
<1>8. CASE RestPeg \/ AddToBook \/ ExpireRemainder
  <2>1. \E x : x.kind # "FILL" /\ reports' = Append(reports, x)
    BY <1>8 DEF RestPeg, AddToBook, ExpireRemainder, Report
  <2> QED BY <2>1, <1>1, OtherReportsNameNoAggressor
<1>9. CASE \/ MatchPegPoolEnds \/ MatchLitEnds \/ NoRemainder \/ CrossPegPoolsEnds
           \/ UNCHANGED vars
  <2>1. reports' = reports
    BY <1>9 DEF MatchPegPoolEnds, MatchLitEnds, NoRemainder, CrossPegPoolsEnds, vars
  <2> QED BY <2>1, <1>1, OtherReportsNameNoAggressor
<1> QED BY <1>3, <1>4, <1>5, <1>6, <1>7, <1>8, <1>9 DEF Next, Continue, Exhausted

\* When no two orders share a time stamp, every fill is reported to the later of its two
\* orders as the aggressor, also between two pegs that both rested (crossPegPools).
THEOREM TheLaterOrderIsTheAggressor == Spec => []LaterOrderIsAggressor
<1>1. Init => AggressorInv
  BY DEF Init, AggressorInv, StampsAscend, LaterOrderIsAggressor, Refs
<1>2. AggressorInv => LaterOrderIsAggressor
  BY DEF AggressorInv
<1> QED BY <1>1, <1>2, NextKeepsAggressors, IInvHolds, PTL DEF Spec
=============================================================================
