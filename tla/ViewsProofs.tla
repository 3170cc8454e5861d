---------------------------- MODULE ViewsProofs ----------------------------
(***************************************************************************)
(* The client's views, for any books, prints, echoes and answers: the      *)
(* opening price ignores the answers to runs of the effect that are over,  *)
(* the chart agrees with the session's figures, the colours of the tape    *)
(* tell the move, the inspector's selection sticks, and the panels of the  *)
(* book show one book.                                                     *)
(***************************************************************************)
EXTENDS ClientViews, ClientTheorems, FiniteSetTheorems, WellFoundedInduction

Fetch == [ disposed : BOOLEAN, at : {"fetch", "timer", "done"}, retriesLeft : Int ]

\* Only the last run of the effect may still count: those before it were
\* disposed of before it began.  One disposed of has no timer.
FetchInv ==
    /\ fetches \in Seq(Fetch)
    /\ \A e \in DOMAIN fetches : e # Len(fetches) => fetches[e].disposed = TRUE
    /\ \A e \in DOMAIN fetches : fetches[e].disposed = TRUE => fetches[e].at # "timer"

\* A sequence with one element replaced.
LEMMA OneFetchChanges ==
    ASSUME NEW e \in DOMAIN fetches, fetches \in Seq(Fetch), NEW f \in Fetch,
           fetches' = [fetches EXCEPT ![e] = f]
    PROVE  /\ fetches' \in Seq(Fetch) /\ Len(fetches') = Len(fetches)
           /\ DOMAIN fetches' = DOMAIN fetches /\ fetches'[e] = f
           /\ \A d \in DOMAIN fetches : d # e => fetches'[d] = fetches[d]
<1>1. Len(fetches) \in Nat /\ DOMAIN fetches = 1 .. Len(fetches)
  OBVIOUS
<1>2. \A d \in 1 .. Len(fetches) : fetches[d] \in Fetch
  OBVIOUS
<1>3. DOMAIN fetches' = 1 .. Len(fetches)
      /\ \A d \in 1 .. Len(fetches) : fetches'[d] \in Fetch
  BY <1>1, <1>2
<1>4. fetches' = [d \in 1 .. Len(fetches) |-> fetches'[d]]
  BY <1>1
<1>5. fetches' \in Seq(Fetch) /\ Len(fetches') = Len(fetches)
  BY <1>1, <1>3, <1>4
<1> QED BY <1>1, <1>5

\* Replacing a run by one disposed of no less keeps the invariant.
LEMMA RunMovesOn ==
    ASSUME FetchInv, NEW e \in DOMAIN fetches, NEW f \in Fetch,
           fetches' = [fetches EXCEPT ![e] = f],
           fetches[e].disposed = TRUE => f.disposed = TRUE,
           f.disposed = TRUE => f.at # "timer"
    PROVE  FetchInv'
<1>1. /\ fetches' \in Seq(Fetch) /\ Len(fetches') = Len(fetches)
      /\ DOMAIN fetches' = DOMAIN fetches /\ fetches'[e] = f
      /\ \A d \in DOMAIN fetches : d # e => fetches'[d] = fetches[d]
  BY OneFetchChanges DEF FetchInv
<1> QED BY <1>1 DEF FetchInv

\* MountPage appends a run only when the last one is disposed of.
LEMMA MountKeepsFetchInv == FetchInv /\ MountPage => FetchInv'
<1> SUFFICES ASSUME FetchInv, MountPage PROVE FetchInv'
  OBVIOUS
<1> DEFINE f == [ disposed |-> FALSE, at |-> "fetch", retriesLeft |-> 1 ]
<1>1. fetches \in Seq(Fetch) /\ f \in Fetch /\ fetches' = Append(fetches, f)
  BY DEF FetchInv, MountPage, Fetch
<1>2. Len(fetches) \in Nat /\ DOMAIN fetches = 1 .. Len(fetches)
  BY <1>1
<1> HIDE DEF f
<1>3. /\ fetches' \in Seq(Fetch) /\ Len(fetches') = Len(fetches) + 1
      /\ DOMAIN fetches' = 1 .. Len(fetches) + 1
      /\ \A d \in 1 .. Len(fetches) : fetches'[d] = fetches[d]
  BY <1>1
<1>4. fetches # <<>> => fetches[Len(fetches)].disposed = TRUE
  <2>1. ASSUME fetches # <<>> PROVE fetches[Len(fetches)] \in Fetch
    BY <2>1, <1>1, <1>2
  <2>2. fetches # <<>> => Last(fetches).disposed
    BY DEF MountPage, Mounted
  <2> QED BY <2>1, <2>2 DEF Last, Fetch
<1>5. \A d \in 1 .. Len(fetches) : fetches[d].disposed = TRUE
  <2> SUFFICES ASSUME NEW d \in 1 .. Len(fetches) PROVE fetches[d].disposed = TRUE
    OBVIOUS
  <2>1. fetches # <<>>
    BY <1>2
  <2> QED BY <2>1, <1>2, <1>4 DEF FetchInv
<1>6. fetches'[Len(fetches) + 1] = f /\ f.disposed = FALSE
  <2>1. f.disposed = FALSE
    BY DEF f
  <2> QED BY <1>1, <2>1
<1>7. \A d \in DOMAIN fetches' : fetches'[d].disposed = TRUE => fetches'[d].at # "timer"
  <2> SUFFICES ASSUME NEW d \in DOMAIN fetches', fetches'[d].disposed = TRUE
               PROVE  fetches'[d].at # "timer"
    OBVIOUS
  <2>1. d \in 1 .. Len(fetches)
    BY <1>2, <1>3, <1>6
  <2> QED BY <1>2, <1>3, <2>1 DEF FetchInv
<1> QED BY <1>2, <1>3, <1>5, <1>7 DEF FetchInv

\* A run that is over.
LEMMA OverIsDone ==
    ASSUME NEW run \in Fetch
    PROVE  Over(run) \in Fetch /\ Over(run).disposed = run.disposed /\ Over(run).at = "done"
<1>1. PICK d, r, f : d = run.disposed /\ r = run.retriesLeft /\ f = Over(run)
  OBVIOUS
<1>2. d \in BOOLEAN /\ run = [ disposed |-> d, at |-> run.at, retriesLeft |-> r ]
  BY <1>1 DEF Fetch
<1>3. f = [ disposed |-> d, at |-> "done", retriesLeft |-> 0 ]
  BY <1>1, <1>2 DEF Over
<1> QED BY <1>1, <1>2, <1>3 DEF Fetch

\* An answer changes one run and disposes of none.  Only a run that counts is given
\* a timer.
LEMMA AnswerMovesOneRun ==
    ASSUME FetchInv, NEW e \in DOMAIN fetches, NEW o, FetchAnswers(e, o)
    PROVE  FetchInv'
<1>1. fetches[e] \in Fetch
  BY DEF FetchInv
<1>2. \/ ~ fetches[e].disposed /\ fetches' = [fetches EXCEPT ![e].at = "timer"]
      \/ fetches' = [fetches EXCEPT ![e] = Over(fetches[e])]
  BY DEF FetchAnswers, AnswerCounts
<1>3. CASE ~ fetches[e].disposed /\ fetches' = [fetches EXCEPT ![e].at = "timer"]
  <2> DEFINE f == [fetches[e] EXCEPT !.at = "timer"]
  <2>1. f \in Fetch /\ f.disposed = FALSE /\ fetches[e].disposed = FALSE
    BY <1>1, <1>3 DEF Fetch
  <2>2. fetches' = [fetches EXCEPT ![e] = f]
    BY <1>3
  <2> HIDE DEF f
  <2> QED BY <2>1, <2>2, RunMovesOn
<1>4. CASE fetches' = [fetches EXCEPT ![e] = Over(fetches[e])]
  <2>1. PICK f : f = Over(fetches[e])
    OBVIOUS
  <2>2. f \in Fetch /\ f.disposed = fetches[e].disposed /\ f.at = "done"
    BY <1>1, <2>1, OverIsDone
  <2> QED BY <1>4, <2>1, <2>2, RunMovesOn
<1> QED BY <1>2, <1>3, <1>4

\* The retry timer changes one run, which has not been disposed of, and disposes of
\* none.
LEMMA RetryMovesOneRun ==
    ASSUME FetchInv, NEW e \in DOMAIN fetches, RetryFires(e)
    PROVE  FetchInv'
<1>1. fetches[e] \in Fetch
  BY DEF FetchInv
<1> DEFINE left == fetches[e].retriesLeft - 1
           f    == [fetches[e] EXCEPT !.at = "fetch", !.retriesLeft = left]
<1>2. f \in Fetch /\ f.disposed = fetches[e].disposed /\ f.at = "fetch"
  <2>1. left \in Int
    BY <1>1 DEF Fetch
  <2> HIDE DEF left
  <2> QED BY <2>1, <1>1 DEF Fetch
<1>3. fetches' = [fetches EXCEPT ![e] = f]
  BY DEF RetryFires
<1> HIDE DEF f
<1> QED BY <1>2, <1>3, RunMovesOn

\* The effect's cleanup disposes of the last run and clears its timer.
LEMMA UnmountKeepsFetchInv == FetchInv /\ UnmountPage => FetchInv'
<1> SUFFICES ASSUME FetchInv, UnmountPage PROVE FetchInv'
  OBVIOUS
<1>1. PICK e : e = Len(fetches)
  OBVIOUS
<1>2. fetches \in Seq(Fetch) /\ e \in DOMAIN fetches /\ Last(fetches) = fetches[e]
  BY <1>1 DEF FetchInv, UnmountPage, Mounted, Last
<1>3. fetches[e] \in Fetch
  BY <1>2
<1>4. PICK run : run = [fetches[e] EXCEPT !.disposed = TRUE]
  OBVIOUS
<1>5. run \in Fetch /\ run.disposed = TRUE /\ run.at = fetches[e].at
  BY <1>3, <1>4 DEF Fetch
<1>6. PICK f : f = IF run.at = "timer" THEN Over(run) ELSE run
  OBVIOUS
<1>7. f \in Fetch /\ f.disposed = TRUE /\ f.at # "timer"
  BY <1>5, <1>6, OverIsDone
<1>8. fetches' = [fetches EXCEPT ![e] = f]
  BY <1>1, <1>2, <1>4, <1>6 DEF UnmountPage
<1> QED BY <1>2, <1>7, <1>8, RunMovesOn

\* Every other step leaves the runs and the price alone.
LEMMA OthersLeaveThePrice ==
    ASSUME [ViewsNext]_viewVars
    PROVE  \/ UNCHANGED <<fetches, ignition>>
           \/ (MountPage \/ UnmountPage) /\ UNCHANGED ignition
           \/ \E e \in DOMAIN fetches : RetryFires(e) /\ UNCHANGED ignition
           \/ \E e \in DOMAIN fetches : \E o \in Opens : FetchAnswers(e, o)
  BY DEF ViewsNext, viewVars, BookArrives, PrintArrives, EchoArrives, RefusalArrives, Arrives,
         LeavePage, ChooseFilter, SelectRow, ViewTo, MountPage, UnmountPage, RetryFires

\* Every step of the page keeps the invariant of the runs.
LEMMA ViewsKeepFetchInv == FetchInv /\ [ViewsNext]_viewVars => FetchInv'
<1> SUFFICES ASSUME FetchInv, [ViewsNext]_viewVars PROVE FetchInv'
  OBVIOUS
<1>1. CASE UNCHANGED <<fetches, ignition>>
  BY <1>1 DEF FetchInv
<1>2. CASE MountPage \/ UnmountPage
  BY <1>2, MountKeepsFetchInv, UnmountKeepsFetchInv
<1>3. CASE \E e \in DOMAIN fetches : RetryFires(e)
  BY <1>3, RetryMovesOneRun
<1>4. CASE \E e \in DOMAIN fetches : \E o \in Opens : FetchAnswers(e, o)
  BY <1>4, AnswerMovesOneRun
<1> QED BY <1>1, <1>2, <1>3, <1>4, OthersLeaveThePrice

\* A run that is over stays over.
LEMMA DisposedRunsEnd ==
    ASSUME FetchInv, [ViewsNext]_viewVars, NEW d \in DOMAIN fetches, fetches[d].disposed
    PROVE  fetches'[d].at \in {fetches[d].at, "done"}
<1>0. fetches \in Seq(Fetch) /\ fetches[d] \in Fetch
  BY DEF FetchInv
<1>1. fetches \in Seq(Fetch) /\ fetches[d] \in Fetch /\ fetches[d].disposed = TRUE
  BY <1>0 DEF Fetch
<1>2. Len(fetches) \in Nat /\ DOMAIN fetches = 1 .. Len(fetches)
  BY <1>1
<1>3. CASE UNCHANGED <<fetches, ignition>>
  BY <1>3
<1>4. CASE MountPage
  <2>1. PICK f : f = [ disposed |-> FALSE, at |-> "fetch", retriesLeft |-> 1 ]
    OBVIOUS
  <2>2. f \in Fetch /\ fetches' = Append(fetches, f)
    BY <1>4, <2>1 DEF MountPage, Fetch
  <2>3. fetches'[d] = fetches[d]
    BY <1>1, <1>2, <2>2
  <2> QED BY <2>3
<1>5. CASE UnmountPage
  <2>1. d # Len(fetches)
    BY <1>1, <1>5 DEF UnmountPage, Mounted, Last
  <2>2. fetches'[d] = fetches[d]
    BY <1>5, <2>1 DEF UnmountPage
  <2> QED BY <2>2
<1>6. ASSUME NEW e \in DOMAIN fetches, RetryFires(e)
      PROVE  fetches'[d] = fetches[d]
  <2>1. fetches[e].at = "timer"
    BY <1>6 DEF RetryFires
  <2>2. d # e
    BY <1>1, <2>1 DEF FetchInv
  <2> QED BY <1>6, <2>2 DEF RetryFires
<1>7. ASSUME NEW e \in DOMAIN fetches, NEW o \in Opens, FetchAnswers(e, o)
      PROVE  fetches'[d].at \in {fetches[d].at, "done"}
  <2>1. CASE d # e
    BY <1>7, <2>1 DEF FetchAnswers
  <2>2. CASE d = e
    <3>1. fetches' = [fetches EXCEPT ![e] = Over(fetches[e])]
      BY <1>1, <1>7, <2>2 DEF FetchAnswers, AnswerCounts
    <3>2. fetches'[d] = Over(fetches[d])
      BY <2>2, <3>1
    <3>3. Over(fetches[d]).at = "done"
      BY <1>1, OverIsDone
    <3> QED BY <3>2, <3>3
  <2> QED BY <2>1, <2>2
<1> QED BY <1>3, <1>4, <1>5, <1>6, <1>7, OthersLeaveThePrice

(***************************************************************************)
(* The opening price is set by the effect's current run or by none, and a  *)
(* run that is over neither waits nor fetches again (useIgnitionPrice).    *)
(***************************************************************************)
THEOREM LateAnswersChangeNothing == ViewsSpec => LateAnswersAreIgnored
<1>1. ViewsInit => FetchInv
  BY DEF ViewsInit, FetchInv
<1>2. ASSUME FetchInv, [ViewsNext]_viewVars, ignition' # ignition
      PROVE  Mounted /\ Last(fetches).at = "fetch" /\ Last(fetches').at = "done"
  <2>1. PICK e \in DOMAIN fetches : \E o \in Opens : FetchAnswers(e, o)
    BY <1>2, OthersLeaveThePrice
  <2>2. /\ fetches[e].at = "fetch" /\ ~ fetches[e].disposed
        /\ fetches' = [fetches EXCEPT ![e] = Over(fetches[e])]
    BY <2>1, <1>2 DEF FetchAnswers, AnswerCounts
  <2>3. e = Len(fetches) /\ fetches # <<>> /\ fetches[e] \in Fetch
    BY <2>2, <1>2 DEF FetchInv
  <2>4. Last(fetches) = fetches[e]
    BY <2>3 DEF Last
  <2>5. PICK f : f = Over(fetches[e])
    OBVIOUS
  <2>6. f \in Fetch /\ f.at = "done"
    BY <2>3, <2>5, OverIsDone
  <2>7. Len(fetches') = Len(fetches) /\ fetches'[e] = f
    BY <1>2, <2>2, <2>5, <2>6, OneFetchChanges DEF FetchInv
  <2>8. Last(fetches') = f
    BY <2>7, <2>3 DEF Last
  <2> QED BY <2>2, <2>3, <2>4, <2>6, <2>8 DEF Mounted
<1>3. FetchInv /\ [ViewsNext]_viewVars =>
         [ /\ ignition' # ignition =>
                 Mounted /\ Last(fetches).at = "fetch" /\ Last(fetches').at = "done"
           /\ \A e \in DOMAIN fetches :
                 fetches[e].disposed => fetches'[e].at \in {fetches[e].at, "done"} ]_viewVars
  BY <1>2, DisposedRunsEnd
<1> QED BY <1>1, <1>3, ViewsKeepFetchInv, PTL DEF ViewsSpec, LateAnswersAreIgnored

-----------------------------------------------------------------------------
(* Numbers. *)

\* A set of naturals that is not empty has a least member.
LEMMA SmallestOf ==
    ASSUME NEW S \in SUBSET Nat, S # {}
    PROVE  \E m \in S : \A k \in S : m <= k
<1>1. PICK m \in S : \A k \in S : ~ (<<k, m>> \in OpToRel(<, Nat))
  BY NatLessThanWellFounded, WFMin
<1>2. \A k \in S : ~ (k < m)
  BY <1>1 DEF OpToRel
<1> QED BY <1>2

\* A set of naturals that is not empty and has a bound has a greatest member.
LEMMA GreatestOf ==
    ASSUME NEW n \in Nat, NEW S \in SUBSET (0 .. n), S # {}
    PROVE  \E m \in S : \A k \in S : k <= m
<1> DEFINE Below == {n - k : k \in S}
<1>0. ASSUME NEW k \in S PROVE k \in Nat /\ n - k \in Nat
  <2>1. k \in 0 .. n
    OBVIOUS
  <2> QED BY <2>1
<1>1. Below \in SUBSET Nat /\ Below # {}
  BY <1>0
<1>2. PICK d \in Below : \A e \in Below : d <= e
  <2> HIDE DEF Below
  <2> QED BY <1>1, SmallestOf
<1>3. PICK m \in S : d = n - m
  BY <1>2
<1>4. ASSUME NEW k \in S PROVE k <= m
  <2>1. n - k \in Below
    OBVIOUS
  <2>2. n - m <= n - k /\ k \in Nat /\ m \in Nat
    BY <1>0, <1>2, <1>3, <2>1
  <2> HIDE DEF Below
  <2> QED BY <2>2
<1> QED BY <1>4

\* Min and Max are what they are called.
LEMMA MinMaxOf ==
    ASSUME NEW n \in Nat, NEW S \in SUBSET (0 .. n), S # {}
    PROVE  /\ Min(S) \in S /\ Max(S) \in S
           /\ \A k \in S : Min(S) <= k /\ k <= Max(S)
<1>1. \E m \in S : \A k \in S : m >= k
  <2>1. PICK m \in S : \A k \in S : k <= m
    BY GreatestOf
  <2>2. \A k \in S : m >= k
    BY <2>1
  <2> QED BY <2>2
<1>2. \E m \in S : \A k \in S : m <= k
  BY SmallestOf
<1>3. Max(S) \in S /\ \A k \in S : Max(S) >= k
  BY <1>1 DEF Max
<1>4. Min(S) \in S /\ \A k \in S : Min(S) <= k
  BY <1>2 DEF Min
<1> QED BY <1>3, <1>4

\* Induction up to a number: a claim is the set of the numbers it holds for.
LEMMA UpTo ==
    ASSUME NEW m \in Int, NEW n \in Int, m <= n, NEW Good, m \in Good,
           \A k \in m .. n - 1 : k \in Good => k + 1 \in Good
    PROVE  n \in Good
<1> DEFINE Bad == {d \in Nat : d <= n - m /\ m + d \notin Good}
<1> SUFFICES ASSUME n \notin Good PROVE FALSE
  OBVIOUS
<1>1. n - m \in Bad
  BY SMT
<1>2. PICK d \in Bad : \A e \in Bad : d <= e
  <2>1. Bad \in SUBSET Nat /\ Bad # {}
    BY <1>1
  <2> HIDE DEF Bad
  <2> QED BY <2>1, SmallestOf
<1>3. d # 0
  BY <1>2
<1>4. d - 1 \in Nat /\ d - 1 \notin Bad
  BY <1>2, <1>3
<1>5. m + (d - 1) \in Good
  BY <1>2, <1>4
<1>6. m + (d - 1) \in m .. n - 1 /\ (m + (d - 1)) + 1 = m + d
  BY <1>2, <1>3
<1>7. m + d \in Good
  <2>1. (m + (d - 1)) + 1 \in Good
    BY <1>5, <1>6
  <2> QED BY <2>1, <1>6
<1> QED BY <1>2, <1>7

-----------------------------------------------------------------------------
(* The chart and the figures. *)

\* The open, the low and the high of a session that has traded are prices, and
\* as long as the tape has forgotten nothing, prices on it.
FiguresOf(a) ==
    /\ a.sessionOpenPx \in Nat \ {0} /\ a.sessionHighPx \in Nat \ {0}
    /\ a.sessionLowPx \in Nat \ {0}
    /\ a.sessionTradeCount <= TAPE_CAP =>
          /\ a.sessionOpenPx = a.tape[Len(a.tape)].pricePx
          /\ \E i \in DOMAIN a.tape : a.tape[i].pricePx = a.sessionLowPx
          /\ \E i \in DOMAIN a.tape : a.tape[i].pricePx = a.sessionHighPx

\* What the tape shows by the time t of the newest report, and the figures beside it.
OnTape(a, t) ==
    /\ IsApp(a) /\ a.sessionTradeCount \in Nat
    /\ Len(a.tape) = Least(TAPE_CAP, a.sessionTradeCount)
    /\ \A i \in DOMAIN a.tape :
          /\ a.tape[i].pricePx \in Nat \ {0}
          /\ a.sessionLowPx <= a.tape[i].pricePx /\ a.tape[i].pricePx <= a.sessionHighPx
          /\ a.tape[i].timestamp \in 0 .. t
          /\ a.tape[i].timestamp <= a.tape[1].timestamp
    /\ IF a.sessionTradeCount = 0
       THEN a.sessionOpenPx = SESSION_OPEN_UNSET /\ a.sessionHighPx = SESSION_OPEN_UNSET
       ELSE FiguresOf(a)

Stamps == [ exec : Nat, book : Nat, echo : Nat, seqNum : Nat ]

ChartInv == frames \in Nat /\ latest \in Stamps /\ OnTape(app, latest.exec)

\* The tape after one more trade.
Longer(next, a, entry) ==
    /\ Len(a.tape) \in Nat /\ DOMAIN a.tape = 1 .. Len(a.tape)
    /\ Len(next.tape) = Least(TAPE_CAP, Len(a.tape) + 1)
    /\ DOMAIN next.tape = 1 .. Len(next.tape) /\ Len(next.tape) \in Nat \ {0}
    /\ next.tape[1] = entry
    /\ \A i \in DOMAIN next.tape :
          i # 1 => i - 1 \in DOMAIN a.tape /\ next.tape[i] = a.tape[i - 1]

\* Prepend makes it so.
LEMMA TapeGrows ==
    ASSUME NEW a, IsApp(a), NEW next, IsApp(next), NEW entry,
           next.tape = Prepend(entry, a.tape, TAPE_CAP)
    PROVE  Longer(next, a, entry)
<1>1. PICK n : n = Least(TAPE_CAP, Len(a.tape) + 1)
  OBVIOUS
<1>2. next.tape = [i \in 1 .. n |-> IF i = 1 THEN entry ELSE a.tape[i - 1]]
  BY <1>1 DEF Prepend
<1>3. a.tape \in Seq(TapeEntry) /\ next.tape \in Seq(TapeEntry) /\ TAPE_CAP \in Nat \ {0}
  BY CapsAssumption DEF IsApp
<1>4. Len(a.tape) \in Nat /\ DOMAIN a.tape = 1 .. Len(a.tape)
  BY <1>3
<1>5. n \in Nat \ {0} /\ n <= Len(a.tape) + 1
  BY <1>1, <1>3, <1>4 DEF Least
<1>6. DOMAIN next.tape = 1 .. n /\ Len(next.tape) = n
  BY <1>2, <1>3, <1>5
<1>7. 1 \in 1 .. n /\ \A i \in 1 .. n : i # 1 => i - 1 \in 1 .. Len(a.tape)
  BY <1>4, <1>5
<1> QED BY <1>1, <1>2, <1>4, <1>5, <1>6, <1>7 DEF Longer

\* The figures after it (WithTrade).
LEMMA FiguresMove ==
    ASSUME NEW a, NEW t \in Nat, OnTape(a, t), NEW frame \in ExecFrame,
           frame.price \in Nat \ {0}, NEW next, Traded(next, a, frame)
    PROVE  /\ next.sessionOpenPx = IF a.sessionTradeCount = 0 THEN frame.price
                                   ELSE a.sessionOpenPx
           /\ next.sessionHighPx = IF a.sessionTradeCount = 0 THEN frame.price
                                   ELSE Greatest(a.sessionHighPx, frame.price)
           /\ next.sessionLowPx = IF a.sessionTradeCount = 0 THEN frame.price
                                  ELSE Least(a.sessionLowPx, frame.price)
<1>1. CASE a.sessionTradeCount = 0
  <2>1. a.sessionOpenPx = -1 /\ a.sessionHighPx = -1
    BY <1>1 DEF OnTape, SESSION_OPEN_UNSET
  <2> QED BY <1>1, <2>1 DEF Traded
<1>2. CASE a.sessionTradeCount # 0
  <2>1. /\ a.sessionOpenPx \in Nat \ {0} /\ a.sessionHighPx \in Nat \ {0}
        /\ a.sessionLowPx \in Nat \ {0}
    BY <1>2 DEF OnTape, FiguresOf
  <2> QED BY <1>2, <2>1 DEF Traded
<1> QED BY <1>1, <1>2

\* A trade keeps the tape and the figures together.
LEMMA PrintIsOnTape ==
    ASSUME NEW a, NEW t \in Nat, OnTape(a, t), NEW frame \in ExecFrame,
           NEW s \in Nat, t <= s, frame.price \in Nat \ {0}, frame.timestamp = s,
           NEW next, IsApp(next), Traded(next, a, frame)
    PROVE  OnTape(next, s)
<1>1. PICK entry : entry = TapeEntryOf(a, frame)
  OBVIOUS
<1>2. /\ entry.pricePx = frame.price /\ entry.timestamp = s
      /\ next.tape = Prepend(entry, a.tape, TAPE_CAP)
      /\ next.sessionTradeCount = a.sessionTradeCount + 1
  BY <1>1 DEF TapeEntryOf, Traded
<1>3. /\ Len(a.tape) \in Nat /\ DOMAIN a.tape = 1 .. Len(a.tape)
      /\ Len(next.tape) = Least(TAPE_CAP, Len(a.tape) + 1)
      /\ DOMAIN next.tape = 1 .. Len(next.tape) /\ Len(next.tape) \in Nat \ {0}
      /\ next.tape[1] = entry
      /\ \A i \in DOMAIN next.tape :
            i # 1 => i - 1 \in DOMAIN a.tape /\ next.tape[i] = a.tape[i - 1]
  <2>1. IsApp(a)
    BY DEF OnTape
  <2>2. Longer(next, a, entry)
    BY <1>2, <2>1, TapeGrows
  <2> QED BY <2>2 DEF Longer
<1>4. PICK c \in Nat : c = a.sessionTradeCount
  BY DEF OnTape
<1>5. /\ TAPE_CAP \in Nat \ {0} /\ Len(a.tape) = Least(TAPE_CAP, c)
      /\ Len(next.tape) = Least(TAPE_CAP, c + 1)
  BY <1>3, <1>4, CapsAssumption DEF OnTape, Least
<1>6. /\ next.sessionOpenPx = IF c = 0 THEN frame.price ELSE a.sessionOpenPx
      /\ next.sessionHighPx = IF c = 0 THEN frame.price
                              ELSE Greatest(a.sessionHighPx, frame.price)
      /\ next.sessionLowPx = IF c = 0 THEN frame.price
                             ELSE Least(a.sessionLowPx, frame.price)
  BY <1>4, FiguresMove
<1>7. c # 0 => FiguresOf(a)
  BY <1>4 DEF OnTape
<1>8. /\ next.sessionOpenPx \in Nat \ {0} /\ next.sessionHighPx \in Nat \ {0}
      /\ next.sessionLowPx \in Nat \ {0}
      /\ next.sessionLowPx <= frame.price /\ frame.price <= next.sessionHighPx
      /\ c # 0 => /\ next.sessionLowPx <= a.sessionLowPx
                  /\ a.sessionHighPx <= next.sessionHighPx
                  /\ a.sessionLowPx \in Nat /\ a.sessionHighPx \in Nat
  BY <1>6, <1>7 DEF FiguresOf, Greatest, Least
<1>9. ASSUME NEW i \in DOMAIN next.tape
      PROVE  /\ next.tape[i].pricePx \in Nat \ {0}
             /\ next.sessionLowPx <= next.tape[i].pricePx
             /\ next.tape[i].pricePx <= next.sessionHighPx
             /\ next.tape[i].timestamp \in 0 .. s
             /\ next.tape[i].timestamp <= next.tape[1].timestamp
  <2>1. CASE i = 1
    BY <2>1, <1>2, <1>3, <1>8
  <2>2. CASE i # 1
    <3>1. PICK j \in DOMAIN a.tape : next.tape[i] = a.tape[j]
      BY <2>2, <1>3
    <3>2. /\ a.tape[j].pricePx \in Nat \ {0} /\ a.tape[j].timestamp \in 0 .. t
          /\ a.sessionLowPx <= a.tape[j].pricePx /\ a.tape[j].pricePx <= a.sessionHighPx
      BY DEF OnTape
    <3>3. c # 0
      BY <1>3, <1>5, <3>1 DEF Least
    <3>4. PICK px \in Nat \ {0} : px = a.tape[j].pricePx
      BY <3>2
    <3>5. next.sessionLowPx <= px /\ px <= next.sessionHighPx
      BY <1>8, <3>2, <3>3, <3>4
    <3>6. PICK u \in 0 .. t : u = a.tape[j].timestamp
      BY <3>2
    <3>7. u \in 0 .. s /\ u <= s
      OBVIOUS
    <3> QED BY <1>2, <1>3, <3>1, <3>4, <3>5, <3>6, <3>7
  <2> QED BY <2>1, <2>2
<1>10. ASSUME c + 1 <= TAPE_CAP
       PROVE  /\ next.sessionOpenPx = next.tape[Len(next.tape)].pricePx
              /\ \E i \in DOMAIN next.tape : next.tape[i].pricePx = next.sessionLowPx
              /\ \E i \in DOMAIN next.tape : next.tape[i].pricePx = next.sessionHighPx
  <2>1. Len(a.tape) = c /\ Len(next.tape) = c + 1 /\ 1 \in DOMAIN next.tape
    BY <1>3, <1>5, <1>10 DEF Least
  <2>2. CASE c = 0
    BY <2>1, <2>2, <1>2, <1>3, <1>6
  <2>3. CASE c # 0
    <3>1. /\ a.sessionOpenPx = a.tape[c].pricePx
          /\ \E i \in DOMAIN a.tape : a.tape[i].pricePx = a.sessionLowPx
          /\ \E i \in DOMAIN a.tape : a.tape[i].pricePx = a.sessionHighPx
      <4>1. FiguresOf(a) /\ a.sessionTradeCount <= TAPE_CAP
        BY <1>4, <1>5, <1>7, <1>10, <2>3
      <4> QED BY <2>1, <4>1 DEF FiguresOf
    <3>2. \A j \in DOMAIN a.tape : j + 1 \in DOMAIN next.tape /\ next.tape[j + 1] = a.tape[j]
      BY <1>3, <2>1
    <3>3. next.tape[c + 1] = a.tape[c]
      BY <1>3, <2>1, <2>3
    <3>4. \E i \in DOMAIN next.tape : next.tape[i].pricePx = a.sessionLowPx
      BY <3>1, <3>2
    <3>5. \E i \in DOMAIN next.tape : next.tape[i].pricePx = a.sessionHighPx
      BY <3>1, <3>2
    <3>6. \E i \in DOMAIN next.tape : next.tape[i].pricePx = frame.price
      BY <1>2, <1>3, <2>1
    <3>7. next.sessionLowPx \in {a.sessionLowPx, frame.price}
      BY <1>6, <2>3 DEF Least
    <3>8. next.sessionHighPx \in {a.sessionHighPx, frame.price}
      BY <1>6, <2>3 DEF Greatest
    <3> QED BY <1>6, <2>1, <2>3, <3>1, <3>3, <3>4, <3>5, <3>6, <3>7, <3>8
  <2> QED BY <2>2, <2>3
<1>11. FiguresOf(next)
  BY <1>2, <1>4, <1>8, <1>10 DEF FiguresOf
<1>12. next.sessionTradeCount \in Nat /\ next.sessionTradeCount # 0
  BY <1>2, <1>4
<1> QED BY <1>2, <1>4, <1>5, <1>9, <1>11, <1>12 DEF OnTape

\* An echo is stamped and numbered after those before it: later, or the next of its
\* connection.
LaterEcho(m, l) == l.echo < m.echo \/ (m.echo = l.echo /\ l.seqNum < m.seqNum)

\* A frame that may arrive, in state a, after stamps l and with stamps m.
Coming(frame, a, l, m) ==
    \/ /\ frame.type = "BOOK" /\ IsTopped(frame)
       /\ m.exec = l.exec /\ m.echo = l.echo /\ m.seqNum = l.seqNum
    \/ /\ frame.type = "FIX" /\ frame.timestamp = m.echo /\ frame.seqNum = m.seqNum
       /\ m.exec = l.exec /\ LaterEcho(m, l)
    \/ /\ frame \in ExecFrame /\ frame.timestamp = m.exec
       /\ l.exec <= m.exec /\ m.echo = l.echo /\ m.seqNum = l.seqNum
       /\ IF isFill(frame)
          THEN frame.price \in Nat \ {0} /\ frame.tradeId = a.sessionTradeCount + 1
          ELSE frame.tradeId = NA

\* A report without a trade is one.
LEMMA RefusalIsAReport ==
    ASSUME frames \in Nat, NEW t \in Nat
    PROVE  /\ Refusal(t) \in ExecFrame /\ ~ isFill(Refusal(t))
           /\ Refusal(t).timestamp = t /\ Refusal(t).tradeId = NA
  BY DEF Refusal, ExecFrame, ExecTypes, FillTypes, isFill, NA

\* A trade is one too.
LEMMA TradeIsAReport ==
    ASSUME frames \in Nat, app.sessionTradeCount \in Nat, NEW t \in Nat, NEW print \in Prints
    PROVE  /\ Trade(t, print) \in ExecFrame /\ isFill(Trade(t, print))
           /\ Trade(t, print).timestamp = t
           /\ Trade(t, print).tradeId = app.sessionTradeCount + 1
           /\ Trade(t, print).price \in Nat \ {0}
<1>1. print.price \in Nat \ {0} /\ print.quantity \in Nat
  BY ViewsAssumption
<1>2. PICK px, qty, n, id, e, f : /\ px = print.price /\ qty = print.quantity
                                  /\ n = frames + 1 /\ id = app.sessionTradeCount + 1
                                  /\ e = Refusal(t) /\ f = Trade(t, print)
  OBVIOUS
<1>3. e = [ type |-> "EXEC", execType |-> "ORDER_REJECTED", orderId |-> n, tradeId |-> NA,
            price |-> NA, filledQuantity |-> NA, remainingQuantity |-> NA,
            aggressorOrderId |-> NA, passiveOrderId |-> NA, timestamp |-> t ]
  BY <1>2 DEF Refusal
<1>4. f = [ e EXCEPT !.execType = "ORDER_FILLED", !.price = px, !.tradeId = id,
              !.filledQuantity = qty, !.remainingQuantity = 0,
              !.aggressorOrderId = 1, !.passiveOrderId = 2 ]
  BY <1>2 DEF Trade
<1>5. f = [ type |-> "EXEC", execType |-> "ORDER_FILLED", orderId |-> n, tradeId |-> id,
            price |-> px, filledQuantity |-> qty, remainingQuantity |-> 0,
            aggressorOrderId |-> 1, passiveOrderId |-> 2, timestamp |-> t ]
  BY <1>3, <1>4
<1>6. /\ px \in Int /\ qty \in Int /\ n \in Int /\ id \in Int /\ t \in Int
      /\ "ORDER_FILLED" \in ExecTypes
  BY <1>1, <1>2 DEF ExecTypes, FillTypes
<1>7. f \in ExecFrame
  BY <1>5, <1>6 DEF ExecFrame
<1>8. f.execType = "ORDER_FILLED" /\ f.timestamp = t /\ f.tradeId = id /\ f.price = px
  BY <1>5
<1> QED BY <1>1, <1>2, <1>7, <1>8 DEF isFill, FillTypes

\* One stamp moves on.
LEMMA StampMoves ==
    ASSUME latest \in Stamps, NEW t
    PROVE  /\ t \in Readings(latest.exec) => t \in Nat /\ latest.exec <= t
           /\ t \in Readings(latest.book) => t \in Nat /\ latest.book <= t
           /\ t \in Readings(latest.echo) => t \in Nat /\ latest.echo <= t
           /\ latest.exec \in Nat /\ latest.book \in Nat /\ latest.echo \in Nat
           /\ latest.seqNum \in Nat
  BY DEF Stamps, Readings

\* What a frame that arrives does.
MovesOn == /\ frames' = frames + 1 /\ latest' \in Stamps
           /\ \E frame : Coming(frame, app, latest, latest') /\ app' = reduceFrame(app, frame)

\* The state moves by frames only.
LEMMA FramesMoveTheState ==
    ASSUME ChartInv, [ViewsNext]_viewVars
    PROVE  UNCHANGED <<app, frames, latest>> \/ MovesOn
<1> USE DEF Arrives
<1>0. frames \in Nat /\ latest \in Stamps
  BY DEF ChartInv
<1>1. app.sessionTradeCount \in Nat
  BY DEF ChartInv, OnTape
<1>2. ASSUME NEW b \in Books, BookArrives(b) PROVE MovesOn
  <2>1. PICK t \in Readings(latest.book) : \E frame :
           /\ frame = [ type |-> "BOOK", bestBid |-> TopOf(b.bids), bestAsk |-> TopOf(b.asks),
                        bids |-> b.bids, asks |-> b.asks, timestamp |-> t ]
           /\ app' = reduceFrame(app, frame) /\ frames' = frames + 1
           /\ latest' = [latest EXCEPT !.book = t]
    BY <1>2 DEF BookArrives
  <2>2. IsBook(b) /\ t \in Nat
    BY <1>0, StampMoves, ViewsAssumption
  <2>0. PICK frame :
           /\ frame = [ type |-> "BOOK", bestBid |-> TopOf(b.bids), bestAsk |-> TopOf(b.asks),
                        bids |-> b.bids, asks |-> b.asks, timestamp |-> t ]
           /\ app' = reduceFrame(app, frame)
    BY <2>1
  <2>3. /\ frame.type = "BOOK" /\ frame.bids = b.bids /\ frame.asks = b.asks
        /\ frame.bestBid = TopOf(b.bids) /\ frame.bestAsk = TopOf(b.asks)
    BY <2>0
  <2>4. IsTopped(frame)
    BY <2>2, <2>3 DEF IsTopped, IsBook
  <2>5. /\ latest' \in Stamps /\ latest'.exec = latest.exec
        /\ latest'.echo = latest.echo /\ latest'.seqNum = latest.seqNum
    BY <1>0, <2>1, <2>2 DEF Stamps
  <2>6. Coming(frame, app, latest, latest')
    BY <2>3, <2>4, <2>5 DEF Coming
  <2> QED BY <2>0, <2>1, <2>5, <2>6 DEF MovesOn
<1>3. ASSUME NEW raw \in Echoes, EchoArrives(raw) PROVE MovesOn
  <2>1. PICK n \in {1, latest.seqNum + 1}, t \in Readings(latest.echo) :
           /\ n = 1 => t > latest.echo
           /\ frames' = frames + 1 /\ latest' = [latest EXCEPT !.echo = t, !.seqNum = n]
           /\ app' = reduceFrame(app, [ type |-> "FIX", seqNum |-> n, raw |-> raw,
                                        timestamp |-> t ])
    BY <1>3 DEF EchoArrives
  <2>0. PICK frame : /\ frame = [ type |-> "FIX", seqNum |-> n, raw |-> raw, timestamp |-> t ]
                     /\ app' = reduceFrame(app, frame)
    BY <2>1
  <2>2. /\ t \in Nat /\ latest.echo <= t /\ latest.echo \in Nat /\ latest.seqNum \in Nat
        /\ n \in Nat /\ n \in {1, latest.seqNum + 1}
    BY <1>0, StampMoves
  <2>3. /\ latest' \in Stamps /\ latest'.exec = latest.exec
        /\ latest'.echo = t /\ latest'.seqNum = n
    BY <1>0, <2>1, <2>2 DEF Stamps
  <2>4. latest.echo < t \/ (t = latest.echo /\ latest.seqNum < n)
    BY <2>1, <2>2
  <2>5. frame.type = "FIX" /\ frame.timestamp = t /\ frame.seqNum = n
    BY <2>0
  <2>6. Coming(frame, app, latest, latest')
    BY <2>3, <2>4, <2>5 DEF Coming, LaterEcho
  <2> QED BY <2>0, <2>1, <2>3, <2>6 DEF MovesOn
<1>4. ASSUME NEW t \in Readings(latest.exec), NEW frame \in ExecFrame,
             frame.timestamp = t, latest' = [latest EXCEPT !.exec = t],
             app' = reduceFrame(app, frame), frames' = frames + 1,
             IF isFill(frame)
             THEN frame.price \in Nat \ {0} /\ frame.tradeId = app.sessionTradeCount + 1
             ELSE frame.tradeId = NA
      PROVE  MovesOn
  <2>1. t \in Nat /\ latest.exec <= t
    BY <1>0, StampMoves
  <2>2. /\ latest' \in Stamps /\ latest'.exec = t
        /\ latest'.echo = latest.echo /\ latest'.seqNum = latest.seqNum
    BY <1>0, <1>4, <2>1 DEF Stamps
  <2>3. Coming(frame, app, latest, latest')
    BY <1>4, <2>1, <2>2 DEF Coming
  <2> QED BY <1>4, <2>2, <2>3 DEF MovesOn
<1>5. ASSUME RefusalArrives PROVE MovesOn
  <2>1. PICK t \in Readings(latest.exec) :
           /\ app' = reduceFrame(app, Refusal(t)) /\ frames' = frames + 1
           /\ latest' = [latest EXCEPT !.exec = t]
    BY <1>5 DEF RefusalArrives
  <2>2. t \in Nat
    BY <1>0, StampMoves
  <2> QED BY <1>0, <1>4, <2>1, <2>2, RefusalIsAReport
<1>6. ASSUME NEW print \in Prints, PrintArrives(print) PROVE MovesOn
  <2>1. PICK t \in Readings(latest.exec) :
           /\ app' = reduceFrame(app, Trade(t, print)) /\ frames' = frames + 1
           /\ latest' = [latest EXCEPT !.exec = t]
    BY <1>6 DEF PrintArrives
  <2>2. t \in Nat
    BY <1>0, StampMoves
  <2>3. /\ Trade(t, print) \in ExecFrame /\ isFill(Trade(t, print))
        /\ Trade(t, print).timestamp = t
        /\ Trade(t, print).tradeId = app.sessionTradeCount + 1
        /\ Trade(t, print).price \in Nat \ {0}
    BY <1>0, <1>1, <2>2, TradeIsAReport
  <2> QED BY <1>4, <2>1, <2>3
<1>7. \/ \E b \in Books : BookArrives(b)
      \/ \E print \in Prints : PrintArrives(print)
      \/ \E raw \in Echoes : EchoArrives(raw)
      \/ RefusalArrives
      \/ UNCHANGED <<app, frames, latest>>
  BY DEF ViewsNext, viewVars, LeavePage, ChooseFilter, SelectRow, ViewTo, MountPage,
         UnmountPage, RetryFires, FetchAnswers
<1> QED BY <1>2, <1>3, <1>5, <1>6, <1>7

\* A frame that is no trade leaves the tape and the figures alone.
LEMMA OthersAreNotOnTape ==
    ASSUME NEW a, NEW t \in Nat, OnTape(a, t), NEW s \in Nat, t <= s,
           NEW next, IsApp(next), SameAggregates(next, a)
    PROVE  OnTape(next, s)
<1>1. ASSUME NEW i \in DOMAIN a.tape PROVE a.tape[i].timestamp \in 0 .. s
  <2>1. a.tape[i].timestamp \in 0 .. t
    BY DEF OnTape
  <2> QED BY <2>1
<1> QED BY <1>1 DEF OnTape, SameAggregates, FiguresOf

\* Every step keeps the tape and the figures together.
LEMMA ChartInvKept == ChartInv /\ [ViewsNext]_viewVars => ChartInv'
<1> SUFFICES ASSUME ChartInv, [ViewsNext]_viewVars PROVE ChartInv'
  OBVIOUS
<1>1. CASE UNCHANGED <<app, frames, latest>>
  BY <1>1 DEF ChartInv
<1>2. ASSUME NEW frame, Coming(frame, app, latest, latest'), app' = reduceFrame(app, frame),
             frames' = frames + 1, latest' \in Stamps
      PROVE  ChartInv'
  <2>1. PICK a, t, s, next : /\ a = app /\ t = latest.exec /\ s = latest'.exec
                             /\ next = reduceFrame(app, frame)
    OBVIOUS
  <2>2. t \in Nat /\ OnTape(a, t) /\ IsApp(a)
    BY <2>1 DEF ChartInv, OnTape, Stamps
  <2>3. IsApp(next) /\ (SameAggregates(next, a) \/
                          (frame \in ExecFrame /\ isFill(frame) /\ Traded(next, a, frame)))
    BY <1>2, <2>1, <2>2, BookEffect, FixEffect, ExecEffect DEF Coming
  <2>4. s \in Nat /\ t <= s
    BY <1>2, <2>1, <2>2 DEF Coming, Stamps
  <2>5. OnTape(next, s)
    <3>1. CASE SameAggregates(next, a)
      BY <2>2, <2>3, <2>4, <3>1, OthersAreNotOnTape
    <3>2. CASE frame \in ExecFrame /\ isFill(frame) /\ Traded(next, a, frame)
      <4>1. frame.price \in Nat \ {0} /\ frame.timestamp = s
        BY <1>2, <2>1, <3>2 DEF Coming, ExecFrame
      <4> QED BY <2>2, <2>3, <2>4, <3>2, <4>1, PrintIsOnTape
    <3> QED BY <2>3, <3>1, <3>2
  <2> QED BY <1>2, <2>1, <2>5 DEF ChartInv
<1> QED BY <1>1, <1>2, FramesMoveTheState DEF MovesOn

\* Before the first frame both are empty.
LEMMA ChartStarts == ViewsInit => ChartInv
<1> SUFFICES ASSUME ViewsInit PROVE ChartInv
  OBVIOUS
<1>1. IsApp(initialState) /\ frames = 0 /\ app = initialState
      /\ latest \in Stamps /\ latest.exec = 0
  BY DEF ViewsInit, IsApp, initialState, SESSION_OPEN_UNSET, Stamps
<1>2. /\ initialState.tape = <<>> /\ initialState.sessionTradeCount = 0
      /\ initialState.sessionOpenPx = SESSION_OPEN_UNSET
      /\ initialState.sessionHighPx = SESSION_OPEN_UNSET
  BY DEF initialState
<1>3. Len(<<>>) = Least(TAPE_CAP, 0) /\ DOMAIN <<>> = {}
  BY CapsAssumption DEF Least
<1> QED BY <1>1, <1>2, <1>3 DEF ChartInv, OnTape

\* The newest print ends the series, at the latest time.
LEMMA SeriesEndsWithTheNewest ==
    ASSUME ChartInv, app.tape # <<>>
    PROVE  LET series == buildPriceSeries(app.tape)
           IN  /\ series.points # <<>> /\ 1 \in DOMAIN app.tape
               /\ Last(series.points) = PointOf(app.tape[1])
               /\ series.tMax = app.tape[1].timestamp
               /\ series.cMin = Min({app.tape[i].pricePx : i \in DOMAIN app.tape})
               /\ series.cMax = Max({app.tape[i].pricePx : i \in DOMAIN app.tape})
<1> DEFINE tape == app.tape
           n == Len(tape)
           points == [ i \in DOMAIN tape |-> PointOf(tape[n + 1 - i]) ]
           series == buildPriceSeries(tape)
           times == {points[i].t : i \in DOMAIN points}
           prices == {points[i].pricePx : i \in DOMAIN points}
<1>1. /\ series.points = points /\ series.tMax = Max(times)
      /\ series.cMin = Min(prices) /\ series.cMax = Max(prices)
  BY DEF buildPriceSeries, SeriesOf
<1>2. tape \in Seq(TapeEntry) /\ tape # <<>>
  BY DEF ChartInv, OnTape, IsApp
<1> HIDE DEF tape, series
<1>3. n \in Nat \ {0} /\ DOMAIN tape = 1 .. n
  BY <1>2
<1>4. DOMAIN points = 1 .. n /\ points \in Seq({points[i] : i \in 1 .. n}) /\ Len(points) = n
  BY <1>3
<1>5. \A i \in 1 .. n : n + 1 - i \in 1 .. n /\ n + 1 - (n + 1 - i) = i
  BY <1>3
<1>6. \A i \in 1 .. n : /\ points[i].t = tape[n + 1 - i].timestamp
                        /\ points[i].pricePx = tape[n + 1 - i].pricePx
  BY <1>3 DEF PointOf
<1>7. points[n] = PointOf(tape[1])
  BY <1>3, <1>5
<1> HIDE DEF points
<1>8. times = {tape[i].timestamp : i \in DOMAIN tape}
  <2>1. times = {points[i].t : i \in 1 .. n}
    BY <1>4
  <2>2. ASSUME NEW i \in 1 .. n
        PROVE  /\ \E j \in 1 .. n : points[i].t = tape[j].timestamp
               /\ \E j \in 1 .. n : tape[i].timestamp = points[j].t
    <3>1. PICK j \in 1 .. n : j = n + 1 - i /\ n + 1 - j = i
      BY <1>5
    <3>2. points[i].t = tape[j].timestamp /\ points[j].t = tape[i].timestamp
      BY <1>6, <3>1
    <3> QED BY <3>2
  <2> DEFINE those == {tape[i].timestamp : i \in 1 .. n}
  <2>3. ASSUME NEW x \in times PROVE x \in those
    <3>1. PICK i \in 1 .. n : x = points[i].t
      <4> HIDE DEF times
      <4> QED BY <2>1, <2>3
    <3>2. PICK j \in 1 .. n : x = tape[j].timestamp
      BY <2>2, <3>1
    <3> QED BY <3>2
  <2>4. ASSUME NEW x \in those PROVE x \in times
    BY <2>1, <2>2
  <2>5. times = those
    <3> HIDE DEF times, those
    <3> QED BY <2>3, <2>4
  <2> QED BY <1>3, <2>5
<1>9. prices = {tape[i].pricePx : i \in DOMAIN tape}
  <2>1. prices = {points[i].pricePx : i \in 1 .. n}
    BY <1>4
  <2>2. ASSUME NEW i \in 1 .. n
        PROVE  /\ \E j \in 1 .. n : points[i].pricePx = tape[j].pricePx
               /\ \E j \in 1 .. n : tape[i].pricePx = points[j].pricePx
    <3>1. PICK j \in 1 .. n : j = n + 1 - i /\ n + 1 - j = i
      BY <1>5
    <3>2. points[i].pricePx = tape[j].pricePx /\ points[j].pricePx = tape[i].pricePx
      BY <1>6, <3>1
    <3> QED BY <3>2
  <2> DEFINE those == {tape[i].pricePx : i \in 1 .. n}
  <2>3. ASSUME NEW x \in prices PROVE x \in those
    <3>1. PICK i \in 1 .. n : x = points[i].pricePx
      <4> HIDE DEF prices
      <4> QED BY <2>1, <2>3
    <3>2. PICK j \in 1 .. n : x = tape[j].pricePx
      BY <2>2, <3>1
    <3> QED BY <3>2
  <2>4. ASSUME NEW x \in those PROVE x \in prices
    BY <2>1, <2>2
  <2>5. prices = those
    <3> HIDE DEF prices, those
    <3> QED BY <2>3, <2>4
  <2> QED BY <1>3, <2>5
<1>10. points # <<>> /\ Last(points) = PointOf(tape[1])
  BY <1>3, <1>4, <1>7 DEF Last
<1>11. Max(times) = tape[1].timestamp
  <2>1. PICK t \in Nat :
           \A i \in DOMAIN tape : /\ tape[i].timestamp \in 0 .. t
                                  /\ tape[i].timestamp <= tape[1].timestamp
    BY DEF ChartInv, OnTape, Stamps, tape
  <2>2. tape[1].timestamp \in times /\ 1 \in DOMAIN tape
    <3>1. 1 \in DOMAIN tape
      BY <1>3
    <3> QED BY <1>8, <3>1
  <2>3. times \in SUBSET (0 .. t) /\ \A x \in times : x <= tape[1].timestamp
    BY <1>8, <2>1
  <2> HIDE DEF times
  <2>4. Max(times) \in times /\ tape[1].timestamp <= Max(times)
    BY <2>1, <2>2, <2>3, MinMaxOf
  <2>5. Max(times) \in 0 .. t /\ tape[1].timestamp \in 0 .. t
    BY <2>2, <2>3, <2>4
  <2> QED BY <2>3, <2>4, <2>5
<1>12. /\ series.points # <<>> /\ 1 \in DOMAIN tape
       /\ Last(series.points) = PointOf(tape[1]) /\ series.tMax = tape[1].timestamp
       /\ series.cMin = Min({tape[i].pricePx : i \in DOMAIN tape})
       /\ series.cMax = Max({tape[i].pricePx : i \in DOMAIN tape})
  <2>1. 1 \in DOMAIN tape
    BY <1>3
  <2> HIDE DEF n, times, prices
  <2> QED BY <1>1, <1>9, <1>10, <1>11, <2>1
<1> HIDE DEF n, points, times, prices
<1> QED BY <1>12 DEF series, tape

(***************************************************************************)
(* The chart, drawn from the tape, and the figures of the session, which   *)
(* outlive it, agree (buildPriceSeries, buildSessionStats, deriveHeader).  *)
(***************************************************************************)
THEOREM ChartShowsTheSession == ViewsSpec => []ChartAgreesWithStats
<1>1. ChartInv => ChartAgreesWithStats
  <2> SUFFICES ASSUME ChartInv PROVE ChartAgreesWithStats
    OBVIOUS
  <2>1. /\ TAPE_CAP \in Nat \ {0} /\ app.sessionTradeCount \in Nat
        /\ Len(app.tape) = Least(TAPE_CAP, app.sessionTradeCount)
        /\ app.tape \in Seq(TapeEntry)
    BY CapsAssumption DEF ChartInv, OnTape, IsApp
  <2> DEFINE series == buildPriceSeries(app.tape)
             prices == {app.tape[i].pricePx : i \in DOMAIN app.tape}
             last   == app.tape[1].pricePx
  <2>2. CASE app.tape = <<>>
    <3>1. series.points = <<>>
      BY <2>2 DEF buildPriceSeries, EMPTY_SERIES
    <3>2. app.sessionTradeCount = 0
      BY <2>1, <2>2 DEF Least
    <3> QED BY <3>1, <3>2 DEF ChartAgreesWithStats
  <2>3. CASE app.tape # <<>>
    <3>1. /\ series.points # <<>> /\ 1 \in DOMAIN app.tape
          /\ Last(series.points) = PointOf(app.tape[1])
          /\ series.tMax = app.tape[1].timestamp
          /\ series.cMin = Min(prices) /\ series.cMax = Max(prices)
      BY <2>3, SeriesEndsWithTheNewest
    <3>2. /\ app.sessionTradeCount # 0 /\ FiguresOf(app)
      <4>1. app.sessionTradeCount # 0
        BY <2>1, <2>3 DEF Least
      <4> QED BY <4>1 DEF ChartInv, OnTape
    <3>3. PICK low, high, open : /\ low = app.sessionLowPx /\ high = app.sessionHighPx
                                 /\ open = app.sessionOpenPx
      OBVIOUS
    <3>4. low \in Nat \ {0} /\ high \in Nat \ {0} /\ open \in Nat \ {0}
      BY <3>2, <3>3 DEF FiguresOf
    <3>5. \A x \in prices : x \in Nat \ {0} /\ low <= x /\ x <= high
      BY <3>3 DEF ChartInv, OnTape
    <3>6. last \in prices
      BY <3>1
    <3>7. /\ Min(prices) \in prices /\ Max(prices) \in prices
          /\ \A x \in prices : Min(prices) <= x /\ x <= Max(prices)
      <4>1. prices \in SUBSET (0 .. high) /\ prices # {}
        <5> HIDE DEF prices, last
        <5>1. \A x \in prices : x \in 0 .. high
          BY <3>4, <3>5
        <5> QED BY <3>6, <5>1
      <4> HIDE DEF prices
      <4> QED BY <3>4, <4>1, MinMaxOf
    <3>8. PICK lo, hi : lo = Min(prices) /\ hi = Max(prices)
      OBVIOUS
    <3>9. lo \in Nat \ {0} /\ hi \in Nat \ {0} /\ low <= lo /\ hi <= high
      BY <3>5, <3>7, <3>8
    <3>10. ASSUME app.sessionTradeCount <= TAPE_CAP
           PROVE  lo = low /\ hi = high /\ open \in lo .. hi
      <4>1. low \in prices /\ high \in prices
        BY <3>2, <3>3, <3>10 DEF FiguresOf
      <4>2. open \in prices
        <5>1. Len(app.tape) \in DOMAIN app.tape
          BY <2>1, <3>1
        <5>2. open = app.tape[Len(app.tape)].pricePx
          BY <3>2, <3>3, <3>10 DEF FiguresOf
        <5> QED BY <5>1, <5>2
      <4> HIDE DEF prices
      <4>3. lo <= low /\ high <= hi /\ lo <= open /\ open <= hi
        BY <3>7, <3>8, <4>1, <4>2
      <4> QED BY <3>4, <3>9, <4>3
    <3>11. app.sessionTradeCount <= TAPE_CAP => Reference(series, open) = open
      BY <3>1, <3>4, <3>8, <3>10 DEF Reference
    <3>12. Last(series.points).t = series.tMax /\ Last(series.points).pricePx = last
      BY <3>1 DEF PointOf
    <3>13. /\ deriveHeader(app).last = formatPrice(last)
           /\ deriveHeader(app).changeDir = changeDir(last, open)
      BY <2>3, <3>3 DEF deriveHeader, LastPx
    <3>14. /\ buildSessionStats(app).lastPrice = formatPrice(last)
           /\ buildSessionStats(app).low = formatPrice(low)
           /\ buildSessionStats(app).high = formatPrice(high)
      BY <2>3, <3>3 DEF buildSessionStats
    <3>15. changeDir(last, open) = "up" <=> last > open
      <4>1. last \in Nat \ {0}
        BY <3>5, <3>6
      <4> HIDE DEF last
      <4> QED BY <3>4, <4>1 DEF changeDir
    <3> HIDE DEF series, prices, last
    <3> QED BY <3>1, <3>3, <3>8, <3>9, <3>10, <3>11, <3>12, <3>13, <3>14, <3>15
            DEF ChartAgreesWithStats, series
  <2> QED BY <2>2, <2>3
<1> QED BY <1>1, ChartStarts, ChartInvKept, PTL DEF ViewsSpec

-----------------------------------------------------------------------------
(* What a filter keeps, and the colours of the tape. *)

\* The recursive function inside Kept, up to element m, where K is the set of
\* what passes.
KeepsTo(g, K, list, m) ==
    g = [ n \in 0 .. m |->
            IF n = 0 THEN <<>>
            ELSE IF list[n] \in K THEN Append(g[n - 1], list[n]) ELSE g[n - 1] ]

\* There is such a function.
LEMMA KeepsToExists ==
    ASSUME NEW K, NEW list, NEW m \in Nat
    PROVE  \E g : KeepsTo(g, K, list, m)
<1> DEFINE Good == {l \in 0 .. m : \E g : KeepsTo(g, K, list, l)}
<1>1. 0 \in Good
  <2> DEFINE g == [n \in 0 .. 0 |-> <<>>]
  <2>1. KeepsTo(g, K, list, 0)
    BY DEF KeepsTo
  <2> HIDE DEF g
  <2> QED BY <2>1
<1>2. ASSUME NEW l \in 0 .. m - 1, l \in Good
      PROVE  l + 1 \in Good
  <2>1. PICK g : KeepsTo(g, K, list, l)
    BY <1>2
  <2> DEFINE last == IF list[l + 1] \in K THEN Append(g[l], list[l + 1]) ELSE g[l]
             h    == [n \in 0 .. l + 1 |-> IF n = l + 1 THEN last ELSE g[n]]
  <2>2. \A n \in 0 .. l : h[n] = g[n]
    OBVIOUS
  <2>3. ASSUME NEW n \in 0 .. l + 1
        PROVE  h[n] = IF n = 0 THEN <<>>
                      ELSE IF list[n] \in K THEN Append(h[n - 1], list[n]) ELSE h[n - 1]
    <3>1. CASE n = l + 1
      <4>1. l \in 0 .. l /\ n # 0 /\ n - 1 = l
        BY <3>1
      <4>2. h[n] = last /\ h[n - 1] = g[l]
        BY <3>1, <2>2, <4>1
      <4> HIDE DEF h
      <4> QED BY <3>1, <4>1, <4>2
    <3>2. CASE n # l + 1
      <4>1. n \in 0 .. l /\ (n # 0 => n - 1 \in 0 .. l)
        BY <3>2
      <4>2. g[n] = IF n = 0 THEN <<>>
                   ELSE IF list[n] \in K THEN Append(g[n - 1], list[n]) ELSE g[n - 1]
        BY <2>1, <4>1 DEF KeepsTo
      <4> HIDE DEF h
      <4> QED BY <2>2, <4>1, <4>2
    <3> QED BY <3>1, <3>2
  <2>4. h = [n \in 0 .. l + 1 |-> h[n]]
    OBVIOUS
  <2> HIDE DEF h
  <2>5. KeepsTo(h, K, list, l + 1)
    BY <2>3, <2>4 DEF KeepsTo
  <2> QED BY <2>5
<1>3. m \in Good
  <2> HIDE DEF Good
  <2> QED BY <1>1, <1>2, UpTo
<1> QED BY <1>3

\* What is kept is a list of elements that pass.
LEMMA KeepsWhatPasses ==
    ASSUME NEW K, NEW S, NEW list \in Seq(S), NEW g, KeepsTo(g, K, list, Len(list))
    PROVE  g[Len(list)] \in Seq({list[i] : i \in DOMAIN list} \cap K)
<1> DEFINE L == {list[i] : i \in DOMAIN list} \cap K
           Good == {n \in 0 .. Len(list) : g[n] \in Seq(L)}
<1>1. Len(list) \in Nat /\ DOMAIN list = 1 .. Len(list)
  OBVIOUS
<1>2. 0 \in Good
  BY <1>1 DEF KeepsTo
<1>3. ASSUME NEW n \in 0 .. Len(list) - 1, n \in Good
      PROVE  n + 1 \in Good
  <2>1. n + 1 \in 1 .. Len(list) /\ (n + 1) - 1 = n
    BY <1>1
  <2>2. g[n + 1] = IF list[n + 1] \in K THEN Append(g[n], list[n + 1]) ELSE g[n]
    <3>1. PICK p \in 1 .. Len(list) : p = n + 1 /\ p - 1 = n
      BY <2>1
    <3>2. g[p] = IF list[p] \in K THEN Append(g[p - 1], list[p]) ELSE g[p - 1]
      <4>1. PICK top \in Nat : top = Len(list)
        BY <1>1
      <4>2. KeepsTo(g, K, list, top)
        BY <4>1
      <4>3. p \in 0 .. top /\ p # 0
        BY <3>1, <4>1
      <4> QED BY <4>2, <4>3 DEF KeepsTo
    <3> QED BY <3>1, <3>2
  <2>3. g[n] \in Seq(L)
    BY <1>3
  <2>4. list[n + 1] \in K => list[n + 1] \in L
    BY <1>1, <2>1
  <2>5. g[n + 1] \in Seq(L)
    <3> HIDE DEF L
    <3> QED BY <2>2, <2>3, <2>4
  <2> QED BY <2>1, <2>5
<1>4. Len(list) \in Good
  <2> HIDE DEF Good
  <2> QED BY <1>1, <1>2, <1>3, UpTo
<1> QED BY <1>4

\* The prints that are shown are prints of the tape.
LEMMA ShownAreOnTape ==
    ASSUME NEW tape \in Seq(TapeEntry), NEW filter
    PROVE  ShownPrints(tape, filter) \in Seq(TapeEntry)
<1> DEFINE K == {e \in {tape[i] : i \in DOMAIN tape} : passesBlockFilter(e.quantity, filter)}
           Keeps(h) == h = [ n \in 0 .. Len(tape) |->
              IF n = 0 THEN <<>>
              ELSE IF passesBlockFilter(tape[n].quantity, filter)
                   THEN Append(h[n - 1], tape[n]) ELSE h[n - 1] ]
<1>1. Len(tape) \in Nat /\ DOMAIN tape = 1 .. Len(tape)
  OBVIOUS
<1>2. ASSUME NEW n \in 0 .. Len(tape), n # 0
      PROVE  tape[n] \in K <=> passesBlockFilter(tape[n].quantity, filter)
  <2>1. n \in DOMAIN tape
    BY <1>1, <1>2
  <2>2. tape[n] \in {tape[i] : i \in DOMAIN tape}
    BY <2>1
  <2> QED BY <2>2
<1>3. ASSUME NEW h
      PROVE  Keeps(h) <=> KeepsTo(h, K, tape, Len(tape))
  <2> HIDE DEF K
  <2> QED BY <1>1, <1>2 DEF KeepsTo
<1>4. ShownPrints(tape, filter) = (CHOOSE h : Keeps(h))[Len(tape)]
  BY DEF ShownPrints, Kept
<1>5. PICK g : g = CHOOSE h : Keeps(h)
  OBVIOUS
<1> HIDE DEF Keeps, K
<1>6. KeepsTo(g, K, tape, Len(tape))
  BY <1>1, <1>3, <1>5, KeepsToExists
<1>7. g[Len(tape)] \in Seq({tape[i] : i \in DOMAIN tape} \cap K)
  BY <1>6, KeepsWhatPasses
<1>8. {tape[i] : i \in DOMAIN tape} \cap K \subseteq TapeEntry
  BY <1>1
<1> QED BY <1>4, <1>5, <1>7, <1>8

(***************************************************************************)
(* Where one visible print is above an earlier one, a print in between is  *)
(* coloured up, and likewise down, whatever the filter hides               *)
(* (tickDirections).                                                       *)
(***************************************************************************)
THEOREM ColoursTellTheMove == ViewsSpec => []TicksTellTheMove
<1>1. ChartInv => TicksTellTheMove
  <2> SUFFICES ASSUME ChartInv, NEW filter \in BlockFilters,
                      NEW i \in DOMAIN ShownPrints(app.tape, filter),
                      NEW j \in DOMAIN ShownPrints(app.tape, filter), i < j
               PROVE  LET shown == ShownPrints(app.tape, filter)
                          dirs  == Directions(app.tape, filter)
                      IN  /\ shown[i].pricePx > shown[j].pricePx =>
                                \E k \in i .. j - 1 : dirs[k] = "up"
                          /\ shown[i].pricePx < shown[j].pricePx =>
                                \E k \in i .. j - 1 : dirs[k] = "down"
    BY DEF TicksTellTheMove
  <2>1. PICK shown, dirs : /\ shown = ShownPrints(app.tape, filter)
                           /\ dirs = Directions(app.tape, filter)
    OBVIOUS
  <2>2. shown \in Seq(TapeEntry)
    BY <2>1, ShownAreOnTape DEF ChartInv, OnTape, IsApp
  <2>3. /\ Len(shown) \in Nat /\ DOMAIN shown = 1 .. Len(shown)
        /\ i \in 1 .. Len(shown) /\ j \in 1 .. Len(shown)
    BY <2>1, <2>2
  <2>4. ASSUME NEW k \in DOMAIN shown PROVE shown[k].pricePx \in Int
    <3>1. shown[k] \in TapeEntry
      BY <2>2
    <3> QED BY <3>1 DEF TapeEntry
  <2> DEFINE px(k) == shown[k].pricePx
  <2>5. ASSUME NEW k \in i .. j - 1
        PROVE  /\ px(k) \in Int /\ px(k + 1) \in Int
               /\ px(k) > px(k + 1) <=> dirs[k] = "up"
               /\ px(k) < px(k + 1) <=> dirs[k] = "down"
    <3>1. k \in DOMAIN shown /\ k + 1 \in DOMAIN shown /\ k # Len(shown)
      <4>1. PICK top \in Nat : top = Len(shown) /\ DOMAIN shown = 1 .. top
        BY <2>3
      <4>2. i \in 1 .. top /\ j \in 1 .. top
        BY <2>3, <4>1
      <4> QED BY <4>1, <4>2
    <3>2. px(k) \in Int /\ px(k + 1) \in Int
      BY <2>4, <3>1
    <3>3. dirs = tickDirections(shown)
      BY <2>1 DEF Directions
    <3>4. dirs[k] = IF px(k) = px(k + 1) THEN "flat"
                    ELSE IF px(k) > px(k + 1) THEN "up" ELSE "down"
      BY <3>1, <3>3 DEF tickDirections
    <3> HIDE DEF px
    <3> QED BY <3>2, <3>4
  <2>6. px(i) \in Int /\ px(j) \in Int
    BY <2>3, <2>4
  <2> HIDE DEF px
  <2>7. ASSUME \A k \in i .. j - 1 : dirs[k] # "up"
        PROVE  px(i) <= px(j)
    <3> DEFINE Good == {k \in i .. j : px(k) \in Int /\ px(i) <= px(k)}
    <3>1. i \in Int /\ j \in Int /\ i <= j /\ i \in Good
      BY <2>3, <2>6
    <3>2. ASSUME NEW k \in i .. j - 1, k \in Good
          PROVE  k + 1 \in Good
      <4>1. px(k) \in Int /\ px(k + 1) \in Int /\ px(k) <= px(k + 1)
        BY <2>5, <2>7
      <4>2. k + 1 \in i .. j
        BY <3>1
      <4> QED BY <2>6, <3>2, <4>1, <4>2
    <3>3. j \in Good
      <4> HIDE DEF Good
      <4> QED BY <3>1, <3>2, UpTo
    <3> QED BY <3>3
  <2>8. ASSUME \A k \in i .. j - 1 : dirs[k] # "down"
        PROVE  px(j) <= px(i)
    <3> DEFINE Good == {k \in i .. j : px(k) \in Int /\ px(k) <= px(i)}
    <3>1. i \in Int /\ j \in Int /\ i <= j /\ i \in Good
      BY <2>3, <2>6
    <3>2. ASSUME NEW k \in i .. j - 1, k \in Good
          PROVE  k + 1 \in Good
      <4>1. px(k) \in Int /\ px(k + 1) \in Int /\ px(k + 1) <= px(k)
        BY <2>5, <2>8
      <4>2. k + 1 \in i .. j
        BY <3>1
      <4> QED BY <2>6, <3>2, <4>1, <4>2
    <3>3. j \in Good
      <4> HIDE DEF Good
      <4> QED BY <3>1, <3>2, UpTo
    <3> QED BY <3>3
  <2>9. /\ px(i) > px(j) => \E k \in i .. j - 1 : dirs[k] = "up"
        /\ px(i) < px(j) => \E k \in i .. j - 1 : dirs[k] = "down"
    BY <2>6, <2>7, <2>8
  <2> QED BY <2>1, <2>9 DEF px
<1> QED BY <1>1, ChartStarts, ChartInvKept, PTL DEF ViewsSpec

-----------------------------------------------------------------------------
(* The inspector's selection. *)

\* An entry of the log, after stamps l and c trades.
IsLogged(e, l, c) ==
    \/ /\ e.type = "FIX" /\ e.seqNum \in Nat /\ e.timestamp \in Nat
       /\ e.timestamp < l.echo \/ (e.timestamp = l.echo /\ e.seqNum <= l.seqNum)
    \/ e.type = "EXEC" /\ (e.tradeId = NA \/ e.tradeId \in 1 .. c)

\* Two of one key are reports of no trade with one stamp.
Differ(d, e) == entryKey(d) = entryKey(e) => OneKey(d, e)

OnLog(log, l, c) ==
    /\ log \in Seq({log[i] : i \in DOMAIN log})
    /\ \A i \in DOMAIN log : IsLogged(log[i], l, c)
    /\ \A i, j \in DOMAIN log : i # j => Differ(log[i], log[j])

LogInv == ChartInv /\ OnLog(app.inspectorLog, latest, app.sessionTradeCount)

\* Entries that differ do so either way round.
LEMMA DifferBothWays ==
    ASSUME NEW d, NEW e, Differ(d, e)
    PROVE  Differ(e, d)
  BY DEF Differ, OneKey

\* What is logged stays so as the stamps and the trades move on.
LEMMA LoggedStays ==
    ASSUME NEW l \in Stamps, NEW m \in Stamps, NEW c \in Nat, NEW d \in Nat, c <= d,
           LaterEcho(m, l) \/ (m.echo = l.echo /\ m.seqNum = l.seqNum),
           NEW e, IsLogged(e, l, c)
    PROVE  IsLogged(e, m, d)
<1>1. /\ l.echo \in Nat /\ l.seqNum \in Nat /\ m.echo \in Nat /\ m.seqNum \in Nat
  BY DEF Stamps
<1>2. CASE e.type = "FIX"
  BY <1>1, <1>2 DEF IsLogged, LaterEcho
<1>3. CASE e.type = "EXEC"
  BY <1>3 DEF IsLogged
<1> QED BY <1>2, <1>3 DEF IsLogged

\* A packet echoed later has a key of its own.
LEMMA EchoDiffers ==
    ASSUME NEW l \in Stamps, NEW m \in Stamps, NEW c \in Nat, LaterEcho(m, l),
           NEW frame, frame.type = "FIX", frame.timestamp = m.echo, frame.seqNum = m.seqNum,
           NEW e, IsLogged(e, l, c)
    PROVE  Differ(frame, e)
<1>1. /\ l.echo \in Nat /\ l.seqNum \in Nat /\ m.echo \in Nat /\ m.seqNum \in Nat
  BY DEF Stamps
<1>2. CASE e.type = "FIX"
  <2>1. e.timestamp # frame.timestamp \/ e.seqNum # frame.seqNum
    BY <1>1, <1>2 DEF IsLogged, LaterEcho
  <2> QED BY <2>1, <1>2 DEF Differ, entryKey
<1>3. CASE e.type = "EXEC"
  BY <1>3 DEF Differ, entryKey
<1> QED BY <1>2, <1>3 DEF IsLogged

\* So has a trade, and a report of none shares one only with another of its stamp.
LEMMA ReportDiffers ==
    ASSUME NEW l, NEW c \in Nat, NEW frame, frame.type = "EXEC",
           frame.tradeId \in {NA, c + 1}, NEW e, IsLogged(e, l, c)
    PROVE  Differ(frame, e)
<1>1. CASE e.type = "FIX"
  BY <1>1 DEF Differ, entryKey
<1>2. CASE e.type = "EXEC"
  <2>1. CASE frame.tradeId # e.tradeId
    BY <1>2, <2>1 DEF Differ, entryKey
  <2>2. CASE frame.tradeId = e.tradeId
    <3>1. e.tradeId # c + 1
      BY <1>2 DEF IsLogged, NA
    <3>2. e.tradeId = NA /\ frame.tradeId = NA
      BY <2>2, <3>1
    <3> QED BY <1>2, <3>2 DEF Differ, OneKey, entryKey
  <2> QED BY <2>1, <2>2
<1> QED BY <1>1, <1>2 DEF IsLogged

\* An entry that differs from the others may be put on top.
LEMMA LogGrows ==
    ASSUME NEW log, log \in Seq({log[i] : i \in DOMAIN log}),
           NEW m, NEW d, \A i \in DOMAIN log : IsLogged(log[i], m, d),
           \A i, j \in DOMAIN log : i # j => Differ(log[i], log[j]),
           NEW entry, IsLogged(entry, m, d),
           \A i \in DOMAIN log : Differ(entry, log[i])
    PROVE  OnLog(Prepend(entry, log, INSPECTOR_CAP), m, d)
<1> DEFINE n == Least(INSPECTOR_CAP, Len(log) + 1)
           next == Prepend(entry, log, INSPECTOR_CAP)
<1>1. Len(log) \in Nat /\ DOMAIN log = 1 .. Len(log)
  OBVIOUS
<1>2. n \in Nat /\ n <= Len(log) + 1
  BY <1>1, CapsAssumption DEF Least
<1>3. next = [i \in 1 .. n |-> IF i = 1 THEN entry ELSE log[i - 1]]
  BY DEF Prepend
<1> HIDE DEF n, next
<1>4. DOMAIN next = 1 .. n /\ next \in Seq({next[i] : i \in DOMAIN next})
  <2>1. DOMAIN next = 1 .. n /\ next = [i \in 1 .. n |-> next[i]]
    BY <1>3
  <2>2. PICK S : S = {next[i] : i \in 1 .. n}
    OBVIOUS
  <2>3. \A i \in 1 .. n : next[i] \in S
    BY <2>2
  <2>4. next \in Seq(S)
    BY <1>2, <2>1, <2>3
  <2> QED BY <2>1, <2>2, <2>4
<1>5. ASSUME NEW i \in 1 .. n
      PROVE  \/ i = 1 /\ next[i] = entry
             \/ i # 1 /\ i - 1 \in DOMAIN log /\ next[i] = log[i - 1]
  <2>1. i # 1 => i - 1 \in DOMAIN log
    BY <1>1, <1>2
  <2>2. next[i] = IF i = 1 THEN entry ELSE log[i - 1]
    BY <1>3
  <2> QED BY <2>1, <2>2
<1>6. \A i \in 1 .. n : IsLogged(next[i], m, d)
  BY <1>5
<1>7. ASSUME NEW i \in 1 .. n, NEW j \in 1 .. n, i # j
      PROVE  Differ(next[i], next[j])
  <2>1. CASE i = 1
    <3>1. j - 1 \in DOMAIN log /\ next[j] = log[j - 1] /\ next[i] = entry
      BY <1>5, <1>7, <2>1
    <3> QED BY <3>1
  <2>2. CASE j = 1
    <3>1. i - 1 \in DOMAIN log /\ next[i] = log[i - 1] /\ next[j] = entry
      BY <1>5, <1>7, <2>2
    <3>2. Differ(next[j], next[i])
      BY <3>1
    <3> QED BY <3>2, DifferBothWays
  <2>3. CASE i # 1 /\ j # 1
    <3>1. /\ i - 1 \in DOMAIN log /\ j - 1 \in DOMAIN log /\ i - 1 # j - 1
          /\ next[i] = log[i - 1] /\ next[j] = log[j - 1]
      BY <1>5, <1>7, <2>3
    <3> QED BY <3>1
  <2> QED BY <2>1, <2>2, <2>3
<1>8. OnLog(next, m, d)
  BY <1>4, <1>6, <1>7 DEF OnLog
<1> QED BY <1>8 DEF next

\* A frame that arrives keeps the entries of the log apart.
LEMMA FrameKeepsTheLog ==
    ASSUME NEW l \in Stamps, NEW m \in Stamps, NEW a, IsApp(a), a.sessionTradeCount \in Nat,
           OnLog(a.inspectorLog, l, a.sessionTradeCount),
           NEW frame, Coming(frame, a, l, m), NEW next, next = reduceFrame(a, frame)
    PROVE  OnLog(next.inspectorLog, m, next.sessionTradeCount)
<1>1. PICK log, c, d : /\ log = a.inspectorLog /\ c = a.sessionTradeCount
                       /\ d = next.sessionTradeCount
  OBVIOUS
<1>2. c \in Nat /\ OnLog(log, l, c) /\ m.echo \in Nat /\ m.seqNum \in Nat
  BY <1>1 DEF Stamps
<1>3. \/ /\ frame.type = "BOOK" /\ m.echo = l.echo /\ m.seqNum = l.seqNum
         /\ next.inspectorLog = log /\ d = c
      \/ /\ frame.type = "FIX" /\ frame.timestamp = m.echo /\ frame.seqNum = m.seqNum
         /\ LaterEcho(m, l) /\ d = c
         /\ next.inspectorLog = Prepend(frame, log, INSPECTOR_CAP)
      \/ /\ frame.type = "EXEC" /\ m.echo = l.echo /\ m.seqNum = l.seqNum
         /\ next.inspectorLog = Prepend(frame, log, INSPECTOR_CAP)
         /\ (frame.tradeId = NA /\ d = c) \/ (frame.tradeId = c + 1 /\ d = c + 1)
  <2>1. CASE frame.type = "BOOK" /\ m.echo = l.echo /\ m.seqNum = l.seqNum
    BY <1>1, <2>1, BookEffect DEF SameAggregates
  <2>2. CASE /\ frame.type = "FIX" /\ frame.timestamp = m.echo /\ frame.seqNum = m.seqNum
             /\ LaterEcho(m, l)
    BY <1>1, <2>2, FixEffect DEF SameAggregates
  <2>3. CASE /\ frame \in ExecFrame /\ m.echo = l.echo /\ m.seqNum = l.seqNum
             /\ IF isFill(frame) THEN frame.tradeId = a.sessionTradeCount + 1
                ELSE frame.tradeId = NA
    <3>1. frame.type = "EXEC"
      BY <2>3 DEF ExecFrame
    <3>2. /\ next.inspectorLog = Prepend(frame, log, INSPECTOR_CAP)
          /\ isFill(frame) => d = c + 1
          /\ ~ isFill(frame) => d = c
      BY <1>1, <2>3, ExecEffect DEF SameAggregates, Traded
    <3> QED BY <1>1, <2>3, <3>1, <3>2
  <2> QED BY <2>1, <2>2, <2>3 DEF Coming
<1>4. d \in Nat /\ c <= d
  BY <1>2, <1>3
<1>5. LaterEcho(m, l) \/ (m.echo = l.echo /\ m.seqNum = l.seqNum)
  BY <1>3
<1>6. /\ log \in Seq({log[i] : i \in DOMAIN log})
      /\ \A i \in DOMAIN log : IsLogged(log[i], l, c)
      /\ \A i, j \in DOMAIN log : i # j => Differ(log[i], log[j])
  BY <1>2 DEF OnLog
<1>7. \A i \in DOMAIN log : IsLogged(log[i], m, d)
  BY <1>2, <1>4, <1>5, <1>6, LoggedStays
<1>8. CASE next.inspectorLog = log
  BY <1>1, <1>6, <1>7, <1>8 DEF OnLog
<1>9. CASE /\ frame.type = "FIX" /\ frame.timestamp = m.echo /\ frame.seqNum = m.seqNum
           /\ LaterEcho(m, l) /\ next.inspectorLog = Prepend(frame, log, INSPECTOR_CAP)
  <2>1. IsLogged(frame, m, d)
    BY <1>2, <1>9 DEF IsLogged
  <2>2. \A i \in DOMAIN log : Differ(frame, log[i])
    BY <1>2, <1>6, <1>9, EchoDiffers
  <2> QED BY <1>1, <1>6, <1>7, <1>9, <2>1, <2>2, LogGrows
<1>10. CASE /\ frame.type = "EXEC" /\ next.inspectorLog = Prepend(frame, log, INSPECTOR_CAP)
            /\ (frame.tradeId = NA /\ d = c) \/ (frame.tradeId = c + 1 /\ d = c + 1)
  <2>1. IsLogged(frame, m, d)
    BY <1>2, <1>10 DEF IsLogged
  <2>2. \A i \in DOMAIN log : Differ(frame, log[i])
    BY <1>2, <1>6, <1>10, ReportDiffers
  <2> QED BY <1>1, <1>6, <1>7, <1>10, <2>1, <2>2, LogGrows
<1> QED BY <1>3, <1>8, <1>9, <1>10

\* Every step keeps the entries of the log apart.
LEMMA LogInvKept == LogInv /\ [ViewsNext]_viewVars => LogInv'
<1> SUFFICES ASSUME LogInv, [ViewsNext]_viewVars PROVE LogInv'
  OBVIOUS
<1>1. ChartInv /\ ChartInv'
  BY ChartInvKept DEF LogInv
<1>2. CASE UNCHANGED <<app, frames, latest>>
  BY <1>1, <1>2 DEF LogInv
<1>3. ASSUME NEW frame, Coming(frame, app, latest, latest'), app' = reduceFrame(app, frame)
      PROVE  LogInv'
  <2>1. PICK a, l, m, next : /\ a = app /\ l = latest /\ m = latest'
                             /\ next = reduceFrame(a, frame)
    OBVIOUS
  <2>2. /\ IsApp(a) /\ a.sessionTradeCount \in Nat /\ l \in Stamps /\ m \in Stamps
        /\ OnLog(a.inspectorLog, l, a.sessionTradeCount) /\ Coming(frame, a, l, m)
    BY <1>1, <1>3, <2>1 DEF LogInv, ChartInv, OnTape
  <2>3. OnLog(next.inspectorLog, m, next.sessionTradeCount)
    BY <2>1, <2>2, FrameKeepsTheLog
  <2> QED BY <1>1, <1>3, <2>1, <2>3 DEF LogInv
<1> QED BY <1>1, <1>2, <1>3, FramesMoveTheState DEF MovesOn

\* What the filter shows is in the log.
Visible(log, filter) == Kept(log, LAMBDA entry : matchesFilter(entry, filter))

LEMMA VisibleAreLogged ==
    ASSUME NEW S, NEW log \in Seq(S), NEW filter
    PROVE  Visible(log, filter) \in Seq({log[i] : i \in DOMAIN log})
<1> DEFINE K == {e \in {log[i] : i \in DOMAIN log} : matchesFilter(e, filter)}
           Keeps(h) == h = [ n \in 0 .. Len(log) |->
              IF n = 0 THEN <<>>
              ELSE IF matchesFilter(log[n], filter)
                   THEN Append(h[n - 1], log[n]) ELSE h[n - 1] ]
<1>1. Len(log) \in Nat /\ DOMAIN log = 1 .. Len(log)
  OBVIOUS
<1>2. ASSUME NEW n \in 0 .. Len(log), n # 0
      PROVE  log[n] \in K <=> matchesFilter(log[n], filter)
  <2>1. n \in DOMAIN log
    BY <1>1, <1>2
  <2>2. log[n] \in {log[i] : i \in DOMAIN log}
    BY <2>1
  <2> QED BY <2>2
<1>3. ASSUME NEW h
      PROVE  Keeps(h) <=> KeepsTo(h, K, log, Len(log))
  <2> HIDE DEF K
  <2> QED BY <1>1, <1>2 DEF KeepsTo
<1>4. Visible(log, filter) = (CHOOSE h : Keeps(h))[Len(log)]
  BY DEF Visible, Kept
<1>5. PICK g : g = CHOOSE h : Keeps(h)
  OBVIOUS
<1> HIDE DEF Keeps, K
<1>6. KeepsTo(g, K, log, Len(log))
  BY <1>1, <1>3, <1>5, KeepsToExists
<1>7. g[Len(log)] \in Seq({log[i] : i \in DOMAIN log} \cap K)
  BY <1>6, KeepsWhatPasses
<1> QED BY <1>4, <1>5, <1>7

\* The entry with a key is found by its key, or another report of no trade that has
\* its stamp.
LEMMA TheKeyFinds ==
    ASSUME NEW log, NEW l, NEW c, OnLog(log, l, c), NEW visible,
           visible \in Seq({log[i] : i \in DOMAIN log}), NEW entry \in Range(visible),
           NEW hits, hits = {i \in DOMAIN visible : entryKey(visible[i]) = entryKey(entry)}
    PROVE  hits # {} /\ (visible[Min(hits)] = entry \/ OneKey(entry, visible[Min(hits)]))
<1>1. DOMAIN visible = 1 .. Len(visible) /\ Len(visible) \in Nat
  OBVIOUS
<1>2. PICK p \in DOMAIN visible : visible[p] = entry
  BY DEF Range
<1>3. p \in hits
  BY <1>2
<1>4. hits \in SUBSET (0 .. Len(visible))
  BY <1>1
<1>5. Min(hits) \in hits
  BY <1>1, <1>3, <1>4, MinMaxOf
<1>6. PICK k \in DOMAIN visible : k = Min(hits) /\ entryKey(visible[k]) = entryKey(entry)
  BY <1>5
<1>7. visible[k] \in {log[i] : i \in DOMAIN log} /\ entry \in {log[i] : i \in DOMAIN log}
  BY <1>2
<1>8. PICK i \in DOMAIN log, j \in DOMAIN log : visible[k] = log[i] /\ entry = log[j]
  BY <1>7
<1>9. i = j \/ Differ(log[j], log[i])
  BY DEF OnLog
<1>10. visible[k] = entry \/ OneKey(entry, visible[k])
  BY <1>6, <1>8, <1>9 DEF Differ
<1> QED BY <1>3, <1>6, <1>10

(***************************************************************************)
(* The picked entry stays the selected one as long as it is visible        *)
(* (FixInspector, selected): no two entries share a key but reports of no  *)
(* trade with one stamp, of which another may take its place.              *)
(***************************************************************************)
THEOREM TheSelectionSticks == ViewsSpec => SelectionSticks
<1>1. ViewsInit => LogInv
  <2> SUFFICES ASSUME ViewsInit
               PROVE  OnLog(app.inspectorLog, latest, app.sessionTradeCount)
    BY ChartStarts DEF LogInv
  <2>1. app.inspectorLog = <<>>
    BY DEF ViewsInit, initialState
  <2> QED BY <2>1 DEF OnLog
<1>2. ASSUME LogInv', NEW entry, entryKey(entry) = inspector.selectedKey,
             inspector'.selectedKey = inspector.selectedKey, entry \in Range(Filtered')
      PROVE  Selected' = entry \/ OneKey(entry, Selected')
  <2>1. PICK log, l, c, filter : /\ log = app'.inspectorLog /\ l = latest'
                                 /\ c = app'.sessionTradeCount /\ filter = inspector'.filter
    OBVIOUS
  <2>2. OnLog(log, l, c)
    BY <1>2, <2>1 DEF LogInv
  <2>3. PICK visible : visible = Filtered'
    OBVIOUS
  <2>4. visible = Visible(log, filter)
    BY <2>1, <2>3 DEF Filtered, Visible, Kept
  <2>5. visible \in Seq({log[i] : i \in DOMAIN log})
    <3>1. PICK S : log \in Seq(S)
      BY <2>2 DEF OnLog
    <3> QED BY <2>4, <3>1, VisibleAreLogged
  <2>6. PICK hits : hits = {i \in DOMAIN visible : entryKey(visible[i]) = entryKey(entry)}
    OBVIOUS
  <2>7. hits # {} /\ (visible[Min(hits)] = entry \/ OneKey(entry, visible[Min(hits)]))
    <3>1. entry \in Range(visible)
      BY <1>2, <2>3
    <3> QED BY <2>2, <2>5, <2>6, <3>1, TheKeyFinds
  <2>8. hits = {i \in DOMAIN visible : entryKey(visible[i]) = inspector'.selectedKey}
    BY <1>2, <2>6
  <2>9. Selected' = visible[Min(hits)]
    BY <2>3, <2>7, <2>8 DEF Selected
  <2> QED BY <2>7, <2>9
<1>3. ASSUME LogInv'
      PROVE  LET entry == Selected
             IN  (/\ entry # NoEntry /\ entryKey(entry) = inspector.selectedKey
                  /\ inspector'.selectedKey = inspector.selectedKey
                  /\ entry \in Range(Filtered'))
                 => Selected' = entry \/ OneKey(entry, Selected')
  <2>1. PICK entry : entry = Selected
    OBVIOUS
  <2> QED BY <1>2, <1>3, <2>1
<1>4. LogInv' => [ LET entry == Selected
                   IN  (/\ entry # NoEntry /\ entryKey(entry) = inspector.selectedKey
                        /\ inspector'.selectedKey = inspector.selectedKey
                        /\ entry \in Range(Filtered'))
                       => Selected' = entry \/ OneKey(entry, Selected') ]_viewVars
  BY <1>3
<1> QED BY <1>1, <1>4, LogInvKept, PTL DEF ViewsSpec, SelectionSticks

-----------------------------------------------------------------------------
(* The ladder and the depth curve. *)

\* The running total inside cumulate, up to level m.
TotalsTo(g, levels, m) ==
    g = [ i \in 0 .. m |-> IF i = 0 THEN 0 ELSE g[i - 1] + levels[i][2] ]

\* There is such a function.
LEMMA TotalsExist ==
    ASSUME NEW levels, NEW m \in Nat
    PROVE  \E g : TotalsTo(g, levels, m)
<1> DEFINE Good == {l \in 0 .. m : \E g : TotalsTo(g, levels, l)}
<1>1. 0 \in Good
  <2> DEFINE g == [i \in 0 .. 0 |-> 0]
  <2>1. TotalsTo(g, levels, 0)
    BY DEF TotalsTo
  <2> HIDE DEF g
  <2> QED BY <2>1
<1>2. ASSUME NEW l \in 0 .. m - 1, l \in Good
      PROVE  l + 1 \in Good
  <2>1. PICK g : TotalsTo(g, levels, l)
    BY <1>2
  <2> DEFINE last == g[l] + levels[l + 1][2]
             h    == [i \in 0 .. l + 1 |-> IF i = l + 1 THEN last ELSE g[i]]
  <2>2. \A i \in 0 .. l : h[i] = g[i]
    OBVIOUS
  <2>3. ASSUME NEW i \in 0 .. l + 1
        PROVE  h[i] = IF i = 0 THEN 0 ELSE h[i - 1] + levels[i][2]
    <3>1. CASE i = l + 1
      <4>1. l \in 0 .. l /\ i # 0 /\ i - 1 = l
        BY <3>1
      <4>2. h[i] = last /\ h[i - 1] = g[l]
        BY <3>1, <2>2, <4>1
      <4> HIDE DEF h
      <4> QED BY <3>1, <4>1, <4>2
    <3>2. CASE i # l + 1
      <4>1. i \in 0 .. l /\ (i # 0 => i - 1 \in 0 .. l)
        BY <3>2
      <4>2. g[i] = IF i = 0 THEN 0 ELSE g[i - 1] + levels[i][2]
        BY <2>1, <4>1 DEF TotalsTo
      <4> HIDE DEF h
      <4> QED BY <2>2, <4>1, <4>2
    <3> QED BY <3>1, <3>2
  <2>4. h = [i \in 0 .. l + 1 |-> h[i]]
    OBVIOUS
  <2> HIDE DEF h
  <2>5. TotalsTo(h, levels, l + 1)
    BY <2>3, <2>4 DEF TotalsTo
  <2> QED BY <2>5
<1>3. m \in Good
  <2> HIDE DEF Good
  <2> QED BY <1>1, <1>2, UpTo
<1> QED BY <1>3

CumLevel == [ pricePx : Nat, qty : Nat, cumQty : Nat ]

\* One side of the ladder: its totals grow with every level.
IsLadderSide(cum, levels) ==
    /\ cum \in Seq(CumLevel) /\ DOMAIN cum = DOMAIN levels /\ Len(cum) = Len(levels)
    /\ \A i \in DOMAIN levels : cum[i].pricePx = levels[i][1]
    /\ \A i, j \in DOMAIN levels : i < j => cum[i].cumQty < cum[j].cumQty

LEMMA CumulateIsALadderSide ==
    ASSUME NEW levels \in Seq(Nat \X Nat), \A i \in DOMAIN levels : levels[i][2] > 0
    PROVE  IsLadderSide(cumulate(levels), levels)
<1> DEFINE cum == cumulate(levels)
<1>1. PICK n \in Nat : n = Len(levels) /\ DOMAIN levels = 1 .. n
  OBVIOUS
<1>2. PICK g : g = CHOOSE h : TotalsTo(h, levels, n)
  OBVIOUS
<1>3. TotalsTo(g, levels, n)
  BY <1>2, TotalsExist
<1>4. cum = [ i \in 1 .. n |->
                [ pricePx |-> levels[i][1], qty |-> levels[i][2], cumQty |-> g[i] ] ]
  BY <1>1, <1>2 DEF cumulate, TotalsTo
<1> HIDE DEF cum
<1>5. ASSUME NEW i \in 1 .. n
      PROVE  levels[i][1] \in Nat /\ levels[i][2] \in Nat /\ levels[i][2] > 0
  <2>1. levels[i] \in Nat \X Nat
    BY <1>1
  <2> QED BY <1>1, <2>1
<1>6. g[0] = 0 /\ \A i \in 1 .. n : i - 1 \in 0 .. n /\ g[i] = g[i - 1] + levels[i][2]
  BY <1>3 DEF TotalsTo
<1>7. ASSUME NEW k \in 0 .. n
      PROVE  g[k] \in Nat
  <2> DEFINE Good == {i \in 0 .. n : g[i] \in Nat}
  <2>1. 0 \in Good
    BY <1>6
  <2>2. ASSUME NEW i \in 0 .. k - 1, i \in Good
        PROVE  i + 1 \in Good
    <3>1. PICK p \in 1 .. n : p = i + 1 /\ p - 1 = i
      OBVIOUS
    <3>2. g[p] = g[p - 1] + levels[p][2] /\ levels[p][2] \in Nat
      BY <1>5, <1>6
    <3> QED BY <2>2, <3>1, <3>2
  <2>3. k \in Good
    <3> HIDE DEF Good
    <3> QED BY <2>1, <2>2, UpTo
  <2> QED BY <2>3
<1>8. ASSUME NEW i \in 1 .. n, NEW j \in 1 .. n, i < j
      PROVE  g[i] < g[j]
  <2> DEFINE Good == {k \in 0 .. n : g[i] < g[k]}
  <2>1. ASSUME NEW k \in i .. j - 1, g[i] < g[k] \/ k = i
        PROVE  k + 1 \in Good
    <3>1. PICK p \in 1 .. n : p = k + 1 /\ p - 1 = k
      OBVIOUS
    <3>2. p - 1 \in 0 .. n /\ i \in 0 .. n /\ p \in 0 .. n
      OBVIOUS
    <3>3. PICK a, b, c : a = g[p - 1] /\ b = levels[p][2] /\ c = g[i]
      OBVIOUS
    <3>4. g[p] = a + b /\ b \in Nat /\ b > 0
      BY <1>5, <1>6, <3>3
    <3>5. a \in Nat /\ c \in Nat
      BY <1>7, <3>2, <3>3
    <3>6. c <= a
      <4>1. a = g[k]
        BY <3>1, <3>3
      <4>2. CASE k = i
        BY <3>3, <3>5, <4>1, <4>2
      <4>3. CASE g[i] < g[k]
        BY <3>3, <3>5, <4>1, <4>3
      <4> QED BY <2>1, <4>2, <4>3
    <3>7. c < g[p]
      BY <3>4, <3>5, <3>6
    <3> QED BY <3>1, <3>2, <3>3, <3>7
  <2>2. i + 1 \in Good
    BY <1>8, <2>1
  <2>3. \A k \in i + 1 .. j - 1 : k \in Good => k + 1 \in Good
    BY <2>1
  <2>4. j \in Good
    <3> HIDE DEF Good
    <3>1. i + 1 \in Int /\ i + 1 <= j
      BY <1>8
    <3> QED BY <2>2, <2>3, <3>1, UpTo
  <2> QED BY <2>4
<1>9. ASSUME NEW i \in 1 .. n
      PROVE  cum[i] \in CumLevel /\ cum[i].pricePx = levels[i][1] /\ cum[i].cumQty = g[i]
  BY <1>4, <1>5, <1>7 DEF CumLevel
<1>10. cum \in Seq(CumLevel) /\ DOMAIN cum = 1 .. n /\ Len(cum) = n
  BY <1>4, <1>9
<1> QED BY <1>1, <1>8, <1>9, <1>10 DEF IsLadderSide, cum

\* The anchor of a level.
AnchorOf(level) == [ pricePx |-> level.pricePx, cumQty |-> level.cumQty ]

\* The corners of a staircase come back as one anchor for each level
\* (stepCorners, levelAnchors).
LEMMA AnchorsAreTheLevels ==
    ASSUME NEW cum \in Seq(CumLevel),
           \A i, j \in DOMAIN cum : i < j => /\ cum[i].cumQty < cum[j].cumQty
                                             /\ cum[i].pricePx # cum[j].pricePx
    PROVE  levelAnchors(stepCorners(cum)) = [ i \in DOMAIN cum |-> AnchorOf(cum[i]) ]
<1>1. PICK n \in Nat : n = Len(cum) /\ DOMAIN cum = 1 .. n
  OBVIOUS
<1>2. CASE n = 0
  <2>1. cum = <<>>
    BY <1>1, <1>2
  <2>2. stepCorners(cum) = <<>>
    BY <2>1 DEF stepCorners
  <2> DEFINE Runs(h) == h = [ k \in 0 .. Len(<<>>) |->
                                IF k = 0 THEN <<>> ELSE WithCorner(h[k - 1], <<>>[k]) ]
  <2>3. levelAnchors(<<>>) = (CHOOSE h : Runs(h))[Len(<<>>)]
    BY DEF levelAnchors
  <2>4. Runs([ k \in 0 .. 0 |-> <<>> ])
    BY DEF Runs
  <2> HIDE DEF Runs
  <2>5. PICK h : h = (CHOOSE e : Runs(e)) /\ Runs(h)
    BY <2>4
  <2>6. h[0] = <<>>
    BY <2>5 DEF Runs
  <2>7. levelAnchors(<<>>) = <<>>
    BY <2>3, <2>5, <2>6
  <2>8. [ i \in DOMAIN cum |-> AnchorOf(cum[i]) ] = <<>>
    BY <2>1
  <2> QED BY <2>2, <2>7, <2>8
<1>3. CASE n # 0
  <2> DEFINE points == stepCorners(cum)
             N      == 2 * n - 1
             Row(i, m) == [ pricePx |-> cum[i].pricePx,
                            cumQty |-> IF i <= m THEN cum[i].cumQty ELSE cum[m].cumQty ]
             Upto(k) == [ i \in 1 .. k \div 2 + 1 |-> Row(i, (k + 1) \div 2) ]
             g == [ k \in 0 .. N |-> IF k = 0 THEN <<>> ELSE Upto(k) ]
             Runs(h) == h = [ k \in 0 .. N |->
                                IF k = 0 THEN <<>> ELSE WithCorner(h[k - 1], points[k]) ]
  <2>1. N \in Nat /\ cum # <<>> /\ N > 0
    BY <1>1, <1>3
  <2>2. points = [ k \in 1 .. N |-> [ pricePx |-> cum[k \div 2 + 1].pricePx,
                                      cumQty |-> cum[(k + 1) \div 2].cumQty ] ]
    BY <1>1, <2>1 DEF stepCorners
  <2> HIDE DEF points
  <2>3. Len(points) = N
    BY <2>1, <2>2
  <2>4. levelAnchors(points) = (CHOOSE h : Runs(h))[N]
    BY <2>3 DEF levelAnchors
  <2>0. \A k \in 1 .. N : g[k] = Upto(k)
    <3> HIDE DEF Upto, N
    <3> QED BY <2>1
  <2>5. ASSUME NEW k \in 1 .. N
        PROVE  g[k] = WithCorner(g[k - 1], points[k])
    <3>1. CASE k = 1
      <4>1. g[0] = <<>> /\ k - 1 = 0
        BY <2>1, <3>1
      <4>2. points[1] = [ pricePx |-> cum[1].pricePx, cumQty |-> cum[1].cumQty ]
        BY <2>1, <2>2
      <4>3. g[1] = [ i \in 1 .. 1 |-> Row(i, 1) ]
        BY <2>1
      <4>4. Row(1, 1) = points[1]
        BY <4>2
      <4> HIDE DEF g, Row
      <4>5. WithCorner(<<>>, points[1]) = <<points[1]>>
        BY DEF WithCorner
      <4> QED BY <3>1, <4>1, <4>3, <4>4, <4>5
    <3>2. ASSUME NEW m \in 1 .. n - 1, k = 2 * m
          PROVE  g[k] = WithCorner(g[k - 1], points[k])
      <4>1. /\ k \div 2 = m /\ (k + 1) \div 2 = m /\ k # 0
            /\ k - 1 \in 0 .. N /\ k - 1 # 0
            /\ (k - 1) \div 2 = m - 1 /\ (k - 1 + 1) \div 2 = m
        BY <3>2
      <4>2. g[k] = [ i \in 1 .. m + 1 |-> Row(i, m) ]
        <5> HIDE DEF g, Row
        <5>1. g[k] = [ i \in 1 .. k \div 2 + 1 |-> Row(i, (k + 1) \div 2) ]
          BY <2>0
        <5> QED BY <4>1, <5>1
      <4>3. g[k - 1] = [ i \in 1 .. m |-> Row(i, m) ]
        <5> HIDE DEF g, Row
        <5>1. PICK l \in 1 .. N : l = k - 1
          BY <4>1
        <5>2. g[l] = [ i \in 1 .. l \div 2 + 1 |-> Row(i, (l + 1) \div 2) ]
          BY <2>0
        <5> QED BY <4>1, <5>1, <5>2
      <4>4. points[k] = [ pricePx |-> cum[m + 1].pricePx, cumQty |-> cum[m].cumQty ]
        BY <2>2, <4>1
      <4>5. Row(m + 1, m) = points[k] /\ Row(m, m).pricePx = cum[m].pricePx
        BY <4>4
      <4>6. cum[m].pricePx # cum[m + 1].pricePx
        BY <1>1
      <4>7. points[k].pricePx = cum[m + 1].pricePx
        BY <4>4
      <4> HIDE DEF g, Row
      <4>8. PICK before : before = g[k - 1]
        OBVIOUS
      <4>9. /\ before # <<>> /\ Len(before) = m /\ before[m] = Row(m, m)
            /\ DOMAIN before = 1 .. m
        BY <4>3, <4>8
      <4>10. Last(before).pricePx # points[k].pricePx
        BY <4>5, <4>6, <4>7, <4>9 DEF Last
      <4>11. WithCorner(before, points[k]) = Append(before, points[k])
        BY <4>10 DEF WithCorner
      <4>12. Append(before, points[k])
               = [ i \in 1 .. m + 1 |-> IF i = m + 1 THEN points[k] ELSE before[i] ]
        BY <4>3, <4>8, <4>9
      <4>13. \A i \in 1 .. m + 1 :
                Row(i, m) = IF i = m + 1 THEN points[k] ELSE before[i]
        BY <4>3, <4>5, <4>8
      <4> QED BY <4>2, <4>8, <4>11, <4>12, <4>13
    <3>3. ASSUME NEW m \in 1 .. n - 1, k = 2 * m + 1
          PROVE  g[k] = WithCorner(g[k - 1], points[k])
      <4>1. /\ k \div 2 = m /\ (k + 1) \div 2 = m + 1 /\ k # 0
            /\ k - 1 \in 0 .. N /\ k - 1 # 0
            /\ (k - 1) \div 2 = m /\ (k - 1 + 1) \div 2 = m
        BY <3>3
      <4>2. g[k] = [ i \in 1 .. m + 1 |-> Row(i, m + 1) ]
        <5> HIDE DEF g, Row
        <5>1. g[k] = [ i \in 1 .. k \div 2 + 1 |-> Row(i, (k + 1) \div 2) ]
          BY <2>0
        <5> QED BY <4>1, <5>1
      <4>3. g[k - 1] = [ i \in 1 .. m + 1 |-> Row(i, m) ]
        <5> HIDE DEF g, Row
        <5>1. PICK l \in 1 .. N : l = k - 1
          BY <4>1
        <5>2. g[l] = [ i \in 1 .. l \div 2 + 1 |-> Row(i, (l + 1) \div 2) ]
          BY <2>0
        <5> QED BY <4>1, <5>1, <5>2
      <4>4. points[k] = [ pricePx |-> cum[m + 1].pricePx, cumQty |-> cum[m + 1].cumQty ]
        BY <2>2, <4>1
      <4>5. /\ Row(m + 1, m + 1) = points[k]
            /\ Row(m + 1, m).pricePx = cum[m + 1].pricePx
            /\ Row(m + 1, m).cumQty = cum[m].cumQty
            /\ \A i \in 1 .. m : Row(i, m + 1) = Row(i, m)
        BY <4>4
      <4>6. cum[m].cumQty < cum[m + 1].cumQty
        BY <1>1
      <4>7. /\ points[k].pricePx = cum[m + 1].pricePx
            /\ points[k].cumQty = cum[m + 1].cumQty
        BY <4>4
      <4>8. cum[m].cumQty \in Nat /\ cum[m + 1].cumQty \in Nat
        <5>1. cum[m] \in CumLevel /\ cum[m + 1] \in CumLevel
          BY <1>1
        <5> QED BY <5>1 DEF CumLevel
      <4> HIDE DEF g, Row
      <4>9. PICK before : before = g[k - 1]
        OBVIOUS
      <4>10. /\ before # <<>> /\ Len(before) = m + 1 /\ before[m + 1] = Row(m + 1, m)
             /\ DOMAIN before = 1 .. m + 1
        BY <4>3, <4>9
      <4>11. /\ Last(before).pricePx = points[k].pricePx
             /\ points[k].cumQty > Last(before).cumQty
        BY <4>5, <4>6, <4>7, <4>8, <4>10 DEF Last
      <4>12. WithCorner(before, points[k]) = [before EXCEPT ![m + 1] = points[k]]
        BY <4>10, <4>11 DEF WithCorner
      <4>13. [before EXCEPT ![m + 1] = points[k]]
               = [ i \in 1 .. m + 1 |-> IF i = m + 1 THEN points[k] ELSE before[i] ]
        BY <4>10
      <4>14. \A i \in 1 .. m + 1 :
                Row(i, m + 1) = IF i = m + 1 THEN points[k] ELSE before[i]
        BY <4>3, <4>5, <4>9
      <4> QED BY <4>2, <4>9, <4>12, <4>13, <4>14
    <3>4. k = 1 \/ \E m \in 1 .. n - 1 : k = 2 * m \/ k = 2 * m + 1
      <4>1. k # 1 => k \div 2 \in 1 .. n - 1 /\ (k = 2 * (k \div 2) \/ k = 2 * (k \div 2) + 1)
        OBVIOUS
      <4> QED BY <4>1
    <3> HIDE DEF g
    <3> QED BY <3>1, <3>2, <3>3, <3>4
  <2>6. g[0] = <<>>
    BY <2>1
  <2>7. Runs(g)
    <3>1. g = [ k \in 0 .. N |-> g[k] ]
      OBVIOUS
    <3> HIDE DEF g, N
    <3>2. \A k \in 0 .. N : g[k] = IF k = 0 THEN <<>> ELSE WithCorner(g[k - 1], points[k])
      BY <2>1, <2>5, <2>6
    <3> QED BY <3>1, <3>2
  <2>8. PICK h : h = (CHOOSE e : Runs(e)) /\ Runs(h)
    BY <2>7
  <2>9. g[N] = [ i \in 1 .. n |-> AnchorOf(cum[i]) ]
    <3>1. N \div 2 + 1 = n /\ (N + 1) \div 2 = n /\ N \in 0 .. N /\ N # 0
      BY <2>1
    <3>2. g[N] = [ i \in 1 .. n |-> Row(i, n) ]
      BY <3>1
    <3>3. \A i \in 1 .. n : Row(i, n) = AnchorOf(cum[i])
      BY DEF AnchorOf
    <3> HIDE DEF g, Row
    <3> QED BY <3>2, <3>3
  <2>10. h[N] = g[N]
    <3> HIDE DEF g, N
    <3> DEFINE Good == {k \in 0 .. N : h[k] = g[k]}
    <3>1. 0 \in Good
      <4>1. 0 \in 0 .. N
        BY <2>1
      <4>2. h[0] = <<>>
        BY <2>8, <4>1
      <4> QED BY <2>6, <4>1, <4>2
    <3>2. ASSUME NEW k \in 0 .. N - 1, k \in Good
          PROVE  k + 1 \in Good
      <4>1. PICK p \in 1 .. N : p = k + 1 /\ p - 1 = k
        BY <2>1
      <4>2. p \in 0 .. N /\ p # 0
        OBVIOUS
      <4>3. h[p] = WithCorner(h[p - 1], points[p])
        BY <2>8, <4>2
      <4>4. g[p] = WithCorner(g[p - 1], points[p])
        BY <2>5
      <4> QED BY <3>2, <4>1, <4>2, <4>3, <4>4
    <3>3. N \in Good
      <4> HIDE DEF Good
      <4> QED BY <2>1, <3>1, <3>2, UpTo
    <3> QED BY <3>3
  <2> HIDE DEF g, Runs
  <2> QED BY <1>1, <2>4, <2>8, <2>9, <2>10 DEF points
<1> QED BY <1>2, <1>3

\* Of one side of the ladder the last row has the greatest total.
LEMMA TotalIsTheGreatest ==
    ASSUME NEW levels, NEW cum, IsLadderSide(cum, levels)
    PROVE  /\ TotalOf(cum) \in Nat
           /\ \A i \in DOMAIN cum : cum[i].cumQty \in Nat /\ cum[i].cumQty <= TotalOf(cum)
           /\ cum # <<>> => \E i \in DOMAIN cum : cum[i].cumQty = TotalOf(cum)
<1>1. PICK n \in Nat : n = Len(cum) /\ DOMAIN cum = 1 .. n
  <2>1. cum \in Seq(CumLevel)
    BY DEF IsLadderSide
  <2> QED BY <2>1
<1>2. ASSUME NEW i \in DOMAIN cum PROVE cum[i].cumQty \in Nat
  <2>1. cum[i] \in CumLevel
    BY DEF IsLadderSide
  <2> QED BY <2>1 DEF CumLevel
<1>3. CASE n = 0
  <2>1. cum = <<>>
    BY <1>1, <1>3 DEF IsLadderSide
  <2> QED BY <1>1, <1>3, <2>1 DEF TotalOf
<1>4. CASE n # 0
  <2>1. cum # <<>> /\ n \in DOMAIN cum /\ TotalOf(cum) = cum[n].cumQty
    BY <1>1, <1>4 DEF TotalOf, Last
  <2>2. ASSUME NEW i \in DOMAIN cum PROVE cum[i].cumQty <= cum[n].cumQty
    <3>1. CASE i = n
      BY <1>2, <2>1, <3>1
    <3>2. CASE i # n
      <4>1. cum[i].cumQty < cum[n].cumQty
        BY <1>1, <2>1, <3>2 DEF IsLadderSide
      <4> QED BY <1>2, <2>1, <4>1
    <3> QED BY <3>1, <3>2
  <2> QED BY <1>2, <2>1, <2>2
<1> QED BY <1>3, <1>4

\* What is known of the levels of a book.
LEMMA LevelsOfABook ==
    ASSUME NEW b, IsBook(b)
    PROVE  /\ \A i \in DOMAIN b.bids : /\ b.bids[i][1] \in Nat /\ IsOnTick(b.bids[i][1])
                                       /\ b.bids[i][2] > 0
           /\ \A i \in DOMAIN b.asks : /\ b.asks[i][1] \in Nat /\ IsOnTick(b.asks[i][1])
                                       /\ b.asks[i][2] > 0
           /\ IsLadderSide(cumulate(b.bids), b.bids)
           /\ IsLadderSide(cumulate(b.asks), b.asks)
<1>1. b.bids \in Seq(Nat \X Nat) /\ b.asks \in Seq(Nat \X Nat)
  BY DEF IsBook
<1>2. ASSUME NEW i \in DOMAIN b.bids
      PROVE  b.bids[i][1] \in Nat /\ IsOnTick(b.bids[i][1]) /\ b.bids[i][2] > 0
  <2>1. b.bids[i] \in Nat \X Nat
    BY <1>1
  <2> QED BY <2>1 DEF IsBook
<1>3. ASSUME NEW i \in DOMAIN b.asks
      PROVE  b.asks[i][1] \in Nat /\ IsOnTick(b.asks[i][1]) /\ b.asks[i][2] > 0
  <2>1. b.asks[i] \in Nat \X Nat
    BY <1>1
  <2> QED BY <2>1 DEF IsBook
<1>4. IsLadderSide(cumulate(b.bids), b.bids)
  BY <1>1, <1>2, CumulateIsALadderSide
<1>5. IsLadderSide(cumulate(b.asks), b.asks)
  BY <1>1, <1>3, CumulateIsALadderSide
<1> QED BY <1>2, <1>3, <1>4, <1>5

\* The rows of the ladder, and their prices: no two are the same.
RowsOf(b) == cumulate(b.bids) \o cumulate(b.asks)

LEMMA RowsAreTheLevels ==
    ASSUME NEW b, IsBook(b)
    PROVE  /\ RowsOf(b) \in Seq(CumLevel)
           /\ Len(RowsOf(b)) = Len(cumulate(b.bids)) + Len(cumulate(b.asks))
           /\ \A i \in DOMAIN cumulate(b.bids) :
                 i \in DOMAIN RowsOf(b) /\ RowsOf(b)[i] = cumulate(b.bids)[i]
           /\ \A i \in DOMAIN cumulate(b.asks) :
                 /\ i + Len(cumulate(b.bids)) \in DOMAIN RowsOf(b)
                 /\ RowsOf(b)[i + Len(cumulate(b.bids))] = cumulate(b.asks)[i]
           /\ \A i \in DOMAIN RowsOf(b) :
                 \/ /\ i \in DOMAIN b.bids /\ RowsOf(b)[i] = cumulate(b.bids)[i]
                    /\ RowsOf(b)[i].pricePx = b.bids[i][1]
                 \/ \E j \in DOMAIN b.asks :
                       /\ i = j + Len(cumulate(b.bids)) /\ RowsOf(b)[i] = cumulate(b.asks)[j]
                       /\ RowsOf(b)[i].pricePx = b.asks[j][1]
<1>1. PICK B, A : B = cumulate(b.bids) /\ A = cumulate(b.asks)
  OBVIOUS
<1>2. IsLadderSide(B, b.bids) /\ IsLadderSide(A, b.asks)
  BY <1>1, LevelsOfABook
<1>3. B \in Seq(CumLevel) /\ A \in Seq(CumLevel) /\ RowsOf(b) = B \o A
  BY <1>1, <1>2 DEF IsLadderSide, RowsOf
<1>4. PICK m \in Nat, n \in Nat :
         m = Len(B) /\ n = Len(A) /\ DOMAIN B = 1 .. m /\ DOMAIN A = 1 .. n
  BY <1>3
<1>5. PICK rows : rows = B \o A
  OBVIOUS
<1>6. /\ rows \in Seq(CumLevel) /\ Len(rows) = m + n /\ DOMAIN rows = 1 .. m + n
      /\ \A i \in 1 .. m : rows[i] = B[i]
      /\ \A i \in 1 .. n : rows[i + m] = A[i]
  BY <1>3, <1>4, <1>5
<1>7. ASSUME NEW i \in DOMAIN rows
      PROVE  \/ i \in DOMAIN b.bids /\ rows[i] = B[i] /\ rows[i].pricePx = b.bids[i][1]
             \/ \E j \in DOMAIN b.asks : /\ i = j + m /\ rows[i] = A[j]
                                         /\ rows[i].pricePx = b.asks[j][1]
  <2>1. CASE i \in 1 .. m
    BY <1>2, <1>4, <1>6, <2>1 DEF IsLadderSide
  <2>2. CASE i \notin 1 .. m
    <3>1. PICK j \in 1 .. n : i = j + m
      <4>1. i - m \in 1 .. n /\ i = (i - m) + m
        BY <1>6, <2>2
      <4> QED BY <4>1
    <3>2. j \in DOMAIN b.asks /\ A[j].pricePx = b.asks[j][1]
      BY <1>2, <1>4 DEF IsLadderSide
    <3> QED BY <1>6, <3>1, <3>2
  <2> QED BY <2>1, <2>2
<1>8. rows = RowsOf(b)
  BY <1>3, <1>5
<1>9. \A i \in DOMAIN B : i \in DOMAIN rows /\ rows[i] = B[i]
  BY <1>4, <1>6
<1>10. ASSUME NEW i \in DOMAIN A
       PROVE  i + m \in DOMAIN rows /\ rows[i + m] = A[i]
  <2>1. i \in 1 .. n
    BY <1>4
  <2>2. i + m \in 1 .. m + n
    BY <2>1
  <2> QED BY <1>6, <2>1, <2>2
<1> QED BY <1>1, <1>4, <1>6, <1>7, <1>8, <1>9, <1>10

LEMMA PricesOfRowsDiffer ==
    ASSUME NEW b, IsBook(b)
    PROVE  /\ \A i \in DOMAIN RowsOf(b) : RowsOf(b)[i].pricePx \in Nat
           /\ \A i \in DOMAIN RowsOf(b) : IsOnTick(RowsOf(b)[i].pricePx)
           /\ \A i, j \in DOMAIN RowsOf(b) :
                 i # j => RowsOf(b)[i].pricePx # RowsOf(b)[j].pricePx
<1>1. PICK rows, m : rows = RowsOf(b) /\ m = Len(cumulate(b.bids))
  OBVIOUS
<1>2. ASSUME NEW i \in DOMAIN rows
      PROVE  \/ i \in DOMAIN b.bids /\ rows[i].pricePx = b.bids[i][1]
             \/ \E j \in DOMAIN b.asks : i = j + m /\ rows[i].pricePx = b.asks[j][1]
  BY <1>1, RowsAreTheLevels
<1>3. /\ \A i \in DOMAIN b.bids : b.bids[i][1] \in Nat /\ IsOnTick(b.bids[i][1])
      /\ \A i \in DOMAIN b.asks : b.asks[i][1] \in Nat /\ IsOnTick(b.asks[i][1])
  BY LevelsOfABook
<1>4. /\ \A i, j \in DOMAIN b.bids : i < j => b.bids[i][1] > b.bids[j][1]
      /\ \A i, j \in DOMAIN b.asks : i < j => b.asks[i][1] < b.asks[j][1]
      /\ \A i \in DOMAIN b.bids, j \in DOMAIN b.asks : b.bids[i][1] < b.asks[j][1]
      /\ DOMAIN b.bids \subseteq Nat /\ DOMAIN b.asks \subseteq Nat
  BY DEF IsBook
<1>5. ASSUME NEW i \in DOMAIN b.bids, NEW j \in DOMAIN b.bids, i # j
      PROVE  b.bids[i][1] # b.bids[j][1]
  <2>1. i \in Nat /\ j \in Nat
    BY <1>4
  <2>2. i < j \/ j < i
    BY <1>5, <2>1
  <2> QED BY <1>3, <1>4, <2>2
<1>6. ASSUME NEW i \in DOMAIN b.asks, NEW j \in DOMAIN b.asks, i # j
      PROVE  b.asks[i][1] # b.asks[j][1]
  <2>1. i \in Nat /\ j \in Nat
    BY <1>4
  <2>2. i < j \/ j < i
    BY <1>6, <2>1
  <2> QED BY <1>3, <1>4, <2>2
<1>7. ASSUME NEW i \in DOMAIN b.bids, NEW j \in DOMAIN b.asks
      PROVE  b.bids[i][1] # b.asks[j][1]
  BY <1>3, <1>4
<1>8. ASSUME NEW i \in DOMAIN rows, NEW j \in DOMAIN rows, i # j
      PROVE  rows[i].pricePx # rows[j].pricePx
  BY <1>2, <1>5, <1>6, <1>7, <1>8
<1> QED BY <1>1, <1>2, <1>3, <1>8

CurvePoint == [ pricePx : Nat, cumQty : Nat ]

\* The anchors of both sides are the rows of the ladder.
LEMMA AnchorsAreTheRows ==
    ASSUME NEW b, IsBook(b)
    PROVE  Anchors(b) = [ i \in DOMAIN RowsOf(b) |-> AnchorOf(RowsOf(b)[i]) ]
<1>1. PICK B, A : B = cumulate(b.bids) /\ A = cumulate(b.asks)
  OBVIOUS
<1>2. IsLadderSide(B, b.bids) /\ IsLadderSide(A, b.asks)
  BY <1>1, LevelsOfABook
<1>3. /\ \A i \in DOMAIN b.bids : b.bids[i][1] \in Nat
      /\ \A i \in DOMAIN b.asks : b.asks[i][1] \in Nat
      /\ \A i, j \in DOMAIN b.bids : i < j => b.bids[i][1] > b.bids[j][1]
      /\ \A i, j \in DOMAIN b.asks : i < j => b.asks[i][1] < b.asks[j][1]
  BY LevelsOfABook DEF IsBook
<1>4. levelAnchors(stepCorners(B)) = [ i \in DOMAIN B |-> AnchorOf(B[i]) ]
  <2>1. B \in Seq(CumLevel)
    BY <1>2 DEF IsLadderSide
  <2>2. \A i, j \in DOMAIN B : i < j => /\ B[i].cumQty < B[j].cumQty
                                       /\ B[i].pricePx # B[j].pricePx
    BY <1>2, <1>3 DEF IsLadderSide
  <2> QED BY <2>1, <2>2, AnchorsAreTheLevels
<1>5. levelAnchors(stepCorners(A)) = [ i \in DOMAIN A |-> AnchorOf(A[i]) ]
  <2>1. A \in Seq(CumLevel)
    BY <1>2 DEF IsLadderSide
  <2>2. \A i, j \in DOMAIN A : i < j => /\ A[i].cumQty < A[j].cumQty
                                       /\ A[i].pricePx # A[j].pricePx
    BY <1>2, <1>3 DEF IsLadderSide
  <2> QED BY <2>1, <2>2, AnchorsAreTheLevels
<1>6. Anchors(b) = [ i \in DOMAIN B |-> AnchorOf(B[i]) ]
                     \o [ i \in DOMAIN A |-> AnchorOf(A[i]) ]
  BY <1>1, <1>4, <1>5 DEF Anchors, buildDepthCurve
<1>7. B \in Seq(CumLevel) /\ A \in Seq(CumLevel) /\ RowsOf(b) = B \o A
  BY <1>1, <1>2 DEF IsLadderSide, RowsOf
<1>8. PICK m \in Nat, n \in Nat :
         m = Len(B) /\ n = Len(A) /\ DOMAIN B = 1 .. m /\ DOMAIN A = 1 .. n
  BY <1>7
<1>9. PICK S, T, rows, all : /\ S = [ i \in 1 .. m |-> AnchorOf(B[i]) ]
                             /\ T = [ i \in 1 .. n |-> AnchorOf(A[i]) ]
                             /\ rows = B \o A /\ all = S \o T
  OBVIOUS
<1>10. S \in Seq(CurvePoint) /\ Len(S) = m
  <2>1. ASSUME NEW i \in 1 .. m PROVE AnchorOf(B[i]) \in CurvePoint
    <3>1. B[i] \in CumLevel
      BY <1>7, <1>8
    <3> QED BY <3>1 DEF CumLevel, CurvePoint, AnchorOf
  <2>2. \A i \in 1 .. m : S[i] \in CurvePoint
    BY <1>9, <2>1
  <2>3. S = [ i \in 1 .. m |-> S[i] ]
    BY <1>9
  <2> QED BY <2>2, <2>3
<1>11. T \in Seq(CurvePoint) /\ Len(T) = n
  <2>1. ASSUME NEW i \in 1 .. n PROVE AnchorOf(A[i]) \in CurvePoint
    <3>1. A[i] \in CumLevel
      BY <1>7, <1>8
    <3> QED BY <3>1 DEF CumLevel, CurvePoint, AnchorOf
  <2>2. \A i \in 1 .. n : T[i] \in CurvePoint
    BY <1>9, <2>1
  <2>3. T = [ i \in 1 .. n |-> T[i] ]
    BY <1>9
  <2> QED BY <2>2, <2>3
<1>12. all = [ i \in 1 .. m + n |-> IF i <= m THEN S[i] ELSE T[i - m] ]
  BY <1>9, <1>10, <1>11
<1>13. rows = [ i \in 1 .. m + n |-> IF i <= m THEN B[i] ELSE A[i - m] ]
  <2>1. /\ rows \in Seq(CumLevel) /\ Len(rows) = m + n
        /\ \A i \in 1 .. m + n : rows[i] = IF i <= m THEN B[i] ELSE A[i - m]
    BY <1>7, <1>8, <1>9
  <2> QED BY <2>1
<1>14. ASSUME NEW i \in 1 .. m + n
       PROVE  all[i] = AnchorOf(rows[i])
  <2>1. CASE i <= m
    BY <1>9, <1>12, <1>13, <2>1
  <2>2. CASE ~ (i <= m)
    <3>1. i - m \in 1 .. n
      BY <2>2
    <3>2. all[i] = T[i - m] /\ rows[i] = A[i - m]
      BY <1>12, <1>13, <2>2
    <3> QED BY <1>9, <3>1, <3>2
  <2> QED BY <2>1, <2>2
<1>15. DOMAIN rows = 1 .. m + n /\ all = [ i \in 1 .. m + n |-> all[i] ]
  BY <1>12, <1>13
<1>16. all = [ i \in DOMAIN rows |-> AnchorOf(rows[i]) ]
  BY <1>14, <1>15
<1> QED BY <1>6, <1>7, <1>8, <1>9, <1>16

\* Prices, no two of them the same.
AreDistinct(px, n) ==
    px \in [1 .. n -> Nat] /\ \A i, j \in 1 .. n : i # j => px[i] # px[j]

\* Where the price is that comes at each place.
PlacedAt(px, n) ==
    [ p \in 1 .. n |-> CHOOSE i \in 1 .. n :
                          Cardinality({j \in 1 .. n : px[j] <= px[i]}) = p ]

\* Distinct prices, put where their places are, ascend.
LEMMA PlacedPricesAscend ==
    ASSUME NEW n \in Nat, NEW px, AreDistinct(px, n),
           NEW at, at = PlacedAt(px, n)
    PROVE  /\ at \in [1 .. n -> 1 .. n]
           /\ \A p, q \in 1 .. n : p < q => px[at[p]] < px[at[q]]
<1> DEFINE S     == 1 .. n
           ahead == [ i \in S |-> {j \in S : px[j] <= px[i]} ]
           place == [ i \in S |-> Cardinality(ahead[i]) ]
<1>1. IsFiniteSet(S) /\ Cardinality(S) = n
  BY FS_Interval
<1>2. ahead \in [S -> SUBSET S] /\ \A i \in S : i \in ahead[i]
  BY DEF AreDistinct
<1>3. ASSUME NEW i \in S, NEW j \in S, px[i] < px[j]
      PROVE  ahead[i] \subseteq ahead[j] /\ j \notin ahead[i]
  BY <1>3 DEF AreDistinct
<1>4. \A i, j \in S : i # j => \/ ahead[i] \subseteq ahead[j] /\ j \notin ahead[i]
                               \/ ahead[j] \subseteq ahead[i] /\ i \notin ahead[j]
  <2> SUFFICES ASSUME NEW i \in S, NEW j \in S, i # j
               PROVE  \/ ahead[i] \subseteq ahead[j] /\ j \notin ahead[i]
                      \/ ahead[j] \subseteq ahead[i] /\ i \notin ahead[j]
    OBVIOUS
  <2>1. px[i] < px[j] \/ px[j] < px[i]
    BY DEF AreDistinct
  <2> HIDE DEF ahead
  <2> QED BY <1>3, <2>1
<1>5. place = [ i \in S |-> Cardinality(ahead[i]) ]
  OBVIOUS
<1>6. at = [ p \in S |-> CHOOSE i \in S : place[i] = p ]
  <2>1. \A i \in S : place[i] = Cardinality({j \in S : px[j] <= px[i]})
    OBVIOUS
  <2> HIDE DEF place, ahead
  <2> QED BY <2>1 DEF PlacedAt
<1> HIDE DEF S, ahead, place
<1>8. /\ \A i, j \in S : place[i] = place[j] => i = j
      /\ \A p \in 1 .. Cardinality(S) : \E i \in S : place[i] = p
  BY <1>1, <1>2, <1>4, <1>5, PlacesAreTaken
<1>9. \A p \in S : at[p] \in S /\ place[at[p]] = p
  <2> SUFFICES ASSUME NEW p \in S PROVE at[p] \in S /\ place[at[p]] = p
    OBVIOUS
  <2>1. p \in 1 .. Cardinality(S)
    BY <1>1 DEF S
  <2>2. \E i \in S : place[i] = p
    BY <1>8, <2>1
  <2> QED BY <1>6, <2>2
<1>10. ASSUME NEW p \in S, NEW q \in S, p < q
       PROVE  px[at[p]] < px[at[q]]
  <2>0. p \in Nat /\ q \in Nat
    BY DEF S
  <2>1. PICK i, j : i = at[p] /\ j = at[q]
    OBVIOUS
  <2>2. /\ i \in S /\ j \in S /\ place[i] = p /\ place[j] = q
        /\ i # j /\ p # q /\ px[i] \in Nat /\ px[j] \in Nat
    <3>1. i \in S /\ j \in S /\ place[i] = p /\ place[j] = q
      BY <1>9, <2>1
    <3>2. p # q
      BY <1>10, <2>0
    <3>3. px[i] \in Nat /\ px[j] \in Nat
      BY <3>1 DEF S, AreDistinct
    <3> QED BY <3>1, <3>2, <3>3
  <2>3. ~ (px[j] < px[i])
    <3> SUFFICES ASSUME px[j] < px[i] PROVE FALSE
      OBVIOUS
    <3>2. ahead[j] \subseteq ahead[i] /\ ahead[i] \in SUBSET S
      BY <1>2, <1>3, <2>2
    <3>3. place[j] = Cardinality(ahead[j]) /\ place[i] = Cardinality(ahead[i])
      BY <1>5, <2>2
    <3>4. PICK X, Y : X = ahead[j] /\ Y = ahead[i]
      OBVIOUS
    <3>5. IsFiniteSet(Y)
      BY <1>1, <3>2, <3>4, FS_Subset
    <3>6. Cardinality(X) <= Cardinality(Y)
      BY <3>2, <3>4, <3>5, FS_Subset
    <3>7. q <= p
      BY <2>2, <3>3, <3>4, <3>6
    <3> QED BY <1>10, <2>0, <3>7
  <2>4. px[i] # px[j]
    BY <2>2 DEF S, AreDistinct
  <2> QED BY <2>1, <2>2, <2>3, <2>4
<1>11. at \in [1 .. n -> 1 .. n]
  BY <1>6, <1>9 DEF S
<1> QED BY <1>10, <1>11 DEF S

\* Of two prices the one ahead is no further from the point halfway between
\* them than any price that is not between them.
LEMMA HalfwayIsNearest ==
    ASSUME NEW a \in Nat, NEW b \in Nat, NEW c \in Nat
    PROVE  /\ Distance(2 * a, 2 * a) <= Distance(2 * a, 2 * c)
           /\ (b < a /\ (c <= b \/ a <= c)) => Distance(b + a, 2 * a) <= Distance(b + a, 2 * c)
           /\ (a < b /\ (c <= a \/ b <= c)) => Distance(a + b, 2 * a) <= Distance(a + b, 2 * c)
  BY DEF Distance, Greatest

Ascends(px, n) == px \in [1 .. n -> Nat] /\ \A i, j \in 1 .. n : i < j => px[i] < px[j]

\* The edges of band i.
LeftEdge(px, i)     == IF i = 1 THEN 2 * px[1] ELSE px[i - 1] + px[i]
RightEdge(px, n, i) == IF i = n THEN 2 * px[n] ELSE px[i] + px[i + 1]

\* Bands that meet halfway between ascending prices hold what is nearest.
LEMMA BandsHoldTheNearest ==
    ASSUME NEW n \in Nat, NEW px, Ascends(px, n)
    PROVE  /\ \A i \in 1 .. n - 1 : RightEdge(px, n, i) = LeftEdge(px, i + 1)
           /\ \A i, j \in 1 .. n : \A x \in {LeftEdge(px, i), RightEdge(px, n, i)} :
                 Distance(x, 2 * px[i]) <= Distance(x, 2 * px[j])
<1>1. ASSUME NEW i \in 1 .. n - 1 PROVE RightEdge(px, n, i) = LeftEdge(px, i + 1)
  <2>1. PICK k \in 1 .. n : k = i + 1 /\ k # 1 /\ k - 1 = i /\ i \in 1 .. n /\ i # n
    OBVIOUS
  <2>2. /\ RightEdge(px, n, i) = px[i] + px[i + 1]
        /\ LeftEdge(px, k) = px[k - 1] + px[k]
    BY <2>1 DEF LeftEdge, RightEdge
  <2> QED BY <2>1, <2>2
<1>2. ASSUME NEW i \in 1 .. n, NEW j \in 1 .. n
      PROVE  px[i] \in Nat /\ px[j] \in Nat /\ (i < j => px[i] < px[j])
             /\ (i > j => px[i] > px[j])
  BY DEF Ascends
<1>3. ASSUME NEW i \in 1 .. n, NEW j \in 1 .. n
      PROVE  Distance(LeftEdge(px, i), 2 * px[i]) <= Distance(LeftEdge(px, i), 2 * px[j])
  <2>1. PICK a \in Nat, c \in Nat : a = px[i] /\ c = px[j] /\ (i < j => a < c)
                                    /\ (i = j => a = c)
    BY <1>2
  <2>2. CASE i = 1
    <3>1. LeftEdge(px, i) = 2 * a
      BY <2>1, <2>2 DEF LeftEdge
    <3> QED BY <2>1, <3>1, HalfwayIsNearest
  <2>3. CASE i # 1
    <3>1. PICK h \in 1 .. n : h = i - 1 /\ h < i
      BY <2>3
    <3>2. PICK b \in Nat : b = px[h]
      BY <1>2
    <3>3. b < a /\ (j < h => c < b) /\ (j = h => c = b)
      BY <1>2, <2>1, <3>1, <3>2
    <3>4. LeftEdge(px, i) = b + a
      BY <2>1, <2>3, <3>1, <3>2 DEF LeftEdge
    <3>5. j < h \/ j = h \/ j = i \/ i < j
      BY <3>1
    <3>6. c <= b \/ a <= c
      BY <2>1, <3>3, <3>5
    <3>7. Distance(b + a, 2 * a) <= Distance(b + a, 2 * c)
      BY <3>3, <3>6, HalfwayIsNearest
    <3> QED BY <2>1, <3>4, <3>7
  <2> QED BY <2>2, <2>3
<1>4. ASSUME NEW i \in 1 .. n, NEW j \in 1 .. n
      PROVE  Distance(RightEdge(px, n, i), 2 * px[i])
               <= Distance(RightEdge(px, n, i), 2 * px[j])
  <2>1. PICK a \in Nat, c \in Nat : a = px[i] /\ c = px[j] /\ (j < i => c < a)
                                    /\ (i = j => a = c)
    BY <1>2
  <2>2. CASE i = n
    <3>1. RightEdge(px, n, i) = 2 * a
      BY <2>1, <2>2 DEF RightEdge
    <3> QED BY <2>1, <3>1, HalfwayIsNearest
  <2>3. CASE i # n
    <3>1. PICK h \in 1 .. n : h = i + 1 /\ i < h
      BY <2>3
    <3>2. PICK b \in Nat : b = px[h]
      BY <1>2
    <3>3. a < b /\ (h < j => b < c) /\ (j = h => c = b)
      BY <1>2, <2>1, <3>1, <3>2
    <3>4. RightEdge(px, n, i) = a + b
      BY <2>1, <2>3, <3>1, <3>2 DEF RightEdge
    <3>5. h < j \/ j = h \/ j = i \/ j < i
      BY <3>1
    <3>6. c <= a \/ b <= c
      BY <2>1, <3>3, <3>5
    <3>7. Distance(a + b, 2 * a) <= Distance(a + b, 2 * c)
      BY <3>3, <3>6, HalfwayIsNearest
    <3> QED BY <2>1, <3>4, <3>7
  <2> QED BY <2>2, <2>3
<1> QED BY <1>1, <1>3, <1>4

BandsAt(px, n) ==
    [ i \in 1 .. n |->
        [ pricePx |-> px[i], left |-> LeftEdge(px, i), right |-> RightEdge(px, n, i) ] ]

\* The click bands of a book are those of its prices in ascending order.
LEMMA BandsOfABook ==
    ASSUME NEW b, IsBook(b)
    PROVE  \E n \in Nat : \E px : Ascends(px, n) /\ Bands(b) = BandsAt(px, n)
<1>1. PICK rows : rows = RowsOf(b)
  OBVIOUS
<1>2. /\ rows \in Seq(CumLevel)
      /\ \A i \in DOMAIN rows : rows[i].pricePx \in Nat
      /\ \A i, j \in DOMAIN rows : i # j => rows[i].pricePx # rows[j].pricePx
  BY <1>1, RowsAreTheLevels, PricesOfRowsDiffer
<1>3. PICK n \in Nat : n = Len(rows) /\ DOMAIN rows = 1 .. n
  BY <1>2
<1>4. PICK anchors : anchors = Anchors(b)
  OBVIOUS
<1>5. anchors = [ i \in 1 .. n |-> AnchorOf(rows[i]) ]
  BY <1>1, <1>3, <1>4, AnchorsAreTheRows
<1>6. /\ DOMAIN anchors = 1 .. n /\ Len(anchors) = n
      /\ \A i \in 1 .. n : anchors[i].pricePx = rows[i].pricePx
  BY <1>5 DEF AnchorOf
<1> DEFINE px == [ i \in 1 .. n |-> anchors[i].pricePx ]
           at == PlacedAt(px, n)
           sorted == [ p \in 1 .. n |-> anchors[at[p]] ]
           sp == [ p \in 1 .. n |-> px[at[p]] ]
<1>7. AreDistinct(px, n)
  BY <1>2, <1>3, <1>6 DEF AreDistinct
<1>8. at = [ p \in 1 .. n |->
               CHOOSE i \in 1 .. n :
                  Cardinality({j \in 1 .. n : anchors[j].pricePx <= anchors[i].pricePx}) = p ]
  <2>1. \A i \in 1 .. n : px[i] = anchors[i].pricePx
    OBVIOUS
  <2>2. at = [ p \in 1 .. n |-> CHOOSE i \in 1 .. n :
                          Cardinality({j \in 1 .. n : px[j] <= px[i]}) = p ]
    BY DEF PlacedAt
  <2> HIDE DEF px, at
  <2> DEFINE place == [ i \in 1 .. n |-> Cardinality({j \in 1 .. n : px[j] <= px[i]}) ]
  <2>3. ASSUME NEW i \in 1 .. n
        PROVE  {j \in 1 .. n : px[j] <= px[i]}
                 = {j \in 1 .. n : anchors[j].pricePx <= anchors[i].pricePx}
    BY <2>1
  <2>4. \A i \in 1 .. n : place[i] = Cardinality({j \in 1 .. n : px[j] <= px[i]})
    OBVIOUS
  <2>5. \A i \in 1 .. n :
           place[i] = Cardinality({j \in 1 .. n : anchors[j].pricePx <= anchors[i].pricePx})
    BY <2>3, <2>4
  <2> HIDE DEF place
  <2>6. at = [ p \in 1 .. n |-> CHOOSE i \in 1 .. n : place[i] = p ]
    BY <2>2, <2>4
  <2>7. PICK other : other = [ p \in 1 .. n |->
               CHOOSE i \in 1 .. n :
                  Cardinality({j \in 1 .. n : anchors[j].pricePx <= anchors[i].pricePx}) = p ]
    OBVIOUS
  <2>8. other = [ p \in 1 .. n |-> CHOOSE i \in 1 .. n : place[i] = p ]
    BY <2>5, <2>7
  <2> QED BY <2>6, <2>7, <2>8
<1>9. sorted = [ p \in 1 .. n |->
                   anchors[CHOOSE i \in 1 .. n :
                      Cardinality({j \in 1 .. n :
                                     anchors[j].pricePx <= anchors[i].pricePx}) = p] ]
  <2> HIDE DEF at
  <2> QED BY <1>8
<1>10. /\ at \in [1 .. n -> 1 .. n]
       /\ \A p, q \in 1 .. n : p < q => px[at[p]] < px[at[q]]
  <2> HIDE DEF px
  <2> QED BY <1>7, PlacedPricesAscend
<1>11. px \in [1 .. n -> Nat]
  BY <1>7 DEF AreDistinct
<1>12. Ascends(sp, n)
  <2> HIDE DEF px, at
  <2> QED BY <1>10, <1>11 DEF Ascends
<1>13. Bands(b) = [ i \in 1 .. n |->
            [ pricePx |-> sorted[i].pricePx,
              left  |-> IF i = 1 THEN 2 * sorted[1].pricePx
                        ELSE sorted[i - 1].pricePx + sorted[i].pricePx,
              right |-> IF i = n THEN 2 * sorted[n].pricePx
                        ELSE sorted[i].pricePx + sorted[i + 1].pricePx ] ]
  <2> HIDE DEF sorted
  <2> QED BY <1>4, <1>6, <1>9 DEF Bands, BandEdge
<1>14. \A i \in 1 .. n : sorted[i].pricePx = sp[i]
  BY <1>10
<1> HIDE DEF sorted, sp, px, at
<1>15. Bands(b) = BandsAt(sp, n)
  <2>1. ASSUME NEW i \in 1 .. n
        PROVE  /\ sorted[i].pricePx = sp[i]
               /\ (IF i = 1 THEN 2 * sorted[1].pricePx
                   ELSE sorted[i - 1].pricePx + sorted[i].pricePx)
                    = LeftEdge(sp, i)
               /\ (IF i = n THEN 2 * sorted[n].pricePx
                   ELSE sorted[i].pricePx + sorted[i + 1].pricePx)
                    = RightEdge(sp, n, i)
    <3>1. 1 \in 1 .. n /\ n \in 1 .. n /\ (i # 1 => i - 1 \in 1 .. n)
          /\ (i # n => i + 1 \in 1 .. n)
      OBVIOUS
    <3> QED BY <1>14, <3>1 DEF LeftEdge, RightEdge
  <2> QED BY <1>13, <2>1 DEF BandsAt
<1> QED BY <1>12, <1>15

\* A click anywhere takes the nearest level.
LEMMA ClicksSnap ==
    ASSUME IsBook(app.book)
    PROVE  ClicksSnapToTheNearestLevel
<1>1. PICK bands, b : bands = Bands(app.book) /\ b = app.book
  OBVIOUS
<1>2. IsBook(b)
  BY <1>1
<1>3. PICK n \in Nat : \E px : Ascends(px, n) /\ Bands(b) = BandsAt(px, n)
  BY <1>2, BandsOfABook
<1>4. PICK px : Ascends(px, n) /\ bands = BandsAt(px, n)
  BY <1>1, <1>3
<1>5. /\ DOMAIN bands = 1 .. n /\ Len(bands) = n
      /\ \A i \in 1 .. n : /\ bands[i].pricePx = px[i]
                           /\ bands[i].left = LeftEdge(px, i)
                           /\ bands[i].right = RightEdge(px, n, i)
  BY <1>4 DEF BandsAt
<1>6. /\ \A i \in 1 .. n - 1 : RightEdge(px, n, i) = LeftEdge(px, i + 1)
      /\ \A i, j \in 1 .. n : \A x \in {LeftEdge(px, i), RightEdge(px, n, i)} :
            Distance(x, 2 * px[i]) <= Distance(x, 2 * px[j])
  BY <1>4, BandsHoldTheNearest
<1>7. \A i \in 1 .. Len(bands) - 1 : bands[i].right = bands[i + 1].left
  <2> SUFFICES ASSUME NEW i \in 1 .. n - 1 PROVE bands[i].right = bands[i + 1].left
    BY <1>5
  <2>1. i \in 1 .. n /\ i + 1 \in 1 .. n
    OBVIOUS
  <2> QED BY <1>5, <1>6, <2>1
<1>8. \A i, j \in DOMAIN bands : \A x \in {bands[i].left, bands[i].right} :
         Distance(x, 2 * bands[i].pricePx) <= Distance(x, 2 * bands[j].pricePx)
  BY <1>5, <1>6
<1> QED BY <1>1, <1>7, <1>8 DEF ClicksSnapToTheNearestLevel

\* The fullest bar of both sides is full.
LEMMA OneBarIsFull ==
    ASSUME NEW b, IsBook(b), RowsOf(b) # <<>>
    PROVE  Max({RowsOf(b)[i].cumQty : i \in DOMAIN RowsOf(b)}) = buildLadder(b).sharedMax
<1>1. PICK B, A, rows : B = cumulate(b.bids) /\ A = cumulate(b.asks) /\ rows = RowsOf(b)
  OBVIOUS
<1>2. PICK s, t : s = TotalOf(B) /\ t = TotalOf(A)
  OBVIOUS
<1>3. IsLadderSide(B, b.bids) /\ IsLadderSide(A, b.asks)
  BY <1>1, LevelsOfABook
<1>4. /\ s \in Nat /\ \A i \in DOMAIN B : B[i].cumQty \in Nat /\ B[i].cumQty <= s
      /\ B # <<>> => \E i \in DOMAIN B : B[i].cumQty = s
  BY <1>2, <1>3, TotalIsTheGreatest
<1>5. /\ t \in Nat /\ \A i \in DOMAIN A : A[i].cumQty \in Nat /\ A[i].cumQty <= t
      /\ A # <<>> => \E i \in DOMAIN A : A[i].cumQty = t
  BY <1>2, <1>3, TotalIsTheGreatest
<1>6. PICK m : m = Len(B)
  OBVIOUS
<1>7. /\ \A i \in DOMAIN B : i \in DOMAIN rows /\ rows[i] = B[i]
      /\ \A i \in DOMAIN A : i + m \in DOMAIN rows /\ rows[i + m] = A[i]
      /\ \A i \in DOMAIN rows : \/ i \in DOMAIN b.bids /\ rows[i] = B[i]
                                \/ \E j \in DOMAIN b.asks : rows[i] = A[j]
  BY <1>1, <1>6, RowsAreTheLevels
<1>8. DOMAIN b.bids = DOMAIN B /\ DOMAIN b.asks = DOMAIN A
  BY <1>3 DEF IsLadderSide
<1>9. (B = <<>> => s = 0) /\ (A = <<>> => t = 0)
  BY <1>2 DEF TotalOf
<1>10. B # <<>> \/ A # <<>>
  <2> SUFFICES ASSUME B = <<>>, A = <<>> PROVE FALSE
    OBVIOUS
  <2>1. rows = <<>>
    BY <1>1 DEF RowsOf
  <2> QED BY <1>1, <2>1
<1> DEFINE Totals == {rows[i].cumQty : i \in DOMAIN rows}
           top    == IF s >= t THEN s ELSE t
<1>11. ASSUME NEW x \in Totals PROVE x \in Nat /\ x <= top
  <2>1. PICK i \in DOMAIN rows : x = rows[i].cumQty
    OBVIOUS
  <2>2. CASE i \in DOMAIN B /\ rows[i] = B[i]
    BY <1>4, <1>5, <2>1, <2>2
  <2>3. CASE \E j \in DOMAIN A : rows[i] = A[j]
    BY <1>4, <1>5, <2>1, <2>3
  <2> QED BY <1>7, <1>8, <2>2, <2>3
<1>12. top \in Totals
  <2>1. B # <<>> => s \in Totals
    BY <1>4, <1>7
  <2>2. A # <<>> => t \in Totals
    <3> SUFFICES ASSUME A # <<>> PROVE t \in Totals
      OBVIOUS
    <3>1. PICK j \in DOMAIN A : A[j].cumQty = t
      BY <1>5
    <3>2. j + m \in DOMAIN rows /\ rows[j + m].cumQty = t
      BY <1>7, <3>1
    <3> QED BY <3>2
  <2> HIDE DEF Totals
  <2>3. CASE s >= t
    <3>1. B = <<>> => s = t
      BY <1>4, <1>5, <1>9, <2>3
    <3> QED BY <1>10, <2>1, <2>2, <2>3, <3>1
  <2>4. CASE ~ (s >= t)
    <3>1. A # <<>>
      BY <1>4, <1>5, <1>9, <2>4
    <3> QED BY <2>2, <2>4, <3>1
  <2> QED BY <2>3, <2>4
<1> HIDE DEF Totals
<1>13. PICK n \in Nat : n = top
  BY <1>4, <1>5
<1>14. Totals \in SUBSET (0 .. n) /\ Totals # {}
  BY <1>11, <1>12, <1>13
<1>15. Max(Totals) \in Totals /\ top <= Max(Totals)
  BY <1>12, <1>14, MinMaxOf
<1>16. Max(Totals) = top
  BY <1>11, <1>13, <1>15
<1>17. buildLadder(b).sharedMax = top
  BY <1>1, <1>2 DEF buildLadder, Greatest
<1> QED BY <1>1, <1>16, <1>17 DEF Totals

\* The midpoint lies strictly inside the spread, which is a whole number of ticks.
LEMMA MidpointIsInside ==
    ASSUME NEW bid \in Nat, NEW ask \in Nat, IsOnTick(bid), IsOnTick(ask), bid < ask
    PROVE  /\ bid < midpointPx(bid, ask) /\ midpointPx(bid, ask) < ask
           /\ twoSided(bid, ask)
           /\ parsePrice(spreadLabel(bid, ask)) = ((ask - bid) \div TICK) * TICK
<1>1. bid > 0 /\ ask > 0 /\ bid % 100 = 0 /\ ask % 100 = 0
  BY DEF IsOnTick, TICK
<1>2. PICK p \in Nat, q \in Nat : bid = p * 100 /\ ask = q * 100
  <2>1. /\ bid \div 100 \in Nat /\ bid = (bid \div 100) * 100
        /\ ask \div 100 \in Nat /\ ask = (ask \div 100) * 100
    BY <1>1
  <2> QED BY <2>1
<1>3. p < q
  BY <1>2
<1>4. midpointPx(bid, ask) = p * 50 + q * 50
  BY <1>1, <1>2 DEF midpointPx
<1>5. twoSided(bid, ask)
  BY <1>1 DEF twoSided
<1>6. PICK d \in Nat : d = q - p /\ d > 0
  BY <1>3
<1>7. ask - bid = d * 100
  BY <1>2, <1>6
<1>8. PICK px \in Nat : px = d * 100 /\ px > 0 /\ px % 100 = 0 /\ px \div 100 = d
  BY <1>6
<1>9. parsePrice(formatPrice(px)) = px
  BY <1>8, PricesReadBack DEF IsOnTick, TICK
<1>10. spreadLabel(bid, ask) = formatPrice(px)
  BY <1>5, <1>7, <1>8 DEF spreadLabel
<1>11. ((ask - bid) \div TICK) * TICK = px
  BY <1>7, <1>8 DEF TICK
<1> QED BY <1>2, <1>3, <1>4, <1>5, <1>9, <1>10, <1>11

\* What the panels say of one book.
LEMMA PanelsAgree ==
    ASSUME IsTopped(app.book)
    PROVE  PanelsShowOneBook
<1>1. PICK b, B, A, rows : /\ b = app.book /\ rows = RowsOf(b)
                           /\ B = cumulate(b.bids) /\ A = cumulate(b.asks)
  OBVIOUS
<1>2. /\ IsBook(b) /\ b.bestBid = TopOf(b.bids) /\ b.bestAsk = TopOf(b.asks)
  BY <1>1 DEF IsTopped
<1>3. /\ buildLadder(b).bids = B /\ buildLadder(b).asks = A
      /\ buildLadder(b).bids \o buildLadder(b).asks = rows
  BY <1>1 DEF buildLadder, RowsOf
<1>4. IsLadderSide(B, b.bids) /\ IsLadderSide(A, b.asks)
  BY <1>1, <1>2, LevelsOfABook
<1>5. PICK anchors : anchors = Anchors(b)
  OBVIOUS
<1>6. anchors = [ i \in DOMAIN rows |-> AnchorOf(rows[i]) ]
  BY <1>1, <1>2, <1>5, AnchorsAreTheRows
<1>7. [ i \in DOMAIN rows |-> <<rows[i].pricePx, rows[i].cumQty>> ]
        = [ i \in DOMAIN anchors |-> <<anchors[i].pricePx, anchors[i].cumQty>> ]
  BY <1>6 DEF AnchorOf
<1>8. rows # <<>> => Max({rows[i].cumQty : i \in DOMAIN rows}) = buildLadder(b).sharedMax
  BY <1>1, <1>2, OneBarIsFull
<1>9. ASSUME NEW row \in Range(rows)
      PROVE  parsePrice(formatPrice(row.pricePx)) = row.pricePx
  <2>1. PICK i \in DOMAIN rows : row = rows[i]
    BY DEF Range
  <2>2. row.pricePx \in Nat /\ IsOnTick(row.pricePx)
    BY <1>1, <1>2, <2>1, PricesOfRowsDiffer
  <2> QED BY <2>2, PricesReadBack
<1> DEFINE header == deriveHeader(app)
           mid    == midpointPx(b.bestBid, b.bestAsk)
<1>10. /\ header.mid = formatPrice(mid)
       /\ header.spreadTicks = IF twoSided(b.bestBid, b.bestAsk)
                               THEN (b.bestAsk - b.bestBid) \div TICK ELSE NA
  BY <1>1 DEF deriveHeader, midpointLabel
<1> HIDE DEF header
<1>11. B = <<>> <=> b.bids = <<>>
  BY <1>4, <1>2 DEF IsLadderSide, IsBook
<1>12. A = <<>> <=> b.asks = <<>>
  BY <1>4, <1>2 DEF IsLadderSide, IsBook
<1>13. ASSUME B = <<>> \/ A = <<>>
       PROVE  mid = NA /\ header.mid = EMPTY_PRICE /\ header.spreadTicks = NA
  <2>1. b.bestBid = NA \/ b.bestAsk = NA
    BY <1>2, <1>11, <1>12, <1>13 DEF TopOf
  <2>2. mid = NA /\ ~ twoSided(b.bestBid, b.bestAsk)
    BY <2>1 DEF midpointPx, twoSided, NA
  <2>3. formatPrice(NA) = EMPTY_PRICE
    BY DEF formatPrice, NA
  <2> QED BY <1>10, <2>2, <2>3
<1>14. ASSUME B # <<>>, A # <<>>
       PROVE  /\ B[1].pricePx < mid /\ mid < A[1].pricePx
              /\ parsePrice(spreadLabel(b.bestBid, b.bestAsk)) = header.spreadTicks * TICK
  <2>1. 1 \in DOMAIN b.bids /\ 1 \in DOMAIN b.asks
    BY <1>2, <1>11, <1>12, <1>14 DEF IsBook
  <2>2. PICK bid, ask : bid = b.bids[1][1] /\ ask = b.asks[1][1]
    OBVIOUS
  <2>3. b.bestBid = bid /\ b.bestAsk = ask
    BY <1>2, <1>11, <1>12, <1>14, <2>2 DEF TopOf
  <2>4. B[1].pricePx = bid /\ A[1].pricePx = ask
    BY <1>4, <2>1, <2>2 DEF IsLadderSide
  <2>5. bid \in Nat /\ ask \in Nat /\ IsOnTick(bid) /\ IsOnTick(ask)
    BY <1>2, <2>1, <2>2, LevelsOfABook
  <2>6. bid < ask
    BY <1>2, <2>1, <2>2 DEF IsBook
  <2>7. /\ bid < midpointPx(bid, ask) /\ midpointPx(bid, ask) < ask
        /\ twoSided(bid, ask)
        /\ parsePrice(spreadLabel(bid, ask)) = ((ask - bid) \div TICK) * TICK
    BY <2>5, <2>6, MidpointIsInside
  <2> QED BY <1>10, <2>3, <2>4, <2>7
<1>15. ClicksSnapToTheNearestLevel
  BY <1>1, <1>2, ClicksSnap
<1> HIDE DEF mid
<1>16. mid = midpointPx(app.book.bestBid, app.book.bestAsk) /\ header = deriveHeader(app)
  BY <1>1 DEF mid, header
<1> QED
  BY <1>1, <1>3, <1>5, <1>7, <1>8, <1>9, <1>13, <1>14, <1>15, <1>16 DEF PanelsShowOneBook

\* The book on show is one that was published, with its tops, or none yet.
ShownInv == ChartInv /\ IsTopped(app.book)

LEMMA ShownStarts == ViewsInit => ShownInv
<1> SUFFICES ASSUME ViewsInit PROVE ShownInv
  OBVIOUS
<1>1. /\ app.book.bids = <<>> /\ app.book.asks = <<>>
      /\ app.book.bestBid = NA /\ app.book.bestAsk = NA
  BY DEF ViewsInit, initialState, EMPTY_BOOK
<1>2. IsTopped(app.book)
  BY <1>1 DEF IsTopped, IsBook, TopOf
<1> QED BY <1>2, ChartStarts DEF ShownInv

LEMMA ShownInvKept == ShownInv /\ [ViewsNext]_viewVars => ShownInv'
<1> SUFFICES ASSUME ShownInv, [ViewsNext]_viewVars PROVE ShownInv'
  OBVIOUS
<1>0. ChartInv'
  BY ChartInvKept DEF ShownInv
<1>1. CASE UNCHANGED <<app, frames, latest>>
  BY <1>0, <1>1 DEF ShownInv
<1>2. ASSUME NEW frame, Coming(frame, app, latest, latest'), app' = reduceFrame(app, frame)
      PROVE  ShownInv'
  <2>1. PICK a, next : a = app /\ next = reduceFrame(app, frame)
    OBVIOUS
  <2>2. IsApp(a) /\ IsTopped(a.book)
    BY <2>1 DEF ShownInv, ChartInv, OnTape
  <2>3. \/ /\ IsTopped(frame)
           /\ next.book.bids = frame.bids /\ next.book.asks = frame.asks
           /\ next.book.bestBid = frame.bestBid /\ next.book.bestAsk = frame.bestAsk
        \/ next.book = a.book
    BY <1>2, <2>1, <2>2, BookEffect, FixEffect, ExecEffect DEF Coming
  <2>4. IsTopped(next.book)
    BY <2>2, <2>3 DEF IsTopped, IsBook
  <2> QED BY <1>0, <1>2, <2>1, <2>4 DEF ShownInv
<1> QED BY <1>1, <1>2, FramesMoveTheState DEF ShownInv, MovesOn

(***************************************************************************)
(* The ladder, the depth curve and the header show one book: the curve's   *)
(* anchors are the ladder's rows with their totals, one bar is full and    *)
(* none overflows, the midpoint lies strictly inside the spread, a click   *)
(* on the curve takes the nearest level, and a price that is read off a    *)
(* row and typed is that price (depth.ts, DepthCurve, DepthLadder, Header).*)
(***************************************************************************)
THEOREM ThePanelsAgree == ViewsSpec => []PanelsShowOneBook
<1>1. ShownInv => PanelsShowOneBook
  BY PanelsAgree DEF ShownInv
<1> QED BY <1>1, ShownStarts, ShownInvKept, PTL DEF ViewsSpec
=============================================================================
