----------------------------- MODULE PageProofs -----------------------------
(***************************************************************************)
(* The client's page, for every server, every number of mounts, failures   *)
(* and orders: one live connection, a status that is true, orders that are *)
(* acceptable, rows that are the written orders, ids as shown.             *)
(***************************************************************************)
EXTENDS OrderTicket, ClientTheorems, FiniteSetTheorems

Run(n)    == [ disposed : BOOLEAN, socket : 0 .. n, delay : 0 .. MAX_BACKOFF_MS,
               attempt : Nat ]
Socket(n) == [ readyState : ReadyStates, attached : BOOLEAN, effect : 1 .. n ]

SocketsTyped == sockets \in Seq(Socket(Len(effects))) /\ socketRef \in 0 .. Len(sockets)
EffectsTyped == effects \in Seq(Run(Len(sockets)))

OldRunsAreDisposed ==
    \A e \in DOMAIN effects : e # Len(effects) => effects[e].disposed

DetachedAreClosing ==
    \A s \in DOMAIN sockets :
        ~ sockets[s].attached => sockets[s].readyState \in {"CLOSING", "CLOSED"}

NoneAttached == \A s \in DOMAIN sockets : ~ sockets[s].attached
NoTimer      == \A e \in DOMAIN effects : effects[e].delay = 0

\* The three situations the socket's life can be in.
Away == ~ Mounted /\ NoneAttached /\ NoTimer /\ socketRef = 0

Connected ==
    /\ Mounted /\ NoTimer /\ socketRef \in DOMAIN sockets
    /\ \A s \in DOMAIN sockets : sockets[s].attached <=> s = socketRef
    /\ sockets[socketRef].effect = Len(effects)
    /\ effects[Len(effects)].socket = socketRef
    /\ sockets[socketRef].readyState # "CLOSED"
    /\ app.connection = "open" <=> sockets[socketRef].readyState # "CONNECTING"

Waiting ==
    /\ Mounted /\ NoneAttached /\ socketRef = 0
    /\ \A e \in DOMAIN effects : effects[e].delay = 0 <=> e # Len(effects)
    /\ effects[Len(effects)].socket = 0
    /\ app.connection # "open"

ConnInv == OldRunsAreDisposed /\ DetachedAreClosing /\ (Away \/ Connected \/ Waiting)

PartTyped == SocketsTyped /\ EffectsTyped /\ app \in AppState

-----------------------------------------------------------------------------
\* A delay can be none or a backoff.
LEMMA DelayRange ==
    /\ MAX_BACKOFF_MS \in Nat /\ 0 \in 0 .. MAX_BACKOFF_MS
    /\ \A a \in Nat : Backoff(a) \in 0 .. MAX_BACKOFF_MS /\ Backoff(a) # 0
<1>1. MAX_BACKOFF_MS \in Nat /\ 2000 <= MAX_BACKOFF_MS /\ MAX_BACKOFF_MS > 0
  BY DEF MAX_BACKOFF_MS
<1>2. ASSUME NEW a \in Nat, a < 4
      PROVE  Backoff(a) \in Nat /\ Backoff(a) # 0 /\ Backoff(a) <= 2000
  <2>1. a = 0 \/ a = 1 \/ a = 2 \/ a = 3
    BY <1>2
  <2> QED
    BY <1>2, <2>1 DEF Backoff
<1>3. ASSUME NEW a \in Nat, ~ (a < 4)
      PROVE  Backoff(a) = MAX_BACKOFF_MS
  BY <1>3 DEF Backoff
<1> QED
  BY <1>1, <1>2, <1>3

\* A sequence whose elements are in T is a sequence of T.
LEMMA SeqOf ==
    ASSUME NEW S, NEW T, NEW seq \in Seq(S), \A i \in 1 .. Len(seq) : seq[i] \in T
    PROVE  seq \in Seq(T)
OBVIOUS

\* A function on 1 .. n is a sequence.
LEMMA FunctionIsSeq ==
    ASSUME NEW T, NEW n \in Nat, NEW f, f = [i \in 1 .. n |-> f[i]],
           \A i \in 1 .. n : f[i] \in T
    PROVE  f \in Seq(T) /\ Len(f) = n
OBVIOUS

\* A sequence with one element replaced.
LEMMA SeqExcept ==
    ASSUME NEW T, NEW seq \in Seq(T), NEW i \in DOMAIN seq, NEW x \in T,
           NEW f, f = [seq EXCEPT ![i] = x]
    PROVE  /\ f \in Seq(T) /\ Len(f) = Len(seq) /\ DOMAIN f = DOMAIN seq
           /\ f[i] = x /\ \A j \in DOMAIN seq : j # i => f[j] = seq[j]
<1>1. DOMAIN seq = 1 .. Len(seq) /\ Len(seq) \in Nat
  OBVIOUS
<1>2. /\ f = [j \in DOMAIN seq |-> f[j]] /\ DOMAIN f = DOMAIN seq
      /\ f[i] = x /\ \A j \in DOMAIN seq : j # i => f[j] = seq[j]
  OBVIOUS
<1>3. \A j \in DOMAIN seq : f[j] \in T
  BY <1>2
<1> QED
  BY <1>1, <1>2, <1>3, FunctionIsSeq

\* connect() for a run that is not disposed of leads to Connected.
LEMMA Connects ==
    ASSUME PartTyped, NEW runs \in Seq(Run(Len(sockets))), runs # <<>>,
           Len(runs) >= Len(effects),
           ~ runs[Len(runs)].disposed,
           \A e \in DOMAIN runs : e # Len(runs) => runs[e].disposed,
           \A e \in DOMAIN runs : runs[e].delay = 0,
           NoneAttached, DetachedAreClosing,
           Connect(Len(runs), runs)
    PROVE  PartTyped' /\ ConnInv'
<1> DEFINE n == Len(runs)
           m == Len(sockets) + 1
           status == IF runs[n].attempt = 0 THEN "connecting" ELSE "reconnecting"
<1>1. n \in Nat \ {0} /\ m \in Nat \ {0} /\ n \in DOMAIN runs
  BY DEF PartTyped, SocketsTyped
<1>2. /\ app' = reduceConnection(app, status)
      /\ sockets' = Append(sockets, NewSocket(n))
      /\ socketRef' = m
      /\ effects' = [runs EXCEPT ![n].socket = m]
  BY DEF Connect, Dispatch
<1>3. app' \in AppState /\ app'.connection = status /\ status # "open"
  BY <1>2, ConnectionKeepsTheRest DEF PartTyped, ConnectionStatuses
<1>4. /\ Len(effects') = n /\ DOMAIN effects' = DOMAIN runs
      /\ \A e \in DOMAIN effects' :
            /\ effects'[e].disposed = runs[e].disposed
            /\ effects'[e].delay = 0
            /\ effects'[e] \in Run(m)
      /\ effects'[n].socket = m
      /\ effects' \in Seq(Run(m))
  <2>1. ASSUME NEW e \in DOMAIN runs
        PROVE  /\ effects'[e].disposed = runs[e].disposed
               /\ effects'[e].delay = 0
               /\ effects'[e] \in Run(m)
    <3>1. runs[e] \in Run(Len(sockets)) /\ runs[e].delay = 0
      OBVIOUS
    <3>2. 0 .. Len(sockets) \subseteq 0 .. m /\ m \in 0 .. m
      BY <1>1
    <3>3. effects'[e] = IF e = n THEN [runs[e] EXCEPT !.socket = m] ELSE runs[e]
      BY <1>2
    <3> DEFINE run == runs[e]
               new == [run EXCEPT !.socket = m]
    <3> HIDE DEF m
    <3>4. \A k \in 0 .. Len(sockets) : k \in 0 .. m
      BY <3>2
    <3> HIDE DEF run
    <3>5. run \in Run(Len(sockets)) /\ run.delay = 0
      BY <3>1 DEF run
    <3>6. run \in Run(m)
      BY <3>4, <3>5 DEF Run
    <3>7. new \in Run(m) /\ new.disposed = run.disposed /\ new.delay = run.delay
      BY <3>2, <3>6 DEF Run
    <3> QED
      BY <3>3, <3>5, <3>6, <3>7 DEF run
  <2>2. /\ Len(effects') = n /\ DOMAIN effects' = DOMAIN runs
        /\ effects' = [e \in DOMAIN runs |-> effects'[e]]
    <3>1. DOMAIN effects' = DOMAIN runs /\ effects' = [e \in DOMAIN runs |-> effects'[e]]
      BY <1>2, Zenon
    <3>2. DOMAIN runs = 1 .. n /\ n \in Nat
      OBVIOUS
    <3>3. Len(effects') = n
      BY <3>1, <3>2
    <3> QED
      BY <3>1, <3>3
  <2>3. effects'[n].socket = m
    <3>1. runs[n] \in Run(Len(sockets)) /\ effects'[n] = [runs[n] EXCEPT !.socket = m]
      BY <1>1, <1>2
    <3> QED
      BY <3>1 DEF Run
  <2>4. DOMAIN runs = 1 .. n
    OBVIOUS
  <2> HIDE DEF n, m
  <2>5. effects' \in Seq(Run(m))
    <3>1. n \in Nat /\ effects' = [e \in 1 .. n |-> effects'[e]]
      BY <1>1, <2>2, <2>4
    <3>2. \A e \in 1 .. n : effects'[e] \in Run(m)
      BY <2>1, <2>4
    <3> QED
      BY <3>1, <3>2, FunctionIsSeq
  <2> QED
    BY <2>1, <2>2, <2>3, <2>5
<1>5. /\ Len(sockets') = m /\ DOMAIN sockets' = 1 .. m
      /\ sockets'[m] = NewSocket(n)
      /\ \A s \in DOMAIN sockets : s # m /\ sockets'[s] = sockets[s]
      /\ \A s \in DOMAIN sockets' : s = m \/ s \in DOMAIN sockets
      /\ sockets' \in Seq(Socket(n))
  <2>1. NewSocket(n) \in Socket(n)
    BY <1>1 DEF NewSocket, Socket, ReadyStates
  <2>2. sockets \in Seq(Socket(n))
    <3>1. \A i \in 1 .. Len(sockets) : sockets[i] \in Socket(n)
      <4>1. Len(effects) \in Nat /\ 1 .. Len(effects) \subseteq 1 .. n
        BY DEF PartTyped, EffectsTyped
      <4>2. \A t \in Socket(Len(effects)) : t \in Socket(n)
        BY <4>1 DEF Socket
      <4> QED
        BY <4>2 DEF PartTyped, SocketsTyped
    <3> QED
      BY <3>1, SeqOf DEF PartTyped, SocketsTyped
  <2> QED
    BY <1>2, <2>1, <2>2
<1> HIDE DEF n, m, status
<1>6. PartTyped'
  BY <1>1, <1>2, <1>3, <1>4, <1>5 DEF PartTyped, SocketsTyped, EffectsTyped
<1>7. OldRunsAreDisposed'
  BY <1>4 DEF OldRunsAreDisposed, n
<1>8. DetachedAreClosing'
  BY <1>5 DEF DetachedAreClosing, NewSocket
<1>9. Connected'
  <2>1. Mounted'
    BY <1>1, <1>4 DEF Mounted, n
  <2>2. \A s \in DOMAIN sockets' : sockets'[s].attached <=> s = socketRef'
    BY <1>2, <1>5 DEF NewSocket, NoneAttached
  <2>3. /\ socketRef' \in DOMAIN sockets'
        /\ sockets'[socketRef'].effect = Len(effects')
        /\ effects'[Len(effects')].socket = socketRef'
        /\ sockets'[socketRef'].readyState = "CONNECTING"
    BY <1>1, <1>2, <1>4, <1>5 DEF NewSocket
  <2>4. NoTimer'
    BY <1>4 DEF NoTimer
  <2> QED
    BY <1>3, <2>1, <2>2, <2>3, <2>4 DEF Connected
<1> QED
  BY <1>6, <1>7, <1>8, <1>9 DEF ConnInv

-----------------------------------------------------------------------------
(***************************************************************************)
(* One lemma per action of the socket.                                     *)
(***************************************************************************)
\* A step that changes neither the sockets nor the status.
LEMMA OnlyTheAppMoves ==
    ASSUME PartTyped, ConnInv, UNCHANGED <<sockets, socketRef, effects>>,
           app' \in AppState, app'.connection = app.connection
    PROVE  PartTyped' /\ ConnInv'
BY DEF PartTyped, SocketsTyped, EffectsTyped, ConnInv, OldRunsAreDisposed,
       DetachedAreClosing, NoneAttached, NoTimer, Away, Connected, Waiting, Mounted

\* What a change of one socket's ready state leaves.
LEMMA ReadyStateMoves ==
    ASSUME PartTyped, NEW s \in DOMAIN sockets, NEW r \in ReadyStates,
           NEW a \in BOOLEAN,
           \/ sockets' = [sockets EXCEPT ![s].attached = a, ![s].readyState = r]
           \/ /\ sockets' = [sockets EXCEPT ![s].readyState = r]
              /\ a = sockets[s].attached
    PROVE  /\ sockets' \in Seq(Socket(Len(effects))) /\ Len(sockets') = Len(sockets)
           /\ DOMAIN sockets' = DOMAIN sockets
           /\ sockets'[s].readyState = r /\ sockets'[s].attached = a
           /\ sockets'[s].effect = sockets[s].effect
           /\ \A t \in DOMAIN sockets : t # s => sockets'[t] = sockets[t]
<1> DEFINE new == [sockets[s] EXCEPT !.attached = a, !.readyState = r]
<1>1. sockets \in Seq(Socket(Len(effects))) /\ sockets[s] \in Socket(Len(effects))
  BY DEF PartTyped, SocketsTyped
<1>2. sockets' = [sockets EXCEPT ![s] = new]
  <2>1. CASE sockets' = [sockets EXCEPT ![s].attached = a, ![s].readyState = r]
    BY <1>1, <2>1
  <2>2. CASE /\ sockets' = [sockets EXCEPT ![s].readyState = r]
             /\ a = sockets[s].attached
    <3>1. new = [sockets[s] EXCEPT !.readyState = r]
      BY <1>1, <2>2 DEF Socket
    <3> QED
      BY <1>1, <2>2, <3>1
  <2> QED
    BY <2>1, <2>2
<1>3. /\ new \in Socket(Len(effects)) /\ new.readyState = r /\ new.attached = a
      /\ new.effect = sockets[s].effect
  BY <1>1 DEF Socket
<1> DEFINE T == Socket(Len(effects))
<1> HIDE DEF new, T
<1>4. sockets \in Seq(T) /\ new \in T
  BY <1>1, <1>3 DEF T
<1>5. /\ sockets' \in Seq(T) /\ Len(sockets') = Len(sockets)
      /\ DOMAIN sockets' = DOMAIN sockets /\ sockets'[s] = new
      /\ \A t \in DOMAIN sockets : t # s => sockets'[t] = sockets[t]
  <2>1. s \in DOMAIN sockets
    OBVIOUS
  <2> QED
    BY ONLY <1>2, <1>4, <2>1, SeqExcept
<1> QED
  BY <1>3, <1>5 DEF T

\* A page that mounts has nothing left of the run before.
LEMMA MountKeeps ==
    ASSUME PartTyped, ConnInv, Mount
    PROVE  PartTyped' /\ ConnInv'
<1> DEFINE new  == [ disposed |-> FALSE, socket |-> 0, delay |-> 0, attempt |-> 0 ]
           runs == Append(effects, new)
<1>1. effects \in Seq(Run(Len(sockets))) /\ Len(sockets) \in Nat
  BY DEF PartTyped, SocketsTyped, EffectsTyped
<1>2. new \in Run(Len(sockets))
  BY <1>1, DelayRange DEF Run
<1>3. /\ runs \in Seq(Run(Len(sockets))) /\ Len(runs) = Len(effects) + 1
      /\ runs # <<>> /\ runs[Len(runs)] = new
      /\ DOMAIN runs = 1 .. Len(runs)
      /\ \A e \in DOMAIN effects : runs[e] = effects[e]
  BY <1>1, <1>2
<1>4. Away
  BY DEF ConnInv, Connected, Waiting, Mount
<1>5. \A e \in DOMAIN effects : effects[e].disposed /\ effects[e].delay = 0
  BY <1>1, <1>4 DEF Away, Mounted, NoTimer, ConnInv, OldRunsAreDisposed
<1> HIDE DEF runs
<1>6. \A e \in DOMAIN runs : e = Len(runs) \/ e \in DOMAIN effects
  BY <1>1, <1>3
<1>7. Connect(Len(runs), runs)
  BY <1>3 DEF Mount, runs
<1>8. /\ \A e \in DOMAIN runs : e # Len(runs) => runs[e].disposed
      /\ \A e \in DOMAIN runs : runs[e].delay = 0
      /\ ~ runs[Len(runs)].disposed
  BY <1>3, <1>5, <1>6
<1>9. NoneAttached /\ DetachedAreClosing /\ Len(runs) >= Len(effects)
  BY <1>1, <1>3, <1>4 DEF Away, ConnInv
<1> QED
  BY <1>3, <1>7, <1>8, <1>9, Connects

\* The cleanup detaches the one socket and clears the one timer there can be.
LEMMA UnmountKeeps ==
    ASSUME PartTyped, ConnInv, Unmount
    PROVE  PartTyped' /\ ConnInv'
<1> DEFINE n == Len(effects)
<1>1. /\ effects \in Seq(Run(Len(sockets))) /\ Len(sockets) \in Nat
      /\ sockets \in Seq(Socket(n)) /\ n \in Nat \ {0} /\ n \in DOMAIN effects
      /\ app' = app
  BY DEF PartTyped, SocketsTyped, EffectsTyped, Unmount, Mounted
<1>2. /\ effects' = [effects EXCEPT ![n].disposed = TRUE, ![n].delay = 0]
      /\ socketRef' = 0
      /\ DOMAIN sockets' = DOMAIN sockets
      /\ sockets' = [s \in DOMAIN sockets |-> sockets'[s]]
      /\ \A s \in DOMAIN sockets :
            sockets'[s] = IF s = effects[n].socket
                          THEN [sockets[s] EXCEPT !.attached = FALSE,
                                   !.readyState = IF @ = "CLOSED" THEN @ ELSE "CLOSING"]
                          ELSE sockets[s]
  BY DEF Unmount, Cleanup
<1>3. ASSUME NEW s \in DOMAIN sockets
      PROVE  /\ sockets'[s] \in Socket(n)
             /\ s = effects[n].socket =>
                   /\ ~ sockets'[s].attached
                   /\ sockets'[s].readyState \in {"CLOSING", "CLOSED"}
  <2>1. sockets[s] \in Socket(n)
    BY <1>1
  <2> DEFINE r == IF sockets[s].readyState = "CLOSED" THEN "CLOSED" ELSE "CLOSING"
  <2>2. CASE s = effects[n].socket
    <3>1. sockets'[s] = [sockets[s] EXCEPT !.attached = FALSE, !.readyState = r]
      BY <1>2, <2>1, <2>2 DEF Socket
    <3>2. r \in {"CLOSING", "CLOSED"}
      OBVIOUS
    <3> HIDE DEF r
    <3> QED
      BY <2>1, <3>1, <3>2 DEF Socket, ReadyStates
  <2>3. CASE s # effects[n].socket
    BY <1>2, <2>1, <2>3
  <2> QED
    BY <2>2, <2>3
<1>4. /\ sockets' \in Seq(Socket(n)) /\ Len(sockets') = Len(sockets)
  <2>1. DOMAIN sockets = 1 .. Len(sockets)
    BY <1>1
  <2>2. sockets' = [s \in 1 .. Len(sockets) |-> sockets'[s]]
    BY <1>2, <2>1
  <2>3. \A s \in 1 .. Len(sockets) : sockets'[s] \in Socket(n)
    BY <1>3, <2>1
  <2> QED
    BY <1>1, <2>2, <2>3, FunctionIsSeq
<1>5. /\ effects' \in Seq(Run(Len(sockets))) /\ Len(effects') = n
      /\ DOMAIN effects' = DOMAIN effects
      /\ effects'[n].disposed /\ effects'[n].delay = 0
      /\ \A e \in DOMAIN effects : e # n => effects'[e] = effects[e]
  <2> DEFINE old == [effects[n] EXCEPT !.disposed = TRUE, !.delay = 0]
  <2>1. effects[n] \in Run(Len(sockets))
    BY <1>1
  <2>2. old \in Run(Len(sockets)) /\ old.disposed /\ old.delay = 0
    BY <2>1, DelayRange DEF Run
  <2>3. effects' = [effects EXCEPT ![n] = old]
    BY <1>1, <1>2, <2>1
  <2> HIDE DEF old
  <2> QED
    BY <1>1, <2>2, <2>3, SeqExcept
<1> HIDE DEF n
<1>6. PartTyped'
  <2>1. SocketsTyped'
    <3>1. sockets' \in Seq(Socket(Len(effects')))
      BY <1>4, <1>5
    <3>2. socketRef' \in 0 .. Len(sockets')
      <4>1. socketRef' = 0 /\ Len(sockets') \in Nat
        BY <1>1, <1>2, <1>4
      <4> QED
        BY <4>1
    <3> QED
      BY <3>1, <3>2 DEF SocketsTyped
  <2>2. EffectsTyped'
    BY <1>4, <1>5 DEF EffectsTyped
  <2> QED
    BY <1>1, <2>1, <2>2 DEF PartTyped
<1>7. OldRunsAreDisposed' /\ ~ Mounted'
  BY <1>1, <1>5 DEF OldRunsAreDisposed, Mounted, ConnInv, n
<1>8. DetachedAreClosing'
  BY <1>2, <1>3 DEF DetachedAreClosing, ConnInv
<1>9. NoneAttached' /\ NoTimer'
  <2>1. CASE Connected
    <3>1. NoneAttached'
      BY <1>2, <1>3, <2>1 DEF Connected, NoneAttached, n
    <3>2. NoTimer'
      BY <1>5, <2>1 DEF Connected, NoTimer
    <3> QED
      BY <3>1, <3>2
  <2>2. CASE Waiting
    <3>1. NoneAttached'
      BY <1>2, <1>3, <2>2 DEF Waiting, NoneAttached
    <3>2. ASSUME NEW e \in DOMAIN effects, e # n
          PROVE  effects[e].delay = 0
      BY <2>2, <3>2 DEF Waiting, n
    <3>3. NoTimer'
      BY <1>5, <3>2 DEF NoTimer
    <3> QED
      BY <3>1, <3>3
  <2> QED
    BY <2>1, <2>2 DEF ConnInv, Away, Unmount
<1> QED
  BY <1>2, <1>6, <1>7, <1>8, <1>9 DEF ConnInv, Away

\* The timer of the run that is waiting is the one that can fire.
LEMMA TimerKeeps ==
    ASSUME PartTyped, ConnInv, NEW e \in DOMAIN effects, TimerFires(e)
    PROVE  PartTyped' /\ ConnInv'
<1> DEFINE new  == [effects[e] EXCEPT !.delay = 0]
           runs == [effects EXCEPT ![e].delay = 0]
           R    == Run(Len(sockets))
<1>1. effects \in Seq(R) /\ effects[e] \in R /\ Len(effects) \in Nat
  BY DEF PartTyped, EffectsTyped
<1>2. effects[e].delay # 0
  BY DEF TimerFires
<1>3. Waiting /\ e = Len(effects)
  BY <1>2 DEF ConnInv, Away, Connected, Waiting, NoTimer
<1>4. new \in R /\ new.delay = 0 /\ new.disposed = effects[e].disposed
  BY <1>1, DelayRange DEF Run
<1>5. runs = [effects EXCEPT ![e] = new]
  BY <1>1
<1> HIDE DEF new, runs, R
<1>6. /\ runs \in Seq(R) /\ Len(runs) = Len(effects) /\ DOMAIN runs = DOMAIN effects
      /\ runs[e] = new /\ \A d \in DOMAIN effects : d # e => runs[d] = effects[d]
  BY <1>1, <1>4, <1>5, SeqExcept
<1>7. \A d \in DOMAIN runs : runs[d].delay = 0
  BY <1>3, <1>4, <1>6 DEF Waiting
<1>8. /\ \A d \in DOMAIN runs : d # Len(runs) => runs[d].disposed
      /\ ~ runs[Len(runs)].disposed
  BY <1>3, <1>4, <1>6 DEF Waiting, Mounted, ConnInv, OldRunsAreDisposed
<1>9. runs # <<>> /\ Len(runs) >= Len(effects)
  BY <1>1, <1>6
<1>10. NoneAttached /\ DetachedAreClosing
  BY <1>3 DEF Waiting, ConnInv
<1>11. Connect(Len(runs), runs)
  BY <1>3, <1>6 DEF TimerFires, runs
<1> QED
  BY <1>6, <1>7, <1>8, <1>9, <1>10, <1>11, Connects DEF R

\* A socket that is not on its way out is the live one, and a handler runs.
LEMMA LiveSocket ==
    ASSUME PartTyped, ConnInv, NEW s \in DOMAIN sockets,
           sockets[s].attached \/ sockets[s].readyState \in {"CONNECTING", "OPEN"}
    PROVE  /\ Connected /\ s = socketRef /\ sockets[s].attached
           /\ sockets[s].effect = Len(effects) /\ IsHandled(s)
<1>1. sockets[s].attached
  BY DEF ConnInv, DetachedAreClosing
<1>2. Connected
  BY <1>1 DEF ConnInv, Away, Waiting, NoneAttached
<1>3. s = socketRef /\ sockets[s].effect = Len(effects)
  BY <1>1, <1>2 DEF Connected
<1> QED
  BY <1>1, <1>2, <1>3 DEF IsHandled, Connected, Mounted

\* Whether a socket has handlers is a truth value.
LEMMA AttachedIsBoolean ==
    ASSUME PartTyped, NEW s \in DOMAIN sockets
    PROVE  sockets[s].attached \in BOOLEAN
<1>1. sockets[s] \in Socket(Len(effects))
  BY DEF PartTyped, SocketsTyped
<1> DEFINE socket == sockets[s]
<1> HIDE DEF socket
<1>2. socket \in Socket(Len(effects))
  BY <1>1 DEF socket
<1>3. socket.attached \in BOOLEAN
  BY <1>2, Zenon DEF Socket
<1> QED
  BY <1>3 DEF socket

\* The live socket opens, and the page says so.
LEMMA OpenKeeps ==
    ASSUME PartTyped, ConnInv, NEW s \in DOMAIN sockets, SocketOpens(s)
    PROVE  PartTyped' /\ ConnInv' /\ app' # app
<1> DEFINE e   == Len(effects)
           new == [effects[e] EXCEPT !.attempt = 0]
           R   == Run(Len(sockets))
<1>1. /\ Connected /\ s = socketRef /\ sockets[s].attached
      /\ sockets[s].effect = e /\ IsHandled(s) /\ sockets[s].readyState = "CONNECTING"
  BY LiveSocket DEF SocketOpens
<1>2. /\ sockets' = [sockets EXCEPT ![s].readyState = "OPEN"]
      /\ effects' = [effects EXCEPT ![e].attempt = 0]
      /\ app' = reduceConnection(app, "open") /\ socketRef' = socketRef
  BY <1>1 DEF SocketOpens, BecomesReady, Opened, Dispatch
<1>3. app' \in AppState /\ app'.connection = "open"
  BY <1>2, ConnectionKeepsTheRest DEF PartTyped, ConnectionStatuses
<1>4. effects \in Seq(R) /\ e \in DOMAIN effects /\ effects[e] \in R
  BY <1>1 DEF PartTyped, EffectsTyped, Connected, Mounted
<1>5. new \in R /\ \A f \in {"delay", "disposed", "socket"} : new[f] = effects[e][f]
  BY <1>4 DEF Run
<1>6. effects' = [effects EXCEPT ![e] = new]
  BY <1>2, <1>4
<1> HIDE DEF new, R
<1>7. /\ effects' \in Seq(R) /\ Len(effects') = Len(effects)
      /\ DOMAIN effects' = DOMAIN effects /\ effects'[e] = new
      /\ \A d \in DOMAIN effects : d # e => effects'[d] = effects[d]
  BY <1>4, <1>5, <1>6, SeqExcept
<1>8. sockets[s].attached \in BOOLEAN
  BY AttachedIsBoolean
<1>9. /\ sockets' \in Seq(Socket(Len(effects))) /\ Len(sockets') = Len(sockets)
      /\ DOMAIN sockets' = DOMAIN sockets
      /\ sockets'[s].readyState = "OPEN" /\ sockets'[s].attached = sockets[s].attached
      /\ sockets'[s].effect = sockets[s].effect
      /\ \A t \in DOMAIN sockets : t # s => sockets'[t] = sockets[t]
  BY <1>2, <1>8, ReadyStateMoves DEF ReadyStates
<1>10. PartTyped'
  BY <1>2, <1>3, <1>7, <1>9 DEF PartTyped, SocketsTyped, EffectsTyped, R
<1>11. OldRunsAreDisposed' /\ DetachedAreClosing'
  BY <1>1, <1>7, <1>9 DEF OldRunsAreDisposed, DetachedAreClosing, ConnInv
<1>12. Connected'
  <2>1. Mounted' /\ NoTimer'
    BY <1>1, <1>4, <1>5, <1>7 DEF Connected, Mounted, NoTimer
  <2> QED
    BY <1>1, <1>2, <1>3, <1>5, <1>7, <1>9, <2>1 DEF Connected
<1>13. app' # app
  BY <1>1, <1>3 DEF Connected
<1> QED
  BY <1>10, <1>11, <1>12, <1>13 DEF ConnInv

\* The connection is lost: still the one socket.
LEMMA LostKeeps ==
    ASSUME PartTyped, ConnInv, NEW s \in DOMAIN sockets, SocketLost(s)
    PROVE  PartTyped' /\ ConnInv'
<1>1. /\ Connected /\ s = socketRef /\ sockets[s].attached
      /\ sockets[s].readyState = "OPEN"
  BY LiveSocket DEF SocketLost
<1>2. /\ sockets' = [sockets EXCEPT ![s].readyState = "CLOSING"]
      /\ UNCHANGED <<socketRef, effects, app>>
  BY DEF SocketLost, BecomesReady
<1>3. sockets[s].attached \in BOOLEAN
  BY AttachedIsBoolean
<1>4. /\ sockets' \in Seq(Socket(Len(effects))) /\ Len(sockets') = Len(sockets)
      /\ DOMAIN sockets' = DOMAIN sockets
      /\ sockets'[s].readyState = "CLOSING" /\ sockets'[s].attached = sockets[s].attached
      /\ sockets'[s].effect = sockets[s].effect
      /\ \A t \in DOMAIN sockets : t # s => sockets'[t] = sockets[t]
  BY <1>2, <1>3, ReadyStateMoves DEF ReadyStates
<1>5. PartTyped'
  BY <1>2, <1>4 DEF PartTyped, SocketsTyped, EffectsTyped
<1>6. OldRunsAreDisposed' /\ DetachedAreClosing'
  BY <1>1, <1>2, <1>4 DEF OldRunsAreDisposed, DetachedAreClosing, ConnInv
<1>7. Connected'
  BY <1>1, <1>2, <1>4 DEF Connected, Mounted, NoTimer
<1> QED
  BY <1>5, <1>6, <1>7 DEF ConnInv

\* A socket that closes: the live one leaves a timer, another leaves nothing.
LEMMA CloseKeeps ==
    ASSUME PartTyped, ConnInv, NEW s \in DOMAIN sockets, SocketCloses(s)
    PROVE  PartTyped' /\ ConnInv'
<1>1. CASE sockets[s].attached
  <2> DEFINE e   == Len(effects)
             new == [effects[e] EXCEPT !.socket = 0, !.attempt = effects[e].attempt + 1,
                                       !.delay = Backoff(effects[e].attempt)]
             R   == Run(Len(sockets))
  <2>1. /\ Connected /\ s = socketRef /\ sockets[s].effect = e /\ IsHandled(s)
    BY <1>1, LiveSocket
  <2>2. /\ sockets' = [sockets EXCEPT ![s].attached = FALSE, ![s].readyState = "CLOSED"]
        /\ socketRef' = 0 /\ app' = reduceConnection(app, "reconnecting")
        /\ effects' = [effects EXCEPT ![e].socket = 0, ![e].attempt = @ + 1,
                           ![e].delay = Backoff(effects[e].attempt)]
    BY <2>1 DEF SocketCloses, Closed, Dispatch
  <2>3. app' \in AppState /\ app'.connection # "open"
    BY <2>2, ConnectionKeepsTheRest DEF PartTyped, ConnectionStatuses
  <2>4. effects \in Seq(R) /\ e \in DOMAIN effects /\ effects[e] \in R
    BY <2>1 DEF PartTyped, EffectsTyped, Connected, Mounted
  <2>5. /\ new \in R /\ new.socket = 0 /\ new.delay # 0
        /\ new.disposed = effects[e].disposed
    <3> DEFINE delay == Backoff(effects[e].attempt)
               attempt == effects[e].attempt + 1
    <3>1. effects[e].attempt \in Nat
      BY <2>4 DEF Run
    <3>2. delay \in 0 .. MAX_BACKOFF_MS /\ delay # 0 /\ attempt \in Nat
      <4>1. attempt \in Nat
        BY <3>1
      <4>2. delay \in 0 .. MAX_BACKOFF_MS /\ delay # 0
        BY <3>1, DelayRange, Zenon
      <4> QED
        BY <4>1, <4>2
    <3>3. 0 \in 0 .. Len(sockets)
      BY DEF PartTyped, SocketsTyped
    <3> HIDE DEF delay, attempt
    <3>4. new = [effects[e] EXCEPT !.socket = 0, !.attempt = attempt, !.delay = delay]
      BY DEF delay, attempt
    <3> HIDE DEF new
    <3> QED
      BY <2>4, <3>2, <3>3, <3>4 DEF Run
  <2>6. effects' = [effects EXCEPT ![e] = new]
    BY <2>2, <2>4
  <2> HIDE DEF new, R
  <2>7. /\ effects' \in Seq(R) /\ Len(effects') = Len(effects)
        /\ DOMAIN effects' = DOMAIN effects /\ effects'[e] = new
        /\ \A d \in DOMAIN effects : d # e => effects'[d] = effects[d]
    BY <2>4, <2>5, <2>6, SeqExcept
  <2>8. /\ sockets' \in Seq(Socket(Len(effects))) /\ Len(sockets') = Len(sockets)
        /\ DOMAIN sockets' = DOMAIN sockets
        /\ sockets'[s].readyState = "CLOSED" /\ ~ sockets'[s].attached
        /\ \A t \in DOMAIN sockets : t # s => sockets'[t] = sockets[t]
    BY <2>2, ReadyStateMoves DEF ReadyStates
  <2>9. PartTyped'
    BY <2>2, <2>3, <2>7, <2>8 DEF PartTyped, SocketsTyped, EffectsTyped, R
  <2>10. OldRunsAreDisposed' /\ DetachedAreClosing'
    BY <2>1, <2>7, <2>8 DEF OldRunsAreDisposed, DetachedAreClosing, ConnInv
  <2>11. Waiting'
    <3>1. Mounted'
      BY <2>1, <2>4, <2>5, <2>7 DEF Connected, Mounted
    <3>2. NoneAttached'
      BY <2>1, <2>8 DEF Connected, NoneAttached
    <3>3. \A d \in DOMAIN effects' : effects'[d].delay = 0 <=> d # Len(effects')
      BY <2>1, <2>5, <2>7 DEF Connected, NoTimer
    <3> QED
      BY <2>2, <2>3, <2>5, <2>7, <3>1, <3>2, <3>3 DEF Waiting
  <2> QED
    BY <2>9, <2>10, <2>11 DEF ConnInv
<1>2. CASE ~ sockets[s].attached
  <2>1. /\ sockets' = [sockets EXCEPT ![s].readyState = "CLOSED"]
        /\ UNCHANGED <<socketRef, effects, app>>
    BY <1>2 DEF SocketCloses, IsHandled, BecomesReady
  <2>2. /\ sockets' \in Seq(Socket(Len(effects))) /\ Len(sockets') = Len(sockets)
        /\ DOMAIN sockets' = DOMAIN sockets
        /\ sockets'[s].readyState = "CLOSED" /\ sockets'[s].attached = sockets[s].attached
        /\ sockets'[s].effect = sockets[s].effect
        /\ \A t \in DOMAIN sockets : t # s => sockets'[t] = sockets[t]
    BY <2>1, AttachedIsBoolean, ReadyStateMoves DEF ReadyStates
  <2>3. PartTyped'
    BY <2>1, <2>2 DEF PartTyped, SocketsTyped, EffectsTyped
  <2>4. OldRunsAreDisposed' /\ DetachedAreClosing'
    BY <2>1, <2>2 DEF OldRunsAreDisposed, DetachedAreClosing, ConnInv
  <2>5. Away => Away'
    BY <2>1, <2>2 DEF Away, Mounted, NoneAttached, NoTimer
  <2>6. Waiting => Waiting'
    BY <2>1, <2>2 DEF Waiting, Mounted, NoneAttached
  <2>7. Connected => Connected'
    BY <1>2, <2>1, <2>2 DEF Connected, Mounted, NoTimer
  <2> QED
    BY <2>3, <2>4, <2>5, <2>6, <2>7 DEF ConnInv
<1> QED
  BY <1>1, <1>2

\* The orders of the page are those of before.
SameOrders ==
    /\ app'.msgSeqNum = app.msgSeqNum
    /\ DOMAIN app'.myOrders = DOMAIN app.myOrders
    /\ \A i \in DOMAIN app.myOrders : SameOrder(app'.myOrders[i], app.myOrders[i])

\* Only what the parser lets through is dispatched, and it is a frame.
LEMMA MessageKeeps ==
    ASSUME PartTyped, ConnInv, NEW s \in DOMAIN sockets, NEW message \in Messages,
           MessageArrives(s, message)
    PROVE  PartTyped' /\ ConnInv' /\ SameOrders
<1>1. CASE app' = app
  BY <1>1, OnlyTheAppMoves DEF MessageArrives, SameOrders, SameOrder, PartTyped
<1>2. CASE IsWellFormed(message) /\ app' = reduceFrame(app, Narrowed(message))
  <2>1. message.frame \in ServerFrame
    BY SocketAssumption
  <2>2. Narrowed(message) = message.frame
    <3>1. \A f \in DOMAIN message.frame : f \notin message.malformed
      BY <1>2 DEF IsWellFormed
    <3>2. message.frame = [f \in DOMAIN message.frame |-> message.frame[f]]
      BY <2>1 DEF ServerFrame, BookFrame, ExecFrame, FixFrame
    <3> QED
      BY <3>1, <3>2 DEF Narrowed
  <2>3. app' = reduceFrame(app, message.frame)
    BY <1>2, <2>2
  <2>4. /\ app' \in AppState /\ app'.connection = app.connection
        /\ SameOrders
    BY <2>1, <2>3, FrameKeepsTheOrders DEF PartTyped, SameOrders
  <2> QED
    BY <2>4, OnlyTheAppMoves DEF MessageArrives
<1> QED
  BY <1>1, <1>2 DEF MessageArrives

-----------------------------------------------------------------------------
(***************************************************************************)
(* The page.                                                               *)
(***************************************************************************)
CountsTyped ==
    /\ written \in Seq(NewOrderFrame \cup CancelOrderFrame)
    /\ messages \in 0 .. MaxMessages /\ failures \in 0 .. MaxFailures

Ticket ==
    [ side : Sides, tif : TimesInForce, ordType : OrdTypes,
      price : Text, qty : Int, display : Int ]

TicketTyped ==
    /\ ticket \in Ticket
    /\ nextId \in 1 .. MaxIds + 1 /\ preview \in 1 .. MaxIds + 1

\* The id on show is the one a frame would be written with.
PreviewHolds == CanSend => preview = nextId

IdsAreUsed == \A i \in DOMAIN written : written[i].clOrdId < nextId

\* The constructor takes the terms of every order that was written.
AcceptableFrame(frame) == ConstructorAccepts(TermsOf(frame))

TermsAreAcceptable ==
    \A i \in DOMAIN written : written[i].type = "NEW" => AcceptableFrame(written[i])

PageInv ==
    /\ PartTyped /\ ConnInv /\ CountsTyped /\ TicketTyped
    /\ PreviewHolds /\ TermsAreAcceptable
    /\ RowsAreTheWrittenOrders /\ IdsAreUsed

\* Nothing of the socket's own doing changes what was written, or an order.
LEMMA SocketKeepsOrders ==
    ASSUME PartTyped, ConnInv, CountsTyped, SocketNext
    PROVE  PartTyped' /\ ConnInv' /\ CountsTyped' /\ written' = written /\ SameOrders
<1>1. app' = app \/ (\E status \in ConnectionStatuses : app' = reduceConnection(app, status))
         \/ SameOrders
  <2>1. ASSUME Mount \/ Unmount \/ \E e \in DOMAIN effects : TimerFires(e)
        PROVE  app' = app \/ \E status \in ConnectionStatuses :
                                 app' = reduceConnection(app, status)
    BY <2>1 DEF Mount, Unmount, TimerFires, Connect, Dispatch, ConnectionStatuses
  <2>2. ASSUME NEW s \in DOMAIN sockets, SocketOpens(s) \/ SocketLost(s) \/ SocketCloses(s)
        PROVE  app' = app \/ \E status \in ConnectionStatuses :
                                 app' = reduceConnection(app, status)
    BY <2>2 DEF SocketOpens, SocketLost, SocketCloses, Opened, Closed, Dispatch,
                ConnectionStatuses
  <2> QED
    BY <2>1, <2>2, MessageKeeps DEF SocketNext
<1>2. SameOrders
  BY <1>1, ConnectionKeepsTheRest DEF SameOrders, SameOrder, PartTyped
<1>3. written' = written
  BY DEF SocketNext, Mount, Unmount, TimerFires, SocketOpens, SocketLost, SocketCloses,
         MessageArrives
<1>4. /\ messages' = messages \/ (messages' = messages + 1 /\ messages < MaxMessages)
      /\ failures' = failures \/ (failures' = failures + 1 /\ failures < MaxFailures)
  BY DEF SocketNext, Mount, Unmount, TimerFires, SocketOpens, SocketLost, SocketCloses,
         MessageArrives
<1>5. CountsTyped'
  BY <1>3, <1>4, SocketAssumption DEF CountsTyped
<1>6. PartTyped' /\ ConnInv'
  BY MountKeeps, UnmountKeeps, TimerKeeps, OpenKeeps, LostKeeps, CloseKeeps, MessageKeeps
     DEF SocketNext
<1> QED
  BY <1>2, <1>3, <1>5, <1>6

\* A socket that was just made is not open.
LEMMA ConnectIsNotOpen ==
    ASSUME PartTyped, NEW e, NEW runs, Connect(e, runs), CanSend'
    PROVE  CanSend
<1>1. CASE runs[e].disposed
  BY <1>1 DEF Connect, CanSend
<1>2. CASE ~ runs[e].disposed
  <2>1. /\ sockets' = Append(sockets, NewSocket(e)) /\ socketRef' = Len(sockets) + 1
    BY <1>2 DEF Connect
  <2>2. sockets'[socketRef'] = NewSocket(e)
    BY <2>1 DEF PartTyped, SocketsTyped
  <2> QED
    BY <2>2 DEF CanSend, NewSocket
<1> QED
  BY <1>1, <1>2

\* The socket works on: the id on show is a new one whenever send can write.
LEMMA SocketStepKeeps ==
    ASSUME PageInv, SocketStep
    PROVE  PageInv'
<1>1. PartTyped' /\ ConnInv' /\ CountsTyped' /\ written' = written /\ SameOrders
  BY SocketKeepsOrders DEF PageInv, SocketStep
<1>2. /\ ticket' = ticket /\ nextId' = nextId
      /\ preview' = IF app' # app THEN nextId ELSE preview
  BY DEF SocketStep
<1>3. TicketTyped'
  BY <1>2 DEF TicketTyped, PageInv
<1>4. PreviewHolds'
  <2> SUFFICES ASSUME CanSend', app' = app
               PROVE  CanSend
    BY <1>2 DEF PreviewHolds, PageInv
  <2>1. ASSUME NEW s \in DOMAIN sockets, SocketOpens(s)
        PROVE  FALSE
    BY <2>1, OpenKeeps DEF PageInv
  <2>2. ASSUME NEW s \in DOMAIN sockets, SocketLost(s)
        PROVE  FALSE
    <3>1. s = socketRef
      BY <2>2, LiveSocket DEF PageInv, SocketLost
    <3>2. sockets'[s].readyState = "CLOSING" /\ socketRef' = socketRef
      <4>1. sockets \in Seq(Socket(Len(effects)))
        BY DEF PageInv, PartTyped, SocketsTyped
      <4>2. sockets[s] \in Socket(Len(effects))
        BY <4>1
      <4> QED
        BY <2>2, <4>1, <4>2 DEF SocketLost, BecomesReady, Socket
    <3> QED
      BY <3>1, <3>2 DEF CanSend
  <2>3. ASSUME NEW s \in DOMAIN sockets, SocketCloses(s)
        PROVE  CanSend
    <3>1. CASE sockets[s].attached
      <4>1. socketRef' = 0
        BY <2>3, <3>1, LiveSocket DEF PageInv, SocketCloses, Closed
      <4> QED
        BY <4>1 DEF CanSend
    <3>2. CASE ~ sockets[s].attached
      <4>1. /\ sockets' = [sockets EXCEPT ![s].readyState = "CLOSED"]
            /\ socketRef' = socketRef
        BY <2>3, <3>2 DEF SocketCloses, IsHandled, BecomesReady
      <4>2. /\ DOMAIN sockets' = DOMAIN sockets /\ sockets'[s].readyState = "CLOSED"
            /\ \A t \in DOMAIN sockets : t # s => sockets'[t] = sockets[t]
        BY <4>1, AttachedIsBoolean, ReadyStateMoves DEF ReadyStates, PageInv
      <4>3. socketRef \in 0 .. Len(sockets) /\ DOMAIN sockets = 1 .. Len(sockets)
        BY DEF PageInv, PartTyped, SocketsTyped
      <4> QED
        BY <4>1, <4>2, <4>3 DEF CanSend
    <3> QED
      BY <3>1, <3>2
  <2>4. ASSUME NEW e \in DOMAIN effects, TimerFires(e)
        PROVE  CanSend
    BY <2>4, ConnectIsNotOpen DEF TimerFires, PageInv
  <2>5. ASSUME Mount
        PROVE  CanSend
    BY <2>5, ConnectIsNotOpen DEF Mount, PageInv
  <2>6. ASSUME Unmount
        PROVE  CanSend
    BY <2>6 DEF Unmount, Cleanup, CanSend
  <2>7. ASSUME NEW s \in DOMAIN sockets, NEW message \in Messages, MessageArrives(s, message)
        PROVE  CanSend
    BY <2>7 DEF MessageArrives, CanSend
  <2> QED
    BY <2>1, <2>2, <2>3, <2>4, <2>5, <2>6, <2>7 DEF SocketStep, SocketNext
<1>5. TermsAreAcceptable' /\ IdsAreUsed'
  BY <1>1, <1>2 DEF TermsAreAcceptable, IdsAreUsed, PageInv
<1>6. RowsAreTheWrittenOrders'
  BY <1>1 DEF RowsAreTheWrittenOrders, SameOrders, SameOrder, IsRowOf, PageInv
<1> QED
  BY <1>1, <1>3, <1>4, <1>5, <1>6 DEF PageInv

\* Filling in a field sends nothing.
LEMMA EditKeeps ==
    ASSUME PageInv, NEW new \in Ticket, EditTo(new)
    PROVE  PageInv'
<1>1. /\ ticket' = new /\ nextId' = nextId /\ preview' = preview
      /\ UNCHANGED <<sockets, socketRef, effects, app, written, messages, failures>>
  BY DEF EditTo, socketVars
<1>2. PartTyped' /\ ConnInv'
  BY <1>1, OnlyTheAppMoves DEF PageInv, PartTyped
<1>3. CountsTyped' /\ TicketTyped' /\ PreviewHolds'
  BY <1>1 DEF PageInv, CountsTyped, TicketTyped, PreviewHolds, CanSend
<1>4. TermsAreAcceptable' /\ RowsAreTheWrittenOrders' /\ IdsAreUsed'
  BY <1>1 DEF PageInv, TermsAreAcceptable, RowsAreTheWrittenOrders, IdsAreUsed
<1> QED
  BY <1>2, <1>3, <1>4 DEF PageInv

\* The rows after a frame was written under the next id.
LEMMA RowsAfterWrite ==
    ASSUME PageInv, NEW frame \in NewOrderFrame \cup CancelOrderFrame,
           frame.clOrdId = nextId, nextId' = nextId + 1,
           written' = Append(written, frame), app' = reduceSent(app, frame)
    PROVE  RowsAreTheWrittenOrders' /\ IdsAreUsed'
<1> DEFINE n == Len(written) + 1
           Frames == NewOrderFrame \cup CancelOrderFrame
           old == app.myOrders
           rows == app'.myOrders
<1>1. /\ written \in Seq(Frames) /\ n \in Nat /\ nextId \in Nat
      /\ old \in Seq(MyOrder) /\ app.msgSeqNum = Len(written)
  BY DEF PageInv, CountsTyped, TicketTyped, PartTyped, AppState, RowsAreTheWrittenOrders
<1>2. /\ Len(written') = n /\ DOMAIN written' = 1 .. n /\ written'[n] = frame
      /\ DOMAIN written = 1 .. n - 1
      /\ \A i \in DOMAIN written : written'[i] = written[i] /\ i < n
      /\ \A i \in DOMAIN written' : i = n \/ i \in DOMAIN written
  BY <1>1
<1>3. /\ app'.msgSeqNum = app.msgSeqNum + 1
      /\ rows = IF frame.type = "NEW" /\ ~ IsDuplicate(old, frame.clOrdId)
                THEN <<RowOf(frame)>> \o old ELSE old
  BY SentAddsTheRow DEF PageInv, PartTyped
<1>4. /\ \A i \in DOMAIN written : written[i].clOrdId < nextId
      /\ \A i, j \in DOMAIN written : i < j => written[i].clOrdId < written[j].clOrdId
      /\ \A i, j \in DOMAIN old : i < j => old[i].clOrdId > old[j].clOrdId
      /\ \A i \in DOMAIN written : written[i].type = "NEW" =>
            \E j \in DOMAIN old : IsRowOf(old[j], written[i])
      /\ \A j \in DOMAIN old : \E i \in DOMAIN written : IsRowOf(old[j], written[i])
  BY DEF PageInv, RowsAreTheWrittenOrders, IdsAreUsed
<1>5. \A j \in DOMAIN old : old[j].clOrdId < nextId
  BY <1>4 DEF IsRowOf
<1>6. ~ IsDuplicate(old, frame.clOrdId)
  <2>1. ASSUME NEW j \in DOMAIN old
        PROVE  old[j].clOrdId # nextId
    <3>1. old[j].clOrdId < nextId /\ old[j].clOrdId \in Int
      <4>1. old[j] \in MyOrder
        BY <1>1
      <4> QED
        BY <1>5, <4>1 DEF MyOrder
    <3> QED
      BY <1>1, <3>1
  <2> QED
    BY <2>1 DEF IsDuplicate
<1>7. \A i \in DOMAIN written : written[i].clOrdId \in Int
  <2>1. \A f \in Frames : f.clOrdId \in Int
    BY DEF NewOrderFrame, CancelOrderFrame
  <2> QED
    BY <1>1, <2>1
<1>8. \A j \in DOMAIN old : old[j].clOrdId \in Int
  <2>1. \A row \in MyOrder : row.clOrdId \in Int
    BY DEF MyOrder
  <2> QED
    BY <1>1, <2>1
<1> HIDE DEF n, old, rows, Frames
<1>9. IdsAreUsed'
  BY <1>1, <1>2, <1>4, <1>7 DEF IdsAreUsed
<1>10. \A i, j \in DOMAIN written' : i < j => written'[i].clOrdId < written'[j].clOrdId
  BY <1>1, <1>2, <1>4
<1>11. CASE frame.type = "NEW"
  <2>1. rows = <<RowOf(frame)>> \o old
    BY <1>3, <1>6, <1>11
  <2>2. /\ DOMAIN rows = 1 .. Len(old) + 1 /\ Len(old) \in Nat
        /\ DOMAIN old = 1 .. Len(old)
        /\ rows[1] = RowOf(frame)
        /\ \A j \in 2 .. Len(old) + 1 : j - 1 \in DOMAIN old /\ rows[j] = old[j - 1]
        /\ \A j \in DOMAIN old : j + 1 \in DOMAIN rows /\ rows[j + 1] = old[j]
    BY <1>1, <2>1
  <2>3. IsRowOf(rows[1], frame)
    BY <1>11, <2>2 DEF RowOf, IsRowOf
  <2>4. rows[1].clOrdId = nextId
    BY <2>2 DEF RowOf
  <2>5. ASSUME NEW i \in DOMAIN rows, NEW j \in DOMAIN rows, i < j
        PROVE  rows[i].clOrdId > rows[j].clOrdId
    <3>1. j \in 2 .. Len(old) + 1 /\ j - 1 \in DOMAIN old /\ rows[j] = old[j - 1]
      BY <2>2, <2>5
    <3>2. CASE i = 1
      BY <1>1, <1>5, <1>8, <2>4, <3>1, <3>2
    <3>3. CASE i # 1
      <4>1. i - 1 \in DOMAIN old /\ rows[i] = old[i - 1] /\ i - 1 < j - 1
        BY <2>2, <2>5, <3>3
      <4> QED
        BY <1>4, <3>1, <4>1
    <3> QED
      BY <3>2, <3>3
  <2>6. ASSUME NEW i \in DOMAIN written', written'[i].type = "NEW"
        PROVE  \E j \in DOMAIN rows : IsRowOf(rows[j], written'[i])
    <3>1. CASE i = n
      BY <1>2, <2>2, <2>3, <3>1
    <3>2. CASE i \in DOMAIN written
      <4>1. PICK j \in DOMAIN old : IsRowOf(old[j], written[i])
        BY <1>2, <1>4, <2>6, <3>2
      <4> QED
        BY <1>2, <2>2, <3>2, <4>1
    <3> QED
      BY <1>2, <3>1, <3>2
  <2>7. ASSUME NEW j \in DOMAIN rows
        PROVE  \E i \in DOMAIN written' : IsRowOf(rows[j], written'[i])
    <3>1. CASE j = 1
      BY <1>1, <1>2, <2>3, <3>1
    <3>2. CASE j # 1
      <4>1. j - 1 \in DOMAIN old /\ rows[j] = old[j - 1]
        BY <2>2, <3>2
      <4>2. PICK i \in DOMAIN written : IsRowOf(old[j - 1], written[i])
        BY <1>4, <4>1
      <4> QED
        BY <1>2, <4>1, <4>2
    <3> QED
      BY <3>1, <3>2
  <2> QED
    BY <1>1, <1>2, <1>3, <1>9, <1>10, <2>5, <2>6, <2>7 DEF RowsAreTheWrittenOrders, rows, n
<1>12. CASE frame.type # "NEW"
  <2>1. rows = old
    BY <1>3, <1>12
  <2>2. ASSUME NEW i \in DOMAIN written', written'[i].type = "NEW"
        PROVE  \E j \in DOMAIN rows : IsRowOf(rows[j], written'[i])
    <3>1. i \in DOMAIN written /\ written'[i] = written[i]
      BY <1>2, <1>12, <2>2
    <3> QED
      BY <1>4, <2>1, <2>2, <3>1
  <2>3. ASSUME NEW j \in DOMAIN rows
        PROVE  \E i \in DOMAIN written' : IsRowOf(rows[j], written'[i])
    <3>1. PICK i \in DOMAIN written : IsRowOf(old[j], written[i])
      BY <1>4, <2>1
    <3> QED
      BY <1>2, <2>1, <3>1
  <2>4. \A i, j \in DOMAIN rows : i < j => rows[i].clOrdId > rows[j].clOrdId
    BY <1>4, <2>1
  <2> QED
    BY <1>1, <1>2, <1>3, <1>9, <1>10, <2>2, <2>3, <2>4 DEF RowsAreTheWrittenOrders, rows, n
<1> QED
  BY <1>11, <1>12

\* What the page writes was on show when it was written.
NewOrdersWereShown ==
    \A i \in DOMAIN written' \ DOMAIN written :
        written'[i].type = "NEW" => written'[i].clOrdId = preview

\* A frame under the next id, written or not.
LEMMA EmitKeeps ==
    ASSUME PageInv, NEW frame \in NewOrderFrame \cup CancelOrderFrame,
           frame.clOrdId = nextId, frame.type = "NEW" => AcceptableFrame(frame),
           Emit(frame), ticket' \in Ticket
    PROVE  PageInv' /\ NewOrdersWereShown
<1> DEFINE Frames == NewOrderFrame \cup CancelOrderFrame
<1>1. /\ nextId' = nextId + 1 /\ nextId <= MaxIds /\ nextId \in Nat
      /\ preview' = IF CanSend THEN nextId + 1 ELSE preview
      /\ UNCHANGED <<sockets, socketRef, effects, messages, failures>>
  BY DEF Emit, Send, PageInv, TicketTyped
<1>2. written \in Seq(Frames)
  BY DEF PageInv, CountsTyped
<1>3. TicketTyped'
  <2>1. nextId + 1 \in 1 .. MaxIds + 1
    BY <1>1, TypedAssumption
  <2> QED
    BY <1>1, <2>1 DEF TicketTyped, PageInv
<1>4. CASE CanSend
  <2>1. written' = Append(written, frame) /\ app' = reduceSent(app, frame)
    BY <1>4 DEF Emit, Send
  <2>2. RowsAreTheWrittenOrders' /\ IdsAreUsed'
    BY <1>1, <2>1, RowsAfterWrite
  <2>3. PartTyped' /\ ConnInv'
    BY <1>1, <2>1, SentAddsTheRow, OnlyTheAppMoves DEF PageInv, PartTyped
  <2>4. CountsTyped'
    BY <1>1, <1>2, <2>1 DEF CountsTyped, PageInv
  <2>5. PreviewHolds'
    BY <1>1, <1>4 DEF PreviewHolds
  <2>6. /\ DOMAIN written' = DOMAIN written \cup {Len(written) + 1}
        /\ written'[Len(written) + 1] = frame
        /\ \A i \in DOMAIN written : written'[i] = written[i]
    BY <1>2, <2>1
  <2>7. TermsAreAcceptable'
    <3> SUFFICES ASSUME NEW i \in DOMAIN written', written'[i].type = "NEW"
                 PROVE  AcceptableFrame(written'[i])
      BY DEF TermsAreAcceptable, AcceptableFrame
    <3>1. CASE i \in DOMAIN written
      BY <2>6, <3>1 DEF PageInv, TermsAreAcceptable, AcceptableFrame
    <3>2. CASE i = Len(written) + 1
      BY <2>6, <3>2
    <3> QED
      BY <2>6, <3>1, <3>2
  <2>8. NewOrdersWereShown
    BY <1>4, <2>6 DEF NewOrdersWereShown, PageInv, PreviewHolds
  <2> QED
    BY <1>3, <2>2, <2>3, <2>4, <2>5, <2>7, <2>8 DEF PageInv
<1>5. CASE ~ CanSend
  <2>1. UNCHANGED <<written, app>>
    BY <1>5 DEF Emit, Send
  <2>2. PartTyped' /\ ConnInv'
    BY <1>1, <2>1, OnlyTheAppMoves DEF PageInv, PartTyped
  <2>3. CountsTyped' /\ TermsAreAcceptable' /\ RowsAreTheWrittenOrders'
    BY <1>1, <2>1 DEF PageInv, CountsTyped, TermsAreAcceptable, RowsAreTheWrittenOrders
  <2>4. IdsAreUsed'
    <3>1. \A i \in DOMAIN written : written[i].clOrdId \in Int
      <4>1. \A f \in Frames : f.clOrdId \in Int
        BY DEF NewOrderFrame, CancelOrderFrame
      <4> QED
        BY <1>2, <4>1
    <3> QED
      BY <1>1, <2>1, <3>1 DEF IdsAreUsed, PageInv
  <2>5. PreviewHolds' /\ NewOrdersWereShown
    BY <1>1, <1>5, <2>1 DEF PreviewHolds, CanSend, NewOrdersWereShown
  <2> QED
    BY <1>3, <2>2, <2>3, <2>4, <2>5 DEF PageInv
<1> QED
  BY <1>4, <1>5

\* A cancel names an order and has an id of its own.
LEMMA CancelKeeps ==
    ASSUME PageInv, NEW id \in Int, handleCancel(id)
    PROVE  PageInv' /\ NewOrdersWereShown
<1> DEFINE frame == cancelOrderFrame(nextId, id)
<1>1. frame \in CancelOrderFrame /\ frame.clOrdId = nextId /\ frame.type # "NEW"
  BY DEF cancelOrderFrame, CancelOrderFrame, PageInv, TicketTyped
<1>2. Emit(frame) /\ ticket' \in Ticket
  BY DEF handleCancel, PageInv, TicketTyped
<1> HIDE DEF frame
<1> QED
  BY <1>1, <1>2, EmitKeeps

\* An order of a well formed intent.
LEMMA SubmitKeeps ==
    ASSUME PageInv, NEW intent \in OrderIntent, handleSubmit(intent), ticket' \in Ticket,
           AcceptableFrame(newOrderFrame(nextId, intent))
    PROVE  PageInv' /\ NewOrdersWereShown
<1> DEFINE frame == newOrderFrame(nextId, intent)
<1>1. frame \in NewOrderFrame /\ frame.clOrdId = nextId
  BY DEF newOrderFrame, NewOrderFrame, OrderIntent, NA, PageInv, TicketTyped
<1>2. Emit(frame)
  BY DEF handleSubmit
<1> HIDE DEF frame
<1> QED
  BY <1>1, <1>2, EmitKeeps DEF frame

\* A peg: no price, nothing hidden, a quantity above zero.
LEMMA SubmitPegKeeps ==
    ASSUME PageInv, SubmitPeg
    PROVE  PageInv' /\ NewOrdersWereShown
<1> DEFINE intent == [ side |-> ticket.side, ordType |-> "PEG_MID", tif |-> ticket.tif,
                       pricePx |-> NA, qty |-> ticket.qty, displayQty |-> 0 ]
<1>1. /\ ticket \in Ticket /\ ticket.qty \in Int /\ ticket.qty > 0
      /\ nextId \in Int /\ nextId > 0
  BY DEF PageInv, TicketTyped, Ticket, SubmitPeg, IsQty
<1>2. ticket.side \in Sides /\ ticket.tif \in TimesInForce
  BY <1>1 DEF Ticket
<1>3. intent \in OrderIntent
  BY <1>1, <1>2 DEF OrderIntent, OrdTypes, NA
<1>4. ticket' \in Ticket
  BY <1>1 DEF SubmitPeg, Ticket, Blank
<1>5. AcceptableFrame(newOrderFrame(nextId, intent))
  <2> DEFINE f == newOrderFrame(nextId, intent)
  <2>1. /\ f.clOrdId = nextId /\ f.side = ticket.side /\ f.qty = ticket.qty
        /\ f.price = NA /\ f.tif = ticket.tif /\ f.maxFloor = 0 /\ f.ordType = "PEG_MID"
    BY DEF newOrderFrame
  <2> HIDE DEF f
  <2>2. f.maxFloor \in 0 .. f.qty /\ f.maxFloor \in {0, f.qty}
    BY <1>1, <2>1
  <2>3. f.side # Null /\ f.tif # Null /\ f.ordType # Null
    BY <1>2, <2>1 DEF Sides, TimesInForce, Null
  <2> QED
    BY <1>1, <2>1, <2>2, <2>3 DEF AcceptableFrame, TermsOf, ConstructorAccepts, f
<1>6. handleSubmit(intent)
  BY DEF SubmitPeg
<1> HIDE DEF intent
<1> QED
  BY <1>3, <1>4, <1>5, <1>6, SubmitKeeps

\* A limit order: its price was read from the field, and a display only where
\* the field for it is shown.
LEMMA SubmitLimitKeeps ==
    ASSUME PageInv, SubmitLimit
    PROVE  PageInv' /\ NewOrdersWereShown
<1> DEFINE px == parsePrice(ticket.price)
           shown == IF ShowsDisplay THEN DisplayQty(ticket.display, ticket.qty) ELSE 0
           intent == [ side |-> ticket.side, ordType |-> "LIMIT", tif |-> ticket.tif,
                       pricePx |-> px, qty |-> ticket.qty, displayQty |-> shown ]
<1>1. /\ ticket \in Ticket /\ ticket.qty \in Int /\ ticket.qty > 0
      /\ nextId \in Int /\ nextId > 0
  BY DEF PageInv, TicketTyped, Ticket, SubmitLimit, IsQty
<1>2. /\ ticket.side \in Sides /\ ticket.tif \in TimesInForce
      /\ ticket.price \in Text /\ ticket.display \in Int
  BY <1>1 DEF Ticket
<1>3. px \in Nat /\ IsOnTick(px)
  BY <1>2, ParsedPricesAreOnTick DEF SubmitLimit, IsPrice
<1>4. /\ shown \in Int /\ shown >= 0 /\ shown <= ticket.qty
      /\ shown # 0 => ticket.tif = "GTC"
  BY <1>1, <1>2 DEF SubmitLimit, ShowsDisplay, IsDisplay, DisplayQty, Blank
<1>5. handleSubmit(intent)
  BY DEF SubmitLimit
<1>6. ticket' \in Ticket
  <2>1. NotANumber \in Text /\ Blank \in Int
    BY DEF Text, Blank
  <2> QED
    BY <1>1, <2>1 DEF SubmitLimit, Ticket
<1> HIDE DEF px, shown
<1>7. intent \in OrderIntent
  BY <1>1, <1>2, <1>3, <1>4 DEF OrderIntent, OrdTypes
<1>8. AcceptableFrame(newOrderFrame(nextId, intent))
  <2> DEFINE f == newOrderFrame(nextId, intent)
  <2>1. /\ f.clOrdId = nextId /\ f.side = ticket.side /\ f.qty = ticket.qty
        /\ f.price = px /\ f.tif = ticket.tif /\ f.maxFloor = shown /\ f.ordType = "LIMIT"
    BY DEF newOrderFrame
  <2> HIDE DEF f
  <2>2. f.maxFloor \in 0 .. f.qty /\ (f.maxFloor \notin {0, f.qty} => f.tif = "GTC")
    BY <1>1, <1>4, <2>1
  <2>3. f.side # Null /\ f.tif # Null /\ f.ordType # Null
    BY <1>2, <2>1 DEF Sides, TimesInForce, Null
  <2> QED
    BY <1>1, <1>3, <2>1, <2>2, <2>3 DEF AcceptableFrame, TermsOf, ConstructorAccepts, f
<1> HIDE DEF intent
<1> QED
  BY <1>5, <1>6, <1>7, <1>8, SubmitKeeps

\* A price that is filled in is a text like one that was typed.
LEMMA ApplyPriceKeeps ==
    ASSUME PageInv, NEW px \in Int, ApplyPrice(px)
    PROVE  PageInv'
<1> DEFINE new == [ticket EXCEPT !.price = formatPrice(px)]
<1>1. ticket \in Ticket /\ formatPrice(px) \in Text
  BY PricesAreTexts DEF PageInv, TicketTyped
<1>2. new \in Ticket
  BY <1>1 DEF Ticket
<1>3. EditTo(new)
  BY DEF ApplyPrice
<1> HIDE DEF new
<1> QED
  BY <1>2, <1>3, EditKeeps

\* The prices that chips, nudges and the curve fill in are numbers.
LEMMA PricesAreNumbers ==
    ASSUME PageInv
    PROVE  /\ app.book.bestBid \in Int /\ app.book.bestAsk \in Int
           /\ MidChip(app.book.bestBid, app.book.bestAsk) \in Int
           /\ \A i \in DOMAIN app.book.bids : app.book.bids[i][1] \in Int
           /\ \A i \in DOMAIN app.book.asks : app.book.asks[i][1] \in Int
           /\ \A i \in DOMAIN app.myOrders : app.myOrders[i].clOrdId \in Int
<1>1. app.book \in BookState /\ app.myOrders \in Seq(MyOrder)
  BY DEF PageInv, PartTyped, AppState
<1>2. /\ app.book.bestBid \in Int /\ app.book.bestAsk \in Int
      /\ app.book.bids \in Seq(Int \X Int) /\ app.book.asks \in Seq(Int \X Int)
  BY <1>1 DEF BookState
<1>3. \A row \in MyOrder : row.clOrdId \in Int
  BY DEF MyOrder
<1>4. \A bid, ask \in Int : MidChip(bid, ask) \in Int
  BY DEF MidChip, TICK
<1>5. ASSUME NEW levels \in Seq(Int \X Int), NEW i \in DOMAIN levels
      PROVE  levels[i][1] \in Int
  <2>1. levels[i] \in Int \X Int
    OBVIOUS
  <2> QED
    BY <2>1
<1>6. MidChip(app.book.bestBid, app.book.bestAsk) \in Int
  BY <1>2, <1>4
<1>7. /\ \A i \in DOMAIN app.book.bids : app.book.bids[i][1] \in Int
      /\ \A i \in DOMAIN app.book.asks : app.book.asks[i][1] \in Int
  BY <1>2, <1>5
<1>8. \A i \in DOMAIN app.myOrders : app.myOrders[i].clOrdId \in Int
  BY <1>1, <1>3
<1> QED
  BY <1>2, <1>6, <1>7, <1>8

\* The ticket of a page that was just opened.
LEMMA EmptyTicketType ==
    EmptyTicket \in Ticket
<1>1. NotANumber \in Text /\ Blank \in Int
  BY DEF Text, Blank
<1> QED
  BY <1>1 DEF EmptyTicket, Ticket, Sides, TimesInForce, OrdTypes

\* Every other use of the ticket fills in a field.
LEMMA FieldsKeep ==
    ASSUME PageInv,
           \/ \E s \in ChosenSides : ChooseSide(s)
           \/ \E t \in ChosenTifs : ChooseTif(t)
           \/ \E o \in OrdTypes : ChooseOrdType(o)
           \/ \E text \in TypedPrices : TypePrice(text)
           \/ \E text \in TypedQtys : TypeQty(text) \/ Preset(text)
           \/ \E text \in TypedDisplays : TypeDisplay(text)
           \/ Navigate
    PROVE  PageInv'
<1>1. ticket \in Ticket
  BY DEF PageInv, TicketTyped
<1>2. PICK new : new \in Ticket /\ EditTo(new)
  <2>1. ASSUME NEW s \in ChosenSides, ChooseSide(s)
        PROVE  \E new \in Ticket : EditTo(new)
    <3>1. [ticket EXCEPT !.side = s] \in Ticket
      BY <1>1, TypedAssumption DEF Ticket
    <3> QED
      BY <2>1, <3>1 DEF ChooseSide
  <2>2. ASSUME NEW t \in ChosenTifs, ChooseTif(t)
        PROVE  \E new \in Ticket : EditTo(new)
    <3>1. [ticket EXCEPT !.tif = t] \in Ticket
      BY <1>1, TypedAssumption DEF Ticket
    <3> QED
      BY <2>2, <3>1 DEF ChooseTif
  <2>3. ASSUME NEW o \in OrdTypes, ChooseOrdType(o)
        PROVE  \E new \in Ticket : EditTo(new)
    <3>1. [ticket EXCEPT !.ordType = o] \in Ticket
      BY <1>1 DEF Ticket
    <3> QED
      BY <2>3, <3>1 DEF ChooseOrdType
  <2>4. ASSUME NEW text \in TypedPrices, TypePrice(text)
        PROVE  \E new \in Ticket : EditTo(new)
    <3>1. [ticket EXCEPT !.price = text] \in Ticket
      BY <1>1, TypedAssumption DEF Ticket
    <3> QED
      BY <2>4, <3>1 DEF TypePrice
  <2>5. ASSUME NEW text \in TypedQtys, TypeQty(text)
        PROVE  \E new \in Ticket : EditTo(new)
    <3>1. [ticket EXCEPT !.qty = text] \in Ticket
      BY <1>1, TypedAssumption DEF Ticket
    <3> QED
      BY <2>5, <3>1 DEF TypeQty
  <2>6. ASSUME NEW text \in TypedQtys, Preset(text)
        PROVE  \E new \in Ticket : EditTo(new)
    <3> DEFINE qty == IF ticket.qty = Blank THEN text ELSE ticket.qty
    <3>1. qty \in Int
      BY <1>1, TypedAssumption DEF Ticket
    <3>2. EditTo([ticket EXCEPT !.qty = qty])
      BY <2>6 DEF Preset
    <3> HIDE DEF qty
    <3>3. [ticket EXCEPT !.qty = qty] \in Ticket
      BY <1>1, <3>1 DEF Ticket
    <3> QED
      BY <3>2, <3>3
  <2>7. ASSUME NEW text \in TypedDisplays, TypeDisplay(text)
        PROVE  \E new \in Ticket : EditTo(new)
    <3>1. [ticket EXCEPT !.display = text] \in Ticket
      BY <1>1, TypedAssumption DEF Ticket
    <3> QED
      BY <2>7, <3>1 DEF TypeDisplay
  <2>8. ASSUME Navigate
        PROVE  \E new \in Ticket : EditTo(new)
    <3>1. EmptyTicket \in Ticket
      BY EmptyTicketType
    <3> QED
      BY <2>8, <3>1 DEF Navigate
  <2> QED
    BY <2>1, <2>2, <2>3, <2>4, <2>5, <2>6, <2>7, <2>8
<1> QED
  BY <1>2, EditKeeps

\* One step of the page.
LEMMA PageStepKeeps ==
    ASSUME PageInv, PageNext
    PROVE  PageInv' /\ NewOrdersWereShown
<1>1. CASE SocketStep
  <2>1. written' = written
    BY <1>1, SocketKeepsOrders DEF PageInv, SocketStep
  <2> QED
    BY <1>1, <2>1, SocketStepKeeps DEF NewOrdersWereShown
<1>2. ASSUME ChipBid \/ ChipMid \/ ChipAsk \/ (\E steps \in {-1, 1} : Nudge(steps))
               \/ (\E i \in DOMAIN app.book.bids : ClickCurve(app.book.bids[i][1]))
               \/ (\E i \in DOMAIN app.book.asks : ClickCurve(app.book.asks[i][1]))
      PROVE  PageInv' /\ written' = written
  <2>1. ASSUME NEW steps \in {-1, 1}, Nudge(steps)
        PROVE  \E px \in Int : ApplyPrice(px)
    <3>1. ticket.price \in Text
      BY DEF PageInv, TicketTyped, Ticket
    <3>2. parsePrice(ticket.price) \in Nat
      BY <2>1, <3>1, ParsedPricesAreOnTick DEF Nudge, IsPrice
    <3>3. nudgePx(parsePrice(ticket.price), steps) \in Int
      BY <3>2 DEF nudgePx, Greatest, TICK
    <3> QED
      BY <2>1, <3>3 DEF Nudge
  <2>2. PICK px \in Int : ApplyPrice(px)
    BY <1>2, <2>1, PricesAreNumbers DEF ChipBid, ChipMid, ChipAsk, ClickCurve
  <2> QED
    BY <2>2, ApplyPriceKeeps DEF ApplyPrice, EditTo, socketVars
<1>3. ASSUME \/ \E s \in ChosenSides : ChooseSide(s)
             \/ \E t \in ChosenTifs : ChooseTif(t)
             \/ \E o \in OrdTypes : ChooseOrdType(o)
             \/ \E text \in TypedPrices : TypePrice(text)
             \/ \E text \in TypedQtys : TypeQty(text) \/ Preset(text)
             \/ \E text \in TypedDisplays : TypeDisplay(text)
             \/ Navigate
      PROVE  PageInv' /\ written' = written
  <2>1. written' = written
    BY <1>3 DEF ChooseSide, ChooseTif, ChooseOrdType, TypePrice, TypeQty, Preset,
                TypeDisplay, Navigate, EditTo, socketVars
  <2> QED
    BY <1>3, <2>1, FieldsKeep
<1>4. CASE SubmitPeg \/ SubmitLimit
  BY <1>4, SubmitPegKeeps, SubmitLimitKeeps
<1>5. ASSUME (\E i \in DOMAIN app.myOrders : CancelRow(i))
               \/ (\E id \in 1 .. MaxIds : CancelTyped(id))
      PROVE  PageInv' /\ NewOrdersWereShown
  <2>1. PICK id \in Int : handleCancel(id)
    BY <1>5, PricesAreNumbers DEF CancelRow, CancelTyped
  <2> QED
    BY <2>1, CancelKeeps
<1>6. written' = written => NewOrdersWereShown
  BY DEF NewOrdersWereShown
<1> QED
  BY <1>1, <1>2, <1>3, <1>4, <1>5, <1>6 DEF PageNext, TicketNext

\* The page before it is mounted.
LEMMA PageStarts ==
    ASSUME PageInit
    PROVE  PageInv
<1>1. /\ sockets = <<>> /\ socketRef = 0 /\ effects = <<>> /\ app = initialState
      /\ written = <<>> /\ messages = 0 /\ failures = 0
      /\ ticket = EmptyTicket /\ nextId = 1 /\ preview = 1
  BY DEF PageInit, SocketInit
<1>2. PartTyped
  BY <1>1, InitialStateType DEF PartTyped, SocketsTyped, EffectsTyped
<1>3. ConnInv
  BY <1>1 DEF ConnInv, OldRunsAreDisposed, DetachedAreClosing, Away, Mounted,
              NoneAttached, NoTimer
<1>4. CountsTyped
  BY <1>1, SocketAssumption DEF CountsTyped
<1>5. TicketTyped
  BY <1>1, TypedAssumption, EmptyTicketType DEF TicketTyped
<1>6. PreviewHolds /\ IdsAreUsed /\ TermsAreAcceptable
  BY <1>1 DEF PreviewHolds, IdsAreUsed, TermsAreAcceptable
<1>7. RowsAreTheWrittenOrders
  BY <1>1 DEF RowsAreTheWrittenOrders, initialState
<1> QED
  BY <1>2, <1>3, <1>4, <1>5, <1>6, <1>7 DEF PageInv

-----------------------------------------------------------------------------
(***************************************************************************)
(* The theorems.                                                           *)
(***************************************************************************)
\* The inductive invariant of the page.
THEOREM PageInvHolds == PageSpec => []PageInv
<1>1. PageInit => PageInv
  BY PageStarts
<1>2. PageInv /\ [PageNext]_pageVars => PageInv'
  <2> SUFFICES ASSUME PageInv, UNCHANGED pageVars
               PROVE  PageInv'
    BY PageStepKeeps
  <2>1. UNCHANGED <<sockets, socketRef, effects, app, written, messages, failures,
                    ticket, nextId, preview>>
    BY DEF pageVars, socketVars, ticketVars
  <2>2. PartTyped' /\ ConnInv'
    BY <2>1, OnlyTheAppMoves DEF PageInv, PartTyped
  <2> QED
    BY <2>1, <2>2 DEF PageInv, CountsTyped, TicketTyped, PreviewHolds, CanSend,
                      TermsAreAcceptable, RowsAreTheWrittenOrders, IdsAreUsed
<1> QED
  BY <1>1, <1>2, PTL DEF PageSpec

\* Type correctness of the page.
THEOREM PageTypeCorrect == PageSpec => []TypeOK
<1>1. PageInv => TypeOK
  <2> SUFFICES ASSUME PageInv
               PROVE  TypeOK
    OBVIOUS
  <2>1. DOMAIN effects = 1 .. Len(effects)
    BY DEF PageInv, PartTyped, EffectsTyped
  <2> QED
    BY <2>1 DEF PageInv, PartTyped, SocketsTyped, EffectsTyped, CountsTyped, TicketTyped,
                Ticket, TypeOK, SocketTypeOK, Socket, Run
<1> QED
  BY <1>1, PageInvHolds, PTL

\* However often the page mounts and the connection is lost, one socket or one
\* timer of the current run is alive and nothing of an older one
\* (useOrderBook's promise about a double-invoked mount).
THEOREM NoOrphanConnection == PageSpec => []OneLiveConnection
<1>1. PageInv => OneLiveConnection
  <2> SUFFICES ASSUME PageInv
               PROVE  OneLiveConnection
    OBVIOUS
  <2>1. ASSUME NEW e \in DOMAIN effects
        PROVE  effects[e].delay > 0 <=> effects[e].delay # 0
    <3>1. effects[e] \in Run(Len(sockets))
      BY DEF PageInv, PartTyped, EffectsTyped
    <3>2. effects[e].delay \in Nat
      BY <3>1, DelayRange DEF Run
    <3> QED
      BY <3>2
  <2>2. Cardinality({}) = 0
    BY FS_EmptySet
  <2> DEFINE Total == Cardinality(LiveSockets) + Cardinality(LiveTimers)
  <2>3. SUFFICES /\ Total = IF Mounted THEN 1 ELSE 0
                 /\ \A s \in LiveSockets :
                       sockets[s].effect = Len(effects) /\ socketRef = s
                 /\ \A e \in LiveTimers : e = Len(effects) /\ socketRef = 0
    <3>1. \A s \in DOMAIN sockets :
             s \notin LiveSockets => sockets[s].readyState \in {"CLOSING", "CLOSED"}
      BY DEF PageInv, ConnInv, DetachedAreClosing, LiveSockets
    <3> QED
      BY <3>1 DEF OneLiveConnection
  <2>4. CASE Away
    <3>1. LiveSockets = {} /\ LiveTimers = {} /\ ~ Mounted
      BY <2>1, <2>4 DEF Away, LiveSockets, LiveTimers, NoneAttached, NoTimer
    <3> QED
      BY <2>2, <3>1
  <2>5. CASE Connected
    <3>1. LiveSockets = {socketRef} /\ LiveTimers = {} /\ Mounted
      BY <2>1, <2>5 DEF Connected, LiveSockets, LiveTimers, NoTimer
    <3>2. Cardinality(LiveSockets) = 1
      BY <3>1, FS_Singleton
    <3> QED
      BY <2>2, <2>5, <3>1, <3>2 DEF Connected
  <2>6. CASE Waiting
    <3>1. Len(effects) \in DOMAIN effects
      BY <2>6 DEF Waiting, Mounted, PageInv, PartTyped, EffectsTyped
    <3>2. LiveSockets = {} /\ LiveTimers = {Len(effects)} /\ Mounted /\ socketRef = 0
      BY <2>1, <2>6, <3>1 DEF Waiting, LiveSockets, LiveTimers, NoneAttached
    <3>3. Cardinality(LiveTimers) = 1
      BY <3>2, FS_Singleton
    <3> QED
      BY <2>2, <3>2, <3>3
  <2> QED
    BY <2>4, <2>5, <2>6 DEF PageInv, ConnInv
<1> QED
  BY <1>1, PageInvHolds, PTL

\* The status on show says whether the socket in use has opened
\* (setConnection in useOrderBook).
THEOREM TheStatusIsTruthful == PageSpec => []StatusIsTruthful
<1>1. PageInv => StatusIsTruthful
  <2> SUFFICES ASSUME PageInv, Mounted
               PROVE  app.connection = "open" <=>
                        /\ socketRef # 0
                        /\ \/ sockets[socketRef].readyState = "OPEN"
                           \/ sockets[socketRef].readyState = "CLOSING"
    BY DEF StatusIsTruthful
  <2>1. CASE Connected
    <3>1. sockets[socketRef] \in Socket(Len(effects)) /\ socketRef # 0
      BY <2>1 DEF Connected, PageInv, PartTyped, SocketsTyped
    <3>2. sockets[socketRef].readyState \in ReadyStates
      BY <3>1 DEF Socket
    <3> QED
      BY <2>1, <3>1, <3>2 DEF Connected, ReadyStates
  <2>2. CASE Waiting
    BY <2>2 DEF Waiting
  <2> QED
    BY <2>1, <2>2 DEF PageInv, ConnInv, Away
<1> QED
  BY <1>1, PageInvHolds, PTL

\* Every order that leaves the page gets through FIX and the parser and is one
\* the engine's constructor takes (OrderEntry.tsx, FixParser.java, Order.java).
THEOREM EveryOrderIsAcceptable == PageSpec => []OrdersAreAcceptable
<1>1. PageInv => OrdersAreAcceptable
  <2> SUFFICES ASSUME PageInv, NEW i \in DOMAIN written, written[i].type = "NEW",
                      NEW f, f = written[i]
               PROVE  /\ IsParsed(newOrderSingle(f))
                      /\ f.qty <= MAX_INT =>
                            TicketOf(f) = TermsOf(f) /\ ConstructorAccepts(TicketOf(f))
    BY DEF OrdersAreAcceptable, NewFrames
  <2>1. f \in NewOrderFrame
    BY DEF PageInv, CountsTyped, NewOrderFrame, CancelOrderFrame
  <2>2. ConstructorAccepts(TermsOf(f))
    BY DEF PageInv, TermsAreAcceptable, AcceptableFrame
  <2>3. TermsOf(f) = FrameTerms(f)
    BY DEF TermsOf, FrameTerms
  <2> QED
    BY <2>1, <2>2, <2>3, FramesArrive
<1> QED
  BY <1>1, PageInvHolds, PTL

\* The rows are the orders that were written, each once, newest first
\* (emit in App.tsx, applySent in reducer.ts).
THEOREM TheRowsAreTheWrittenOrders == PageSpec => []RowsAreTheWrittenOrders
<1>1. PageInv => RowsAreTheWrittenOrders
  BY DEF PageInv
<1> QED
  BY <1>1, PageInvHolds, PTL

\* An order is written under the id the ticket showed (clOrdIdPreview).
THEOREM TheShownIdIsUsed == PageSpec => ShownIdIsUsed
<1>1. PageInv /\ [PageNext]_pageVars => [NewOrdersWereShown]_pageVars
  BY PageStepKeeps
<1>2. PageSpec => [][NewOrdersWereShown]_pageVars
  BY <1>1, PageInvHolds, PTL DEF PageSpec
<1> QED
  BY <1>2 DEF ShownIdIsUsed, NewOrdersWereShown
=============================================================================
