---------------------------- MODULE ClientSocket ----------------------------
(***************************************************************************)
(* The life of the client's socket (state/useOrderBook.ts): an effect that *)
(* connects when the page mounts, reconnects after every close with a      *)
(* capped backoff, narrows each message and dispatches it to the reducer,  *)
(* and a cleanup that must leave nothing behind that still dispatches.     *)
(*                                                                         *)
(* React runs the effect twice in StrictMode: mount, cleanup, mount.  Each *)
(* run has its own local variables (disposed, socket, timer, attempt), the *)
(* record effects[e]; socketRef and the state outlive a run.               *)
(*                                                                         *)
(* A socket's ready state is the browser's: CLOSING from the moment it     *)
(* knows the connection is going until the close event.  A message is what *)
(* arrives as text, with the names of the fields that are not what the     *)
(* contract says; NotJson stands for text that is no JSON object.          *)
(***************************************************************************)
EXTENDS Reducer, FiniteSets

CONSTANTS
    Messages,           \* what the server may send: frame and malformed fields
    MaxMessages,        \* bound on the messages that arrive
    MaxEffects,         \* bound on the runs of the effect
    MaxFailures         \* bound on failed attempts and lost connections

NotJson == "notJson"

ASSUME SocketAssumption ==
    /\ \A message \in Messages :
          message.frame \in ServerFrame /\ message.malformed \subseteq STRING
    /\ MaxMessages \in Nat /\ MaxEffects \in Nat /\ MaxFailures \in Nat

VARIABLES
    sockets,     \* every socket made so far
    socketRef,   \* socketRef.current: a socket, or 0 for null
    effects,     \* the runs of the effect, with their local variables
    app,         \* the AppState
    written,     \* the frames written to a socket, in order
    messages,    \* number of messages that have arrived
    failures     \* number of failures so far

socketVars == <<sockets, socketRef, effects, app, written, messages, failures>>

ReadyStates == {"CONNECTING", "OPEN", "CLOSING", "CLOSED"}

SocketInit ==
    /\ sockets = <<>> /\ socketRef = 0 /\ effects = <<>>
    /\ app = initialState /\ written = <<>>
    /\ messages = 0 /\ failures = 0

Dispatch(status) == app' = reduceConnection(app, status)

-----------------------------------------------------------------------------
(***************************************************************************)
(* parseServerFrame: a frame is passed on only if every field its type     *)
(* calls for is what it should be; others are not looked at.  The          *)
(* direction of a FIX frame, a literal, is left out: a frame that lacks it *)
(* is dropped like one with any other malformed field.                     *)
(***************************************************************************)
\* (fault) The type of an execution is not looked at.
IsWellFormedButType(message) ==
    message.malformed \cap (DOMAIN message.frame \ {"execType"}) = {}
      /\ NotJson \notin message.malformed

IsWellFormed(message) ==
    message.malformed \cap (DOMAIN message.frame \cup {NotJson}) = {}

\* The frame with what would stand in a field that was not narrowed.
Narrowed(message) ==
    [ f \in DOMAIN message.frame |->
        IF f \in message.malformed THEN Undefined ELSE message.frame[f] ]

-----------------------------------------------------------------------------
(***************************************************************************)
(* The effect.                                                             *)
(***************************************************************************)
MAX_BACKOFF_MS == 4000

\* Doubled from 250 ms with each attempt, up to 4 s.
Backoff(attempt) ==
    IF attempt < 4 THEN <<250, 500, 1000, 2000>>[attempt + 1] ELSE MAX_BACKOFF_MS

NewSocket(e) == [ readyState |-> "CONNECTING", attached |-> TRUE, effect |-> e ]

\* connect(), which does nothing once its run is disposed of.
Connect(e, runs) ==
    IF runs[e].disposed
    THEN effects' = runs /\ UNCHANGED <<sockets, socketRef, app>>
    ELSE /\ Dispatch(IF runs[e].attempt = 0 THEN "connecting" ELSE "reconnecting")
         /\ sockets' = Append(sockets, NewSocket(e))
         /\ socketRef' = Len(sockets) + 1
         /\ effects' = [runs EXCEPT ![e].socket = Len(sockets) + 1]

Mounted == effects # <<>> /\ ~ effects[Len(effects)].disposed

Mount ==
    /\ ~ Mounted /\ Len(effects) < MaxEffects
    /\ Connect(Len(effects) + 1,
               Append(effects, [ disposed |-> FALSE, socket |-> 0,
                                 delay |-> 0, attempt |-> 0 ]))
    /\ UNCHANGED <<written, messages, failures>>

\* (fault) The handlers stay on the socket that is closed.
CleanupUndetached(e) ==
    /\ effects' = [effects EXCEPT ![e].disposed = TRUE]
    /\ socketRef' = 0
    /\ sockets' = [s \in DOMAIN sockets |->
          IF s = effects[e].socket
          THEN [sockets[s] EXCEPT !.readyState =
                   IF @ = "CLOSED" THEN @ ELSE "CLOSING"]
          ELSE sockets[s]]

\* The cleanup of run e: a pending timer is cleared, the socket detached and
\* closed.
Cleanup(e) ==
    /\ effects' = [effects EXCEPT ![e].disposed = TRUE, ![e].delay = 0]
    /\ socketRef' = 0
    /\ sockets' = [s \in DOMAIN sockets |->
          IF s = effects[e].socket
          THEN [sockets[s] EXCEPT !.attached = FALSE,
                   !.readyState = IF @ = "CLOSED" THEN @ ELSE "CLOSING"]
          ELSE sockets[s]]

Unmount ==
    /\ Mounted
    /\ Cleanup(Len(effects))
    /\ UNCHANGED <<app, written, messages, failures>>

\* The timer set by onclose fires.
TimerFires(e) ==
    /\ effects[e].delay > 0
    /\ Connect(e, [effects EXCEPT ![e].delay = 0])
    /\ UNCHANGED <<written, messages, failures>>

-----------------------------------------------------------------------------
(***************************************************************************)
(* The browser's events.  They run a handler only where one is attached,   *)
(* and a handler returns at once when its run is disposed of.              *)
(***************************************************************************)
IsHandled(s) == sockets[s].attached /\ ~ effects[sockets[s].effect].disposed

BecomesReady(s, readyState) ==
    sockets' = [sockets EXCEPT ![s].readyState = readyState]

\* (fault) A connection that succeeds does not count as one: the status stays.
OpenedQuietly(e) ==
    effects' = [effects EXCEPT ![e].attempt = 0] /\ UNCHANGED app

Opened(e) == effects' = [effects EXCEPT ![e].attempt = 0] /\ Dispatch("open")

SocketOpens(s) ==
    /\ sockets[s].readyState = "CONNECTING"
    /\ BecomesReady(s, "OPEN")
    /\ IF IsHandled(s) THEN Opened(sockets[s].effect) ELSE UNCHANGED <<effects, app>>
    /\ UNCHANGED <<socketRef, written, messages, failures>>

\* The connection is lost: the close event comes later.
SocketLost(s) ==
    /\ sockets[s].readyState = "OPEN" /\ failures < MaxFailures
    /\ BecomesReady(s, "CLOSING")
    /\ failures' = failures + 1
    /\ UNCHANGED <<socketRef, effects, app, written, messages>>

\* (fault) A retry is set only for a connection that had opened.
ClosedRetryOnce(s) ==
    LET e == sockets[s].effect
    IN  /\ sockets' = [sockets EXCEPT ![s].attached = FALSE, ![s].readyState = "CLOSED"]
        /\ socketRef' = IF socketRef = s THEN 0 ELSE socketRef
        /\ Dispatch("reconnecting")
        /\ effects' = [effects EXCEPT ![e].socket = 0, ![e].attempt = @ + 1,
              ![e].delay = IF app.connection = "open" THEN Backoff(0) ELSE 0]

\* onclose: the next attempt is set for after the backoff.
Closed(s) ==
    LET e == sockets[s].effect
    IN  /\ sockets' = [sockets EXCEPT ![s].attached = FALSE, ![s].readyState = "CLOSED"]
        /\ socketRef' = IF socketRef = s THEN 0 ELSE socketRef
        /\ Dispatch("reconnecting")
        /\ effects' = [effects EXCEPT ![e].socket = 0, ![e].attempt = @ + 1,
              ![e].delay = Backoff(effects[e].attempt)]

SocketCloses(s) ==
    /\ \/ sockets[s].readyState = "CLOSING" /\ UNCHANGED failures
       \/ /\ sockets[s].readyState = "CONNECTING" /\ failures < MaxFailures
          /\ failures' = failures + 1
    /\ IF IsHandled(s) THEN Closed(s)
       ELSE BecomesReady(s, "CLOSED") /\ UNCHANGED <<socketRef, effects, app>>
    /\ UNCHANGED <<written, messages>>

\* A message the parser refuses is dropped.
MessageArrives(s, message) ==
    /\ sockets[s].readyState = "OPEN" /\ messages < MaxMessages
    /\ messages' = messages + 1
    /\ app' = IF IsHandled(s) /\ IsWellFormed(message)
              THEN reduceFrame(app, Narrowed(message)) ELSE app
    /\ UNCHANGED <<sockets, socketRef, effects, written, failures>>

-----------------------------------------------------------------------------
\* send() writes only to a socket that is open, and returns false otherwise.
CanSend == socketRef # 0 /\ sockets[socketRef].readyState = "OPEN"

\* (fault) The row is added before it is known that the frame is written.
SendEagerly(frame) ==
    /\ app' = reduceSent(app, frame)
    /\ written' = IF CanSend THEN Append(written, frame) ELSE written
    /\ UNCHANGED <<sockets, socketRef, effects, messages, failures>>

Send(frame) ==
    /\ IF CanSend
       THEN written' = Append(written, frame) /\ app' = reduceSent(app, frame)
       ELSE UNCHANGED <<written, app>>
    /\ UNCHANGED <<sockets, socketRef, effects, messages, failures>>

SocketNext ==
    \/ Mount \/ Unmount
    \/ \E e \in DOMAIN effects : TimerFires(e)
    \/ \E s \in DOMAIN sockets :
          \/ SocketOpens(s) \/ SocketLost(s) \/ SocketCloses(s)
          \/ \E message \in Messages : MessageArrives(s, message)

-----------------------------------------------------------------------------
SocketTypeOK ==
    /\ sockets \in Seq([ readyState : ReadyStates, attached : BOOLEAN,
                         effect : DOMAIN effects ])
    /\ socketRef \in 0 .. Len(sockets)
    /\ effects \in Seq([ disposed : BOOLEAN, socket : 0 .. Len(sockets),
                         delay : 0 .. MAX_BACKOFF_MS, attempt : Nat ])
    /\ app \in AppState
    /\ written \in Seq(NewOrderFrame \cup CancelOrderFrame)
    /\ messages \in 0 .. MaxMessages /\ failures \in 0 .. MaxFailures

\* A socket or a timer that can still dispatch.
LiveSockets == {s \in DOMAIN sockets : sockets[s].attached}
LiveTimers  == {e \in DOMAIN effects : effects[e].delay > 0}

(***************************************************************************)
(* The doc comment of useOrderBook: a double-invoked mount leaves no       *)
(* orphan connection and no zombie reconnect loop.  At every moment there  *)
(* is one socket with handlers or one pending timer if the page is         *)
(* mounted, of the current run, and none if it is not; and what send       *)
(* writes to is that socket.                                               *)
(***************************************************************************)
OneLiveConnection ==
    /\ Cardinality(LiveSockets) + Cardinality(LiveTimers) = IF Mounted THEN 1 ELSE 0
    /\ \A s \in LiveSockets :
          sockets[s].effect = Len(effects) /\ socketRef = s
    /\ \A e \in LiveTimers : e = Len(effects) /\ socketRef = 0
    /\ \A s \in DOMAIN sockets :
          s \notin LiveSockets => sockets[s].readyState \in {"CLOSING", "CLOSED"}

(***************************************************************************)
(* While the page is mounted the status it shows tells what send would do: *)
(* it is open exactly while the socket is open, or lost but not yet closed *)
(* (where send returns false and the frame is not written).                *)
(***************************************************************************)
StatusIsTruthful ==
    Mounted =>
        (app.connection = "open" <=>
            /\ socketRef # 0
            /\ \/ sockets[socketRef].readyState = "OPEN"
               \/ sockets[socketRef].readyState = "CLOSING")

(***************************************************************************)
(* A page that stays mounted ends up connected, and stays so, once the     *)
(* server stops failing: no close goes without a retry.                    *)
(***************************************************************************)
EventuallyOpen == <>[]Mounted => <>[](app.connection = "open" /\ CanSend)
=============================================================================
