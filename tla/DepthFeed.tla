----------------------------- MODULE DepthFeed -----------------------------
(***************************************************************************)
(* How the book reaches the clients: the engine thread puts one snapshot   *)
(* per event on a ring, a consumer thread caches it and broadcasts it to   *)
(* the connected channels, and the one network thread sends the cached     *)
(* snapshot to a client that connects.  Three threads and the clients run  *)
(* concurrently; nothing but the ring, a volatile field and a concurrent   *)
(* set lies between them.                                                  *)
(*                                                                         *)
(* A snapshot is the number of the event it was taken after; 0 stands for  *)
(* none (an empty cache, an empty ladder).  A channel is one connection of *)
(* a client: <<client, n>> is its n-th.  What a channel's socket carries   *)
(* is shown at once, or lost if the client has gone: a frame in flight     *)
(* when the connection drops is as if the connection had dropped before.   *)
(*                                                                         *)
(* Operators marked (fault) are plausible slips in the operator after      *)
(* them, used only to show which property notices.                         *)
(***************************************************************************)
EXTENDS Integers, Sequences

CONSTANTS
    Clients,
    RingSize,           \* slots of the snapshot ring (1024 in the code)
    MaxEvents,          \* bound on the events the engine handles
    MaxConnections      \* bound on the connections of one client

ASSUME RingSizeAssumption == RingSize \in Nat \ {0}
ASSUME FeedBoundsAssumption == MaxEvents \in Nat /\ MaxConnections \in Nat

Channels  == Clients \X (1 .. MaxConnections)
Consumers == {"publisher", "marketData"}

VARIABLES
    slots,       \* the ring: slot -> the snapshot last written to it
    published,   \* snapshots put on the ring so far
    handled,     \* consumer -> snapshots it is done with
    quote,       \* MarketDataService.quote: the snapshot it derives from
    publisherPc, \* where WebSocketPublisher.onSnapshot is
    frame,       \* its local variable json
    due,         \* the channels in the group when its broadcast began
    sentTo,      \* the channels its broadcast has reached
    cache,       \* BookFrameCache.latest
    group,       \* the ChannelGroup
    handshakes,  \* channels whose HandshakeComplete the network thread has yet to handle
    queued,      \* channel -> writes from other threads its event loop has yet to run
    workerPc,    \* where the network thread is
    workerChannel, \* the channel whose handshake it handles
    json,        \* its local variable json in sendBookSnapshot
    connection,  \* client -> number of its latest connection
    up,          \* the clients whose latest connection stands
    shown,       \* client -> the snapshot its ladder shows
    viaCache     \* the clients whose ladder shows a snapshot sent on connect (history)

ringVars      == <<slots, published, handled, quote>>
publisherVars == <<publisherPc, frame, due, sentTo, cache>>
workerVars    == <<workerPc, workerChannel, json, handshakes>>
clientVars    == <<connection, up, shown, viaCache>>
feedVars      == <<ringVars, publisherVars, workerVars, group, queued, clientVars>>

FeedInit ==
    /\ slots = [i \in 0 .. RingSize - 1 |-> 0] /\ published = 0
    /\ handled = [k \in Consumers |-> 0] /\ quote = 0
    /\ publisherPc = "idle" /\ frame = 0 /\ due = {} /\ sentTo = {} /\ cache = 0
    /\ group = {} /\ queued = [ch \in Channels |-> <<>>]
    /\ workerPc = "idle" /\ workerChannel = <<>> /\ json = 0 /\ handshakes = {}
    /\ connection = [c \in Clients |-> 0] /\ up = {}
    /\ shown = [c \in Clients |-> 0] /\ viaCache = {}

-----------------------------------------------------------------------------
(***************************************************************************)
(* The engine thread and the ring.  next() waits for the slowest consumer. *)
(***************************************************************************)
\* (fault) Only the publisher holds the ring back.
SlotIsFreeForOne == published - handled["publisher"] < RingSize

SlotIsFree == \A k \in Consumers : published - handled[k] < RingSize

\* publishSnapshot, which ends every onEvent.
PublishSnapshot ==
    /\ published < MaxEvents
    /\ SlotIsFree
    /\ slots' = [slots EXCEPT ![published % RingSize] = published + 1]
    /\ published' = published + 1
    /\ UNCHANGED <<handled, quote, publisherVars, group, queued, workerVars, clientVars>>

\* MarketDataService.onEvent, on a consumer thread of its own.
DeriveQuote ==
    /\ handled["marketData"] < published
    /\ quote' = slots[handled["marketData"] % RingSize]
    /\ handled' = [handled EXCEPT !["marketData"] = @ + 1]
    /\ UNCHANGED <<slots, published, publisherVars, group, queued, workerVars, clientVars>>

-----------------------------------------------------------------------------
(***************************************************************************)
(* WebSocketPublisher.onSnapshot.                                          *)
(***************************************************************************)
Serialize ==
    /\ publisherPc = "idle" /\ handled["publisher"] < published
    /\ frame' = slots[handled["publisher"] % RingSize]
    /\ publisherPc' = "serialized"
    /\ UNCHANGED <<ringVars, due, sentTo, cache, group, queued, workerVars, clientVars>>

\* (fault) The cache is filled once.
SetCacheOnce ==
    /\ publisherPc = "serialized"
    /\ cache' = IF cache = 0 THEN frame ELSE cache
    /\ publisherPc' = "cached"
    /\ UNCHANGED <<ringVars, frame, due, sentTo, group, queued, workerVars, clientVars>>

\* (fault) With no client to send to, the cache is not brought up to date.
SetCacheForClients ==
    /\ publisherPc = "serialized"
    /\ cache' = IF group = {} THEN cache ELSE frame
    /\ publisherPc' = "cached"
    /\ UNCHANGED <<ringVars, frame, due, sentTo, group, queued, workerVars, clientVars>>

SetCache ==
    /\ publisherPc = "serialized"
    /\ cache' = frame
    /\ publisherPc' = "cached"
    /\ UNCHANGED <<ringVars, frame, due, sentTo, group, queued, workerVars, clientVars>>

\* onSnapshot returns: the ring may reuse the slot.
OnSnapshotReturns ==
    /\ publisherPc' = "idle"
    /\ handled' = [handled EXCEPT !["publisher"] = @ + 1]
    /\ UNCHANGED <<slots, published, quote, frame, due, sentTo, cache>>

NobodyConnected ==
    /\ publisherPc = "cached" /\ group = {}
    /\ OnSnapshotReturns
    /\ UNCHANGED <<group, queued, workerVars, clientVars>>

BroadcastBegins ==
    /\ publisherPc = "cached" /\ group # {}
    /\ due' = group /\ sentTo' = {}
    /\ publisherPc' = "sending"
    /\ UNCHANGED <<ringVars, frame, cache, group, queued, workerVars, clientVars>>

\* (fault) The consumer waits for each write before it goes on.
BroadcastToAwaited(ch) ==
    /\ publisherPc = "sending" /\ ch \in group \ sentTo
    /\ \A other \in Channels : queued[other] = <<>>
    /\ queued' = [queued EXCEPT ![ch] = Append(@, frame)]
    /\ sentTo' = sentTo \cup {ch}
    /\ UNCHANGED <<ringVars, publisherPc, frame, due, cache, group, workerVars, clientVars>>

\* writeAndFlush from outside a channel's event loop queues the write there.
\* The group's iterator may meet a channel that joins under way, or miss it.
BroadcastTo(ch) ==
    /\ publisherPc = "sending" /\ ch \in group \ sentTo
    /\ queued' = [queued EXCEPT ![ch] = Append(@, frame)]
    /\ sentTo' = sentTo \cup {ch}
    /\ UNCHANGED <<ringVars, publisherPc, frame, due, cache, group, workerVars, clientVars>>

\* (fault) One failing channel ends the broadcast.
BroadcastEndsEarly ==
    /\ publisherPc = "sending" /\ sentTo # {}
    /\ OnSnapshotReturns
    /\ UNCHANGED <<group, queued, workerVars, clientVars>>

BroadcastEnds ==
    /\ publisherPc = "sending" /\ due \cap group \subseteq sentTo
    /\ OnSnapshotReturns
    /\ UNCHANGED <<group, queued, workerVars, clientVars>>

Publisher ==
    \/ Serialize \/ SetCache \/ NobodyConnected \/ BroadcastBegins
    \/ \E ch \in Channels : BroadcastTo(ch)
    \/ BroadcastEnds

-----------------------------------------------------------------------------
(***************************************************************************)
(* The network thread: one event loop for all channels.                    *)
(***************************************************************************)
IsLatest(ch) == ch[1] \in up /\ ch[2] = connection[ch[1]]

\* What the socket of the channel carries reaches the client while it is there.
Show(ch, snapshot, fromCache) ==
    IF IsLatest(ch)
    THEN /\ shown' = [shown EXCEPT ![ch[1]] = snapshot]
         /\ viaCache' = IF fromCache THEN viaCache \cup {ch[1]} ELSE viaCache \ {ch[1]}
    ELSE UNCHANGED <<shown, viaCache>>

\* userEventTriggered: the channel joins the group.
HandshakeComplete(ch) ==
    /\ workerPc = "idle" /\ ch \in handshakes
    /\ handshakes' = handshakes \ {ch}
    /\ group' = group \cup {ch}
    /\ workerPc' = "joined" /\ workerChannel' = ch
    /\ UNCHANGED <<ringVars, publisherVars, queued, json, clientVars>>

\* sendBookSnapshot reads the cache, and then writes what it read.
ReadCache ==
    /\ workerPc = "joined"
    /\ json' = cache
    /\ workerPc' = "read"
    /\ UNCHANGED <<ringVars, publisherVars, group, queued, workerChannel, handshakes,
                    clientVars>>

WriteSnapshot ==
    /\ workerPc = "read"
    /\ IF json = 0 THEN UNCHANGED <<shown, viaCache>> ELSE Show(workerChannel, json, TRUE)
    /\ workerPc' = "idle"
    /\ UNCHANGED <<ringVars, publisherVars, group, queued, workerChannel, json, handshakes,
                    connection, up>>

\* The event loop runs a write that another thread queued; writes to one
\* channel run in the order they were queued.
RunWrite(ch) ==
    /\ workerPc = "idle" /\ queued[ch] # <<>>
    /\ Show(ch, Head(queued[ch]), FALSE)
    /\ queued' = [queued EXCEPT ![ch] = Tail(@)]
    /\ UNCHANGED <<ringVars, publisherVars, group, workerVars, connection, up>>

\* The server notices that a connection is gone: the group drops the channel.
ChannelClosed(ch) ==
    /\ workerPc = "idle" /\ ch \in group /\ ~ IsLatest(ch)
    /\ group' = group \ {ch}
    /\ UNCHANGED <<ringVars, publisherVars, queued, workerVars, clientVars>>

Worker ==
    \/ \E ch \in Channels : HandshakeComplete(ch) \/ RunWrite(ch) \/ ChannelClosed(ch)
    \/ ReadCache \/ WriteSnapshot

-----------------------------------------------------------------------------
(***************************************************************************)
(* The clients (useOrderBook).  The ladder survives a drop: the reducer    *)
(* keeps the book until the next one replaces it.                          *)
(***************************************************************************)
Connect(c) ==
    /\ c \notin up /\ connection[c] < MaxConnections
    /\ connection' = [connection EXCEPT ![c] = @ + 1]
    /\ up' = up \cup {c}
    /\ handshakes' = handshakes \cup {<<c, connection[c] + 1>>}
    /\ UNCHANGED <<ringVars, publisherVars, group, queued, workerPc, workerChannel, json,
                    shown, viaCache>>

Drop(c) ==
    /\ c \in up
    /\ up' = up \ {c}
    /\ UNCHANGED <<ringVars, publisherVars, group, queued, workerVars, connection, shown,
                    viaCache>>

FeedNext ==
    \/ PublishSnapshot \/ DeriveQuote \/ Publisher \/ Worker
    \/ \E c \in Clients : Connect(c) \/ Drop(c)

FeedSpec == FeedInit /\ [][FeedNext]_feedVars

\* The consumer threads of the ring run; nothing is asked of the network.
ConsumersFair == WF_feedVars(DeriveQuote) /\ WF_feedVars(Publisher)
FairConsumersSpec == FeedSpec /\ ConsumersFair

\* MarketDataService stands still and the threads of the clients' path run.
StalledQuoteSpec == FeedSpec /\ WF_feedVars(Publisher) /\ WF_feedVars(Worker)

-----------------------------------------------------------------------------
\* Every variable holds a value of its kind.
FeedTypeOK ==
    /\ slots \in [0 .. RingSize - 1 -> Nat]
    /\ published \in Nat /\ quote \in Nat /\ frame \in Nat /\ cache \in Nat /\ json \in Nat
    /\ handled \in [Consumers -> Nat]
    /\ publisherPc \in {"idle", "serialized", "cached", "sending"}
    /\ workerPc \in {"idle", "joined", "read"}
    /\ workerPc # "idle" => workerChannel \in Channels
    /\ due \subseteq Channels /\ sentTo \subseteq Channels
    /\ group \subseteq Channels /\ handshakes \subseteq Channels
    /\ queued \in [Channels -> Seq(Nat)]
    /\ connection \in [Clients -> 0 .. MaxConnections]
    /\ up \subseteq Clients /\ viaCache \subseteq Clients
    /\ shown \in [Clients -> Nat]

(***************************************************************************)
(* Each consumer reads every snapshot once and in order, and no slot is    *)
(* written again while a consumer may still read it.  The event objects    *)
(* are reused, so a slot freed too soon would show one book under the      *)
(* counts of another.                                                      *)
(***************************************************************************)
SlotsIntact ==
    /\ quote = handled["marketData"]
    /\ publisherPc # "idle" => frame = handled["publisher"] + 1

(***************************************************************************)
(* The cache is never behind what a client has been shown or is about to   *)
(* be: a client that reconnects is not sent an older book than it had.     *)
(***************************************************************************)
CacheIsAhead ==
    /\ \A c \in Clients : shown[c] <= cache
    /\ \A ch \in Channels : \A i \in DOMAIN queued[ch] : queued[ch][i] <= cache

\* Nothing is on its way to the client's standing connection.
NothingPending(c) ==
    LET ch == <<c, connection[c]>>
    IN  /\ c \in up /\ ch \in group /\ queued[ch] = <<>>
        /\ workerPc # "idle" => workerChannel # ch

(***************************************************************************)
(* Snapshot on connect: when the publisher has sent all there is and       *)
(* nothing is on its way to a client, its ladder shows the current book,   *)
(* whatever raced while it connected.  (The comment on sendBookSnapshot    *)
(* leaves that to the next event.)                                         *)
(***************************************************************************)
ShowsCurrentBook ==
    \A c \in Clients :
        publisherPc = "idle" /\ handled["publisher"] = published /\ NothingPending(c)
            => shown[c] = published

(***************************************************************************)
(* A ladder goes back to an older book only right after the snapshot sent  *)
(* on connect, which overtakes broadcasts queued before it; never after a  *)
(* broadcast, and never from one connection to the next.                   *)
(***************************************************************************)
BackOnlyAfterConnect ==
    [][\A c \in Clients : shown'[c] < shown[c] => c \in viaCache]_feedVars

(***************************************************************************)
(* Where the network thread runs, a client that stays connected ends up    *)
(* with the current book once the orders stop, with no further event       *)
(* needed.                                                                 *)
(***************************************************************************)
ClientsCatchUp ==
    WF_feedVars(Worker) =>
        \A c \in Clients : <>[](c \in up) => <>[](shown[c] = published)

(***************************************************************************)
(* A full ring gets room again although no client reads and the network    *)
(* thread stands still: writeAndFlush does not wait, so a slow client      *)
(* cannot hold the engine.                                                 *)
(***************************************************************************)
RingGetsRoom == ~ SlotIsFree ~> SlotIsFree

(***************************************************************************)
(* What the comment at the wiring of the consumers (Main) says: none of    *)
(* them blocks the others or the engine.  The engine would find a slot     *)
(* again and again, also when one consumer stands still.                   *)
(***************************************************************************)
NoneBlocksTheEngine == []<>SlotIsFree

(***************************************************************************)
(* What the comment at the socket's onclose (useOrderBook) says: a drop    *)
(* clears the book.                                                        *)
(***************************************************************************)
DropClearsTheLadder ==
    [][\A c \in Clients : c \in up /\ c \notin up' => shown'[c] = 0]_feedVars
=============================================================================
