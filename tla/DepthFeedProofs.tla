-------------------------- MODULE DepthFeedProofs --------------------------
(***************************************************************************)
(* For any clients, ring size and bounds: no slot of the ring is reused    *)
(* too soon, the cache is never behind a client, and a client with nothing *)
(* on its way shows the current book.                                      *)
(*                                                                         *)
(* The heart of the invariant is IsFresh: the last frame on its way to a   *)
(* connected client, or its ladder when there is none, is what the cache   *)
(* holds, or the one before while the publisher has yet to send it.        *)
(***************************************************************************)
EXTENDS DepthFeed, SequenceTheorems, TLAPS

RingHolds ==
    /\ \A k \in Consumers : handled[k] <= published /\ published - handled[k] <= RingSize
    /\ \A k \in Consumers : \A j \in handled[k] .. published - 1 :
          slots[j % RingSize] = j + 1

PublisherHolds ==
    /\ quote = handled["marketData"]
    /\ publisherPc # "idle" =>
          handled["publisher"] < published /\ frame = handled["publisher"] + 1
    /\ cache = IF publisherPc \in {"cached", "sending"} THEN frame
                                                       ELSE handled["publisher"]

\* The channel has joined the group, if only to leave it again.
Joined(ch) == ch[2] <= connection[ch[1]] /\ ch \notin handshakes

ChannelsHold ==
    /\ \A ch \in handshakes : ch[2] <= connection[ch[1]]
    /\ \A ch \in group : Joined(ch)
    /\ \A ch \in due : Joined(ch)
    /\ \A ch \in sentTo : Joined(ch)
    /\ workerPc # "idle" => Joined(workerChannel)
    /\ \A ch \in Channels : ~ Joined(ch) => queued[ch] = <<>>

CacheHolds ==
    /\ CacheIsAhead
    /\ workerPc = "read" =>
          json <= cache /\ (json = 0 => shown[workerChannel[1]] = 0)

Reading(ch) == workerPc = "read" /\ workerChannel = ch

\* The last frame on its way to the client c over its channel ch.
LastFrame(c, ch) ==
    IF queued[ch] # <<>> THEN queued[ch][Len(queued[ch])]
    ELSE IF Reading(ch) THEN json ELSE shown[c]

\* The publisher has cached a frame that it has yet to send to ch.
YetToSend(ch) ==
    \/ publisherPc = "cached"
    \/ publisherPc = "sending" /\ ch \in due \ sentTo

IsFresh(c, ch) ==
    \/ LastFrame(c, ch) = cache
    \/ LastFrame(c, ch) = cache - 1 /\ YetToSend(ch)

\* The cache has not been read yet for a channel that has just joined.
Awaiting(ch) == workerPc = "joined" /\ workerChannel = ch /\ queued[ch] = <<>>

FreshHolds ==
    \A c \in up : \A ch \in group :
        ch = <<c, connection[c]>> /\ ~ Awaiting(ch) => IsFresh(c, ch)

FeedInv ==
    FeedTypeOK /\ RingHolds /\ PublisherHolds /\ ChannelsHold /\ CacheHolds /\ FreshHolds

-----------------------------------------------------------------------------
(***************************************************************************)
(* Two positions less than a ring apart have different slots.              *)
(***************************************************************************)
\* Dividing by the ring size leaves a slot number.
LEMMA SlotNumber ==
    ASSUME NEW R \in Nat \ {0}, NEW j \in Nat
    PROVE  /\ j % R \in 0 .. R - 1
           /\ j \div R \in Nat
           /\ j = (R * (j \div R)) + (j % R)
  OBVIOUS

\* A larger multiple of the ring size is larger by a ring size at least.
LEMMA NextLap ==
    ASSUME NEW R \in Nat \ {0}, NEW a \in Int, NEW b \in Int, b > a
    PROVE  R * b >= R * a + R
<1> DEFINE d == b - a
<1>1. d \in Nat /\ d >= 1 /\ b = a + d  OBVIOUS
<1>2. R * d >= R  BY <1>1, SMT
<1>3. R * b = R * a + R * d  BY <1>1, SMT
<1> QED  BY <1>2, <1>3

\* publishSnapshot writes no slot that a consumer has yet to read.
LEMMA DistinctSlots ==
    ASSUME NEW R \in Nat \ {0}, NEW j \in Nat, NEW p \in Nat, j < p, p - j < R
    PROVE  j % R # p % R
<1> SUFFICES ASSUME j % R = p % R PROVE FALSE  OBVIOUS
<1> DEFINE dj == j \div R  dp == p \div R  m == j % R
<1>1. /\ dj \in Nat /\ dp \in Nat /\ m \in 0 .. R - 1
      /\ j = R * dj + m /\ p = R * dp + m
  BY SlotNumber
<1> HIDE DEF dj, dp, m
<1>2. CASE dp > dj
  <2>1. R * dp >= R * dj + R  BY <1>1, <1>2, NextLap
  <2> QED  BY <2>1, <1>1
<1>3. CASE dp <= dj
  <2>1. R * dp <= R * dj  BY <1>1, <1>3
  <2> QED  BY <2>1, <1>1
<1> QED  BY <1>1, <1>2, <1>3

-----------------------------------------------------------------------------
(***************************************************************************)
(* The ring: its two writers of interest are the engine and a consumer     *)
(* that is done with a slot.                                               *)
(***************************************************************************)
\* At the start nothing is published, queued or shown.
LEMMA FeedInitHolds == FeedInit => FeedInv
<1> SUFFICES ASSUME FeedInit PROVE FeedInv  OBVIOUS
<1> USE RingSizeAssumption, FeedBoundsAssumption DEF FeedInit
<1>1. FeedTypeOK  BY DEF FeedTypeOK, Consumers, Channels
<1>2. RingHolds  BY DEF RingHolds, Consumers
<1>3. PublisherHolds  BY DEF PublisherHolds, Consumers
<1>4. ChannelsHold  BY DEF ChannelsHold, Joined, Channels
<1>5. CacheHolds  BY DEF CacheHolds, CacheIsAhead, Channels
<1>6. FreshHolds  BY DEF FreshHolds
<1> QED  BY <1>1, <1>2, <1>3, <1>4, <1>5, <1>6 DEF FeedInv

\* The parts that a step of the ring alone leaves as they are.
LEMMA RingStepKeepsChannels ==
    ASSUME FeedInv, UNCHANGED <<publisherVars, group, queued, workerVars, clientVars>>
    PROVE  ChannelsHold' /\ CacheHolds' /\ FreshHolds'
<1> USE DEF FeedInv, publisherVars, workerVars, clientVars
<1>1. ChannelsHold'  BY DEF ChannelsHold, Joined
<1>2. CacheHolds'  BY DEF CacheHolds, CacheIsAhead
<1>3. FreshHolds'  BY DEF FreshHolds, IsFresh, LastFrame, Reading, YetToSend, Awaiting
<1> QED  BY <1>1, <1>2, <1>3

\* publishSnapshot: the slot it writes is free.
LEMMA PublishSnapshotKeepsInv == ASSUME FeedInv, PublishSnapshot PROVE FeedInv'
<1> USE RingSizeAssumption DEF Consumers
<1>1. /\ published \in Nat /\ handled \in [Consumers -> Nat]
      /\ slots \in [0 .. RingSize - 1 -> Nat]
  BY DEF FeedInv, FeedTypeOK
<1>2. published % RingSize \in 0 .. RingSize - 1  BY <1>1, SlotNumber
<1>3. FeedTypeOK'
  BY <1>1, <1>2 DEF FeedInv, FeedTypeOK, PublishSnapshot, publisherVars, workerVars, clientVars
<1>4. RingHolds'
  <2>1. \A k \in Consumers : handled'[k] <= published'
                               /\ published' - handled'[k] <= RingSize
    BY <1>1 DEF FeedInv, RingHolds, PublishSnapshot, SlotIsFree
  <2>2. ASSUME NEW k \in Consumers, NEW j \in handled'[k] .. published' - 1
        PROVE  slots'[j % RingSize] = j + 1
    <3>1. j \in Nat /\ j <= published /\ handled'[k] = handled[k]
      BY <1>1 DEF PublishSnapshot
    <3>2. j % RingSize \in 0 .. RingSize - 1  BY <3>1, SlotNumber
    <3>3. CASE j = published
      BY <1>1, <1>2, <3>3 DEF PublishSnapshot
    <3>4. CASE j # published
      <4>1. j < published /\ published - j < RingSize
        BY <1>1, <3>1, <3>4 DEF PublishSnapshot, SlotIsFree
      <4>2. j % RingSize # published % RingSize  BY <1>1, <3>1, <4>1, DistinctSlots
      <4>3. slots'[j % RingSize] = slots[j % RingSize]
        BY <1>1, <3>2, <4>2 DEF PublishSnapshot
      <4>4. j \in handled[k] .. published - 1  BY <1>1, <3>1, <4>1
      <4> QED  BY <4>3, <4>4 DEF FeedInv, RingHolds
    <3> QED  BY <3>3, <3>4
  <2> QED  BY <2>1, <2>2 DEF RingHolds
<1>5. PublisherHolds'
  BY <1>1 DEF FeedInv, PublisherHolds, PublishSnapshot, publisherVars
<1> QED
  BY <1>3, <1>4, <1>5, RingStepKeepsChannels DEF FeedInv, PublishSnapshot

\* A consumer that is done with a slot leaves the others theirs.
LEMMA DoneKeepsRing ==
    ASSUME FeedTypeOK, RingHolds, NEW k \in Consumers, handled[k] < published,
           handled' = [handled EXCEPT ![k] = @ + 1], UNCHANGED <<slots, published>>
    PROVE  RingHolds'
<1> USE RingSizeAssumption
<1>1. published \in Nat /\ handled \in [Consumers -> Nat]  BY DEF FeedTypeOK
<1>2. \A c \in Consumers : /\ handled[c] \in Nat
                           /\ handled'[c] \in {handled[c], handled[c] + 1}
                           /\ handled'[c] <= published'
                           /\ published' - handled'[c] <= RingSize
  BY <1>1 DEF RingHolds
<1>3. ASSUME NEW c \in Consumers, NEW j \in handled'[c] .. published' - 1
      PROVE  slots'[j % RingSize] = j + 1
  <2>1. j \in handled[c] .. published - 1  BY <1>1, <1>2
  <2> QED  BY <2>1 DEF RingHolds
<1> QED  BY <1>2, <1>3 DEF RingHolds

\* MarketDataService.onEvent reads the slot of its own sequence.
LEMMA DeriveQuoteKeepsInv == ASSUME FeedInv, DeriveQuote PROVE FeedInv'
<1> USE RingSizeAssumption DEF Consumers
<1> DEFINE h == handled["marketData"]
<1>1. /\ published \in Nat /\ handled \in [Consumers -> Nat] /\ h \in Nat
      /\ slots \in [0 .. RingSize - 1 -> Nat]
  BY DEF FeedInv, FeedTypeOK
<1>2. h \in h .. published - 1  BY <1>1 DEF DeriveQuote
<1>3. slots[h % RingSize] = h + 1  BY <1>2 DEF FeedInv, RingHolds
<1>4. handled' = [handled EXCEPT !["marketData"] = h + 1] /\ quote' = h + 1
        /\ UNCHANGED <<slots, published, publisherVars, group, queued, workerVars, clientVars>>
  BY <1>3 DEF DeriveQuote
<1>5. FeedTypeOK'
  BY <1>1, <1>4 DEF FeedInv, FeedTypeOK, publisherVars, workerVars, clientVars
<1>6. RingHolds'
  BY <1>1, <1>2, <1>4, DoneKeepsRing DEF FeedInv
<1>7. PublisherHolds'
  BY <1>1, <1>4 DEF FeedInv, PublisherHolds, publisherVars
<1> QED
  BY <1>4, <1>5, <1>6, <1>7, RingStepKeepsChannels DEF FeedInv

-----------------------------------------------------------------------------
(***************************************************************************)
(* The publisher.                                                          *)
(***************************************************************************)
\* Serializing reads the slot of the publisher's own sequence.
LEMMA SerializeKeepsInv == ASSUME FeedInv, Serialize PROVE FeedInv'
<1> USE RingSizeAssumption DEF Consumers
<1> DEFINE h == handled["publisher"]
<1>1. /\ published \in Nat /\ handled \in [Consumers -> Nat] /\ h \in Nat
      /\ slots \in [0 .. RingSize - 1 -> Nat]
  BY DEF FeedInv, FeedTypeOK
<1>2. h \in h .. published - 1 /\ h < published  BY <1>1 DEF Serialize
<1>3. slots[h % RingSize] = h + 1  BY <1>2 DEF FeedInv, RingHolds
<1>4. /\ frame' = h + 1 /\ publisherPc = "idle" /\ publisherPc' = "serialized"
      /\ UNCHANGED <<ringVars, due, sentTo, cache, group, queued, workerVars, clientVars>>
  BY <1>3 DEF Serialize
<1> USE DEF ringVars, workerVars, clientVars
<1>5. FeedTypeOK'  BY <1>1, <1>4 DEF FeedInv, FeedTypeOK
<1>6. RingHolds'  BY <1>4 DEF FeedInv, RingHolds
<1>7. PublisherHolds'  BY <1>1, <1>2, <1>4 DEF FeedInv, PublisherHolds
<1>8. ChannelsHold'  BY <1>4 DEF FeedInv, ChannelsHold, Joined
<1>9. CacheHolds'  BY <1>4 DEF FeedInv, CacheHolds, CacheIsAhead
<1>10. FreshHolds'
  BY <1>4 DEF FeedInv, FreshHolds, IsFresh, LastFrame, Reading, YetToSend, Awaiting
<1> QED  BY <1>5, <1>6, <1>7, <1>8, <1>9, <1>10 DEF FeedInv

\* Caching moves the cache on by one, and every client's last frame is then
\* the one before it, yet to be followed by this one.
LEMMA SetCacheKeepsInv == ASSUME FeedInv, SetCache PROVE FeedInv'
<1> USE DEF ringVars, workerVars, clientVars
<1>1. /\ cache = handled["publisher"] /\ frame = handled["publisher"] + 1
      /\ cache \in Nat /\ frame = cache + 1 /\ json \in Nat
      /\ shown \in [Clients -> Nat] /\ queued \in [Channels -> Seq(Nat)]
  BY DEF FeedInv, FeedTypeOK, PublisherHolds, SetCache, Consumers
<1>2. /\ cache' = cache + 1 /\ publisherPc = "serialized" /\ publisherPc' = "cached"
      /\ UNCHANGED <<ringVars, frame, due, sentTo, group, queued, workerVars, clientVars>>
  BY <1>1 DEF SetCache
<1>3. FeedTypeOK'  BY <1>1, <1>2 DEF FeedInv, FeedTypeOK
<1>4. RingHolds'  BY <1>2 DEF FeedInv, RingHolds
<1>5. PublisherHolds'  BY <1>1, <1>2 DEF FeedInv, PublisherHolds
<1>6. ChannelsHold'  BY <1>2 DEF FeedInv, ChannelsHold, Joined
<1>7. CacheHolds'
  <2>1. ASSUME NEW c \in Clients PROVE shown'[c] <= cache'
    BY <1>1, <1>2 DEF FeedInv, CacheHolds, CacheIsAhead
  <2>2. ASSUME NEW ch \in Channels, NEW i \in DOMAIN queued'[ch]
        PROVE  queued'[ch][i] <= cache'
    <3>1. queued[ch][i] \in Nat /\ queued[ch][i] <= cache
      BY <1>1, <1>2 DEF FeedInv, CacheHolds, CacheIsAhead
    <3> QED  BY <3>1, <1>1, <1>2
  <2> QED  BY <1>1, <1>2, <2>1, <2>2 DEF FeedInv, CacheHolds, CacheIsAhead
<1>8. FreshHolds'
  <2>1. ASSUME NEW c \in up', NEW ch \in group', ch = <<c, connection'[c]>>, ~ Awaiting(ch)'
        PROVE  IsFresh(c, ch)'
    <3>1. ~ Awaiting(ch)  BY <1>2, <2>1 DEF Awaiting
    <3>2. IsFresh(c, ch) /\ ~ YetToSend(ch)
      BY <1>2, <2>1, <3>1 DEF FeedInv, FreshHolds, YetToSend
    <3>3. LastFrame(c, ch)' = LastFrame(c, ch)  BY <1>2 DEF LastFrame, Reading
    <3>4. YetToSend(ch)'  BY <1>2 DEF YetToSend
    <3> QED  BY <1>1, <1>2, <3>2, <3>3, <3>4 DEF IsFresh
  <2> QED  BY <2>1 DEF FreshHolds
<1> QED  BY <1>3, <1>4, <1>5, <1>6, <1>7, <1>8 DEF FeedInv

\* What remains to be shown of a step that ends onSnapshot: no client is
\* left with the frame before.
LEMMA ReturnKeepsInv ==
    ASSUME FeedInv, OnSnapshotReturns, publisherPc \in {"cached", "sending"},
           UNCHANGED <<group, queued, workerVars, clientVars>>,
           \A ch \in group : ~ YetToSend(ch)
    PROVE  FeedInv'
<1> USE DEF ringVars, workerVars, clientVars
<1>1. /\ published \in Nat /\ handled \in [Consumers -> Nat] /\ "publisher" \in Consumers
      /\ handled["publisher"] < published /\ frame = handled["publisher"] + 1
      /\ cache = frame /\ "marketData" \in Consumers
  BY DEF FeedInv, FeedTypeOK, PublisherHolds, Consumers
<1>2. /\ handled' = [handled EXCEPT !["publisher"] = @ + 1] /\ publisherPc' = "idle"
      /\ UNCHANGED <<slots, published, quote, frame, due, sentTo, cache>>
  BY DEF OnSnapshotReturns
<1>3. FeedTypeOK'  BY <1>1, <1>2 DEF FeedInv, FeedTypeOK
<1>4. RingHolds'  BY <1>1, <1>2, DoneKeepsRing DEF FeedInv
<1>5. PublisherHolds'  BY <1>1, <1>2 DEF FeedInv, PublisherHolds
<1>6. ChannelsHold'  BY <1>2 DEF FeedInv, ChannelsHold, Joined
<1>7. CacheHolds'  BY <1>2 DEF FeedInv, CacheHolds, CacheIsAhead
<1>8. FreshHolds'
  <2>1. ASSUME NEW c \in up', NEW ch \in group', ch = <<c, connection'[c]>>, ~ Awaiting(ch)'
        PROVE  IsFresh(c, ch)'
    <3>1. ~ Awaiting(ch)  BY <1>2, <2>1 DEF Awaiting
    <3>2. IsFresh(c, ch) /\ ~ YetToSend(ch)  BY <2>1, <3>1 DEF FeedInv, FreshHolds
    <3>3. LastFrame(c, ch)' = LastFrame(c, ch)  BY DEF LastFrame, Reading
    <3> QED  BY <1>2, <3>2, <3>3 DEF IsFresh
  <2> QED  BY <2>1 DEF FreshHolds
<1> QED  BY <1>3, <1>4, <1>5, <1>6, <1>7, <1>8 DEF FeedInv

\* With an empty group there is nobody to leave behind.
LEMMA NobodyConnectedKeepsInv == ASSUME FeedInv, NobodyConnected PROVE FeedInv'
BY ReturnKeepsInv DEF NobodyConnected

\* Every channel that was in the group when the broadcast began and still is
\* has been reached.
LEMMA BroadcastEndsKeepsInv == ASSUME FeedInv, BroadcastEnds PROVE FeedInv'
<1>1. \A ch \in group : ~ YetToSend(ch)  BY DEF BroadcastEnds, YetToSend
<1> QED  BY <1>1, ReturnKeepsInv DEF BroadcastEnds

\* The broadcast is to reach every channel now in the group.
LEMMA BroadcastBeginsKeepsInv == ASSUME FeedInv, BroadcastBegins PROVE FeedInv'
<1> USE DEF ringVars, workerVars, clientVars, BroadcastBegins
<1>1. FeedTypeOK'  BY DEF FeedInv, FeedTypeOK
<1>2. RingHolds'  BY DEF FeedInv, RingHolds
<1>3. PublisherHolds'  BY DEF FeedInv, PublisherHolds
<1>4. ChannelsHold'  BY DEF FeedInv, ChannelsHold, Joined
<1>5. CacheHolds'  BY DEF FeedInv, CacheHolds, CacheIsAhead
<1>6. FreshHolds'
  BY DEF FeedInv, FreshHolds, IsFresh, LastFrame, Reading, YetToSend, Awaiting
<1> QED  BY <1>1, <1>2, <1>3, <1>4, <1>5, <1>6 DEF FeedInv

\* The channel's last frame is now what the cache holds.
LEMMA BroadcastToKeepsInv ==
    ASSUME FeedInv, NEW ch \in Channels, BroadcastTo(ch) PROVE FeedInv'
<1> USE DEF ringVars, workerVars, clientVars
<1>1. /\ queued \in [Channels -> Seq(Nat)] /\ frame \in Nat /\ cache = frame /\ ch \in group
      /\ Joined(ch)
  BY DEF FeedInv, FeedTypeOK, PublisherHolds, ChannelsHold, BroadcastTo
<1>2. /\ publisherPc = "sending"
      /\ queued' = [queued EXCEPT ![ch] = Append(@, frame)] /\ sentTo' = sentTo \cup {ch}
      /\ UNCHANGED <<ringVars, publisherPc, frame, due, cache, group, workerVars, clientVars>>
  BY DEF BroadcastTo
<1>3. /\ queued'[ch] = Append(queued[ch], frame) /\ queued'[ch] # <<>>
      /\ queued'[ch][Len(queued'[ch])] = frame
      /\ \A other \in Channels \ {ch} : queued'[other] = queued[other]
  BY <1>1, <1>2
<1>4. FeedTypeOK'  BY <1>1, <1>2 DEF FeedInv, FeedTypeOK
<1>5. RingHolds'  BY <1>2 DEF FeedInv, RingHolds
<1>6. PublisherHolds'  BY <1>2 DEF FeedInv, PublisherHolds
<1>7. ChannelsHold'
  BY <1>1, <1>2, <1>3 DEF FeedInv, ChannelsHold, Joined
<1>8. CacheHolds'
  <2>1. ASSUME NEW other \in Channels, NEW i \in DOMAIN queued'[other]
        PROVE  queued'[other][i] <= cache'
    <3>1. CASE other # ch
      BY <1>2, <1>3, <3>1 DEF FeedInv, CacheHolds, CacheIsAhead
    <3>2. CASE other = ch
      <4>1. CASE i \in DOMAIN queued[ch]
        <5>1. queued'[ch][i] = queued[ch][i]  BY <1>1, <1>3, <4>1
        <5> QED  BY <1>2, <3>2, <4>1, <5>1 DEF FeedInv, CacheHolds, CacheIsAhead
      <4>2. CASE i \notin DOMAIN queued[ch]
        <5>1. queued'[ch][i] = frame  BY <1>1, <1>3, <3>2, <4>2
        <5> QED  BY <1>1, <1>2, <3>2, <5>1
      <4> QED  BY <4>1, <4>2
    <3> QED  BY <3>1, <3>2
  <2> QED  BY <1>2, <2>1 DEF FeedInv, CacheHolds, CacheIsAhead
<1>9. FreshHolds'
  <2>1. ASSUME NEW c \in up', NEW other \in group', other = <<c, connection'[c]>>,
               ~ Awaiting(other)'
        PROVE  IsFresh(c, other)'
    <3>1. other \in Channels /\ other \in group /\ c \in up  BY <1>2, <2>1 DEF FeedInv, FeedTypeOK
    <3>2. CASE other = ch
      <4>1. LastFrame(c, other)' = frame  BY <1>3, <3>2 DEF LastFrame
      <4> QED  BY <1>1, <1>2, <4>1 DEF IsFresh
    <3>3. CASE other # ch
      <4>1. queued'[other] = queued[other]  BY <1>3, <3>1, <3>3
      <4>2. ~ Awaiting(other)  BY <1>2, <2>1, <4>1 DEF Awaiting
      <4>3. LastFrame(c, other)' = LastFrame(c, other)
        <5>1. UNCHANGED <<workerPc, workerChannel, json, shown>>  BY <1>2
        <5> QED  BY <4>1, <5>1 DEF LastFrame, Reading
      <4>4. YetToSend(other)' <=> YetToSend(other)  BY <1>2, <3>3 DEF YetToSend
      <4>5. IsFresh(c, other)  BY <1>2, <2>1, <3>1, <4>2 DEF FeedInv, FreshHolds
      <4> QED  BY <1>2, <4>3, <4>4, <4>5 DEF IsFresh
    <3> QED  BY <3>2, <3>3
  <2> QED  BY <2>1 DEF FreshHolds
<1> QED  BY <1>4, <1>5, <1>6, <1>7, <1>8, <1>9 DEF FeedInv

-----------------------------------------------------------------------------
(***************************************************************************)
(* The network thread and the clients.                                     *)
(***************************************************************************)
\* The parts that a step of neither ring nor publisher leaves as they are.
LEMMA OtherStepKeepsPublisher ==
    ASSUME FeedInv, UNCHANGED <<ringVars, publisherVars>>
    PROVE  RingHolds' /\ PublisherHolds'
<1> USE DEF FeedInv, ringVars, publisherVars
<1>1. RingHolds'  BY DEF RingHolds
<1>2. PublisherHolds'  BY DEF PublisherHolds
<1> QED  BY <1>1, <1>2

\* The channel joins with nothing queued: the cache is read for it next.
LEMMA HandshakeCompleteKeepsInv ==
    ASSUME FeedInv, NEW ch \in Channels, HandshakeComplete(ch) PROVE FeedInv'
<1> USE DEF ringVars, publisherVars, clientVars
<1>1. /\ workerPc = "idle" /\ workerPc' = "joined" /\ workerChannel' = ch
      /\ ch \in handshakes /\ handshakes' = handshakes \ {ch} /\ group' = group \cup {ch}
      /\ UNCHANGED <<ringVars, publisherVars, queued, json, clientVars>>
  BY DEF HandshakeComplete
<1>2. ~ Joined(ch) /\ ch[2] <= connection[ch[1]] /\ queued[ch] = <<>> /\ ch \notin group
  BY <1>1 DEF FeedInv, ChannelsHold, Joined
<1>3. FeedTypeOK'  BY <1>1 DEF FeedInv, FeedTypeOK
<1>4. RingHolds' /\ PublisherHolds'  BY <1>1, OtherStepKeepsPublisher
<1>5. ChannelsHold'
  BY <1>1, <1>2 DEF FeedInv, ChannelsHold, Joined
<1>6. CacheHolds'  BY <1>1 DEF FeedInv, CacheHolds, CacheIsAhead
<1>7. FreshHolds'
  <2>1. ASSUME NEW c \in up', NEW other \in group', other = <<c, connection'[c]>>,
               ~ Awaiting(other)'
        PROVE  IsFresh(c, other)'
    <3>1. other # ch  BY <1>1, <1>2, <2>1 DEF Awaiting
    <3>2. IsFresh(c, other)  BY <1>1, <2>1, <3>1 DEF FeedInv, FreshHolds, Awaiting
    <3>3. LastFrame(c, other)' = LastFrame(c, other)  BY <1>1 DEF LastFrame, Reading
    <3> QED  BY <1>1, <3>2, <3>3 DEF IsFresh, YetToSend
  <2> QED  BY <2>1 DEF FreshHolds
<1> QED  BY <1>3, <1>4, <1>5, <1>6, <1>7 DEF FeedInv

\* What is read is the newest there is; an empty cache means empty ladders.
LEMMA ReadCacheKeepsInv == ASSUME FeedInv, ReadCache PROVE FeedInv'
<1> USE DEF ringVars, publisherVars, clientVars
<1>1. /\ workerPc = "joined" /\ workerPc' = "read" /\ json' = cache
      /\ UNCHANGED <<ringVars, publisherVars, group, queued, workerChannel, handshakes,
                     clientVars>>
  BY DEF ReadCache
<1>2. /\ cache \in Nat /\ shown \in [Clients -> Nat]
      /\ workerChannel \in Channels /\ workerChannel[1] \in Clients
  BY <1>1 DEF FeedInv, FeedTypeOK, Channels
<1>3. FeedTypeOK'  BY <1>1 DEF FeedInv, FeedTypeOK
<1>4. RingHolds' /\ PublisherHolds'  BY <1>1, OtherStepKeepsPublisher
<1>5. ChannelsHold'  BY <1>1 DEF FeedInv, ChannelsHold, Joined
<1>6. CacheHolds'
  <2>1. CacheIsAhead'  BY <1>1 DEF FeedInv, CacheHolds, CacheIsAhead
  <2>2. cache = 0 => shown[workerChannel[1]] = 0
    BY <1>2 DEF FeedInv, CacheHolds, CacheIsAhead
  <2> QED  BY <1>1, <1>2, <2>1, <2>2 DEF CacheHolds
<1>7. FreshHolds'
  <2>1. ASSUME NEW c \in up', NEW ch \in group', ch = <<c, connection'[c]>>
        PROVE  IsFresh(c, ch)'
    <3>1. CASE ch = workerChannel /\ queued[ch] = <<>>
      <4>1. LastFrame(c, ch)' = cache  BY <1>1, <3>1 DEF LastFrame, Reading
      <4> QED  BY <1>1, <4>1 DEF IsFresh
    <3>2. CASE ~ (ch = workerChannel /\ queued[ch] = <<>>)
      <4>1. IsFresh(c, ch)  BY <1>1, <2>1, <3>2 DEF FeedInv, FreshHolds, Awaiting
      <4>2. LastFrame(c, ch)' = LastFrame(c, ch)
        BY <1>1, <3>2 DEF LastFrame, Reading
      <4> QED  BY <1>1, <4>1, <4>2 DEF IsFresh, YetToSend
    <3> QED  BY <3>1, <3>2
  <2> QED  BY <2>1 DEF FreshHolds
<1> QED  BY <1>3, <1>4, <1>5, <1>6, <1>7 DEF FeedInv

\* What a channel carries changes the ladder of no other channel's client.
LEMMA ShowIsLocal ==
    ASSUME FeedTypeOK, NEW ch \in Channels, NEW s \in Nat, NEW b \in BOOLEAN, Show(ch, s, b)
    PROVE  /\ shown' \in [Clients -> Nat] /\ viaCache' \subseteq Clients
           /\ \A c \in Clients : shown'[c] \in {shown[c], s}
           /\ \A c \in up : ch = <<c, connection[c]>> => shown'[c] = s
           /\ \A c \in up : ch # <<c, connection[c]>> => shown'[c] = shown[c]
<1>1. /\ shown \in [Clients -> Nat] /\ viaCache \subseteq Clients /\ up \subseteq Clients
      /\ ch[1] \in Clients /\ ch = <<ch[1], ch[2]>>
  BY DEF FeedTypeOK, Channels
<1>2. CASE IsLatest(ch)
  <2>1. shown' = [shown EXCEPT ![ch[1]] = s]  BY <1>2 DEF Show
  <2>2. viaCache' \subseteq Clients  BY <1>1, <1>2 DEF Show
  <2>3. ch = <<ch[1], connection[ch[1]]>>  BY <1>1, <1>2 DEF IsLatest
  <2> QED  BY <1>1, <2>1, <2>2, <2>3
<1>3. CASE ~ IsLatest(ch)
  <2>1. UNCHANGED <<shown, viaCache>>  BY <1>3 DEF Show
  <2>2. \A c \in up : ch # <<c, connection[c]>>  BY <1>3 DEF IsLatest
  <2> QED  BY <1>1, <2>1, <2>2
<1> QED  BY <1>2, <1>3

\* What was read is shown, unless it was nothing: then the ladder is empty.
LEMMA WriteSnapshotKeepsInv == ASSUME FeedInv, WriteSnapshot PROVE FeedInv'
<1> USE DEF ringVars, publisherVars
<1>1. /\ workerPc = "read" /\ workerPc' = "idle"
      /\ UNCHANGED <<ringVars, publisherVars, group, queued, workerChannel, json, handshakes,
                     connection, up>>
  BY DEF WriteSnapshot
<1>2. /\ workerChannel \in Channels /\ json \in Nat /\ json <= cache /\ cache \in Nat
      /\ shown \in [Clients -> Nat] /\ up \subseteq Clients /\ viaCache \subseteq Clients
      /\ FeedTypeOK /\ (json = 0 => shown[workerChannel[1]] = 0)
  BY <1>1 DEF FeedInv, FeedTypeOK, CacheHolds
<1>3. /\ shown' \in [Clients -> Nat] /\ viaCache' \subseteq Clients
      /\ \A c \in Clients : shown'[c] \in {shown[c], json}
      /\ \A c \in up : workerChannel = <<c, connection[c]>> => shown'[c] = json
      /\ \A c \in up : workerChannel # <<c, connection[c]>> => shown'[c] = shown[c]
  <2>1. CASE json = 0
    BY <1>2, <2>1 DEF WriteSnapshot
  <2>2. CASE json # 0
    <3>1. Show(workerChannel, json, TRUE)  BY <2>2 DEF WriteSnapshot
    <3> QED  BY <1>2, <3>1, ShowIsLocal
  <2> QED  BY <2>1, <2>2
<1>4. FeedTypeOK'  BY <1>1, <1>3 DEF FeedInv, FeedTypeOK
<1>5. RingHolds' /\ PublisherHolds'  BY <1>1, OtherStepKeepsPublisher
<1>6. ChannelsHold'  BY <1>1 DEF FeedInv, ChannelsHold, Joined
<1>7. CacheHolds'
  <2>1. \A c \in Clients : shown'[c] <= cache'
    BY <1>1, <1>2, <1>3 DEF FeedInv, CacheHolds, CacheIsAhead
  <2> QED  BY <1>1, <2>1 DEF FeedInv, CacheHolds, CacheIsAhead
<1>8. FreshHolds'
  <2>1. ASSUME NEW c \in up', NEW ch \in group', ch = <<c, connection'[c]>>
        PROVE  IsFresh(c, ch)'
    <3>1. IsFresh(c, ch)  BY <1>1, <2>1 DEF FeedInv, FreshHolds, Awaiting
    <3>2. LastFrame(c, ch)' = LastFrame(c, ch)
      <4>1. CASE queued[ch] # <<>>  BY <1>1, <4>1 DEF LastFrame
      <4>2. CASE queued[ch] = <<>> /\ ch = workerChannel
        <5>1. shown'[c] = json  BY <1>1, <1>3, <2>1, <4>2
        <5> QED  BY <1>1, <4>2, <5>1 DEF LastFrame, Reading
      <4>3. CASE queued[ch] = <<>> /\ ch # workerChannel
        <5>1. shown'[c] = shown[c]  BY <1>1, <1>3, <2>1, <4>3
        <5> QED  BY <1>1, <4>3, <5>1 DEF LastFrame, Reading
      <4> QED  BY <4>1, <4>2, <4>3
    <3> QED  BY <1>1, <3>1, <3>2 DEF IsFresh, YetToSend
  <2> QED  BY <2>1 DEF FreshHolds
<1> QED  BY <1>4, <1>5, <1>6, <1>7, <1>8 DEF FeedInv

\* Taking the head of a queue leaves nothing, or the same last element.
LEMMA TailKeepsLast ==
    ASSUME NEW S, NEW s \in Seq(S), s # <<>>
    PROVE  /\ Len(s) \in Nat \ {0} /\ Tail(s) \in Seq(S)
           /\ Len(s) = 1 => Tail(s) = <<>>
           /\ Len(s) # 1 => Tail(s) # <<>> /\ Tail(s)[Len(Tail(s))] = s[Len(s)]
<1>1. /\ Len(s) \in Nat \ {0} /\ Tail(s) \in Seq(S) /\ Len(Tail(s)) = Len(s) - 1
      /\ \A i \in 1 .. Len(Tail(s)) : Tail(s)[i] = s[i + 1]
  BY EmptySeq, HeadTailProperties
<1>2. CASE Len(s) = 1
  <2>1. Len(Tail(s)) = 0  BY <1>1, <1>2
  <2>2. Tail(s) = <<>>  BY <1>1, <2>1, EmptySeq
  <2> QED  BY <1>1, <1>2, <2>2
<1>3. CASE Len(s) # 1
  <2> DEFINE n == Len(Tail(s))
  <2>1. n \in 1 .. n /\ n + 1 = Len(s)  BY <1>1, <1>3
  <2>2. Tail(s)[n] = s[Len(s)]
    <3>1. Tail(s)[n] = s[n + 1]  BY <1>1, <2>1
    <3> QED  BY <2>1, <3>1
  <2>3. Tail(s) # <<>>
    <3>1. n # 0  BY <2>1
    <3>2. Len(<<>>) = 0  OBVIOUS
    <3> QED  BY <3>1, <3>2
  <2> QED  BY <1>1, <1>3, <2>2, <2>3
<1> QED  BY <1>2, <1>3

\* The one frame of a queue was its last; of a longer queue the last remains.
LEMMA RunWriteKeepsInv ==
    ASSUME FeedInv, NEW ch \in Channels, RunWrite(ch) PROVE FeedInv'
<1> USE DEF ringVars, publisherVars, workerVars
<1> DEFINE q == queued[ch]
<1>1. /\ workerPc = "idle" /\ q # <<>> /\ queued' = [queued EXCEPT ![ch] = Tail(@)]
      /\ UNCHANGED <<ringVars, publisherVars, group, workerVars, connection, up>>
  BY DEF RunWrite
<1>2. /\ queued \in [Channels -> Seq(Nat)] /\ q \in Seq(Nat) /\ cache \in Nat
      /\ shown \in [Clients -> Nat] /\ up \subseteq Clients /\ group \subseteq Channels
      /\ FeedTypeOK
  BY DEF FeedInv, FeedTypeOK
<1>3. Head(q) \in Nat /\ Head(q) = q[1] /\ 1 \in DOMAIN q /\ Head(q) <= cache
  <2>1. Head(q) \in Nat /\ Head(q) = q[1] /\ 1 \in DOMAIN q  BY <1>1, <1>2
  <2> QED  BY <2>1 DEF FeedInv, CacheHolds, CacheIsAhead
<1>4. /\ shown' \in [Clients -> Nat] /\ viaCache' \subseteq Clients
      /\ \A c \in Clients : shown'[c] \in {shown[c], Head(q)}
      /\ \A c \in up : ch = <<c, connection[c]>> => shown'[c] = Head(q)
      /\ \A c \in up : ch # <<c, connection[c]>> => shown'[c] = shown[c]
  <2>1. Show(ch, Head(q), FALSE)  BY DEF RunWrite
  <2> QED  BY <1>2, <1>3, <2>1, ShowIsLocal
<1>5. queued'[ch] = Tail(q) /\ (\A other \in Channels \ {ch} : queued'[other] = queued[other])
        /\ queued' \in [Channels -> Seq(Nat)]
  BY <1>1, <1>2
<1>6. FeedTypeOK'  BY <1>1, <1>4, <1>5 DEF FeedInv, FeedTypeOK
<1>7. RingHolds' /\ PublisherHolds'  BY <1>1, OtherStepKeepsPublisher
<1>8. ChannelsHold'
  <2>1. Joined(ch)  BY <1>1 DEF FeedInv, ChannelsHold
  <2> QED  BY <1>1, <1>5, <2>1 DEF FeedInv, ChannelsHold, Joined
<1>9. CacheHolds'
  <2>1. \A c \in Clients : shown'[c] <= cache'
    BY <1>1, <1>2, <1>3, <1>4 DEF FeedInv, CacheHolds, CacheIsAhead
  <2>2. ASSUME NEW other \in Channels, NEW i \in DOMAIN queued'[other]
        PROVE  queued'[other][i] <= cache'
    <3>1. CASE other # ch
      BY <1>1, <1>5, <3>1 DEF FeedInv, CacheHolds, CacheIsAhead
    <3>2. CASE other = ch
      <4>1. i + 1 \in DOMAIN q /\ queued'[ch][i] = q[i + 1]  BY <1>1, <1>2, <1>5, <3>2
      <4> QED  BY <1>1, <3>2, <4>1 DEF FeedInv, CacheHolds, CacheIsAhead
    <3> QED  BY <3>1, <3>2
  <2> QED  BY <1>1, <2>1, <2>2 DEF CacheHolds, CacheIsAhead
<1>10. FreshHolds'
  <2>1. ASSUME NEW c \in up', NEW other \in group', other = <<c, connection'[c]>>
        PROVE  IsFresh(c, other)'
    <3>1. other \in Channels /\ other \in group /\ c \in up  BY <1>1, <1>2, <2>1
    <3>2. IsFresh(c, other)  BY <1>1, <2>1, <3>1 DEF FeedInv, FreshHolds, Awaiting
    <3>3. ~ Reading(other) /\ ~ Reading(other)'  BY <1>1 DEF Reading
    <3>4. LastFrame(c, other)' = LastFrame(c, other)
      <4>1. CASE other # ch
        <5>1. queued'[other] = queued[other] /\ shown'[c] = shown[c]
          BY <1>1, <1>4, <1>5, <2>1, <3>1, <4>1
        <5> QED  BY <3>3, <5>1 DEF LastFrame
      <4>2. CASE other = ch /\ Len(q) = 1
        <5>1. queued'[other] = <<>>  BY <1>1, <1>2, <1>5, <4>2, TailKeepsLast
        <5>2. shown'[c] = q[1]
          <6>1. ch = <<c, connection[c]>>  BY <1>1, <2>1, <4>2
          <6> QED  BY <1>3, <1>4, <3>1, <6>1
        <5>3. LastFrame(c, other) = q[1]  BY <1>1, <4>2 DEF LastFrame
        <5> QED  BY <3>3, <5>1, <5>2, <5>3 DEF LastFrame
      <4>3. CASE other = ch /\ Len(q) # 1
        <5>1. Tail(q) # <<>> /\ Tail(q)[Len(Tail(q))] = q[Len(q)]
          BY <1>1, <1>2, <4>3, TailKeepsLast
        <5>2. queued'[other] = Tail(q)  BY <1>5, <4>3
        <5>3. LastFrame(c, other) = q[Len(q)]  BY <1>1, <4>3 DEF LastFrame
        <5>4. LastFrame(c, other)' = Tail(q)[Len(Tail(q))]  BY <5>1, <5>2 DEF LastFrame
        <5> QED  BY <5>1, <5>3, <5>4
      <4> QED  BY <4>1, <4>2, <4>3
    <3> QED  BY <1>1, <3>2, <3>4 DEF IsFresh, YetToSend
  <2> QED  BY <2>1 DEF FreshHolds
<1> QED  BY <1>6, <1>7, <1>8, <1>9, <1>10 DEF FeedInv

\* A channel that leaves the group is one less to keep fresh.
LEMMA ChannelClosedKeepsInv ==
    ASSUME FeedInv, NEW ch \in Channels, ChannelClosed(ch) PROVE FeedInv'
<1> USE DEF ringVars, publisherVars, workerVars, clientVars
<1>1. /\ group' = group \ {ch}
      /\ UNCHANGED <<ringVars, publisherVars, queued, workerVars, clientVars>>
  BY DEF ChannelClosed
<1>2. FeedTypeOK'  BY <1>1 DEF FeedInv, FeedTypeOK
<1>3. RingHolds' /\ PublisherHolds'  BY <1>1, OtherStepKeepsPublisher
<1>4. ChannelsHold'  BY <1>1 DEF FeedInv, ChannelsHold, Joined
<1>5. CacheHolds'  BY <1>1 DEF FeedInv, CacheHolds, CacheIsAhead
<1>6. FreshHolds'
  BY <1>1 DEF FeedInv, FreshHolds, IsFresh, LastFrame, Reading, YetToSend, Awaiting
<1> QED  BY <1>2, <1>3, <1>4, <1>5, <1>6 DEF FeedInv

\* A new connection's channel has not joined: nothing is queued for it, and
\* it is in no group.
LEMMA ConnectKeepsInv ==
    ASSUME FeedInv, NEW c \in Clients, Connect(c) PROVE FeedInv'
<1> USE DEF ringVars, publisherVars
<1> DEFINE new == <<c, connection[c] + 1>>
<1>1. /\ c \notin up /\ connection[c] < MaxConnections
      /\ connection' = [connection EXCEPT ![c] = @ + 1] /\ up' = up \cup {c}
      /\ handshakes' = handshakes \cup {new}
      /\ UNCHANGED <<ringVars, publisherVars, group, queued, workerPc, workerChannel, json,
                     shown, viaCache>>
  BY DEF Connect
<1>2. /\ connection \in [Clients -> 0 .. MaxConnections] /\ MaxConnections \in Nat
      /\ group \subseteq Channels /\ due \subseteq Channels /\ sentTo \subseteq Channels
      /\ handshakes \subseteq Channels /\ up \subseteq Clients
      /\ (workerPc # "idle" => workerChannel \in Channels)
  BY FeedBoundsAssumption DEF FeedInv, FeedTypeOK
<1>3. new \in Channels /\ connection'[c] = connection[c] + 1 /\ ~ Joined(new)
      /\ new[1] = c /\ new[2] = connection[c] + 1
  BY <1>1, <1>2 DEF Channels, Joined
<1>4. ASSUME NEW ch \in Channels PROVE Joined(ch)' <=> Joined(ch)
  <2>1. ch[1] \in Clients /\ ch[2] \in Nat /\ ch = <<ch[1], ch[2]>>  BY <1>2 DEF Channels
  <2>2. CASE ch[1] # c
    BY <1>1, <1>2, <2>1, <2>2 DEF Joined
  <2>3. CASE ch[1] = c
    <3>1. ch # new => (ch[2] <= connection[c] + 1 <=> ch[2] <= connection[c])
      BY <1>2, <2>1, <2>3
    <3>2. CASE ch = new
      BY <1>1, <1>3, <3>2 DEF Joined
    <3>3. CASE ch # new
      BY <1>1, <1>3, <2>3, <3>1, <3>3 DEF Joined
    <3> QED  BY <3>2, <3>3
  <2> QED  BY <2>2, <2>3
<1>5. FeedTypeOK'
  <2>1. connection' \in [Clients -> 0 .. MaxConnections]  BY <1>1, <1>2
  <2> QED  BY <1>1, <1>3, <2>1 DEF FeedInv, FeedTypeOK
<1>6. RingHolds' /\ PublisherHolds'  BY <1>1, OtherStepKeepsPublisher
<1>7. ChannelsHold'
  <2>1. ASSUME NEW ch \in handshakes' PROVE ch[2] <= connection'[ch[1]]
    <3>1. CASE ch = new  BY <1>2, <1>3, <3>1
    <3>2. CASE ch \in handshakes
      <4>1. ch[1] \in Clients /\ ch[2] \in Nat /\ ch[2] <= connection[ch[1]]
        BY <1>2, <3>2 DEF FeedInv, ChannelsHold, Channels
      <4> QED  BY <1>1, <1>2, <4>1
    <3> QED  BY <1>1, <3>1, <3>2
  <2> QED
    BY <1>1, <1>2, <1>4, <2>1 DEF FeedInv, ChannelsHold
<1>8. CacheHolds'  BY <1>1 DEF FeedInv, CacheHolds, CacheIsAhead
<1>9. FreshHolds'
  <2>1. ASSUME NEW d \in up', NEW ch \in group', ch = <<d, connection'[d]>>, ~ Awaiting(ch)'
        PROVE  IsFresh(d, ch)'
    <3>1. ch \in group /\ Joined(ch)  BY <1>1 DEF FeedInv, ChannelsHold
    <3>2. d # c  BY <1>3, <2>1, <3>1
    <3>3. d \in up /\ connection'[d] = connection[d]  BY <1>1, <1>2, <3>2
    <3>4. IsFresh(d, ch)
      BY <1>1, <2>1, <3>1, <3>3 DEF FeedInv, FreshHolds, Awaiting
    <3>5. LastFrame(d, ch)' = LastFrame(d, ch)  BY <1>1 DEF LastFrame, Reading
    <3> QED  BY <1>1, <3>4, <3>5 DEF IsFresh, YetToSend
  <2> QED  BY <2>1 DEF FreshHolds
<1> QED  BY <1>5, <1>6, <1>7, <1>8, <1>9 DEF FeedInv

\* A client that has gone is one less to keep fresh.
LEMMA DropKeepsInv ==
    ASSUME FeedInv, NEW c \in Clients, Drop(c) PROVE FeedInv'
<1> USE DEF ringVars, publisherVars, workerVars
<1>1. /\ up' = up \ {c}
      /\ UNCHANGED <<ringVars, publisherVars, group, queued, workerVars, connection, shown,
                     viaCache>>
  BY DEF Drop
<1>2. FeedTypeOK'  BY <1>1 DEF FeedInv, FeedTypeOK
<1>3. RingHolds' /\ PublisherHolds'  BY <1>1, OtherStepKeepsPublisher
<1>4. ChannelsHold'  BY <1>1 DEF FeedInv, ChannelsHold, Joined
<1>5. CacheHolds'  BY <1>1 DEF FeedInv, CacheHolds, CacheIsAhead
<1>6. FreshHolds'
  BY <1>1 DEF FeedInv, FreshHolds, IsFresh, LastFrame, Reading, YetToSend, Awaiting
<1> QED  BY <1>2, <1>3, <1>4, <1>5, <1>6 DEF FeedInv

-----------------------------------------------------------------------------
(***************************************************************************)
(* The theorems.                                                           *)
(***************************************************************************)
\* Every step of the feed keeps the invariant.
LEMMA FeedStepKeepsInv == ASSUME FeedInv, [FeedNext]_feedVars PROVE FeedInv'
<1>1. CASE UNCHANGED feedVars
  <2>1. UNCHANGED <<publisherVars, group, queued, workerVars, clientVars, ringVars>>
    BY <1>1 DEF feedVars
  <2>2. ChannelsHold' /\ CacheHolds' /\ FreshHolds'  BY <2>1, RingStepKeepsChannels
  <2>3. RingHolds' /\ PublisherHolds'  BY <2>1, OtherStepKeepsPublisher
  <2>4. FeedTypeOK'
    BY <2>1 DEF FeedInv, FeedTypeOK, ringVars, publisherVars, workerVars, clientVars
  <2> QED  BY <2>2, <2>3, <2>4 DEF FeedInv
<1>2. CASE PublishSnapshot  BY <1>2, PublishSnapshotKeepsInv
<1>3. CASE DeriveQuote  BY <1>3, DeriveQuoteKeepsInv
<1>4. CASE Publisher
  BY <1>4, SerializeKeepsInv, SetCacheKeepsInv, NobodyConnectedKeepsInv,
     BroadcastBeginsKeepsInv, BroadcastToKeepsInv, BroadcastEndsKeepsInv DEF Publisher
<1>5. CASE Worker
  BY <1>5, HandshakeCompleteKeepsInv, RunWriteKeepsInv, ChannelClosedKeepsInv,
     ReadCacheKeepsInv, WriteSnapshotKeepsInv DEF Worker
<1>6. CASE \E c \in Clients : Connect(c) \/ Drop(c)
  BY <1>6, ConnectKeepsInv, DropKeepsInv
<1> QED  BY <1>1, <1>2, <1>3, <1>4, <1>5, <1>6 DEF FeedNext

\* The invariant holds of every behaviour of the feed, with its types.
THEOREM FeedInvHolds == FeedSpec => []FeedInv
<1>1. FeedInit => FeedInv  BY FeedInitHolds
<1>2. FeedInv /\ [FeedNext]_feedVars => FeedInv'  BY FeedStepKeepsInv
<1> QED  BY <1>1, <1>2, PTL DEF FeedSpec

\* For any ring size, each consumer reads every snapshot once, in order and
\* whole: next() never hands out a slot that one of them has yet to read.
THEOREM SlotsStayIntact == FeedSpec => []SlotsIntact
<1>1. FeedInv => SlotsIntact  BY DEF FeedInv, PublisherHolds, SlotsIntact
<1> QED  BY <1>1, FeedInvHolds, PTL

\* For any number of clients and reconnections, no client has been shown,
\* or is about to be, a snapshot newer than the cached one.
THEOREM CacheStaysAhead == FeedSpec => []CacheIsAhead
<1>1. FeedInv => CacheIsAhead  BY DEF FeedInv, CacheHolds
<1> QED  BY <1>1, FeedInvHolds, PTL

\* With everything published sent and nothing on its way, a connected
\* client shows the current book, however its handshake, the read of the
\* cache and the broadcast to the group were interleaved.
THEOREM ConnectedClientsAreCurrent == FeedSpec => []ShowsCurrentBook
<1>1. FeedInv => ShowsCurrentBook
  <2> SUFFICES ASSUME FeedInv, NEW c \in Clients, publisherPc = "idle",
                      handled["publisher"] = published, NothingPending(c)
               PROVE  shown[c] = published
    BY DEF ShowsCurrentBook
  <2> DEFINE ch == <<c, connection[c]>>
  <2>1. /\ c \in up /\ ch \in group /\ queued[ch] = <<>>
        /\ workerPc # "idle" => workerChannel # ch
    BY DEF NothingPending
  <2>2. IsFresh(c, ch)  BY <2>1 DEF FeedInv, FreshHolds, Awaiting
  <2>3. LastFrame(c, ch) = shown[c]  BY <2>1 DEF LastFrame, Reading
  <2>4. ~ YetToSend(ch) /\ cache = published
    BY DEF FeedInv, PublisherHolds, YetToSend
  <2> QED  BY <2>2, <2>3, <2>4 DEF IsFresh
<1> QED  BY <1>1, FeedInvHolds, PTL

-----------------------------------------------------------------------------
(***************************************************************************)
(* A ladder goes back only after the snapshot sent on connect: the frames  *)
(* of a queue are in order, and none is older than what the client shows   *)
(* unless that came from the cache.                                        *)
(***************************************************************************)
QueuesInOrder ==
    \A ch \in Channels : \A i, j \in DOMAIN queued[ch] :
        i <= j => queued[ch][i] <= queued[ch][j]

NothingOlderQueued ==
    \A c \in up \ viaCache : \A i \in DOMAIN queued[<<c, connection[c]>>] :
        shown[c] <= queued[<<c, connection[c]>>][i]

ReadIsNoOlder ==
    workerPc = "read" /\ IsLatest(workerChannel) => shown[workerChannel[1]] <= json

OrderHolds == QueuesInOrder /\ NothingOlderQueued /\ ReadIsNoOlder

\* At the start nothing is queued.
LEMMA OrderInit == FeedInit => OrderHolds
BY DEF FeedInit, OrderHolds, QueuesInOrder, NothingOlderQueued, ReadIsNoOlder, Channels, IsLatest

\* A step that changes neither queues nor ladders, and begins no read.
LEMMA OrderKept ==
    ASSUME OrderHolds, UNCHANGED <<queued, clientVars>>,
           workerPc' # "read" \/ UNCHANGED <<workerPc, workerChannel, json>>
    PROVE  OrderHolds'
<1> USE DEF OrderHolds, clientVars
<1>1. QueuesInOrder'  BY DEF QueuesInOrder
<1>2. NothingOlderQueued'  BY DEF NothingOlderQueued
<1>3. ReadIsNoOlder'  BY DEF ReadIsNoOlder, IsLatest
<1> QED  BY <1>1, <1>2, <1>3

\* The publisher queues the newest snapshot behind the others.
LEMMA BroadcastToKeepsOrder ==
    ASSUME FeedInv, OrderHolds, NEW ch \in Channels, BroadcastTo(ch) PROVE OrderHolds'
<1> DEFINE q == queued[ch]
<1>1. /\ q \in Seq(Nat) /\ frame \in Nat /\ cache = frame
      /\ queued \in [Channels -> Seq(Nat)] /\ shown \in [Clients -> Nat] /\ up \subseteq Clients
      /\ connection \in [Clients -> 0 .. MaxConnections]
  BY DEF FeedInv, FeedTypeOK, PublisherHolds, BroadcastTo
<1>2. /\ queued'[ch] = Append(q, frame)
      /\ \A other \in Channels \ {ch} : queued'[other] = queued[other]
      /\ UNCHANGED <<workerPc, workerChannel, json, connection, up, shown, viaCache>>
  BY <1>1 DEF BroadcastTo, workerVars, clientVars
<1>3. ASSUME NEW i \in DOMAIN queued'[ch]
      PROVE  (i \in DOMAIN q /\ queued'[ch][i] = q[i])
               \/ (i = Len(q) + 1 /\ queued'[ch][i] = frame)
  BY <1>1, <1>2
<1>4. \A i \in DOMAIN q : q[i] <= frame /\ i <= Len(q) /\ i \in Nat /\ Len(q) \in Nat
  BY <1>1 DEF FeedInv, CacheHolds, CacheIsAhead
<1>5. QueuesInOrder'
  <2>1. ASSUME NEW i \in DOMAIN queued'[ch], NEW j \in DOMAIN queued'[ch], i <= j
        PROVE  queued'[ch][i] <= queued'[ch][j]
    <3>1. CASE i \in DOMAIN q /\ j \in DOMAIN q /\ queued'[ch][i] = q[i] /\ queued'[ch][j] = q[j]
      BY <2>1, <3>1 DEF OrderHolds, QueuesInOrder
    <3>2. CASE j = Len(q) + 1 /\ queued'[ch][j] = frame
      <4>1. (i \in DOMAIN q /\ queued'[ch][i] = q[i]) \/ queued'[ch][i] = frame  BY <1>3
      <4>2. frame <= frame  BY <1>1
      <4>3. CASE i \in DOMAIN q /\ queued'[ch][i] = q[i]  BY <1>4, <3>2, <4>3
      <4>4. CASE queued'[ch][i] = frame  BY <3>2, <4>2, <4>4
      <4> QED  BY <4>1, <4>3, <4>4
    <3>3. CASE i = Len(q) + 1 /\ j \in DOMAIN q
      BY <1>4, <2>1, <3>3
    <3> QED  BY <1>3, <3>1, <3>2, <3>3
  <2>2. ASSUME NEW other \in Channels \ {ch} PROVE queued'[other] = queued[other]  BY <1>2
  <2> QED  BY <2>1, <2>2 DEF OrderHolds, QueuesInOrder
<1>6. NothingOlderQueued'
  <2>1. ASSUME NEW c \in up' \ viaCache', NEW i \in DOMAIN queued'[<<c, connection'[c]>>]
        PROVE  shown'[c] <= queued'[<<c, connection'[c]>>][i]
    <3>1. /\ c \in up \ viaCache /\ c \in Clients /\ shown'[c] = shown[c]
          /\ connection'[c] = connection[c]
      BY <1>1, <1>2
    <3>2. CASE <<c, connection[c]>> = ch
      <4>1. CASE i \in DOMAIN q /\ queued'[ch][i] = q[i]
        BY <3>1, <3>2, <4>1 DEF OrderHolds, NothingOlderQueued
      <4>2. CASE queued'[ch][i] = frame
        <5>1. shown[c] <= frame  BY <1>1, <3>1 DEF FeedInv, CacheHolds, CacheIsAhead
        <5> QED  BY <3>1, <3>2, <4>2, <5>1
      <4> QED  BY <1>3, <2>1, <3>1, <3>2, <4>1, <4>2
    <3>3. CASE <<c, connection[c]>> # ch
      <4>1. queued'[<<c, connection[c]>>] = queued[<<c, connection[c]>>]
        BY <3>3 DEF BroadcastTo
      <4> QED  BY <2>1, <3>1, <4>1 DEF OrderHolds, NothingOlderQueued
    <3> QED  BY <3>2, <3>3
  <2> QED  BY <2>1 DEF NothingOlderQueued
<1>7. ReadIsNoOlder'  BY <1>2 DEF OrderHolds, ReadIsNoOlder, IsLatest
<1> QED  BY <1>5, <1>6, <1>7 DEF OrderHolds

\* What is read is as new as anything shown.
LEMMA ReadCacheKeepsOrder == ASSUME FeedInv, OrderHolds, ReadCache PROVE OrderHolds'
<1>1. /\ json' = cache /\ workerPc = "joined"
      /\ UNCHANGED <<queued, workerChannel, connection, up, shown, viaCache>>
  BY DEF ReadCache, clientVars
<1>2. workerChannel \in Channels /\ workerChannel[1] \in Clients
  BY <1>1 DEF FeedInv, FeedTypeOK, Channels
<1>3. shown[workerChannel[1]] <= cache  BY <1>2 DEF FeedInv, CacheHolds, CacheIsAhead
<1>4. QueuesInOrder' /\ NothingOlderQueued'
  BY <1>1 DEF OrderHolds, QueuesInOrder, NothingOlderQueued
<1>5. ReadIsNoOlder'  BY <1>1, <1>3 DEF ReadIsNoOlder
<1> QED  BY <1>4, <1>5 DEF OrderHolds

\* The snapshot of the cache is no older than the ladder; after it, frames
\* that are may follow, and the client is in viaCache.
LEMMA WriteSnapshotKeepsOrder ==
    ASSUME FeedInv, OrderHolds, WriteSnapshot
    PROVE  OrderHolds' /\ \A c \in Clients : shown[c] <= shown'[c]
<1>1. /\ workerPc = "read" /\ workerPc' = "idle" /\ UNCHANGED <<queued, connection, up>>
      /\ shown \in [Clients -> Nat] /\ json \in Nat
      /\ workerChannel \in Channels /\ workerChannel[1] \in Clients
  BY DEF WriteSnapshot, FeedInv, FeedTypeOK, Channels
<1>2. QueuesInOrder'  BY <1>1 DEF OrderHolds, QueuesInOrder
<1>3. ReadIsNoOlder'  BY <1>1 DEF ReadIsNoOlder
<1>4. CASE UNCHANGED <<shown, viaCache>>
  <2>1. NothingOlderQueued'  BY <1>1, <1>4 DEF OrderHolds, NothingOlderQueued
  <2> QED  BY <1>1, <1>2, <1>3, <1>4, <2>1 DEF OrderHolds
<1>5. CASE /\ IsLatest(workerChannel)
           /\ shown' = [shown EXCEPT ![workerChannel[1]] = json]
           /\ viaCache' = viaCache \cup {workerChannel[1]}
  <2>1. NothingOlderQueued'
    <3>1. ASSUME NEW c \in up' \ viaCache' PROVE c \in up \ viaCache /\ shown'[c] = shown[c]
      BY <1>1, <1>5
    <3> QED  BY <1>1, <3>1 DEF OrderHolds, NothingOlderQueued
  <2>2. shown[workerChannel[1]] <= json  BY <1>1, <1>5 DEF OrderHolds, ReadIsNoOlder
  <2>3. ASSUME NEW c \in Clients PROVE shown[c] <= shown'[c]
    BY <1>1, <1>5, <2>2
  <2> QED  BY <1>2, <1>3, <2>1, <2>3 DEF OrderHolds
<1>6. CASE json # 0 /\ IsLatest(workerChannel)
  BY <1>5, <1>6 DEF WriteSnapshot, Show
<1>7. CASE json = 0 \/ ~ IsLatest(workerChannel)
  BY <1>4, <1>7 DEF WriteSnapshot, Show
<1> QED  BY <1>6, <1>7

\* What the network thread shows from a queue is no newer than what remains
\* there, and no older than the ladder unless that came from the cache.
LEMMA RunWriteKeepsOrder ==
    ASSUME FeedInv, OrderHolds, NEW ch \in Channels, RunWrite(ch)
    PROVE  OrderHolds' /\ \A c \in Clients \ viaCache : shown[c] <= shown'[c]
<1> DEFINE q == queued[ch]
<1>1. /\ workerPc' # "read" /\ UNCHANGED <<connection, up>> /\ q # <<>> /\ q \in Seq(Nat)
      /\ shown \in [Clients -> Nat] /\ up \subseteq Clients /\ viaCache \subseteq Clients
      /\ connection \in [Clients -> 0 .. MaxConnections]
      /\ ch[1] \in Clients /\ ch = <<ch[1], ch[2]>>
  BY DEF RunWrite, FeedInv, FeedTypeOK, Channels, workerVars
<1>2. queued' = [queued EXCEPT ![ch] = Tail(@)] /\ queued \in [Channels -> Seq(Nat)]
  BY DEF RunWrite, FeedInv, FeedTypeOK
<1>3. queued'[ch] = Tail(q) /\ \A other \in Channels \ {ch} : queued'[other] = queued[other]
  BY <1>2
<1>4. Head(q) = q[1] /\ 1 \in DOMAIN q  BY <1>1
<1>5. ASSUME NEW i \in DOMAIN Tail(q)
      PROVE  i \in Nat /\ i + 1 \in DOMAIN q /\ Tail(q)[i] = q[i + 1] /\ 1 <= i + 1
  <2>1. Tail(q) \in Seq(Nat) /\ Len(Tail(q)) = Len(q) - 1
    BY <1>1, HeadTailProperties
  <2>2. i \in 1 .. Len(Tail(q)) /\ Len(q) \in Nat  BY <1>1, <2>1
  <2>3. Tail(q)[i] = q[i + 1]  BY <1>1, <2>2, HeadTailProperties
  <2> QED  BY <1>1, <2>1, <2>2, <2>3
<1>6. QueuesInOrder'
  <2>1. ASSUME NEW i \in DOMAIN Tail(q), NEW j \in DOMAIN Tail(q), i <= j
        PROVE  Tail(q)[i] <= Tail(q)[j]
    <3>1. /\ i + 1 \in DOMAIN q /\ j + 1 \in DOMAIN q /\ i + 1 <= j + 1
          /\ Tail(q)[i] = q[i + 1] /\ Tail(q)[j] = q[j + 1]
      BY <1>5, <2>1
    <3> QED  BY <3>1 DEF OrderHolds, QueuesInOrder
  <2> QED  BY <1>3, <2>1 DEF OrderHolds, QueuesInOrder
<1>7. ReadIsNoOlder'  BY <1>1 DEF ReadIsNoOlder
<1>8. CASE UNCHANGED <<shown, viaCache>> /\ ~ IsLatest(ch)
  <2>1. ASSUME NEW c \in up' \ viaCache'
        PROVE  c \in up \ viaCache /\ shown'[c] = shown[c] /\ connection'[c] = connection[c]
                 /\ queued'[<<c, connection[c]>>] = queued[<<c, connection[c]>>]
    BY <1>1, <1>2, <1>8 DEF IsLatest
  <2>2. NothingOlderQueued'  BY <2>1 DEF OrderHolds, NothingOlderQueued
  <2> QED  BY <1>1, <1>6, <1>7, <1>8, <2>2 DEF OrderHolds
<1>9. CASE /\ IsLatest(ch) /\ shown' = [shown EXCEPT ![ch[1]] = Head(q)]
           /\ viaCache' = viaCache \ {ch[1]}
  <2>1. ch[1] \in up /\ ch = <<ch[1], connection[ch[1]]>> /\ shown'[ch[1]] = q[1]
    BY <1>1, <1>4, <1>9 DEF IsLatest
  <2>2. NothingOlderQueued'
    <3>1. ASSUME NEW c \in up' \ viaCache', NEW i \in DOMAIN queued'[<<c, connection'[c]>>]
          PROVE  shown'[c] <= queued'[<<c, connection'[c]>>][i]
      <4>1. CASE c = ch[1]
        <5>1. i \in DOMAIN Tail(q) /\ queued'[<<c, connection'[c]>>] = Tail(q)
          BY <1>1, <1>3, <2>1, <3>1, <4>1
        <5>2. q[1] <= q[i + 1] /\ Tail(q)[i] = q[i + 1]
          BY <1>4, <1>5, <5>1 DEF OrderHolds, QueuesInOrder
        <5> QED  BY <2>1, <4>1, <5>1, <5>2
      <4>2. CASE c # ch[1]
        <5>1. /\ c \in up \ viaCache /\ shown'[c] = shown[c] /\ connection'[c] = connection[c]
              /\ queued'[<<c, connection[c]>>] = queued[<<c, connection[c]>>]
          BY <1>1, <1>2, <1>9, <3>1, <4>2
        <5> QED  BY <3>1, <5>1 DEF OrderHolds, NothingOlderQueued
      <4> QED  BY <4>1, <4>2
    <3> QED  BY <3>1 DEF NothingOlderQueued
  <2>3. ASSUME NEW c \in Clients \ viaCache PROVE shown[c] <= shown'[c]
    <3>1. CASE c = ch[1]
      <4>1. shown[c] <= q[1]
        BY <1>1, <1>4, <2>1, <3>1 DEF OrderHolds, NothingOlderQueued
      <4> QED  BY <2>1, <3>1, <4>1
    <3>2. CASE c # ch[1]  BY <1>1, <1>9, <3>2
    <3> QED  BY <3>1, <3>2
  <2> QED  BY <1>6, <1>7, <2>2, <2>3 DEF OrderHolds
<1>10. CASE IsLatest(ch)  BY <1>9, <1>10 DEF RunWrite, Show
<1>11. CASE ~ IsLatest(ch)  BY <1>8, <1>11 DEF RunWrite, Show
<1> QED  BY <1>10, <1>11

\* The channel of a new connection has an empty queue, and is not the one
\* for which the cache has been read.
LEMMA ConnectKeepsOrder ==
    ASSUME FeedInv, OrderHolds, NEW c \in Clients, Connect(c) PROVE OrderHolds'
<1> DEFINE new == <<c, connection[c] + 1>>
<1>1. /\ c \notin up /\ up' = up \cup {c} /\ connection' = [connection EXCEPT ![c] = @ + 1]
      /\ UNCHANGED <<queued, workerPc, workerChannel, json, shown, viaCache>>
      /\ connection[c] < MaxConnections
  BY DEF Connect
<1>2. /\ connection \in [Clients -> 0 .. MaxConnections] /\ up \subseteq Clients
      /\ MaxConnections \in Nat
  BY FeedBoundsAssumption DEF FeedInv, FeedTypeOK
<1>3. new \in Channels /\ ~ Joined(new) /\ connection'[c] = connection[c] + 1
      /\ new[1] = c /\ new[2] = connection[c] + 1
  BY <1>1, <1>2 DEF Channels, Joined
<1>4. QueuesInOrder'  BY <1>1 DEF OrderHolds, QueuesInOrder
<1>5. NothingOlderQueued'
  <2>1. queued'[new] = <<>>  BY <1>1, <1>3 DEF FeedInv, ChannelsHold
  <2>2. ASSUME NEW d \in up' \ viaCache', NEW i \in DOMAIN queued'[<<d, connection'[d]>>]
        PROVE  shown'[d] <= queued'[<<d, connection'[d]>>][i]
    <3>1. d # c
      <4> SUFFICES ASSUME d = c PROVE FALSE  OBVIOUS
      <4>1. i \in DOMAIN <<>>  BY <1>3, <2>1, <2>2
      <4> QED  BY <4>1
    <3>2. d \in up \ viaCache /\ connection'[d] = connection[d]  BY <1>1, <1>2, <2>2, <3>1
    <3> QED  BY <1>1, <2>2, <3>2 DEF OrderHolds, NothingOlderQueued
  <2> QED  BY <2>2 DEF NothingOlderQueued
<1>6. ReadIsNoOlder'
  <2> SUFFICES ASSUME workerPc = "read", IsLatest(workerChannel)'
               PROVE  IsLatest(workerChannel)
    BY <1>1 DEF OrderHolds, ReadIsNoOlder
  <2>1. workerChannel \in Channels /\ Joined(workerChannel)
    BY DEF FeedInv, FeedTypeOK, ChannelsHold
  <2>2. workerChannel[1] # c
    BY <1>1, <1>2, <1>3, <2>1 DEF IsLatest, Joined
  <2> QED  BY <1>1, <1>2, <2>2 DEF IsLatest
<1> QED  BY <1>4, <1>5, <1>6 DEF OrderHolds

\* A client that has gone has no standing channel.
LEMMA DropKeepsOrder ==
    ASSUME OrderHolds, NEW c \in Clients, Drop(c) PROVE OrderHolds'
<1>1. up' = up \ {c} /\ UNCHANGED <<queued, workerPc, workerChannel, json, connection, shown,
                                     viaCache>>
  BY DEF Drop, workerVars
<1>2. QueuesInOrder'  BY <1>1 DEF OrderHolds, QueuesInOrder
<1>3. NothingOlderQueued'  BY <1>1 DEF OrderHolds, NothingOlderQueued
<1>4. ReadIsNoOlder'  BY <1>1 DEF OrderHolds, ReadIsNoOlder, IsLatest
<1> QED  BY <1>2, <1>3, <1>4 DEF OrderHolds

\* Every step keeps the order, and takes no ladder back that does not show
\* a snapshot sent on connect.
LEMMA OrderStep ==
    ASSUME FeedInv, OrderHolds, [FeedNext]_feedVars
    PROVE  OrderHolds' /\ \A c \in Clients \ viaCache : shown[c] <= shown'[c]
<1>1. shown \in [Clients -> Nat]  BY DEF FeedInv, FeedTypeOK
<1>2. CASE UNCHANGED feedVars
  BY <1>1, <1>2, OrderKept DEF feedVars, workerVars, clientVars
<1>3. CASE PublishSnapshot \/ DeriveQuote
  BY <1>1, <1>3, OrderKept DEF PublishSnapshot, DeriveQuote, workerVars, clientVars
<1>4. CASE Serialize \/ SetCache \/ NobodyConnected \/ BroadcastBegins \/ BroadcastEnds
  BY <1>1, <1>4, OrderKept
  DEF Serialize, SetCache, NobodyConnected, BroadcastBegins, BroadcastEnds, workerVars,
      clientVars
<1>5. ASSUME NEW ch \in Channels, BroadcastTo(ch)
      PROVE  OrderHolds' /\ \A c \in Clients \ viaCache : shown[c] <= shown'[c]
  <2>1. OrderHolds'  BY <1>5, BroadcastToKeepsOrder
  <2> QED  BY <1>1, <1>5, <2>1 DEF BroadcastTo, clientVars
<1>6. ASSUME NEW ch \in Channels, HandshakeComplete(ch) \/ ChannelClosed(ch)
      PROVE  OrderHolds' /\ \A c \in Clients \ viaCache : shown[c] <= shown'[c]
  <2>1. /\ UNCHANGED <<queued, clientVars>>
        /\ workerPc' # "read" \/ UNCHANGED <<workerPc, workerChannel, json>>
    BY <1>6 DEF HandshakeComplete, ChannelClosed, workerVars
  <2> QED  BY <1>1, <2>1, OrderKept DEF clientVars
<1>7. ASSUME NEW ch \in Channels, RunWrite(ch)
      PROVE  OrderHolds' /\ \A c \in Clients \ viaCache : shown[c] <= shown'[c]
  BY <1>7, RunWriteKeepsOrder
<1>8. CASE ReadCache
  <2>1. OrderHolds'  BY <1>8, ReadCacheKeepsOrder
  <2> QED  BY <1>1, <1>8, <2>1 DEF ReadCache, clientVars
<1>9. CASE WriteSnapshot  BY <1>9, WriteSnapshotKeepsOrder
<1>10. ASSUME NEW c \in Clients, Connect(c) \/ Drop(c)
       PROVE  OrderHolds' /\ \A d \in Clients \ viaCache : shown[d] <= shown'[d]
  <2>1. OrderHolds'  BY <1>10, ConnectKeepsOrder, DropKeepsOrder
  <2>2. shown' = shown  BY <1>10 DEF Connect, Drop
  <2> QED  BY <1>1, <2>1, <2>2
<1> QED
  BY <1>2, <1>3, <1>4, <1>5, <1>6, <1>7, <1>8, <1>9, <1>10 DEF FeedNext, Publisher, Worker

\* For any clients and reconnections, a ladder goes back to an older book
\* only while it shows the snapshot that was sent on connect.
THEOREM LaddersGoBackOnlyAfterConnect == FeedSpec => BackOnlyAfterConnect
<1>1. FeedInit => OrderHolds  BY OrderInit
<1>2. FeedInv /\ OrderHolds /\ [FeedNext]_feedVars => OrderHolds'  BY OrderStep
<1>3. FeedInv /\ OrderHolds /\ [FeedNext]_feedVars
        => [\A c \in Clients : shown'[c] < shown[c] => c \in viaCache]_feedVars
  <2> SUFFICES ASSUME FeedInv, OrderHolds, [FeedNext]_feedVars, NEW c \in Clients,
                      shown'[c] < shown[c], c \notin viaCache
               PROVE  FALSE
    OBVIOUS
  <2>1. shown[c] <= shown'[c]  BY OrderStep
  <2>2. FeedInv'  BY FeedStepKeepsInv
  <2>3. shown[c] \in Nat /\ shown'[c] \in Nat  BY <2>2 DEF FeedInv, FeedTypeOK
  <2> QED  BY <2>1, <2>3
<1> QED
  BY <1>1, <1>2, <1>3, FeedInvHolds, PTL DEF FeedSpec, BackOnlyAfterConnect
=============================================================================
