----------------------------- MODULE EventBroker -----------------------------
(***************************************************************************)
(* The pub-sub behind GET /v1/events.  A publisher takes an id and then    *)
(* puts its event into the broker's channel; those are two steps, and      *)
(* another publisher can come between them.  One goroutine records an      *)
(* event and fans it out under the lock a subscription takes too.  The     *)
(* handler of a subscriber writes the replay, and then what its channel    *)
(* holds, without that lock: it can take an event while the goroutine is   *)
(* between finding the channel full and making room in it.                 *)
(*                                                                         *)
(* A client reconnects with the id of the last event it saw.  The broker   *)
(* lives in the process: a restart forgets every event and counts ids from *)
(* one again, and the client still holds the old id.                       *)
(***************************************************************************)
EXTENDS Integers, Sequences, FiniteSets

CONSTANTS
  Clients,         \* the clients of the stream
  Topics,          \* the topics of events
  Wants,           \* the topics each client asks for
  Publishers,      \* publishers that can be in Publish at a time
  PublishBuffer,   \* eventPublishBufferSize
  ReplayCapacity,  \* replayCapacity
  ChannelLen,      \* subscriberChannelBufferLen
  MaxSubscribers,  \* maxBrokerSubscribers
  NoEvent,         \* no event
  MaxEvents,       \* bound: events published in one life of the process
  MaxEra           \* bound: restarts of the process

\* An event has an id, and is of a life of the process.
Events == [id : 1..MaxEvents, topic : Topics, era : 0..MaxEra]

ASSUME WantsAssumption  == Wants \in [Clients -> SUBSET Topics]
ASSUME NoEventAssumption == NoEvent \notin Nat /\ NoEvent \notin Events
ASSUME LimitsAssumption ==
  /\ {Publishers, PublishBuffer, ReplayCapacity, ChannelLen, MaxSubscribers} \subseteq Nat \ {0}
  /\ MaxEvents \in Nat /\ MaxEra \in Nat

VARIABLES
  era,        \* history: the lives of the process so far
  nextID,     \* eventBroker.nextID
  drafted,    \* events whose publisher has their id and has not sent them yet
  queue,      \* eventBroker.publish
  record,     \* history: the events the goroutine recorded in this life.  Past the
              \* goroutine an event is known by its place in the record
  todo,       \* the subscribers the last event of the record is still to reach
  full,       \* those of them whose channel was found full
  open,       \* eventBroker.subscribers
  replay,     \* what the handler has to write before it reads its channel
  ch,         \* subscriber.ch
  hand,       \* the event a handler has taken and not written, or NoEvent
  dropped,    \* subscriber.dropped
  seen,       \* the last event with an id a client saw, or NoEvent
  from,       \* history: where in the record a client's stream began
  got,        \* history: the events a client saw since
  announced   \* history: the events a client missed and got a notice for

brokerVars  == <<nextID, drafted, queue>>
fanVars     == <<record, todo, full>>
streamVars  == <<open, replay, ch, hand, dropped>>
clientVars  == <<seen, from, got, announced>>
vars        == <<era, brokerVars, fanVars, streamVars, clientVars>>

\* A heartbeat has no place in the record.
Heartbeat == 0

\* The places of the record, and the heartbeat.
Places == 0..Len(record)

TypeOK ==
  /\ era \in 0..MaxEra /\ nextID \in 0..MaxEvents
  /\ drafted \subseteq Events
  /\ queue \in Seq(Events) /\ Len(queue) <= PublishBuffer
  /\ record \in Seq(Events)
  /\ full \subseteq todo /\ todo \subseteq open /\ open \subseteq Clients
  /\ Cardinality(open) <= MaxSubscribers
  /\ replay \in [Clients -> SUBSET (Places \ {Heartbeat})]
  /\ ch \in [Clients -> Seq(Places)]
  /\ hand \in [Clients -> Places \cup {NoEvent}]
  /\ dropped \in [Clients -> Nat]
  /\ seen \in [Clients -> Events \cup {NoEvent}]
  /\ from \in [Clients -> 0..Len(record)]
  /\ got \in [Clients -> Seq(Places \ {Heartbeat})]
  /\ announced \in [Clients -> SUBSET (Places \ {Heartbeat})]
  /\ \A c \in Clients : Cardinality(replay[c]) <= ReplayCapacity /\ Len(ch[c]) <= ChannelLen

Init ==
  /\ era = 0 /\ nextID = 0 /\ drafted = {} /\ queue = <<>>
  /\ record = <<>> /\ todo = {} /\ full = {} /\ open = {}
  /\ replay    = [c \in Clients |-> {}]
  /\ ch        = [c \in Clients |-> <<>>]
  /\ hand      = [c \in Clients |-> NoEvent]
  /\ dropped   = [c \in Clients |-> 0]
  /\ seen      = [c \in Clients |-> NoEvent]
  /\ from      = [c \in Clients |-> 0]
  /\ got       = [c \in Clients |-> <<>>]
  /\ announced = [c \in Clients |-> {}]

-----------------------------------------------------------------------------
\* subscriber.matches
Matches(c, e) == e.topic \in Wants[c]

\* The end of the record that replayBuffer holds, by position.
Buffered == {i \in 1..Len(record) : i > Len(record) - ReplayCapacity}

\* The positions that recognise a Last-Event-ID; an id is all there is to go by.
Recognised(id) == {i \in Buffered : record[i].id = id}

\* The first of some places.
Oldest(S) == {i \in S : \A j \in S : i <= j}

\* Mutant: the replay begins with the event the client names.
ReplayFrom(c, i) == {k \in Buffered : k >= i /\ Matches(c, record[k])}

\* replaySinceLocked, after the event at position i.
ReplayAfter(c, i) == {k \in Buffered : k > i /\ Matches(c, record[k])}

Elems(s) == {s[i] : i \in DOMAIN s}

\* What a client should have been given after position i of the record.
Expected(c, i) == {k \in (i + 1)..Len(record) : Matches(c, record[k])}

\* What is on its way to a client: what the handler has yet to write, what it holds,
\* what its channel holds, and the event it is about to be sent.
OnItsWay(c) == replay[c] \cup {hand[c]} \cup Elems(ch[c]) \cup (IF c \in todo THEN {Len(record)} ELSE {})

Missed(c) == Expected(c, from[c]) \ (Elems(got[c]) \cup OnItsWay(c) \cup announced[c])

Unlocked == todo = {}
-----------------------------------------------------------------------------
\* Publish: nextID.Add(1).
Draft(t) ==
  /\ nextID < MaxEvents
  /\ Cardinality(drafted) < Publishers
  /\ nextID'  = nextID + 1
  /\ drafted' = drafted \cup {[id |-> nextID + 1, topic |-> t, era |-> era]}
  /\ UNCHANGED <<era, queue, fanVars, streamVars, clientVars>>

\* Publish: the channel takes the event.
Enqueue(e) ==
  /\ e \in drafted
  /\ Len(queue) < PublishBuffer
  /\ queue'   = Append(queue, e)
  /\ drafted' = drafted \ {e}
  /\ UNCHANGED <<era, nextID, fanVars, streamVars, clientVars>>

\* Publish: the channel is full, and its oldest event makes room.
MakeRoom ==
  /\ drafted # {}
  /\ Len(queue) = PublishBuffer
  /\ queue' = Tail(queue)
  /\ UNCHANGED <<era, nextID, drafted, fanVars, streamVars, clientVars>>

\* run: the next event, recorded, and the lock held until every subscriber has it.
RecordReplay ==
  /\ Unlocked
  /\ queue # <<>>
  /\ queue'  = Tail(queue)
  /\ record' = Append(record, Head(queue))
  /\ todo'   = {c \in open : Matches(c, Head(queue))}
  /\ UNCHANGED <<era, nextID, drafted, full, streamVars, clientVars>>

\* fanoutLocked: the first send.
Offer(c) ==
  /\ c \in todo \ full
  /\ IF Len(ch[c]) < ChannelLen
     THEN /\ ch'   = [ch EXCEPT ![c] = Append(@, Len(record))]
          /\ todo' = todo \ {c}
          /\ UNCHANGED full
     ELSE full' = full \cup {c} /\ UNCHANGED <<todo, ch>>
  /\ UNCHANGED <<era, brokerVars, record, open, replay, hand, dropped, clientVars>>

\* Mutant: what the channel dropped is not counted.
EvictUncounted(c) ==
  /\ c \in full
  /\ ch'   = [ch EXCEPT ![c] = Append(IF @ = <<>> THEN @ ELSE Tail(@), Len(record))]
  /\ todo' = todo \ {c} /\ full' = full \ {c}
  /\ UNCHANGED <<era, brokerVars, record, open, replay, hand, dropped, clientVars>>

\* fanoutLocked: the oldest event of the channel is dropped, if the handler has
\* not drained it by now, and the second send finds room.
Evict(c) ==
  /\ c \in full
  /\ IF ch[c] = <<>>
     THEN ch' = [ch EXCEPT ![c] = <<Len(record)>>] /\ UNCHANGED dropped
     ELSE /\ ch'      = [ch EXCEPT ![c] = Append(Tail(@), Len(record))]
          /\ dropped' = [dropped EXCEPT ![c] = @ + 1]
  /\ todo' = todo \ {c} /\ full' = full \ {c}
  /\ UNCHANGED <<era, brokerVars, record, open, replay, hand, clientVars>>

\* fanoutHeartbeatLocked: a full channel is passed over.
FanoutHeartbeat ==
  /\ Unlocked
  /\ \E c \in open : Len(ch[c]) < ChannelLen
  /\ ch' = [c \in Clients |-> IF c \in open /\ Len(ch[c]) < ChannelLen
                              THEN Append(ch[c], Heartbeat) ELSE ch[c]]
  /\ UNCHANGED <<era, brokerVars, fanVars, open, replay, hand, dropped, clientVars>>

\* The client's stream begins here, or goes on from the event it last saw.
Begin(c, i) ==
  /\ from'      = [from      EXCEPT ![c] = i]
  /\ got'       = [got       EXCEPT ![c] = <<>>]
  /\ announced' = [announced EXCEPT ![c] = {}]
GoOn == UNCHANGED <<from, got, announced>>

\* The client stands after the position that the broker recognised.
Resume(c, i) ==
  /\ replay'  = [replay  EXCEPT ![c] = ReplayAfter(c, i)]
  /\ IF record[i] = seen[c] THEN GoOn ELSE Begin(c, i)

\* No Last-Event-ID, or one that is not in the buffer: no replay.
StartAnew(c) ==
  /\ replay'  = [replay  EXCEPT ![c] = {}]
  /\ Begin(c, Len(record))

\* subscribe: the replay and the insertion under one lock.
Subscribe(c) ==
  /\ Unlocked
  /\ c \notin open
  /\ Cardinality(open) < MaxSubscribers
  /\ open' = open \cup {c}
  /\ IF seen[c] # NoEvent /\ Recognised(seen[c].id) # {}
     THEN \E i \in Oldest(Recognised(seen[c].id)) : Resume(c, i)
     ELSE StartAnew(c)
  /\ UNCHANGED <<era, brokerVars, fanVars, ch, hand, dropped, seen>>

\* The client sees an event; a heartbeat has no id and leaves no trace.
Sees(c, k) ==
  IF k = Heartbeat THEN UNCHANGED <<seen, got>>
  ELSE seen' = [seen EXCEPT ![c] = record[k]] /\ got' = [got EXCEPT ![c] = Append(@, k)]

\* events: the replay, event by event.
WriteReplay(c) ==
  /\ c \in open
  /\ \E k \in Oldest(replay[c]) : replay' = [replay EXCEPT ![c] = @ \ {k}] /\ Sees(c, k)
  /\ UNCHANGED <<era, brokerVars, fanVars, open, ch, hand, dropped, from, announced>>

\* events: the receive from the channel.
Take(c) ==
  /\ c \in open
  /\ replay[c] = {} /\ hand[c] = NoEvent /\ ch[c] # <<>>
  /\ hand' = [hand EXCEPT ![c] = Head(ch[c])]
  /\ ch'   = [ch   EXCEPT ![c] = Tail(@)]
  /\ UNCHANGED <<era, brokerVars, fanVars, open, replay, dropped, clientVars>>

\* Mutant: the notice goes out while the channel is full, and not after.
NoticeWhileFull(c) == dropped[c] > 0 /\ Len(ch[c]) = ChannelLen

\* The broker dropped events of this subscriber.
NoticeDue(c) == dropped[c] > 0

\* events: dropped.Swap(0), the notice if there is one, and the event.
Write(c) ==
  /\ c \in open
  /\ hand[c] # NoEvent
  /\ hand' = [hand EXCEPT ![c] = NoEvent]
  /\ IF NoticeDue(c)
     THEN /\ dropped'   = [dropped EXCEPT ![c] = 0]
          /\ announced' = [announced EXCEPT ![c] = @ \cup Missed(c)]
     ELSE UNCHANGED <<dropped, announced>>
  /\ Sees(c, hand[c])
  /\ UNCHANGED <<era, brokerVars, fanVars, open, replay, ch, from>>

\* What is left of a subscription.
Forget(C) ==
  /\ open'    = open \ C
  /\ replay'  = [c \in Clients |-> IF c \in C THEN {} ELSE replay[c]]
  /\ ch'      = [c \in Clients |-> IF c \in C THEN <<>> ELSE ch[c]]
  /\ hand'    = [c \in Clients |-> IF c \in C THEN NoEvent ELSE hand[c]]
  /\ dropped' = [c \in Clients |-> IF c \in C THEN 0 ELSE dropped[c]]

\* The request ends, and the deferred unsubscribe takes the lock.
Unsubscribe(c) ==
  /\ Unlocked
  /\ c \in open
  /\ Forget({c})
  /\ UNCHANGED <<era, brokerVars, fanVars, clientVars>>

\* The process stops and starts.
Restart ==
  /\ era < MaxEra
  /\ era' = era + 1
  /\ nextID' = 0 /\ drafted' = {} /\ queue' = <<>>
  /\ record' = <<>> /\ todo' = {} /\ full' = {}
  /\ Forget(Clients)
  /\ from' = [c \in Clients |-> 0] /\ got' = [c \in Clients |-> <<>>]
  /\ announced' = [c \in Clients |-> {}]
  /\ UNCHANGED seen

Publish   == (\E t \in Topics : Draft(t)) \/ (\E e \in drafted : Enqueue(e)) \/ MakeRoom
Fanout    == \E c \in todo : Offer(c) \/ Evict(c)
Run       == RecordReplay \/ Fanout
Handle(c) == WriteReplay(c) \/ Take(c) \/ Write(c)

Next ==
  \/ Publish \/ Run \/ FanoutHeartbeat \/ Restart
  \/ \E c \in Clients : Subscribe(c) \/ Handle(c) \/ Unsubscribe(c)

Spec == Init /\ [][Next]_vars

\* The goroutine runs, and a handler does not stay away from its channel.
Fairness == WF_vars(Run) /\ \A c \in Clients : WF_vars(Handle(c))

FairSpec == Spec /\ Fairness

-----------------------------------------------------------------------------
(***************************************************************************)
(* Properties                                                              *)
(***************************************************************************)

\* What a client sees, over reconnections with a replay too, is in the order in which
\* the broker recorded it, and nothing comes twice: neither by the replay and the
\* channel, nor by two replays (subscribe: one lock around both).
InRecordOrder ==
  \A c \in Clients : \A i, j \in DOMAIN got[c] : i < j => got[c][i] < got[c][j]

\* A connected client has, or will be sent, every recorded event of its topics
\* since its stream began, or was told that it missed it, or the broker's count
\* of what it is still to be told covers it: whoever is slow, and wherever the
\* handler stands between the sends of a fan-out.
MissedIsCounted == \A c \in open : Cardinality(Missed(c)) <= dropped[c]

\* A count of missed events reaches the client without waiting for the next event.
MissedIsAnnounced == \A c \in Clients : dropped[c] > 0 ~> dropped[c] = 0
=============================================================================
