--------------------------- MODULE PullConsumption ---------------------------
(***************************************************************************)
(* Pull-based consumption: ConsumerManager of services/event-bus-service/  *)
(* src/consumers/consumer-manager.ts without its webhooks, behind the      *)
(* routes /consumers, /subscribe, /consume, /ack and /nack of index.ts,    *)
(* over the event store and the dead letter queue.                         *)
(*                                                                         *)
(* The bus is one Node process and every await of these methods is on an   *)
(* in-memory map, so a request runs to completion: each is one action.     *)
(* What interleaves is requests, append timers and ack timers.  The client *)
(* is not part of the repository: it polls a fixed list of topics, holds   *)
(* what it got, and may answer an event early, late, out of order, twice,  *)
(* or never.                                                               *)
(***************************************************************************)
EXTENDS EventStore, DeadLetters

CONSTANTS
    Consumers,
    Polled,          \* [Consumers -> sequence of topics a /consume names]
    AckTopics,       \* the event_type values clients put in /ack
    BatchSize,       \* batch_size, or the default
    MaxRepeats,      \* bound of the model: repeated /ack requests, and seeks
    CanSeek,         \* do clients pass from_offset?
    CanLeave         \* do consumers get deactivated or removed?

\* A topic is a type, or a domain d that stands for the wildcard "d.*".
Topics == EventTypes \cup Domains

ASSUME PullAssumption ==
    /\ EventTypes \cap Domains = {}
    /\ Deliveries = Consumers \X (1..MaxAppends)
    /\ Polled \in [Consumers -> Seq(Topics)]
    /\ AckTopics \subseteq Topics
    /\ BatchSize \in Nat \ {0} /\ MaxRepeats \in Nat
    /\ CanSeek \in BOOLEAN /\ CanLeave \in BOOLEAN

VARIABLES
    consumers,          \* [Consumers -> life cycle]; ids are never reused
    offsets,            \* [Consumers -> [Topics -> last_event_id, 0 if none]]
    pendingDeliveries,  \* pairs whose ack timer runs
    held,               \* [Consumers -> events the client has not answered]
    batch,              \* [Consumers -> the last response to /consume, as in Found()]
    handedOut,          \* history: pairs ever part of a response
    acked,              \* history: pairs the client acknowledged
    skipTo,             \* history: [Consumers -> [Topics -> furthest seek]]
    repeats             \* bound: /ack requests repeated and seeks made so far

clientVars == <<held, batch, handedOut, acked, skipTo, repeats>>
managerVars == <<consumers, offsets, pendingDeliveries>>
vars == <<storeVars, dlq, managerVars, clientVars>>

DomainOfTopic(t) == IF t \in Domains THEN t ELSE DomainOf[t]

Matches(e, t) == IF t \in Domains THEN DomainOf[appended[e].event_type] = t
                 ELSE appended[e].event_type = t

PolledTopics(c) == {Polled[c][i] : i \in 1..Len(Polled[c])}

\* The page getEvents() returns for one topic: the limit applies to the
\* domain, before the events of other types are filtered out.
RawPage(c, t, from) ==
    GetByKey(DomainOfTopic(t), IF from # 0 THEN from ELSE offsets[c][t], BatchSize)

\* What a page contributes, as <<page, place, event>>, once filtered by type.
Hits(c, i, page) ==
    {<<i, n, page[n]>> : n \in {m \in 1..Len(page) : Matches(page[m], Polled[c][i])}}

\* Everything the pages of a /consume contribute.
Found(c, from) ==
    UNION {Hits(c, i, RawPage(c, Polled[c][i], from)) : i \in 1..Len(Polled[c])}

\* Array.sort by sequence is stable: a tie keeps the order of the pages.
Before(x, y) ==
    \/ appended[x[3]].sequence < appended[y[3]].sequence
    \/ /\ appended[x[3]].sequence = appended[y[3]].sequence
       /\ x[1] < y[1] \/ (x[1] = y[1] /\ x[2] < y[2])

\* Variant: the slice is taken before the sort.
IsResponseUnsorted(found, S) ==
    Cardinality(S) = IF Cardinality(found) < BatchSize THEN Cardinality(found)
                     ELSE BatchSize

\* The response is what the sort puts first, up to the batch size.
IsResponse(found, S) ==
    /\ Cardinality(S) = IF Cardinality(found) < BatchSize THEN Cardinality(found)
                        ELSE BatchSize
    /\ \A x \in S, y \in found \ S : Before(x, y)

IdsOf(S) == {x[3] : x \in S}

-----------------------------------------------------------------------------
Init ==
    /\ StoreInit
    /\ DlqInit
    /\ consumers = [c \in Consumers |-> "unregistered"]
    /\ offsets = [c \in Consumers |-> [t \in Topics |-> 0]]
    /\ pendingDeliveries = {}
    /\ held = [c \in Consumers |-> {}]
    /\ batch = [c \in Consumers |-> {}]
    /\ handedOut = {}
    /\ acked = {}
    /\ skipTo = [c \in Consumers |-> [t \in Topics |-> 0]]
    /\ repeats = 0

Publish ==
    /\ \/ \E t \in EventTypes, c \in Correlations,
             a \in Aggregates \cup {NoAggregate} : AppendCall(t, c, a)
       \/ Persist
       \/ Tick
    /\ UNCHANGED <<dlq, managerVars, clientVars>>

\* History of a seek: what the client itself asked to jump over.
Sought(c, from) ==
    [skipTo EXCEPT ![c] = [t \in Topics |->
        IF t \in PolledTopics(c) /\ from > offsets[c][t] /\ from > @[t]
        THEN from ELSE @[t]]]

Register(c) ==
    /\ consumers[c] = "unregistered"
    /\ consumers' = [consumers EXCEPT ![c] = "active"]
    /\ UNCHANGED <<storeVars, dlq, offsets, pendingDeliveries, clientVars>>

\* subscribe() with from_offset sets the offset of every topic it names;
\* without one it leaves the offsets as they are.
Subscribe(c, from) ==
    /\ CanSeek /\ repeats < MaxRepeats
    /\ consumers[c] \in {"active", "inactive"}
    /\ from \in acknowledged
    /\ offsets' = [offsets EXCEPT ![c] =
                     [t \in Topics |-> IF t \in PolledTopics(c) THEN from ELSE @[t]]]
    /\ skipTo' = Sought(c, from)
    /\ repeats' = repeats + 1
    /\ UNCHANGED <<storeVars, dlq, consumers, pendingDeliveries, held, batch,
                   handedOut, acked>>

\* /consume: every event of the response gets a fresh ack timer.
Pull(c, from) ==
    /\ consumers[c] = "active"
    /\ \/ from = 0 /\ UNCHANGED repeats
       \/ CanSeek /\ from \in acknowledged /\ repeats < MaxRepeats /\ repeats' = repeats + 1
    /\ LET found == Found(c, from)
       IN \E S \in SUBSET found :
        /\ IsResponse(found, S)
        /\ pendingDeliveries' = pendingDeliveries \cup ({c} \X IdsOf(S))
        /\ held' = [held EXCEPT ![c] = @ \cup IdsOf(S)]
        /\ batch' = [batch EXCEPT ![c] = S]
        /\ handedOut' = handedOut \cup ({c} \X IdsOf(S))
    /\ skipTo' = Sought(c, from)
    /\ UNCHANGED <<storeVars, dlq, consumers, offsets, acked>>

\* Variant: the timer only clears itself.
AckTimeoutForgets(d) ==
    /\ d \in pendingDeliveries
    /\ pendingDeliveries' = pendingDeliveries \ {d}
    /\ UNCHANGED <<storeVars, dlq, consumers, offsets, clientVars>>

\* handleAckTimeout(): the timer of a pair nobody answered fires.
AckTimeout(d) ==
    /\ d \in pendingDeliveries
    /\ pendingDeliveries' = pendingDeliveries \ {d}
    /\ RecordFailure(d)
    /\ UNCHANGED <<storeVars, consumers, offsets, clientVars>>

\* acknowledge(): no check that the event is pending, or newer than the
\* offset; a repeated or late /ack moves the offset back.
Acknowledge(c, e, t) ==
    /\ t \in AckTopics /\ Matches(e, t)
    /\ pendingDeliveries' = pendingDeliveries \ {<<c, e>>}
    /\ offsets' = [offsets EXCEPT ![c][t] = e]
    /\ held' = [held EXCEPT ![c] = @ \ {e}]
    /\ acked' = acked \cup {<<c, e>>}
    /\ UNCHANGED <<storeVars, dlq, consumers, batch, handedOut, skipTo>>

\* The client answers an event it holds, or its network repeats an old /ack.
FirstAck(c, e, t) ==
    /\ e \in held[c]
    /\ Acknowledge(c, e, t)
    /\ UNCHANGED repeats

RepeatedAck(c, e, t) ==
    /\ <<c, e>> \in acked
    /\ repeats < MaxRepeats
    /\ Acknowledge(c, e, t)
    /\ repeats' = repeats + 1

\* Variant: a nack counts whether or not the delivery is pending.
NegativeAckUnchecked(c, e) ==
    /\ e \in held[c]
    /\ held' = [held EXCEPT ![c] = @ \ {e}]
    /\ pendingDeliveries' = pendingDeliveries \ {<<c, e>>}
    /\ RecordFailure(<<c, e>>)
    /\ UNCHANGED <<storeVars, consumers, offsets, batch, handedOut, acked, skipTo,
                   repeats>>

\* negativeAck(): only a pending delivery counts as a failure.
NegativeAck(c, e) ==
    /\ e \in held[c]
    /\ held' = [held EXCEPT ![c] = @ \ {e}]
    /\ IF <<c, e>> \in pendingDeliveries
       THEN /\ pendingDeliveries' = pendingDeliveries \ {<<c, e>>}
            /\ RecordFailure(<<c, e>>)
       ELSE UNCHANGED <<pendingDeliveries, dlq>>
    /\ UNCHANGED <<storeVars, consumers, offsets, batch, handedOut, acked, skipTo,
                   repeats>>

\* deactivateConsumer() and removeConsumer(): offsets and ack timers stay.
Leave(c, how) ==
    /\ CanLeave
    /\ consumers[c] = "active" \/ (consumers[c] = "inactive" /\ how = "removed")
    /\ consumers' = [consumers EXCEPT ![c] = how]
    /\ UNCHANGED <<storeVars, dlq, offsets, pendingDeliveries, clientVars>>

Next ==
    \/ Publish
    \/ \E d \in pendingDeliveries : AckTimeout(d)
    \/ \E c \in Consumers :
        \/ Register(c)
        \/ \E from \in acknowledged : Subscribe(c, from)
        \/ \E from \in acknowledged \cup {0} : Pull(c, from)
        \/ \E e \in 1..Len(appended) :
              \/ NegativeAck(c, e)
              \/ \E t \in AckTopics : FirstAck(c, e, t) \/ RepeatedAck(c, e, t)
        \/ \E how \in {"inactive", "removed"} : Leave(c, how)

Spec == Init /\ [][Next]_vars

-----------------------------------------------------------------------------
(* Liveness: the timers of the process fire; the client polls, and an event *)
(* it is handed again and again it acknowledges at last.  It may give up on *)
(* any single copy, and nobody has to publish, seek or leave.               *)
ClientAcks(c, e) == \E t \in AckTopics : FirstAck(c, e, t)

Fairness ==
    /\ WF_vars(Persist /\ UNCHANGED <<dlq, managerVars, clientVars>>)
    /\ \A d \in Deliveries : WF_vars(AckTimeout(d))
    /\ \A c \in Consumers :
        /\ WF_vars(Register(c))
        /\ WF_vars(Pull(c, 0))
        /\ \A e \in 1..MaxAppends : SF_vars(ClientAcks(c, e))

FairSpec == Spec /\ Fairness

-----------------------------------------------------------------------------
(* Properties *)

\* The shape of the state of the consumer manager and of its client.
TypeOK ==
    /\ StoreTypeOK
    /\ DlqTypeOK
    /\ consumers \in [Consumers -> {"unregistered", "active", "inactive", "removed"}]
    /\ offsets \in [Consumers -> [Topics -> 0..MaxAppends]]
    /\ pendingDeliveries \subseteq Deliveries
    /\ held \in [Consumers -> SUBSET (1..MaxAppends)]
    /\ batch \in [Consumers -> SUBSET (Nat \X Nat \X (1..MaxAppends))]
    /\ handedOut \subseteq Deliveries
    /\ acked \subseteq Deliveries
    /\ skipTo \in [Consumers -> [Topics -> 0..MaxAppends]]
    /\ repeats \in 0..MaxRepeats

Accounted(c, e) == \/ <<c, e>> \in acked \cup pendingDeliveries
                   \/ HasEntry(<<c, e>>)

\* No event disappears between the offset, the ack timers and the dead letter
\* queue: one a consumer's offset has moved past - by acks out of order, late
\* or repeated - was acknowledged, still has its timer, or has an entry; only
\* an explicit from_offset skips events (pullEvents(), acknowledge()).
NoSilentLoss ==
    \A c \in Consumers : \A t \in PolledTopics(c) : \A e \in Retained :
        (Matches(e, t) /\ skipTo[c][t] < e /\ e <= offsets[c][t])
            => Accounted(c, e)

\* An ack timer or an entry exists only for an event the consumer was handed.
OnlyHandedOutFails ==
    \A d \in Deliveries : (d \in pendingDeliveries \/ HasEntry(d)) => d \in handedOut

\* One delivery fails at most once: a nack that races the ack timer, or comes
\* after it, is not counted again (handleAckTimeout(), negativeAck()).
OneFailurePerDelivery ==
    [][\A d \in Deliveries : dlq'[d] # dlq[d] =>
            d \in pendingDeliveries /\ d \notin pendingDeliveries']_vars

\* A response lists the events of one topic in log order, without holes: what
\* is behind a listed event and after the offset is listed too, so that an ack
\* may move the offset over it (getByDomain(), the filter, sort and slice).
BatchHasNoHoles ==
    [][\A c \in Consumers : batch'[c] # batch[c] => \A t \in PolledTopics(c) :
         LET got == IdsOf(batch'[c])
         IN  \A e \in Retained, g \in got :
                (/\ Matches(e, t) /\ Matches(g, t) /\ e < g
                 /\ offsets[c][t] < e /\ skipTo'[c][t] < e) => e \in got]_vars

\* Pull consumption keeps the contract of the bus: a delivery ends only as an
\* acknowledgement or as an entry of the dead letter queue, whatever order
\* timers, nacks, acks and polls come in (pullEvents(), acknowledge(),
\* negativeAck(), handleAckTimeout()).
Contract == INSTANCE DeliveryContract WITH
    outstanding <- pendingDeliveries,
    failed <- {d \in Deliveries : HasEntry(d)},
    done <- acked

KeepsContract == Contract!ContractSpec

\* README.md:10 "At-least-once delivery": a retained event of a topic that an
\* active consumer polls is handed out sooner or later, unless the consumer
\* leaves or has sought past it.
AtLeastOnce ==
    \A c \in Consumers, e \in 1..MaxAppends :
        (/\ consumers[c] = "active"
         /\ e \in Retained /\ \E t \in PolledTopics(c) : Matches(e, t))
            ~> \/ <<c, e>> \in handedOut \/ e \notin Retained
               \/ consumers[c] # "active"
               \/ \E t \in PolledTopics(c) : e <= skipTo[c][t]
=============================================================================
