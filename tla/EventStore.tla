----------------------------- MODULE EventStore -----------------------------
(***************************************************************************)
(* The event bus's store: services/event-bus-service/src/store/            *)
(* event-store.ts, class EventStore over InMemoryEventStore, the only      *)
(* backend index.ts builds.                                                *)
(*                                                                         *)
(* append() stamps an envelope and calls persist(), which waits for a 1 ms *)
(* timer before it touches the maps.  Node fires timers of one duration in *)
(* the order they were set, so the appends that wait form a FIFO queue:    *)
(* event e is the e-th call of append(), and `persisted' is the last one   *)
(* whose timer has fired.  Between the two an append is in flight, and a   *)
(* restart loses it.  Everything is in memory: a restart empties the store.*)
(*                                                                         *)
(* The three index maps (by domain, correlation and aggregate) are         *)
(* maintained by the same code for three kinds of key; here they are one   *)
(* function over Keys.  A missing map entry is the empty list.             *)
(***************************************************************************)
EXTENDS Integers, Sequences, FiniteSets

CONSTANTS
    EventTypes,      \* full names, e.g. "requests.REQUEST_CREATED"
    Domains,         \* the part of the type before the dot
    DomainOf,        \* [EventTypes -> Domains]
    Correlations,    \* correlation ids
    Aggregates,      \* ids found in payloads (request_id, booking_id, ...)
    NoAggregate,     \* the payload names none
    MaxEvents,       \* InMemoryEventStore.maxEvents
    ClockStepsBack,  \* may the host's clock be set back?
    MaxAppends,      \* bound of the model: calls of append()
    MaxTime          \* bound of the model: the instants Date.now() can return

ASSUME EventTypesAssumption == DomainOf \in [EventTypes -> Domains]
\* The three maps have their own keys: one function stands for them.
ASSUME KeysAssumption ==
    /\ Domains \cap Correlations = {} /\ Domains \cap Aggregates = {}
    /\ Correlations \cap Aggregates = {}
    /\ NoAggregate \notin Domains \cup Correlations \cup Aggregates
ASSUME MaxEventsAssumption == MaxEvents \in Nat \ {0}
ASSUME ClockAssumption == ClockStepsBack \in BOOLEAN
ASSUME BoundsAssumption == MaxAppends \in Nat /\ MaxTime \in Nat

VARIABLES
    appended,      \* the envelope of every event append() was ever called for
    persisted,     \* appends up to this one have left the timer queue
    eventOrder,    \* ids kept by the store, oldest first
    index,         \* [Keys -> sequence of ids]: eventsByDomain and the others
    acknowledged,  \* ids whose append() returned to the publisher
    now            \* Date.now()

storeVars == <<appended, persisted, eventOrder, index, acknowledged, now>>

Keys == Domains \cup Correlations \cup Aggregates

\* What the store and its readers look at in an EventEnvelope.
Envelope == [event_type : EventTypes, correlation_id : Correlations,
             aggregate : Aggregates \cup {NoAggregate}, sequence : Nat]

KeysOf(e) == {DomainOf[appended[e].event_type], appended[e].correlation_id,
              appended[e].aggregate} \ {NoAggregate}

\* Array.indexOf, 1-based: 0 stands for the -1 of "not found".
IndexOf(s, x) ==
    IF \E i \in 1..Len(s) : s[i] = x
    THEN CHOOSE i \in 1..Len(s) : s[i] = x /\ \A j \in 1..(i - 1) : s[j] # x
    ELSE 0

\* Array.splice(i, 1)
Splice(s, i) == [j \in 1..(Len(s) - 1) |-> IF j < i THEN s[j] ELSE s[j + 1]]

\* Variant: one event too many is kept (`>' for `>=' in the loop of evictions).
OverflowsLate(order) == Len(order) > MaxEvents + 1

\* persist() evicts one event per call, when this one is too many.
Overflows(order) == Len(order) > MaxEvents

\* The sequence number of an envelope: Date.now() when append() is called.
Stamp == now

\* Variant: an evicted id stays in the index lists.
RemoveIdNever(s, x) == s

RemoveId(s, x) == IF IndexOf(s, x) = 0 THEN s ELSE Splice(s, IndexOf(s, x))

-----------------------------------------------------------------------------
StoreInit ==
    /\ appended = <<>>
    /\ persisted = 0
    /\ eventOrder = <<>>
    /\ index = [k \in Keys |-> <<>>]
    /\ acknowledged = {}
    /\ now = 0

\* append() up to its await: the envelope is built, the timer is set.
AppendCall(t, c, a) ==
    /\ Len(appended) < MaxAppends
    /\ appended' = Append(appended, [event_type |-> t, correlation_id |-> c,
                                     aggregate |-> a, sequence |-> Stamp])
    /\ UNCHANGED <<persisted, eventOrder, index, acknowledged, now>>

\* The oldest waiting timer fires: persist() stores and indexes the event,
\* evicts one if the store overflows, and append() returns.
Persist ==
    LET e == persisted + 1
        order == Append(eventOrder, e)
        listed == [k \in Keys |-> IF k \in KeysOf(e) THEN Append(index[k], e)
                                  ELSE index[k]]
        oldest == Head(order)
    IN  /\ persisted < Len(appended)
        /\ persisted' = e
        /\ acknowledged' = acknowledged \cup {e}
        /\ IF Overflows(order)
           THEN /\ eventOrder' = Tail(order)
                /\ index' = [k \in Keys |-> IF k \in KeysOf(oldest)
                                            THEN RemoveId(listed[k], oldest)
                                            ELSE listed[k]]
           ELSE eventOrder' = order /\ index' = listed
        /\ UNCHANGED <<appended, now>>

\* The process ends (SIGTERM, SIGINT or a crash) and starts again.
StoreRestart ==
    /\ persisted' = Len(appended)
    /\ eventOrder' = <<>>
    /\ index' = [k \in Keys |-> <<>>]
    /\ UNCHANGED <<appended, acknowledged, now>>

\* Date.now() is the host's wall clock: events of one millisecond tie, and
\* nothing in the code guards against a clock that is set back.
Tick ==
    /\ \E t \in 0..MaxTime :
          /\ t > now \/ (ClockStepsBack /\ t < now)
          /\ now' = t
    /\ UNCHANGED <<appended, persisted, eventOrder, index, acknowledged>>

StoreNext ==
    \/ \E t \in EventTypes, c \in Correlations, a \in Aggregates \cup {NoAggregate} :
          AppendCall(t, c, a)
    \/ Persist
    \/ StoreRestart
    \/ Tick

StoreSpec == StoreInit /\ [][StoreNext]_storeVars

-----------------------------------------------------------------------------
\* Variant: slice(startIndex + 1) after an index that is already one past.
GetByKeySkips(k, after, limit) ==
    LET ids == index[k]
        start == IF after = 0 THEN 0 ELSE IndexOf(ids, after) + 1
        stop == IF start + limit < Len(ids) THEN start + limit ELSE Len(ids)
    IN  SubSeq(ids, start + 1, stop)

\* The ids of the key k after `after' (0: from the start), at most `limit'.
\* An id the list does not hold - evicted, or of another domain - starts over.
GetByKey(k, after, limit) ==
    LET ids == index[k]
        start == IndexOf(ids, after)
        stop == IF start + limit < Len(ids) THEN start + limit ELSE Len(ids)
    IN  SubSeq(ids, start + 1, stop)

\* The id of every event the maps hold under the key.
Listed(k) == {index[k][i] : i \in 1..Len(index[k])}

Retained == {eventOrder[i] : i \in 1..Len(eventOrder)}

-----------------------------------------------------------------------------
(* Properties *)

\* The shape of the state: envelopes, the log, one list of ids per key.
StoreTypeOK ==
    /\ appended \in Seq(Envelope)
    /\ Len(appended) <= MaxAppends
    /\ persisted \in 0..Len(appended)
    /\ eventOrder \in Seq(1..persisted)
    /\ index \in [Keys -> Seq(1..persisted)]
    /\ acknowledged \subseteq 1..persisted
    /\ now \in 0..MaxTime

\* The store keeps an unbroken run of the newest events, in the order they
\* were appended, never more than maxEvents: the overlap of appends in flight
\* and evictions leaves no hole (event-store.ts, persist()).
RetainsNewestRun ==
    /\ Len(eventOrder) <= MaxEvents
    /\ Len(eventOrder) <= persisted
    /\ \A i \in 1..Len(eventOrder) :
          eventOrder[i] = (persisted - Len(eventOrder)) + i

\* Whatever is retained is listed under exactly its own keys, once, in log
\* order, and nothing evicted is still listed: a pull by domain, a trace and a
\* replay all see the log (event-store.ts, persist(), "Clean up indexes").
IndexAgreesWithLog ==
    \A k \in Keys :
        /\ \A i, j \in 1..Len(index[k]) : i < j => index[k][i] < index[k][j]
        /\ Listed(k) = {e \in Retained : k \in KeysOf(e)}

\* A reader that continues after an id still held gets the next events of the
\* key with none skipped, however many were evicted since (getByDomain()).
ReadsAreGapless ==
    \A k \in Keys, after \in Retained, limit \in 1..MaxEvents :
        after \in Listed(k) =>
            LET page == GetByKey(k, after, limit)
                got == {page[i] : i \in 1..Len(page)}
            IN  \A e \in Listed(k) :
                    (e > after /\ \E g \in got : e <= g) => e \in got
=============================================================================
