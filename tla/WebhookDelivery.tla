--------------------------- MODULE WebhookDelivery ---------------------------
(***************************************************************************)
(* Push delivery: subscriptions and webhooks of ConsumerManager            *)
(* (services/event-bus-service/src/consumers/consumer-manager.ts) with the *)
(* routes /publish, /publish/batch, /subscribe and /dlq of index.ts.       *)
(*                                                                         *)
(* Publishing starts one background task per matching subscription and     *)
(* does not wait for it.  A task is a loop of at most webhookMaxRetries    *)
(* POST attempts; tasks of one delivery are alike but for the attempt they *)
(* are at, so the state counts them.  An attempt is over when the response *)
(* or the 10 s abort arrives, and what the endpoint saw may differ from    *)
(* what the bus learns.                                                    *)
(***************************************************************************)
EXTENDS EventStore, DeadLetters

CONSTANTS
    Consumers,
    Webhooks,          \* the consumers registered with a webhook_url
    Subscriptions,     \* ids of subscriptions
    TopicSets,         \* the event_types arrays of the /subscribe requests
    MaxAttempts,       \* ConsumerConfig.webhookMaxRetries
    MaxManualRetries   \* bound of the model: /dlq/:dlqId/retry requests

\* A topic is a type, or a domain d that stands for the wildcard "d.*".
Topics == EventTypes \cup Domains

ASSUME WebhookAssumption ==
    /\ EventTypes \cap Domains = {}
    /\ Deliveries = Consumers \X (1..MaxAppends)
    /\ Webhooks \subseteq Consumers
    /\ TopicSets \subseteq SUBSET Topics /\ IsFiniteSet(Subscriptions)
    /\ Consumers \cap {"none", "removed"} = {}
    /\ MaxAttempts \in Nat \ {0} /\ MaxManualRetries \in Nat

VARIABLES
    consumers,       \* [Consumers -> life cycle]; ids are never reused
    subscriptions,   \* [Subscriptions -> record, or unused, or removed]
    tasks,           \* [Deliveries -> [attempt number -> tasks at it]]
    started,         \* history: [Deliveries -> tasks ever started]
    received,        \* history: deliveries that reached their endpoint
    retries          \* manual retries so far

taskVars == <<tasks, started, received>>
vars == <<storeVars, dlq, consumers, subscriptions, taskVars, retries>>

Unused == [consumer |-> "none", topics |-> {}]
Removed == [consumer |-> "removed", topics |-> {}]

Attempts == 1..MaxAttempts

Underway(d) == \E a \in Attempts : tasks[d][a] > 0

\* getSubscriptionsByEventType(), then the checks of deliverToWebhooks():
\* a consumer with two matching subscriptions gets the event twice.
TargetsOf(c, type) ==
    {s \in Subscriptions :
        /\ subscriptions[s].consumer = c
        /\ {type, DomainOf[type]} \cap subscriptions[s].topics # {}
        /\ consumers[c] = "active" /\ c \in Webhooks}

\* deliverToWebhooks() of an event: new tasks, all at their first attempt.
DeliverToWebhooks(e, type) ==
    LET new(d) == IF d[2] = e THEN Cardinality(TargetsOf(d[1], type)) ELSE 0
    IN  /\ tasks' = [d \in Deliveries |-> [tasks[d] EXCEPT ![1] = @ + new(d)]]
        /\ started' = [d \in Deliveries |-> started[d] + new(d)]
        /\ UNCHANGED received

-----------------------------------------------------------------------------
Init ==
    /\ StoreInit
    /\ DlqInit
    /\ consumers = [c \in Consumers |-> "unregistered"]
    /\ subscriptions = [s \in Subscriptions |-> Unused]
    /\ tasks = [d \in Deliveries |-> [a \in Attempts |-> 0]]
    /\ started = [d \in Deliveries |-> 0]
    /\ received = {}
    /\ retries = 0

\* The first half of /publish, and of each event of a batch.
Append1(t, c, a) ==
    /\ AppendCall(t, c, a)
    /\ UNCHANGED <<dlq, consumers, subscriptions, taskVars, retries>>

\* The second half: append() returns, delivery starts, 201 is answered.
Publish ==
    /\ Persist
    /\ DeliverToWebhooks(persisted + 1, appended[persisted + 1].event_type)
    /\ UNCHANGED <<dlq, consumers, subscriptions, retries>>

Register(c) ==
    /\ consumers[c] = "unregistered"
    /\ consumers' = [consumers EXCEPT ![c] = "active"]
    /\ UNCHANGED <<storeVars, dlq, subscriptions, taskVars, retries>>

Subscribe(s, c, topics) ==
    /\ subscriptions[s] = Unused
    /\ consumers[c] \in {"active", "inactive"}
    /\ subscriptions' = [subscriptions EXCEPT ![s] = [consumer |-> c, topics |-> topics]]
    /\ UNCHANGED <<storeVars, dlq, consumers, taskVars, retries>>

Unsubscribe(s) ==
    /\ subscriptions[s] # Unused
    /\ subscriptions' = [subscriptions EXCEPT ![s] = Removed]
    /\ UNCHANGED <<storeVars, dlq, consumers, taskVars, retries>>

Deactivate(c) ==
    /\ consumers[c] = "active"
    /\ consumers' = [consumers EXCEPT ![c] = "inactive"]
    /\ UNCHANGED <<storeVars, dlq, subscriptions, taskVars, retries>>

\* removeConsumer(): the subscriptions go, tasks under way keep running.
Remove(c) ==
    /\ consumers[c] \in {"active", "inactive"}
    /\ consumers' = [consumers EXCEPT ![c] = "removed"]
    /\ subscriptions' = [s \in Subscriptions |->
           IF subscriptions[s].consumer = c THEN Removed ELSE subscriptions[s]]
    /\ UNCHANGED <<storeVars, dlq, taskVars, retries>>

\* Variant: every failed attempt is recorded, not only the last.
AttemptRecordsEach(d, a, reached, ok) ==
    /\ tasks[d][a] > 0
    /\ ok => reached
    /\ received' = IF reached THEN received \cup {d} ELSE received
    /\ tasks' = [tasks EXCEPT ![d] = [n \in Attempts |->
           IF n = a THEN @[n] - 1
           ELSE IF n = a + 1 /\ ~ok THEN @[n] + 1 ELSE @[n]]]
    /\ IF ~ok THEN RecordFailure(d) ELSE UNCHANGED dlq
    /\ UNCHANGED <<storeVars, consumers, subscriptions, started, retries>>

\* Variant: the failure of the last attempt is dropped.
AttemptForgets(d, a, reached, ok) ==
    /\ tasks[d][a] > 0
    /\ ok => reached
    /\ received' = IF reached THEN received \cup {d} ELSE received
    /\ tasks' = [tasks EXCEPT ![d] = [n \in Attempts |->
           IF n = a THEN @[n] - 1
           ELSE IF n = a + 1 /\ ~ok THEN @[n] + 1 ELSE @[n]]]
    /\ UNCHANGED <<storeVars, dlq, consumers, subscriptions, started, retries>>

\* One attempt of deliverToWebhook(): the endpoint gets the event or not, and
\* the bus sees a 2xx - only if it did - or a failure.
Attempt(d, a, reached, ok) ==
    /\ tasks[d][a] > 0
    /\ ok => reached
    /\ received' = IF reached THEN received \cup {d} ELSE received
    /\ tasks' = [tasks EXCEPT ![d] = [n \in Attempts |->
           IF n = a THEN @[n] - 1
           ELSE IF n = a + 1 /\ ~ok THEN @[n] + 1 ELSE @[n]]]
    /\ IF a = MaxAttempts /\ ~ok THEN RecordFailure(d) ELSE UNCHANGED dlq
    /\ UNCHANGED <<storeVars, consumers, subscriptions, started, retries>>

\* Variant: the retry of a closed entry is not refused, and waits as "retrying".
ManualRetryReopens(d) ==
    /\ retries < MaxManualRetries
    /\ HasEntry(d)
    /\ DeliverToWebhooks(d[2], appended[d[2]].event_type)
    /\ dlq' = [dlq EXCEPT ![d].status = "retrying"]
    /\ retries' = retries + 1
    /\ UNCHANGED <<storeVars, consumers, subscriptions>>

\* /dlq/:dlqId/retry: retryFn ignores the consumer of the entry, starts tasks
\* for every subscriber, cannot fail, and the entry is resolved at once.
ManualRetry(d) ==
    /\ retries < MaxManualRetries
    /\ Open(d)
    /\ DeliverToWebhooks(d[2], appended[d[2]].event_type)
    /\ MarkResolved(d)
    /\ retries' = retries + 1
    /\ UNCHANGED <<storeVars, consumers, subscriptions>>

\* /dlq/:dlqId/discard
Discard(d) ==
    /\ HasEntry(d)
    /\ MarkDiscarded(d)
    /\ UNCHANGED <<storeVars, consumers, subscriptions, taskVars, retries>>

Next ==
    \/ \E t \in EventTypes, c \in Correlations, a \in Aggregates \cup {NoAggregate} :
          Append1(t, c, a)
    \/ Publish
    \/ \E c \in Consumers : Register(c) \/ Deactivate(c) \/ Remove(c)
    \/ \E s \in Subscriptions :
          \/ Unsubscribe(s)
          \/ \E c \in Consumers, topics \in TopicSets : Subscribe(s, c, topics)
    \/ \E d \in Deliveries :
          \/ \E a \in Attempts, reached, ok \in BOOLEAN : Attempt(d, a, reached, ok)
          \/ ManualRetry(d)
          \/ Discard(d)

Spec == Init /\ [][Next]_vars

\* The loops of the tasks run: fetch answers or is aborted, backoffs end.
Fairness ==
    /\ WF_vars(Publish)
    /\ \A d \in Deliveries, a \in Attempts :
          WF_vars(\E reached, ok \in BOOLEAN : Attempt(d, a, reached, ok))

FairSpec == Spec /\ Fairness

-----------------------------------------------------------------------------
(* Properties *)

\* The shape of the state of push delivery.
TypeOK ==
    /\ StoreTypeOK
    /\ DlqTypeOK
    /\ consumers \in [Consumers -> {"unregistered", "active", "inactive", "removed"}]
    /\ subscriptions \in [Subscriptions ->
           [consumer : Consumers \cup {"none", "removed"}, topics : TopicSets \cup {{}}]]
    /\ tasks \in [Deliveries -> [Attempts -> Nat]]
    /\ started \in [Deliveries -> Nat]
    /\ received \subseteq Deliveries
    /\ retries \in 0..MaxManualRetries

\* The tasks of a delivery, each named by the attempt it is at and a number.
TasksOf(d) == Cardinality(UNION {{a} \X (1..tasks[d][a]) : a \in Attempts})

\* Failures are counted per task, not per attempt, and never twice: what the
\* entry counts and what still runs together were started, through retries,
\* double subscriptions and reopened entries (deliverToWebhook()).
FailuresAreStartedTasks ==
    \A d \in Deliveries : dlq[d].failure_count + TasksOf(d) <= started[d]

\* Every started delivery reached its endpoint, still has a task, or has an
\* entry: no combination of lost responses, unsubscribing, deactivation and
\* operator actions makes it vanish (deliverToWebhook(), the /dlq routes).
StartedIsAccounted ==
    \A d \in Deliveries :
        started[d] > 0 => d \in received \/ Underway(d) \/ HasEntry(d)

\* An entry reopens - leaves "resolved" or "discarded" - only because a task
\* that was already running has now failed for good.
ReopenedByRunningTask ==
    [][\A d \in Deliveries : (Closed(d) /\ dlq'[d].status \in {"retrying", "pending"})
          => Underway(d) /\ tasks'[d] # tasks[d]]_vars

\* Push delivery keeps the contract of the bus.
Contract == INSTANCE DeliveryContract WITH
    outstanding <- {d \in Deliveries : Underway(d)},
    failed <- {d \in Deliveries : HasEntry(d)},
    done <- received

KeepsContract == Contract!ContractSpec

\* A delivery under way ends: delivered or dead-lettered, never in limbo.
EveryTaskEnds ==
    \A d \in Deliveries : Underway(d) ~> ~Underway(d) /\ (d \in received \/ HasEntry(d))
=============================================================================
