----------------------------- MODULE DeadLetters -----------------------------
(***************************************************************************)
(* The entries of the dead letter queue and what each operation does to    *)
(* one: services/event-bus-service/src/dlq/dead-letter-queue.ts.           *)
(*                                                                         *)
(* recordFailure() looks the entry of an (event, consumer) pair up and     *)
(* writes it back.  Over InMemoryDLQStorage every await between the two is *)
(* an already resolved promise, so no other request or timer runs in       *)
(* between: the operation is one step and a pair has one entry.            *)
(***************************************************************************)
EXTENDS Integers

CONSTANTS
    Deliveries,    \* the <<consumer, event>> pairs
    MaxRetries,    \* DLQConfig.maxRetries
    CountCap       \* bound of the model: where failure_count saturates

ASSUME RetriesAssumption ==
    MaxRetries \in Nat \ {0} /\ CountCap \in Nat /\ CountCap >= MaxRetries

VARIABLE dlq       \* [Deliveries -> entry]

Entry == [status : {"none", "retrying", "pending", "resolved", "discarded"},
          failure_count : 0..CountCap]

NoEntry == [status |-> "none", failure_count |-> 0]

Open(d) == dlq[d].status \in {"retrying", "pending"}
Closed(d) == dlq[d].status \in {"resolved", "discarded"}
HasEntry(d) == dlq[d] # NoEntry

DlqInit == dlq = [d \in Deliveries |-> NoEntry]

\* Variant: the count is compared with maxRetries before it is increased.
FailedLate(entry) ==
    IF entry = NoEntry
    THEN [status |-> "retrying", failure_count |-> 1]
    ELSE [status |-> IF entry.failure_count >= MaxRetries THEN "pending"
                     ELSE "retrying",
          failure_count |-> IF entry.failure_count < CountCap
                            THEN entry.failure_count + 1 ELSE CountCap]

\* The entry after one more failure.  A first failure is always "retrying";
\* a later one reopens an entry an operator has resolved or discarded.
Failed(entry) ==
    IF entry = NoEntry
    THEN [status |-> "retrying", failure_count |-> 1]
    ELSE [status |-> IF entry.failure_count + 1 >= MaxRetries THEN "pending"
                     ELSE "retrying",
          failure_count |-> IF entry.failure_count < CountCap
                            THEN entry.failure_count + 1 ELSE CountCap]

RecordFailure(d) == dlq' = [dlq EXCEPT ![d] = Failed(@)]

MarkResolved(d) ==
    dlq' = IF HasEntry(d) THEN [dlq EXCEPT ![d].status = "resolved"] ELSE dlq

MarkDiscarded(d) ==
    dlq' = IF HasEntry(d) THEN [dlq EXCEPT ![d].status = "discarded"] ELSE dlq

-----------------------------------------------------------------------------
DlqTypeOK == dlq \in [Deliveries -> Entry]

\* "pending" means the failures reached maxRetries, "retrying" that they have
\* not, through any history of failures, resolutions, discards and reopenings
\* - save a first failure, which is "retrying" even when maxRetries is 1
\* (dead-letter-queue.ts, recordFailure()).
StatusMatchesCount ==
    \A d \in Deliveries :
        /\ dlq[d].status = "none" <=> dlq[d].failure_count = 0
        /\ dlq[d].status = "pending" => dlq[d].failure_count >= MaxRetries
        /\ dlq[d].status = "retrying" =>
               \/ dlq[d].failure_count < MaxRetries
               \/ dlq[d].failure_count = 1

=============================================================================
