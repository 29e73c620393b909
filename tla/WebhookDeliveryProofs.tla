------------------------ MODULE WebhookDeliveryProofs ------------------------
(***************************************************************************)
(* Theorems of WebhookDelivery, for any consumers, subscriptions, attempts *)
(* and limits.  The refinement of DeliveryContract needs that a task is    *)
(* only ever under way for a delivery that was started.                    *)
(***************************************************************************)
EXTENDS WebhookDelivery, EventStoreProofs, FiniteSetTheorems

PushInv ==
    /\ TypeOK
    /\ StoreInv
    /\ StatusMatchesCount
    /\ StartedIsAccounted

-----------------------------------------------------------------------------
(* Counting over the attempts.                                              *)

\* As many names as n counts at each attempt, so that their number is the sum
\* over the attempts.
Named(n) == UNION {{a} \X (1..n[a]) : a \in Attempts}
Total(n) == Cardinality(Named(n))

LEMMA NamesOfOne ==
    ASSUME NEW a, NEW lo \in Int, NEW hi \in Int
    PROVE  /\ IsFiniteSet({a} \X (lo..hi))
           /\ lo <= hi + 1 => Cardinality({a} \X (lo..hi)) = hi - lo + 1
<1> DEFINE I == lo..hi
           A == {a}
<1>1. IsFiniteSet(I) /\ Cardinality(I) = IF lo > hi THEN 0 ELSE hi - lo + 1
  BY FS_Interval
<1>2. IsFiniteSet(A) /\ Cardinality(A) = 1
  BY FS_Singleton
<1> HIDE DEF I, A
<1>3. IsFiniteSet(A \X I) /\ Cardinality(A \X I) = 1 * Cardinality(I)
  BY <1>1, <1>2, FS_Product
<1>4. lo <= hi + 1 => 1 * Cardinality(I) = hi - lo + 1
  BY <1>1
<1> QED
  BY <1>3, <1>4 DEF I, A

LEMMA TotalIsNat ==
    ASSUME NEW n \in [Attempts -> Nat]
    PROVE  /\ IsFiniteSet(Named(n)) /\ Total(n) \in Nat
           /\ Total(n) = 0 <=> \A a \in Attempts : n[a] = 0
<1> DEFINE at(a) == {a} \X (1..n[a])
           every == {at(a) : a \in Attempts}
<1>1. \A a \in Attempts : IsFiniteSet(at(a))
  <2> SUFFICES ASSUME NEW a \in Attempts PROVE IsFiniteSet({a} \X (1..n[a]))
    OBVIOUS
  <2> DEFINE hi == n[a]
  <2>1. hi \in Int /\ 1 \in Int
    OBVIOUS
  <2> HIDE DEF hi
  <2>2. IsFiniteSet({a} \X (1..hi))
    BY <2>1, NamesOfOne
  <2> QED
    BY <2>2 DEF hi
<1>2. IsFiniteSet(every)
  <2>1. IsFiniteSet(Attempts)
    BY WebhookAssumption, FS_Interval DEF Attempts
  <2>2. [a \in Attempts |-> at(a)] \in Surjection(Attempts, every)
    BY DEF Surjection
  <2> QED
    BY <2>1, <2>2, FS_Surjection
<1>3. IsFiniteSet(Named(n))
  <2>1. \A T \in every : IsFiniteSet(T)
    BY <1>1
  <2> QED
    BY <1>2, <2>1, FS_UNION DEF Named
<1>4. Named(n) = {} <=> \A a \in Attempts : n[a] = 0
  <2>1. ASSUME NEW a \in Attempts, n[a] # 0 PROVE <<a, 1>> \in Named(n)
    BY <2>1 DEF Named
  <2>2. ASSUME \A a \in Attempts : n[a] = 0 PROVE Named(n) = {}
    BY <2>2 DEF Named
  <2> QED
    BY <2>1, <2>2
<1> QED
  BY <1>3, <1>4, FS_CardinalityType, FS_EmptySet DEF Total

\* What is added at one attempt is added to the sum.
LEMMA TotalAdds ==
    ASSUME NEW n \in [Attempts -> Nat], NEW a \in Attempts, NEW k \in Nat
    PROVE  Total([n EXCEPT ![a] = n[a] + k]) = Total(n) + k
<1> DEFINE m == [n EXCEPT ![a] = n[a] + k]
           more == {a} \X ((n[a] + 1)..(n[a] + k))
<1>1. n[a] \in Nat /\ m \in [Attempts -> Nat] /\ m[a] = n[a] + k
  OBVIOUS
<1>2. Named(m) = Named(n) \cup more
  <2>1. ASSUME NEW b \in Attempts
        PROVE  {b} \X (1..m[b]) = IF b = a THEN ({b} \X (1..n[b])) \cup more
                                  ELSE {b} \X (1..n[b])
    <3>1. CASE b = a
      <4>1. 1..m[a] = (1..n[a]) \cup ((n[a] + 1)..(n[a] + k))
        BY <1>1
      <4> QED
        BY <3>1, <4>1
    <3>2. CASE b # a
      BY <3>2
    <3> QED
      BY <3>1, <3>2
  <2> HIDE DEF m, more
  <2>2. ASSUME NEW p PROVE p \in Named(m) <=> p \in Named(n) \/ p \in more
    BY <2>1 DEF Named
  <2> QED
    BY <2>2
<1>3. Named(n) \cap more = {}
  BY <1>1 DEF Named
<1>4. IsFiniteSet(more) /\ Cardinality(more) = k
  <2> DEFINE lo == n[a] + 1
             hi == n[a] + k
  <2>1. lo \in Int /\ hi \in Int /\ lo <= hi + 1 /\ hi - lo + 1 = k
    BY <1>1
  <2>2. more = {a} \X (lo..hi)
    OBVIOUS
  <2> HIDE DEF lo, hi, more
  <2> QED
    BY <2>1, <2>2, NamesOfOne
<1>5. IsFiniteSet(Named(n)) /\ Cardinality(Named(n)) \in Nat
  BY TotalIsNat, FS_CardinalityType
<1> HIDE DEF m, more
<1>6. Cardinality(Named(m)) = Cardinality(Named(n)) + k
  <2>1. Cardinality(Named(n) \cup more) =
           Cardinality(Named(n)) + Cardinality(more) - Cardinality(Named(n) \cap more)
    BY <1>4, <1>5, FS_Union
  <2>2. Cardinality(Named(n) \cap more) = 0
    BY <1>3, FS_EmptySet
  <2> QED
    BY <1>2, <1>4, <1>5, <2>1, <2>2
<1> QED
  BY <1>6 DEF Total, m

\* One POST for each attempt that the tasks counted by t may still make.
Left(t) == Total([a \in Attempts |-> t[a] * (MaxAttempts + 1 - a)])

LEMMA LeftIsNat ==
    ASSUME NEW t \in [Attempts -> Nat]
    PROVE  /\ [a \in Attempts |-> t[a] * (MaxAttempts + 1 - a)] \in [Attempts -> Nat]
           /\ Left(t) \in Nat
           /\ Left(t) = 0 <=> \A a \in Attempts : t[a] = 0
<1> DEFINE n == [a \in Attempts |-> t[a] * (MaxAttempts + 1 - a)]
<1>1. ASSUME NEW a \in Attempts
      PROVE  n[a] \in Nat /\ (n[a] = 0 <=> t[a] = 0)
  <2> DEFINE w == MaxAttempts + 1 - a
  <2>1. w \in Nat /\ w # 0 /\ t[a] \in Nat
    BY WebhookAssumption DEF Attempts
  <2> HIDE DEF w
  <2>2. t[a] * w \in Nat /\ (t[a] * w = 0 <=> t[a] = 0)
    BY <2>1
  <2> QED
    BY <2>2 DEF w
<1>2. n \in [Attempts -> Nat]
  BY <1>1
<1> QED
  BY <1>1, <1>2, TotalIsNat DEF Left

LEMMA LeftAdds ==
    ASSUME NEW t \in [Attempts -> Nat], NEW a \in Attempts, NEW k \in Nat
    PROVE  Left([t EXCEPT ![a] = t[a] + k]) = Left(t) + k * (MaxAttempts + 1 - a)
<1> DEFINE w == MaxAttempts + 1 - a
           n == [b \in Attempts |-> t[b] * (MaxAttempts + 1 - b)]
           u == [t EXCEPT ![a] = t[a] + k]
           m == [b \in Attempts |-> u[b] * (MaxAttempts + 1 - b)]
<1>1. w \in Nat /\ t[a] \in Nat /\ k * w \in Nat
  BY WebhookAssumption DEF Attempts
<1>2. (t[a] + k) * w = t[a] * w + k * w
  <2> HIDE DEF w
  <2> QED
    BY <1>1
<1>3. m = [n EXCEPT ![a] = n[a] + k * w]
  <2>1. m[a] = n[a] + k * w
    BY <1>2
  <2>2. \A b \in Attempts \ {a} : m[b] = n[b]
    OBVIOUS
  <2> HIDE DEF w, u
  <2> QED
    BY <2>1, <2>2
<1>4. n \in [Attempts -> Nat]
  BY LeftIsNat
<1> HIDE DEF n, w
<1>5. Total(m) = Total(n) + k * w
  BY <1>1, <1>3, <1>4, TotalAdds
<1> QED
  BY <1>5 DEF Left, n, w

\* An attempt that ends takes its task from the attempts it counts at, and puts
\* it back one further on unless it succeeded or was the last.
LEMMA MovedCounts ==
    ASSUME NEW t \in [Attempts -> Nat], NEW a \in Attempts, t[a] > 0, NEW ok \in BOOLEAN,
           NEW moved, moved = [n \in Attempts |->
                                 IF n = a THEN t[n] - 1
                                 ELSE IF n = a + 1 /\ ~ok THEN t[n] + 1 ELSE t[n]]
    PROVE  /\ Left(moved) < Left(t)
           /\ Total(moved) + (IF ok \/ a = MaxAttempts THEN 1 ELSE 0) = Total(t)
<1> DEFINE u == [t EXCEPT ![a] = t[a] - 1]
           goesOn == ~ok /\ a # MaxAttempts
<1>1. /\ u \in [Attempts -> Nat] /\ u[a] = t[a] - 1 /\ u[a] + 1 = t[a]
      /\ \A b \in Attempts \ {a} : u[b] = t[b]
  OBVIOUS
<1>2. /\ a \in Nat /\ MaxAttempts \in Nat /\ MaxAttempts + 1 - a > 0
      /\ a + 1 \in Attempts <=> a # MaxAttempts
      /\ a + 1 # a
  BY WebhookAssumption DEF Attempts
<1> HIDE DEF u
<1>3. t = [u EXCEPT ![a] = u[a] + 1]
  <2>1. DOMAIN t = Attempts /\ DOMAIN u = Attempts
    BY <1>1
  <2> QED
    BY <1>1, <2>1
<1>4. /\ goesOn => moved = [u EXCEPT ![a + 1] = u[a + 1] + 1]
      /\ ~goesOn => moved = u
  <2>1. DOMAIN moved = Attempts /\ DOMAIN u = Attempts
    BY <1>1
  <2>2. \A b \in Attempts : moved[b] = IF b = a + 1 /\ ~ok THEN u[b] + 1 ELSE u[b]
    BY <1>1, <1>2
  <2> QED
    BY <1>1, <1>2, <2>1, <2>2
<1>5. ASSUME NEW b \in Attempts, NEW v, v = [u EXCEPT ![b] = u[b] + 1]
      PROVE  Left(v) = Left(u) + (MaxAttempts + 1 - b) /\ Total(v) = Total(u) + 1
  <2>1. Left([u EXCEPT ![b] = u[b] + 1]) = Left(u) + 1 * (MaxAttempts + 1 - b)
    BY <1>1, LeftAdds
  <2>2. Total([u EXCEPT ![b] = u[b] + 1]) = Total(u) + 1
    BY <1>1, TotalAdds
  <2>3. 1 * (MaxAttempts + 1 - b) = MaxAttempts + 1 - b
    BY <1>2 DEF Attempts
  <2> QED
    BY <1>5, <2>1, <2>2, <2>3
<1>6. Left(u) \in Nat /\ Total(u) \in Nat
  BY <1>1, LeftIsNat, TotalIsNat
<1>7. Left(t) = Left(u) + (MaxAttempts + 1 - a) /\ Total(t) = Total(u) + 1
  BY <1>3, <1>5
<1>8. CASE goesOn
  <2>1. Left(moved) = Left(u) + (MaxAttempts + 1 - (a + 1)) /\ Total(moved) = Total(u) + 1
    <3>1. PICK b \in Attempts : b = a + 1
      BY <1>2, <1>8
    <3>2. Left(moved) = Left(u) + (MaxAttempts + 1 - b) /\ Total(moved) = Total(u) + 1
      BY <1>4, <1>5, <1>8, <3>1
    <3> QED
      BY <3>1, <3>2
  <2>2. MaxAttempts + 1 - (a + 1) < MaxAttempts + 1 - a
    BY <1>2
  <2> QED
    BY <1>2, <1>6, <1>7, <1>8, <2>1, <2>2
<1>9. CASE ~goesOn
  <2>1. moved = u /\ (ok \/ a = MaxAttempts)
    BY <1>4, <1>9
  <2>2. Left(moved) = Left(u) /\ Total(moved) = Total(u)
    BY <2>1
  <2>3. Left(u) < Left(t) /\ Total(u) + 1 = Total(t)
    BY <1>2, <1>6, <1>7
  <2>4. (IF ok \/ a = MaxAttempts THEN 1 ELSE 0) = 1
    BY <2>1
  <2> QED
    BY <2>2, <2>3, <2>4
<1> QED
  BY <1>8, <1>9

-----------------------------------------------------------------------------
(* What the parts of an action do. *)

\* Whether the consumers and their subscriptions may be named so.
ManagerTypeOK ==
    /\ consumers \in [Consumers -> {"unregistered", "active", "inactive", "removed"}]
    /\ subscriptions \in [Subscriptions ->
           [consumer : Consumers \cup {"none", "removed"}, topics : TopicSets \cup {{}}]]
    /\ retries \in 0..MaxManualRetries

TaskTypeOK ==
    /\ tasks \in [Deliveries -> [Attempts -> Nat]]
    /\ started \in [Deliveries -> Nat]
    /\ received \subseteq Deliveries

LEMMA TypesSplit ==
    TypeOK <=> StoreTypeOK /\ DlqTypeOK /\ ManagerTypeOK /\ TaskTypeOK
  BY DEF TypeOK, ManagerTypeOK, TaskTypeOK

\* New tasks end none, and a delivery is started exactly when it gets one
\* (deliverToWebhooks()).
LEMMA DeliverKeeps ==
    ASSUME TaskTypeOK, NEW e, NEW type, DeliverToWebhooks(e, type)
    PROVE  /\ TaskTypeOK'
           /\ \A d \in Deliveries : Underway(d) => Underway(d)'
           /\ \A d \in Deliveries : started'[d] > 0 => started[d] > 0 \/ Underway(d)'
           /\ received' = received
<1> DEFINE new(d) == IF d[2] = e THEN Cardinality(TargetsOf(d[1], type)) ELSE 0
<1>1. /\ tasks' = [d \in Deliveries |-> [tasks[d] EXCEPT ![1] = @ + new(d)]]
      /\ started' = [d \in Deliveries |-> started[d] + new(d)]
      /\ received' = received
  BY DEF DeliverToWebhooks
<1>2. 1 \in Attempts /\ Attempts \subseteq Nat
  BY WebhookAssumption DEF Attempts
<1>3. ASSUME NEW d \in Deliveries PROVE new(d) \in Nat
  <2>1. IsFiniteSet(TargetsOf(d[1], type))
    BY WebhookAssumption, FS_Subset DEF TargetsOf
  <2> QED
    BY <2>1, FS_CardinalityType
<1> HIDE DEF new
<1>4. ASSUME NEW d \in Deliveries
      PROVE  /\ tasks'[d] \in [Attempts -> Nat] /\ started'[d] \in Nat
             /\ Underway(d) => Underway(d)'
             /\ started'[d] > 0 => started[d] > 0 \/ Underway(d)'
  <2>1. tasks[d] \in [Attempts -> Nat] /\ started[d] \in Nat /\ new(d) \in Nat
    BY <1>3 DEF TaskTypeOK
  <2>2. /\ tasks'[d] = [tasks[d] EXCEPT ![1] = tasks[d][1] + new(d)]
        /\ started'[d] = started[d] + new(d)
    BY <1>1
  <2>3. /\ tasks'[d] \in [Attempts -> Nat] /\ started'[d] \in Nat
        /\ tasks'[d][1] = tasks[d][1] + new(d)
        /\ \A a \in Attempts : tasks[d][a] > 0 => tasks'[d][a] > 0
    BY <1>2, <2>1, <2>2
  <2>4. new(d) > 0 => tasks'[d][1] > 0
    BY <1>2, <2>1, <2>3
  <2> QED
    BY <1>2, <2>1, <2>2, <2>3, <2>4 DEF Underway
<1>5. TaskTypeOK'
  BY <1>1, <1>4 DEF TaskTypeOK
<1> QED
  BY <1>1, <1>4, <1>5

\* What an attempt does to the tasks: it is over, and another one follows, the
\* endpoint has the event, or the failure is on record (deliverToWebhook()).
LEMMA AttemptEffect ==
    ASSUME PushInv, NEW d \in Deliveries, NEW a \in Attempts,
           NEW reached \in BOOLEAN, NEW ok \in BOOLEAN, Attempt(d, a, reached, ok)
    PROVE  /\ TaskTypeOK' /\ DlqTypeOK' /\ StatusMatchesCount'
           /\ Underway(d)
           /\ Underway(d)' \/ d \in received' \/ HasEntry(d)'
           /\ tasks'[d] # tasks[d]
           /\ received' \in {received, received \cup {d}}
           /\ HasEntry(d) => HasEntry(d)'
           /\ \A x \in Deliveries \ {d} :
                 tasks'[x] = tasks[x] /\ dlq'[x] = dlq[x]
<1>1. /\ tasks[d] \in [Attempts -> Nat] /\ tasks[d][a] > 0
      /\ Underway(d) /\ TaskTypeOK /\ DlqTypeOK /\ StatusMatchesCount
  BY TypesSplit DEF PushInv, TaskTypeOK, Attempt, Underway
<1> DEFINE moved == [n \in Attempts |->
                       IF n = a THEN tasks[d][n] - 1
                       ELSE IF n = a + 1 /\ ~ok THEN tasks[d][n] + 1 ELSE tasks[d][n]]
<1>2. /\ tasks' = [tasks EXCEPT ![d] = moved] /\ started' = started
      /\ received' = IF reached THEN received \cup {d} ELSE received
      /\ ok => reached
      /\ IF a = MaxAttempts /\ ~ok THEN RecordFailure(d) ELSE UNCHANGED dlq
  BY DEF Attempt
<1>3. moved \in [Attempts -> Nat] /\ moved[a] = tasks[d][a] - 1 /\ a \in Nat
  <2>1. a \in Nat /\ Attempts \subseteq Nat
    BY DEF Attempts
  <2>2. \A n \in Attempts : tasks[d][n] \in Nat
    BY <1>1
  <2> QED
    BY <1>1, <2>1, <2>2
<1>4. ~ok /\ a # MaxAttempts => a + 1 \in Attempts /\ moved[a + 1] > 0
  <2>1. a + 1 \in Attempts \/ a = MaxAttempts
    BY WebhookAssumption DEF Attempts
  <2>2. a + 1 \in Attempts /\ ~ok => moved[a + 1] = tasks[d][a + 1] + 1
    BY <1>3
  <2> QED
    BY <1>1, <2>1, <2>2
<1> HIDE DEF moved
<1>5. /\ tasks'[d] = moved /\ \A x \in Deliveries \ {d} : tasks'[x] = tasks[x]
      /\ TaskTypeOK'
  BY <1>1, <1>2, <1>3 DEF TaskTypeOK
<1>6. tasks'[d] # tasks[d]
  BY <1>1, <1>3, <1>5
<1>7. ok => d \in received'
  BY <1>2
<1>8. ~ok /\ a # MaxAttempts => Underway(d)'
  BY <1>4, <1>5 DEF Underway
<1>9. /\ DlqTypeOK' /\ StatusMatchesCount'
      /\ ~ok /\ a = MaxAttempts => HasEntry(d)'
      /\ HasEntry(d) => HasEntry(d)'
      /\ \A x \in Deliveries \ {d} : dlq'[x] = dlq[x]
  <2>1. CASE RecordFailure(d)
    BY <1>1, <2>1, RecordFailureKeeps DEF HasEntry
  <2>2. CASE UNCHANGED dlq /\ ~(a = MaxAttempts /\ ~ok)
    BY <1>1, <2>2 DEF DlqTypeOK, StatusMatchesCount, HasEntry
  <2> QED
    BY <1>2, <2>1, <2>2
<1> QED
  BY <1>1, <1>2, <1>5, <1>6, <1>7, <1>8, <1>9

-----------------------------------------------------------------------------
(* The steps.                                                               *)

\* What every step does to the deliveries: the invariant's parts are kept, no
\* record is lost, none appears from nowhere, and an entry reopens only where a
\* task has made an attempt.
GoodStep ==
    /\ StoreInv' /\ DlqTypeOK' /\ StatusMatchesCount' /\ ManagerTypeOK' /\ TaskTypeOK'
    /\ received \subseteq received'
    /\ \A d \in Deliveries :
          /\ started'[d] > 0 => started[d] > 0 \/ Underway(d)'
          /\ Underway(d) => Underway(d)' \/ d \in received' \/ HasEntry(d)'
          /\ HasEntry(d) => HasEntry(d)'
          /\ HasEntry(d)' \/ d \in received' => Underway(d) \/ HasEntry(d) \/ d \in received
          /\ Closed(d) /\ dlq'[d].status \in {"retrying", "pending"} =>
                Underway(d) /\ tasks'[d] # tasks[d]

LEMMA GoodStepKeeps ==
    ASSUME PushInv, GoodStep
    PROVE  PushInv'
<1>1. TypeOK'
  BY DEF GoodStep, StoreInv, TypeOK, ManagerTypeOK, TaskTypeOK
<1>2. StartedIsAccounted'
  <2> SUFFICES ASSUME NEW d \in Deliveries, started'[d] > 0
               PROVE  d \in received' \/ Underway(d)' \/ HasEntry(d)'
    BY DEF StartedIsAccounted
  <2>1. CASE Underway(d)'
    BY <2>1
  <2>2. CASE started[d] > 0
    BY <2>2 DEF PushInv, StartedIsAccounted, GoodStep
  <2> QED
    BY <2>1, <2>2 DEF GoodStep
<1> QED
  BY <1>1, <1>2 DEF PushInv, GoodStep

\* Steps that leave the deliveries alone.
LEMMA QuietIsGood ==
    ASSUME PushInv, UNCHANGED <<dlq, taskVars>>, StoreInv', ManagerTypeOK'
    PROVE  GoodStep
<1>1. /\ dlq' = dlq /\ tasks' = tasks /\ started' = started /\ received' = received
      /\ DlqTypeOK /\ StatusMatchesCount /\ TaskTypeOK
  BY TypesSplit DEF PushInv, taskVars
<1>2. DlqTypeOK' /\ StatusMatchesCount' /\ TaskTypeOK'
  BY <1>1 DEF DlqTypeOK, StatusMatchesCount, TaskTypeOK
<1> QED
  BY <1>1, <1>2 DEF GoodStep, Underway, HasEntry, Closed

LEMMA PublishingIsGood ==
    ASSUME PushInv,
           \/ \E t \in EventTypes, c \in Correlations, a \in Aggregates \cup {NoAggregate} :
                 Append1(t, c, a)
           \/ Publish
    PROVE  GoodStep
<1>1. StoreInv'
  BY StepKeeps DEF PushInv, Append1, Publish, StoreNext
<1>2. UNCHANGED <<dlq, consumers, subscriptions, retries>>
  BY DEF Append1, Publish
<1>3. ManagerTypeOK'
  BY <1>2, TypesSplit DEF PushInv, ManagerTypeOK
<1>4. CASE \E t \in EventTypes, c \in Correlations, a \in Aggregates \cup {NoAggregate} :
              Append1(t, c, a)
  BY <1>1, <1>3, <1>4, QuietIsGood DEF Append1
<1>5. CASE Publish
  <2>1. /\ DlqTypeOK /\ StatusMatchesCount /\ TaskTypeOK /\ dlq' = dlq
        /\ \E e, type : DeliverToWebhooks(e, type)
    BY <1>2, <1>5, TypesSplit DEF PushInv, Publish
  <2>2. /\ TaskTypeOK' /\ received' = received
        /\ \A d \in Deliveries : Underway(d) => Underway(d)'
        /\ \A d \in Deliveries : started'[d] > 0 => started[d] > 0 \/ Underway(d)'
    BY <2>1, DeliverKeeps
  <2>3. DlqTypeOK' /\ StatusMatchesCount'
    BY <2>1 DEF DlqTypeOK, StatusMatchesCount
  <2> QED
    BY <1>1, <1>3, <2>1, <2>2, <2>3 DEF GoodStep, HasEntry, Closed
<1> QED
  BY <1>4, <1>5

LEMMA ManagingIsGood ==
    ASSUME PushInv,
           \/ \E c \in Consumers : Register(c) \/ Deactivate(c) \/ Remove(c)
           \/ \E s \in Subscriptions :
                 \/ Unsubscribe(s)
                 \/ \E c \in Consumers, topics \in TopicSets : Subscribe(s, c, topics)
    PROVE  GoodStep
<1>1. UNCHANGED <<storeVars, dlq, taskVars, retries>>
  BY DEF Register, Deactivate, Remove, Unsubscribe, Subscribe
<1>2. StoreInv'
  BY <1>1, StutterKeeps DEF PushInv
<1> DEFINE Shape == [consumer : Consumers \cup {"none", "removed"},
                     topics : TopicSets \cup {{}}]
<1>3. /\ consumers \in [Consumers -> {"unregistered", "active", "inactive", "removed"}]
      /\ subscriptions \in [Subscriptions -> Shape] /\ retries \in 0..MaxManualRetries
      /\ Removed \in Shape
  BY DEF PushInv, TypeOK, Removed
<1>4. consumers' \in [Consumers -> {"unregistered", "active", "inactive", "removed"}]
  BY <1>3 DEF Register, Deactivate, Remove, Unsubscribe, Subscribe
<1>5. subscriptions' \in [Subscriptions -> Shape]
  <2>1. CASE subscriptions' = subscriptions
    BY <1>3, <2>1
  <2>2. CASE \E c \in Consumers : Remove(c)
    BY <1>3, <2>2 DEF Remove
  <2>3. CASE \E s \in Subscriptions : Unsubscribe(s)
    BY <1>3, <2>3 DEF Unsubscribe
  <2>4. CASE \E s \in Subscriptions, c \in Consumers, topics \in TopicSets :
                Subscribe(s, c, topics)
    BY <1>3, <2>4 DEF Subscribe
  <2> QED
    BY <2>1, <2>2, <2>3, <2>4 DEF Register, Deactivate
<1>6. ManagerTypeOK'
  BY <1>1, <1>3, <1>4, <1>5 DEF ManagerTypeOK
<1> QED
  BY <1>1, <1>2, <1>6, QuietIsGood

LEMMA AttemptIsGood ==
    ASSUME PushInv, NEW d \in Deliveries, NEW a \in Attempts,
           NEW reached \in BOOLEAN, NEW ok \in BOOLEAN, Attempt(d, a, reached, ok)
    PROVE  GoodStep
<1>1. UNCHANGED <<storeVars, consumers, subscriptions, started, retries>>
  BY DEF Attempt
<1>2. StoreInv'
  BY <1>1, StutterKeeps DEF PushInv
<1>3. ManagerTypeOK'
  BY <1>1, TypesSplit DEF PushInv, ManagerTypeOK
<1>4. /\ TaskTypeOK' /\ DlqTypeOK' /\ StatusMatchesCount' /\ received \subseteq received'
  BY AttemptEffect
<1>5. ASSUME NEW x \in Deliveries
      PROVE  /\ started'[x] > 0 => started[x] > 0 \/ Underway(x)'
             /\ Underway(x) => Underway(x)' \/ x \in received' \/ HasEntry(x)'
             /\ HasEntry(x) => HasEntry(x)'
             /\ HasEntry(x)' \/ x \in received' => Underway(x) \/ HasEntry(x) \/ x \in received
             /\ Closed(x) /\ dlq'[x].status \in {"retrying", "pending"} =>
                   Underway(x) /\ tasks'[x] # tasks[x]
  <2>1. CASE x = d
    BY <1>1, <2>1, AttemptEffect
  <2>2. CASE x # d
    <3>1. /\ tasks'[x] = tasks[x] /\ dlq'[x] = dlq[x]
          /\ received' \in {received, received \cup {d}}
      BY <2>2, AttemptEffect
    <3> QED
      BY <1>1, <2>2, <3>1 DEF Underway, HasEntry, Closed
  <2> QED
    BY <2>1, <2>2
<1> QED
  BY <1>2, <1>3, <1>4, <1>5 DEF GoodStep

\* An operator's verdict, with or without new tasks.
LEMMA VerdictIsGood ==
    ASSUME PushInv, NEW d \in Deliveries, ManualRetry(d) \/ Discard(d)
    PROVE  GoodStep
<1>1. /\ UNCHANGED <<storeVars, consumers, subscriptions>>
      /\ MarkResolved(d) \/ MarkDiscarded(d)
      /\ retries' \in 0..MaxManualRetries
      /\ UNCHANGED taskVars \/ \E e, type : DeliverToWebhooks(e, type)
  BY WebhookAssumption DEF ManualRetry, Discard, PushInv, TypeOK
<1>2. StoreInv'
  BY <1>1, StutterKeeps DEF PushInv
<1>3. ManagerTypeOK'
  BY <1>1, TypesSplit DEF PushInv, ManagerTypeOK
<1>4. /\ DlqTypeOK' /\ StatusMatchesCount'
      /\ \A x \in Deliveries :
            /\ dlq'[x] = NoEntry <=> dlq[x] = NoEntry
            /\ dlq'[x].status \in {"retrying", "pending"} => dlq'[x] = dlq[x]
  BY <1>1, MarkKeeps, TypesSplit DEF PushInv
<1>5. /\ TaskTypeOK' /\ received' = received
      /\ \A x \in Deliveries : Underway(x) => Underway(x)'
      /\ \A x \in Deliveries : started'[x] > 0 => started[x] > 0 \/ Underway(x)'
  <2>1. TaskTypeOK
    BY TypesSplit DEF PushInv
  <2>2. CASE UNCHANGED taskVars
    BY <2>1, <2>2 DEF taskVars, TaskTypeOK, Underway
  <2>3. CASE \E e, type : DeliverToWebhooks(e, type)
    BY <2>1, <2>3, DeliverKeeps
  <2> QED
    BY <1>1, <2>2, <2>3
<1> QED
  BY <1>2, <1>3, <1>4, <1>5 DEF GoodStep, HasEntry, Closed

LEMMA StepIsGood ==
    ASSUME PushInv, [Next]_vars
    PROVE  GoodStep
<1>1. CASE UNCHANGED vars
  <2>1. StoreInv'
    BY <1>1, StutterKeeps DEF PushInv, vars
  <2>2. ManagerTypeOK'
    BY <1>1, TypesSplit DEF PushInv, vars, ManagerTypeOK
  <2> QED
    BY <1>1, <2>1, <2>2, QuietIsGood DEF vars
<1>2. CASE \/ \E t \in EventTypes, c \in Correlations, a \in Aggregates \cup {NoAggregate} :
                 Append1(t, c, a)
           \/ Publish
  BY <1>2, PublishingIsGood
<1>3. CASE \/ \E c \in Consumers : Register(c) \/ Deactivate(c) \/ Remove(c)
           \/ \E s \in Subscriptions :
                 \/ Unsubscribe(s)
                 \/ \E c \in Consumers, topics \in TopicSets : Subscribe(s, c, topics)
  BY <1>3, ManagingIsGood
<1>4. CASE \E d \in Deliveries, a \in Attempts, reached, ok \in BOOLEAN :
              Attempt(d, a, reached, ok)
  BY <1>4, AttemptIsGood
<1>5. CASE \E d \in Deliveries : ManualRetry(d) \/ Discard(d)
  BY <1>5, VerdictIsGood
<1> QED
  BY <1>1, <1>2, <1>3, <1>4, <1>5 DEF Next

LEMMA PushInitHolds == Init => PushInv
<1> SUFFICES ASSUME Init PROVE PushInv
  OBVIOUS
<1>1. StoreInv
  BY InitHolds DEF Init
<1>2. DlqTypeOK /\ StatusMatchesCount
  BY RetriesAssumption DEF Init, DlqInit, DlqTypeOK, StatusMatchesCount, NoEntry, Entry
<1>3. ManagerTypeOK
  BY WebhookAssumption DEF Init, ManagerTypeOK, Unused
<1>4. TaskTypeOK /\ StartedIsAccounted
  BY DEF Init, TaskTypeOK, StartedIsAccounted
<1>5. TypeOK
  BY <1>1, <1>2, <1>3, <1>4, TypesSplit DEF StoreInv
<1> QED
  BY <1>1, <1>2, <1>4, <1>5 DEF PushInv

-----------------------------------------------------------------------------
(* What the steps do to the counts.                                         *)

\* Failures and tasks are paid for by tasks started, and the attempts left run
\* down wherever none was started.
CountedStep ==
    \A d \in Deliveries :
        LET more == started'[d] - started[d]
        IN  /\ more \in Nat
            /\ dlq'[d].failure_count + Total(tasks'[d])
                  <= dlq[d].failure_count + Total(tasks[d]) + more
            /\ \/ tasks'[d] = tasks[d] /\ more = 0
               \/ more = 0 /\ Left(tasks'[d]) < Left(tasks[d])
               \/ more > 0 /\ Left(tasks'[d]) = Left(tasks[d]) + more * MaxAttempts

LEMMA CountsAreNat ==
    ASSUME PushInv
    PROVE  \A d \in Deliveries :
              /\ tasks[d] \in [Attempts -> Nat] /\ started[d] \in Nat
              /\ dlq[d] \in Entry /\ dlq[d].failure_count \in Nat
              /\ Total(tasks[d]) \in Nat /\ Left(tasks[d]) \in Nat
<1> SUFFICES ASSUME NEW d \in Deliveries
             PROVE  /\ tasks[d] \in [Attempts -> Nat] /\ started[d] \in Nat
                    /\ dlq[d] \in Entry /\ dlq[d].failure_count \in Nat
                    /\ Total(tasks[d]) \in Nat /\ Left(tasks[d]) \in Nat
  OBVIOUS
<1>1. tasks[d] \in [Attempts -> Nat] /\ started[d] \in Nat
  BY TypesSplit DEF PushInv, TaskTypeOK
<1>2. dlq[d] \in Entry
  BY TypesSplit DEF PushInv, DlqTypeOK
<1>3. dlq[d].failure_count \in Nat
  BY <1>2, RetriesAssumption DEF Entry
<1> QED
  BY <1>1, <1>2, <1>3, TotalIsNat, LeftIsNat

\* New tasks start at their first attempt, with all of them left.
LEMMA DeliverCounts ==
    ASSUME PushInv, NEW e, NEW type, DeliverToWebhooks(e, type),
           \A d \in Deliveries : dlq'[d].failure_count = dlq[d].failure_count
    PROVE  CountedStep
<1> SUFFICES ASSUME NEW d \in Deliveries
             PROVE  LET more == started'[d] - started[d]
                    IN  /\ more \in Nat
                        /\ dlq'[d].failure_count + Total(tasks'[d])
                              <= dlq[d].failure_count + Total(tasks[d]) + more
                        /\ \/ tasks'[d] = tasks[d] /\ more = 0
                           \/ more = 0 /\ Left(tasks'[d]) < Left(tasks[d])
                           \/ more > 0 /\ Left(tasks'[d]) = Left(tasks[d]) + more * MaxAttempts
  BY DEF CountedStep
<1> DEFINE new == IF d[2] = e THEN Cardinality(TargetsOf(d[1], type)) ELSE 0
<1>1. /\ tasks'[d] = [tasks[d] EXCEPT ![1] = tasks[d][1] + new]
      /\ started'[d] = started[d] + new
  BY DEF DeliverToWebhooks
<1>2. new \in Nat
  <2>1. IsFiniteSet(TargetsOf(d[1], type))
    BY WebhookAssumption, FS_Subset DEF TargetsOf
  <2> QED
    BY <2>1, FS_CardinalityType
<1>3. /\ tasks[d] \in [Attempts -> Nat] /\ started[d] \in Nat
      /\ dlq[d].failure_count \in Nat
      /\ Total(tasks[d]) \in Nat /\ Left(tasks[d]) \in Nat
  BY CountsAreNat
<1>4. 1 \in Attempts /\ MaxAttempts \in Nat /\ MaxAttempts + 1 - 1 = MaxAttempts
  BY WebhookAssumption DEF Attempts
<1> HIDE DEF new
<1>5. Total(tasks'[d]) = Total(tasks[d]) + new
  BY <1>1, <1>2, <1>3, <1>4, TotalAdds
<1>6. Left(tasks'[d]) = Left(tasks[d]) + new * (MaxAttempts + 1 - 1)
  BY <1>1, <1>2, <1>3, <1>4, LeftAdds
<1>7. started'[d] - started[d] = new
  BY <1>1, <1>2, <1>3
<1>8. new = 0 => tasks'[d] = tasks[d]
  BY <1>1, <1>3
<1> QED
  BY <1>2, <1>3, <1>4, <1>5, <1>6, <1>7, <1>8

\* The last failure of a task is counted in its place (deliverToWebhook()).
LEMMA AttemptCounts ==
    ASSUME PushInv, NEW d \in Deliveries, NEW a \in Attempts,
           NEW reached \in BOOLEAN, NEW ok \in BOOLEAN, Attempt(d, a, reached, ok)
    PROVE  CountedStep
<1> DEFINE moved == [n \in Attempts |->
                       IF n = a THEN tasks[d][n] - 1
                       ELSE IF n = a + 1 /\ ~ok THEN tasks[d][n] + 1 ELSE tasks[d][n]]
           ended == IF ok \/ a = MaxAttempts THEN 1 ELSE 0
           failed == dlq'[d].failure_count
<1>1. /\ tasks[d][a] > 0 /\ started' = started /\ tasks'[d] = moved
      /\ IF a = MaxAttempts /\ ~ok THEN RecordFailure(d) ELSE UNCHANGED dlq
  BY TypesSplit DEF Attempt, PushInv, TaskTypeOK
<1>2. \A x \in Deliveries \ {d} : tasks'[x] = tasks[x] /\ dlq'[x] = dlq[x]
  BY AttemptEffect
<1>3. \A x \in Deliveries :
         /\ tasks[x] \in [Attempts -> Nat] /\ started[x] \in Nat
         /\ dlq[x] \in Entry /\ dlq[x].failure_count \in Nat
         /\ Total(tasks[x]) \in Nat /\ Left(tasks[x]) \in Nat
  BY CountsAreNat
<1>4. tasks'[d] \in [Attempts -> Nat]
  BY AttemptEffect DEF TaskTypeOK
<1>5. Total(tasks'[d]) \in Nat /\ Left(tasks'[d]) \in Nat
  BY <1>4, TotalIsNat, LeftIsNat
<1>6. Left(tasks'[d]) < Left(tasks[d]) /\ Total(tasks'[d]) + ended = Total(tasks[d])
  BY <1>1, <1>3, MovedCounts
<1>7. failed \in Nat /\ failed <= dlq[d].failure_count + ended
  <2>1. CASE a = MaxAttempts /\ ~ok
    <3>1. dlq'[d] = Failed(dlq[d])
      BY <1>1, <2>1, TypesSplit DEF PushInv, RecordFailure, DlqTypeOK
    <3>2. failed \in Nat /\ failed <= dlq[d].failure_count + 1
      BY <1>3, <3>1, RetriesAssumption DEF Failed, Entry, NoEntry
    <3> QED
      BY <2>1, <3>2
  <2>2. CASE ~(a = MaxAttempts /\ ~ok)
    BY <1>1, <1>3, <2>2
  <2> QED
    BY <2>1, <2>2
<1> HIDE DEF moved, ended, failed
<1>8. failed + Total(tasks'[d]) <= dlq[d].failure_count + Total(tasks[d])
  <2>1. ended \in Nat
    BY DEF ended
  <2> QED
    BY <1>3, <1>5, <1>6, <1>7, <2>1
<1>9. ASSUME NEW x \in Deliveries
      PROVE  /\ started'[x] - started[x] = 0
             /\ dlq'[x].failure_count + Total(tasks'[x])
                   <= dlq[x].failure_count + Total(tasks[x])
             /\ tasks'[x] = tasks[x] \/ Left(tasks'[x]) < Left(tasks[x])
  <2>1. CASE x = d
    BY <1>1, <1>3, <1>6, <1>8, <2>1 DEF failed
  <2>2. CASE x # d
    BY <1>1, <1>2, <1>3, <2>2
  <2> QED
    BY <2>1, <2>2
<1> QED
  BY <1>3, <1>9 DEF CountedStep

LEMMA QuietCounts ==
    ASSUME PushInv, UNCHANGED taskVars,
           \A d \in Deliveries : dlq'[d].failure_count = dlq[d].failure_count
    PROVE  CountedStep
<1>1. tasks' = tasks /\ started' = started
  BY DEF taskVars
<1>2. \A d \in Deliveries :
         started[d] \in Nat /\ dlq[d].failure_count \in Nat /\ Total(tasks[d]) \in Nat
  BY CountsAreNat
<1> QED
  BY <1>1, <1>2 DEF CountedStep

LEMMA VerdictKeepsCount ==
    ASSUME PushInv, NEW d \in Deliveries, MarkResolved(d) \/ MarkDiscarded(d)
    PROVE  \A x \in Deliveries : dlq'[x].failure_count = dlq[x].failure_count
  BY TypesSplit DEF PushInv, DlqTypeOK, Entry, MarkResolved, MarkDiscarded

LEMMA StepIsCounted ==
    ASSUME PushInv, [Next]_vars
    PROVE  CountedStep
<1>1. CASE UNCHANGED <<dlq, taskVars>>
  BY <1>1, QuietCounts
<1>2. CASE Publish
  BY <1>2, DeliverCounts DEF Publish
<1>3. ASSUME NEW d \in Deliveries, NEW a \in Attempts,
             NEW reached \in BOOLEAN, NEW ok \in BOOLEAN, Attempt(d, a, reached, ok)
      PROVE  CountedStep
  BY <1>3, AttemptCounts
<1>4. ASSUME NEW d \in Deliveries, ManualRetry(d)
      PROVE  CountedStep
  BY <1>4, DeliverCounts, VerdictKeepsCount DEF ManualRetry
<1>5. ASSUME NEW d \in Deliveries, Discard(d)
      PROVE  CountedStep
  BY <1>5, QuietCounts, VerdictKeepsCount DEF Discard
<1> QED
  BY <1>1, <1>2, <1>3, <1>4, <1>5
     DEF Next, vars, Append1, Register, Deactivate, Remove, Unsubscribe, Subscribe

-----------------------------------------------------------------------------
(* The theorems.                                                            *)

\* The inductive invariant of push delivery.
THEOREM PushInvariant == Spec => []PushInv
<1>1. Init => PushInv
  BY PushInitHolds
<1>2. PushInv /\ [Next]_vars => PushInv'
  BY StepIsGood, GoodStepKeeps
<1> QED
  BY <1>1, <1>2, PTL DEF Spec

\* The state of subscriptions, tasks and entries keeps its shape
\* (consumer-manager.ts, ConsumerManager).
THEOREM PushTypeCorrect == Spec => []TypeOK
<1>1. PushInv => TypeOK
  BY DEF PushInv
<1> QED
  BY <1>1, PushInvariant, PTL

\* The status of an entry follows its count through every history of task
\* failures, manual retries and discards (dead-letter-queue.ts, recordFailure(),
\* markResolved(), discard()).
THEOREM PushStatusFollowsCount == Spec => []StatusMatchesCount
<1>1. PushInv => StatusMatchesCount
  BY DEF PushInv
<1> QED
  BY <1>1, PushInvariant, PTL

\* No started delivery vanishes, whatever is unsubscribed, removed, retried or
\* discarded meanwhile (consumer-manager.ts, deliverToWebhook()).
THEOREM StartedStaysAccounted == Spec => []StartedIsAccounted
<1>1. PushInv => StartedIsAccounted
  BY DEF PushInv
<1> QED
  BY <1>1, PushInvariant, PTL

\* A resolved or discarded entry reopens only when a task that was running
\* makes its last attempt (deliverToWebhook(), recordFailure()).
THEOREM OnlyRunningTasksReopen == Spec => ReopenedByRunningTask
<1>1. ASSUME PushInv, [Next]_vars
      PROVE  [\A d \in Deliveries :
                 (Closed(d) /\ dlq'[d].status \in {"retrying", "pending"})
                    => Underway(d) /\ tasks'[d] # tasks[d]]_vars
  BY <1>1, StepIsGood DEF GoodStep
<1> QED
  BY <1>1, PushInvariant, PTL DEF Spec, ReopenedByRunningTask

\* Push delivery implements the delivery contract of the bus: a delivery under
\* way ends only at its endpoint or in the dead letter queue, and both records
\* are kept (consumer-manager.ts, dead-letter-queue.ts).
THEOREM PushKeepsContract == Spec => KeepsContract
<1>1. Init => Contract!ContractInit
  BY DEF Init, DlqInit, HasEntry, Underway, Attempts, Contract!ContractInit
<1>2. PushInv /\ [Next]_vars => [Contract!ContractNext]_Contract!contractVars
  <2> SUFFICES ASSUME PushInv, [Next]_vars PROVE Contract!ContractNext
    OBVIOUS
  <2>1. GoodStep
    BY StepIsGood
  <2>2. received' \subseteq Deliveries
    BY <2>1 DEF GoodStep, TaskTypeOK
  <2>3. received \subseteq Deliveries
    BY TypesSplit DEF PushInv, TaskTypeOK
  <2> QED
    BY <2>1, <2>2, <2>3 DEF GoodStep, Contract!ContractNext
<1> QED
  BY <1>1, <1>2, PushInvariant, PTL DEF Spec, KeepsContract, Contract!ContractSpec

\* Failures are counted once per task, never per attempt and never twice: what
\* the entry counts and what still runs together were started, through retries,
\* double subscriptions and reopened entries (deliverToWebhook()).
THEOREM FailuresStayStarted == Spec => []FailuresAreStartedTasks
<1>1. \A d : TasksOf(d) = Total(tasks[d])
  BY DEF TasksOf, Total, Named
<1>2. Init => FailuresAreStartedTasks
  <2> SUFFICES ASSUME Init, NEW d \in Deliveries
               PROVE  dlq[d].failure_count + Total(tasks[d]) <= started[d]
    BY <1>1 DEF FailuresAreStartedTasks
  <2>1. dlq[d].failure_count = 0 /\ started[d] = 0
    BY DEF Init, DlqInit, NoEntry
  <2>2. tasks[d] \in [Attempts -> Nat] /\ \A a \in Attempts : tasks[d][a] = 0
    BY DEF Init
  <2>3. Total(tasks[d]) = 0
    BY <2>2, TotalIsNat
  <2> QED
    BY <2>1, <2>3
<1>3. ASSUME PushInv, FailuresAreStartedTasks, [Next]_vars
      PROVE  FailuresAreStartedTasks'
  <2>1. CountedStep /\ PushInv'
    BY <1>3, StepIsCounted, StepIsGood, GoodStepKeeps
  <2> SUFFICES ASSUME NEW d \in Deliveries
               PROVE  dlq'[d].failure_count + Total(tasks'[d]) <= started'[d]
    BY DEF FailuresAreStartedTasks, TasksOf, Total, Named
  <2>2. /\ dlq[d].failure_count \in Nat /\ Total(tasks[d]) \in Nat /\ started[d] \in Nat
        /\ dlq[d].failure_count + Total(tasks[d]) <= started[d]
    BY <1>1, <1>3, CountsAreNat DEF FailuresAreStartedTasks
  <2>3. dlq'[d].failure_count \in Nat /\ Total(tasks'[d]) \in Nat /\ started'[d] \in Nat
    <3>1. tasks'[d] \in [Attempts -> Nat] /\ started'[d] \in Nat /\ dlq'[d] \in Entry
      BY <1>3, StepIsGood DEF GoodStep, TaskTypeOK, DlqTypeOK
    <3> QED
      BY <3>1, TotalIsNat, RetriesAssumption DEF Entry
  <2> QED
    BY <2>1, <2>2, <2>3 DEF CountedStep
<1> QED
  BY <1>2, <1>3, PushInvariant, PTL DEF Spec

\* The POSTs that the tasks of a delivery may still make, none exactly when no
\* task is under way.
AttemptsLeft(d) == Left(tasks[d])

\* Every step that touches the tasks of a delivery either starts some, each with
\* webhookMaxRetries attempts, or leaves fewer attempts to make: between two
\* starts a delivery runs down to its end, in whatever order attempts of its
\* tasks fail and succeed (deliverToWebhook(), the loop).
AttemptsRunDown ==
    [][\A d \in Deliveries :
          \/ tasks'[d] = tasks[d]
          \/ started'[d] = started[d] /\ AttemptsLeft(d)' < AttemptsLeft(d)
          \/ /\ started'[d] > started[d]
             /\ AttemptsLeft(d)' =
                   AttemptsLeft(d) + (started'[d] - started[d]) * MaxAttempts]_vars

\* The attempts left are a number that only starting tasks can raise, and at
\* zero nothing is under way: what EveryTaskEnds needs beside fairness.
THEOREM TasksRunDown ==
    /\ Spec => [](\A d \in Deliveries :
                     AttemptsLeft(d) \in Nat /\ (AttemptsLeft(d) = 0 <=> ~Underway(d)))
    /\ Spec => AttemptsRunDown
<1>1. PushInv => \A d \in Deliveries :
                    AttemptsLeft(d) \in Nat /\ (AttemptsLeft(d) = 0 <=> ~Underway(d))
  <2> SUFFICES ASSUME PushInv, NEW d \in Deliveries
               PROVE  AttemptsLeft(d) \in Nat /\ (AttemptsLeft(d) = 0 <=> ~Underway(d))
    OBVIOUS
  <2>1. tasks[d] \in [Attempts -> Nat]
    BY CountsAreNat
  <2> QED
    BY <2>1, LeftIsNat DEF AttemptsLeft, Underway
<1>2. ASSUME PushInv, [Next]_vars
      PROVE  [\A d \in Deliveries :
                 \/ tasks'[d] = tasks[d]
                 \/ started'[d] = started[d] /\ AttemptsLeft(d)' < AttemptsLeft(d)
                 \/ /\ started'[d] > started[d]
                    /\ AttemptsLeft(d)' =
                          AttemptsLeft(d) + (started'[d] - started[d]) * MaxAttempts]_vars
  <2> SUFFICES ASSUME NEW d \in Deliveries
               PROVE  \/ tasks'[d] = tasks[d]
                      \/ started'[d] = started[d] /\ Left(tasks'[d]) < Left(tasks[d])
                      \/ /\ started'[d] > started[d]
                         /\ Left(tasks'[d]) =
                               Left(tasks[d]) + (started'[d] - started[d]) * MaxAttempts
    BY DEF AttemptsLeft
  <2>1. started[d] \in Nat /\ started'[d] \in Nat
    BY <1>2, StepIsGood, CountsAreNat DEF GoodStep, TaskTypeOK
  <2>2. CountedStep
    BY <1>2, StepIsCounted
  <2> QED
    BY <2>1, <2>2 DEF CountedStep
<1> QED
  BY <1>1, <1>2, PushInvariant, PTL DEF Spec, AttemptsRunDown

=============================================================================
