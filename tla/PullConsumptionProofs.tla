------------------------ MODULE PullConsumptionProofs ------------------------
(***************************************************************************)
(* Theorems of PullConsumption, for any consumers, events, batch size and  *)
(* retry limit.  The refinement of DeliveryContract needs one fact that is *)
(* not a property of the code by itself: a client can only answer what it  *)
(* holds, and whatever it holds is on record with the bus (HeldIsOnRecord).*)
(***************************************************************************)
EXTENDS PullConsumption, EventStoreProofs

OnRecord(d) == d \in pendingDeliveries \cup acked \/ HasEntry(d)

\* What a client holds or has acknowledged is still known to the bus.
HeldIsOnRecord ==
    \A c \in Consumers : \A e \in held[c] : OnRecord(<<c, e>>)

PullInv ==
    /\ TypeOK
    /\ StoreInv
    /\ StatusMatchesCount
    /\ OnlyHandedOutFails
    /\ HeldIsOnRecord

-----------------------------------------------------------------------------
(* The invariant, action by action.                                         *)

\* Ids fit the bounds the types use.
LEMMA IdsInBounds ==
    ASSUME StoreTypeOK
    PROVE  /\ 1..Len(appended) \subseteq 1..MaxAppends
           /\ Retained \subseteq 1..MaxAppends
           /\ acknowledged \subseteq 1..MaxAppends
<1>1. /\ Len(appended) \in Nat /\ persisted \in 0..Len(appended)
      /\ Len(appended) <= MaxAppends /\ MaxAppends \in Nat
  BY LenProperties, BoundsAssumption DEF StoreTypeOK
<1>2. Retained \subseteq 1..persisted
  BY ElementOfSeq DEF StoreTypeOK, Retained
<1>3. acknowledged \subseteq 1..persisted
  BY DEF StoreTypeOK
<1> QED
  BY <1>1, <1>2, <1>3

LEMMA PullInitHolds == Init => PullInv
<1> SUFFICES ASSUME Init PROVE PullInv
  OBVIOUS
<1>1. StoreInv
  BY InitHolds DEF Init
<1>2. DlqTypeOK /\ StatusMatchesCount /\ \A d \in Deliveries : ~HasEntry(d)
  BY RetriesAssumption
  DEF Init, DlqInit, DlqTypeOK, StatusMatchesCount, HasEntry, NoEntry, Entry
<1>3. TypeOK
  BY <1>1, <1>2, BoundsAssumption, PullAssumption DEF TypeOK, StoreInv, Init
<1>4. OnlyHandedOutFails /\ HeldIsOnRecord
  BY <1>2 DEF Init, OnlyHandedOutFails, HeldIsOnRecord
<1> QED
  BY <1>1, <1>2, <1>3, <1>4 DEF PullInv, TypeOK

LEMMA PublishKeeps ==
    ASSUME PullInv, Publish
    PROVE  PullInv'
<1>1. StoreInv'
  BY StepKeeps DEF PullInv, Publish, StoreNext
<1>2. UNCHANGED <<dlq, managerVars, clientVars>>
  BY DEF Publish
<1>3. TypeOK'
  BY <1>1, <1>2 DEF PullInv, TypeOK, DlqTypeOK, StoreInv, managerVars, clientVars
<1>4. StatusMatchesCount'
  BY <1>2 DEF PullInv, StatusMatchesCount
<1>5. OnlyHandedOutFails' /\ HeldIsOnRecord'
  BY <1>2 DEF PullInv, OnlyHandedOutFails, HeldIsOnRecord, OnRecord, HasEntry,
              managerVars, clientVars
<1> QED
  BY <1>1, <1>3, <1>4, <1>5 DEF PullInv

LEMMA ManagerKeeps ==
    ASSUME PullInv, NEW c \in Consumers,
           \/ Register(c)
           \/ \E from \in acknowledged : Subscribe(c, from)
           \/ \E how \in {"inactive", "removed"} : Leave(c, how)
    PROVE  PullInv'
<1>1. UNCHANGED <<storeVars, dlq, pendingDeliveries, held, batch, handedOut, acked>>
  BY DEF Register, Subscribe, Leave, clientVars
<1>8. repeats' \in 0..MaxRepeats
  BY PullAssumption DEF Register, Subscribe, Leave, clientVars, PullInv, TypeOK
<1>2. StoreInv'
  BY <1>1, StutterKeeps DEF PullInv
<1>3. consumers' \in [Consumers -> {"unregistered", "active", "inactive", "removed"}]
  BY DEF Register, Subscribe, Leave, PullInv, TypeOK
<1>4. /\ offsets' \in [Consumers -> [Topics -> 0..MaxAppends]]
      /\ skipTo' \in [Consumers -> [Topics -> 0..MaxAppends]]
  <2>1. CASE \E from \in acknowledged : Subscribe(c, from)
    <3>1. PICK from \in 1..MaxAppends : Subscribe(c, from)
      BY <2>1, IdsInBounds DEF PullInv, TypeOK
    <3>2. from \in 0..MaxAppends
      BY <3>1
    <3> QED
      BY <3>1, <3>2 DEF Subscribe, Sought, PullInv, TypeOK
  <2>2. CASE Register(c) \/ \E how \in {"inactive", "removed"} : Leave(c, how)
    BY <2>2 DEF Register, Leave, clientVars, PullInv, TypeOK
  <2> QED
    BY <2>1, <2>2
<1>5. TypeOK'
  BY <1>1, <1>2, <1>3, <1>4, <1>8 DEF PullInv, TypeOK, DlqTypeOK, StoreInv
<1>6. StatusMatchesCount'
  BY <1>1 DEF PullInv, StatusMatchesCount
<1>7. OnlyHandedOutFails' /\ HeldIsOnRecord'
  BY <1>1 DEF PullInv, OnlyHandedOutFails, HeldIsOnRecord, OnRecord, HasEntry
<1> QED
  BY <1>2, <1>5, <1>6, <1>7 DEF PullInv

\* Whatever a /consume finds is a retained event at a place of one of its pages.
LEMMA FoundHits ==
    ASSUME TypeOK, StoreInv, NEW c \in Consumers, NEW from, NEW x \in Found(c, from)
    PROVE  LET page == RawPage(c, Polled[c][x[1]], from)
           IN  /\ x \in (1..Len(Polled[c])) \X (Nat \ {0}) \X Retained
               /\ x[2] \in 1..Len(page) /\ page[x[2]] = x[3]
               /\ Matches(x[3], Polled[c][x[1]])
<1>1. PICK i \in 1..Len(Polled[c]) : x \in Hits(c, i, RawPage(c, Polled[c][i], from))
  BY DEF Found
<1> DEFINE t == Polled[c][i]
           k == DomainOfTopic(t)
           page == RawPage(c, t, from)
           after == IF from # 0 THEN from ELSE offsets[c][t]
<1>2. PICK n \in 1..Len(page) : x = <<i, n, page[n]>> /\ Matches(page[n], t)
  BY <1>1 DEF Hits
<1>3. t \in Topics
  BY PullAssumption, ElementOfSeq
<1>4. k \in Keys
  BY <1>3, EventTypesAssumption DEF Topics, DomainOfTopic, Keys
<1>5. page = GetByKey(k, after, BatchSize)
  BY DEF RawPage
<1> HIDE DEF t, k, after
<1>6. PICK start \in 0..Len(index[k]) : StretchFrom(start, k, after, BatchSize)
  BY <1>4, PullAssumption, PageIsStretch
<1>7. /\ Len(index[k]) \in Nat
      /\ Len(page) \in 0..(Len(index[k]) - start)
      /\ page[n] = index[k][start + n]
  BY <1>4, <1>5, <1>6, <1>2, LenProperties DEF StretchFrom, StoreInv, StoreTypeOK
<1>8. start + n \in 1..Len(index[k])
  BY <1>7
<1>9. page[n] \in Retained
  BY <1>4, <1>7, <1>8 DEF StoreInv, IndexAgreesWithLog, Listed
<1>10. n \in Nat \ {0}
  BY <1>7
<1> QED
  BY <1>2, <1>9, <1>10 DEF t

\* What a response contains.
LEMMA ResponseIds ==
    ASSUME TypeOK, StoreInv, NEW c \in Consumers, NEW from, NEW S \in SUBSET Found(c, from)
    PROVE  /\ S \in SUBSET (Nat \X Nat \X (1..MaxAppends))
           /\ IdsOf(S) \subseteq 1..MaxAppends
           /\ {c} \X IdsOf(S) \subseteq Deliveries
<1>1. Retained \subseteq 1..MaxAppends
  BY IdsInBounds DEF TypeOK
<1>2. 1..Len(Polled[c]) \subseteq Nat
  BY PullAssumption, LenProperties
<1>3. S \in SUBSET (Nat \X Nat \X (1..MaxAppends))
  <2>1. \A x \in S : x \in (1..Len(Polled[c])) \X (Nat \ {0}) \X Retained
    BY FoundHits
  <2> QED
    BY <2>1, <1>1, <1>2
<1>4. IdsOf(S) \subseteq 1..MaxAppends
  BY <1>3 DEF IdsOf
<1> QED
  BY <1>3, <1>4, PullAssumption

LEMMA PullKeeps ==
    ASSUME PullInv, NEW c \in Consumers, NEW from \in acknowledged \cup {0}, Pull(c, from)
    PROVE  PullInv'
<1>1. UNCHANGED <<storeVars, dlq, consumers, offsets, acked>>
  BY DEF Pull
<1>9. repeats' \in 0..MaxRepeats
  BY PullAssumption DEF Pull, PullInv, TypeOK
<1>2. PICK S \in SUBSET Found(c, from) :
        /\ pendingDeliveries' = pendingDeliveries \cup ({c} \X IdsOf(S))
        /\ held' = [held EXCEPT ![c] = @ \cup IdsOf(S)]
        /\ batch' = [batch EXCEPT ![c] = S]
        /\ handedOut' = handedOut \cup ({c} \X IdsOf(S))
  BY DEF Pull
<1>3. TypeOK
  BY DEF PullInv
<1>4. StoreInv'
  BY <1>1, StutterKeeps DEF PullInv
<1>5. TypeOK'
  <2>1. from \in 0..MaxAppends
    BY <1>3, IdsInBounds, BoundsAssumption DEF TypeOK
  <2>2. skipTo' \in [Consumers -> [Topics -> 0..MaxAppends]]
    BY <2>1, <1>3 DEF Pull, Sought, TypeOK
  <2>3. /\ pendingDeliveries' \subseteq Deliveries /\ handedOut' \subseteq Deliveries
        /\ held' \in [Consumers -> SUBSET (1..MaxAppends)]
        /\ batch' \in [Consumers -> SUBSET (Nat \X Nat \X (1..MaxAppends))]
    BY <1>2, <1>3, ResponseIds DEF TypeOK, PullInv
  <2> QED
    BY <2>2, <2>3, <1>1, <1>3, <1>4, <1>9 DEF TypeOK, DlqTypeOK, StoreInv
<1>6. StatusMatchesCount'
  BY <1>1 DEF PullInv, StatusMatchesCount
<1>7. OnlyHandedOutFails'
  BY <1>1, <1>2 DEF PullInv, OnlyHandedOutFails, HasEntry
<1>8. HeldIsOnRecord'
  <2> SUFFICES ASSUME NEW x \in Consumers, NEW e \in held'[x]
               PROVE  OnRecord(<<x, e>>)'
    BY DEF HeldIsOnRecord
  <2>1. CASE e \in held[x]
    BY <2>1, <1>1, <1>2 DEF PullInv, HeldIsOnRecord, OnRecord, HasEntry
  <2>2. CASE x = c /\ e \in IdsOf(S)
    BY <2>2, <1>2 DEF OnRecord
  <2> QED
    BY <2>1, <2>2, <1>2, <1>3 DEF TypeOK
<1> QED
  BY <1>4, <1>5, <1>6, <1>7, <1>8 DEF PullInv

LEMMA AckTimeoutKeeps ==
    ASSUME PullInv, NEW d \in pendingDeliveries, AckTimeout(d)
    PROVE  PullInv'
<1>1. /\ pendingDeliveries' = pendingDeliveries \ {d} /\ RecordFailure(d)
      /\ UNCHANGED <<storeVars, consumers, offsets, clientVars>>
  BY DEF AckTimeout
<1>2. d \in Deliveries /\ d \in handedOut
  BY DEF PullInv, TypeOK, OnlyHandedOutFails
<1>3. /\ DlqTypeOK' /\ StatusMatchesCount' /\ HasEntry(d)'
      /\ \A x \in Deliveries \ {d} : HasEntry(x)' <=> HasEntry(x)
  BY <1>1, <1>2, RecordFailureKeeps DEF PullInv, TypeOK, HasEntry
<1>4. StoreInv'
  BY <1>1, StutterKeeps DEF PullInv
<1>5. TypeOK'
  BY <1>1, <1>3, <1>4 DEF PullInv, TypeOK, StoreInv, clientVars
<1>6. OnlyHandedOutFails'
  BY <1>1, <1>2, <1>3 DEF PullInv, OnlyHandedOutFails, clientVars
<1>7. HeldIsOnRecord'
  <2> SUFFICES ASSUME NEW c \in Consumers, NEW e \in held[c]
               PROVE  OnRecord(<<c, e>>)'
    BY <1>1 DEF HeldIsOnRecord, clientVars
  <2>1. OnRecord(<<c, e>>) /\ <<c, e>> \in Deliveries
    BY PullAssumption DEF PullInv, TypeOK, HeldIsOnRecord
  <2> QED
    BY <2>1, <1>1, <1>3 DEF OnRecord, clientVars
<1> QED
  BY <1>3, <1>4, <1>5, <1>6, <1>7 DEF PullInv

LEMMA AcknowledgeKeeps ==
    ASSUME PullInv, NEW c \in Consumers, NEW e \in 1..Len(appended),
           NEW t \in AckTopics, FirstAck(c, e, t) \/ RepeatedAck(c, e, t)
    PROVE  PullInv'
<1>1. Acknowledge(c, e, t) /\ repeats' \in 0..MaxRepeats
  BY PullAssumption DEF FirstAck, RepeatedAck, PullInv, TypeOK
<1>2. /\ pendingDeliveries' = pendingDeliveries \ {<<c, e>>}
      /\ offsets' = [offsets EXCEPT ![c][t] = e]
      /\ held' = [held EXCEPT ![c] = @ \ {e}]
      /\ acked' = acked \cup {<<c, e>>}
      /\ UNCHANGED <<storeVars, dlq, consumers, batch, handedOut, skipTo>>
  BY <1>1 DEF Acknowledge
<1>3. StoreInv'
  BY <1>2, StutterKeeps DEF PullInv
<1>4. TypeOK'
  <2>1. e \in 1..MaxAppends /\ e \in 0..MaxAppends /\ t \in Topics /\ <<c, e>> \in Deliveries
    BY IdsInBounds, PullAssumption DEF PullInv, TypeOK
  <2> QED
    BY <2>1, <1>1, <1>2, <1>3 DEF PullInv, TypeOK, DlqTypeOK, StoreInv
<1>5. StatusMatchesCount'
  BY <1>2 DEF PullInv, StatusMatchesCount
<1>6. OnlyHandedOutFails'
  BY <1>2 DEF PullInv, OnlyHandedOutFails, HasEntry
<1>7. HeldIsOnRecord'
  <2> SUFFICES ASSUME NEW x \in Consumers, NEW g \in held'[x]
               PROVE  OnRecord(<<x, g>>)'
    BY DEF HeldIsOnRecord
  <2>1. g \in held[x] /\ OnRecord(<<x, g>>)
    BY <1>2 DEF PullInv, TypeOK, HeldIsOnRecord
  <2> QED
    BY <2>1, <1>2 DEF OnRecord, HasEntry
<1> QED
  BY <1>3, <1>4, <1>5, <1>6, <1>7 DEF PullInv

LEMMA NegativeAckKeeps ==
    ASSUME PullInv, NEW c \in Consumers, NEW e \in 1..Len(appended), NegativeAck(c, e)
    PROVE  PullInv'
<1> DEFINE d == <<c, e>>
<1>1. /\ held' = [held EXCEPT ![c] = @ \ {e}]
      /\ UNCHANGED <<storeVars, consumers, offsets, batch, handedOut, acked, skipTo, repeats>>
  BY DEF NegativeAck
<1>2. d \in Deliveries
  BY IdsInBounds, PullAssumption DEF PullInv, TypeOK
<1>3. StoreInv'
  BY <1>1, StutterKeeps DEF PullInv
<1>4. /\ pendingDeliveries' \subseteq pendingDeliveries
      /\ DlqTypeOK' /\ StatusMatchesCount'
      /\ \A x \in Deliveries : HasEntry(x)' => HasEntry(x) \/ x \in handedOut
      /\ \A x \in Deliveries : OnRecord(x) => OnRecord(x)'
  <2>1. CASE d \in pendingDeliveries
    <3>1. pendingDeliveries' = pendingDeliveries \ {d} /\ RecordFailure(d)
      BY <2>1 DEF NegativeAck
    <3>2. /\ DlqTypeOK' /\ StatusMatchesCount' /\ HasEntry(d)'
          /\ \A x \in Deliveries \ {d} : HasEntry(x)' <=> HasEntry(x)
      BY <3>1, <1>2, RecordFailureKeeps DEF PullInv, TypeOK, HasEntry
    <3>3. d \in handedOut
      BY <2>1, <1>2 DEF PullInv, OnlyHandedOutFails
    <3> HIDE DEF d
    <3> QED
      BY <3>1, <3>2, <3>3, <1>1 DEF OnRecord
  <2>2. CASE d \notin pendingDeliveries
    <3>1. UNCHANGED <<pendingDeliveries, dlq>>
      BY <2>2 DEF NegativeAck
    <3> QED
      BY <3>1, <1>1 DEF PullInv, TypeOK, DlqTypeOK, StatusMatchesCount, HasEntry, OnRecord
  <2> QED
    BY <2>1, <2>2
<1>5. TypeOK'
  BY <1>1, <1>3, <1>4 DEF PullInv, TypeOK, StoreInv
<1>6. OnlyHandedOutFails'
  BY <1>1, <1>4 DEF PullInv, OnlyHandedOutFails
<1>7. HeldIsOnRecord'
  <2> SUFFICES ASSUME NEW x \in Consumers, NEW g \in held'[x]
               PROVE  OnRecord(<<x, g>>)'
    BY DEF HeldIsOnRecord
  <2>1. g \in held[x] /\ OnRecord(<<x, g>>) /\ <<x, g>> \in Deliveries
    BY <1>1, PullAssumption DEF PullInv, TypeOK, HeldIsOnRecord
  <2> QED
    BY <2>1, <1>4
<1> QED
  BY <1>3, <1>4, <1>5, <1>6, <1>7 DEF PullInv

LEMMA PullStutterKeeps ==
    ASSUME PullInv, UNCHANGED vars
    PROVE  PullInv'
<1>1. UNCHANGED <<storeVars, dlq, managerVars, clientVars>>
  BY DEF vars
<1>2. StoreInv'
  BY <1>1, StutterKeeps DEF PullInv
<1>3. TypeOK'
  BY <1>1, <1>2 DEF PullInv, TypeOK, DlqTypeOK, StoreInv, managerVars, clientVars
<1>4. StatusMatchesCount'
  BY <1>1 DEF PullInv, StatusMatchesCount
<1>5. OnlyHandedOutFails' /\ HeldIsOnRecord'
  BY <1>1 DEF PullInv, OnlyHandedOutFails, HeldIsOnRecord, OnRecord, HasEntry,
              managerVars, clientVars
<1> QED
  BY <1>2, <1>3, <1>4, <1>5 DEF PullInv

\* The ways a step can go: one case for each thing the proofs tell apart.
LEMMA StepCases ==
    ASSUME [Next]_vars
    PROVE  \/ UNCHANGED vars
           \/ Publish
           \/ \E d \in pendingDeliveries : AckTimeout(d)
           \/ \E c \in Consumers :
                \/ Register(c)
                \/ \E from \in acknowledged : Subscribe(c, from)
                \/ \E how \in {"inactive", "removed"} : Leave(c, how)
           \/ \E c \in Consumers, from \in acknowledged \cup {0} : Pull(c, from)
           \/ \E c \in Consumers, e \in 1..Len(appended) : NegativeAck(c, e)
           \/ \E c \in Consumers, e \in 1..Len(appended), t \in AckTopics :
                FirstAck(c, e, t) \/ RepeatedAck(c, e, t)
BY DEF Next

LEMMA PullStepKeeps ==
    ASSUME PullInv, [Next]_vars
    PROVE  PullInv'
<1>1. CASE UNCHANGED vars
  BY <1>1, PullStutterKeeps
<1>2. CASE Publish
  BY <1>2, PublishKeeps
<1>3. CASE \E d \in pendingDeliveries : AckTimeout(d)
  BY <1>3, AckTimeoutKeeps
<1>4. CASE \E c \in Consumers :
             \/ Register(c)
             \/ \E from \in acknowledged : Subscribe(c, from)
             \/ \E how \in {"inactive", "removed"} : Leave(c, how)
  BY <1>4, ManagerKeeps
<1>5. CASE \E c \in Consumers, from \in acknowledged \cup {0} : Pull(c, from)
  BY <1>5, PullKeeps
<1>6. CASE \E c \in Consumers, e \in 1..Len(appended) : NegativeAck(c, e)
  BY <1>6, NegativeAckKeeps
<1>7. CASE \E c \in Consumers, e \in 1..Len(appended), t \in AckTopics :
             FirstAck(c, e, t) \/ RepeatedAck(c, e, t)
  BY <1>7, AcknowledgeKeeps
<1> QED
  BY <1>1, <1>2, <1>3, <1>4, <1>5, <1>6, <1>7, StepCases

\* The inductive invariant of pull consumption.
THEOREM PullInvariant == Spec => []PullInv
<1>1. Init => PullInv
  BY PullInitHolds
<1>2. PullInv /\ [Next]_vars => PullInv'
  BY PullStepKeeps
<1> QED
  BY <1>1, <1>2, PTL DEF Spec

\* The state of the manager, its timers and its clients keeps its shape
\* (consumer-manager.ts, ConsumerManager).
THEOREM PullTypeCorrect == Spec => []TypeOK
<1>1. PullInv => TypeOK
  BY DEF PullInv
<1> QED
  BY <1>1, PullInvariant, PTL

\* The status of an entry follows its count through every history of timeouts
\* and nacks (dead-letter-queue.ts, recordFailure()).
THEOREM StatusFollowsCount == Spec => []StatusMatchesCount
<1>1. PullInv => StatusMatchesCount
  BY DEF PullInv
<1> QED
  BY <1>1, PullInvariant, PTL

\* Only events that were handed to a consumer get a timer or an entry
\* (consumer-manager.ts, handleAckTimeout(), negativeAck()).
THEOREM FailuresWereHandedOut == Spec => []OnlyHandedOutFails
<1>1. PullInv => OnlyHandedOutFails
  BY DEF PullInv
<1> QED
  BY <1>1, PullInvariant, PTL

-----------------------------------------------------------------------------
(* Action properties and the refinement.                                    *)

\* A step changes the entry of a delivery only by ending that delivery's timer:
\* a nack and a timeout of one delivery never both count (negativeAck(),
\* handleAckTimeout()).
THEOREM EachDeliveryFailsOnce == Spec => OneFailurePerDelivery
<1>1. ASSUME PullInv, [Next]_vars
      PROVE  [\A d \in Deliveries : dlq'[d] # dlq[d] =>
                 d \in pendingDeliveries /\ d \notin pendingDeliveries']_vars
  <2> SUFFICES ASSUME NEW d \in Deliveries, dlq'[d] # dlq[d]
               PROVE  d \in pendingDeliveries /\ d \notin pendingDeliveries'
    OBVIOUS
  <2>1. DlqTypeOK /\ StatusMatchesCount
    BY <1>1 DEF PullInv, TypeOK
  <2>2. CASE \E x \in pendingDeliveries : AckTimeout(x)
    <3>1. PICK x \in pendingDeliveries : AckTimeout(x)
      BY <2>2
    <3>2. x \in Deliveries /\ RecordFailure(x) /\ pendingDeliveries' = pendingDeliveries \ {x}
      BY <1>1, <3>1 DEF AckTimeout, PullInv, TypeOK
    <3>3. x = d
      BY <3>2, <2>1, RecordFailureKeeps
    <3> QED
      BY <3>2, <3>3
  <2>3. CASE \E c \in Consumers, e \in 1..Len(appended) : NegativeAck(c, e)
    <3>1. PICK c \in Consumers, e \in 1..Len(appended) : NegativeAck(c, e)
      BY <2>3
    <3>2. /\ <<c, e>> \in pendingDeliveries
          /\ pendingDeliveries' = pendingDeliveries \ {<<c, e>>} /\ RecordFailure(<<c, e>>)
      BY <3>1 DEF NegativeAck
    <3>3. <<c, e>> \in Deliveries
      BY <3>2, <1>1 DEF PullInv, TypeOK
    <3>4. <<c, e>> = d
      BY <3>2, <3>3, <2>1, RecordFailureKeeps
    <3> QED
      BY <3>2, <3>4
  <2>4. ~UNCHANGED dlq
    OBVIOUS
  <2> QED
    BY <2>2, <2>3, <2>4, <1>1, StepCases
    DEF vars, Publish, Register, Subscribe, Leave, Pull, FirstAck, RepeatedAck, Acknowledge
<1> QED
  BY <1>1, PullInvariant, PTL DEF Spec, OneFailurePerDelivery

\* Whatever a client acknowledges, the bus has on record.
LEMMA AnswerIsOnRecord ==
    ASSUME PullInv, NEW c \in Consumers, NEW e, NEW t,
           FirstAck(c, e, t) \/ RepeatedAck(c, e, t)
    PROVE  OnRecord(<<c, e>>)
<1>1. CASE FirstAck(c, e, t)
  BY <1>1 DEF FirstAck, PullInv, HeldIsOnRecord
<1>2. CASE RepeatedAck(c, e, t)
  <2>1. <<c, e>> \in acked
    BY <1>2 DEF RepeatedAck
  <2> QED
    BY <2>1 DEF OnRecord
<1> QED
  BY <1>1, <1>2

\* Every step is a step of the contract, or none.
LEMMA StepKeepsContract ==
    ASSUME PullInv, PullInv', [Next]_vars
    PROVE  [Contract!ContractNext]_Contract!contractVars
<1> USE DEF Contract!ContractNext, Contract!contractVars
<1> DEFINE failed == {d \in Deliveries : HasEntry(d)}
<1>1. /\ pendingDeliveries' \subseteq Deliveries /\ acked' \subseteq Deliveries
      /\ pendingDeliveries \subseteq Deliveries
  BY DEF PullInv, TypeOK
<1>2. DlqTypeOK /\ StatusMatchesCount
  BY DEF PullInv, TypeOK
<1>3. ASSUME NEW d \in pendingDeliveries, RecordFailure(d), UNCHANGED acked,
             pendingDeliveries' = pendingDeliveries \ {d}
      PROVE  Contract!ContractNext
  <2>1. d \in Deliveries
    BY <1>1, <1>3
  <2>2. failed' = failed \cup {d}
    BY <1>2, <1>3, <2>1, RecordFailureKeeps DEF HasEntry
  <2> QED
    BY <1>1, <1>3, <2>1, <2>2
<1>4. CASE \E d \in pendingDeliveries : AckTimeout(d)
  BY <1>3, <1>4 DEF AckTimeout, clientVars
<1>5. CASE \E c \in Consumers, e \in 1..Len(appended) : NegativeAck(c, e)
  <2>1. PICK c \in Consumers, e \in 1..Len(appended) : NegativeAck(c, e)
    BY <1>5
  <2>2. CASE <<c, e>> \in pendingDeliveries
    BY <1>3, <2>1, <2>2 DEF NegativeAck
  <2>3. CASE <<c, e>> \notin pendingDeliveries
    BY <2>1, <2>3 DEF NegativeAck, HasEntry
  <2> QED
    BY <2>2, <2>3
<1>6. CASE \E c \in Consumers, e \in 1..Len(appended), t \in AckTopics :
             FirstAck(c, e, t) \/ RepeatedAck(c, e, t)
  <2>1. PICK c \in Consumers, e \in 1..Len(appended), t \in AckTopics :
            FirstAck(c, e, t) \/ RepeatedAck(c, e, t)
    BY <1>6
  <2> DEFINE d == <<c, e>>
  <2>2. OnRecord(d) /\ d \in Deliveries
    <3>1. d \in Deliveries
      BY IdsInBounds, PullAssumption DEF PullInv, TypeOK
    <3> QED
      BY <3>1, <2>1, AnswerIsOnRecord
  <2>3. /\ pendingDeliveries' = pendingDeliveries \ {d} /\ acked' = acked \cup {d}
        /\ UNCHANGED dlq
    BY <2>1 DEF FirstAck, RepeatedAck, Acknowledge
  <2>4. failed' = failed
    BY <2>3 DEF HasEntry
  <2> HIDE DEF d
  <2> QED
    BY <2>2, <2>3, <2>4, <1>1 DEF OnRecord
<1>7. CASE \E c \in Consumers, from \in acknowledged \cup {0} : Pull(c, from)
  <2>1. /\ pendingDeliveries \subseteq pendingDeliveries' /\ UNCHANGED <<dlq, acked>>
    BY <1>7 DEF Pull
  <2>2. failed' = failed
    BY <2>1 DEF HasEntry
  <2> QED
    BY <1>1, <2>1, <2>2
<1>8. CASE UNCHANGED <<pendingDeliveries, dlq, acked>>
  BY <1>8 DEF HasEntry
<1> QED
  BY <1>4, <1>5, <1>6, <1>7, <1>8, StepCases
  DEF vars, Publish, Register, Subscribe, Leave, managerVars, clientVars

\* Pull consumption implements the delivery contract of the bus: a delivery
\* under way ends only as acknowledged or as dead-lettered, and both records
\* are kept (consumer-manager.ts, dead-letter-queue.ts).
THEOREM PullKeepsContract == Spec => KeepsContract
<1>1. Init => Contract!ContractInit
  BY DEF Init, DlqInit, HasEntry, Contract!ContractInit
<1>2. PullInv /\ PullInv' /\ [Next]_vars => [Contract!ContractNext]_Contract!contractVars
  BY StepKeepsContract
<1> QED
  BY <1>1, <1>2, PullInvariant, PTL DEF Spec, KeepsContract, Contract!ContractSpec

-----------------------------------------------------------------------------
(***************************************************************************)
(* No event disappears between offsets, ack timers and dead letters, for   *)
(* any number of events and consumers, any batch size and any topics that  *)
(* do not overlap, on a host whose clock is not set back: the slice of a   *)
(* response goes by the stamps, so with a stamp out of order it can list a *)
(* later event of a topic and leave out an earlier one, for good once the  *)
(* later one is acknowledged.                                              *)
(*                                                                         *)
(* NoSilentLoss is not inductive: an offset moves to an event long after   *)
(* the response that listed it.  HandedIsDense carries what the response   *)
(* had established - everything behind a listed event was listed with it   *)
(* or already accounted for - to the acknowledgement.                      *)
(***************************************************************************)

\* No consumer polls a wildcard together with a type it covers.
TopicsDontOverlap ==
    \A c \in Consumers : \A t, u \in PolledTopics(c) :
        t # u => DomainOfTopic(u) # t

\* Behind an event that was handed out nothing of the topic is unaccounted.
HandedIsDense ==
    \A c \in Consumers : \A t \in PolledTopics(c) : \A e, g \in 1..persisted :
        (/\ e \in Retained /\ <<c, g>> \in handedOut
         /\ Matches(e, t) /\ Matches(g, t) /\ skipTo[c][t] < e /\ e < g)
            => Accounted(c, e)

\* Whatever a client holds or acknowledged was handed to it, and whatever was
\* handed to it is on record.
HandedIsOnRecord ==
    /\ \A c \in Consumers : \A e \in held[c] : <<c, e>> \in handedOut
    /\ acked \subseteq handedOut
    /\ \A c \in Consumers, e \in 1..MaxAppends :
          <<c, e>> \in handedOut => Accounted(c, e) /\ e <= persisted

OffsetsAreAppended == \A c \in Consumers, t \in Topics : offsets[c][t] <= persisted

LossInv ==
    /\ PullInv
    /\ NoSilentLoss
    /\ HandedIsDense
    /\ HandedIsOnRecord
    /\ OffsetsAreAppended

-----------------------------------------------------------------------------
(* Pages.                                                                   *)

\* An event of a topic is listed under the topic's domain.
LEMMA MatchIsListed ==
    ASSUME StoreInv, NEW t \in Topics, NEW e \in Retained, Matches(e, t)
    PROVE  DomainOfTopic(t) \in Keys /\ e \in Listed(DomainOfTopic(t))
<1>1. e \in 1..persisted /\ persisted \in 0..Len(appended) /\ Len(appended) \in Nat
  BY ElementOfSeq, LenProperties DEF StoreInv, StoreTypeOK, Retained
<1>2. appended[e] \in Envelope
  BY <1>1, ElementOfSeq DEF StoreInv, StoreTypeOK
<1>3. DomainOfTopic(t) = DomainOf[appended[e].event_type]
  BY DEF Matches, DomainOfTopic, Topics
<1>4. DomainOfTopic(t) \in Domains /\ DomainOfTopic(t) # NoAggregate
  BY <1>2, <1>3, EventTypesAssumption, KeysAssumption DEF Envelope
<1>5. DomainOfTopic(t) \in KeysOf(e) /\ DomainOfTopic(t) \in Keys
  BY <1>3, <1>4 DEF KeysOf, Keys
<1> QED
  BY <1>5 DEF StoreInv, IndexAgreesWithLog

\* Two topics a consumer polls never cover the same event.
LEMMA OneTopicPerEvent ==
    ASSUME TopicsDontOverlap, StoreInv, NEW c \in Consumers, NEW t \in PolledTopics(c),
           NEW u \in PolledTopics(c), NEW e, Matches(e, t), Matches(e, u)
    PROVE  t = u
<1>1. t \in Topics /\ u \in Topics
  BY PullAssumption, ElementOfSeq DEF PolledTopics
<1>2. /\ t \notin Domains => t = appended[e].event_type
      /\ t \in Domains => t = DomainOf[appended[e].event_type]
      /\ u \notin Domains => u = appended[e].event_type
      /\ u \in Domains => u = DomainOf[appended[e].event_type]
  BY DEF Matches
<1> QED
  BY <1>1, <1>2 DEF TopicsDontOverlap, DomainOfTopic

\* A response has no holes: what is behind one of its events, in the topic and
\* after both the offset and any seek, is in it too (pullEvents()).
LEMMA ResponseHasNoHoles ==
    ASSUME TopicsDontOverlap, ~ClockStepsBack, TypeOK, StoreInv, NEW c \in Consumers,
           NEW from \in Nat, NEW S \in SUBSET Found(c, from),
           IsResponse(Found(c, from), S),
           NEW t \in PolledTopics(c), NEW g \in IdsOf(S), NEW e \in Retained,
           Matches(e, t), Matches(g, t), e < g,
           (IF from # 0 THEN from ELSE offsets[c][t]) < e
    PROVE  e \in IdsOf(S)
<1> DEFINE after == IF from # 0 THEN from ELSE offsets[c][t]
           page == RawPage(c, t, from)
<1>1. PICK x \in S : g = x[3]
  BY DEF IdsOf
<1>2. /\ x \in (1..Len(Polled[c])) \X (Nat \ {0}) \X Retained
      /\ x[2] \in 1..Len(RawPage(c, Polled[c][x[1]], from))
      /\ RawPage(c, Polled[c][x[1]], from)[x[2]] = x[3]
      /\ Matches(x[3], Polled[c][x[1]])
  BY FoundHits
<1>3. x[1] \in 1..Len(Polled[c]) /\ x[2] \in Nat \ {0} /\ g \in Retained
  BY <1>1, <1>2
<1>4. Polled[c][x[1]] = t
  <2>1. Polled[c][x[1]] \in PolledTopics(c)
    BY <1>3 DEF PolledTopics
  <2> QED
    BY <2>1, <1>1, <1>2, OneTopicPerEvent
<1>5. t \in Topics
  BY PullAssumption, ElementOfSeq DEF PolledTopics
<1>6. BatchSize \in Nat \ {0} /\ after \in Nat /\ x[2] \in Nat \ {0}
  BY <1>3, <1>5, PullAssumption, BoundsAssumption DEF TypeOK
<1>7. PICK m \in 1..(x[2] - 1) : page[m] = e
  <2> DEFINE k == DomainOfTopic(t)
  <2>1. page = GetByKey(k, after, BatchSize)
    BY DEF RawPage
  <2>2. k \in Keys /\ e \in Listed(k)
    BY <1>5, MatchIsListed
  <2>3. x[2] \in 1..Len(page) /\ page[x[2]] = g
    BY <1>1, <1>2, <1>4
  <2> HIDE DEF page, k, after
  <2> QED
    BY <2>1, <2>2, <2>3, <1>6, PageIsGapless DEF after
<1> DEFINE y == <<x[1], m, e>>
<1>8. y \in Found(c, from)
  <2>1. m \in 1..Len(page)
    BY <1>2, <1>4, <1>6
  <2>2. y \in Hits(c, x[1], page)
    BY <2>1, <1>4, <1>7 DEF Hits
  <2> QED
    BY <2>2, <1>3, <1>4 DEF Found
<1>9. appended[e].sequence <= appended[g].sequence
      /\ appended[e].sequence \in Nat /\ appended[g].sequence \in Nat
  <2>1. Retained \subseteq 1..persisted /\ persisted \in 0..Len(appended) /\ Len(appended) \in Nat
    BY ElementOfSeq, LenProperties DEF StoreInv, StoreTypeOK, Retained
  <2>2. e \in 1..Len(appended) /\ g \in 1..Len(appended)
    BY <2>1, <1>3
  <2>3. appended[e] \in Envelope /\ appended[g] \in Envelope
    BY <2>2, ElementOfSeq DEF StoreInv, StoreTypeOK
  <2> QED
    BY <2>2, <2>3 DEF StoreInv, StampsAscend, Envelope
<1>10. ~Before(x, y)
  <2>1. ~(x[2] < m)
    BY <1>6
  <2> QED
    BY <2>1, <1>1, <1>3, <1>9 DEF Before
<1>11. y \in S
  BY <1>8, <1>10 DEF IsResponse
<1> QED
  BY <1>11 DEF IdsOf

-----------------------------------------------------------------------------
(* The invariant, action by action.                                         *)

\* What is on record stays on record.
LEMMA AccountedStays ==
    ASSUME PullInv, PullInv', [Next]_vars, NEW c \in Consumers, NEW e \in 1..MaxAppends,
           Accounted(c, e)
    PROVE  Accounted(c, e)'
<1> DEFINE d == <<c, e>>
           failed == {x \in Deliveries : HasEntry(x)}
<1>1. [Contract!ContractNext]_Contract!contractVars
  BY StepKeepsContract
<1>2. /\ pendingDeliveries \ pendingDeliveries' \subseteq failed' \cup acked'
      /\ failed \subseteq failed' /\ acked \subseteq acked'
  BY <1>1 DEF Contract!ContractNext, Contract!contractVars
<1>3. d \in Deliveries
  BY PullAssumption
<1>4. d \in acked \cup pendingDeliveries \/ d \in failed
  BY <1>3 DEF Accounted
<1>5. d \in acked' \cup pendingDeliveries' \/ d \in failed'
  BY <1>2, <1>4
<1> QED
  BY <1>5 DEF Accounted

LEMMA BoundsOfIds ==
    ASSUME StoreTypeOK
    PROVE  /\ persisted \in Nat /\ 1..persisted \subseteq 1..MaxAppends
           /\ 1..persisted \subseteq 1..Len(appended)
           /\ Retained \subseteq 1..persisted
           /\ acknowledged \subseteq 1..persisted
<1>1. /\ Len(appended) \in Nat /\ persisted \in 0..Len(appended)
      /\ Len(appended) <= MaxAppends /\ MaxAppends \in Nat
  BY LenProperties, BoundsAssumption DEF StoreTypeOK
<1> QED
  BY <1>1, ElementOfSeq DEF StoreTypeOK, Retained

LEMMA LossInitHolds == Init => LossInv
<1> SUFFICES ASSUME Init PROVE LossInv
  OBVIOUS
<1>1. PullInv
  BY PullInitHolds
<1>2. Retained = {}
  BY DEF Init, StoreInit, Retained
<1>3. NoSilentLoss /\ HandedIsDense
  BY <1>2 DEF NoSilentLoss, HandedIsDense
<1>4. HandedIsOnRecord /\ OffsetsAreAppended
  BY DEF Init, StoreInit, HandedIsOnRecord, OffsetsAreAppended
<1> QED
  BY <1>1, <1>3, <1>4 DEF LossInv

\* A step that moves no offset and hands nothing out keeps the invariant,
\* whatever timers and entries it changes.
LEMMA QuietKeeps ==
    ASSUME LossInv, PullInv', [Next]_vars,
           UNCHANGED <<appended, persisted, eventOrder, offsets, skipTo, handedOut, acked>>,
           \A c \in Consumers : held'[c] \subseteq held[c]
    PROVE  LossInv'
<1>1. /\ Retained' = Retained
      /\ \A e, t : Matches(e, t)' <=> Matches(e, t)
  BY DEF Retained, Matches
<1>2. /\ StoreTypeOK /\ PullInv
      /\ persisted \in Nat /\ 1..persisted \subseteq 1..MaxAppends
      /\ Retained \subseteq 1..persisted
  BY BoundsOfIds DEF LossInv, PullInv, TypeOK
<1>3. NoSilentLoss'
  BY <1>1, <1>2, AccountedStays DEF LossInv, NoSilentLoss
<1>4. HandedIsDense'
  BY <1>1, <1>2, AccountedStays DEF LossInv, HandedIsDense
<1>5. HandedIsOnRecord' /\ OffsetsAreAppended'
  BY <1>2, AccountedStays DEF LossInv, HandedIsOnRecord, OffsetsAreAppended
<1> QED
  BY <1>3, <1>4, <1>5 DEF LossInv

LEMMA PublishKeepsLoss ==
    ASSUME LossInv, PullInv', [Next]_vars, Publish
    PROVE  LossInv'
<1>1. UNCHANGED <<dlq, offsets, pendingDeliveries, held, handedOut, acked, skipTo>>
  BY DEF Publish, managerVars, clientVars
<1>2. /\ StoreTypeOK /\ StoreTypeOK' /\ PullInv
      /\ persisted \in Nat /\ 1..persisted \subseteq 1..MaxAppends
      /\ 1..persisted \subseteq 1..Len(appended) /\ Retained \subseteq 1..persisted
  BY BoundsOfIds DEF LossInv, PullInv, TypeOK
<1>3. persisted' \in Nat /\ persisted <= persisted' /\ 1..persisted' \subseteq 1..MaxAppends
  <2>1. persisted' = persisted \/ persisted' = persisted + 1
    BY DEF Publish, AppendCall, Persist, Tick
  <2>2. Len(appended') \in Nat /\ persisted' \in 0..Len(appended') /\ Len(appended') <= MaxAppends
    BY <1>2, LenProperties DEF StoreTypeOK
  <2> QED
    BY <2>1, <2>2, <1>2, BoundsAssumption
<1>4. \A e \in 1..persisted : \A t : Matches(e, t)' <=> Matches(e, t)
  <2>1. CASE UNCHANGED appended
    BY <2>1 DEF Matches
  <2>2. CASE \E env : appended' = Append(appended, env)
    <3>1. \A e \in 1..Len(appended) : appended'[e] = appended[e]
      BY <2>2, <1>2, LenProperties DEF StoreTypeOK
    <3> QED
      BY <3>1, <1>2 DEF Matches
  <2> QED
    BY <2>1, <2>2 DEF Publish, AppendCall, Persist, Tick
<1>5. \A e \in Retained' : e \in 1..persisted => e \in Retained
  <2>1. CASE UNCHANGED eventOrder
    BY <2>1 DEF Retained
  <2>2. CASE Persist
    <3> DEFINE order == Append(eventOrder, persisted + 1)
    <3>1. eventOrder' = order \/ eventOrder' = Tail(order)
      BY <2>2 DEF Persist
    <3>2. eventOrder \in Seq(Nat) /\ persisted + 1 \in Nat
      <4>1. 1..persisted \subseteq Nat
        BY <1>2
      <4> QED
        BY <4>1, <1>2, SeqMonotonic DEF StoreTypeOK
    <3>3. /\ order \in Seq(Nat) /\ order # <<>> /\ Len(order) = Len(eventOrder) + 1
          /\ \A i \in 1..Len(eventOrder) : order[i] = eventOrder[i]
          /\ order[Len(eventOrder) + 1] = persisted + 1
      BY <3>2, AppendProperties
    <3>4. Len(eventOrder) \in Nat
      BY <3>2, LenProperties
    <3> HIDE DEF order
    <3>5. /\ Len(Tail(order)) = Len(order) - 1
          /\ \A i \in 1..Len(Tail(order)) : Tail(order)[i] = order[i + 1]
      BY <3>3, HeadTailProperties
    <3>6. \A i \in 1..Len(order) : order[i] = persisted + 1 \/ order[i] \in Retained
      <4> SUFFICES ASSUME NEW i \in 1..Len(order), i # Len(eventOrder) + 1
                   PROVE  order[i] \in Retained
        BY <3>3
      <4>1. i \in 1..Len(eventOrder)
        BY <3>3, <3>4
      <4> QED
        BY <4>1, <3>3 DEF Retained
    <3>7. \A i \in 1..Len(eventOrder') :
              eventOrder'[i] = persisted + 1 \/ eventOrder'[i] \in Retained
      <4>1. CASE eventOrder' = order
        BY <4>1, <3>6
      <4>2. CASE eventOrder' = Tail(order)
        <5>1. \A i \in 1..Len(Tail(order)) : i + 1 \in 1..Len(order)
          BY <3>3, <3>4, <3>5
        <5> QED
          BY <5>1, <4>2, <3>5, <3>6
      <4> QED
        BY <4>1, <4>2, <3>1
    <3>8. persisted + 1 \notin 1..persisted
      BY <1>2
    <3> QED
      BY <3>7, <3>8 DEF Retained
  <2> QED
    BY <2>1, <2>2 DEF Publish, AppendCall, Tick
<1>6. \A c \in Consumers, t \in Topics : offsets[c][t] <= persisted /\ offsets[c][t] \in Nat
  BY BoundsAssumption DEF LossInv, OffsetsAreAppended, PullInv, TypeOK
<1>7. \A c \in Consumers : PolledTopics(c) \subseteq Topics
  BY PullAssumption, ElementOfSeq DEF PolledTopics
<1>8. NoSilentLoss'
  <2> SUFFICES ASSUME NEW c \in Consumers, NEW t \in PolledTopics(c), NEW e \in Retained',
                      Matches(e, t)', skipTo[c][t] < e, e <= offsets[c][t]
               PROVE  Accounted(c, e)'
    BY <1>1 DEF NoSilentLoss, PolledTopics
  <2>1. e \in 1..persisted' 
    BY <1>2, BoundsOfIds DEF StoreTypeOK, Retained
  <2>2. e \in 1..persisted
    BY <2>1, <1>2, <1>3, <1>6, <1>7
  <2>3. e \in Retained /\ Matches(e, t)
    BY <2>2, <1>4, <1>5
  <2> QED
    BY <2>2, <2>3, <1>2, AccountedStays DEF LossInv, NoSilentLoss
<1>9. HandedIsDense'
  <2> SUFFICES ASSUME NEW c \in Consumers, NEW t \in PolledTopics(c),
                      NEW e \in 1..persisted', NEW g \in 1..persisted',
                      e \in Retained', <<c, g>> \in handedOut,
                      Matches(e, t)', Matches(g, t)', skipTo[c][t] < e, e < g
               PROVE  Accounted(c, e)'
    BY <1>1 DEF HandedIsDense, PolledTopics
  <2>1. g \in 1..persisted /\ e \in 1..persisted
    BY <1>2, <1>3 DEF LossInv, HandedIsOnRecord
  <2>2. e \in Retained /\ Matches(e, t) /\ Matches(g, t)
    BY <2>1, <1>4, <1>5
  <2> QED
    BY <2>1, <2>2, <1>2, AccountedStays DEF LossInv, HandedIsDense
<1>10. HandedIsOnRecord'
  BY <1>1, <1>2, <1>3, AccountedStays DEF LossInv, HandedIsOnRecord
<1>11. OffsetsAreAppended'
  BY <1>1, <1>2, <1>3, <1>6 DEF OffsetsAreAppended
<1> QED
  BY <1>8, <1>9, <1>10, <1>11 DEF LossInv

LEMMA SubscribeKeepsLoss ==
    ASSUME LossInv, PullInv', [Next]_vars, NEW c \in Consumers, NEW from \in acknowledged,
           Subscribe(c, from)
    PROVE  LossInv'
<1>1. /\ offsets' = [offsets EXCEPT ![c] =
                        [t \in Topics |-> IF t \in PolledTopics(c) THEN from ELSE @[t]]]
      /\ skipTo' = Sought(c, from)
      /\ UNCHANGED <<storeVars, dlq, pendingDeliveries, held, handedOut, acked>>
  BY DEF Subscribe
<1>2. /\ Retained' = Retained /\ persisted' = persisted
      /\ \A e, t : Matches(e, t)' <=> Matches(e, t)
      /\ \A x, e : Accounted(x, e)' <=> Accounted(x, e)
  BY <1>1 DEF Retained, Matches, Accounted, HasEntry, storeVars
<1>3. /\ persisted \in Nat /\ from \in 1..persisted /\ Retained \subseteq 1..persisted
  BY BoundsOfIds DEF LossInv, PullInv, TypeOK
<1>4. \A x \in Consumers : \A t \in PolledTopics(x) :
          /\ t \in Topics
          /\ skipTo[x][t] \in Nat /\ offsets[x][t] \in Nat
          /\ x # c => offsets'[x][t] = offsets[x][t] /\ skipTo'[x][t] = skipTo[x][t]
          /\ x = c => /\ offsets'[x][t] = from
                      /\ skipTo'[x][t] = IF from > offsets[x][t] /\ from > skipTo[x][t]
                                         THEN from ELSE skipTo[x][t]
  <2> SUFFICES ASSUME NEW x \in Consumers, NEW t \in PolledTopics(x)
               PROVE  /\ t \in Topics
                      /\ skipTo[x][t] \in Nat /\ offsets[x][t] \in Nat
                      /\ x # c => offsets'[x][t] = offsets[x][t] /\ skipTo'[x][t] = skipTo[x][t]
                      /\ x = c => /\ offsets'[x][t] = from
                                  /\ skipTo'[x][t] =
                                       IF from > offsets[x][t] /\ from > skipTo[x][t]
                                       THEN from ELSE skipTo[x][t]
    OBVIOUS
  <2>1. t \in Topics
    BY PullAssumption, ElementOfSeq DEF PolledTopics
  <2>2. /\ offsets \in [Consumers -> [Topics -> 0..MaxAppends]]
        /\ skipTo \in [Consumers -> [Topics -> 0..MaxAppends]]
    BY DEF LossInv, PullInv, TypeOK
  <2> QED
    BY <2>1, <2>2, <1>1, BoundsAssumption DEF Sought
<1>5. NoSilentLoss'
  <2> SUFFICES ASSUME NEW x \in Consumers, NEW t \in PolledTopics(x), NEW e \in Retained,
                      Matches(e, t), skipTo'[x][t] < e, e <= offsets'[x][t]
               PROVE  Accounted(x, e)
    BY <1>2 DEF NoSilentLoss, PolledTopics
  <2>1. skipTo[x][t] < e /\ e <= offsets[x][t]
    BY <1>3, <1>4
  <2> QED
    BY <2>1 DEF LossInv, NoSilentLoss
<1>6. HandedIsDense'
  <2> SUFFICES ASSUME NEW x \in Consumers, NEW t \in PolledTopics(x),
                      NEW e \in 1..persisted, NEW g \in 1..persisted,
                      e \in Retained, <<x, g>> \in handedOut,
                      Matches(e, t), Matches(g, t), skipTo'[x][t] < e, e < g
               PROVE  Accounted(x, e)
    BY <1>1, <1>2 DEF HandedIsDense, PolledTopics
  <2>1. skipTo[x][t] < e
    BY <1>3, <1>4
  <2> QED
    BY <2>1 DEF LossInv, HandedIsDense
<1>7. HandedIsOnRecord'
  BY <1>1, <1>2 DEF LossInv, HandedIsOnRecord
<1>8. OffsetsAreAppended'
  <2> SUFFICES ASSUME NEW x \in Consumers, NEW t \in Topics
               PROVE  offsets'[x][t] <= persisted
    BY <1>2 DEF OffsetsAreAppended
  <2>1. offsets \in [Consumers -> [Topics -> 0..MaxAppends]] /\ offsets[x][t] <= persisted
    BY DEF LossInv, OffsetsAreAppended, PullInv, TypeOK
  <2> QED
    BY <2>1, <1>1, <1>3
<1> QED
  BY <1>5, <1>6, <1>7, <1>8 DEF LossInv

LEMMA PullKeepsLoss ==
    ASSUME TopicsDontOverlap, ~ClockStepsBack, LossInv, PullInv', [Next]_vars,
           NEW c \in Consumers, NEW from \in acknowledged \cup {0}, Pull(c, from)
    PROVE  LossInv'
<1>1. /\ skipTo' = Sought(c, from)
      /\ UNCHANGED <<storeVars, dlq, offsets, acked>>
  BY DEF Pull
<1>2. PICK S \in SUBSET Found(c, from) :
        /\ IsResponse(Found(c, from), S)
        /\ pendingDeliveries' = pendingDeliveries \cup ({c} \X IdsOf(S))
        /\ held' = [held EXCEPT ![c] = @ \cup IdsOf(S)]
        /\ handedOut' = handedOut \cup ({c} \X IdsOf(S))
  BY DEF Pull
<1>3. /\ Retained' = Retained /\ persisted' = persisted
      /\ \A e, t : Matches(e, t)' <=> Matches(e, t)
      /\ \A x, e : Accounted(x, e) => Accounted(x, e)'
      /\ \A e \in IdsOf(S) : Accounted(c, e)'
  BY <1>1, <1>2 DEF Retained, Matches, Accounted, HasEntry, storeVars
<1>4. /\ TypeOK /\ StoreInv
      /\ persisted \in Nat /\ from \in Nat /\ Retained \subseteq 1..persisted
      /\ 1..persisted \subseteq 1..MaxAppends
  BY BoundsOfIds DEF LossInv, PullInv, TypeOK
<1>5. \A x \in Consumers : \A t \in PolledTopics(x) :
          /\ skipTo[x][t] \in Nat /\ offsets[x][t] \in Nat
          /\ skipTo'[x][t] \in Nat
          /\ skipTo[x][t] <= skipTo'[x][t]
          /\ x = c => from <= offsets[x][t] \/ from <= skipTo'[x][t]
  <2> SUFFICES ASSUME NEW x \in Consumers, NEW t \in PolledTopics(x)
               PROVE  /\ skipTo[x][t] \in Nat /\ offsets[x][t] \in Nat
                      /\ skipTo'[x][t] \in Nat
                      /\ skipTo[x][t] <= skipTo'[x][t]
                      /\ x = c => from <= offsets[x][t] \/ from <= skipTo'[x][t]
    OBVIOUS
  <2>1. t \in Topics
    BY PullAssumption, ElementOfSeq DEF PolledTopics
  <2>2. /\ offsets \in [Consumers -> [Topics -> 0..MaxAppends]]
        /\ skipTo \in [Consumers -> [Topics -> 0..MaxAppends]]
    BY <1>4 DEF TypeOK
  <2>3. skipTo'[x][t] = IF x = c /\ from > offsets[x][t] /\ from > skipTo[x][t]
                        THEN from ELSE skipTo[x][t]
    BY <2>1, <2>2, <1>1 DEF Sought
  <2>4. skipTo[x][t] \in Nat /\ offsets[x][t] \in Nat
    BY <2>1, <2>2, BoundsAssumption
  <2> QED
    BY <2>3, <2>4, <1>4
<1>6. NoSilentLoss'
  <2> SUFFICES ASSUME NEW x \in Consumers, NEW t \in PolledTopics(x), NEW e \in Retained,
                      Matches(e, t), skipTo'[x][t] < e, e <= offsets[x][t]
               PROVE  Accounted(x, e)'
    BY <1>1, <1>3 DEF NoSilentLoss, PolledTopics
  <2>1. skipTo'[x][t] \in Nat
    BY <1>5
  <2>2. skipTo[x][t] < e
    BY <1>4, <1>5, <2>1
  <2> QED
    BY <2>2, <1>3 DEF LossInv, NoSilentLoss
<1>7. HandedIsDense'
  <2> SUFFICES ASSUME NEW x \in Consumers, NEW t \in PolledTopics(x),
                      NEW e \in 1..persisted, NEW g \in 1..persisted,
                      e \in Retained, <<x, g>> \in handedOut',
                      Matches(e, t), Matches(g, t), skipTo'[x][t] < e, e < g
               PROVE  Accounted(x, e)'
    BY <1>3 DEF HandedIsDense, PolledTopics
  <2>1. skipTo'[x][t] \in Nat
    BY <1>5
  <2>2. skipTo[x][t] < e
    BY <1>5, <2>1
  <2>3. CASE <<x, g>> \in handedOut
    BY <2>2, <2>3, <1>3 DEF LossInv, HandedIsDense
  <2>4. CASE x = c /\ g \in IdsOf(S)
    <3>1. CASE e <= offsets[c][t]
      BY <3>1, <2>2, <2>4, <1>3 DEF LossInv, NoSilentLoss
    <3>2. CASE offsets[c][t] < e
      <4>1. (IF from # 0 THEN from ELSE offsets[c][t]) < e
        BY <3>2, <2>1, <2>4, <1>4, <1>5
      <4>2. e \in IdsOf(S)
        BY <4>1, <2>4, <1>2, <1>4, ResponseHasNoHoles
      <4> QED
        BY <4>2, <2>4, <1>3
    <3> QED
      BY <3>1, <3>2, <2>4, <1>5
  <2> QED
    BY <2>3, <2>4, <1>2
<1>8. HandedIsOnRecord'
  <2>1. \A x \in Consumers : \A e \in held'[x] : <<x, e>> \in handedOut'
    BY <1>2, <1>4 DEF LossInv, HandedIsOnRecord, TypeOK
  <2>2. IdsOf(S) \subseteq Retained
    <3>1. \A x \in Found(c, from) : x[3] \in Retained
      BY <1>4, FoundHits
    <3> QED
      BY <3>1 DEF IdsOf
  <2>3. \A x \in Consumers, e \in 1..MaxAppends :
            <<x, e>> \in handedOut' => Accounted(x, e)' /\ e <= persisted
    BY <2>2, <1>2, <1>3, <1>4 DEF LossInv, HandedIsOnRecord
  <2> QED
    BY <2>1, <2>3, <1>1, <1>2, <1>3 DEF LossInv, HandedIsOnRecord
<1>9. OffsetsAreAppended'
  BY <1>1, <1>3 DEF LossInv, OffsetsAreAppended
<1> QED
  BY <1>6, <1>7, <1>8, <1>9 DEF LossInv

LEMMA AcknowledgeKeepsLoss ==
    ASSUME LossInv, PullInv', [Next]_vars, NEW c \in Consumers,
           NEW g \in 1..Len(appended), NEW u \in AckTopics,
           FirstAck(c, g, u) \/ RepeatedAck(c, g, u)
    PROVE  LossInv'
<1>1. /\ Matches(g, u)
      /\ offsets' = [offsets EXCEPT ![c][u] = g]
      /\ held' = [held EXCEPT ![c] = @ \ {g}]
      /\ acked' = acked \cup {<<c, g>>}
      /\ UNCHANGED <<storeVars, handedOut, skipTo>>
  BY DEF FirstAck, RepeatedAck, Acknowledge
<1>2. /\ Retained' = Retained /\ persisted' = persisted
      /\ \A e, t : Matches(e, t)' <=> Matches(e, t)
  BY <1>1 DEF Retained, Matches, storeVars
<1>3. /\ TypeOK /\ PullInv
      /\ persisted \in Nat /\ Retained \subseteq 1..persisted
      /\ 1..persisted \subseteq 1..MaxAppends
  BY BoundsOfIds DEF LossInv, PullInv, TypeOK
<1>4. g \in 1..MaxAppends /\ u \in Topics
  BY <1>3, IdsInBounds, PullAssumption DEF TypeOK
<1>5. <<c, g>> \in handedOut /\ g \in 1..persisted /\ Accounted(c, g)'
  <2>1. <<c, g>> \in handedOut
    BY DEF FirstAck, RepeatedAck, LossInv, HandedIsOnRecord
  <2>2. Accounted(c, g)'
    BY <1>1 DEF Accounted
  <2>3. g <= persisted
    BY <2>1, <1>4 DEF LossInv, HandedIsOnRecord
  <2> QED
    BY <2>1, <2>2, <2>3, <1>3, <1>4
<1>6. \A x \in Consumers, t \in Topics :
          offsets'[x][t] = IF x = c /\ t = u THEN g ELSE offsets[x][t]
  BY <1>1, <1>3 DEF TypeOK
<1>7. NoSilentLoss'
  <2> SUFFICES ASSUME NEW x \in Consumers, NEW t \in PolledTopics(x), NEW e \in Retained,
                      Matches(e, t), skipTo[x][t] < e, e <= offsets'[x][t]
               PROVE  Accounted(x, e)'
    BY <1>1, <1>2 DEF NoSilentLoss, PolledTopics
  <2>1. t \in Topics /\ e \in 1..persisted
    BY <1>3, PullAssumption, ElementOfSeq DEF PolledTopics
  <2>2. CASE x = c /\ t = u
    <3>1. e <= g
      BY <2>1, <2>2, <1>6
    <3>2. CASE e = g
      BY <3>2, <2>2, <1>5
    <3>3. CASE e < g
      <4>1. Accounted(c, e)
        BY <3>3, <2>1, <2>2, <1>1, <1>5 DEF LossInv, HandedIsDense
      <4> QED
        BY <4>1, <2>1, <2>2, <1>3, AccountedStays
    <3> QED
      BY <3>1, <3>2, <3>3, <2>1, <1>3
  <2>3. CASE ~(x = c /\ t = u)
    <3>1. Accounted(x, e)
      BY <2>1, <2>3, <1>6 DEF LossInv, NoSilentLoss
    <3> QED
      BY <3>1, <2>1, <1>3, AccountedStays
  <2> QED
    BY <2>2, <2>3
<1>8. HandedIsDense'
  BY <1>1, <1>2, <1>3, AccountedStays DEF LossInv, HandedIsDense
<1>9. HandedIsOnRecord'
  <2>1. \A x \in Consumers : \A e \in held'[x] : <<x, e>> \in handedOut
    BY <1>1, <1>3 DEF LossInv, HandedIsOnRecord, TypeOK
  <2>2. \A x \in Consumers, e \in 1..MaxAppends :
            <<x, e>> \in handedOut => Accounted(x, e)' /\ e <= persisted
    BY <1>3, AccountedStays DEF LossInv, HandedIsOnRecord
  <2> QED
    BY <2>1, <2>2, <1>1, <1>2, <1>5 DEF LossInv, HandedIsOnRecord
<1>10. OffsetsAreAppended'
  BY <1>2, <1>5, <1>6 DEF LossInv, OffsetsAreAppended
<1> QED
  BY <1>7, <1>8, <1>9, <1>10 DEF LossInv

LEMMA LossStepKeeps ==
    ASSUME TopicsDontOverlap, ~ClockStepsBack, LossInv, [Next]_vars
    PROVE  LossInv'
<1>1. PullInv'
  BY PullStepKeeps DEF LossInv
<1>2. CASE Publish
  BY <1>1, <1>2, PublishKeepsLoss
<1>3. CASE \E c \in Consumers, from \in acknowledged : Subscribe(c, from)
  BY <1>1, <1>3, SubscribeKeepsLoss
<1>4. CASE \E c \in Consumers, from \in acknowledged \cup {0} : Pull(c, from)
  BY <1>1, <1>4, PullKeepsLoss
<1>5. CASE \E c \in Consumers, e \in 1..Len(appended), t \in AckTopics :
             FirstAck(c, e, t) \/ RepeatedAck(c, e, t)
  BY <1>1, <1>5, AcknowledgeKeepsLoss
<1>6. CASE \/ UNCHANGED vars
           \/ \E d \in pendingDeliveries : AckTimeout(d)
           \/ \E c \in Consumers : \/ Register(c)
                                   \/ \E how \in {"inactive", "removed"} : Leave(c, how)
           \/ \E c \in Consumers, e \in 1..Len(appended) : NegativeAck(c, e)
  <2>1. UNCHANGED <<appended, persisted, eventOrder, offsets, skipTo, handedOut, acked>>
    BY <1>6 DEF vars, storeVars, managerVars, clientVars, AckTimeout, Register, Leave,
                NegativeAck
  <2>2. \A c \in Consumers : held'[c] \subseteq held[c]
    BY <1>6 DEF vars, clientVars, AckTimeout, Register, Leave, NegativeAck, LossInv,
                PullInv, TypeOK
  <2> QED
    BY <2>1, <2>2, <1>1, QuietKeeps
<1> QED
  BY <1>2, <1>3, <1>4, <1>5, <1>6, StepCases

\* No event disappears: one an offset has moved past was acknowledged, still
\* has its timer, or has an entry, through acks out of order, late or repeated,
\* nacks, timeouts, seeks and evictions, as long as the clock is not set back
\* (pullEvents(), acknowledge()).
THEOREM NothingIsLostSilently ==
    ASSUME TopicsDontOverlap, ~ClockStepsBack
    PROVE  Spec => []NoSilentLoss
<1>1. Init => LossInv
  BY LossInitHolds
<1>2. LossInv /\ [Next]_vars => LossInv'
  BY LossStepKeeps
<1>3. LossInv => NoSilentLoss
  BY DEF LossInv
<1> QED
  BY <1>1, <1>2, <1>3, PTL DEF Spec

\* A response has no holes, as long as the clock is not set back (pullEvents(),
\* getByDomain()).
THEOREM ResponsesHaveNoHoles ==
    ASSUME TopicsDontOverlap, ~ClockStepsBack
    PROVE  Spec => BatchHasNoHoles
<1> DEFINE NoHoles ==
        \A c \in Consumers : batch'[c] # batch[c] => \A t \in PolledTopics(c) :
          LET got == IdsOf(batch'[c])
          IN  \A e \in Retained, g \in got :
                (/\ Matches(e, t) /\ Matches(g, t) /\ e < g
                 /\ offsets[c][t] < e /\ skipTo'[c][t] < e) => e \in got
<1>1. ASSUME PullInv, [Next]_vars PROVE [NoHoles]_vars
  <2> SUFFICES ASSUME NEW c \in Consumers, batch'[c] # batch[c], NEW t \in PolledTopics(c),
                      NEW e \in Retained, NEW g \in IdsOf(batch'[c]),
                      Matches(e, t), Matches(g, t), e < g,
                      offsets[c][t] < e, skipTo'[c][t] < e
               PROVE  e \in IdsOf(batch'[c])
    OBVIOUS
  <2>1. \E x \in Consumers, from \in acknowledged \cup {0} : Pull(x, from)
    BY <1>1, StepCases
    DEF vars, clientVars, Publish, AckTimeout, Register, Subscribe, Leave, NegativeAck,
        FirstAck, RepeatedAck, Acknowledge
  <2>2. PICK x \in Consumers, from \in acknowledged \cup {0} : Pull(x, from)
    BY <2>1
  <2>3. PICK S \in SUBSET Found(x, from) :
            IsResponse(Found(x, from), S) /\ batch' = [batch EXCEPT ![x] = S]
    BY <2>2 DEF Pull
  <2>4. /\ TypeOK /\ StoreInv /\ from \in Nat /\ Retained \subseteq 1..persisted
    BY <1>1, BoundsOfIds DEF PullInv, TypeOK
  <2>5. x = c /\ batch'[c] = S
    BY <2>3, <2>4 DEF TypeOK
  <2>6. t \in Topics
    BY PullAssumption, ElementOfSeq DEF PolledTopics
  <2>7. from <= offsets[c][t] \/ from <= skipTo'[c][t]
    <3>1. /\ offsets \in [Consumers -> [Topics -> 0..MaxAppends]]
          /\ skipTo \in [Consumers -> [Topics -> 0..MaxAppends]]
      BY <2>4 DEF TypeOK
    <3>2. skipTo'[c][t] = IF from > offsets[c][t] /\ from > skipTo[c][t]
                          THEN from ELSE skipTo[c][t]
      BY <3>1, <2>2, <2>5, <2>6 DEF Pull, Sought
    <3>3. offsets[c][t] \in Nat /\ skipTo[c][t] \in Nat
      BY <3>1, <2>6, BoundsAssumption
    <3> QED
      BY <3>2, <3>3, <2>4
  <2>8. (IF from # 0 THEN from ELSE offsets[c][t]) < e
    <3>1. PullInv'
      BY <1>1, PullStepKeeps
    <3>2. offsets[c][t] \in Int /\ skipTo'[c][t] \in Int
      BY <3>1, <2>4, <2>6, BoundsAssumption DEF PullInv, TypeOK
    <3> QED
      BY <3>2, <2>4, <2>7
  <2> QED
    BY <2>3, <2>4, <2>5, <2>8, ResponseHasNoHoles
<1> QED
  BY <1>1, PullInvariant, PTL DEF Spec, BatchHasNoHoles

=============================================================================
