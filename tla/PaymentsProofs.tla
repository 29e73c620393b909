--------------------------- MODULE PaymentsProofs ---------------------------
(***************************************************************************)
(* Theorems of Payments, for any keys, workers and bounds.  What a key     *)
(* promises depends on that key alone, so the invariant is one formula per *)
(* key; a step works on one key and leaves the others as they are.  The    *)
(* last section bounds the calls of an operation.                          *)
(***************************************************************************)
EXTENDS Payments, FiniteSetTheorems, TLAPS

Recording(k) == {w \in InFlight(k) : jobs[w].at = "ledger"}

\* Which operation can be at which stage, and who carries a header.
StageOK ==
    \A w \in Workers : Busy(w) =>
      /\ jobs[w].at = "gateway" => jobs[w].key \in GatewayCalls
      /\ jobs[w].at = "ledger" => jobs[w].key \notin BookingKeys
      /\ jobs[w].key \in Webhooks => jobs[w].key[2] \notin Unbooked
      /\ jobs[w].header # NoHeader =>
            jobs[w].at = "announce" /\ jobs[w].key \in BookingKeys

WebhookOnce(k) == Clear(k, {"overlap", "forgotten"}) =>
    /\ ledger[k] <= 1
    /\ \A v, w \in InFlight(k) : v = w
    /\ \A w \in InFlight(k) : k \notin marked /\ (jobs[w].at = "ledger" => ledger[k] = 0)
    /\ k \notin marked /\ InFlight(k) = {} => ledger[k] = 0

GatewayOnce(k) == Clear(k, {"overlap", "forgotten", "unheard"}) =>
    /\ made[k] <= 1
    /\ k \notin marked => made[k] = 0
    /\ \A v, w \in InFlight(k) : jobs[v].at = "gateway" /\ jobs[w].at = "gateway" => v = w
    /\ \A w \in InFlight(k) : jobs[w].at = "gateway" => k \notin marked

BookingOnce(k) == Clear(k, {"forgotten"}) =>
    made[k] <= 1 /\ (k \notin marked => made[k] = 0)

\* A movement is to be recorded for the webhook.
Charged(k) == k[1] = "captured" /\ AuditEnabled

WebhookDone(k) == k[2] \notin Unbooked /\ Clear(k, {"dropped"}) =>
    /\ k \in marked \cup answered => told[k] >= 1 /\ (Charged(k) => ledger[k] >= 1)
    /\ \A w \in InFlight(k) : jobs[w].at = "announce" /\ Charged(k) => ledger[k] >= 1

RefundRecorded(k) == AuditEnabled /\ Clear(k, {"forgotten", "unheard", "dropped"}) =>
    made[k] <= ledger[k] + Cardinality(Recording(k))

KeyOK(k) ==
    /\ k \in Webhooks => WebhookOnce(k) /\ WebhookDone(k)
    /\ k \in GatewayCalls => GatewayOnce(k)
    /\ k \in BookingKeys => BookingOnce(k)
    /\ k[1] = "refund" => RefundRecorded(k)

PaymentsInv == TypeOK /\ StageOK /\ ProcessingHasRequest /\ \A k \in Keys : KeyOK(k)

-----------------------------------------------------------------------------
LEMMA KeyKinds ==
    /\ Webhooks \subseteq Keys /\ GatewayCalls \subseteq Keys /\ BookingKeys \subseteq Keys
    /\ Webhooks \cap GatewayCalls = {} /\ Webhooks \cap BookingKeys = {}
    /\ GatewayCalls \cap BookingKeys = {}
    /\ \A k \in Webhooks : k[1] # "refund"
    /\ \A k \in BookingKeys : k[1] # "refund"
    /\ \A r \in Refunds : <<"refund", r>> \in GatewayCalls
  BY DEF Keys, Webhooks, GatewayCalls, BookingKeys

\* A step that leaves a key's records and its jobs alone leaves its promises
\* alone.
SameKey(k) ==
    /\ marked' \cap {k} = marked \cap {k} /\ answered' \cap {k} = answered \cap {k}
    /\ made'[k] = made[k] /\ ledger'[k] = ledger[k] /\ told'[k] = told[k]
    /\ faults'[k] = faults[k]
    /\ InFlight(k)' = InFlight(k)
    /\ \A w \in InFlight(k) : jobs'[w].at = jobs[w].at

LEMMA Untouched ==
    ASSUME NEW k \in Keys, KeyOK(k), SameKey(k)
    PROVE  KeyOK(k)'
<1>1. Recording(k)' = Recording(k)
  BY DEF SameKey, Recording
<1>2. (k \in marked' <=> k \in marked) /\ (k \in answered' <=> k \in answered)
  BY DEF SameKey
<1>3. WebhookOnce(k) => WebhookOnce(k)'
  BY <1>2 DEF SameKey, WebhookOnce, Clear
<1>4. WebhookDone(k) => WebhookDone(k)'
  BY <1>2 DEF SameKey, WebhookDone, Clear, Charged
<1>5. GatewayOnce(k) => GatewayOnce(k)'
  BY <1>2 DEF SameKey, GatewayOnce, Clear
<1>6. BookingOnce(k) => BookingOnce(k)'
  BY <1>2 DEF SameKey, BookingOnce, Clear
<1>7. RefundRecorded(k) => RefundRecorded(k)'
  BY <1>1 DEF SameKey, RefundRecorded, Clear
<1> QED
  BY <1>3, <1>4, <1>5, <1>6, <1>7 DEF KeyOK

\* A worker that takes up or puts down a job of one key is not seen by the
\* others.
LEMMA OtherKeys ==
    ASSUME NEW w \in Workers, NEW j, NEW k \in Keys, NEW x \in Keys \ {k}, TypeOK,
           jobs' = [jobs EXCEPT ![w] = j],
           ~Busy(w) \/ jobs[w].key = k,
           j = Free \/ (j.at # "free" /\ j.key = k)
    PROVE  InFlight(x)' = InFlight(x) /\ \A v \in InFlight(x) : jobs'[v].at = jobs[v].at
  BY DEF InFlight, Busy, Free, TypeOK

\* The same, for the key itself.
LEMMA OwnKey ==
    ASSUME NEW w \in Workers, NEW j, NEW k \in Keys, TypeOK,
           jobs' = [jobs EXCEPT ![w] = j],
           ~Busy(w) \/ jobs[w].key = k,
           j = Free \/ (j.at # "free" /\ j.key = k)
    PROVE  /\ InFlight(k)' = IF j = Free THEN InFlight(k) \ {w} ELSE InFlight(k) \cup {w}
           /\ jobs'[w] = j
           /\ \A v \in Workers \ {w} : jobs'[v] = jobs[v]
           /\ Recording(k)' = IF j = Free \/ j.at # "ledger" THEN Recording(k) \ {w}
                              ELSE Recording(k) \cup {w}
  BY DEF InFlight, Recording, Busy, Free, TypeOK

LEMMA RecordingFinite ==
    ASSUME NEW k, NEW w \in Workers
    PROVE  /\ IsFiniteSet(Recording(k)) /\ Cardinality(Recording(k)) \in Nat
           /\ Cardinality(Recording(k) \cup {w}) =
                 IF w \in Recording(k) THEN Cardinality(Recording(k))
                 ELSE Cardinality(Recording(k)) + 1
           /\ Cardinality(Recording(k) \ {w}) =
                 IF w \in Recording(k) THEN Cardinality(Recording(k)) - 1
                 ELSE Cardinality(Recording(k))
<1>1. IsFiniteSet(Recording(k))
  BY PaymentsAssumption, FS_Subset DEF Recording, InFlight
<1> QED
  BY <1>1, FS_CardinalityType, FS_AddElement, FS_RemoveElement

-----------------------------------------------------------------------------
(* The steps. *)

\* Called() only counts.
LEMMA CalledTypes ==
    ASSUME TypeOK, NEW k \in Keys, Called(k)
    PROVE  calls' \in [Keys -> 0..MaxCalls]
<1>1. calls[k] \in 0..MaxCalls /\ MaxCalls \in Nat
  BY PaymentsAssumption DEF TypeOK
<1> DEFINE n == IF calls[k] < MaxCalls THEN calls[k] + 1 ELSE calls[k]
<1>2. n \in 0..MaxCalls /\ calls' = [calls EXCEPT ![k] = n]
  BY <1>1 DEF Called
<1> HIDE DEF n
<1> QED
  BY <1>2 DEF TypeOK

\* What one more fault of a key does to the record of them.
LEMMA FaultTypes ==
    ASSUME TypeOK, NEW k \in Keys, NEW f \in Faults, NEW c \in BOOLEAN,
           faults' = [faults EXCEPT ![k] = IF c THEN @ \cup {f} ELSE @]
    PROVE  /\ faults' \in [Keys -> SUBSET Faults]
           /\ \A x \in Keys \ {k} : faults'[x] = faults[x]
           /\ faults'[k] = IF c THEN faults[k] \cup {f} ELSE faults[k]
  BY Zenon DEF TypeOK

\* A worker takes up, goes on with or puts down a job of key k: what holds
\* whatever the stage is.
Moves(w, k, j) ==
    /\ jobs' = [jobs EXCEPT ![w] = j]
    /\ ~Busy(w) \/ jobs[w].key = k
    /\ \/ j = Free
       \/ /\ j.at \in Stages /\ j.key = k
          /\ j \in [at : Stages, key : Keys, header : Headers \cup {NoHeader}]
          /\ j.at = "gateway" => k \in GatewayCalls
          /\ j.at = "ledger" => k \notin BookingKeys
          /\ k \in Webhooks => k[2] \notin Unbooked
          /\ j.header # NoHeader => j.at = "announce" /\ k \in BookingKeys

LEMMA MoveKeeps ==
    ASSUME TypeOK, StageOK, NEW w \in Workers, NEW k \in Keys, NEW j, Moves(w, k, j)
    PROVE  /\ jobs' \in [Workers -> {Free} \cup
                    [at : Stages, key : Keys, header : Headers \cup {NoHeader}]]
           /\ StageOK'
           /\ InFlight(k)' = IF j = Free THEN InFlight(k) \ {w} ELSE InFlight(k) \cup {w}
           /\ jobs'[w] = j
           /\ \A v \in Workers \ {w} : jobs'[v] = jobs[v]
           /\ Recording(k)' = IF j = Free \/ j.at # "ledger" THEN Recording(k) \ {w}
                              ELSE Recording(k) \cup {w}
           /\ \A x \in Keys \ {k} : InFlight(x)' = InFlight(x)
                 /\ \A v \in InFlight(x) : jobs'[v].at = jobs[v].at
           /\ InFlight(k) \subseteq Workers
           /\ (w \in InFlight(k) <=> Busy(w))
           /\ (w \in Recording(k) <=> jobs[w].at = "ledger")
<1>1. j = Free \/ (j.at # "free" /\ j.key = k)
  BY DEF Moves, Stages
<1>2. jobs' \in [Workers -> {Free} \cup
                    [at : Stages, key : Keys, header : Headers \cup {NoHeader}]]
  BY DEF Moves, TypeOK
<1>3. StageOK'
  BY DEF Moves, StageOK, Busy, TypeOK, Free, Stages
<1>4. /\ InFlight(k) \subseteq Workers
      /\ (w \in InFlight(k) <=> Busy(w))
      /\ (w \in Recording(k) <=> jobs[w].at = "ledger")
  BY DEF InFlight, Recording, Busy, Moves
<1>5. jobs' = [jobs EXCEPT ![w] = j] /\ (~Busy(w) \/ jobs[w].key = k)
  BY DEF Moves
<1>6. ASSUME NEW x \in Keys \ {k}
      PROVE  InFlight(x)' = InFlight(x) /\ \A v \in InFlight(x) : jobs'[v].at = jobs[v].at
  BY <1>1, <1>5, OtherKeys
<1>7. /\ InFlight(k)' = IF j = Free THEN InFlight(k) \ {w} ELSE InFlight(k) \cup {w}
      /\ jobs'[w] = j
      /\ \A v \in Workers \ {w} : jobs'[v] = jobs[v]
      /\ Recording(k)' = IF j = Free \/ j.at # "ledger" THEN Recording(k) \ {w}
                         ELSE Recording(k) \cup {w}
  BY <1>1, <1>5, OwnKey
<1> QED
  BY <1>2, <1>3, <1>4, <1>6, <1>7

\* A step that moves no job of a header keeps the headers' promise.
LEMMA HeadersKept ==
    ASSUME TypeOK, ProcessingHasRequest, cached' = cached, NEW w \in Workers, NEW j,
           jobs' = [jobs EXCEPT ![w] = j], Busy(w) => jobs[w].header = NoHeader
    PROVE  ProcessingHasRequest'
<1> SUFFICES ASSUME NEW h \in Headers, cached[h].status = "processing"
             PROVE  \E v \in InFlight(cached[h].key)' : jobs'[v].header = h
  BY DEF ProcessingHasRequest
<1>1. PICK v \in InFlight(cached[h].key) : jobs[v].header = h
  BY DEF ProcessingHasRequest
<1>2. v # w /\ v \in Workers
  BY <1>1, PaymentsAssumption DEF InFlight
<1> QED
  BY <1>1, <1>2 DEF InFlight, Busy, TypeOK

LEMMA ReceiveStep ==
    ASSUME PaymentsInv, NEW w \in Workers, NEW k \in Webhooks, ReceiveWebhook(w, k)
    PROVE  PaymentsInv'
<1> DEFINE j == Job(k, FirstStage(k), NoHeader)
<1>0. /\ TypeOK /\ StageOK /\ ProcessingHasRequest /\ KeyOK(k) /\ k \in Keys
      /\ k \notin GatewayCalls /\ k \notin BookingKeys /\ k[1] # "refund"
      /\ ~Busy(w) /\ Called(k)
      /\ UNCHANGED <<cached, made, ledger, told, losses>>
  BY KeyKinds DEF PaymentsInv, ReceiveWebhook, Delivers, effects
<1>1. CASE UNCHANGED <<marked, jobs, answered, faults>>
  <2>1. TypeOK'
    BY <1>0, <1>1, CalledTypes DEF TypeOK
  <2>2. StageOK' /\ ProcessingHasRequest'
    BY <1>0, <1>1 DEF StageOK, Busy, ProcessingHasRequest, InFlight
  <2>3. ASSUME NEW x \in Keys PROVE KeyOK(x)'
    BY <1>0, <1>1, Untouched DEF PaymentsInv, SameKey, InFlight, Busy
  <2> QED
    BY <2>1, <2>2, <2>3 DEF PaymentsInv
<1>2. CASE /\ k \in marked \/ k[2] \in Unbooked
           /\ marked' = marked \cup {k} /\ answered' = answered \cup {k}
           /\ UNCHANGED <<jobs, faults>>
  <2>1. TypeOK'
    BY <1>0, <1>2, CalledTypes DEF TypeOK
  <2>2. StageOK' /\ ProcessingHasRequest'
    BY <1>0, <1>2 DEF StageOK, Busy, ProcessingHasRequest, InFlight
  <2>3. ASSUME NEW x \in Keys \ {k} PROVE KeyOK(x)'
    BY <1>0, <1>2, Untouched DEF PaymentsInv, SameKey, InFlight, Busy
  <2>4. InFlight(k)' = InFlight(k) /\ (k[2] \in Unbooked => InFlight(k) = {})
    BY <1>0, <1>2 DEF StageOK, InFlight, Busy
  <2>5. WebhookOnce(k)'
    BY <1>0, <1>2, <2>4 DEF KeyOK, WebhookOnce, Clear
  <2>6. WebhookDone(k)'
    BY <1>0, <1>2, <2>4 DEF KeyOK, WebhookDone, Clear, Charged
  <2> QED
    BY <1>0, <2>1, <2>2, <2>3, <2>5, <2>6 DEF PaymentsInv, KeyOK
<1>3. CASE /\ k[2] \in Verified \ Unbooked /\ k \notin marked
           /\ jobs' = [jobs EXCEPT ![w] = j] /\ NoteOverlap(k)
           /\ UNCHANGED <<marked, answered>>
  <2>2. j.at \in {"ledger", "announce"} /\ j.key = k /\ j.header = NoHeader
        /\ j \in [at : Stages, key : Keys, header : Headers \cup {NoHeader}]
        /\ (Charged(k) => j.at = "ledger")
    BY <1>0 DEF Job, FirstStage, Stages, Charged
  <2>3. /\ faults' \in [Keys -> SUBSET Faults]
        /\ \A x \in Keys \ {k} : faults'[x] = faults[x]
        /\ faults'[k] = IF InFlight(k) # {} THEN faults[k] \cup {"overlap"} ELSE faults[k]
    BY <1>0, <1>3, FaultTypes DEF NoteOverlap, Faults
  <2>9. j # Free
    BY DEF Job, Free
  <2> HIDE DEF j
  <2>10. Moves(w, k, j)
    BY <1>0, <1>3, <2>2 DEF Moves, Stages
  <2>4. TypeOK'
    BY <1>0, <1>3, <2>10, <2>3, CalledTypes, MoveKeeps DEF TypeOK
  <2>5. StageOK'
    BY <1>0, <2>10, MoveKeeps
  <2>6. ProcessingHasRequest'
    BY <1>0, <1>3, HeadersKept
  <2>7. ASSUME NEW x \in Keys \ {k} PROVE KeyOK(x)'
    BY <1>0, <1>3, <2>3, <2>10, MoveKeeps, Untouched DEF PaymentsInv, SameKey
  <2>8. KeyOK(k)'
    <3>1. /\ InFlight(k)' = InFlight(k) \cup {w} /\ jobs'[w] = j
          /\ \A v \in Workers \ {w} : jobs'[v] = jobs[v]
      BY <1>0, <2>9, <2>10, MoveKeeps
    <3>2. InFlight(k) \subseteq Workers /\ w \notin InFlight(k)
      BY <1>0 DEF InFlight
    <3>3. WebhookOnce(k)'
      BY <1>0, <1>3, <2>2, <2>3, <3>1, <3>2 DEF KeyOK, WebhookOnce, Clear
    <3>4. WebhookDone(k)'
      BY <1>0, <1>3, <2>2, <2>3, <3>1, <3>2 DEF KeyOK, WebhookDone, Clear, Charged
    <3> QED
      BY <1>0, <3>3, <3>4 DEF KeyOK
  <2> QED
    BY <2>4, <2>5, <2>6, <2>7, <2>8 DEF PaymentsInv
<1> QED
  BY <1>1, <1>2, <1>3 DEF ReceiveWebhook

\* A fault that no promise of a key depends on.
LEMMA StopStep ==
    ASSUME PaymentsInv, NEW k \in Webhooks, GatewayStops(k)
    PROVE  PaymentsInv'
<1>0. /\ TypeOK /\ StageOK /\ ProcessingHasRequest /\ KeyOK(k) /\ k \in Keys
      /\ k \notin GatewayCalls /\ k \notin BookingKeys /\ k[1] # "refund"
      /\ faults' = [faults EXCEPT ![k] = @ \cup {"abandoned"}]
      /\ UNCHANGED <<marked, cached, jobs, calls, answered, made, ledger, told, losses>>
  BY KeyKinds DEF PaymentsInv, GatewayStops, effects
<1>1. /\ faults' \in [Keys -> SUBSET Faults]
      /\ \A x \in Keys \ {k} : faults'[x] = faults[x]
      /\ faults'[k] = faults[k] \cup {"abandoned"}
  BY <1>0 DEF TypeOK, Faults
<1>2. TypeOK'
  BY <1>0, <1>1 DEF TypeOK
<1>3. StageOK' /\ ProcessingHasRequest'
  BY <1>0 DEF StageOK, Busy, ProcessingHasRequest, InFlight
<1>4. ASSUME NEW x \in Keys \ {k} PROVE KeyOK(x)'
  BY <1>0, <1>1, Untouched DEF PaymentsInv, SameKey, InFlight, Busy
<1>5. InFlight(k)' = InFlight(k)
  BY <1>0 DEF InFlight, Busy
<1>6. WebhookOnce(k)'
  BY <1>0, <1>1, <1>5 DEF KeyOK, WebhookOnce, Clear
<1>7. WebhookDone(k)'
  BY <1>0, <1>1, <1>5 DEF KeyOK, WebhookDone, Clear, Charged
<1> QED
  BY <1>0, <1>2, <1>3, <1>4, <1>6, <1>7 DEF PaymentsInv, KeyOK

LEMMA CallStep ==
    ASSUME PaymentsInv, NEW w \in Workers, NEW k \in GatewayCalls, CallGateway(w, k)
    PROVE  PaymentsInv'
<1>0. /\ TypeOK /\ StageOK /\ ProcessingHasRequest /\ KeyOK(k) /\ k \in Keys
      /\ k \notin Webhooks /\ k \notin BookingKeys
      /\ ~Busy(w) /\ Called(k)
      /\ UNCHANGED <<marked, cached, answered, made, ledger, told, losses>>
  BY KeyKinds DEF PaymentsInv, CallGateway, effects
<1> DEFINE stage == IF k \in marked THEN AfterGateway(k) ELSE "gateway"
           j == Job(k, stage, NoHeader)
           c == k \notin marked /\ \E v \in InFlight(k) : jobs[v].at = "gateway"
<1>1. /\ jobs' = [jobs EXCEPT ![w] = j]
      /\ j.at \in Stages /\ j.key = k /\ j.header = NoHeader
      /\ j \in [at : Stages, key : Keys, header : Headers \cup {NoHeader}]
      /\ j.at = "gateway" <=> k \notin marked
      /\ j # Free
  BY <1>0 DEF CallGateway, Job, AfterGateway, Stages, Free
<1>2. /\ faults' \in [Keys -> SUBSET Faults]
      /\ \A x \in Keys \ {k} : faults'[x] = faults[x]
      /\ faults'[k] = IF c THEN faults[k] \cup {"overlap"} ELSE faults[k]
  <2>1. faults' = [faults EXCEPT ![k] = IF c THEN @ \cup {"overlap"} ELSE @]
    BY <1>0 DEF CallGateway, TypeOK
  <2>2. c \in BOOLEAN /\ "overlap" \in Faults
    BY DEF Faults
  <2> HIDE DEF c
  <2> QED
    BY <1>0, <2>1, <2>2, FaultTypes
<1> HIDE DEF j
<1>3. Moves(w, k, j)
  BY <1>0, <1>1 DEF Moves
<1>4. TypeOK'
  BY <1>0, <1>2, <1>3, CalledTypes, MoveKeeps DEF TypeOK
<1>5. StageOK' /\ ProcessingHasRequest'
  BY <1>0, <1>1, <1>3, MoveKeeps, HeadersKept
<1>7. ASSUME NEW x \in Keys \ {k} PROVE KeyOK(x)'
  BY <1>0, <1>2, <1>3, MoveKeeps, Untouched DEF PaymentsInv, SameKey
<1>8. KeyOK(k)'
  <2>1. /\ InFlight(k)' = InFlight(k) \cup {w} /\ jobs'[w] = j
        /\ \A v \in Workers \ {w} : jobs'[v] = jobs[v]
        /\ Recording(k)' = IF j.at = "ledger" THEN Recording(k) \cup {w} ELSE Recording(k) \ {w}
        /\ InFlight(k) \subseteq Workers /\ w \notin InFlight(k)
    BY <1>0, <1>1, <1>3, MoveKeeps
  <2>2. w \notin Recording(k)
    BY <2>1 DEF Recording
  <2>3. GatewayOnce(k)'
    BY <1>0, <1>1, <1>2, <2>1 DEF KeyOK, GatewayOnce, Clear
  <2>4. k[1] = "refund" => RefundRecorded(k)'
    <3>1. /\ Cardinality(Recording(k)) \in Nat /\ Cardinality(Recording(k)') \in Nat
          /\ Cardinality(Recording(k)') >= Cardinality(Recording(k))
      <4>1. Recording(k)' \in {Recording(k), Recording(k) \cup {w}}
        BY <2>1, <2>2
      <4>2. /\ Cardinality(Recording(k)) \in Nat
            /\ Cardinality(Recording(k) \cup {w}) = Cardinality(Recording(k)) + 1
        BY <2>2, RecordingFinite
      <4>3. Cardinality(Recording(k)') \in
               {Cardinality(Recording(k)), Cardinality(Recording(k) \cup {w})}
        BY <4>1
      <4> QED
        BY <4>2, <4>3
    <3>2. made[k] \in Nat /\ ledger[k] \in Nat
      BY <1>0 DEF TypeOK
    <3> QED
      BY <1>0, <1>2, <3>1, <3>2 DEF KeyOK, RefundRecorded, Clear
  <2> QED
    BY <1>0, <2>3, <2>4 DEF KeyOK
<1> QED
  BY <1>4, <1>5, <1>7, <1>8 DEF PaymentsInv

LEMMA AnswerStep ==
    ASSUME PaymentsInv, NEW w \in Workers, NEW k \in Keys, k = jobs[w].key,
           GatewayAnswers(w)
    PROVE  PaymentsInv'
<1> DEFINE j == Job(k, AfterGateway(k), NoHeader)
<1>0. /\ TypeOK /\ StageOK /\ ProcessingHasRequest
      /\ jobs[w].at = "gateway" /\ Busy(w) /\ k \in GatewayCalls /\ k \in Keys
      /\ KeyOK(k) /\ k \notin Webhooks /\ k \notin BookingKeys
      /\ jobs[w].header = NoHeader
  BY KeyKinds DEF PaymentsInv, GatewayAnswers, StageOK, Busy
<1>1. /\ jobs' = [jobs EXCEPT ![w] = j]
      /\ made' = [made EXCEPT ![k] = @ + 1] /\ marked' = marked \cup {k}
      /\ UNCHANGED <<cached, calls, answered, ledger, told, faults, losses>>
  BY DEF GatewayAnswers
<1>2. /\ j.at \in {"ledger", "announce"} /\ j.key = k /\ j.header = NoHeader /\ j # Free
      /\ j \in [at : Stages, key : Keys, header : Headers \cup {NoHeader}]
      /\ (k[1] = "refund" /\ AuditEnabled => j.at = "ledger")
  BY <1>0 DEF Job, AfterGateway, Stages, Free
<1> HIDE DEF j
<1>3. Moves(w, k, j)
  BY <1>0, <1>1, <1>2 DEF Moves, Stages
<1>4. TypeOK'
  BY <1>0, <1>1, <1>3, MoveKeeps DEF TypeOK
<1>5. StageOK' /\ ProcessingHasRequest'
  BY <1>0, <1>1, <1>3, MoveKeeps, HeadersKept
<1>6. ASSUME NEW x \in Keys \ {k} PROVE KeyOK(x)'
  <2>1. /\ marked' \cap {x} = marked \cap {x} /\ made'[x] = made[x]
    BY <1>0, <1>1 DEF TypeOK
  <2> QED
    BY <1>0, <1>1, <1>3, <2>1, MoveKeeps, Untouched DEF PaymentsInv, SameKey
<1>7. KeyOK(k)'
  <2>1. /\ InFlight(k)' = InFlight(k) \cup {w} /\ jobs'[w] = j
        /\ \A v \in Workers \ {w} : jobs'[v] = jobs[v]
        /\ Recording(k)' = IF j.at = "ledger" THEN Recording(k) \cup {w} ELSE Recording(k) \ {w}
        /\ InFlight(k) \subseteq Workers /\ w \in InFlight(k) /\ w \notin Recording(k)
    <3>1. /\ InFlight(k) \subseteq Workers
          /\ w \in InFlight(k)
          /\ w \notin Recording(k)
      BY <1>0, <1>3, MoveKeeps
    <3>2. /\ InFlight(k)' = InFlight(k) \cup {w} /\ jobs'[w] = j
          /\ \A v \in Workers \ {w} : jobs'[v] = jobs[v]
      BY <1>0, <1>2, <1>3, MoveKeeps
    <3>3. Recording(k)' = IF j.at = "ledger" THEN Recording(k) \cup {w} ELSE Recording(k) \ {w}
      BY <1>0, <1>2, <1>3, MoveKeeps
    <3> QED
      BY <3>1, <3>2, <3>3
  <2>2. made[k] \in Nat /\ ledger[k] \in Nat /\ made'[k] = made[k] + 1 /\ k \in marked'
    BY <1>0, <1>1 DEF TypeOK
  <2>3. GatewayOnce(k)'
    <3>1. ASSUME Clear(k, {"overlap", "forgotten", "unheard"})
          PROVE  \A v \in InFlight(k)' : jobs'[v].at # "gateway"
      BY <1>0, <1>2, <2>1, <3>1 DEF KeyOK, GatewayOnce
    <3>2. ASSUME Clear(k, {"overlap", "forgotten", "unheard"})
          PROVE  made'[k] <= 1
      BY <1>0, <2>1, <2>2, <3>2 DEF KeyOK, GatewayOnce
    <3> QED
      BY <1>1, <2>2, <3>1, <3>2 DEF GatewayOnce, Clear
  <2>4. k[1] = "refund" => RefundRecorded(k)'
    <3>1. CASE k[1] = "refund" /\ AuditEnabled
      <4>1. Recording(k)' = Recording(k) \cup {w}
        BY <1>2, <2>1, <3>1
      <4>2. /\ Cardinality(Recording(k)) \in Nat
            /\ Cardinality(Recording(k)') = Cardinality(Recording(k)) + 1
        BY <2>1, <4>1, RecordingFinite
      <4> QED
        BY <1>0, <1>1, <2>2, <3>1, <4>2 DEF KeyOK, RefundRecorded, Clear
    <3> QED
      BY <3>1 DEF RefundRecorded
  <2> QED
    BY <1>0, <2>3, <2>4 DEF KeyOK
<1> QED
  BY <1>4, <1>5, <1>6, <1>7 DEF PaymentsInv

LEMMA FailStep ==
    ASSUME PaymentsInv, NEW w \in Workers, NEW k \in Keys, k = jobs[w].key,
           GatewayFails(w)
    PROVE  PaymentsInv'
<1>0. /\ TypeOK /\ StageOK /\ ProcessingHasRequest
      /\ jobs[w].at = "gateway" /\ Busy(w) /\ k \in GatewayCalls /\ k \in Keys
      /\ KeyOK(k) /\ k \notin Webhooks /\ k \notin BookingKeys
      /\ jobs[w].header = NoHeader
  BY KeyKinds DEF PaymentsInv, GatewayFails, StageOK, Busy
<1>1. /\ jobs' = [jobs EXCEPT ![w] = Free]
      /\ UNCHANGED <<marked, cached, calls, answered, ledger, told, losses>>
      /\ \/ UNCHANGED <<made, faults>>
         \/ /\ made' = [made EXCEPT ![k] = @ + 1]
            /\ faults' = [faults EXCEPT ![k] = @ \cup {"unheard"}]
  BY DEF GatewayFails
<1>2. /\ made' \in [Keys -> Nat] /\ faults' \in [Keys -> SUBSET Faults]
      /\ \A x \in Keys \ {k} : made'[x] = made[x] /\ faults'[x] = faults[x]
      /\ \/ made'[k] = made[k] /\ faults'[k] = faults[k]
         \/ faults'[k] = faults[k] \cup {"unheard"}
  <2>1. CASE UNCHANGED <<made, faults>>
    BY <1>0, <2>1 DEF TypeOK
  <2>2. CASE /\ made' = [made EXCEPT ![k] = @ + 1]
             /\ faults' = [faults EXCEPT ![k] = @ \cup {"unheard"}]
    <3>1. made' \in [Keys -> Nat] /\ \A x \in Keys \ {k} : made'[x] = made[x]
      BY <1>0, <2>2 DEF TypeOK
    <3> DEFINE c == TRUE
    <3>2. faults' = [faults EXCEPT ![k] = IF c THEN @ \cup {"unheard"} ELSE @]
          /\ "unheard" \in Faults /\ c \in BOOLEAN
      BY <2>2 DEF Faults
    <3>3. /\ faults' \in [Keys -> SUBSET Faults]
          /\ \A x \in Keys \ {k} : faults'[x] = faults[x]
          /\ faults'[k] = faults[k] \cup {"unheard"}
      BY <1>0, <2>2 DEF TypeOK, Faults
    <3> QED
      BY <3>1, <3>3
  <2> QED
    BY <1>1, <2>1, <2>2
<1>3. Moves(w, k, Free)
  BY <1>0, <1>1 DEF Moves
<1>4. TypeOK'
  BY <1>0, <1>1, <1>2, <1>3, MoveKeeps DEF TypeOK
<1>5. StageOK' /\ ProcessingHasRequest'
  BY <1>0, <1>1, <1>3, MoveKeeps, HeadersKept
<1>6. ASSUME NEW x \in Keys \ {k} PROVE KeyOK(x)'
  BY <1>0, <1>1, <1>2, <1>3, MoveKeeps, Untouched DEF PaymentsInv, SameKey
<1>7. KeyOK(k)'
  <2>1. /\ InFlight(k)' = InFlight(k) \ {w}
        /\ \A v \in Workers \ {w} : jobs'[v] = jobs[v]
        /\ InFlight(k) \subseteq Workers
        /\ Recording(k)' = Recording(k)
    <3>1. InFlight(k) \subseteq Workers /\ w \notin Recording(k)
      BY <1>0, <1>3, MoveKeeps
    <3>2. /\ InFlight(k)' = InFlight(k) \ {w}
          /\ \A v \in Workers \ {w} : jobs'[v] = jobs[v]
      BY <1>0, <1>3, MoveKeeps
    <3>3. Recording(k)' = Recording(k) \ {w}
      BY <1>0, <1>3, MoveKeeps
    <3> QED
      BY <3>1, <3>2, <3>3
  <2>2. GatewayOnce(k)'
    BY <1>0, <1>1, <1>2, <2>1 DEF KeyOK, GatewayOnce, Clear
  <2>3. k[1] = "refund" => RefundRecorded(k)'
    BY <1>0, <1>1, <1>2, <2>1 DEF KeyOK, RefundRecorded, Clear
  <2> QED
    BY <1>0, <2>2, <2>3 DEF KeyOK
<1> QED
  BY <1>4, <1>5, <1>6, <1>7 DEF PaymentsInv

LEMMA BookStep ==
    ASSUME PaymentsInv, NEW w \in Workers, NEW k \in BookingKeys,
           NEW h \in Headers \cup {NoHeader}, RequestBooking(w, k, h)
    PROVE  PaymentsInv'
<1>0. /\ TypeOK /\ StageOK /\ ProcessingHasRequest /\ KeyOK(k) /\ k \in Keys
      /\ k \notin Webhooks /\ k \notin GatewayCalls /\ k[1] # "refund"
      /\ ~Busy(w) /\ Called(k)
      /\ h # NoHeader => cached[h] = NotCached
      /\ UNCHANGED <<answered, ledger, told, faults, losses>>
  BY KeyKinds DEF PaymentsInv, RequestBooking
<1> DEFINE status == IF k \in marked THEN "completed" ELSE "processing"
           c == Cached(k, status)
           j == Job(k, "announce", h)
<1>1. /\ cached' = IF h = NoHeader THEN cached ELSE [cached EXCEPT ![h] = c]
      /\ c.status = status /\ c.key = k
      /\ c \in [status : {"processing", "completed"}, key : BookingKeys]
  BY DEF RequestBooking, Cached
<1>2. /\ j.at = "announce" /\ j.key = k /\ j.header = h /\ j # Free
      /\ j \in [at : Stages, key : Keys, header : Headers \cup {NoHeader}]
  BY <1>0 DEF Job, Stages, Free
<1>3. cached' \in [Headers -> {NotCached} \cup
                      [status : {"processing", "completed"}, key : BookingKeys]]
  BY <1>0, <1>1, Zenon DEF TypeOK
<1> HIDE DEF c, j
<1>4. CASE k \in marked
  <2>1. UNCHANGED <<marked, jobs, made>>
    BY <1>4 DEF RequestBooking
  <2>2. TypeOK'
    BY <1>0, <1>3, <2>1, CalledTypes DEF TypeOK
  <2>3. StageOK'
    BY <1>0, <2>1 DEF StageOK, Busy
  <2>4. ProcessingHasRequest'
    BY <1>0, <1>1, <1>4, <2>1 DEF ProcessingHasRequest, InFlight, Busy, TypeOK
  <2>5. ASSUME NEW x \in Keys PROVE KeyOK(x)'
    BY <1>0, <2>1, Untouched DEF PaymentsInv, SameKey, InFlight, Busy
  <2> QED
    BY <2>2, <2>3, <2>4, <2>5 DEF PaymentsInv
<1>5. CASE k \notin marked
  <2>1. /\ marked' = marked \cup {k} /\ made' = [made EXCEPT ![k] = @ + 1]
        /\ jobs' = [jobs EXCEPT ![w] = j]
    BY <1>5 DEF RequestBooking, j
  <2>2. Moves(w, k, j)
    BY <1>0, <1>2, <2>1 DEF Moves
  <2>3. TypeOK'
    BY <1>0, <1>3, <2>1, <2>2, CalledTypes, MoveKeeps DEF TypeOK
  <2>4. StageOK'
    BY <1>0, <2>2, MoveKeeps
  <2>5. ProcessingHasRequest'
    <3>1. InFlight(k)' = InFlight(k) \cup {w} /\ jobs'[w].header = h
      BY <1>0, <1>2, <2>2, MoveKeeps
    <3>2. ASSUME NEW g \in Headers, cached'[g].status = "processing", g = h
          PROVE  (\E v \in InFlight(cached[g].key) : jobs[v].header = g)'
      BY <1>0, <1>1, <3>1, <3>2, PaymentsAssumption DEF TypeOK
    <3>3. ASSUME NEW g \in Headers, cached'[g].status = "processing", g # h
          PROVE  (\E v \in InFlight(cached[g].key) : jobs[v].header = g)'
      <4>1. cached'[g] = cached[g]
        BY <1>0, <1>1, <3>3 DEF TypeOK
      <4>2. PICK v \in InFlight(cached[g].key) : jobs[v].header = g
        BY <1>0, <3>3, <4>1 DEF ProcessingHasRequest
      <4>3. v \in InFlight(cached[g].key)' /\ jobs'[v].header = g
        BY <1>0, <2>1, <4>1, <4>2 DEF InFlight, Busy, TypeOK
      <4> QED
        BY <4>1, <4>3
    <3> QED
      BY <3>2, <3>3 DEF ProcessingHasRequest
  <2>6. ASSUME NEW x \in Keys \ {k} PROVE KeyOK(x)'
    <3>1. marked' \cap {x} = marked \cap {x} /\ made'[x] = made[x]
      BY <1>0, <2>1 DEF TypeOK
    <3> QED
      BY <1>0, <2>2, <3>1, MoveKeeps, Untouched DEF PaymentsInv, SameKey
  <2>7. KeyOK(k)'
    BY <1>0, <1>5, <2>1 DEF KeyOK, BookingOnce, Clear, TypeOK
  <2> QED
    BY <2>3, <2>4, <2>5, <2>6, <2>7 DEF PaymentsInv
<1> QED
  BY <1>4, <1>5

\* What a publish leaves at the bus, and of the record of faults.
LEMMA PublishTypes ==
    ASSUME TypeOK, NEW k \in Keys, NEW ok \in BOOLEAN, NEW f \in [Keys -> Nat],
           NEW g, g = IF ok THEN [f EXCEPT ![k] = @ + 1] ELSE f,
           NoteDrop(k, ok)
    PROVE  /\ g \in [Keys -> Nat] /\ faults' \in [Keys -> SUBSET Faults]
           /\ \A x \in Keys \ {k} : g[x] = f[x] /\ faults'[x] = faults[x]
           /\ \/ g[k] = f[k] + 1 /\ faults'[k] = faults[k]
              \/ g[k] = f[k] /\ faults'[k] = faults[k] \cup {"dropped"}
<1>1. CASE ok
  <2>1. g = [f EXCEPT ![k] = @ + 1] /\ faults' = faults
    BY <1>1 DEF NoteDrop
  <2> QED
    BY <2>1 DEF TypeOK
<1>2. CASE ~ok
  <2>1. g = f /\ faults' = [faults EXCEPT ![k] = @ \cup {"dropped"}]
    BY <1>2 DEF NoteDrop
  <2> QED
    BY <2>1 DEF TypeOK, Faults
<1> QED
  BY <1>1, <1>2

LEMMA MovementStep ==
    ASSUME PaymentsInv, NEW w \in Workers, NEW k \in Keys, k = jobs[w].key,
           NEW ok \in BOOLEAN, MovementPublished(w, ok)
    PROVE  PaymentsInv'
<1> DEFINE j == Job(k, "announce", NoHeader)
<1>0. /\ TypeOK /\ StageOK /\ ProcessingHasRequest /\ KeyOK(k)
      /\ jobs[w].at = "ledger" /\ Busy(w) /\ k \notin BookingKeys
      /\ (k \in Webhooks => k[2] \notin Unbooked)
      /\ jobs[w].header = NoHeader
  BY DEF PaymentsInv, MovementPublished, StageOK, Busy
<1>1. /\ jobs' = [jobs EXCEPT ![w] = j] /\ Arrives(ledger, k, ok) /\ NoteDrop(k, ok)
      /\ UNCHANGED <<marked, cached, calls, answered, made, told, losses>>
  BY DEF MovementPublished
<1>2. /\ ledger' \in [Keys -> Nat] /\ faults' \in [Keys -> SUBSET Faults]
      /\ \A x \in Keys \ {k} : ledger'[x] = ledger[x] /\ faults'[x] = faults[x]
      /\ \/ ledger'[k] = ledger[k] + 1 /\ faults'[k] = faults[k]
         \/ ledger'[k] = ledger[k] /\ faults'[k] = faults[k] \cup {"dropped"}
  BY <1>0, <1>1, PublishTypes DEF Arrives, TypeOK
<1>3. /\ j.at = "announce" /\ j.key = k /\ j.header = NoHeader /\ j # Free
      /\ j \in [at : Stages, key : Keys, header : Headers \cup {NoHeader}]
  BY DEF Job, Stages, Free
<1> HIDE DEF j
<1>4. Moves(w, k, j)
  BY <1>0, <1>1, <1>3 DEF Moves, Stages
<1>5. TypeOK'
  BY <1>0, <1>1, <1>2, <1>4, MoveKeeps DEF TypeOK
<1>6. StageOK' /\ ProcessingHasRequest'
  BY <1>0, <1>1, <1>4, MoveKeeps, HeadersKept
<1>7. ASSUME NEW x \in Keys \ {k} PROVE KeyOK(x)'
  BY <1>0, <1>1, <1>2, <1>4, MoveKeeps, Untouched DEF PaymentsInv, SameKey
<1>8. KeyOK(k)'
  <2>1. /\ w \in InFlight(k) /\ w \in Recording(k) /\ InFlight(k) \subseteq Workers
    BY <1>0, <1>4, MoveKeeps
  <2>2. /\ InFlight(k)' = InFlight(k) \cup {w} /\ jobs'[w] = j
        /\ \A v \in Workers \ {w} : jobs'[v] = jobs[v]
    BY <1>0, <1>3, <1>4, MoveKeeps
  <2>3. InFlight(k)' = InFlight(k)
    BY <2>1, <2>2
  <2>4. Recording(k)' = Recording(k) \ {w}
    BY <1>0, <1>3, <1>4, MoveKeeps
  <2>5. ledger[k] \in Nat /\ told[k] \in Nat /\ made[k] \in Nat
    BY <1>0 DEF TypeOK
  <2>6. k \in Webhooks => WebhookOnce(k)'
    <3>1. CASE k \in Webhooks /\ Clear(k, {"overlap", "forgotten"})
      <4>1. /\ ledger[k] = 0 /\ k \notin marked
            /\ \A u, v \in InFlight(k) : u = v
        BY <1>0, <2>1, <3>1 DEF KeyOK, WebhookOnce
      <4>2. ledger'[k] <= 1 /\ \A v \in InFlight(k) : jobs'[v].at # "ledger"
        BY <1>2, <1>3, <2>1, <2>2, <4>1
      <4> QED
        BY <1>1, <2>1, <2>3, <4>1, <4>2 DEF WebhookOnce
    <3>2. CASE ~Clear(k, {"overlap", "forgotten"})
      BY <1>2, <3>2 DEF WebhookOnce, Clear
    <3> QED
      BY <3>1, <3>2
  <2>7. k \in Webhooks => WebhookDone(k)'
    BY <1>0, <1>1, <1>2, <1>3, <2>2, <2>3, <2>5 DEF KeyOK, WebhookDone, Clear, Charged
  <2>8. k \in GatewayCalls => GatewayOnce(k)'
    BY <1>0, <1>1, <1>2, <1>3, <2>1, <2>2, <2>3 DEF KeyOK, GatewayOnce, Clear
  <2>9. k[1] = "refund" => RefundRecorded(k)'
    <3>1. /\ Cardinality(Recording(k)) \in Nat
          /\ Cardinality(Recording(k)') = Cardinality(Recording(k)) - 1
      BY <2>1, <2>4, RecordingFinite
    <3> QED
      BY <1>0, <1>1, <1>2, <2>5, <3>1 DEF KeyOK, RefundRecorded, Clear
  <2> QED
    BY <1>0, <2>6, <2>7, <2>8, <2>9 DEF KeyOK
<1> QED
  BY <1>5, <1>6, <1>7, <1>8 DEF PaymentsInv

LEMMA EventStep ==
    ASSUME PaymentsInv, NEW w \in Workers, NEW k \in Keys, k = jobs[w].key,
           NEW ok \in BOOLEAN, EventPublished(w, ok)
    PROVE  PaymentsInv'
<1> DEFINE h == jobs[w].header
           c == Cached(k, "completed")
<1>0. /\ TypeOK /\ StageOK /\ ProcessingHasRequest /\ KeyOK(k)
      /\ jobs[w].at = "announce" /\ Busy(w)
      /\ (h # NoHeader => k \in BookingKeys) /\ h \in Headers \cup {NoHeader}
  BY DEF PaymentsInv, EventPublished, StageOK, Busy, TypeOK, Free
<1>1. /\ jobs' = [jobs EXCEPT ![w] = Free] /\ Arrives(told, k, ok) /\ NoteDrop(k, ok)
      /\ IF k \in Webhooks
         THEN marked' = marked \cup {k} /\ answered' = answered \cup {k}
         ELSE UNCHANGED <<marked, answered>>
      /\ cached' = IF h = NoHeader THEN cached ELSE [cached EXCEPT ![h] = c]
      /\ UNCHANGED <<calls, made, ledger, losses>>
  BY DEF EventPublished
<1>2. /\ told' \in [Keys -> Nat] /\ faults' \in [Keys -> SUBSET Faults]
      /\ \A x \in Keys \ {k} : told'[x] = told[x] /\ faults'[x] = faults[x]
      /\ \/ told'[k] = told[k] + 1 /\ faults'[k] = faults[k]
         \/ told'[k] = told[k] /\ faults'[k] = faults[k] \cup {"dropped"}
  BY <1>0, <1>1, PublishTypes DEF Arrives, TypeOK
<1>3. c.status = "completed" /\ c.key = k
  BY DEF Cached
<1>4. cached' \in [Headers -> {NotCached} \cup
                      [status : {"processing", "completed"}, key : BookingKeys]]
  <2>1. h # NoHeader => c \in [status : {"processing", "completed"}, key : BookingKeys]
    BY <1>0 DEF Cached
  <2> HIDE DEF c, h
  <2> QED
    BY <1>0, <1>1, <2>1, Zenon DEF TypeOK
<1>5. Moves(w, k, Free)
  BY <1>0, <1>1 DEF Moves
<1>6. TypeOK'
  BY <1>0, <1>1, <1>2, <1>4, <1>5, MoveKeeps, KeyKinds DEF TypeOK
<1>7. StageOK'
  BY <1>0, <1>5, MoveKeeps
<1>8. ProcessingHasRequest'
  <2> SUFFICES ASSUME NEW g \in Headers, cached'[g].status = "processing"
               PROVE  (\E v \in InFlight(cached[g].key) : jobs[v].header = g)'
    BY DEF ProcessingHasRequest
  <2> HIDE DEF c
  <2>1. g # h /\ cached'[g] = cached[g]
    BY <1>0, <1>1, <1>3, PaymentsAssumption DEF TypeOK
  <2>2. PICK v \in InFlight(cached[g].key) : jobs[v].header = g
    BY <1>0, <2>1 DEF ProcessingHasRequest
  <2>3. v \in InFlight(cached[g].key)' /\ jobs'[v].header = g
    BY <1>0, <1>1, <2>1, <2>2 DEF InFlight, Busy, TypeOK
  <2> QED
    BY <2>3
<1>9. ASSUME NEW x \in Keys \ {k} PROVE KeyOK(x)'
  <2>1. marked' \cap {x} = marked \cap {x} /\ answered' \cap {x} = answered \cap {x}
    BY <1>1
  <2> QED
    BY <1>0, <1>1, <1>2, <1>5, <2>1, MoveKeeps, Untouched DEF PaymentsInv, SameKey
<1>10. KeyOK(k)'
  <2>1. /\ w \in InFlight(k) /\ w \notin Recording(k) /\ InFlight(k) \subseteq Workers
    BY <1>0, <1>5, MoveKeeps
  <2>2. /\ InFlight(k)' = InFlight(k) \ {w}
        /\ \A v \in Workers \ {w} : jobs'[v] = jobs[v]
    BY <1>0, <1>5, MoveKeeps
  <2>3. Recording(k)' = Recording(k) \ {w}
    BY <1>0, <1>5, MoveKeeps
  <2>4. Recording(k)' = Recording(k)
    BY <2>1, <2>3
  <2>5. told[k] \in Nat /\ ledger'[k] = ledger[k] /\ made'[k] = made[k]
    BY <1>0, <1>1 DEF TypeOK
  <2>6. k \in Webhooks => WebhookOnce(k)'
    <3>1. CASE k \in Webhooks /\ Clear(k, {"overlap", "forgotten"})
      <4>1. ledger[k] <= 1 /\ \A u, v \in InFlight(k) : u = v
        BY <1>0, <3>1 DEF KeyOK, WebhookOnce
      <4>2. InFlight(k)' = {} /\ k \in marked'
        BY <1>1, <2>1, <2>2, <3>1, <4>1
      <4> QED
        BY <2>5, <4>1, <4>2 DEF WebhookOnce
    <3>2. CASE ~Clear(k, {"overlap", "forgotten"})
      BY <1>2, <3>2 DEF WebhookOnce, Clear
    <3> QED
      BY <3>1, <3>2
  <2>7. k \in Webhooks => WebhookDone(k)'
    <3>1. CASE /\ k \in Webhooks /\ k[2] \notin Unbooked
               /\ Clear(k, {"dropped"}) /\ faults'[k] = faults[k]
      <4>1. told'[k] >= 1
        BY <1>2, <2>5, <3>1 DEF Clear
      <4>2. Charged(k) => ledger[k] >= 1
        BY <1>0, <2>1, <3>1 DEF KeyOK, WebhookDone
      <4> QED
        BY <2>5, <4>1, <4>2 DEF WebhookDone, Charged
    <3>2. CASE \/ k[2] \in Unbooked
               \/ ~Clear(k, {"dropped"}) \/ faults'[k] # faults[k]
      BY <1>2, <3>2 DEF WebhookDone, Clear, Charged
    <3> QED
      BY <3>1, <3>2
  <2>8. k \in GatewayCalls => GatewayOnce(k)'
    BY <1>0, <1>1, <1>2, <2>1, <2>2, <2>5, KeyKinds DEF KeyOK, GatewayOnce, Clear
  <2>9. k \in BookingKeys => BookingOnce(k)'
    BY <1>0, <1>1, <1>2, <2>5, KeyKinds DEF KeyOK, BookingOnce, Clear
  <2>10. k[1] = "refund" => RefundRecorded(k)'
    BY <1>0, <1>2, <2>4, <2>5 DEF KeyOK, RefundRecorded, Clear
  <2> QED
    BY <1>0, <2>6, <2>7, <2>8, <2>9, <2>10 DEF KeyOK
<1> QED
  BY <1>6, <1>7, <1>8, <1>9, <1>10 DEF PaymentsInv

LEMMA ExpireStep ==
    ASSUME PaymentsInv, NEW k \in Keys, ExpireKey(k)
    PROVE  PaymentsInv'
<1>0. /\ TypeOK /\ StageOK /\ ProcessingHasRequest /\ KeyOK(k)
      /\ losses < MaxLosses /\ losses' = losses + 1 /\ marked' = marked \ {k}
      /\ faults' = [faults EXCEPT ![k] = @ \cup {"forgotten"}]
      /\ UNCHANGED <<cached, jobs, calls, answered, made, ledger, told>>
  BY DEF PaymentsInv, ExpireKey, effects
<1>1. /\ faults' \in [Keys -> SUBSET Faults]
      /\ \A x \in Keys \ {k} : faults'[x] = faults[x]
      /\ faults'[k] = faults[k] \cup {"forgotten"}
  BY <1>0 DEF TypeOK, Faults
<1>2. losses' \in 0..MaxLosses
  BY <1>0, PaymentsAssumption DEF TypeOK
<1>3. TypeOK'
  BY <1>0, <1>1, <1>2 DEF TypeOK
<1>4. StageOK' /\ ProcessingHasRequest'
  BY <1>0 DEF StageOK, Busy, ProcessingHasRequest, InFlight
<1>5. ASSUME NEW x \in Keys \ {k} PROVE KeyOK(x)'
  BY <1>0, <1>1, Untouched DEF PaymentsInv, SameKey, InFlight, Busy
<1>6. KeyOK(k)'
  <2>1. InFlight(k)' = InFlight(k) /\ \A w \in InFlight(k) : jobs'[w] = jobs[w]
    BY <1>0 DEF InFlight, Busy
  <2>2. WebhookDone(k) => WebhookDone(k)'
    BY <1>0, <1>1, <2>1 DEF WebhookDone, Clear, Charged
  <2>3. WebhookOnce(k)' /\ GatewayOnce(k)' /\ BookingOnce(k)' /\ RefundRecorded(k)'
    BY <1>1 DEF WebhookOnce, GatewayOnce, BookingOnce, RefundRecorded, Clear
  <2> QED
    BY <1>0, <2>2, <2>3 DEF KeyOK
<1> QED
  BY <1>3, <1>4, <1>5, <1>6 DEF PaymentsInv

LEMMA ExpireHeaderStep ==
    ASSUME PaymentsInv, NEW h \in Headers, ExpireHeader(h)
    PROVE  PaymentsInv'
<1>0. /\ TypeOK /\ StageOK /\ ProcessingHasRequest
      /\ losses < MaxLosses /\ losses' = losses + 1
      /\ cached' = [cached EXCEPT ![h] = NotCached]
      /\ UNCHANGED <<marked, jobs, calls, answered, made, ledger, told, faults>>
  BY DEF PaymentsInv, ExpireHeader, effects
<1>1. losses' \in 0..MaxLosses
  BY <1>0, PaymentsAssumption DEF TypeOK
<1>2. TypeOK'
  BY <1>0, <1>1 DEF TypeOK
<1>3. StageOK'
  BY <1>0 DEF StageOK, Busy
<1>4. ProcessingHasRequest'
  <2> SUFFICES ASSUME NEW g \in Headers, cached'[g].status = "processing"
               PROVE  (\E v \in InFlight(cached[g].key) : jobs[v].header = g)'
    BY DEF ProcessingHasRequest
  <2>1. cached'[g] = cached[g]
    BY <1>0 DEF NotCached, TypeOK
  <2> QED
    BY <1>0, <2>1 DEF ProcessingHasRequest, InFlight, Busy
<1>5. ASSUME NEW x \in Keys PROVE KeyOK(x)'
  BY <1>0, Untouched DEF PaymentsInv, SameKey, InFlight, Busy
<1> QED
  BY <1>2, <1>3, <1>4, <1>5 DEF PaymentsInv

LEMMA RestartStep ==
    ASSUME PaymentsInv, Restart
    PROVE  PaymentsInv'
<1>0. /\ TypeOK
      /\ losses < MaxLosses /\ losses' = losses + 1
      /\ marked' = {} /\ cached' = [h \in Headers |-> NotCached]
      /\ jobs' = [w \in Workers |-> Free]
      /\ faults' = [k \in Keys |-> IF k \in marked \/ InFlight(k) # {}
                                   THEN faults[k] \cup {"forgotten"} ELSE faults[k]]
      /\ UNCHANGED <<calls, answered, made, ledger, told>>
  BY DEF PaymentsInv, Restart, effects
<1>1. losses' \in 0..MaxLosses
  BY <1>0, PaymentsAssumption DEF TypeOK
<1>2. faults' \in [Keys -> SUBSET Faults]
  BY <1>0 DEF TypeOK, Faults
<1>3. TypeOK'
  BY <1>0, <1>1, <1>2 DEF TypeOK
<1>4. \A w \in Workers : ~Busy(w)'
  BY <1>0 DEF Busy, Free
<1>5. StageOK' /\ ProcessingHasRequest'
  BY <1>0, <1>4 DEF StageOK, ProcessingHasRequest, NotCached
<1>6. ASSUME NEW k \in Keys PROVE KeyOK(k)'
  <2>1. InFlight(k)' = {} /\ k \notin marked'
    BY <1>0, <1>4 DEF InFlight
  <2>2. KeyOK(k) /\ ledger'[k] = ledger[k] /\ made'[k] = made[k] /\ told'[k] = told[k]
    BY <1>0 DEF PaymentsInv
  <2>3. /\ faults[k] \subseteq faults'[k]
        /\ "forgotten" \notin faults'[k] => k \notin marked /\ InFlight(k) = {}
    BY <1>0
  <2>4. WebhookDone(k) => WebhookDone(k)'
    BY <1>0, <2>1, <2>2, <2>3 DEF WebhookDone, Clear, Charged
  <2>5. WebhookOnce(k) => WebhookOnce(k)'
    BY <1>0, <2>1, <2>2, <2>3 DEF WebhookOnce, Clear, TypeOK
  <2>6. GatewayOnce(k) => GatewayOnce(k)'
    BY <1>0, <2>1, <2>2, <2>3 DEF GatewayOnce, Clear
  <2>7. BookingOnce(k) => BookingOnce(k)'
    BY <1>0, <2>1, <2>2, <2>3 DEF BookingOnce, Clear
  <2>8. RefundRecorded(k) => RefundRecorded(k)'
    <3>1. "forgotten" \notin faults'[k] => Recording(k)' = Recording(k)
      BY <2>1, <2>3 DEF Recording
    <3> QED
      BY <2>2, <2>3, <3>1 DEF RefundRecorded, Clear
  <2> QED
    BY <2>2, <2>4, <2>5, <2>6, <2>7, <2>8 DEF KeyOK
<1> QED
  BY <1>3, <1>5, <1>6 DEF PaymentsInv

-----------------------------------------------------------------------------
LEMMA InitHolds ==
    ASSUME Init
    PROVE  PaymentsInv
<1>1. TypeOK
  BY PaymentsAssumption DEF Init, TypeOK, Faults, NotCached
<1>2. \A w \in Workers : ~Busy(w)
  BY DEF Init, Busy, Free
<1>3. StageOK /\ ProcessingHasRequest
  BY <1>2 DEF Init, StageOK, ProcessingHasRequest, NotCached
<1>4. ASSUME NEW k \in Keys PROVE KeyOK(k)
  <2>1. InFlight(k) = {} /\ Recording(k) = {}
    BY <1>2 DEF InFlight, Recording
  <2>2. Cardinality(Recording(k)) = 0
    BY <2>1, FS_EmptySet
  <2>3. /\ k \notin marked /\ k \notin answered
        /\ made[k] = 0 /\ ledger[k] = 0
    BY DEF Init
  <2> QED
    BY <2>1, <2>2, <2>3
       DEF KeyOK, WebhookOnce, WebhookDone, GatewayOnce, BookingOnce, RefundRecorded
<1> QED
  BY <1>1, <1>3, <1>4 DEF PaymentsInv

LEMMA StepHolds ==
    ASSUME PaymentsInv, Next
    PROVE  PaymentsInv'
<1>1. ASSUME NEW w \in Workers, NEW k \in Webhooks, ReceiveWebhook(w, k) PROVE PaymentsInv'
  BY <1>1, ReceiveStep
<1>2. ASSUME NEW w \in Workers, NEW k \in GatewayCalls, CallGateway(w, k) PROVE PaymentsInv'
  BY <1>2, CallStep
<1>3. ASSUME NEW w \in Workers, NEW k \in BookingKeys, NEW h \in Headers \cup {NoHeader},
             RequestBooking(w, k, h) PROVE PaymentsInv'
  BY <1>3, BookStep
<1>4. ASSUME NEW w \in Workers, JobStep(w) PROVE PaymentsInv'
  <2>1. jobs[w].at # "free"
    BY <1>4 DEF JobStep, GatewayAnswers, GatewayFails, MovementPublished, EventPublished
  <2>2. PICK k \in Keys : k = jobs[w].key
    BY <2>1 DEF PaymentsInv, TypeOK, Free
  <2>3. CASE GatewayAnswers(w)
    BY <2>2, <2>3, AnswerStep
  <2>4. CASE GatewayFails(w)
    BY <2>2, <2>4, FailStep
  <2>5. ASSUME NEW ok \in BOOLEAN, MovementPublished(w, ok) PROVE PaymentsInv'
    BY <2>2, <2>5, MovementStep
  <2>6. ASSUME NEW ok \in BOOLEAN, EventPublished(w, ok) PROVE PaymentsInv'
    BY <2>2, <2>6, EventStep
  <2> QED
    BY <1>4, <2>3, <2>4, <2>5, <2>6 DEF JobStep
<1>5. ASSUME NEW k \in Keys, ExpireKey(k) PROVE PaymentsInv'
  BY <1>5, ExpireStep
<1>6. ASSUME NEW h \in Headers, ExpireHeader(h) PROVE PaymentsInv'
  BY <1>6, ExpireHeaderStep
<1>7. CASE Restart
  BY <1>7, RestartStep
<1>8. ASSUME NEW k \in Webhooks, GatewayStops(k) PROVE PaymentsInv'
  BY <1>8, StopStep
<1> QED
  BY <1>1, <1>2, <1>3, <1>4, <1>5, <1>6, <1>7, <1>8 DEF Next

LEMMA StutterHolds ==
    ASSUME PaymentsInv, UNCHANGED vars
    PROVE  PaymentsInv'
<1>1. UNCHANGED <<marked, cached, jobs, calls, answered, made, ledger, told, faults, losses>>
  BY DEF vars
<1>2. TypeOK' /\ StageOK' /\ ProcessingHasRequest'
  BY <1>1 DEF PaymentsInv, TypeOK, StageOK, ProcessingHasRequest, Busy, InFlight
<1>3. ASSUME NEW k \in Keys PROVE KeyOK(k)'
  BY <1>1, Untouched DEF PaymentsInv, SameKey, InFlight, Busy
<1> QED
  BY <1>2, <1>3 DEF PaymentsInv

\* The inductive invariant: the stages an operation can be at, and what each
\* key promises while operations on it are under way.
THEOREM PaymentsInvariant == Spec => []PaymentsInv
<1>1. PaymentsInv /\ [Next]_vars => PaymentsInv'
  BY StepHolds, StutterHolds
<1> QED
  BY <1>1, InitHolds, PTL DEF Spec

\* The state of the maps, the jobs and the counts is well-formed.
THEOREM PaymentsTypes == Spec => []TypeOK
<1>1. PaymentsInv => TypeOK
  BY DEF PaymentsInv
<1> QED
  BY <1>1, PaymentsInvariant, PTL

\* A webhook charges once, a refund or an order is made once and a booking
\* created once, unless the marks were lost or two calls overlapped.
THEOREM KeysActOnce == Spec => []OncePerKey
<1>1. PaymentsInv => OncePerKey
  BY KeyKinds DEF PaymentsInv, KeyOK, OncePerKey, WebhookOnce, GatewayOnce, BookingOnce
<1> QED
  BY <1>1, PaymentsInvariant, PTL

\* Webhooks of booked payments that are answered, or that later copies are
\* turned away for, have reached the bus, and the ledger where the audit
\* records any, unless a publish failed.
THEOREM AnsweredWebhooksAreDone == Spec => []AnsweredIsDone
<1>1. PaymentsInv => AnsweredIsDone
  <2> SUFFICES ASSUME PaymentsInv, NEW k \in (marked \cap Webhooks) \cup answered
               PROVE  k[2] \notin Unbooked /\ Clear(k, {"dropped"}) =>
                        told[k] >= 1 /\ (Charged(k) => ledger[k] >= 1)
    BY DEF AnsweredIsDone, Charged
  <2>1. k \in Webhooks /\ k \in Keys
    BY KeyKinds DEF PaymentsInv, TypeOK
  <2> QED
    BY <2>1 DEF PaymentsInv, KeyOK, WebhookDone
<1> QED
  BY <1>1, PaymentsInvariant, PTL

\* What the gateway refunded and reported is on the ledger or about to be,
\* where the audit records any.
THEOREM RefundsReachTheLedger == Spec => []RefundsAreRecorded
<1>1. PaymentsInv => RefundsAreRecorded
  <2> SUFFICES ASSUME PaymentsInv, NEW r \in Refunds
               PROVE  RefundRecorded(<<"refund", r>>)
    BY DEF RefundsAreRecorded, RefundRecorded, Recording
  <2>1. <<"refund", r>> \in Keys /\ <<"refund", r>>[1] = "refund"
    BY KeyKinds
  <2> QED
    BY <2>1 DEF PaymentsInv, KeyOK
<1> QED
  BY <1>1, PaymentsInvariant, PTL

\* A header that turns requests away belongs to one that is in flight.
THEOREM HeadersAreFreed == Spec => []ProcessingHasRequest
<1>1. PaymentsInv => ProcessingHasRequest
  BY DEF PaymentsInv
<1> QED
  BY <1>1, PaymentsInvariant, PTL

-----------------------------------------------------------------------------
(* The operations run down: with AnsweredIsDone, the half of                 *)
(* CapturedIsCharged that does not depend on fairness.                       *)

\* The network calls that an operation still awaits at most.
CallsLeft(j) ==
    CASE j.at = "gateway"  -> 3
      [] j.at = "ledger"   -> 2
      [] j.at = "announce" -> 1
      [] OTHER             -> 0

\* A call that returns brings its operation closer to the end, and nothing
\* that another operation or the clock does takes one back.
OperationsRunDown ==
    \A w \in Workers :
      /\ JobStep(w) => CallsLeft(jobs'[w]) < CallsLeft(jobs[w])
      /\ Busy(w) => jobs'[w] = jobs[w] \/ CallsLeft(jobs'[w]) < CallsLeft(jobs[w])

LEMMA CallsAreCounted ==
    ASSUME TypeOK, NEW w \in Workers
    PROVE  CallsLeft(jobs[w]) \in 0..3 /\ (CallsLeft(jobs[w]) = 0 <=> ~Busy(w))
  BY DEF CallsLeft, TypeOK, Busy, Free, Stages

LEMMA ReturnedCallCounts ==
    ASSUME TypeOK, NEW w \in Workers, JobStep(w)
    PROVE  /\ Busy(w) /\ CallsLeft(jobs'[w]) < CallsLeft(jobs[w])
           /\ \A v \in Workers \ {w} : jobs'[v] = jobs[v]
<1>0. jobs \in [Workers -> {Free} \cup
                  [at : Stages, key : Keys, header : Headers \cup {NoHeader}]]
  BY DEF TypeOK
<1>1. CASE GatewayAnswers(w)
  <2>1. /\ jobs[w].at = "gateway" /\ AfterGateway(jobs[w].key) \in {"ledger", "announce"}
        /\ jobs' = [jobs EXCEPT ![w] = Job(jobs[w].key, AfterGateway(jobs[w].key), NoHeader)]
    BY <1>1 DEF GatewayAnswers, AfterGateway
  <2>2. /\ jobs'[w].at \in {"ledger", "announce"}
        /\ \A v \in Workers \ {w} : jobs'[v] = jobs[v]
    BY <1>0, <2>1 DEF Job
  <2> QED
    BY <2>1, <2>2 DEF CallsLeft, Busy
<1>2. ASSUME NEW ok \in BOOLEAN, MovementPublished(w, ok)
      PROVE  /\ Busy(w) /\ CallsLeft(jobs'[w]) < CallsLeft(jobs[w])
             /\ \A v \in Workers \ {w} : jobs'[v] = jobs[v]
  <2>1. /\ jobs[w].at = "ledger"
        /\ jobs' = [jobs EXCEPT ![w] = Job(jobs[w].key, "announce", NoHeader)]
    BY <1>2 DEF MovementPublished
  <2>2. jobs'[w].at = "announce" /\ \A v \in Workers \ {w} : jobs'[v] = jobs[v]
    BY <1>0, <2>1 DEF Job
  <2> QED
    BY <2>1, <2>2 DEF CallsLeft, Busy
<1>3. ASSUME jobs' = [jobs EXCEPT ![w] = Free], jobs[w].at \in {"gateway", "announce"}
      PROVE  /\ Busy(w) /\ CallsLeft(jobs'[w]) < CallsLeft(jobs[w])
             /\ \A v \in Workers \ {w} : jobs'[v] = jobs[v]
  <2>1. jobs'[w].at = "free" /\ \A v \in Workers \ {w} : jobs'[v] = jobs[v]
    BY <1>0, <1>3 DEF Free
  <2> QED
    BY <1>3, <2>1 DEF CallsLeft, Busy
<1>4. GatewayFails(w) => jobs' = [jobs EXCEPT ![w] = Free] /\ jobs[w].at = "gateway"
  BY DEF GatewayFails
<1>5. \A ok \in BOOLEAN : EventPublished(w, ok) =>
        jobs' = [jobs EXCEPT ![w] = Free] /\ jobs[w].at = "announce"
  BY DEF EventPublished
<1> QED
  BY <1>1, <1>2, <1>3, <1>4, <1>5 DEF JobStep

\* An operation starts on an idle worker and leaves the others alone.
LEMMA StartsOnIdle ==
    ASSUME TypeOK, NEW w \in Workers,
           \/ \E k \in Webhooks : ReceiveWebhook(w, k)
           \/ \E k \in GatewayCalls : CallGateway(w, k)
           \/ \E k \in BookingKeys, h \in Headers \cup {NoHeader} : RequestBooking(w, k, h)
    PROVE  ~Busy(w) /\ \A v \in Workers \ {w} : jobs'[v] = jobs[v]
<1>1. ~Busy(w) /\ (jobs' = jobs \/ \E j : jobs' = [jobs EXCEPT ![w] = j])
  BY DEF ReceiveWebhook, Delivers, CallGateway, RequestBooking
<1> QED
  BY <1>1 DEF TypeOK

LEMMA OperationsStepDown ==
    ASSUME TypeOK, [Next]_vars
    PROVE  OperationsRunDown
<1>1. ASSUME NEW w \in Workers, Busy(w)
      PROVE  jobs'[w] = jobs[w] \/ CallsLeft(jobs'[w]) < CallsLeft(jobs[w])
  <2>1. ASSUME NEW v \in Workers, JobStep(v)
        PROVE  jobs'[w] = jobs[w] \/ CallsLeft(jobs'[w]) < CallsLeft(jobs[w])
    BY <2>1, ReturnedCallCounts
  <2>2. ASSUME NEW v \in Workers,
               \/ \E k \in Webhooks : ReceiveWebhook(v, k)
               \/ \E k \in GatewayCalls : CallGateway(v, k)
               \/ \E k \in BookingKeys, h \in Headers \cup {NoHeader} : RequestBooking(v, k, h)
        PROVE  jobs'[w] = jobs[w]
    BY <1>1, <2>2, StartsOnIdle
  <2>3. ASSUME \/ \E k \in Keys : ExpireKey(k)
               \/ \E h \in Headers : ExpireHeader(h)
               \/ \E k \in Webhooks : GatewayStops(k)
               \/ UNCHANGED vars
        PROVE  jobs'[w] = jobs[w]
    BY <2>3 DEF ExpireKey, ExpireHeader, GatewayStops, vars
  <2>4. ASSUME Restart
        PROVE  CallsLeft(jobs'[w]) < CallsLeft(jobs[w])
    <3>1. jobs'[w] = Free
      BY <2>4 DEF Restart
    <3>2. CallsLeft(Free) = 0
      BY DEF CallsLeft, Free
    <3> QED
      BY <1>1, <3>1, <3>2, CallsAreCounted
  <2> QED
    BY <2>1, <2>2, <2>3, <2>4 DEF Next
<1> QED
  BY <1>1, ReturnedCallCounts DEF OperationsRunDown

\* An operation awaits at most three network calls and is then over, so what
\* holds a key or a header is held for three calls at most; only a new delivery
\* takes an unanswered webhook up again (razorpay.handler.ts:51-81,
\* refund.service.ts:246-310).
THEOREM OperationsEnd ==
    Spec => [](\A w \in Workers : CallsLeft(jobs[w]) \in 0..3
                                  /\ (CallsLeft(jobs[w]) = 0 <=> ~Busy(w)))
            /\ [][OperationsRunDown]_vars
<1>1. TypeOK => \A w \in Workers : CallsLeft(jobs[w]) \in 0..3
                                   /\ (CallsLeft(jobs[w]) = 0 <=> ~Busy(w))
  BY CallsAreCounted
<1>2. TypeOK /\ [Next]_vars => OperationsRunDown
  BY OperationsStepDown
<1> QED
  BY PaymentsTypes, <1>1, <1>2, PTL DEF Spec

=============================================================================
