-------------------------- MODULE EventStoreProofs --------------------------
(***************************************************************************)
(* Theorems of EventStore, for any number of events, keys and any          *)
(* maxEvents.  The inductive invariant StoreInv puts the properties        *)
(* together: the index lists agree with the log only because the log is    *)
(* the unbroken run of the newest appends, which makes the next id larger  *)
(* than any listed one, and the oldest id the smallest.                    *)
(* At the end, the lemmas about the entries of DeadLetters, for any        *)
(* deliveries and any retry limit: both kinds of consumption use them.     *)
(***************************************************************************)
EXTENDS EventStore, DeadLetters, SequenceTheorems, TLAPS

Ascends(s) == \A i, j \in 1..Len(s) : i < j => s[i] < s[j]

Elements(s) == {s[i] : i \in 1..Len(s)}

\* What is known of the stamps between the calls of append(), on a host whose
\* clock is not set back.
StampsAscend ==
    ~ClockStepsBack =>
        \A i, j \in 1..Len(appended) :
            /\ i < j => appended[i].sequence <= appended[j].sequence
            /\ appended[i].sequence <= now

StoreInv == StoreTypeOK /\ RetainsNewestRun /\ IndexAgreesWithLog /\ StampsAscend

-----------------------------------------------------------------------------
(* The list operations of persist().                                        *)

\* Pushing a new greatest id keeps a list ascending and adds just that id.
LEMMA AppendAscends ==
    ASSUME NEW n \in Nat, NEW s \in Seq(1..n), Ascends(s)
    PROVE  /\ Append(s, n + 1) \in Seq(1..(n + 1))
           /\ Ascends(Append(s, n + 1))
           /\ Elements(Append(s, n + 1)) = Elements(s) \cup {n + 1}
<1> DEFINE t == Append(s, n + 1)
<1>1. s \in Seq(1..(n + 1))
  BY SeqMonotonic, 1..n \subseteq 1..(n + 1)
<1>2. /\ t \in Seq(1..(n + 1)) /\ Len(t) = Len(s) + 1
      /\ \A i \in 1..Len(s) : t[i] = s[i]
      /\ t[Len(s) + 1] = n + 1
  BY <1>1, AppendProperties, n + 1 \in 1..(n + 1)
<1>3. Len(s) \in Nat /\ \A i \in 1..Len(s) : s[i] \in 1..n
  BY LenProperties, ElementOfSeq
<1> HIDE DEF t
<1>4. Ascends(t)
  <2> SUFFICES ASSUME NEW i \in 1..Len(t), NEW j \in 1..Len(t), i < j
               PROVE  t[i] < t[j]
    BY DEF Ascends
  <2>1. i \in 1..Len(s) /\ t[i] = s[i] /\ s[i] \in 1..n
    BY <1>2, <1>3
  <2>2. CASE j = Len(s) + 1
    BY <2>1, <2>2, <1>2
  <2>3. CASE j \in 1..Len(s)
    BY <2>1, <2>3, <1>2 DEF Ascends
  <2>4. Len(t) = Len(s) + 1
    BY <1>2
  <2>5. \A m \in Nat : \A k \in 1..(m + 1) : k = m + 1 \/ k \in 1..m
    OBVIOUS
  <2>6. j = Len(s) + 1 \/ j \in 1..Len(s)
    BY <2>4, <2>5, <1>3
  <2> QED
    BY <2>2, <2>3, <2>6
<1>5. Elements(t) \subseteq Elements(s) \cup {n + 1}
  <2>1. \A i \in 1..Len(t) : i \in 1..Len(s) \/ i = Len(s) + 1
    BY <1>2, <1>3
  <2>2. \A i \in 1..Len(t) : t[i] \in Elements(s) \cup {n + 1}
    BY <2>1, <1>2 DEF Elements
  <2> QED
    BY <2>2 DEF Elements
<1>6. Elements(s) \cup {n + 1} \subseteq Elements(t)
  <2>1. \A i \in 1..Len(s) : i \in 1..Len(t) /\ t[i] = s[i]
    BY <1>2, <1>3
  <2>2. Len(s) + 1 \in 1..Len(t)
    BY <1>2, <1>3
  <2> QED
    BY <2>1, <2>2, <1>2 DEF Elements
<1> QED
  BY <1>2, <1>4, <1>5, <1>6 DEF t

\* Array.splice() keeps the order and drops the one element it is given.
LEMMA SpliceAscends ==
    ASSUME NEW n \in Nat, NEW s \in Seq(1..n), Ascends(s), NEW i \in 1..Len(s)
    PROVE  /\ Splice(s, i) \in Seq(1..n)
           /\ Ascends(Splice(s, i))
           /\ Elements(Splice(s, i)) = Elements(s) \ {s[i]}
<1> DEFINE t == Splice(s, i)
<1>1. Len(s) \in Nat /\ \A j \in 1..Len(s) : s[j] \in 1..n
  BY LenProperties, ElementOfSeq
<1>2. t \in [1..(Len(s) - 1) -> 1..n]
  BY <1>1 DEF Splice
<1>3. Len(s) - 1 \in Nat
  BY <1>1
<1>4. t \in Seq(1..n)
  BY <1>2, <1>3, SeqDef
<1>5. Len(t) = Len(s) - 1
  BY <1>2, <1>3, <1>4, LenProperties
<1>6. \A j \in 1..Len(t) : t[j] = IF j < i THEN s[j] ELSE s[j + 1]
  BY <1>5, <1>2 DEF Splice
<1> HIDE DEF t
<1>7. Ascends(t)
  <2> SUFFICES ASSUME NEW j \in 1..Len(t), NEW k \in 1..Len(t), j < k
               PROVE  t[j] < t[k]
    BY DEF Ascends
  <2>1. j \in 1..Len(s) /\ k \in 1..Len(s) /\ j + 1 \in 1..Len(s) /\ k + 1 \in 1..Len(s)
    BY <1>1, <1>5
  <2>2. /\ t[j] = IF j < i THEN s[j] ELSE s[j + 1]
        /\ t[k] = IF k < i THEN s[k] ELSE s[k + 1]
    BY <1>6
  <2>3. s[j] < s[k] /\ s[j] < s[k + 1] /\ s[j + 1] < s[k + 1]
    BY <2>1 DEF Ascends
  <2>4. ~(j < i) => ~(k < i)
    BY <2>1
  <2> QED
    BY <2>2, <2>3, <2>4
<1>8. Elements(t) \subseteq Elements(s) \ {s[i]}
  <2> SUFFICES ASSUME NEW j \in 1..Len(t)
               PROVE  t[j] \in Elements(s) /\ t[j] # s[i]
    BY DEF Elements
  <2>1. CASE j < i
    <3>1. j \in 1..Len(s) /\ t[j] = s[j]
      BY <2>1, <1>1, <1>5, <1>6
    <3>2. s[j] < s[i] /\ s[j] \in 1..n /\ s[i] \in 1..n
      BY <2>1, <3>1, <1>1 DEF Ascends
    <3> QED
      BY <3>1, <3>2 DEF Elements
  <2>2. CASE ~(j < i)
    <3>1. j + 1 \in 1..Len(s) /\ i < j + 1 /\ t[j] = s[j + 1]
      BY <2>2, <1>1, <1>5, <1>6
    <3> QED
      BY <3>1, <1>1 DEF Elements, Ascends
  <2> QED
    BY <2>1, <2>2
<1>9. Elements(s) \ {s[i]} \subseteq Elements(t)
  <2> SUFFICES ASSUME NEW j \in 1..Len(s), j # i
               PROVE  s[j] \in Elements(t)
    BY DEF Elements
  <2>1. CASE j < i
    <3>1. j \in 1..Len(t) /\ t[j] = s[j]
      BY <2>1, <1>1, <1>5, <1>6
    <3> QED
      BY <3>1 DEF Elements
  <2>2. CASE j > i
    <3>1. j - 1 \in 1..Len(t) /\ ~(j - 1 < i) /\ (j - 1) + 1 = j
      BY <2>2, <1>1, <1>5
    <3>2. t[j - 1] = s[j]
      BY <3>1, <1>6
    <3> QED
      BY <3>1, <3>2 DEF Elements
  <2> QED
    BY <2>1, <2>2, <1>1
<1> QED
  BY <1>4, <1>7, <1>8, <1>9 DEF t

\* Array.indexOf() finds an element that is there, and 0 stands for "no".
LEMMA IndexOfFinds ==
    ASSUME NEW n \in Nat, NEW s \in Seq(1..n), Ascends(s), NEW x
    PROVE  /\ x \in Elements(s) =>
                  IndexOf(s, x) \in 1..Len(s) /\ s[IndexOf(s, x)] = x
           /\ x \notin Elements(s) => IndexOf(s, x) = 0
<1>1. Len(s) \in Nat /\ \A j \in 1..Len(s) : s[j] \in 1..n
  BY LenProperties, ElementOfSeq
<1>2. ASSUME x \in Elements(s)
      PROVE  IndexOf(s, x) \in 1..Len(s) /\ s[IndexOf(s, x)] = x
  <2>1. PICK i \in 1..Len(s) : s[i] = x
    BY <1>2 DEF Elements
  <2>2. \A j \in 1..(i - 1) : s[j] # x
    BY <2>1, <1>1 DEF Ascends
  <2> QED
    BY <2>1, <2>2 DEF IndexOf
<1>3. ASSUME x \notin Elements(s) PROVE IndexOf(s, x) = 0
  BY <1>3 DEF Elements, IndexOf
<1> QED
  BY <1>2, <1>3

\* Removing an id from an ascending list removes it and nothing else.
LEMMA RemoveIdAscends ==
    ASSUME NEW n \in Nat, NEW s \in Seq(1..n), Ascends(s), NEW x
    PROVE  /\ RemoveId(s, x) \in Seq(1..n)
           /\ Ascends(RemoveId(s, x))
           /\ Elements(RemoveId(s, x)) = Elements(s) \ {x}
<1>1. CASE x \in Elements(s)
  <2>1. IndexOf(s, x) \in 1..Len(s) /\ s[IndexOf(s, x)] = x
    BY <1>1, IndexOfFinds
  <2>2. IndexOf(s, x) # 0
    BY <2>1, LenProperties
  <2> QED
    BY <2>1, <2>2, SpliceAscends DEF RemoveId
<1>2. CASE x \notin Elements(s)
  BY <1>2, IndexOfFinds DEF RemoveId
<1> QED
  BY <1>1, <1>2

-----------------------------------------------------------------------------
(* The invariant.                                                           *)

\* A list that counts up by one is an interval of ids.
LEMMA CountingUp ==
    ASSUME NEW s, NEW low \in Int, NEW high \in Int, Len(s) = high - low, low <= high,
           \A i \in 1..Len(s) : s[i] = low + i
    PROVE  Elements(s) = (low + 1)..high
<1>1. Elements(s) \subseteq (low + 1)..high
  BY DEF Elements
<1>2. ASSUME NEW x \in (low + 1)..high
      PROVE  x \in Elements(s)
  <2>1. x - low \in 1..Len(s) /\ s[x - low] = x
    OBVIOUS
  <2> QED
    BY <2>1 DEF Elements
<1> QED
  BY <1>1, <1>2

LEMMA InitHolds == StoreInit => StoreInv
<1> SUFFICES ASSUME StoreInit PROVE StoreInv
  OBVIOUS
<1>1. StoreTypeOK
  BY EmptySeq, BoundsAssumption DEF StoreInit, StoreTypeOK
<1>2. RetainsNewestRun
  BY MaxEventsAssumption DEF StoreInit, RetainsNewestRun
<1>3. IndexAgreesWithLog
  BY DEF StoreInit, IndexAgreesWithLog, Listed, Retained
<1>4. StampsAscend
  BY DEF StoreInit, StampsAscend
<1> QED
  BY <1>1, <1>2, <1>3, <1>4 DEF StoreInv

LEMMA AppendCallKeeps ==
    ASSUME StoreInv, NEW t \in EventTypes, NEW c \in Correlations,
           NEW a \in Aggregates \cup {NoAggregate}, AppendCall(t, c, a)
    PROVE  StoreInv'
<1> DEFINE env == [event_type |-> t, correlation_id |-> c, aggregate |-> a, sequence |-> now]
           old == Len(appended)
<1>1. appended \in Seq(Envelope) /\ env \in Envelope /\ now \in Nat /\ now \in 0..MaxTime
  BY BoundsAssumption DEF StoreInv, StoreTypeOK, Envelope
<1>2. /\ appended' \in Seq(Envelope) /\ Len(appended') = old + 1
      /\ \A i \in 1..old : appended'[i] = appended[i]
      /\ appended'[old + 1] = env
  BY <1>1, AppendProperties DEF AppendCall, Stamp
<1>3. /\ persisted' = persisted /\ eventOrder' = eventOrder /\ index' = index
      /\ acknowledged' = acknowledged /\ now' = now /\ old < MaxAppends
  BY DEF AppendCall
<1>4. old \in Nat /\ persisted \in 0..old /\ old + 1 <= MaxAppends /\ MaxAppends \in Nat
  BY <1>1, <1>3, LenProperties, BoundsAssumption DEF StoreInv, StoreTypeOK
<1> HIDE DEF old
<1>5. StoreTypeOK'
  BY <1>2, <1>3, <1>4 DEF StoreInv, StoreTypeOK
<1>6. RetainsNewestRun'
  BY <1>3 DEF StoreInv, RetainsNewestRun
<1>7. IndexAgreesWithLog'
  <2>1. Retained \subseteq 1..persisted
    BY ElementOfSeq DEF StoreInv, StoreTypeOK, Retained
  <2>2. \A x \in Retained : appended'[x] = appended[x]
    <3>1. \A x \in Retained : x \in 1..old
      BY <2>1, <1>4
    <3> QED
      BY <3>1, <1>2
  <2>3. Retained' = Retained /\ \A k : Listed(k)' = Listed(k)
    BY <1>3 DEF Retained, Listed
  <2>4. \A x \in Retained : KeysOf(x)' = KeysOf(x)
    BY <2>2 DEF KeysOf
  <2> QED
    BY <2>3, <2>4, <1>3 DEF StoreInv, IndexAgreesWithLog
<1>8. StampsAscend'
  <2>s. SUFFICES ASSUME ~ClockStepsBack PROVE StampsAscend'
    BY DEF StampsAscend
  <2>0. \A i \in 1..old : appended[i] \in Envelope
    BY <1>1, ElementOfSeq DEF old
  <2>1. \A i \in 1..old : appended[i].sequence \in Nat /\ appended[i].sequence <= now
    BY <2>0, <2>s DEF StoreInv, StampsAscend, Envelope, old
  <2>2. env.sequence = now
    OBVIOUS
  <2> SUFFICES ASSUME NEW i \in 1..(old + 1), NEW j \in 1..(old + 1)
               PROVE  /\ i < j => appended'[i].sequence <= appended'[j].sequence
                      /\ appended'[i].sequence <= now
    BY <1>2, <1>3 DEF StampsAscend
  <2>3. CASE i \in 1..old /\ j \in 1..old
    BY <2>3, <2>s, <1>2 DEF StoreInv, StampsAscend, old
  <2>4. CASE i \in 1..old /\ j = old + 1
    BY <2>4, <2>1, <2>2, <1>1, <1>2
  <2>5. CASE i = old + 1
    BY <2>5, <2>2, <1>1, <1>2, <1>4
  <2> QED
    BY <2>3, <2>4, <2>5, <1>4
<1> QED
  BY <1>5, <1>6, <1>7, <1>8 DEF StoreInv

LEMMA PersistKeeps ==
    ASSUME StoreInv, Persist
    PROVE  StoreInv'
<1> DEFINE e == persisted + 1
           N == Len(eventOrder)
           order == Append(eventOrder, e)
           listed == [k \in Keys |-> IF k \in KeysOf(e) THEN Append(index[k], e)
                                     ELSE index[k]]
           run(low, high, k) == {x \in low..high : k \in KeysOf(x)}
<1>1. /\ persisted \in Nat /\ N \in Nat /\ N <= persisted /\ N <= MaxEvents
      /\ eventOrder \in Seq(1..persisted) /\ index \in [Keys -> Seq(1..persisted)]
      /\ e \in 1..Len(appended) /\ MaxEvents \in Nat
  BY MaxEventsAssumption, LenProperties
  DEF StoreInv, StoreTypeOK, RetainsNewestRun, Persist
<1>2. /\ appended' = appended /\ now' = now /\ persisted' = e
      /\ acknowledged' = acknowledged \cup {e}
  BY DEF Persist
<1>3. \A k : KeysOf(k)' = KeysOf(k)
  BY <1>2 DEF KeysOf
<1>4. /\ order \in Seq(1..e) /\ Len(order) = N + 1
      /\ \A i \in 1..(N + 1) : order[i] = (e - (N + 1)) + i
  <2>1. eventOrder \in Seq(1..e) /\ e \in 1..e
    BY <1>1, SeqMonotonic
  <2>2. /\ order \in Seq(1..e) /\ Len(order) = N + 1 /\ order[N + 1] = e
        /\ \A i \in 1..N : order[i] = eventOrder[i]
    BY <2>1, AppendProperties
  <2>3. \A i \in 1..N : eventOrder[i] = (persisted - N) + i
    BY DEF StoreInv, RetainsNewestRun
  <2>4. \A i \in 1..(N + 1) : i \in 1..N \/ i = N + 1
    BY <1>1
  <2>5. \A i \in 1..N : order[i] = (e - (N + 1)) + i
    BY <2>2, <2>3, <1>1
  <2>6. e = (e - (N + 1)) + (N + 1)
    BY <1>1
  <2> QED
    BY <2>2, <2>4, <2>5, <2>6
<1>5. \A k \in Keys : /\ listed[k] \in Seq(1..e) /\ Ascends(listed[k])
                      /\ Elements(listed[k]) = run(e - N, e, k)
  <2> SUFFICES ASSUME NEW k \in Keys
               PROVE  /\ listed[k] \in Seq(1..e) /\ Ascends(listed[k])
                      /\ Elements(listed[k]) = run(e - N, e, k)
    OBVIOUS
  <2>0. Retained = (persisted - N + 1)..persisted
    <3> DEFINE low == persisted - N
    <3>1. /\ low \in Int /\ low <= persisted /\ N = persisted - low
          /\ \A i \in 1..Len(eventOrder) : eventOrder[i] = low + i
      BY <1>1 DEF StoreInv, RetainsNewestRun
    <3> HIDE DEF low
    <3>2. Elements(eventOrder) = (low + 1)..persisted
      BY <3>1, <1>1, CountingUp
    <3> QED
      BY <3>2 DEF Retained, Elements, low
  <2>1. /\ index[k] \in Seq(1..persisted) /\ Ascends(index[k])
        /\ Elements(index[k]) = run(persisted - N + 1, persisted, k)
    BY <1>1, <2>0 DEF StoreInv, IndexAgreesWithLog, Ascends, Elements, Listed
  <2>2. run(e - N, e, k) = run(persisted - N + 1, persisted, k)
                              \cup (IF k \in KeysOf(e) THEN {e} ELSE {})
    BY <1>1
  <2>3. CASE k \in KeysOf(e)
    BY <2>1, <2>2, <2>3, <1>1, AppendAscends
  <2>4. CASE k \notin KeysOf(e)
    <3>1. index[k] \in Seq(1..e)
      BY <2>1, <1>1, SeqMonotonic, 1..persisted \subseteq 1..e
    <3> QED
      BY <3>1, <2>1, <2>2, <2>4
  <2> QED
    BY <2>3, <2>4
<1>6. /\ appended' \in Seq(Envelope) /\ Len(appended') <= MaxAppends
      /\ persisted' \in 0..Len(appended') /\ acknowledged' \subseteq 1..persisted'
      /\ now' \in 0..MaxTime
  BY <1>1, <1>2 DEF StoreInv, StoreTypeOK
<1>7. StampsAscend'
  BY <1>2 DEF StoreInv, StampsAscend
<1>8. CASE ~Overflows(order)
  <2>1. eventOrder' = order /\ index' = listed
    BY <1>8 DEF Persist
  <2>2. RetainsNewestRun'
    BY <2>1, <1>1, <1>2, <1>4, <1>8 DEF RetainsNewestRun, Overflows
  <2>3. StoreTypeOK'
    BY <2>1, <1>2, <1>4, <1>5, <1>6 DEF StoreTypeOK
  <2>4. Retained' = (e - N)..e
    <3> DEFINE low == e - (N + 1)
    <3>1. /\ low \in Int /\ low <= e /\ Len(order) = e - low /\ e \in Int /\ low + 1 = e - N
          /\ \A i \in 1..Len(order) : order[i] = low + i
      BY <1>1, <1>4
    <3> HIDE DEF low
    <3>2. Elements(order) = (low + 1)..e
      BY <3>1, CountingUp
    <3> QED
      BY <3>1, <3>2, <2>1 DEF Retained, Elements
  <2>5. IndexAgreesWithLog'
    <3> SUFFICES ASSUME NEW k \in Keys
                 PROVE  /\ Ascends(index'[k])
                        /\ Elements(index'[k]) = {x \in Retained' : k \in KeysOf(x)'}
      BY DEF IndexAgreesWithLog, Ascends, Elements, Listed
    <3> QED
      BY <2>1, <2>4, <1>3, <1>5
  <2> QED
    BY <2>2, <2>3, <2>5, <1>7 DEF StoreInv
<1>9. CASE Overflows(order)
  <2> DEFINE oldest == Head(order)
  <2>1. /\ eventOrder' = Tail(order)
        /\ index' = [k \in Keys |-> IF k \in KeysOf(oldest)
                                    THEN RemoveId(listed[k], oldest) ELSE listed[k]]
    BY <1>9 DEF Persist
  <2>2. oldest = e - N
    <3>1. oldest = order[1]
      BY <1>4, <1>1, order # <<>>
    <3> QED
      BY <3>1, <1>4, <1>1
  <2>3. /\ eventOrder' \in Seq(1..e) /\ Len(eventOrder') = N
        /\ \A i \in 1..N : eventOrder'[i] = order[i + 1]
    <3>1. order # <<>>
      BY <1>1, <1>4
    <3> QED
      BY <3>1, <2>1, <1>1, <1>4, HeadTailProperties
  <2>9. \A i \in 1..N : eventOrder'[i] = (e - N) + i
    <3>1. \A i \in 1..N : i + 1 \in 1..(N + 1) /\ (e - (N + 1)) + (i + 1) = (e - N) + i
      BY <1>1
    <3> QED
      BY <3>1, <2>3, <1>4
  <2>4. RetainsNewestRun'
    BY <2>3, <2>9, <1>1, <1>2 DEF RetainsNewestRun
  <2>5. \A k \in Keys : /\ index'[k] \in Seq(1..e) /\ Ascends(index'[k])
                        /\ Elements(index'[k]) = run(e - N + 1, e, k)
    <3> SUFFICES ASSUME NEW k \in Keys
                 PROVE  /\ index'[k] \in Seq(1..e) /\ Ascends(index'[k])
                        /\ Elements(index'[k]) = run(e - N + 1, e, k)
      OBVIOUS
    <3>1. run(e - N + 1, e, k) = run(e - N, e, k) \ {oldest}
      BY <2>2, <1>1
    <3>2. k \notin KeysOf(oldest) => run(e - N, e, k) \ {oldest} = run(e - N, e, k)
      OBVIOUS
    <3>3. CASE k \in KeysOf(oldest)
      <4>1. index'[k] = RemoveId(listed[k], oldest)
        BY <2>1, <3>3
      <4> QED
        BY <4>1, <3>1, <1>1, <1>5, RemoveIdAscends
    <3>4. CASE k \notin KeysOf(oldest)
      <4>1. index'[k] = listed[k]
        BY <2>1, <3>4
      <4> QED
        BY <4>1, <3>1, <3>2, <3>4, <1>5
    <3> QED
      BY <3>3, <3>4
  <2>6. StoreTypeOK'
    <3>1. index' \in [Keys -> Seq(1..e)]
      BY <2>1, <2>5
    <3> QED
      BY <3>1, <2>3, <1>2, <1>6 DEF StoreTypeOK
  <2>7. Retained' = (e - N + 1)..e
    <3> DEFINE low == e - N
    <3>1. /\ low \in Int /\ low <= e /\ N = e - low /\ e \in Int
          /\ \A i \in 1..Len(eventOrder') : eventOrder'[i] = low + i
      BY <1>1, <2>3, <2>9
    <3> HIDE DEF low
    <3>2. Elements(eventOrder') = (low + 1)..e
      BY <3>1, <2>3, CountingUp
    <3> QED
      BY <3>2 DEF Retained, Elements, low
  <2>8. IndexAgreesWithLog'
    <3> SUFFICES ASSUME NEW k \in Keys
                 PROVE  /\ Ascends(index'[k])
                        /\ Elements(index'[k]) = {x \in Retained' : k \in KeysOf(x)'}
      BY DEF IndexAgreesWithLog, Ascends, Elements, Listed
    <3> QED
      BY <2>7, <2>5, <1>3
  <2> QED
    BY <2>4, <2>6, <2>8, <1>7 DEF StoreInv
<1> QED
  BY <1>8, <1>9

LEMMA RestartKeeps ==
    ASSUME StoreInv, StoreRestart
    PROVE  StoreInv'
<1>1. Len(appended) \in Nat
  BY LenProperties DEF StoreInv, StoreTypeOK
<1>2. StoreTypeOK'
  BY <1>1, EmptySeq DEF StoreInv, StoreTypeOK, StoreRestart
<1>3. RetainsNewestRun'
  BY <1>1, MaxEventsAssumption DEF RetainsNewestRun, StoreRestart
<1>4. IndexAgreesWithLog'
  BY DEF IndexAgreesWithLog, StoreRestart, Listed, Retained
<1>5. StampsAscend'
  BY DEF StoreInv, StampsAscend, StoreRestart
<1> QED
  BY <1>2, <1>3, <1>4, <1>5 DEF StoreInv

LEMMA TickKeeps ==
    ASSUME StoreInv, Tick
    PROVE  StoreInv'
<1>1. /\ now \in Nat /\ now' \in 0..MaxTime /\ now' \in Nat
      /\ ~ClockStepsBack => now <= now'
  BY BoundsAssumption DEF StoreInv, StoreTypeOK, Tick
<1>2. StoreTypeOK'
  BY <1>1 DEF StoreInv, StoreTypeOK, Tick
<1>3. RetainsNewestRun'
  BY DEF StoreInv, RetainsNewestRun, Tick
<1>4. IndexAgreesWithLog'
  <2>1. Retained' = Retained /\ \A k : Listed(k)' = Listed(k) /\ KeysOf(k)' = KeysOf(k)
    BY DEF Tick, Retained, Listed, KeysOf
  <2> QED
    BY <2>1 DEF StoreInv, IndexAgreesWithLog, Tick
<1>5. StampsAscend'
  <2>1. \A i \in 1..Len(appended) : appended[i] \in Envelope
    BY ElementOfSeq DEF StoreInv, StoreTypeOK
  <2>2. \A i \in 1..Len(appended) : appended[i].sequence \in Nat
    BY <2>1 DEF Envelope
  <2> QED
    BY <2>2, <1>1 DEF StoreInv, StampsAscend, Tick
<1> QED
  BY <1>2, <1>3, <1>4, <1>5 DEF StoreInv

LEMMA StutterKeeps ==
    ASSUME StoreInv, UNCHANGED storeVars
    PROVE  StoreInv'
<1> USE DEF storeVars
<1>1. Retained' = Retained /\ \A k : Listed(k)' = Listed(k) /\ KeysOf(k)' = KeysOf(k)
  BY DEF Retained, Listed, KeysOf
<1>2. StoreTypeOK'
  BY DEF StoreInv, StoreTypeOK
<1>3. RetainsNewestRun'
  BY DEF StoreInv, RetainsNewestRun
<1>4. IndexAgreesWithLog'
  BY <1>1 DEF StoreInv, IndexAgreesWithLog
<1>5. StampsAscend'
  BY DEF StoreInv, StampsAscend
<1> QED
  BY <1>2, <1>3, <1>4, <1>5 DEF StoreInv

LEMMA StepKeeps ==
    ASSUME StoreInv, [StoreNext]_storeVars
    PROVE  StoreInv'
<1>1. CASE \E t \in EventTypes, c \in Correlations, a \in Aggregates \cup {NoAggregate} :
              AppendCall(t, c, a)
  BY <1>1, AppendCallKeeps
<1>2. CASE Persist
  BY <1>2, PersistKeeps
<1>3. CASE StoreRestart
  BY <1>3, RestartKeeps
<1>4. CASE Tick
  BY <1>4, TickKeeps
<1>5. CASE UNCHANGED storeVars
  BY <1>5, StutterKeeps
<1> QED
  BY <1>1, <1>2, <1>3, <1>4, <1>5 DEF StoreNext

\* The invariant of the store holds in every reachable state: types, the
\* unbroken newest run, the agreement of the lists, and - unless the clock is
\* set back - the order of the stamps (event-store.ts, append() and persist()).
THEOREM StoreInvariant == StoreSpec => []StoreInv
<1>1. StoreInit => StoreInv
  BY InitHolds
<1>2. StoreInv /\ [StoreNext]_storeVars => StoreInv'
  BY StepKeeps
<1> QED
  BY <1>1, <1>2, PTL DEF StoreSpec

\* The state keeps its shape (event-store.ts, InMemoryEventStore).
THEOREM StoreTypeCorrect == StoreSpec => []StoreTypeOK
<1>1. StoreInv => StoreTypeOK
  BY DEF StoreInv
<1> QED
  BY <1>1, StoreInvariant, PTL

\* Eviction under overlapping appends leaves the newest events, without holes
\* and in order (event-store.ts, persist()).
THEOREM LogHasNoHoles == StoreSpec => []RetainsNewestRun
<1>1. StoreInv => RetainsNewestRun
  BY DEF StoreInv
<1> QED
  BY <1>1, StoreInvariant, PTL

\* The lists by domain, correlation and aggregate hold exactly the retained
\* events of their key, in log order (event-store.ts, persist()).
THEOREM IndexIsFaithful == StoreSpec => []IndexAgreesWithLog
<1>1. StoreInv => IndexAgreesWithLog
  BY DEF StoreInv
<1> QED
  BY <1>1, StoreInvariant, PTL

\* A page is what its list holds behind a place where the id it is to continue
\* after stands, or from the start.
StretchFrom(start, k, after, limit) ==
    /\ start = 0 \/ index[k][start] = after
    /\ after \in Listed(k) => start # 0
    /\ Len(GetByKey(k, after, limit)) \in 0..(Len(index[k]) - start)
    /\ \A m \in 1..Len(GetByKey(k, after, limit)) :
           GetByKey(k, after, limit)[m] = index[k][start + m]

\* Each page is such a stretch (getByDomain()).
LEMMA PageIsStretch ==
    ASSUME StoreInv, NEW k \in Keys, NEW after, NEW limit \in Nat \ {0}
    PROVE  \E start \in 0..Len(index[k]) : StretchFrom(start, k, after, limit)
<1> DEFINE ids == index[k]
           page == GetByKey(k, after, limit)
           start == IndexOf(ids, after)
           stop == IF start + limit < Len(ids) THEN start + limit ELSE Len(ids)
<1>1. ids \in Seq(1..persisted) /\ Ascends(ids) /\ persisted \in Nat
  BY LenProperties DEF StoreInv, StoreTypeOK, IndexAgreesWithLog, Ascends
<1>2. Len(ids) \in Nat /\ \A m \in 1..Len(ids) : ids[m] \in 1..persisted
  BY <1>1, LenProperties, ElementOfSeq
<1>3. /\ start = 0 \/ (start \in 1..Len(ids) /\ ids[start] = after)
      /\ after \in Listed(k) => start \in 1..Len(ids)
  BY <1>1, IndexOfFinds DEF Listed, Elements
<1>4. start \in 0..Len(ids) /\ stop \in start..Len(ids)
  BY <1>2, <1>3
<1>5. page = SubSeq(ids, start + 1, stop)
  BY DEF GetByKey
<1> HIDE DEF ids, start, stop, page
<1>6. /\ Len(page) = stop - start
      /\ \A m \in 1..(stop - start) : page[m] = ids[start + m]
  <2>1. \A m \in (start + 1)..stop : ids[m] \in 1..persisted
    BY <1>2, <1>4
  <2>2. start + 1 \in Int /\ stop \in Int
    BY <1>2, <1>4
  <2>3. /\ Len(page) = IF start + 1 <= stop THEN stop - (start + 1) + 1 ELSE 0
        /\ \A m \in 1..(stop - (start + 1) + 1) : page[m] = ids[(start + 1) + m - 1]
    BY <2>1, <2>2, <1>5, SubSeqProperties
  <2> QED
    BY <2>3, <1>2, <1>4
<1>7. stop - start \in 0..(Len(ids) - start) /\ (after \in Listed(k) => start # 0)
  BY <1>2, <1>3, <1>4
<1> QED
  BY <1>3, <1>4, <1>6, <1>7 DEF ids, page, StretchFrom

\* Whatever lies between the id a page continues after and an event the page
\* holds is on the page too, before that event - also when the id is no longer
\* held and the page starts over (getByDomain()).
LEMMA PageIsGapless ==
    ASSUME StoreInv, NEW k \in Keys, NEW after \in Nat, NEW limit \in Nat \ {0},
           NEW j \in 1..Len(GetByKey(k, after, limit)),
           NEW x \in Listed(k), after < x, x < GetByKey(k, after, limit)[j]
    PROVE  \E m \in 1..(j - 1) : GetByKey(k, after, limit)[m] = x
<1>0. PICK start \in 0..Len(index[k]) : StretchFrom(start, k, after, limit)
  BY PageIsStretch
<1> DEFINE ids == index[k]
           page == GetByKey(k, after, limit)
<1>1. ids \in Seq(1..persisted) /\ Ascends(ids) /\ persisted \in Nat
  BY LenProperties DEF StoreInv, StoreTypeOK, IndexAgreesWithLog, Ascends
<1>2. Len(ids) \in Nat /\ \A m \in 1..Len(ids) : ids[m] \in 1..persisted
  BY <1>1, LenProperties, ElementOfSeq
<1>3. /\ start \in 0..Len(ids)
      /\ start = 0 \/ ids[start] = after
      /\ Len(page) \in 0..(Len(ids) - start)
      /\ \A m \in 1..Len(page) : page[m] = ids[start + m]
  BY <1>0 DEF StretchFrom
<1>4. PICK p \in 1..Len(ids) : ids[p] = x
  BY DEF Listed
<1>5. j \in 1..Len(page) /\ x < page[j]
  OBVIOUS
<1> HIDE DEF ids, page
<1>6. start < p
  <2>1. CASE start = 0
    BY <2>1
  <2>2. CASE start # 0
    <3>1. start \in 1..Len(ids) /\ ids[start] < ids[p]
      BY <2>2, <1>2, <1>3, <1>4
    <3>2. p < start => ids[p] < ids[start]
      BY <3>1, <1>1 DEF Ascends
    <3>3. ids[start] \in 1..persisted /\ ids[p] \in 1..persisted
      BY <3>1, <1>2
    <3> QED
      BY <3>1, <3>2, <3>3, <1>1
  <2> QED
    BY <2>1, <2>2
<1>7. p < start + j
  <2>1. start + j \in 1..Len(ids) /\ x < ids[start + j]
    <3>1. Len(page) \in Nat /\ start + Len(page) <= Len(ids)
      BY <1>2, <1>3
    <3>2. start + j \in 1..Len(ids)
      BY <1>2, <1>3, <1>5, <3>1
    <3>3. page[j] = ids[start + j]
      BY <1>3, <1>5
    <3> QED
      BY <3>2, <3>3, <1>5
  <2>2. start + j < p => ids[start + j] < ids[p]
    BY <2>1, <1>4, <1>1 DEF Ascends
  <2> QED
    BY <2>1, <2>2, <1>2, <1>4
<1>8. p - start \in 1..(j - 1) /\ p - start \in 1..Len(page) /\ start + (p - start) = p
  BY <1>2, <1>3, <1>5, <1>6, <1>7
<1>9. page[p - start] = x
  BY <1>3, <1>4, <1>8
<1> QED
  BY <1>8, <1>9 DEF page

\* A page after an event that is still listed skips nothing (event-store.ts,
\* getByDomain()).
THEOREM PagesAreGapless == StoreSpec => []ReadsAreGapless
<1>1. ASSUME StoreInv PROVE ReadsAreGapless
  <2> SUFFICES ASSUME NEW k \in Keys, NEW after \in Retained, NEW limit \in 1..MaxEvents,
                      NEW i \in 1..Len(GetByKey(k, after, limit)),
                      NEW x \in Listed(k), x > after,
                      x <= GetByKey(k, after, limit)[i]
               PROVE  \E j \in 1..Len(GetByKey(k, after, limit)) :
                          x = GetByKey(k, after, limit)[j]
    BY DEF ReadsAreGapless
  <2> DEFINE page == GetByKey(k, after, limit)
  <2>1. CASE x = page[i]
    BY <2>1
  <2>2. CASE x # page[i]
    <3>1. limit \in Nat \ {0} /\ after \in Nat
      BY <1>1, MaxEventsAssumption, ElementOfSeq DEF StoreInv, StoreTypeOK, Retained
    <3>2. Len(index[k]) \in Nat /\ \A m \in 1..Len(index[k]) : index[k][m] \in Nat
      BY <1>1, LenProperties, ElementOfSeq DEF StoreInv, StoreTypeOK
    <3>3. Len(page) \in Nat /\ page[i] \in Nat
      <4>1. PICK start \in 0..Len(index[k]) : StretchFrom(start, k, after, limit)
        BY <1>1, <3>1, PageIsStretch
      <4>2. /\ Len(page) \in 0..(Len(index[k]) - start)
            /\ page[i] = index[k][start + i]
        BY <4>1 DEF StretchFrom
      <4> QED
        BY <4>2, <3>2
    <3>4. after < x /\ x < page[i]
      BY <2>2, <3>1, <3>2, <3>3 DEF Listed
    <3>5. PICK m \in 1..(i - 1) : page[m] = x
      BY <1>1, <3>1, <3>4, PageIsGapless
    <3> QED
      BY <3>3, <3>5
  <2> QED
    BY <2>1, <2>2
<1> QED
  BY <1>1, StoreInvariant, PTL

-----------------------------------------------------------------------------
(* The entries of the dead letter queue.                                    *)

\* One more failure keeps an entry's shape and its status in step with its
\* count, and leaves no entry blank (recordFailure()).
LEMMA FailedIsEntry ==
    ASSUME NEW entry \in Entry
    PROVE  /\ Failed(entry) \in Entry
           /\ Failed(entry) # NoEntry
           /\ Failed(entry).status # "none" /\ Failed(entry).failure_count # 0
           /\ (entry.status = "none" <=> entry.failure_count = 0) =>
                 /\ Failed(entry).status = "pending" =>
                       Failed(entry).failure_count >= MaxRetries
                 /\ Failed(entry).status = "retrying" =>
                       \/ Failed(entry).failure_count < MaxRetries
                       \/ Failed(entry).failure_count = 1
<1>1. /\ MaxRetries \in Nat \ {0} /\ CountCap \in Nat /\ CountCap >= MaxRetries
      /\ entry.failure_count \in 0..CountCap
  BY RetriesAssumption DEF Entry
<1>2. CASE entry = NoEntry
  BY <1>1, <1>2 DEF Failed, Entry, NoEntry
<1>3. CASE entry # NoEntry
  BY <1>1, <1>3 DEF Failed, Entry, NoEntry
<1> QED
  BY <1>2, <1>3

\* recordFailure() of a pair touches no other pair.
LEMMA RecordFailureKeeps ==
    ASSUME DlqTypeOK, StatusMatchesCount, NEW d \in Deliveries, RecordFailure(d)
    PROVE  /\ DlqTypeOK' /\ StatusMatchesCount'
           /\ dlq'[d] # NoEntry
           /\ \A x \in Deliveries \ {d} : dlq'[x] = dlq[x]
<1>1. dlq' = [dlq EXCEPT ![d] = Failed(dlq[d])] /\ dlq[d] \in Entry
  BY DEF RecordFailure, DlqTypeOK
<1>2. dlq'[d] = Failed(dlq[d]) /\ \A x \in Deliveries \ {d} : dlq'[x] = dlq[x]
  BY <1>1 DEF DlqTypeOK
<1>3. DlqTypeOK'
  BY <1>1, FailedIsEntry DEF DlqTypeOK
<1>4. StatusMatchesCount'
  BY <1>1, <1>2, FailedIsEntry DEF StatusMatchesCount, DlqTypeOK
<1> QED
  BY <1>1, <1>2, <1>3, <1>4, FailedIsEntry

\* An operator's verdict on an entry keeps its shape and its count, and leaves
\* it on record (markResolved(), discard()).
LEMMA MarkKeeps ==
    ASSUME DlqTypeOK, StatusMatchesCount, NEW d \in Deliveries,
           MarkResolved(d) \/ MarkDiscarded(d)
    PROVE  /\ DlqTypeOK' /\ StatusMatchesCount'
           /\ \A x \in Deliveries :
                 /\ dlq'[x] = NoEntry <=> dlq[x] = NoEntry
                 /\ dlq'[x].status \in {"retrying", "pending"} => dlq'[x] = dlq[x]
<1>1. dlq[d] \in Entry
  BY DEF DlqTypeOK
<1>2. CASE UNCHANGED dlq
  BY <1>2 DEF DlqTypeOK, StatusMatchesCount
<1>3. ASSUME NEW verdict \in {"resolved", "discarded"}, HasEntry(d),
             dlq' = [dlq EXCEPT ![d].status = verdict]
      PROVE  /\ DlqTypeOK' /\ StatusMatchesCount'
             /\ \A x \in Deliveries :
                   /\ dlq'[x] = NoEntry <=> dlq[x] = NoEntry
                   /\ dlq'[x].status \in {"retrying", "pending"} => dlq'[x] = dlq[x]
  <2>1. /\ dlq'[d] = [dlq[d] EXCEPT !.status = verdict]
        /\ \A x \in Deliveries \ {d} : dlq'[x] = dlq[x]
    BY <1>3 DEF DlqTypeOK
  <2>2. /\ dlq'[d] \in Entry
        /\ dlq'[d].status = verdict /\ dlq'[d].failure_count = dlq[d].failure_count
    BY <1>1, <2>1 DEF Entry
  <2>3. DlqTypeOK'
    BY <1>1, <1>3, <2>2 DEF DlqTypeOK, Entry
  <2>4. dlq[d].failure_count # 0
    <3>1. dlq[d].status = "none" /\ dlq[d].failure_count = 0 => dlq[d] = NoEntry
      BY <1>1 DEF Entry, NoEntry
    <3> QED
      BY <3>1, <1>3 DEF StatusMatchesCount, HasEntry
  <2>5. dlq'[d] # NoEntry /\ dlq[d] # NoEntry
    BY <1>3, <2>2 DEF HasEntry, NoEntry
  <2>6. StatusMatchesCount'
    BY <2>1, <2>2, <2>4 DEF StatusMatchesCount
  <2> QED
    BY <2>1, <2>2, <2>3, <2>5, <2>6
<1> QED
  BY <1>2, <1>3 DEF MarkResolved, MarkDiscarded

=============================================================================
