--------------------------- MODULE RequestsProofs ---------------------------
(***************************************************************************)
(* Theorems of Requests, for any rows, handlers, runs of the expiry job    *)
(* and limits.  Whatever an operation still has to write or to announce is *)
(* remembered with its job: the copies are of open requests nobody had     *)
(* cancelled, and an event is one the state written calls for.  The last   *)
(* section bounds the steps of an operation.                               *)
(***************************************************************************)
EXTENDS Requests, FiniteSetTheorems, TLAPS

Processes == Workers \cup Sweepers
AllOps == Operations \cup {Create, Sweep}

\* The state s of a request has been announced, or its announcement was lost.
Covered(s, r) ==
    \/ s \in {"none", "draft"} \cup told[r]
    \/ s = "submitted" /\ "CREATED" \in told[r]
    \/ s = "expired" /\ "EXPIRED" \in told[r]
    \/ r \in unheard

CopyOK(op, copy) ==
    /\ copy.cancelledBy = "nobody"
    /\ copy.state \in OpenStates
    /\ op = Sweep \/ op.to \in NextStates(copy.state)

JobOK(w) ==
    /\ w \in Sweepers => jobs[w].at # "count"
    /\ jobs[w].at = "work" =>
         /\ \A r \in DOMAIN jobs[w].page : CopyOK(jobs[w].op, jobs[w].page[r])
         /\ jobs[w].event = "CANCELLED" => jobs[w].op.to = "cancelled"
         /\ jobs[w].event = "EXPIRED" => jobs[w].op.to = "expired"
         /\ jobs[w].event \notin {"none", FirstEvent(jobs[w].op)} =>
              Covered(jobs[w].op.to, jobs[w].id)
         /\ /\ jobs[w].event # "none" /\ jobs[w].op.to \in {"cancelled", "expired"}
            /\ jobs[w].id \notin raced
            => row[jobs[w].id].state = jobs[w].op.to

RowOK(r) ==
    /\ row[r].cancelledBy # "nobody" => row[r].state = "cancelled"
    /\ r \notin raced =>
         /\ "CANCELLED" \in told[r] => row[r].state = "cancelled"
         /\ "EXPIRED" \in told[r] => row[r].state = "expired"

Pending(w, r) ==
    /\ jobs[w].at = "work" /\ jobs[w].id = r
    /\ jobs[w].event # "none" /\ jobs[w].op.to = row[r].state

Published(r) == Covered(row[r].state, r) \/ \E w \in Processes : Pending(w, r)

\* While no two creates counted side by side, a count that passed still holds.
CapsInv ==
    ~crowded =>
      /\ Cardinality(OpenRequests \ raced) <= OpenLimit
      /\ Cardinality(today) <= TodayLimit
      /\ \A v, w \in Workers : jobs[v].at = "count" /\ jobs[w].at = "count" => v = w
      /\ \A w \in Workers : jobs[w].at = "count" =>
           /\ "open" \in jobs[w].passed => Cardinality(OpenRequests \ raced) < OpenLimit
           /\ "today" \in jobs[w].passed => Cardinality(today) < TodayLimit

RequestsInv ==
    /\ TypeOK
    /\ \A w \in Processes : JobOK(w)
    /\ \A r \in Requests : RowOK(r) /\ Published(r)
    /\ CapsInv

-----------------------------------------------------------------------------
(* The pieces. *)

LEMMA OpTypes ==
    /\ Create \in AllOps /\ Sweep \in AllOps
    /\ \A op \in AllOps : op.to \in States
    /\ \A op \in AllOps : FirstEvent(op) \in Events
    /\ \A op \in AllOps : FirstEvent(op) # "CANCELLED"
    /\ \A op \in AllOps : FirstEvent(op) = "EXPIRED" => op.to = "expired"
    /\ Create.to = "submitted" /\ FirstEvent(Create) = "CREATED"
    /\ Sweep.to = "expired" /\ FirstEvent(Sweep) = "EXPIRED"
  BY DEF AllOps, Operations, Create, Sweep, Op, States, FirstEvent, Events

LEMMA FollowUpTypes ==
    ASSUME NEW op \in AllOps, NEW e
    PROVE  /\ FollowUp(op, e) \in Events \cup {"none"}
           /\ FollowUp(op, e) = "CANCELLED" => op.to = "cancelled"
           /\ FollowUp(op, e) = "EXPIRED" => op.to = "expired"
  BY DEF FollowUp, Events, AllOps, Operations, Create, Sweep, Op

\* What the first event of an operation says covers the state it wrote.
LEMMA FirstEventCovers ==
    ASSUME NEW op \in AllOps
    PROVE  \/ FirstEvent(op) = "STATE_CHANGED"
           \/ FirstEvent(op) = "CREATED" /\ op.to = "submitted"
           \/ FirstEvent(op) = "EXPIRED" /\ op.to = "expired"
  BY DEF FirstEvent, AllOps, Operations, Create, Sweep, Op

LEMMA Transitions ==
    ASSUME NEW s
    PROVE  /\ NextStates(s) \subseteq States
           /\ NextStates(s) # {} => s \in OpenStates
  BY DEF NextStates, States, OpenStates

JobTypes ==
    {Free} \cup {Counting(seen) : seen \in SUBSET {"today", "open"}}
    \cup [at : {"work"}, op : AllOps, page : Pages,
          id : Requests, event : Events \cup {"none"}]

LEMMA WorkType ==
    ASSUME NEW op \in AllOps, NEW page \in Pages, NEW r \in Requests,
           NEW e \in Events \cup {"none"}
    PROVE  Working(op, page, r, e) \in JobTypes
  BY DEF Working, JobTypes

LEMMA CountType ==
    ASSUME NEW seen \in SUBSET {"today", "open"}
    PROVE  Counting(seen) \in JobTypes
  BY DEF JobTypes

LEMMA PageType ==
    ASSUME NEW S \in SUBSET Requests, NEW page \in [S -> RowType]
    PROVE  page \in Pages
  BY DEF Pages

LEMMA PageParts ==
    ASSUME NEW page \in Pages
    PROVE  DOMAIN page \subseteq Requests /\ \A r \in DOMAIN page : page[r] \in RowType
<1>1. PICK S \in SUBSET Requests : page \in [S -> RowType]
  BY DEF Pages
<1> QED
  BY <1>1

LEMMA WithoutType ==
    ASSUME NEW page \in Pages, NEW r
    PROVE  /\ Without(page, r) \in Pages
           /\ DOMAIN Without(page, r) = DOMAIN page \ {r}
           /\ \A x \in DOMAIN page \ {r} : Without(page, r)[x] = page[x]
<1>1. /\ DOMAIN Without(page, r) = DOMAIN page \ {r}
      /\ \A x \in DOMAIN page \ {r} : Without(page, r)[x] = page[x]
  BY DEF Without
<1>2. Without(page, r) \in [DOMAIN page \ {r} -> RowType]
  BY PageParts DEF Without
<1>3. DOMAIN page \ {r} \in SUBSET Requests
  BY PageParts
<1> QED
  BY <1>1, <1>2, <1>3, PageType

LEMMA RowIsTyped ==
    ASSUME NEW s \in States \cup {"none"}, NEW by \in {"nobody", "user", "admin"}
    PROVE  Row(s, by) \in RowType /\ Row(s, by).state = s /\ Row(s, by).cancelledBy = by
  BY DEF Row, RowType

LEMMA AppliedType ==
    ASSUME NEW op \in AllOps, NEW copy \in RowType
    PROVE  /\ Applied(op, copy) \in RowType
           /\ Applied(op, copy).state = op.to
           /\ Applied(op, copy).cancelledBy # "nobody" /\ copy.cancelledBy = "nobody" =>
                op.to = "cancelled"
<1> DEFINE by == CASE op.name = "cancel"      -> "user"
                   [] op.name = "adminCancel" -> "admin"
                   [] OTHER                   -> copy.cancelledBy
<1>1. by \in {"nobody", "user", "admin"}
  BY DEF RowType
<1>2. op.to \in States
  BY OpTypes
<1>3. by # "nobody" /\ copy.cancelledBy = "nobody" => op.to = "cancelled"
  BY DEF AllOps, Operations, Create, Sweep, Op
<1>4. Applied(op, copy) = Row(op.to, by)
  BY DEF Applied
<1> HIDE DEF by
<1> QED
  BY <1>1, <1>2, <1>3, <1>4, RowIsTyped

LEMMA JobKinds ==
    ASSUME TypeOK, NEW w \in Processes
    PROVE  /\ jobs[w] \in JobTypes
           /\ jobs[w].at \in {"free", "count", "work"}
           /\ jobs[w].at = "free" => jobs[w] = Free
           /\ jobs[w].at = "count" =>
                /\ jobs[w].passed \subseteq {"today", "open"}
                /\ jobs[w] = Counting(jobs[w].passed)
           /\ jobs[w].at = "work" =>
                /\ jobs[w].op \in AllOps /\ jobs[w].page \in Pages
                /\ jobs[w].id \in Requests /\ jobs[w].event \in Events \cup {"none"}
<1>1. jobs[w] \in JobTypes
  BY DEF TypeOK, JobTypes, Processes, AllOps
<1>2. CASE jobs[w] = Free
  BY <1>1, <1>2 DEF Free
<1>3. CASE \E seen \in SUBSET {"today", "open"} : jobs[w] = Counting(seen)
  BY <1>1, <1>3 DEF Counting
<1>4. CASE jobs[w] \in [at : {"work"}, op : AllOps, page : Pages,
                        id : Requests, event : Events \cup {"none"}]
  BY <1>1, <1>4
<1> QED
  BY <1>1, <1>2, <1>3, <1>4 DEF JobTypes

LEMMA GoOnType ==
    ASSUME NEW op \in AllOps, NEW page \in Pages, NEW r \in Requests
    PROVE  GoOn(op, page, r) \in JobTypes
<1>1. Free \in JobTypes
  BY DEF JobTypes
<1> QED
  BY <1>1, WorkType DEF GoOn

-----------------------------------------------------------------------------
(* Types. *)

RowTypes ==
    /\ row \in [Requests -> RowType]
    /\ today \subseteq Requests /\ overdue \subseteq Requests
    /\ told \in [Requests -> SUBSET (Events \cup States)]
    /\ unheard \subseteq Requests /\ raced \subseteq Requests
    /\ crowded \in BOOLEAN
    /\ calls \in 0..MaxCalls /\ losses \in 0..MaxLosses

LEMMA TypeParts == TypeOK <=> RowTypes /\ jobs \in [Processes -> JobTypes]
  BY DEF TypeOK, RowTypes, JobTypes, Processes, AllOps

LEMMA TypePartsNext == RowTypes' /\ (jobs \in [Processes -> JobTypes])' => TypeOK'
  BY DEF TypeOK, RowTypes, JobTypes, Processes, AllOps

LEMMA MoreCalls ==
    ASSUME RowTypes, calls < MaxCalls PROVE calls + 1 \in 0..MaxCalls
  BY RequestsAssumption DEF RowTypes

LEMMA MoreLosses ==
    ASSUME RowTypes, losses < MaxLosses PROVE losses + 1 \in 0..MaxLosses
  BY RequestsAssumption DEF RowTypes

LEMMA CreateTypes ==
    ASSUME TypeOK, NEW w \in Workers, StartCreate(w) PROVE TypeOK'
<1>1. RowTypes /\ jobs \in [Processes -> JobTypes] /\ w \in Processes
  BY TypeParts DEF Processes
<1>2. RowTypes'
  <2>1. crowded' \in BOOLEAN /\ calls' \in 0..MaxCalls
    BY <1>1, MoreCalls DEF StartCreate, RowTypes
  <2> QED
    BY <1>1, <2>1 DEF StartCreate, RowTypes
<1>3. jobs' \in [Processes -> JobTypes]
  BY <1>1, CountType DEF StartCreate
<1> QED
  BY <1>2, <1>3, TypePartsNext

LEMMA CountTypes ==
    ASSUME TypeOK, NEW w \in Processes, NEW what \in {"today", "open"}, Count(w, what)
    PROVE  TypeOK'
<1>1. RowTypes /\ jobs \in [Processes -> JobTypes]
  BY TypeParts
<1>2. RowTypes'
  BY <1>1 DEF Count, RowTypes
<1>3. PICK j \in JobTypes : jobs' = [jobs EXCEPT ![w] = j]
  <2>1. jobs[w].passed \cup {what} \in SUBSET {"today", "open"}
    BY JobKinds DEF Count
  <2>2. Counting(jobs[w].passed \cup {what}) \in JobTypes /\ Free \in JobTypes
    BY <2>1, CountType DEF JobTypes
  <2> QED
    BY <2>2 DEF Count
<1>4. jobs' \in [Processes -> JobTypes]
  BY <1>1, <1>3
<1> QED
  BY <1>2, <1>4, TypePartsNext

LEMMA InsertTypes ==
    ASSUME TypeOK, NEW w \in Processes, NEW r \in Requests, Insert(w, r) PROVE TypeOK'
<1>1. RowTypes /\ jobs \in [Processes -> JobTypes]
  BY TypeParts
<1>2. RowTypes'
  <2>1. row' \in [Requests -> RowType]
    BY <1>1, RowIsTyped DEF Insert, RowTypes, States
  <2> QED
    BY <1>1, <2>1 DEF Insert, RowTypes
<1>3. jobs' \in [Processes -> JobTypes]
  <2>1. [x \in {} |-> NoRow] \in Pages
    <3>1. {} \in SUBSET Requests /\ [x \in {} |-> NoRow] \in [{} -> RowType]
      OBVIOUS
    <3> QED
      BY <3>1, PageType
  <2>2. Working(Create, [x \in {} |-> NoRow], r, FirstEvent(Create)) \in JobTypes
    BY <2>1, OpTypes, WorkType
  <2> QED
    BY <1>1, <2>2 DEF Insert
<1> QED
  BY <1>2, <1>3, TypePartsNext

LEMMA ReadTypes ==
    ASSUME TypeOK, NEW w \in Workers, NEW op \in Operations, NEW r \in Requests,
           Read(w, op, r)
    PROVE  TypeOK'
<1>1. RowTypes /\ jobs \in [Processes -> JobTypes] /\ w \in Processes
  BY TypeParts DEF Processes
<1>2. RowTypes'
  <2>1. calls' \in 0..MaxCalls
    BY <1>1, MoreCalls DEF Read
  <2> QED
    BY <1>1, <2>1 DEF Read, RowTypes
<1>3. jobs' \in [Processes -> JobTypes]
  <2>1. [x \in {r} |-> row[r]] \in Pages
    BY <1>1, PageType DEF RowTypes
  <2>2. Working(op, [x \in {r} |-> row[r]], r, "none") \in JobTypes
    BY <2>1, WorkType DEF AllOps
  <2> QED
    BY <1>1, <2>2 DEF Read
<1> QED
  BY <1>2, <1>3, TypePartsNext

LEMMA SweepTypes ==
    ASSUME TypeOK, NEW s \in Sweepers, StartSweep(s) PROVE TypeOK'
<1>1. RowTypes /\ jobs \in [Processes -> JobTypes] /\ s \in Processes
  BY TypeParts DEF Processes
<1>2. RowTypes'
  BY <1>1 DEF StartSweep, RowTypes
<1>3. PICK S \in SUBSET Requests, r \in Requests :
        jobs' = [jobs EXCEPT ![s] = Working(Sweep, [x \in S |-> row[x]], r, "none")]
  BY DEF StartSweep, OpenRequests
<1>4. [x \in S |-> row[x]] \in Pages
  BY <1>1, PageType DEF RowTypes
<1>5. Working(Sweep, [x \in S |-> row[x]], r, "none") \in JobTypes
  BY <1>4, OpTypes, WorkType
<1>6. jobs' \in [Processes -> JobTypes]
  BY <1>1, <1>3, <1>5
<1> QED
  BY <1>2, <1>6, TypePartsNext

LEMMA WriteTypes ==
    ASSUME TypeOK, NEW w \in Processes, NEW r \in Requests, Write(w, r) PROVE TypeOK'
<1>1. RowTypes /\ jobs \in [Processes -> JobTypes]
  BY TypeParts
<1>2. /\ jobs[w].op \in AllOps /\ jobs[w].page \in Pages /\ r \in DOMAIN jobs[w].page
      /\ jobs[w].page[r] \in RowType
  BY JobKinds, PageParts DEF Write
<1>3. RowTypes'
  <2>1. Applied(jobs[w].op, jobs[w].page[r]) \in RowType
    BY <1>2, AppliedType
  <2>2. row' = [row EXCEPT ![r] = Applied(jobs[w].op, jobs[w].page[r])]
        /\ raced' \in {raced, raced \cup {r}}
    BY DEF Write
  <2> QED
    BY <1>1, <2>1, <2>2 DEF Write, RowTypes
<1>4. jobs' \in [Processes -> JobTypes]
  <2>1. Working(jobs[w].op, Without(jobs[w].page, r), r, FirstEvent(jobs[w].op)) \in JobTypes
    BY <1>2, WithoutType, OpTypes, WorkType
  <2> QED
    BY <1>1, <2>1 DEF Write
<1> QED
  BY <1>3, <1>4, TypePartsNext

LEMMA FailTypes ==
    ASSUME TypeOK, NEW w \in Processes, QueryFails(w) PROVE TypeOK'
<1>1. RowTypes /\ jobs \in [Processes -> JobTypes]
  BY TypeParts
<1>2. RowTypes'
  <2>1. losses' \in 0..MaxLosses
    BY <1>1, MoreLosses DEF QueryFails
  <2> QED
    BY <1>1, <2>1 DEF QueryFails, RowTypes
<1>3. PICK j \in JobTypes : jobs' = [jobs EXCEPT ![w] = j]
  <2>1. CASE jobs[w].at = "work"
    <3>1. /\ jobs[w].op \in AllOps /\ jobs[w].page \in Pages
          /\ DOMAIN jobs[w].page \subseteq Requests
      BY <2>1, JobKinds, PageParts
    <3>2. PICK r \in DOMAIN jobs[w].page :
            jobs' = [jobs EXCEPT ![w] = GoOn(jobs[w].op, Without(jobs[w].page, r), r)]
      BY <2>1 DEF QueryFails
    <3> QED
      BY <3>1, <3>2, WithoutType, GoOnType
  <2>2. CASE jobs[w].at # "work"
    BY <2>2 DEF QueryFails, JobTypes
  <2> QED
    BY <2>1, <2>2
<1>4. jobs' \in [Processes -> JobTypes]
  BY <1>1, <1>3
<1> QED
  BY <1>2, <1>4, TypePartsNext

LEMMA EmitTypes ==
    ASSUME TypeOK, NEW w \in Processes,
           EmitThrows(w) \/ \E sent \in BOOLEAN : Emit(w, sent)
    PROVE  TypeOK'
<1>1. RowTypes /\ jobs \in [Processes -> JobTypes]
  BY TypeParts
<1>2. /\ jobs[w].op \in AllOps /\ jobs[w].page \in Pages
      /\ jobs[w].id \in Requests /\ jobs[w].event \in Events \cup {"none"}
      /\ jobs[w].event # "none"
  BY JobKinds DEF Emit, EmitThrows, Events
<1>3. told' \in [Requests -> SUBSET (Events \cup States)]
  <2>1. Says(jobs[w].op, jobs[w].event) \in Events \cup States
    BY <1>2, OpTypes DEF Says
  <2>2. told' = told \/
        told' = [told EXCEPT ![jobs[w].id] =
                   told[jobs[w].id] \cup {Says(jobs[w].op, jobs[w].event)}]
    BY DEF Emit, EmitThrows
  <2>3. told[jobs[w].id] \cup {Says(jobs[w].op, jobs[w].event)} \in SUBSET (Events \cup States)
    BY <1>1, <1>2, <2>1 DEF RowTypes
  <2> QED
    BY <1>1, <2>2, <2>3 DEF RowTypes
<1>4. RowTypes'
  BY <1>1, <1>2, <1>3 DEF Emit, EmitThrows, RowTypes
<1>5. PICK j \in JobTypes : jobs' = [jobs EXCEPT ![w] = j]
  <2>1. GoOn(jobs[w].op, jobs[w].page, jobs[w].id) \in JobTypes
    BY <1>2, GoOnType
  <2>2. Working(jobs[w].op, jobs[w].page, jobs[w].id,
                FollowUp(jobs[w].op, jobs[w].event)) \in JobTypes
    BY <1>2, FollowUpTypes, WorkType
  <2> QED
    BY <2>1, <2>2 DEF Emit, EmitThrows
<1>6. jobs' \in [Processes -> JobTypes]
  BY <1>1, <1>5
<1> QED
  BY <1>4, <1>6, TypePartsNext

LEMMA TimeTypes ==
    ASSUME TypeOK,
           Midnight \/ Restart \/ (\E r \in Requests : PassExpiry(r)) \/ UNCHANGED vars
    PROVE  TypeOK'
<1>1. RowTypes /\ jobs \in [Processes -> JobTypes]
  BY TypeParts
<1>2. RowTypes'
  <2>1. losses' \in 0..MaxLosses
    BY <1>1, MoreLosses DEF Midnight, Restart, PassExpiry, vars, RowTypes
  <2>2. /\ today' \subseteq Requests /\ overdue' \subseteq Requests
        /\ unheard' \subseteq Requests
        /\ UNCHANGED <<row, told, raced, crowded, calls>>
    BY <1>1 DEF Midnight, Restart, PassExpiry, vars, RowTypes
  <2> QED
    BY <1>1, <2>1, <2>2 DEF RowTypes
<1>3. jobs' \in [Processes -> JobTypes]
  BY <1>1 DEF Midnight, Restart, PassExpiry, vars, Processes, JobTypes
<1> QED
  BY <1>2, <1>3, TypePartsNext

-----------------------------------------------------------------------------
(* What a step keeps of what it does not touch. *)

Grows ==
    /\ \A r \in Requests : told[r] \subseteq told'[r]
    /\ unheard \subseteq unheard'
    /\ raced \subseteq raced'

\* A step closes no closed row, unless it writes a stale copy.
ClosedStay ==
    \A r \in Requests : \/ row'[r] = row[r] \/ r \in raced'
                        \/ row[r].state \in OpenStates \cup {"none"}

LEMMA OtherJob ==
    ASSUME TypeOK, NEW v \in Processes, JobOK(v), jobs'[v] = jobs[v], Grows, ClosedStay
    PROVE  JobOK(v)'
<1>1. CASE jobs[v].at # "work"
  BY <1>1 DEF JobOK
<1>2. CASE jobs[v].at = "work"
  <2>1. jobs[v].id \in Requests
    BY <1>2, JobKinds
  <2>2. \A s : Covered(s, jobs[v].id) =>
           \/ s \in {"none", "draft"} \cup told'[jobs[v].id]
           \/ s = "submitted" /\ "CREATED" \in told'[jobs[v].id]
           \/ s = "expired" /\ "EXPIRED" \in told'[jobs[v].id]
           \/ jobs[v].id \in unheard'
    BY <2>1 DEF Covered, Grows
  <2>3. ASSUME jobs[v].event # "none", jobs[v].op.to \in {"cancelled", "expired"},
               jobs[v].id \notin raced'
        PROVE  row'[jobs[v].id].state = jobs[v].op.to
    <3>1. row[jobs[v].id].state = jobs[v].op.to
      BY <1>2, <2>1, <2>3 DEF JobOK, Grows
    <3>2. row[jobs[v].id].state \notin OpenStates \cup {"none"}
      BY <2>3, <3>1 DEF OpenStates
    <3> QED
      BY <2>1, <2>3, <3>1, <3>2 DEF ClosedStay
  <2> QED
    BY <1>2, <2>2, <2>3 DEF JobOK, Covered
<1> QED
  BY <1>1, <1>2

LEMMA OtherRow ==
    ASSUME NEW r \in Requests, RowOK(r), row'[r] = row[r], Grows,
           told'[r] \cap {"CANCELLED", "EXPIRED"} \subseteq told[r]
    PROVE  RowOK(r)'
  BY DEF RowOK, Grows

LEMMA OtherPublished ==
    ASSUME NEW r \in Requests, Published(r), row'[r] = row[r], Grows,
           \A v \in Processes : Pending(v, r) => Published(r)'
    PROVE  Published(r)'
<1>1. Covered(row[r].state, r) => Covered(row[r].state, r)'
  BY DEF Covered, Grows
<1> QED
  BY <1>1 DEF Published

LEMMA CapsKept ==
    ASSUME CapsInv, TypeOK, (OpenRequests \ raced)' \subseteq OpenRequests \ raced,
           today' \subseteq today, crowded' = crowded,
           \A v \in Workers : jobs'[v].at = "count" =>
                jobs[v].at = "count" /\ jobs'[v].passed = jobs[v].passed
    PROVE  CapsInv'
<1>1. IsFiniteSet(OpenRequests \ raced) /\ IsFiniteSet(today)
  BY RequestsAssumption, FS_Subset DEF OpenRequests, TypeOK
<1> DEFINE open == OpenRequests \ raced
           open1 == (OpenRequests \ raced)'
<1>2. /\ Cardinality(open1) \in Nat /\ Cardinality(open) \in Nat
      /\ Cardinality(open1) <= Cardinality(open)
  BY <1>1, FS_Subset, FS_CardinalityType
<1>3. /\ Cardinality(today') \in Nat /\ Cardinality(today) \in Nat
      /\ Cardinality(today') <= Cardinality(today)
  BY <1>1, FS_Subset, FS_CardinalityType
<1>4. OpenLimit \in Nat /\ TodayLimit \in Nat
  BY RequestsAssumption
<1> QED
  BY <1>2, <1>3, <1>4 DEF CapsInv

\* A step of one handler that announces nothing and writes nothing.
LEMMA JobOnlyKeeps ==
    ASSUME RequestsInv, NEW w \in Processes, NEW j, jobs' = [jobs EXCEPT ![w] = j],
           UNCHANGED <<row, told, unheard, raced>>,
           ~(jobs[w].at = "work" /\ jobs[w].event # "none"), JobOK(w)'
    PROVE  /\ \A v \in Processes : JobOK(v)'
           /\ \A r \in Requests : RowOK(r)' /\ Published(r)'
<1>1. Grows /\ ClosedStay
  BY DEF Grows, ClosedStay
<1>2. \A v \in Processes \ {w} : jobs'[v] = jobs[v]
  BY TypeParts DEF RequestsInv
<1>3. \A v \in Processes : JobOK(v)'
  BY <1>1, <1>2, OtherJob DEF RequestsInv
<1>4. \A r \in Requests : RowOK(r)'
  BY <1>1, OtherRow DEF RequestsInv
<1>5. ASSUME NEW r \in Requests PROVE Published(r)'
  <2>1. \A v \in Processes : Pending(v, r) => Pending(v, r)'
    BY <1>2 DEF Pending
  <2> QED
    BY <1>1, <2>1, OtherPublished DEF RequestsInv, Published
<1> QED
  BY <1>3, <1>4, <1>5

-----------------------------------------------------------------------------
(* The steps. *)

Kept == /\ \A v \in Processes : JobOK(v)'
        /\ \A r \in Requests : RowOK(r)' /\ Published(r)'
        /\ CapsInv'

LEMMA CreateKeeps ==
    ASSUME RequestsInv, NEW w \in Workers, StartCreate(w) PROVE Kept
<1>1. w \in Processes /\ jobs[w] = Free /\ jobs' = [jobs EXCEPT ![w] = Counting({})]
      /\ UNCHANGED <<row, today, told, unheard, raced>>
  BY DEF StartCreate, Processes
<1>2. /\ jobs'[w] = Counting({}) /\ jobs'[w].at = "count" /\ jobs'[w].passed = {}
      /\ jobs[w].at = "free"
      /\ \A v \in Workers \ {w} : jobs'[v] = jobs[v]
  BY <1>1, TypeParts DEF RequestsInv, Processes, Counting, Free
<1>3. JobOK(w)'
  BY <1>2, RequestsAssumption DEF JobOK
<1>4. /\ \A v \in Processes : JobOK(v)'
      /\ \A r \in Requests : RowOK(r)' /\ Published(r)'
  <2>1. ~(jobs[w].at = "work" /\ jobs[w].event # "none")
    BY <1>2
  <2> QED
    BY <1>1, <1>3, <2>1, JobOnlyKeeps
<1>5. CapsInv'
  <2>1. (OpenRequests \ raced)' = OpenRequests \ raced /\ today' = today
    BY <1>1 DEF OpenRequests, IsOpen
  <2>2. CASE crowded'
    BY <2>2 DEF CapsInv
  <2>3. CASE ~crowded'
    <3>1. ~crowded /\ \A v \in Workers : jobs[v].at # "count"
      <4>1. crowded' = (crowded \/ \E v \in Workers : jobs[v].at = "count")
        BY DEF StartCreate
      <4> QED
        BY <2>3, <4>1
    <3> QED
      BY <1>2, <2>1, <3>1 DEF CapsInv, RequestsInv
  <2> QED
    BY <2>2, <2>3
<1> QED
  BY <1>4, <1>5 DEF Kept

LEMMA CountKeeps ==
    ASSUME RequestsInv, NEW w \in Processes, NEW what \in {"today", "open"}, Count(w, what)
    PROVE  Kept
<1>1. jobs[w].at = "count" /\ UNCHANGED <<row, today, told, unheard, raced, crowded>>
  BY DEF Count
<1>2. w \in Workers /\ w \notin Sweepers
  BY <1>1 DEF RequestsInv, JobOK, Processes
<1>3. \/ jobs' = [jobs EXCEPT ![w] = Free]
      \/ /\ jobs' = [jobs EXCEPT ![w] = Counting(jobs[w].passed \cup {what})]
         /\ what = "today" => ~(Cardinality(today) >= TodayLimit)
         /\ what = "open" => ~(Cardinality(OpenRequests) >= OpenLimit)
  BY DEF Count
<1>4. PICK j : jobs' = [jobs EXCEPT ![w] = j]
  BY <1>3
<1>5. /\ \A v \in Workers \ {w} : jobs'[v] = jobs[v]
      /\ \/ jobs'[w] = Free
         \/ /\ jobs'[w] = Counting(jobs[w].passed \cup {what})
            /\ what = "today" => ~(Cardinality(today) >= TodayLimit)
            /\ what = "open" => ~(Cardinality(OpenRequests) >= OpenLimit)
  BY <1>2, <1>3, TypeParts DEF RequestsInv, Processes
<1>6. JobOK(w)'
  BY <1>2, <1>5 DEF JobOK, Counting, Free
<1>7. /\ \A v \in Processes : JobOK(v)'
      /\ \A r \in Requests : RowOK(r)' /\ Published(r)'
  BY <1>1, <1>4, <1>6, JobOnlyKeeps
<1>8. CapsInv'
  <2>1. (OpenRequests \ raced)' = OpenRequests \ raced
    BY <1>1 DEF OpenRequests, IsOpen
  <2>2. CASE jobs'[w] = Free
    <3>1. \A v \in Workers : jobs'[v].at = "count" =>
             jobs[v].at = "count" /\ jobs'[v].passed = jobs[v].passed
      BY <1>5, <2>2 DEF Free
    <3>2. (OpenRequests \ raced)' \subseteq OpenRequests \ raced /\ today' \subseteq today
      BY <1>1, <2>1
    <3> QED
      BY <1>1, <3>1, <3>2, CapsKept DEF RequestsInv
  <2>3. CASE jobs'[w] # Free
    <3>1. /\ jobs'[w].at = "count" /\ jobs'[w].passed = jobs[w].passed \cup {what}
          /\ what = "today" => ~(Cardinality(today) >= TodayLimit)
          /\ what = "open" => ~(Cardinality(OpenRequests) >= OpenLimit)
      BY <1>5, <2>3 DEF Counting
    <3>2. IsFiniteSet(OpenRequests) /\ IsFiniteSet(today)
      BY RequestsAssumption, FS_Subset DEF OpenRequests, RequestsInv, TypeOK
    <3>3. /\ Cardinality(OpenRequests \ raced) <= Cardinality(OpenRequests)
          /\ Cardinality(OpenRequests \ raced) \in Nat /\ Cardinality(OpenRequests) \in Nat
          /\ Cardinality(today) \in Nat /\ OpenLimit \in Nat /\ TodayLimit \in Nat
      BY <3>2, FS_Subset, FS_CardinalityType, RequestsAssumption
    <3>4. /\ what = "today" => Cardinality(today) < TodayLimit
          /\ what = "open" => Cardinality(OpenRequests \ raced) < OpenLimit
      BY <3>1, <3>3
    <3>5. SUFFICES ASSUME ~crowded PROVE CapsInv'
      BY <1>1 DEF CapsInv
    <3>6. /\ "open" \in jobs'[w].passed => Cardinality(OpenRequests \ raced) < OpenLimit
          /\ "today" \in jobs'[w].passed => Cardinality(today) < TodayLimit
      BY <1>1, <1>2, <3>1, <3>4, <3>5 DEF RequestsInv, CapsInv
    <3>7. \A v \in Workers : jobs'[v].at = "count" => v = w
      BY <1>1, <1>2, <1>5, <3>5 DEF RequestsInv, CapsInv
    <3> QED
      BY <1>1, <2>1, <3>5, <3>6, <3>7 DEF RequestsInv, CapsInv
  <2> QED
    BY <2>2, <2>3
<1> QED
  BY <1>7, <1>8 DEF Kept

\* An operation begins with copies of open rows.
LEMMA ReadsKeep ==
    ASSUME RequestsInv, NEW w \in Processes, NEW op \in AllOps, NEW S \in SUBSET Requests,
           NEW r \in Requests, jobs[w] = Free,
           jobs' = [jobs EXCEPT ![w] = Working(op, [x \in S |-> row[x]], r, "none")],
           \A x \in S : row[x].state \in OpenStates
                        /\ (op = Sweep \/ op.to \in NextStates(row[x].state)),
           UNCHANGED <<row, today, told, unheard, raced, crowded>>
    PROVE  Kept
<1> DEFINE page == [x \in S |-> row[x]]
<1>1. \A x \in DOMAIN page : CopyOK(op, page[x])
  <2>1. \A x \in S : row[x].cancelledBy = "nobody"
    BY DEF RequestsInv, RowOK, OpenStates
  <2> QED
    BY <2>1 DEF CopyOK
<1> HIDE DEF page
<1>2. jobs'[w] = Working(op, page, r, "none") /\ \A v \in Processes \ {w} : jobs'[v] = jobs[v]
  BY TypeParts DEF RequestsInv, page
<1>3. /\ jobs'[w].at = "work" /\ jobs'[w].op = op /\ jobs'[w].page = page
      /\ jobs'[w].event = "none"
  BY <1>2 DEF Working
<1>4. JobOK(w)'
  <2>1. \A x \in DOMAIN jobs'[w].page : CopyOK(jobs'[w].op, jobs'[w].page[x])
    BY <1>1, <1>3
  <2> QED
    BY <1>3, <2>1 DEF JobOK, CopyOK
<1>5. /\ \A v \in Processes : JobOK(v)'
      /\ \A x \in Requests : RowOK(x)' /\ Published(x)'
  <2>1. ~(jobs[w].at = "work" /\ jobs[w].event # "none")
    BY DEF Free
  <2> QED
    BY <1>4, <2>1, JobOnlyKeeps
<1>6. CapsInv'
  <2>1. (OpenRequests \ raced)' \subseteq OpenRequests \ raced /\ today' \subseteq today
    BY DEF OpenRequests, IsOpen
  <2>2. \A v \in Workers : jobs'[v].at = "count" =>
           jobs[v].at = "count" /\ jobs'[v].passed = jobs[v].passed
    BY <1>2, <1>3 DEF Processes
  <2> QED
    BY <2>1, <2>2, CapsKept DEF RequestsInv
<1> QED
  BY <1>5, <1>6 DEF Kept

LEMMA ReadKeeps ==
    ASSUME RequestsInv, NEW w \in Workers, NEW op \in Operations, NEW r \in Requests,
           Read(w, op, r)
    PROVE  Kept
<1>1. op \in AllOps /\ w \in Processes /\ {r} \in SUBSET Requests
  BY DEF AllOps, Processes
<1>2. /\ jobs[w] = Free
      /\ jobs' = [jobs EXCEPT ![w] = Working(op, [x \in {r} |-> row[r]], r, "none")]
      /\ op.to \in NextStates(row[r].state)
      /\ UNCHANGED <<row, today, told, unheard, raced, crowded>>
  BY DEF Read
<1>3. row[r].state \in OpenStates
  BY <1>2, Transitions
<1>4. [x \in {r} |-> row[r]] = [x \in {r} |-> row[x]]
  OBVIOUS
<1> QED
  BY <1>1, <1>2, <1>3, <1>4, ReadsKeep

LEMMA SweepKeeps ==
    ASSUME RequestsInv, NEW s \in Sweepers, StartSweep(s) PROVE Kept
<1>1. Sweep \in AllOps /\ s \in Processes
  BY DEF AllOps, Processes
<1>2. PICK S \in SUBSET (OpenRequests \cap overdue) : \E r \in S :
        jobs' = [jobs EXCEPT ![s] = Working(Sweep, [x \in S |-> row[x]], r, "none")]
  BY DEF StartSweep
<1>3. PICK r \in S : jobs' = [jobs EXCEPT ![s] = Working(Sweep, [x \in S |-> row[x]], r, "none")]
  BY <1>2
<1>4. S \in SUBSET Requests /\ r \in Requests /\ \A x \in S : row[x].state \in OpenStates
  BY <1>2, <1>3 DEF OpenRequests, IsOpen
<1>5. jobs[s] = Free /\ UNCHANGED <<row, today, told, unheard, raced, crowded>>
  BY DEF StartSweep
<1> QED
  BY <1>1, <1>3, <1>4, <1>5, ReadsKeep

LEMMA OneMore ==
    ASSUME NEW S, IsFiniteSet(S), NEW x
    PROVE  /\ IsFiniteSet(S \cup {x})
           /\ Cardinality(S) \in Nat /\ Cardinality(S \cup {x}) \in Nat
           /\ Cardinality(S \cup {x}) <= Cardinality(S) + 1
<1>1. /\ IsFiniteSet(S \cup {x})
      /\ Cardinality(S \cup {x}) = IF x \in S THEN Cardinality(S) ELSE Cardinality(S) + 1
  BY FS_AddElement
<1>2. Cardinality(S) \in Nat
  BY FS_CardinalityType
<1> QED
  BY <1>1, <1>2

LEMMA InsertKeeps ==
    ASSUME RequestsInv, NEW w \in Processes, NEW r \in Requests, Insert(w, r) PROVE Kept
<1>1. /\ jobs[w] = Counting({"today", "open"}) /\ jobs[w].at = "count"
      /\ jobs[w].passed = {"today", "open"}
  BY DEF Insert, Counting
<1>2. w \in Workers /\ w \notin Sweepers
  BY <1>1 DEF RequestsInv, JobOK, Processes
<1>3. /\ row[r].state = "none" /\ row'[r] = Row("submitted", "nobody")
      /\ row'[r].state = "submitted" /\ row'[r].cancelledBy = "nobody"
      /\ \A x \in Requests \ {r} : row'[x] = row[x]
      /\ UNCHANGED <<told, unheard, raced, crowded>> /\ today' = today \cup {r}
  BY DEF Insert, RequestsInv, TypeOK, NoRow, Row
<1>4. /\ jobs'[w] = Working(Create, [x \in {} |-> NoRow], r, FirstEvent(Create))
      /\ \A v \in Processes \ {w} : jobs'[v] = jobs[v]
  BY TypeParts DEF Insert, RequestsInv
<1>5. /\ jobs'[w].at = "work" /\ jobs'[w].op = Create /\ jobs'[w].id = r
      /\ DOMAIN jobs'[w].page = {} /\ jobs'[w].event = "CREATED"
      /\ jobs'[w].op.to = "submitted"
  BY <1>4, OpTypes DEF Working
<1>6. Grows /\ ClosedStay
  BY <1>3 DEF Grows, ClosedStay
<1>7. \A v \in Processes : JobOK(v)'
  <2>1. JobOK(w)'
    BY <1>2, <1>5, OpTypes DEF JobOK
  <2> QED
    BY <1>4, <1>6, <2>1, OtherJob DEF RequestsInv
<1>8. ASSUME NEW x \in Requests PROVE RowOK(x)' /\ Published(x)'
  <2>1. CASE x = r
    <3>1. RowOK(r)'
      BY <1>3 DEF RequestsInv, RowOK
    <3>2. Pending(w, r)'
      BY <1>3, <1>5 DEF Pending
    <3> QED
      BY <2>1, <3>1, <3>2 DEF Published
  <2>2. CASE x # r
    <3>1. RowOK(x)'
      BY <1>3, <1>6, <2>2, OtherRow DEF RequestsInv
    <3>2. \A v \in Processes : Pending(v, x) => Pending(v, x)'
      BY <1>1, <1>3, <1>4, <2>2 DEF Pending
    <3> QED
      BY <1>3, <1>6, <2>2, <3>1, <3>2, OtherPublished DEF RequestsInv, Published
  <2> QED
    BY <2>1, <2>2
<1>9. CapsInv'
  <2>1. SUFFICES ASSUME ~crowded PROVE CapsInv'
    BY <1>3 DEF CapsInv
  <2>2. /\ Cardinality(OpenRequests \ raced) < OpenLimit /\ Cardinality(today) < TodayLimit
        /\ \A v \in Workers : jobs[v].at = "count" => v = w
    BY <1>1, <1>2, <2>1 DEF RequestsInv, CapsInv
  <2>3. \A v \in Workers : jobs'[v].at # "count"
    BY <1>4, <1>5, <2>2 DEF Processes
  <2> DEFINE open == OpenRequests \ raced
             open1 == (OpenRequests \ raced)'
  <2>4. open1 \subseteq open \cup {r}
    BY <1>3 DEF OpenRequests, IsOpen
  <2>5. IsFiniteSet(open) /\ IsFiniteSet(today)
    BY RequestsAssumption, FS_Subset DEF OpenRequests, RequestsInv, TypeOK
  <2> HIDE DEF open, open1
  <2>6. /\ Cardinality(open1) <= Cardinality(open) + 1
        /\ Cardinality(open) \in Nat /\ Cardinality(open1) \in Nat
    <3>1. IsFiniteSet(open \cup {r}) /\ Cardinality(open \cup {r}) <= Cardinality(open) + 1
      BY <2>5, OneMore
    <3>2. IsFiniteSet(open1) /\ Cardinality(open1) <= Cardinality(open \cup {r})
      BY <2>4, <3>1, FS_Subset
    <3> QED
      BY <2>5, <3>1, <3>2, FS_CardinalityType
  <2>7. /\ Cardinality(today') <= Cardinality(today) + 1
        /\ Cardinality(today) \in Nat /\ Cardinality(today') \in Nat
    BY <1>3, <2>5, OneMore
  <2>8. OpenLimit \in Nat /\ TodayLimit \in Nat
    BY RequestsAssumption
  <2>9. Cardinality(open) < OpenLimit
    BY <2>2 DEF open
  <2>10. Cardinality(open1) <= OpenLimit /\ Cardinality(today') <= TodayLimit
    BY <2>2, <2>6, <2>7, <2>8, <2>9
  <2> QED
    BY <2>3, <2>10 DEF CapsInv, open1
<1> QED
  BY <1>7, <1>8, <1>9 DEF Kept

\* Whatever became of the row, the copy that is written was of an open one.
LEMMA WriteKeeps ==
    ASSUME RequestsInv, NEW w \in Processes, NEW r \in Requests, Write(w, r) PROVE Kept
<1> DEFINE op == jobs[w].op
           copy == jobs[w].page[r]
           page == Without(jobs[w].page, r)
<1>1. /\ jobs[w].at = "work" /\ jobs[w].event = "none" /\ r \in DOMAIN jobs[w].page
      /\ op \in AllOps /\ jobs[w].page \in Pages /\ copy \in RowType
  BY JobKinds, PageParts DEF Write, RequestsInv
<1>2. \A x \in DOMAIN jobs[w].page : CopyOK(op, jobs[w].page[x])
  BY <1>1 DEF RequestsInv, JobOK
<1>3. CopyOK(op, copy)
  BY <1>1, <1>2
<1>4. /\ row'[r] = Applied(op, copy)
      /\ \A x \in Requests \ {r} : row'[x] = row[x]
      /\ raced' = IF copy = row[r] THEN raced ELSE raced \cup {r}
      /\ UNCHANGED <<told, unheard, crowded, today>>
  BY DEF Write, RequestsInv, TypeOK
<1>5. /\ row'[r].state = op.to
      /\ row'[r].cancelledBy # "nobody" => op.to = "cancelled"
  BY <1>1, <1>3, <1>4, AppliedType DEF CopyOK
<1>6. /\ jobs'[w] = Working(op, page, r, FirstEvent(op))
      /\ \A v \in Processes \ {w} : jobs'[v] = jobs[v]
  BY TypeParts DEF Write, RequestsInv
<1>7. /\ DOMAIN page = DOMAIN jobs[w].page \ {r}
      /\ \A x \in DOMAIN page : page[x] = jobs[w].page[x]
  BY <1>1, WithoutType
<1> HIDE DEF op, copy, page
<1>8. /\ jobs'[w].at = "work" /\ jobs'[w].op = op /\ jobs'[w].page = page
      /\ jobs'[w].id = r /\ jobs'[w].event = FirstEvent(op)
  BY <1>6 DEF Working
<1>9. copy = row[r] => row[r].state \in OpenStates
  BY <1>3 DEF CopyOK
<1>10. Grows /\ ClosedStay
  BY <1>4, <1>9 DEF Grows, ClosedStay
<1>11. \A v \in Processes : JobOK(v)'
  <2>1. \A x \in DOMAIN page : CopyOK(op, page[x])
    BY <1>2, <1>7 DEF op
  <2>2. /\ FirstEvent(op) # "CANCELLED" /\ FirstEvent(op) \in Events
        /\ FirstEvent(op) = "EXPIRED" => op.to = "expired"
    BY <1>1, OpTypes
  <2>3. \A x \in DOMAIN jobs'[w].page : CopyOK(jobs'[w].op, jobs'[w].page[x])
    BY <1>8, <2>1
  <2>4. JobOK(w)'
    BY <1>5, <1>8, <2>2, <2>3 DEF JobOK, CopyOK
  <2> QED
    BY <1>6, <1>10, <2>4, OtherJob DEF RequestsInv
<1>12. ASSUME NEW x \in Requests PROVE RowOK(x)' /\ Published(x)'
  <2>1. CASE x = r
    <3>1. RowOK(r)'
      <4>1. ASSUME r \notin raced'
            PROVE  "CANCELLED" \notin told'[r] /\ "EXPIRED" \notin told'[r]
        BY <1>4, <1>9, <4>1 DEF RequestsInv, RowOK, OpenStates
      <4> QED
        BY <1>5, <4>1 DEF RowOK
    <3>2. Pending(w, r)'
      <4>1. FirstEvent(op) # "none"
        BY <1>1, OpTypes DEF Events
      <4> QED
        BY <1>5, <1>8, <4>1 DEF Pending
    <3> QED
      BY <2>1, <3>1, <3>2 DEF Published
  <2>2. CASE x # r
    <3>1. RowOK(x)'
      BY <1>4, <1>10, <2>2, OtherRow DEF RequestsInv
    <3>2. \A v \in Processes : Pending(v, x) => Pending(v, x)'
      BY <1>1, <1>4, <1>6, <2>2 DEF Pending
    <3> QED
      BY <1>4, <1>10, <2>2, <3>1, <3>2, OtherPublished DEF RequestsInv, Published
  <2> QED
    BY <2>1, <2>2
<1>13. CapsInv'
  <2>1. (OpenRequests \ raced)' \subseteq OpenRequests \ raced
    BY <1>4, <1>9 DEF OpenRequests, IsOpen
  <2>2. \A v \in Workers : jobs'[v].at = "count" =>
           jobs[v].at = "count" /\ jobs'[v].passed = jobs[v].passed
    BY <1>6, <1>8 DEF Processes
  <2> QED
    BY <1>4, <2>1, <2>2, CapsKept DEF RequestsInv
<1> QED
  BY <1>11, <1>12, <1>13 DEF Kept

\* The job an operation goes on with has the copies it had.
LEMMA GoOnJob ==
    ASSUME NEW op \in AllOps, NEW page \in Pages, NEW r
    PROVE  /\ GoOn(op, page, r).at \in {"free", "work"}
           /\ GoOn(op, page, r).at = "work" =>
                /\ GoOn(op, page, r).op = op /\ GoOn(op, page, r).page = page
                /\ GoOn(op, page, r).event = "none" /\ GoOn(op, page, r).id = r
<1>1. CASE DOMAIN page = {}
  BY <1>1 DEF GoOn, Free
<1>2. CASE DOMAIN page # {}
  BY <1>2 DEF GoOn, Working
<1> QED
  BY <1>1, <1>2

LEMMA FailKeeps ==
    ASSUME RequestsInv, NEW w \in Processes, QueryFails(w) PROVE Kept
<1>1. PICK j : /\ jobs' = [jobs EXCEPT ![w] = j]
               /\ j.at \in {"free", "work"}
               /\ j.at = "work" =>
                    /\ j.event = "none"
                    /\ \A r \in DOMAIN j.page : CopyOK(j.op, j.page[r])
  <2>1. CASE jobs[w].at = "count"
    <3>1. jobs' = [jobs EXCEPT ![w] = Free]
      BY <2>1 DEF QueryFails
    <3>2. Free.at = "free"
      BY DEF Free
    <3> QED
      BY <3>1, <3>2
  <2>2. CASE jobs[w].at = "work"
    <3>1. PICK r \in DOMAIN jobs[w].page :
            jobs' = [jobs EXCEPT ![w] = GoOn(jobs[w].op, Without(jobs[w].page, r), r)]
      BY <2>2 DEF QueryFails
    <3> DEFINE j == GoOn(jobs[w].op, Without(jobs[w].page, r), r)
    <3>2. jobs[w].op \in AllOps /\ jobs[w].page \in Pages
      BY <2>2, JobKinds DEF RequestsInv
    <3>3. /\ j.at \in {"free", "work"}
          /\ j.at = "work" => /\ j.op = jobs[w].op /\ j.event = "none"
                              /\ j.page = Without(jobs[w].page, r)
      <4>1. Without(jobs[w].page, r) \in Pages
        BY <3>2, WithoutType
      <4> QED
        BY <3>2, <4>1, GoOnJob
    <3>4. \A x \in DOMAIN Without(jobs[w].page, r) :
             CopyOK(jobs[w].op, Without(jobs[w].page, r)[x])
      BY <2>2, <3>2, WithoutType DEF RequestsInv, JobOK
    <3>5. jobs' = [jobs EXCEPT ![w] = j]
      BY <3>1
    <3> HIDE DEF j
    <3>6. j.at = "work" => \A x \in DOMAIN j.page : CopyOK(j.op, j.page[x])
      BY <3>3, <3>4
    <3> QED
      BY <3>3, <3>5, <3>6
  <2> QED
    BY <2>1, <2>2 DEF QueryFails
<1>2. UNCHANGED <<row, today, told, unheard, raced, crowded>>
      /\ ~(jobs[w].at = "work" /\ jobs[w].event # "none")
  BY DEF QueryFails
<1>3. jobs'[w] = j /\ \A v \in Processes \ {w} : jobs'[v] = jobs[v]
  BY <1>1, TypeParts DEF RequestsInv
<1>4. JobOK(w)'
  BY <1>1, <1>3 DEF JobOK, CopyOK
<1>5. /\ \A v \in Processes : JobOK(v)'
      /\ \A r \in Requests : RowOK(r)' /\ Published(r)'
  BY <1>1, <1>2, <1>4, JobOnlyKeeps
<1>6. CapsInv'
  <2>1. (OpenRequests \ raced)' \subseteq OpenRequests \ raced
    BY <1>2 DEF OpenRequests, IsOpen
  <2>2. \A v \in Workers : jobs'[v].at = "count" =>
           jobs[v].at = "count" /\ jobs'[v].passed = jobs[v].passed
    BY <1>1, <1>3 DEF Processes
  <2> QED
    BY <1>2, <2>1, <2>2, CapsKept DEF RequestsInv
<1> QED
  BY <1>5, <1>6 DEF Kept

\* An event that was published, or lost, covers the state it is about.
LEMMA EmitKeeps ==
    ASSUME RequestsInv, NEW w \in Processes,
           EmitThrows(w) \/ \E sent \in BOOLEAN : Emit(w, sent)
    PROVE  Kept
<1> DEFINE op == jobs[w].op
           e == jobs[w].event
           r == jobs[w].id
           page == jobs[w].page
<1>1. /\ jobs[w].at = "work" /\ e # "none" /\ UNCHANGED <<row, today, raced, crowded>>
  BY DEF Emit, EmitThrows, Events
<1>2. op \in AllOps /\ page \in Pages /\ r \in Requests /\ e \in Events
  BY <1>1, JobKinds DEF RequestsInv
<1>3. /\ \A x \in DOMAIN page : CopyOK(op, page[x])
      /\ e = "CANCELLED" => op.to = "cancelled"
      /\ e = "EXPIRED" => op.to = "expired"
      /\ e # FirstEvent(op) => Covered(op.to, r)
      /\ op.to \in {"cancelled", "expired"} /\ r \notin raced => row[r].state = op.to
  BY <1>1 DEF RequestsInv, JobOK
<1>4. \/ /\ told' = [told EXCEPT ![r] = told[r] \cup {Says(op, e)}] /\ unheard' = unheard
      \/ told' = told /\ unheard' = unheard \cup {r}
  BY DEF Emit, EmitThrows
<1>5. /\ \A x \in Requests \ {r} : told'[x] = told[x]
      /\ \/ told'[r] = told[r] \cup {Says(op, e)}
         \/ told'[r] = told[r] /\ r \in unheard'
      /\ unheard \subseteq unheard'
  BY <1>2, <1>4 DEF RequestsInv, TypeOK
<1>6. PICK j : /\ jobs' = [jobs EXCEPT ![w] = j]
               /\ \/ j = GoOn(op, page, r)
                  \/ j = Working(op, page, r, FollowUp(op, e)) /\ FollowUp(op, e) # "none"
  BY DEF Emit, EmitThrows
<1>7. jobs'[w] = j /\ \A v \in Processes \ {w} : jobs'[v] = jobs[v]
  BY <1>6, TypeParts DEF RequestsInv
<1>8. /\ j.at \in {"free", "work"}
      /\ j.at = "work" => /\ j.op = op /\ j.page = page /\ j.id = r
                          /\ j.event = "none" \/ j.event = FollowUp(op, e)
  <2>1. CASE j = GoOn(op, page, r)
    BY <1>2, <2>1, GoOnJob
  <2>2. CASE j = Working(op, page, r, FollowUp(op, e))
    BY <2>2 DEF Working
  <2> QED
    BY <1>6, <2>1, <2>2
<1> HIDE DEF op, e, r, page
<1>9. Grows /\ ClosedStay
  BY <1>1, <1>2, <1>5 DEF Grows, ClosedStay
<1>10. \/ op.to \in {"none", "draft"} \cup told'[r]
       \/ op.to = "submitted" /\ "CREATED" \in told'[r]
       \/ op.to = "expired" /\ "EXPIRED" \in told'[r]
       \/ r \in unheard'
  <2>1. CASE e = FirstEvent(op)
    <3>1. \/ Says(op, e) = op.to
          \/ Says(op, e) = "CREATED" /\ op.to = "submitted"
          \/ Says(op, e) = "EXPIRED" /\ op.to = "expired"
      BY <1>2, <2>1, FirstEventCovers DEF Says
    <3> QED
      BY <1>5, <3>1
  <2>2. CASE e # FirstEvent(op)
    BY <1>2, <1>3, <1>9, <2>2 DEF Covered, Grows
  <2> QED
    BY <2>1, <2>2
<1>11. \A v \in Processes : JobOK(v)'
  <2>1. /\ FollowUp(op, e) = "CANCELLED" => op.to = "cancelled"
        /\ FollowUp(op, e) = "EXPIRED" => op.to = "expired"
    BY <1>2, FollowUpTypes
  <2>2. jobs'[w].at = "work" =>
           /\ \A x \in DOMAIN jobs'[w].page : CopyOK(jobs'[w].op, jobs'[w].page[x])
           /\ jobs'[w].event = "CANCELLED" => jobs'[w].op.to = "cancelled"
           /\ jobs'[w].event = "EXPIRED" => jobs'[w].op.to = "expired"
           /\ Covered(jobs[w].op.to, jobs[w].id)'
           /\ jobs'[w].op.to \in {"cancelled", "expired"} /\ jobs'[w].id \notin raced' =>
                row'[jobs'[w].id].state = jobs'[w].op.to
    BY <1>1, <1>3, <1>7, <1>8, <1>10, <2>1 DEF Covered
  <2>3. jobs'[w].at # "count"
    BY <1>7, <1>8
  <2>4. JobOK(w)'
    BY <2>2, <2>3 DEF JobOK, CopyOK
  <2> QED
    BY <1>7, <1>9, <2>4, OtherJob DEF RequestsInv
<1>12. \A x \in Requests : RowOK(x)'
  <2>1. ASSUME NEW x \in Requests \ {r} PROVE RowOK(x)'
    BY <1>1, <1>5, <1>9, <2>1, OtherRow DEF RequestsInv
  <2>2. ASSUME NEW x \in Requests, x = r PROVE RowOK(x)'
    <3>1. Says(op, e) = "CANCELLED" => e = "CANCELLED"
      BY <1>2, OpTypes DEF Says, States
    <3>2. Says(op, e) = "EXPIRED" => e = "EXPIRED"
      BY <1>2, OpTypes DEF Says, States
    <3>3. RowOK(x)
      BY <1>2, <2>2 DEF RequestsInv
    <3>4. row'[x] = row[x] /\ (x \in raced' <=> x \in raced)
      BY <1>1
    <3>5. row[x].cancelledBy # "nobody" => row[x].state = "cancelled"
      BY <3>3 DEF RowOK
    <3>6. ASSUME x \notin raced
          PROVE  /\ "CANCELLED" \in told'[x] => row[x].state = "cancelled"
                 /\ "EXPIRED" \in told'[x] => row[x].state = "expired"
      <4>1. e \in {"CANCELLED", "EXPIRED"} => row[x].state = op.to
        BY <1>3, <2>2, <3>6
      <4>2. "CANCELLED" \in told'[x] => "CANCELLED" \in told[x] \/ e = "CANCELLED"
        BY <1>5, <2>2, <3>1
      <4>3. "EXPIRED" \in told'[x] => "EXPIRED" \in told[x] \/ e = "EXPIRED"
        BY <1>5, <2>2, <3>2
      <4> QED
        BY <1>3, <3>3, <3>6, <4>1, <4>2, <4>3 DEF RowOK
    <3> QED
      BY <3>4, <3>5, <3>6 DEF RowOK
  <2> QED
    BY <2>1, <2>2
<1>13. ASSUME NEW x \in Requests PROVE Published(x)'
  <2>1. ASSUME NEW v \in Processes, Pending(v, x) PROVE Published(x)'
    <3>1. CASE v = w
      <4>1. x = r /\ op.to = row[x].state
        BY <2>1, <3>1 DEF Pending, op, r
      <4>2. Covered(row[x].state, x)'
        BY <1>1, <1>10, <4>1 DEF Covered
      <4> QED
        BY <4>2 DEF Published
    <3>2. CASE v # w
      BY <1>1, <1>7, <2>1, <3>2 DEF Pending, Published
    <3> QED
      BY <3>1, <3>2
  <2> QED
    BY <1>1, <1>9, <2>1, OtherPublished DEF RequestsInv
<1>14. CapsInv'
  <2>1. (OpenRequests \ raced)' \subseteq OpenRequests \ raced
    BY <1>1 DEF OpenRequests, IsOpen
  <2>2. \A v \in Workers : jobs'[v].at = "count" =>
           jobs[v].at = "count" /\ jobs'[v].passed = jobs[v].passed
    BY <1>7, <1>8 DEF Processes
  <2> QED
    BY <1>1, <2>1, <2>2, CapsKept DEF RequestsInv
<1> QED
  BY <1>11, <1>12, <1>13, <1>14 DEF Kept

LEMMA RestartKeeps == ASSUME RequestsInv, Restart PROVE Kept
<1>1. UNCHANGED <<row, told, raced, today, crowded>> /\ unheard \subseteq unheard'
  BY DEF Restart
<1>2. \A w \in Processes : jobs'[w].at = "free"
  BY DEF Restart, Processes, Free
<1>3. \A w \in Processes : JobOK(w)'
  BY <1>2 DEF JobOK
<1>4. Grows
  BY <1>1 DEF Grows
<1>5. ASSUME NEW r \in Requests PROVE RowOK(r)' /\ Published(r)'
  <2>1. \A v \in Processes : Pending(v, r) => r \in unheard'
    BY DEF Restart, Pending, Processes
  <2>2. r \in unheard' => Published(r)'
    BY DEF Published, Covered
  <2> QED
    BY <1>1, <1>4, <2>1, <2>2, OtherRow, OtherPublished DEF RequestsInv
<1>6. CapsInv'
  <2>1. (OpenRequests \ raced)' \subseteq OpenRequests \ raced
    BY <1>1 DEF OpenRequests, IsOpen
  <2>2. \A v \in Workers : jobs'[v].at # "count"
    BY <1>2 DEF Processes
  <2> QED
    BY <1>1, <2>1, <2>2, CapsKept DEF RequestsInv
<1> QED
  BY <1>3, <1>5, <1>6 DEF Kept

LEMMA TimeKeeps ==
    ASSUME RequestsInv, Midnight \/ (\E r \in Requests : PassExpiry(r)) \/ UNCHANGED vars
    PROVE  Kept
<1>1. UNCHANGED <<row, jobs, told, unheard, raced, crowded>> /\ today' \subseteq today
  BY DEF Midnight, PassExpiry, vars
<1>2. Grows /\ ClosedStay
  BY <1>1 DEF Grows, ClosedStay
<1>3. \A w \in Processes : JobOK(w)'
  BY <1>1, <1>2, OtherJob DEF RequestsInv
<1>4. ASSUME NEW r \in Requests PROVE RowOK(r)' /\ Published(r)'
  <2>1. \A v \in Processes : Pending(v, r) => Published(r)'
    BY <1>1 DEF Pending, Published
  <2> QED
    BY <1>1, <1>2, <2>1, OtherRow, OtherPublished DEF RequestsInv
<1>5. CapsInv'
  <2>1. (OpenRequests \ raced)' \subseteq OpenRequests \ raced
    BY <1>1 DEF OpenRequests, IsOpen
  <2> QED
    BY <1>1, <2>1, CapsKept DEF RequestsInv
<1> QED
  BY <1>3, <1>4, <1>5 DEF Kept

LEMMA InitHolds == Init => RequestsInv
<1> SUFFICES ASSUME Init PROVE RequestsInv
  OBVIOUS
<1>0. PICK S \in SUBSET OldRows : \E old \in [S -> OpenStates] :
        /\ row = [r \in Requests |-> IF r \in S THEN Row(old[r], "nobody") ELSE NoRow]
        /\ told = [r \in Requests |-> IF r \in S THEN {old[r]} ELSE {}]
  BY DEF Init
<1>1. PICK old \in [S -> OpenStates] :
        /\ row = [r \in Requests |-> IF r \in S THEN Row(old[r], "nobody") ELSE NoRow]
        /\ told = [r \in Requests |-> IF r \in S THEN {old[r]} ELSE {}]
  BY <1>0
<1>2. \A r \in S : old[r] \in OpenStates /\ old[r] \in States
  BY <1>1 DEF OpenStates, States
<1>3. \A w \in Processes : jobs[w] = Free /\ jobs[w].at = "free"
  BY DEF Init, Processes, Free
<1>4. TypeOK
  <2>1. row \in [Requests -> RowType]
    BY <1>1, <1>2, RowIsTyped DEF NoRow
  <2>2. told \in [Requests -> SUBSET (Events \cup States)]
    BY <1>1, <1>2
  <2>3. calls \in 0..MaxCalls /\ losses \in 0..MaxLosses
    BY RequestsAssumption DEF Init
  <2>4. RowTypes
    BY <2>1, <2>2, <2>3 DEF Init, RowTypes
  <2>5. jobs \in [Processes -> JobTypes]
    BY DEF Init, Processes, JobTypes
  <2> QED
    BY <2>4, <2>5, TypeParts
<1>5. \A w \in Processes : JobOK(w)
  BY <1>3 DEF JobOK
<1>6. ASSUME NEW r \in Requests PROVE RowOK(r) /\ Published(r)
  <2>1. CASE r \in S
    <3>1. row[r].state = old[r] /\ row[r].cancelledBy = "nobody" /\ told[r] = {old[r]}
      BY <1>1, <2>1 DEF Row
    <3>2. old[r] \notin {"CANCELLED", "EXPIRED"}
      BY <1>2, <2>1 DEF OpenStates
    <3> QED
      BY <3>1, <3>2 DEF RowOK, Published, Covered
  <2>2. CASE r \notin S
    <3>1. row[r].state = "none" /\ row[r].cancelledBy = "nobody" /\ told[r] = {}
      BY <1>1, <2>2 DEF NoRow, Row
    <3> QED
      BY <3>1 DEF RowOK, Published, Covered
  <2> QED
    BY <2>1, <2>2
<1>7. CapsInv
  <2>1. OpenRequests \ raced \subseteq OldRows
    BY <1>1 DEF OpenRequests, IsOpen, NoRow, Row, OpenStates
  <2>2. IsFiniteSet(OldRows) /\ Cardinality(OldRows) <= OpenLimit
    BY RequestsAssumption, FS_Subset
  <2>3. Cardinality(OpenRequests \ raced) <= Cardinality(OldRows)
        /\ Cardinality(OpenRequests \ raced) \in Nat /\ Cardinality(OldRows) \in Nat
    BY <2>1, <2>2, FS_Subset, FS_CardinalityType
  <2>4. Cardinality(today) = 0
    BY FS_EmptySet DEF Init
  <2>5. \A w \in Workers : jobs[w].at # "count"
    BY <1>3 DEF Processes
  <2> QED
    BY <2>2, <2>3, <2>4, <2>5, RequestsAssumption DEF CapsInv
<1> QED
  BY <1>4, <1>5, <1>6, <1>7 DEF RequestsInv

LEMMA InvKept == RequestsInv /\ [Next]_vars => RequestsInv'
<1> SUFFICES ASSUME RequestsInv, [Next]_vars PROVE TypeOK' /\ Kept
  BY DEF RequestsInv, Kept
<1>0. TypeOK
  BY DEF RequestsInv
<1>1. ASSUME NEW w \in Workers, StartCreate(w) PROVE TypeOK' /\ Kept
  BY <1>0, <1>1, CreateTypes, CreateKeeps
<1>2. ASSUME NEW w \in Workers, NEW op \in Operations, NEW r \in Requests, Read(w, op, r)
      PROVE  TypeOK' /\ Kept
  BY <1>0, <1>2, ReadTypes, ReadKeeps
<1>3. ASSUME NEW s \in Sweepers, StartSweep(s) PROVE TypeOK' /\ Kept
  BY <1>0, <1>3, SweepTypes, SweepKeeps
<1>4. ASSUME NEW w \in Processes, JobStep(w) PROVE TypeOK' /\ Kept
  <2>1. ASSUME NEW what \in {"today", "open"}, Count(w, what) PROVE TypeOK' /\ Kept
    BY <1>0, <2>1, CountTypes, CountKeeps
  <2>2. ASSUME NEW r \in Requests, Insert(w, r) PROVE TypeOK' /\ Kept
    BY <1>0, <2>2, InsertTypes, InsertKeeps
  <2>3. ASSUME NEW r \in Requests, Write(w, r) PROVE TypeOK' /\ Kept
    BY <1>0, <2>3, WriteTypes, WriteKeeps
  <2>4. CASE EmitThrows(w) \/ \E sent \in BOOLEAN : Emit(w, sent)
    BY <1>0, <2>4, EmitTypes, EmitKeeps
  <2>5. CASE QueryFails(w)
    BY <1>0, <2>5, FailTypes, FailKeeps
  <2> QED
    BY <1>4, <2>1, <2>2, <2>3, <2>4, <2>5 DEF JobStep
<1>5. CASE Midnight \/ (\E r \in Requests : PassExpiry(r)) \/ UNCHANGED vars
  BY <1>0, <1>5, TimeTypes, TimeKeeps
<1>6. CASE Restart
  BY <1>0, <1>6, TimeTypes, RestartKeeps
<1> QED
  BY <1>1, <1>2, <1>3, <1>4, <1>5, <1>6 DEF Next, Processes

-----------------------------------------------------------------------------
(* The theorems. *)

\* The inductive invariant holds in every reachable state.
THEOREM RequestsInvariant == Spec => []RequestsInv
  BY InitHolds, InvKept, PTL DEF Spec

\* Every variable has its type; in particular only users and admins are ever
\* on record as having cancelled.
THEOREM RequestsTypes == Spec => []TypeOK
<1>1. RequestsInv => TypeOK
  BY DEF RequestsInv
<1> QED
  BY RequestsInvariant, <1>1, PTL

\* The caps hold unless two creates counted side by side or a stale copy
\* revived a request (cap-enforcement.service.ts:119-145).
THEOREM CapsAreKept == Spec => []CapsHold
<1>1. RequestsInv => CapsHold
  BY DEF RequestsInv, CapsInv, CapsHold
<1> QED
  BY RequestsInvariant, <1>1, PTL

\* Writes of whole rows never leave an open request with a canceller
\* (request.entity.ts:108-125).
THEOREM CancellersAreOfCancelled == Spec => []CancellerOfCancelled
<1>1. RequestsInv => CancellerOfCancelled
  BY DEF RequestsInv, RowOK, CancellerOfCancelled
<1> QED
  BY RequestsInvariant, <1>1, PTL

\* Whatever crosses: the state of a row is published, about to be, or its
\* announcement was lost (request.service.ts:612-631).
THEOREM StatesArePublished == Spec => []StateIsPublished
<1>1. RequestsInv => StateIsPublished
  <2>1. SUFFICES ASSUME RequestsInv, NEW r \in Requests
                 PROVE  \/ row[r].state \in {"none", "draft"} \cup told[r]
                        \/ row[r].state = "submitted" /\ "CREATED" \in told[r]
                        \/ row[r].state = "expired" /\ "EXPIRED" \in told[r]
                        \/ r \in unheard
                        \/ \E w \in Workers \cup Sweepers :
                             /\ jobs[w].at = "work" /\ jobs[w].id = r
                             /\ jobs[w].event # "none" /\ jobs[w].op.to = row[r].state
    BY DEF StateIsPublished
  <2>2. Published(r)
    BY <2>1 DEF RequestsInv
  <2> QED
    BY <2>2 DEF Published, Covered, Pending, Processes
<1> QED
  BY RequestsInvariant, <1>1, PTL

\* Both endings of a request are announced only after a stale write
\* (request.service.ts:338-351, 608-631).
THEOREM EndingsAreOne == Spec => []OneEnding
<1>1. RequestsInv => OneEnding
  BY DEF RequestsInv, RowOK, OneEnding
<1> QED
  BY RequestsInvariant, <1>1, PTL

\* Every change of a row follows the table of transitions, is the expiry of an
\* open request, or was written from a stale copy (request.service.ts:608-616).
THEOREM ChangesFollowTheTable == Spec => Lifecycle
<1> DEFINE Legal(r) == row'[r] # row[r] =>
             \/ row[r] = NoRow /\ row'[r].state = "submitted"
             \/ row'[r].state \in NextStates(row[r].state)
             \/ IsOpen(r) /\ row'[r].state = "expired"
             \/ r \in raced'
<1>1. ASSUME RequestsInv, [Next]_vars, NEW r \in Requests PROVE Legal(r)
  <2>1. CASE \E w \in Processes, x \in Requests : Insert(w, x)
    BY <1>1, <2>1, RowIsTyped DEF Insert, RequestsInv, TypeOK, States, Row
  <2>2. ASSUME NEW w \in Processes, NEW x \in Requests, Write(w, x) PROVE Legal(r)
    <3>1. /\ jobs[w].op \in AllOps /\ jobs[w].page[x] \in RowType
          /\ CopyOK(jobs[w].op, jobs[w].page[x])
      BY <1>1, <2>2, JobKinds, PageParts DEF Write, RequestsInv, JobOK
    <3>2. /\ row'[x] = Applied(jobs[w].op, jobs[w].page[x])
          /\ \A y \in Requests \ {x} : row'[y] = row[y]
          /\ jobs[w].page[x] = row[x] \/ x \in raced'
      BY <1>1, <2>2 DEF Write, RequestsInv, TypeOK
    <3>3. row'[x].state = jobs[w].op.to
      BY <3>1, <3>2, AppliedType
    <3> QED
      BY <3>1, <3>2, <3>3, OpTypes DEF CopyOK, IsOpen
  <2>3. CASE UNCHANGED row
    BY <2>3
  <2> QED
    BY <1>1, <2>1, <2>2, <2>3
       DEF Next, JobStep, Processes, StartCreate, Read, StartSweep, Count, Emit, EmitThrows,
           QueryFails, PassExpiry, Midnight, Restart, vars
<1>2. RequestsInv /\ [Next]_vars => [\A r \in Requests : Legal(r)]_vars
  BY <1>1
<1> QED
  BY RequestsInvariant, <1>2, PTL DEF Spec, Lifecycle

-----------------------------------------------------------------------------
(* The handlers run down: the half of OverdueIsClosed that does not depend   *)
(* on fairness.                                                              *)

\* The rows that a job still has to write or to announce.
Owed(j) == Cardinality(DOMAIN j.page) + (IF j.event = "none" THEN 0 ELSE 1)

\* The rows that an operation takes on: the expiry job a page, others one.
Load(w) == IF w \in Sweepers THEN SweepSize ELSE 1

Fits(w, j) == j.at = "work" => 1 <= Owed(j) /\ Owed(j) <= Load(w)

\* No operation waits with nothing left to do, and none takes on more rows.
OperationsFit == \A w \in Processes : Fits(w, jobs[w])

\* The announcements that follow the write of a row, from this one on.
EventRank(e) ==
    CASE e = "STATE_CHANGED"                                      -> 3
      [] e \in {"CREATED", "SUBMITTED", "CANCELLED", "EXPIRED"}   -> 2
      [] e = "matchRequest"                                       -> 1
      [] OTHER                                                    -> 0

\* The steps that an operation takes at most.
StepsLeft(j) ==
    CASE j.at = "free"  -> 0
      [] j.at = "count" -> 5 - Cardinality(j.passed)
      [] OTHER          -> 4 * Cardinality(DOMAIN j.page) + EventRank(j.event)

\* A step brings its operation closer to the end, and no step of another one
\* takes an operation back.
HandlersRunDown ==
    \A w \in Processes :
      /\ JobStep(w) => StepsLeft(jobs'[w]) < StepsLeft(jobs[w])
      /\ jobs[w] # Free =>
           jobs'[w] = jobs[w] \/ StepsLeft(jobs'[w]) < StepsLeft(jobs[w])

LEMMA PageIsCounted ==
    ASSUME NEW page \in Pages
    PROVE  /\ Cardinality(DOMAIN page) \in Nat
           /\ Cardinality(DOMAIN page) = 0 <=> DOMAIN page = {}
           /\ \A r \in DOMAIN page :
                /\ Cardinality(DOMAIN page) >= 1
                /\ Cardinality(DOMAIN Without(page, r)) = Cardinality(DOMAIN page) - 1
<1>1. IsFiniteSet(DOMAIN page)
  BY PageParts, RequestsAssumption, FS_Subset
<1>2. /\ Cardinality(DOMAIN page) \in Nat
      /\ Cardinality(DOMAIN page) = 0 <=> DOMAIN page = {}
  BY <1>1, FS_CardinalityType, FS_EmptySet
<1>3. ASSUME NEW r \in DOMAIN page
      PROVE  /\ Cardinality(DOMAIN page) >= 1
             /\ Cardinality(DOMAIN Without(page, r)) = Cardinality(DOMAIN page) - 1
  <2>1. DOMAIN Without(page, r) = DOMAIN page \ {r}
    BY WithoutType
  <2>2. Cardinality(DOMAIN page \ {r}) = Cardinality(DOMAIN page) - 1
    BY <1>1, FS_RemoveElement
  <2>3. Cardinality(DOMAIN page) # 0
    BY <1>2
  <2> QED
    BY <1>2, <2>1, <2>2, <2>3
<1> QED
  BY <1>2, <1>3

LEMMA PassedIsCounted ==
    ASSUME NEW seen \in SUBSET {"today", "open"}
    PROVE  /\ Cardinality(seen) \in 0..2
           /\ \A what \in {"today", "open"} \ seen :
                Cardinality(seen \cup {what}) = Cardinality(seen) + 1
           /\ Cardinality({"today", "open"}) = 2
<1>1. Cardinality({"today", "open"}) = 2 /\ IsFiniteSet({"today", "open"})
  <2>1. IsFiniteSet({"today"}) /\ Cardinality({"today"}) = 1
    BY FS_Singleton
  <2>2. {"today"} \cup {"open"} = {"today", "open"} /\ "open" \notin {"today"}
    OBVIOUS
  <2>3. /\ IsFiniteSet({"today"} \cup {"open"})
        /\ Cardinality({"today"} \cup {"open"}) = 1 + 1
    BY <2>1, <2>2, FS_AddElement
  <2> QED
    BY <2>2, <2>3
<1>2. IsFiniteSet(seen) /\ Cardinality(seen) <= 2
  BY <1>1, FS_Subset
<1>3. Cardinality(seen) \in Nat
  BY <1>2, FS_CardinalityType
<1> QED
  BY <1>1, <1>2, <1>3, FS_AddElement

LEMMA RankIsCounted ==
    /\ \A e : EventRank(e) \in 0..3
    /\ EventRank("none") = 0
    /\ \A e \in Events : EventRank(e) >= 1
    /\ \A op \in AllOps, e \in Events : EventRank(FollowUp(op, e)) < EventRank(e)
    /\ \A op \in AllOps : EventRank(FirstEvent(op)) <= 3 /\ FirstEvent(op) # "none"
    /\ EventRank(FirstEvent(Create)) = 2
<1>1. \A e : EventRank(e) \in 0..3
  BY DEF EventRank
<1>2. EventRank("none") = 0 /\ \A e \in Events : EventRank(e) >= 1
  BY DEF EventRank, Events
<1>3. ASSUME NEW op \in AllOps, NEW e \in Events
      PROVE  EventRank(FollowUp(op, e)) < EventRank(e)
  <2>1. CASE e = "STATE_CHANGED"
    <3>1. FollowUp(op, e) \in {"SUBMITTED", "CANCELLED", "EXPIRED", "none"}
      BY <2>1 DEF FollowUp
    <3> QED
      BY <2>1, <3>1 DEF EventRank
  <2>2. CASE e \in {"CREATED", "SUBMITTED"}
    <3>1. FollowUp(op, e) = "matchRequest"
      BY <2>2 DEF FollowUp
    <3> QED
      BY <2>2, <3>1 DEF EventRank
  <2>3. CASE e \in {"CANCELLED", "EXPIRED", "matchRequest"}
    <3>1. FollowUp(op, e) = "none"
      BY <2>3 DEF FollowUp
    <3> QED
      BY <2>3, <3>1 DEF EventRank
  <2> QED
    BY <2>1, <2>2, <2>3 DEF Events
<1>4. ASSUME NEW op \in AllOps
      PROVE  EventRank(FirstEvent(op)) <= 3 /\ FirstEvent(op) # "none"
  <2>1. FirstEvent(op) \in Events
    BY OpTypes
  <2>2. EventRank(FirstEvent(op)) \in 0..3
    BY <1>1
  <2> QED
    BY <2>1, <2>2 DEF Events
<1>5. EventRank(FirstEvent(Create)) = 2
  BY OpTypes DEF EventRank
<1> QED
  BY <1>1, <1>2, <1>3, <1>4, <1>5

LEMMA WorkIsCounted ==
    ASSUME NEW op, NEW page \in Pages, NEW r, NEW e
    PROVE  /\ Working(op, page, r, e).at = "work"
           /\ StepsLeft(Working(op, page, r, e)) = 4 * Cardinality(DOMAIN page) + EventRank(e)
           /\ Owed(Working(op, page, r, e)) =
                Cardinality(DOMAIN page) + (IF e = "none" THEN 0 ELSE 1)
  BY DEF Working, StepsLeft, Owed

\* An operation that goes on is at the start of one of its rows.
LEMMA GoOnIsCounted ==
    ASSUME NEW op, NEW page \in Pages, NEW r
    PROVE  /\ StepsLeft(GoOn(op, page, r)) = 4 * Cardinality(DOMAIN page)
           /\ GoOn(op, page, r).at = "work" =>
                /\ Owed(GoOn(op, page, r)) = Cardinality(DOMAIN page)
                /\ Cardinality(DOMAIN page) >= 1
<1>1. Cardinality(DOMAIN page) \in Nat /\ (Cardinality(DOMAIN page) = 0 <=> DOMAIN page = {})
  BY PageIsCounted
<1>2. CASE DOMAIN page = {}
  BY <1>1, <1>2 DEF GoOn, Free, StepsLeft
<1>3. CASE DOMAIN page # {}
  <2>1. GoOn(op, page, r) = Working(op, page, r, "none")
    BY <1>3 DEF GoOn
  <2>2. /\ StepsLeft(GoOn(op, page, r)) = 4 * Cardinality(DOMAIN page) + 0
        /\ Owed(GoOn(op, page, r)) = Cardinality(DOMAIN page) + 0
    BY <2>1, WorkIsCounted, RankIsCounted
  <2> QED
    BY <1>1, <1>3, <2>2
<1> QED
  BY <1>2, <1>3

LEMMA LoadIsCounted ==
    ASSUME NEW w \in Processes
    PROVE  Load(w) \in Nat /\ Load(w) >= 1
  BY RequestsAssumption DEF Load

\* The step of w leaves it with the job j, closer to the end.
Advances(w, j) ==
    /\ jobs' = [jobs EXCEPT ![w] = j]
    /\ StepsLeft(j) < StepsLeft(jobs[w])
    /\ Fits(w, j)

\* What the job of a handler amounts to.
LEMMA JobIsCounted ==
    ASSUME TypeOK, NEW w \in Processes
    PROVE  /\ StepsLeft(jobs[w]) \in Nat
           /\ jobs[w].at = "free" => StepsLeft(jobs[w]) = 0 /\ jobs[w] = Free
           /\ jobs[w].at = "count" => StepsLeft(jobs[w]) \in 3..5
           /\ jobs[w].at = "work" =>
                /\ jobs[w].page \in Pages
                /\ Cardinality(DOMAIN jobs[w].page) \in Nat
                /\ StepsLeft(jobs[w]) =
                     4 * Cardinality(DOMAIN jobs[w].page) + EventRank(jobs[w].event)
<1>1. CASE jobs[w].at = "free"
  BY <1>1, JobKinds DEF StepsLeft
<1>2. CASE jobs[w].at = "count"
  <2>1. jobs[w].passed \in SUBSET {"today", "open"}
    BY <1>2, JobKinds
  <2>2. Cardinality(jobs[w].passed) \in 0..2
    BY <2>1, PassedIsCounted
  <2>3. StepsLeft(jobs[w]) = 5 - Cardinality(jobs[w].passed)
    BY <1>2 DEF StepsLeft
  <2> QED
    BY <1>2, <2>2, <2>3
<1>3. CASE jobs[w].at = "work"
  <2>1. jobs[w].page \in Pages
    BY <1>3, JobKinds
  <2>2. Cardinality(DOMAIN jobs[w].page) \in Nat
    BY <2>1, PageIsCounted
  <2>3. EventRank(jobs[w].event) \in Nat
    BY RankIsCounted
  <2>4. StepsLeft(jobs[w]) =
          4 * Cardinality(DOMAIN jobs[w].page) + EventRank(jobs[w].event)
    BY <1>3 DEF StepsLeft
  <2> QED
    BY <1>3, <2>1, <2>2, <2>3, <2>4
<1> QED
  BY <1>1, <1>2, <1>3, JobKinds

LEMMA CountAdvances ==
    ASSUME TypeOK, NEW w \in Processes, NEW what \in {"today", "open"}, Count(w, what)
    PROVE  \E j : Advances(w, j)
<1>1. jobs[w].at = "count" /\ what \notin jobs[w].passed
  BY DEF Count
<1>2. jobs[w].passed \in SUBSET {"today", "open"}
  BY <1>1, JobKinds
<1> DEFINE seen == jobs[w].passed
           next == Counting(seen \cup {what})
<1>3. jobs' = [jobs EXCEPT ![w] = Free] \/ jobs' = [jobs EXCEPT ![w] = next]
  BY DEF Count
<1>4. StepsLeft(jobs[w]) = 5 - Cardinality(seen)
  BY <1>1 DEF StepsLeft
<1>5. StepsLeft(Free) = 0 /\ Fits(w, Free)
  BY DEF StepsLeft, Fits, Free
<1>6. StepsLeft(next) = 5 - Cardinality(seen \cup {what}) /\ Fits(w, next)
  BY DEF StepsLeft, Fits, Counting
<1>7. Cardinality(seen) \in 0..2 /\ Cardinality(seen \cup {what}) = Cardinality(seen) + 1
  BY <1>1, <1>2, PassedIsCounted
<1> HIDE DEF next, seen
<1>8. StepsLeft(Free) < StepsLeft(jobs[w]) /\ StepsLeft(next) < StepsLeft(jobs[w])
  BY <1>4, <1>5, <1>6, <1>7
<1> QED
  BY <1>3, <1>5, <1>6, <1>8 DEF Advances

LEMMA InsertAdvances ==
    ASSUME TypeOK, NEW w \in Processes, NEW r \in Requests, Insert(w, r)
    PROVE  \E j : Advances(w, j)
<1> DEFINE page == [x \in {} |-> NoRow]
           j == Working(Create, page, r, FirstEvent(Create))
<1>1. page \in Pages
  <2>1. {} \in SUBSET Requests /\ page \in [{} -> RowType]
    OBVIOUS
  <2> QED
    BY <2>1, PageType
<1>2. Cardinality(DOMAIN page) = 0
  BY FS_EmptySet
<1>3. jobs' = [jobs EXCEPT ![w] = j] /\ jobs[w].at = "count"
  BY DEF Insert, Counting
<1> HIDE DEF page
<1>4. StepsLeft(j) = 2 /\ Owed(j) = 1
  BY <1>1, <1>2, OpTypes, WorkIsCounted, RankIsCounted
<1>5. StepsLeft(jobs[w]) \in 3..5
  BY <1>3, JobIsCounted
<1>6. Fits(w, j)
  BY <1>4, LoadIsCounted DEF Fits
<1> HIDE DEF j
<1>7. StepsLeft(j) < StepsLeft(jobs[w])
  BY <1>4, <1>5
<1> QED
  BY <1>3, <1>6, <1>7 DEF Advances

LEMMA WriteAdvances ==
    ASSUME TypeOK, OperationsFit, NEW w \in Processes, NEW r \in Requests, Write(w, r)
    PROVE  \E j : Advances(w, j)
<1> DEFINE op == jobs[w].op
           page == jobs[w].page
           rest == Without(jobs[w].page, r)
           j == Working(op, rest, r, FirstEvent(op))
           n == Cardinality(DOMAIN page)
<1>1. /\ jobs[w].at = "work" /\ jobs[w].event = "none" /\ r \in DOMAIN page
      /\ jobs' = [jobs EXCEPT ![w] = j]
  BY DEF Write
<1>2. op \in AllOps /\ page \in Pages /\ rest \in Pages
  BY <1>1, JobKinds, WithoutType
<1>3. n \in Nat /\ Cardinality(DOMAIN rest) = n - 1
  BY <1>1, <1>2, PageIsCounted
<1>4. StepsLeft(jobs[w]) = 4 * n + 0
  BY <1>1, JobIsCounted, RankIsCounted
<1>5. Owed(jobs[w]) = n /\ 1 <= n /\ n <= Load(w)
  BY <1>1, <1>3 DEF OperationsFit, Fits, Owed
<1>6. FirstEvent(op) # "none" /\ EventRank(FirstEvent(op)) \in 0..3
  BY <1>2, RankIsCounted
<1> HIDE DEF op, page, rest, n
<1>7. /\ StepsLeft(j) = 4 * (n - 1) + EventRank(FirstEvent(op))
      /\ Owed(j) = (n - 1) + 1
  BY <1>2, <1>3, <1>6, WorkIsCounted
<1> HIDE DEF j
<1>8. StepsLeft(j) < StepsLeft(jobs[w])
  BY <1>3, <1>4, <1>6, <1>7
<1>9. Fits(w, j)
  BY <1>3, <1>5, <1>7 DEF Fits
<1> QED
  BY <1>1, <1>8, <1>9 DEF Advances

LEMMA FailAdvances ==
    ASSUME TypeOK, OperationsFit, NEW w \in Processes, QueryFails(w)
    PROVE  \E j : Advances(w, j)
<1>1. CASE jobs[w].at = "count"
  <2>1. jobs' = [jobs EXCEPT ![w] = Free]
    BY <1>1 DEF QueryFails
  <2>2. StepsLeft(Free) = 0 /\ Fits(w, Free)
    BY DEF StepsLeft, Fits, Free
  <2>3. StepsLeft(Free) < StepsLeft(jobs[w])
    BY <1>1, <2>2, JobIsCounted
  <2> QED
    BY <2>1, <2>2, <2>3 DEF Advances
<1>2. CASE jobs[w].at # "count"
  <2> DEFINE op == jobs[w].op
             page == jobs[w].page
             n == Cardinality(DOMAIN page)
  <2>1. /\ jobs[w].at = "work" /\ jobs[w].event = "none"
        /\ \E r \in DOMAIN page : jobs' = [jobs EXCEPT ![w] = GoOn(op, Without(page, r), r)]
    BY <1>2 DEF QueryFails
  <2>2. PICK r \in DOMAIN page : jobs' = [jobs EXCEPT ![w] = GoOn(op, Without(page, r), r)]
    BY <2>1
  <2> DEFINE rest == Without(page, r)
             j == GoOn(op, rest, r)
  <2>3. page \in Pages /\ rest \in Pages
    BY <2>1, JobKinds, WithoutType
  <2>4. n \in Nat /\ Cardinality(DOMAIN rest) = n - 1
    BY <2>3, PageIsCounted
  <2>5. StepsLeft(jobs[w]) = 4 * n + 0
    BY <2>1, JobIsCounted, RankIsCounted
  <2>6. Owed(jobs[w]) = n /\ n <= Load(w)
    BY <2>1, <2>4 DEF OperationsFit, Fits, Owed
  <2> HIDE DEF op, page, n, rest
  <2>7. /\ StepsLeft(j) = 4 * (n - 1)
        /\ j.at = "work" => Owed(j) = n - 1 /\ n - 1 >= 1
    BY <2>3, <2>4, GoOnIsCounted
  <2>8. jobs' = [jobs EXCEPT ![w] = j]
    BY <2>2 DEF rest
  <2> HIDE DEF j
  <2>9. StepsLeft(j) < StepsLeft(jobs[w])
    BY <2>4, <2>5, <2>7
  <2>10. Fits(w, j)
    BY <2>4, <2>6, <2>7, LoadIsCounted DEF Fits
  <2> QED
    BY <2>8, <2>9, <2>10 DEF Advances
<1> QED
  BY <1>1, <1>2

LEMMA EmitAdvances ==
    ASSUME TypeOK, OperationsFit, NEW w \in Processes,
           EmitThrows(w) \/ \E sent \in BOOLEAN : Emit(w, sent)
    PROVE  \E j : Advances(w, j)
<1> DEFINE op == jobs[w].op
           page == jobs[w].page
           e == jobs[w].event
           id == jobs[w].id
           n == Cardinality(DOMAIN page)
           done == GoOn(op, page, id)
           next == Working(op, page, id, FollowUp(op, e))
<1>1. /\ jobs[w].at = "work" /\ e # "none"
      /\ \/ jobs' = [jobs EXCEPT ![w] = done]
         \/ FollowUp(op, e) # "none" /\ jobs' = [jobs EXCEPT ![w] = next]
  BY DEF Emit, EmitThrows, Events
<1>2. op \in AllOps /\ page \in Pages /\ e \in Events
  BY <1>1, JobKinds
<1>3. n \in Nat /\ StepsLeft(jobs[w]) = 4 * n + EventRank(e)
  BY <1>1, JobIsCounted
<1>4. Owed(jobs[w]) = n + 1 /\ n + 1 <= Load(w)
  BY <1>1, <1>3 DEF OperationsFit, Fits, Owed
<1>5. EventRank(e) \in 0..3 /\ EventRank(e) >= 1
  BY <1>2, RankIsCounted
<1>6. EventRank(FollowUp(op, e)) \in 0..3 /\ EventRank(FollowUp(op, e)) < EventRank(e)
  BY <1>2, RankIsCounted
<1> HIDE DEF op, page, e, id, n
<1>7. /\ StepsLeft(done) = 4 * n
      /\ done.at = "work" => Owed(done) = n /\ n >= 1
  BY <1>2, GoOnIsCounted DEF n
<1>8. /\ StepsLeft(next) = 4 * n + EventRank(FollowUp(op, e))
      /\ FollowUp(op, e) # "none" => Owed(next) = n + 1
  BY <1>2, WorkIsCounted DEF n
<1> HIDE DEF done, next
<1>9. CASE jobs' = [jobs EXCEPT ![w] = done]
  <2>1. StepsLeft(done) < StepsLeft(jobs[w])
    BY <1>3, <1>5, <1>7
  <2>2. Fits(w, done)
    BY <1>3, <1>4, <1>7, LoadIsCounted DEF Fits
  <2> QED
    BY <1>9, <2>1, <2>2 DEF Advances
<1>10. CASE FollowUp(op, e) # "none" /\ jobs' = [jobs EXCEPT ![w] = next]
  <2>1. StepsLeft(next) < StepsLeft(jobs[w])
    BY <1>3, <1>5, <1>6, <1>8
  <2>2. Fits(w, next)
    BY <1>3, <1>4, <1>8, <1>10 DEF Fits
  <2> QED
    BY <1>10, <2>1, <2>2 DEF Advances
<1> QED
  BY <1>1, <1>9, <1>10

LEMMA JobAdvances ==
    ASSUME TypeOK, OperationsFit, NEW w \in Processes, JobStep(w)
    PROVE  \E j : Advances(w, j)
  BY CountAdvances, InsertAdvances, WriteAdvances, FailAdvances, EmitAdvances DEF JobStep

\* A new operation begins with one row, or with a page.
LEMMA BeginsFit ==
    ASSUME TypeOK, NEW w \in Processes,
           \/ w \in Workers /\ StartCreate(w)
           \/ w \in Workers /\ \E op \in Operations, r \in Requests : Read(w, op, r)
           \/ w \in Sweepers /\ StartSweep(w)
    PROVE  /\ jobs[w] = Free
           /\ \E j : jobs' = [jobs EXCEPT ![w] = j] /\ Fits(w, j)
<1>0. row \in [Requests -> RowType]
  BY DEF TypeOK
<1>1. ASSUME StartCreate(w)
      PROVE  jobs[w] = Free /\ \E j : jobs' = [jobs EXCEPT ![w] = j] /\ Fits(w, j)
  <2>1. Fits(w, Counting({}))
    BY DEF Fits, Counting
  <2> QED
    BY <1>1, <2>1 DEF StartCreate
<1>2. ASSUME NEW op \in Operations, NEW r \in Requests, Read(w, op, r)
      PROVE  jobs[w] = Free /\ \E j : jobs' = [jobs EXCEPT ![w] = j] /\ Fits(w, j)
  <2> DEFINE page == [x \in {r} |-> row[r]]
             j == Working(op, page, r, "none")
  <2>1. page \in Pages /\ DOMAIN page = {r}
    BY <1>0, PageType
  <2>2. Cardinality(DOMAIN page) = 1
    BY <2>1, FS_Singleton
  <2>3. jobs[w] = Free /\ jobs' = [jobs EXCEPT ![w] = j]
    BY <1>2 DEF Read
  <2> HIDE DEF page
  <2>4. Owed(j) = 1
    BY <2>1, <2>2, WorkIsCounted
  <2>5. Fits(w, j)
    BY <2>4, LoadIsCounted DEF Fits
  <2> QED
    BY <2>3, <2>5
<1>3. ASSUME w \in Sweepers, StartSweep(w)
      PROVE  jobs[w] = Free /\ \E j : jobs' = [jobs EXCEPT ![w] = j] /\ Fits(w, j)
  <2>0. PICK S \in SUBSET (OpenRequests \cap overdue) :
          /\ Cardinality(S) <= SweepSize
          /\ \E r \in S :
               jobs' = [jobs EXCEPT ![w] = Working(Sweep, [x \in S |-> row[x]], r, "none")]
    BY <1>3 DEF StartSweep
  <2>1. PICK r \in S :
          /\ Cardinality(S) <= SweepSize
          /\ jobs' = [jobs EXCEPT ![w] = Working(Sweep, [x \in S |-> row[x]], r, "none")]
    BY <2>0
  <2> DEFINE page == [x \in S |-> row[x]]
             j == Working(Sweep, page, r, "none")
  <2>2. S \in SUBSET Requests
    BY <2>1 DEF OpenRequests
  <2>3. page \in Pages /\ DOMAIN page = S
    BY <1>0, <2>2, PageType
  <2>4. jobs[w] = Free /\ jobs' = [jobs EXCEPT ![w] = j]
    BY <1>3, <2>1 DEF StartSweep
  <2> HIDE DEF page
  <2>5. Cardinality(S) \in Nat /\ Cardinality(S) >= 1
    <3>1. r \in DOMAIN page
      BY <2>1, <2>3
    <3> QED
      BY <2>3, <3>1, PageIsCounted
  <2>6. Owed(j) = Cardinality(S)
    BY <2>3, <2>5, WorkIsCounted
  <2>7. Fits(w, j)
    BY <1>3, <2>1, <2>5, <2>6 DEF Fits, Load
  <2> QED
    BY <2>4, <2>7
<1> QED
  BY <1>1, <1>2, <1>3

\* One operation begins or takes a step, or none does and at most all are cut off.
LEMMA OperationSteps ==
    ASSUME TypeOK, OperationsFit, [Next]_vars
    PROVE  \/ \E w \in Processes : \E j :
                /\ jobs' = [jobs EXCEPT ![w] = j] /\ Fits(w, j)
                /\ jobs[w] = Free \/ StepsLeft(j) < StepsLeft(jobs[w])
           \/ jobs' = jobs
           \/ \A w \in Processes : jobs'[w] = Free
<1>1. ASSUME NEW w \in Processes, JobStep(w)
      PROVE  \E j : /\ jobs' = [jobs EXCEPT ![w] = j] /\ Fits(w, j)
                    /\ StepsLeft(j) < StepsLeft(jobs[w])
  BY <1>1, JobAdvances DEF Advances
<1>2. ASSUME NEW w \in Processes,
           \/ w \in Workers /\ StartCreate(w)
           \/ w \in Workers /\ \E op \in Operations, r \in Requests : Read(w, op, r)
           \/ w \in Sweepers /\ StartSweep(w)
      PROVE  jobs[w] = Free /\ \E j : jobs' = [jobs EXCEPT ![w] = j] /\ Fits(w, j)
  BY <1>2, BeginsFit
<1>3. ASSUME Restart PROVE \A w \in Processes : jobs'[w] = Free
  BY <1>3 DEF Restart, Processes
<1>4. ASSUME Midnight \/ UNCHANGED vars \/ \E r \in Requests : PassExpiry(r)
      PROVE  jobs' = jobs
  BY <1>4 DEF Midnight, vars, PassExpiry
<1>5. CASE \E w \in Processes : JobStep(w)
  BY <1>1, <1>5
<1>6. CASE \/ \E w \in Workers : StartCreate(w)
           \/ \E w \in Workers : \E op \in Operations, r \in Requests : Read(w, op, r)
           \/ \E s \in Sweepers : StartSweep(s)
  BY <1>2, <1>6 DEF Processes
<1> QED
  BY <1>3, <1>4, <1>5, <1>6 DEF Next, Processes

LEMMA FitsStay ==
    ASSUME TypeOK, OperationsFit, [Next]_vars
    PROVE  OperationsFit'
<1>0. jobs \in [Processes -> JobTypes]
  BY TypeParts
<1>1. SUFFICES \A v \in Processes : Fits(v, jobs'[v])
  BY DEF OperationsFit, Fits, Owed, Load
<1>2. ASSUME NEW w \in Processes, NEW j, jobs' = [jobs EXCEPT ![w] = j], Fits(w, j)
      PROVE  \A v \in Processes : Fits(v, jobs'[v])
  <2>1. jobs'[w] = j /\ \A v \in Processes \ {w} : jobs'[v] = jobs[v]
    BY <1>0, <1>2
  <2> QED
    BY <1>2, <2>1 DEF OperationsFit
<1>3. CASE jobs' = jobs
  BY <1>3 DEF OperationsFit
<1>4. CASE \A w \in Processes : jobs'[w] = Free
  BY <1>4 DEF Fits, Free
<1> QED
  BY <1>2, <1>3, <1>4, OperationSteps

\* An operation under way has a step to take, and no more than it took on.
LEMMA BusyHasSteps ==
    ASSUME TypeOK, OperationsFit, NEW w \in Processes, jobs[w] # Free
    PROVE  /\ StepsLeft(jobs[w]) \in Nat /\ StepsLeft(jobs[w]) # 0
           /\ jobs[w].at = "count" => StepsLeft(jobs[w]) <= 5
           /\ jobs[w].at = "work" => StepsLeft(jobs[w]) <= 4 * Load(w)
<1>1. CASE jobs[w].at = "count"
  BY <1>1, JobIsCounted
<1>2. CASE jobs[w].at = "work"
  <2> DEFINE n == Cardinality(DOMAIN jobs[w].page)
             rank == EventRank(jobs[w].event)
             load == Load(w)
  <2>1. n \in Nat /\ StepsLeft(jobs[w]) = 4 * n + rank
    BY <1>2, JobIsCounted
  <2>2. load \in Nat /\ rank \in 0..3
    BY LoadIsCounted, RankIsCounted
  <2>3. 1 <= Owed(jobs[w]) /\ Owed(jobs[w]) <= load
    BY <1>2 DEF OperationsFit, Fits
  <2>4. CASE jobs[w].event = "none"
    <3>1. rank = 0 /\ Owed(jobs[w]) = n
      BY <2>1, <2>4, RankIsCounted DEF Owed
    <3> HIDE DEF n, rank, load
    <3> QED
      BY <1>2, <2>1, <2>2, <2>3, <3>1 DEF load
  <2>5. CASE jobs[w].event # "none"
    <3>1. rank >= 1 /\ Owed(jobs[w]) = n + 1
      BY <1>2, <2>5, JobKinds, RankIsCounted DEF Owed
    <3> HIDE DEF n, rank, load
    <3> QED
      BY <1>2, <2>1, <2>2, <2>3, <3>1 DEF load
  <2> QED
    BY <2>4, <2>5
<1> QED
  BY <1>1, <1>2, JobKinds

LEMMA StepsDown ==
    ASSUME TypeOK, OperationsFit, [Next]_vars
    PROVE  HandlersRunDown
<1>0. jobs \in [Processes -> JobTypes]
  BY TypeParts
<1>1. ASSUME NEW w \in Processes, JobStep(w)
      PROVE  StepsLeft(jobs'[w]) < StepsLeft(jobs[w])
  <2>1. PICK j : Advances(w, j)
    BY <1>1, JobAdvances
  <2> QED
    BY <1>0, <2>1 DEF Advances
<1>2. ASSUME NEW w \in Processes, jobs[w] # Free
      PROVE  jobs'[w] = jobs[w] \/ StepsLeft(jobs'[w]) < StepsLeft(jobs[w])
  <2>1. ASSUME NEW v \in Processes, NEW j, jobs' = [jobs EXCEPT ![v] = j],
               jobs[v] = Free \/ StepsLeft(j) < StepsLeft(jobs[v])
        PROVE  jobs'[w] = jobs[w] \/ StepsLeft(jobs'[w]) < StepsLeft(jobs[w])
    BY <1>0, <1>2, <2>1
  <2>2. CASE \A v \in Processes : jobs'[v] = Free
    <3>1. StepsLeft(Free) = 0
      BY DEF StepsLeft, Free
    <3>2. StepsLeft(jobs[w]) \in Nat /\ StepsLeft(jobs[w]) # 0
      BY <1>2, BusyHasSteps
    <3> QED
      BY <2>2, <3>1, <3>2
  <2> QED
    BY <2>1, <2>2, OperationSteps
<1> QED
  BY <1>1, <1>2 DEF HandlersRunDown

\* An operation runs down: it owes a step as long as it is under way, one of a
\* user or an admin five at most and a run of the expiry job four for each row
\* of its page; each step brings it closer to the end, and nothing that crosses
\* it takes it back (request.service.ts:185-240, 602-650).
THEOREM OperationsEnd ==
    Spec => [](\A w \in Processes :
                 /\ StepsLeft(jobs[w]) \in Nat
                 /\ StepsLeft(jobs[w]) = 0 <=> jobs[w] = Free
                 /\ StepsLeft(jobs[w]) <= IF w \in Sweepers THEN 4 * SweepSize ELSE 5)
            /\ [][HandlersRunDown]_vars
<1>1. Init => OperationsFit
  BY DEF Init, OperationsFit, Fits, Free, Processes
<1>2. TypeOK /\ OperationsFit /\ [Next]_vars => OperationsFit'
  BY FitsStay
<1>3. Spec => []OperationsFit
  BY RequestsTypes, <1>1, <1>2, PTL DEF Spec
<1>4. ASSUME RequestsInv, OperationsFit, NEW w \in Processes
      PROVE  /\ StepsLeft(jobs[w]) \in Nat
             /\ StepsLeft(jobs[w]) = 0 <=> jobs[w] = Free
             /\ StepsLeft(jobs[w]) <= IF w \in Sweepers THEN 4 * SweepSize ELSE 5
  <2>0. TypeOK /\ SweepSize \in Nat \ {0}
    BY <1>4, RequestsAssumption DEF RequestsInv
  <2>1. CASE jobs[w] = Free
    <3>1. StepsLeft(jobs[w]) = 0
      BY <2>1 DEF StepsLeft, Free
    <3> QED
      BY <2>0, <2>1, <3>1
  <2>2. CASE jobs[w] # Free
    <3>1. /\ StepsLeft(jobs[w]) \in Nat /\ StepsLeft(jobs[w]) # 0
          /\ jobs[w].at = "count" => StepsLeft(jobs[w]) <= 5
          /\ jobs[w].at = "work" => StepsLeft(jobs[w]) <= 4 * Load(w)
      BY <1>4, <2>0, <2>2, BusyHasSteps
    <3>2. jobs[w].at = "work" \/ (jobs[w].at = "count" /\ w \notin Sweepers)
      BY <1>4, <2>0, <2>2, JobKinds DEF RequestsInv, JobOK
    <3> QED
      BY <2>0, <2>2, <3>1, <3>2 DEF Load
  <2> QED
    BY <2>1, <2>2
<1>5. RequestsInv /\ OperationsFit =>
        \A w \in Processes :
          /\ StepsLeft(jobs[w]) \in Nat
          /\ StepsLeft(jobs[w]) = 0 <=> jobs[w] = Free
          /\ StepsLeft(jobs[w]) <= IF w \in Sweepers THEN 4 * SweepSize ELSE 5
  BY <1>4
<1>6. TypeOK /\ OperationsFit /\ [Next]_vars => HandlersRunDown
  BY StepsDown
<1> QED
  BY RequestsInvariant, RequestsTypes, <1>3, <1>5, <1>6, PTL DEF Spec

=============================================================================
