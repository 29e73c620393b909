------------------------------ MODULE Requests ------------------------------
(***************************************************************************)
(* The life of travel requests in services/requests: creation under the    *)
(* user's caps, the operations of users and admins, and the expiry job     *)
(* (request.service.ts, request.state-machine.ts, cap-enforcement.         *)
(* service.ts, request.repository.ts).                                     *)
(*                                                                         *)
(* Every operation reads the row, validates the copy, and writes the WHOLE *)
(* row back by its id alone; the expiry job does the same for a page of    *)
(* rows, and validates nothing.  Each query and each publish is awaited,   *)
(* so whatever happens between a read and its write is overwritten.  The   *)
(* requests modelled are those of one user: no code relates two users.     *)
(***************************************************************************)
EXTENDS Naturals, FiniteSets

CONSTANTS
    Requests,      \* ids that randomUUID() may return
    OldRows,       \* those that may be in the table when the service starts
    Workers,       \* HTTP requests in flight at a time (bound of the model)
    Sweepers,      \* runs of the expiry job in flight at a time
    OpenLimit,     \* MAX_OPEN_REQUESTS
    TodayLimit,    \* DAILY_REQUEST_CAP
    SweepSize,     \* requests findExpiredRequests() returns at most
    MaxCalls,      \* bound: operations users and admins start
    MaxLosses      \* bound: failed queries and restarts

ASSUME RequestsAssumption ==
    /\ Workers \cap Sweepers = {} /\ IsFiniteSet(Requests)
    /\ OldRows \subseteq Requests /\ Cardinality(OldRows) <= OpenLimit
    /\ OpenLimit \in Nat /\ TodayLimit \in Nat /\ SweepSize \in Nat \ {0}
    /\ MaxCalls \in Nat /\ MaxLosses \in Nat

VARIABLES
    row,        \* [Requests -> state and cancelled_by of the database row]
    today,      \* rows created since midnight
    overdue,    \* rows whose expires_at has passed
    jobs,       \* [Workers \cup Sweepers -> what it has under way]
    told,       \* [Requests -> events published: their kinds, for a change of
                \*   state the new state; and the call of the matching service]
    unheard,    \* history: requests an announcement of which was lost
    raced,      \* history: requests written from a copy that was stale
    crowded,    \* history: has a create begun beside another one?
    calls,      \* bound: operations started so far
    losses      \* bound: failed queries and restarts so far

vars == <<row, today, overdue, jobs, told, unheard, raced, crowded, calls, losses>>

States == {"draft", "submitted", "matching", "matched", "expired", "cancelled", "completed"}
OpenStates == {"draft", "submitted", "matching", "matched"}

\* STATE_TRANSITIONS.
NextStates(s) ==
    CASE s = "draft"     -> {"submitted", "cancelled"}
      [] s = "submitted" -> {"matching", "cancelled", "expired"}
      [] s = "matching"  -> {"matched", "cancelled", "expired"}
      [] s = "matched"   -> {"completed", "cancelled"}
      [] OTHER           -> {}

Row(s, by) == [state |-> s, cancelledBy |-> by]
NoRow == Row("none", "nobody")
RowType == [state : States \cup {"none"}, cancelledBy : {"nobody", "user", "admin"}]

IsOpen(r) == row[r].state \in OpenStates
OpenRequests == {r \in Requests : IsOpen(r)}

\* What an operation is called and the state it moves to.
Op(name, to) == [name |-> name, to |-> to]
Create == Op("create", "submitted")
Sweep == Op("sweep", "expired")
Operations ==
    {Op("submit", "submitted"), Op("cancel", "cancelled"),
     Op("adminCancel", "cancelled"), Op("adminExpire", "expired")}
    \cup {Op("transition", s) : s \in States \ {"draft"}}

\* Variant: an admin's transition announces nothing.
FirstEventSilent(op) ==
    CASE op.name = "create"     -> "CREATED"
      [] op.name = "sweep"      -> "EXPIRED"
      [] op.name = "transition" -> "none"
      [] OTHER                  -> "STATE_CHANGED"

\* The first announcement of an operation and those that follow it.
FirstEvent(op) ==
    CASE op.name = "create" -> "CREATED"
      [] op.name = "sweep"  -> "EXPIRED"
      [] OTHER              -> "STATE_CHANGED"

FollowUp(op, e) ==
    CASE e = "STATE_CHANGED" /\ op.name = "submit"                   -> "SUBMITTED"
      [] e = "STATE_CHANGED" /\ op.name \in {"cancel", "adminCancel"} -> "CANCELLED"
      [] e = "STATE_CHANGED" /\ op.name = "adminExpire"              -> "EXPIRED"
      [] e \in {"CREATED", "SUBMITTED"}                              -> "matchRequest"
      [] OTHER                                                       -> "none"

Events == {"CREATED", "STATE_CHANGED", "SUBMITTED", "CANCELLED", "EXPIRED", "matchRequest"}

\* A change of state is told apart by the state it announces.
Says(op, e) == IF e = "STATE_CHANGED" THEN op.to ELSE e

Free == [at |-> "free"]
\* checkCanCreateRequest(): the counts that have passed so far.
Counting(seen) == [at |-> "count", passed |-> seen]
\* The copies still to be written, and what the last one written announces.
Working(op, page, r, e) ==
    [at |-> "work", op |-> op, page |-> page, id |-> r, event |-> e]

Pages == UNION {[S -> RowType] : S \in SUBSET Requests}

TypeOK ==
    /\ row \in [Requests -> RowType]
    /\ today \subseteq Requests /\ overdue \subseteq Requests
    /\ jobs \in [Workers \cup Sweepers ->
          {Free} \cup {Counting(seen) : seen \in SUBSET {"today", "open"}}
          \cup [at : {"work"}, op : Operations \cup {Create, Sweep}, page : Pages,
                id : Requests, event : Events \cup {"none"}]]
    /\ told \in [Requests -> SUBSET (Events \cup States)]
    /\ unheard \subseteq Requests /\ raced \subseteq Requests
    /\ crowded \in BOOLEAN
    /\ calls \in 0..MaxCalls /\ losses \in 0..MaxLosses

\* The service starts over a table with rows in it.  It creates requests as
\* submitted; a draft is a row that got the column's default.
Init ==
    /\ \E S \in SUBSET OldRows : \E old \in [S -> OpenStates] :
         /\ row = [r \in Requests |-> IF r \in S THEN Row(old[r], "nobody") ELSE NoRow]
         /\ told = [r \in Requests |-> IF r \in S THEN {old[r]} ELSE {}]
    /\ today = {} /\ overdue = {}
    /\ jobs = [w \in Workers \cup Sweepers |-> Free]
    /\ unheard = {} /\ raced = {}
    /\ crowded = FALSE
    /\ calls = 0 /\ losses = 0

-----------------------------------------------------------------------------
(* Creation *)

StartCreate(w) ==
    /\ jobs[w] = Free /\ calls < MaxCalls
    /\ jobs' = [jobs EXCEPT ![w] = Counting({})]
    /\ crowded' = (crowded \/ \E v \in Workers : jobs[v].at = "count")
    /\ calls' = calls + 1
    /\ UNCHANGED <<row, today, overdue, told, unheard, raced, losses>>

\* Variant: a limit is reached one request too late.
CountLate(w, what) ==
    /\ jobs[w].at = "count" /\ what \notin jobs[w].passed
    /\ LET reached == IF what = "today" THEN Cardinality(today) > TodayLimit
                      ELSE Cardinality(OpenRequests) > OpenLimit
       IN  jobs' = [jobs EXCEPT ![w] = IF reached THEN Free
                                       ELSE Counting(@.passed \cup {what})]
    /\ UNCHANGED <<row, today, overdue, told, unheard, raced, crowded, calls, losses>>

\* One of the two counts of checkCanCreateRequest() is answered; a limit
\* that is reached fails the request.
Count(w, what) ==
    /\ jobs[w].at = "count" /\ what \notin jobs[w].passed
    /\ LET reached == IF what = "today" THEN Cardinality(today) >= TodayLimit
                      ELSE Cardinality(OpenRequests) >= OpenLimit
       IN  jobs' = [jobs EXCEPT ![w] = IF reached THEN Free
                                       ELSE Counting(@.passed \cup {what})]
    /\ UNCHANGED <<row, today, overdue, told, unheard, raced, crowded, calls, losses>>

Insert(w, r) ==
    /\ jobs[w] = Counting({"today", "open"})
    /\ row[r] = NoRow
    /\ row' = [row EXCEPT ![r] = Row("submitted", "nobody")]
    /\ today' = today \cup {r}
    /\ jobs' = [jobs EXCEPT ![w] =
                  Working(Create, [x \in {} |-> NoRow], r, FirstEvent(Create))]
    /\ UNCHANGED <<overdue, told, unheard, raced, crowded, calls, losses>>

-----------------------------------------------------------------------------
(* Operations on a row *)

\* Variant: the transition is not validated.
ReadUnvalidated(w, op, r) ==
    /\ jobs[w] = Free /\ calls < MaxCalls
    /\ row[r] # NoRow /\ op.to # row[r].state
    /\ jobs' = [jobs EXCEPT ![w] = Working(op, [x \in {r} |-> row[r]], r, "none")]
    /\ calls' = calls + 1
    /\ UNCHANGED <<row, today, overdue, told, unheard, raced, crowded, losses>>

\* The row is read and validated; a refused operation leaves nothing behind.
Read(w, op, r) ==
    /\ jobs[w] = Free /\ calls < MaxCalls
    /\ op.to \in NextStates(row[r].state)
    /\ jobs' = [jobs EXCEPT ![w] = Working(op, [x \in {r} |-> row[r]], r, "none")]
    /\ calls' = calls + 1
    /\ UNCHANGED <<row, today, overdue, told, unheard, raced, crowded, losses>>

\* Variant: closed requests are expired too.
StartSweepAll(s) ==
    /\ jobs[s] = Free
    /\ \E r \in {x \in overdue : row[x].state # "expired"} :
         jobs' = [jobs EXCEPT ![s] = Working(Sweep, [x \in {r} |-> row[x]], r, "none")]
    /\ UNCHANGED <<row, today, overdue, told, unheard, raced, crowded, calls, losses>>

\* Variant: only submitted requests are looked for.
StartSweepSubmitted(s) ==
    /\ jobs[s] = Free
    /\ \E r \in {x \in overdue : row[x].state = "submitted"} :
         jobs' = [jobs EXCEPT ![s] = Working(Sweep, [x \in {r} |-> row[x]], r, "none")]
    /\ UNCHANGED <<row, today, overdue, told, unheard, raced, crowded, calls, losses>>

\* processExpiredRequests() reads a page of open rows past their time.
StartSweep(s) ==
    /\ jobs[s] = Free
    /\ \E S \in SUBSET (OpenRequests \cap overdue) :
         /\ S # {} /\ Cardinality(S) <= SweepSize
         /\ Cardinality(S) = SweepSize \/ S = OpenRequests \cap overdue
         /\ \E r \in S :
              jobs' = [jobs EXCEPT ![s] = Working(Sweep, [x \in S |-> row[x]], r, "none")]
    /\ UNCHANGED <<row, today, overdue, told, unheard, raced, crowded, calls, losses>>

\* applyStateTransition() on the copy.
Applied(op, copy) ==
    Row(op.to, CASE op.name = "cancel"      -> "user"
                 [] op.name = "adminCancel" -> "admin"
                 [] OTHER                   -> copy.cancelledBy)

Without(page, r) == [x \in DOMAIN page \ {r} |-> page[x]]

\* An operation ends with its last row; the expiry job goes on to the next.
GoOn(op, page, r) == IF DOMAIN page = {} THEN Free ELSE Working(op, page, r, "none")

\* Variant: only the columns the operation names are written.
WriteColumns(w, r) ==
    /\ jobs[w].at = "work" /\ jobs[w].event = "none" /\ r \in DOMAIN jobs[w].page
    /\ LET op == jobs[w].op
           copy == jobs[w].page[r] IN
         /\ row' = [row EXCEPT ![r] = Applied(op, row[r])]
         /\ raced' = IF copy = row[r] THEN raced ELSE raced \cup {r}
         /\ jobs' = [jobs EXCEPT ![w] =
                       Working(op, Without(jobs[w].page, r), r, FirstEvent(op))]
    /\ UNCHANGED <<today, overdue, told, unheard, crowded, calls, losses>>

\* repository.update(): the whole row, whatever it has become meanwhile.
Write(w, r) ==
    /\ jobs[w].at = "work" /\ jobs[w].event = "none" /\ r \in DOMAIN jobs[w].page
    /\ LET op == jobs[w].op
           copy == jobs[w].page[r] IN
         /\ row' = [row EXCEPT ![r] = Applied(op, copy)]
         /\ raced' = IF copy = row[r] THEN raced ELSE raced \cup {r}
         /\ jobs' = [jobs EXCEPT ![w] =
                       Working(op, Without(jobs[w].page, r), r, FirstEvent(op))]
    /\ UNCHANGED <<today, overdue, told, unheard, crowded, calls, losses>>

\* A query throws: the operation fails, the expiry job skips the row.
QueryFails(w) ==
    /\ losses < MaxLosses
    /\ \/ /\ jobs[w].at = "count"
          /\ jobs' = [jobs EXCEPT ![w] = Free]
       \/ /\ jobs[w].at = "work" /\ jobs[w].event = "none"
          /\ \E r \in DOMAIN jobs[w].page :
               jobs' = [jobs EXCEPT ![w] = GoOn(@.op, Without(@.page, r), r)]
    /\ losses' = losses + 1
    /\ UNCHANGED <<row, today, overdue, told, unheard, raced, crowded, calls>>

\* An event is published, or skipped because Redis is not connected; the
\* matching service is called and its answer does not matter.
Emit(w, sent) ==
    /\ jobs[w].at = "work" /\ jobs[w].event # "none"
    /\ LET j == jobs[w]
           next == FollowUp(j.op, j.event) IN
         /\ told' = IF sent THEN [told EXCEPT ![j.id] = @ \cup {Says(j.op, j.event)}] ELSE told
         /\ unheard' = IF sent THEN unheard ELSE unheard \cup {j.id}
         /\ jobs' = [jobs EXCEPT ![w] =
                       IF next = "none" THEN GoOn(j.op, j.page, j.id)
                       ELSE Working(j.op, j.page, j.id, next)]
    /\ UNCHANGED <<row, today, overdue, raced, crowded, calls, losses>>

\* After the row was written the answer is lost, or a publish throws: what
\* was to follow is left out, the audit entry and the call of the matching
\* service included.  (A publish that throws on the second channel, the one
\* of all events, is one that was sent with what follows it lost.)
EmitThrows(w) ==
    /\ jobs[w].at = "work" /\ jobs[w].event \in Events \ {"matchRequest"}
    /\ unheard' = unheard \cup {jobs[w].id}
    /\ jobs' = [jobs EXCEPT ![w] = GoOn(@.op, @.page, @.id)]
    /\ UNCHANGED <<row, today, overdue, told, raced, crowded, calls, losses>>

-----------------------------------------------------------------------------
(* Time and restarts *)

PassExpiry(r) ==
    /\ row[r] # NoRow /\ r \notin overdue
    /\ overdue' = overdue \cup {r}
    /\ UNCHANGED <<row, today, jobs, told, unheard, raced, crowded, calls, losses>>

Midnight ==
    /\ today # {}
    /\ today' = {}
    /\ UNCHANGED <<row, overdue, jobs, told, unheard, raced, crowded, calls, losses>>

\* What is in flight is gone; the database stays.
Restart ==
    /\ losses < MaxLosses
    /\ jobs' = [w \in Workers \cup Sweepers |-> Free]
    /\ unheard' = unheard \cup {r \in Requests : \E w \in Workers \cup Sweepers :
                     jobs[w].at = "work" /\ jobs[w].event # "none" /\ jobs[w].id = r}
    /\ losses' = losses + 1
    /\ UNCHANGED <<row, today, overdue, told, raced, crowded, calls>>

-----------------------------------------------------------------------------
JobStep(w) ==
    \/ \E what \in {"today", "open"} : Count(w, what)
    \/ \E r \in Requests : Insert(w, r) \/ Write(w, r)
    \/ \E sent \in BOOLEAN : Emit(w, sent)
    \/ EmitThrows(w)
    \/ QueryFails(w)

Next ==
    \/ \E w \in Workers :
         \/ StartCreate(w)
         \/ \E op \in Operations, r \in Requests : Read(w, op, r)
    \/ \E s \in Sweepers : StartSweep(s)
    \/ \E w \in Workers \cup Sweepers : JobStep(w)
    \/ \E r \in Requests : PassExpiry(r)
    \/ Midnight
    \/ Restart

Spec == Init /\ [][Next]_vars

\* setInterval() runs the expiry job again and again, and its queries and
\* publishes end, one way or the other.  Requests of users and admins may
\* stall for ever.
FairSpec ==
    /\ Spec
    /\ \A s \in Sweepers : WF_vars(JobStep(s)) /\ WF_vars(StartSweep(s))

-----------------------------------------------------------------------------
(* Properties *)

\* The user's caps hold as long as no two creates count side by side; only
\* a request that a stale copy revived comes on top
\* (cap-enforcement.service.ts:120-145).
CapsHold ==
    ~crowded => /\ Cardinality(OpenRequests \ raced) <= OpenLimit
                /\ Cardinality(today) <= TodayLimit

\* Who cancelled a request is on record only while it is cancelled: a stale
\* copy that revives the request takes the record with it, because a write
\* replaces the whole row (request.entity.ts:111-129).
CancellerOfCancelled ==
    \A r \in Requests : row[r].cancelledBy # "nobody" => row[r].state = "cancelled"

\* The state a request is in has been published, or is about to be, or its
\* announcement was lost; whichever operations cross
\* (request.service.ts:218-238, 612-633).
StateIsPublished ==
    \A r \in Requests :
      \/ row[r].state \in {"none", "draft"} \cup told[r]
      \/ row[r].state = "submitted" /\ "CREATED" \in told[r]
      \/ row[r].state = "expired" /\ "EXPIRED" \in told[r]
      \/ r \in unheard
      \/ \E w \in Workers \cup Sweepers :
           /\ jobs[w].at = "work" /\ jobs[w].id = r
           /\ jobs[w].event # "none" /\ jobs[w].op.to = row[r].state

\* A request is never announced both as cancelled and as expired, unless an
\* operation wrote it from a stale copy (request.service.ts:336-350,
\* 608-633).
OneEnding ==
    \A r \in Requests : {"CANCELLED", "EXPIRED"} \subseteq told[r] => r \in raced

\* Only a write from a stale copy breaks the table of transitions, but for
\* the expiry job, which closes any open request (request.service.ts:608-616).
Lifecycle ==
    [][\A r \in Requests : row'[r] # row[r] =>
         \/ row[r] = NoRow /\ row'[r].state = "submitted"
         \/ row'[r].state \in NextStates(row[r].state)
         \/ IsOpen(r) /\ row'[r].state = "expired"
         \/ r \in raced']_vars

\* An open request past its time is closed in the end, by whatever is in the
\* way: failed queries, restarts, full pages (index.ts:184).
OverdueIsClosed ==
    \A r \in Requests : (IsOpen(r) /\ r \in overdue) ~> ~IsOpen(r)
=============================================================================
