-------------------------- MODULE DecisionsProofs ---------------------------
(***************************************************************************)
(* Theorems of Disputes and of Reviews, the two components whose subject   *)
(* is a decision, for any disputes, requests in flight and limits.         *)
(*                                                                         *)
(* OneVerdict needs what a handler that resolves a dispute still has to    *)
(* do: it alone resolves it, it applies the resolution that is stored, and *)
(* nothing was approved before.  PublishedIsCleared needs what a handler   *)
(* of a review has established before it writes.                           *)
(***************************************************************************)
EXTENDS Disputes, Reviews, TLAPS

Resolved == {"resolved_refund", "resolved_partial", "resolved_denied"}

OnFile(d) == resolution[d] # "none" /\ ResolvedState(resolution[d]) = state[d]

\* What is known of a handler that resolves.
Resolves(j) ==
    /\ j.at \in {"STATE_CHANGED", "DISPUTE_RESOLVED", "REFUND_APPROVED"}
    /\ state[j.id] \in Resolved
    /\ j.seen = resolution[j.id]
    /\ j.at # "STATE_CHANGED" => "resolution_approved" \in arbitration[j.id]
    /\ j.at = "REFUND_APPROVED" => Pays(j.seen)
    /\ approved[j.id] = 0

JobsOK ==
    \A w \in Workers : jobs[w] # Free =>
      /\ state[jobs[w].id] \notin {"none", "lost"}
      /\ jobs[w].at \in {"DISPUTE_RESOLVED", "REFUND_APPROVED"} => jobs[w].op = "resolve"
      /\ jobs[w].op = "resolve" => Resolves(jobs[w])

OneResolver ==
    \A v, w \in Workers :
      /\ jobs[v] # Free /\ jobs[v].op = "resolve"
      /\ jobs[w] # Free /\ jobs[w].op = "resolve"
      /\ jobs[v].id = jobs[w].id
      => v = w

StoresOK ==
    \A d \in Ids :
      /\ state[d] = "none" => evidence[d]["traveler"] = 0 /\ approved[d] = 0
      /\ state[d] \in Resolved => OnFile(d)
      /\ approved[d] \in {0, 1}
      /\ approved[d] = 1 =>
           \/ state[d] = "lost"
           \/ /\ state[d] \in Resolved /\ Pays(resolution[d])
              /\ "resolution_approved" \in arbitration[d]

DisputesInv == TypeOK /\ JobsOK /\ OneResolver /\ StoresOK /\ EvidenceMovesOn
-----------------------------------------------------------------------------
(* The pieces. *)

LEMMA ResolvedStates ==
    ASSUME NEW r \in Resolutions
    PROVE  ResolvedState(r) \in Resolved
  BY DEF Resolutions, ResolvedState, Resolved

\* Only an open dispute changes its state.
LEMMA AllowedFromActive ==
    ASSUME NEW from, NEW to, Allowed(from, to)
    PROVE  from \in Active
  BY DEF Allowed, Active

LEMMA JobIsBusy ==
    ASSUME NEW op, NEW event \in Published, NEW d, NEW seen
    PROVE  Job(op, event, d, seen) # Free
  BY DEF Job, Free, Published

JobTypes == {Free} \cup
    [at : Published, op : Ops, id : Ids, seen : Active \cup Resolutions]

LEMMA JobType ==
    ASSUME NEW op \in Ops, NEW event \in Published, NEW d \in Ids,
           NEW seen \in Active \cup Resolutions
    PROVE  Job(op, event, d, seen) \in JobTypes
  BY DEF Job, JobTypes

LEMMA BusyJob ==
    ASSUME TypeOK, NEW w \in Workers, jobs[w] # Free
    PROVE  /\ jobs[w] \in [at : Published, op : Ops, id : Ids, seen : Active \cup Resolutions]
           /\ jobs[w].at \in Published /\ jobs[w].op \in Ops
           /\ jobs[w].id \in Ids /\ jobs[w].seen \in Active \cup Resolutions
  BY DEF TypeOK

LEMMA NextEventType ==
    ASSUME NEW j
    PROVE  NextEvent(j) \in Published \cup {"free"}
  BY DEF NextEvent, Published

-----------------------------------------------------------------------------
(* Types. *)

LEMMA FileTypes ==
    ASSUME TypeOK, NEW d \in Ids, NEW source \in Sources, Files(d) < MaxEvidence,
           evidence' = [evidence EXCEPT ![d][source] = @ + 1]
    PROVE  /\ evidence' \in [Ids -> [Sources -> 0..MaxEvidence]]
           /\ \A x \in Ids : Files(x)' <= MaxEvidence
<1>1. MaxEvidence \in Nat /\ evidence[d] \in [Sources -> 0..MaxEvidence]
  BY DisputesAssumption DEF TypeOK
<1>2. /\ evidence[d]["traveler"] \in 0..MaxEvidence
      /\ evidence[d]["agent"] \in 0..MaxEvidence
      /\ source \in {"traveler", "agent"}
  BY <1>1 DEF Sources
<1>3. evidence[d]["traveler"] + evidence[d]["agent"] < MaxEvidence
  BY DEF Files
<1>4. evidence[d][source] + 1 \in 0..MaxEvidence
  BY <1>1, <1>2, <1>3
<1> DEFINE new == [evidence[d] EXCEPT ![source] = @ + 1]
<1>5. new \in [Sources -> 0..MaxEvidence]
  BY <1>1, <1>4
<1>6. new["traveler"] + new["agent"] <= MaxEvidence
  BY <1>1, <1>2, <1>3
<1>7. evidence' = [evidence EXCEPT ![d] = new]
  OBVIOUS
<1> HIDE DEF new
<1>8. evidence' \in [Ids -> [Sources -> 0..MaxEvidence]]
  BY <1>5, <1>7 DEF TypeOK
<1>9. \A x \in Ids : Files(x)' <= MaxEvidence
  BY <1>6, <1>7 DEF TypeOK, Files
<1> QED
  BY <1>8, <1>9

StoreTypes ==
    /\ state \in [Ids -> Active \cup Terminal \cup {"none", "lost"}]
    /\ subjective \subseteq Ids /\ assigned \subseteq Ids /\ responses \subseteq Ids
    /\ resolution \in [Ids -> Resolutions \cup {"none"}]
    /\ arbitration \in [Ids -> SUBSET Actions]

FileType ==
    /\ evidence \in [Ids -> [Sources -> 0..MaxEvidence]]
    /\ \A d \in Ids : Files(d) <= MaxEvidence

RunTypes ==
    /\ jobs \in [Workers -> JobTypes]
    /\ approved \in [Ids -> Nat]
    /\ unheard \subseteq Ids
    /\ restarts \in 0..MaxRestarts

LEMMA TypeParts == TypeOK <=> StoreTypes /\ FileType /\ RunTypes
  BY DEF TypeOK, StoreTypes, FileType, RunTypes, JobTypes

LEMMA TypePartsNext == StoreTypes' /\ FileType' /\ RunTypes' => TypeOK'
  BY DEF TypeOK, StoreTypes, FileType, RunTypes, JobTypes

LEMMA StartsTypes ==
    ASSUME RunTypes, NEW w \in Workers, NEW op \in Ops, NEW event \in Published,
           NEW d \in Ids, NEW seen \in Active \cup Resolutions,
           Starts(w, op, event, d, seen)
    PROVE  RunTypes'
  BY JobType DEF Starts, RunTypes

LEMMA SameFiles ==
    ASSUME FileType, UNCHANGED evidence
    PROVE  FileType'
  BY DEF FileType, Files

LEMMA StateTypes ==
    ASSUME StoreTypes, NEW d \in Ids, NEW to \in Active \cup Terminal,
           Transition(d, to)
    PROVE  /\ state' \in [Ids -> Active \cup Terminal \cup {"none", "lost"}]
           /\ state[d] \in Active
  BY AllowedFromActive DEF StoreTypes, Transition

LEMMA RecordedActions == ASSUME NEW j PROVE Recorded(j) \subseteq Actions
  BY DEF Recorded, Actions

LEMMA TypesKept == ASSUME TypeOK, [Next]_vars PROVE TypeOK'
<1>0. StoreTypes /\ FileType /\ RunTypes
  BY TypeParts
<1>1. ASSUME NEW w \in Workers, NEW d \in Ids, CreateDispute(w, d) PROVE TypeOK'
  <2>1. StoreTypes'
    BY <1>0, <1>1 DEF CreateDispute, StoreTypes, Active
  <2>2. FileType'
    BY <1>0, <1>1, SameFiles DEF CreateDispute
  <2>3. RunTypes'
    BY <1>0, <1>1, StartsTypes DEF CreateDispute, Ops, Published, Active
  <2> QED BY <2>1, <2>2, <2>3, TypePartsNext
<1>2. ASSUME NEW w \in Workers, NEW d \in Ids, NEW source \in Sources,
             SubmitEvidence(w, d, source)
      PROVE  TypeOK'
  <2>1. StoreTypes'
    BY <1>0, <1>2 DEF SubmitEvidence, StoreTypes
  <2>2. FileType'
    BY <1>2, FileTypes DEF SubmitEvidence, FileType
  <2> DEFINE op == IF source = "traveler" THEN "evidence" ELSE "agentEvidence"
  <2>3. op \in Ops /\ "EVIDENCE_SUBMITTED" \in Published /\ state[d] \in Active
        /\ Starts(w, op, "EVIDENCE_SUBMITTED", d, state[d])
    BY <1>2 DEF SubmitEvidence, Ops, Published, Active
  <2> HIDE DEF op
  <2>4. RunTypes'
    BY <1>0, <2>3, StartsTypes
  <2> QED BY <2>1, <2>2, <2>4, TypePartsNext
<1>3. ASSUME NEW w \in Workers, NEW d \in Ids,
             \/ Respond(w, d) \/ Withdraw(w, d) \/ StartReview(w, d) \/ Escalate(w, d)
      PROVE  TypeOK'
  <2>1. PICK op \in Ops, to \in Active \cup Terminal :
          Transition(d, to) /\ Starts(w, op, "STATE_CHANGED", d, state[d])
    BY <1>3 DEF Respond, Withdraw, StartReview, Escalate, Ops, Active, Terminal
  <2>2. StoreTypes'
    <3>1. /\ state' \in [Ids -> Active \cup Terminal \cup {"none", "lost"}]
          /\ UNCHANGED <<subjective, resolution, arbitration>>
          /\ assigned' \subseteq Ids /\ responses' \subseteq Ids
      BY <1>0, <1>3, <2>1, StateTypes
         DEF Respond, Withdraw, StartReview, Escalate, stores, StoreTypes
    <3> QED BY <1>0, <3>1 DEF StoreTypes
  <2>3. FileType'
    BY <1>0, <1>3, SameFiles DEF Respond, Withdraw, StartReview, Escalate, stores
  <2>4. RunTypes'
    BY <1>0, <2>1, StateTypes, StartsTypes DEF Published
  <2> QED BY <2>2, <2>3, <2>4, TypePartsNext
<1>4. ASSUME NEW d \in Ids, Assign(d) \/ AddNote(d) \/ RefusedReview(d) PROVE TypeOK'
  <2>1. StoreTypes'
    BY <1>0, <1>4 DEF Assign, AddNote, RefusedReview, StoreTypes, Actions
  <2>2. FileType'
    BY <1>0, <1>4, SameFiles DEF Assign, AddNote, RefusedReview
  <2>3. RunTypes'
    BY <1>0, <1>4 DEF Assign, AddNote, RefusedReview, RunTypes
  <2> QED BY <2>1, <2>2, <2>3, TypePartsNext
<1>5. ASSUME NEW d \in Ids, NEW r \in Resolutions, RefusedResolve(d, r) PROVE TypeOK'
  <2>1. StoreTypes'
    BY <1>0, <1>5 DEF RefusedResolve, StoreTypes
  <2>2. FileType'
    BY <1>0, <1>5, SameFiles DEF RefusedResolve
  <2>3. RunTypes'
    BY <1>0, <1>5 DEF RefusedResolve, RunTypes
  <2> QED BY <2>1, <2>2, <2>3, TypePartsNext
<1>6. ASSUME NEW w \in Workers, NEW d \in Ids, NEW r \in Resolutions, Resolve(w, d, r)
      PROVE  TypeOK'
  <2>1. ResolvedState(r) \in Active \cup Terminal
    BY ResolvedStates DEF Resolved, Terminal
  <2>2. StoreTypes'
    BY <1>0, <1>6, <2>1, StateTypes DEF Resolve, StoreTypes
  <2>3. FileType'
    BY <1>0, <1>6, SameFiles DEF Resolve
  <2>4. RunTypes'
    BY <1>0, <1>6, StartsTypes DEF Resolve, Ops, Published
  <2> QED BY <2>2, <2>3, <2>4, TypePartsNext
<1>7. ASSUME NEW w \in Workers, NEW ok \in BOOLEAN, EndPublish(w, ok) PROVE TypeOK'
  <2> DEFINE j == jobs[w]
  <2>0. j # Free /\ j.id \in Ids /\ j.op \in Ops /\ j.seen \in Active \cup Resolutions
    BY <1>7, BusyJob DEF EndPublish
  <2>1. state' \in [Ids -> Active \cup Terminal \cup {"none", "lost"}]
    BY <1>0, <1>7, <2>0, StateTypes DEF EndPublish, StoreTypes, Active
  <2>2. arbitration' \in [Ids -> SUBSET Actions]
    <3>1. arbitration[j.id] \cup Recorded(j) \in SUBSET Actions
      BY <1>0, <2>0, RecordedActions DEF StoreTypes
    <3>2. arbitration' = [arbitration EXCEPT ![j.id] = arbitration[j.id] \cup Recorded(j)]
      BY <1>7 DEF EndPublish
    <3> HIDE DEF j
    <3> QED BY <1>0, <3>1, <3>2 DEF StoreTypes
  <2>3. StoreTypes'
    BY <1>0, <1>7, <2>1, <2>2 DEF EndPublish, StoreTypes
  <2>4. FileType'
    BY <1>0, <1>7, SameFiles DEF EndPublish
  <2>5. jobs' \in [Workers -> JobTypes]
    <3>1. PICK k \in JobTypes : jobs' = [jobs EXCEPT ![w] = k]
      <4>1. Job("evidence", "STATE_CHANGED", j.id, j.seen) \in JobTypes
        BY <2>0, JobType DEF Ops, Published
      <4>2. NextEvent(j) # "free" => Job(j.op, NextEvent(j), j.id, j.seen) \in JobTypes
        BY <2>0, JobType, NextEventType
      <4>3. Free \in JobTypes
        BY DEF JobTypes
      <4> QED BY <1>7, <4>1, <4>2, <4>3 DEF EndPublish
    <3> QED BY <1>0, <3>1 DEF RunTypes
  <2>6. approved' \in [Ids -> Nat] /\ unheard' \subseteq Ids /\ restarts' \in 0..MaxRestarts
    BY <1>0, <1>7, <2>0 DEF EndPublish, Delivered, RunTypes
  <2>7. RunTypes'
    BY <2>5, <2>6 DEF RunTypes
  <2> QED BY <2>3, <2>4, <2>7, TypePartsNext
<1>8. CASE Restart
  <2>1. StoreTypes'
    BY <1>0, <1>8 DEF Restart, StoreTypes
  <2>2. FileType'
    BY <1>0, <1>8, DisputesAssumption DEF Restart, FileType, Files, Sources
  <2>3. RunTypes'
    BY <1>0, <1>8, DisputesAssumption DEF Restart, RunTypes, JobTypes
  <2> QED BY <2>1, <2>2, <2>3, TypePartsNext
<1>9. CASE UNCHANGED vars
  BY <1>9, SameFiles DEF vars, stores, TypeOK, Files
<1> QED
  BY <1>1, <1>2, <1>3, <1>4, <1>5, <1>6, <1>7, <1>8, <1>9 DEF Next

-----------------------------------------------------------------------------
(* What a handler knows. *)

\* A dispute that is open has no handler that resolves it.
LEMMA OpenHasNoResolver ==
    ASSUME JobsOK, NEW d, state[d] \in Active, NEW w \in Workers,
           jobs[w] # Free, jobs[w].id = d
    PROVE  jobs[w].op # "resolve"
  BY DEF JobsOK, Resolves, Resolved, Active

\* A handler takes up a job, the others go on with theirs.
LEMMA StartsJob ==
    ASSUME TypeOK, NEW w \in Workers, NEW op, NEW event \in Published, NEW d, NEW seen,
           Starts(w, op, event, d, seen)
    PROVE  /\ jobs[w] = Free
           /\ jobs'[w] = Job(op, event, d, seen) /\ jobs'[w] # Free
           /\ jobs'[w].at = event /\ jobs'[w].op = op
           /\ jobs'[w].id = d /\ jobs'[w].seen = seen
           /\ \A v \in Workers \ {w} : jobs'[v] = jobs[v]
           /\ UNCHANGED approved
  BY JobIsBusy DEF Starts, TypeOK, Job

\* A step on one dispute, with a new handler that does not resolve it.
LEMMA BusyKept ==
    ASSUME TypeOK, JobsOK, OneResolver, NEW w \in Workers, NEW op, NEW event \in Published,
           NEW d \in Ids, NEW seen, Starts(w, op, event, d, seen),
           op # "resolve", event \notin {"DISPUTE_RESOLVED", "REFUND_APPROVED"},
           state[d] \in Active \cup {"none"},
           state'[d] \notin {"none", "lost"},
           \A x \in Ids \ {d} : state'[x] = state[x],
           UNCHANGED <<resolution, arbitration>>
    PROVE  JobsOK' /\ OneResolver'
<1>1. /\ jobs[w] = Free
      /\ jobs'[w].at = event /\ jobs'[w].op = op /\ jobs'[w].id = d
      /\ \A v \in Workers \ {w} : jobs'[v] = jobs[v]
      /\ UNCHANGED approved
  BY StartsJob
<1>2. \A v \in Workers : jobs[v] # Free /\ jobs[v].id = d => jobs[v].op # "resolve"
  BY OpenHasNoResolver DEF JobsOK
<1>3. ASSUME NEW v \in Workers, jobs'[v] # Free
      PROVE  /\ state'[jobs'[v].id] \notin {"none", "lost"}
             /\ jobs'[v].at \in {"DISPUTE_RESOLVED", "REFUND_APPROVED"} =>
                  jobs'[v].op = "resolve"
             /\ jobs'[v].op = "resolve" => Resolves(jobs[v])'
  <2>1. CASE v = w
    BY <1>1, <2>1
  <2>2. CASE v # w
    <3>1. jobs'[v] = jobs[v] /\ jobs[v] # Free /\ jobs[v].id \in Ids
      BY <1>1, <1>3, <2>2, BusyJob
    <3>2. jobs[v].op = "resolve" => jobs[v].id # d
      BY <1>2, <3>1
    <3> QED
      BY <1>1, <3>1, <3>2 DEF JobsOK, Resolves
  <2> QED
    BY <2>1, <2>2
<1>4. JobsOK'
  BY <1>3 DEF JobsOK
<1>5. OneResolver'
  BY <1>1 DEF OneResolver
<1> QED
  BY <1>4, <1>5

-----------------------------------------------------------------------------
(* The steps. *)

LEMMA CreateKeeps ==
    ASSUME DisputesInv, NEW w \in Workers, NEW d \in Ids, CreateDispute(w, d)
    PROVE  JobsOK' /\ OneResolver' /\ StoresOK' /\ EvidenceMovesOn'
<1>1. /\ state[d] = "none" /\ state' = [state EXCEPT ![d] = "pending_evidence"]
      /\ state'[d] = "pending_evidence" /\ \A x \in Ids \ {d} : state'[x] = state[x]
      /\ UNCHANGED <<evidence, resolution, arbitration>>
      /\ Starts(w, "create", "DISPUTE_CREATED", d, "pending_evidence")
  BY DEF CreateDispute, DisputesInv, TypeOK
<1>2. JobsOK' /\ OneResolver'
  BY <1>1, BusyKept DEF DisputesInv, Published
<1>3. jobs[w] = Free /\ \A v \in Workers \ {w} : jobs'[v] = jobs[v]
  BY <1>1, StartsJob DEF DisputesInv, Published
<1>4. StoresOK'
  BY <1>1 DEF DisputesInv, StoresOK, OnFile, Starts, Resolved
<1>5. EvidenceMovesOn'
  <2>1. evidence[d]["traveler"] = 0
    BY <1>1 DEF DisputesInv, StoresOK
  <2> QED
    BY <1>1, <1>3, <2>1 DEF DisputesInv, EvidenceMovesOn
<1> QED
  BY <1>2, <1>4, <1>5

LEMMA EvidenceKeeps ==
    ASSUME DisputesInv, NEW w \in Workers, NEW d \in Ids, NEW source \in Sources,
           SubmitEvidence(w, d, source)
    PROVE  JobsOK' /\ OneResolver' /\ StoresOK' /\ EvidenceMovesOn'
<1> DEFINE op == IF source = "traveler" THEN "evidence" ELSE "agentEvidence"
<1>1. /\ state[d] \in {"pending_evidence", "evidence_submitted"}
      /\ UNCHANGED <<state, resolution, arbitration>>
      /\ Starts(w, op, "EVIDENCE_SUBMITTED", d, state[d])
      /\ op # "resolve" /\ (source = "traveler" => op = "evidence")
      /\ "EVIDENCE_SUBMITTED" \in Published
  BY DEF SubmitEvidence, Published
<1>2. /\ \A x \in Ids \ {d} : evidence'[x] = evidence[x]
      /\ source # "traveler" => evidence'[d]["traveler"] = evidence[d]["traveler"]
  BY DEF SubmitEvidence, DisputesInv, TypeOK, Sources
<1> HIDE DEF op
<1>3. JobsOK' /\ OneResolver'
  BY <1>1, BusyKept DEF DisputesInv, Active
<1>4. /\ jobs[w] = Free /\ \A v \in Workers \ {w} : jobs'[v] = jobs[v]
      /\ jobs'[w] # Free /\ jobs'[w].at = "EVIDENCE_SUBMITTED" /\ jobs'[w].op = op
      /\ jobs'[w].id = d /\ jobs'[w].seen = state[d] /\ UNCHANGED approved
  <2>1. TypeOK /\ "EVIDENCE_SUBMITTED" \in Published
    BY DEF DisputesInv, Published
  <2>2. Starts(w, op, "EVIDENCE_SUBMITTED", d, state[d])
    BY <1>1
  <2> QED
    BY <2>1, <2>2, StartsJob, ZenonT(60)
<1>5. StoresOK'
  BY <1>1, <1>2, <1>4 DEF DisputesInv, StoresOK, OnFile
<1>6. ASSUME NEW x \in Ids, state'[x] = "pending_evidence", evidence'[x]["traveler"] > 0
      PROVE  \E v \in Workers : /\ jobs'[v] # Free /\ jobs'[v].id = x
                                /\ jobs'[v].op = "evidence"
                                /\ jobs'[v].at = "EVIDENCE_SUBMITTED"
                                /\ jobs'[v].seen = "pending_evidence"
  <2>1. CASE x = d /\ source = "traveler"
    BY <1>1, <1>4, <1>6, <2>1
  <2>2. CASE ~(x = d /\ source = "traveler")
    <3>1. state[x] = "pending_evidence" /\ evidence[x]["traveler"] > 0
      BY <1>1, <1>2, <1>6, <2>2
    <3>2. PICK v \in Workers : /\ jobs[v] # Free /\ jobs[v].id = x
                               /\ jobs[v].op = "evidence"
                               /\ jobs[v].at = "EVIDENCE_SUBMITTED"
                               /\ jobs[v].seen = "pending_evidence"
      BY <3>1 DEF DisputesInv, EvidenceMovesOn
    <3> QED
      BY <1>4, <3>2
  <2> QED
    BY <2>1, <2>2
<1>7. EvidenceMovesOn'
  BY <1>6 DEF EvidenceMovesOn
<1> QED
  BY <1>3, <1>5, <1>7

\* A dispute that moves on and stays open, or is withdrawn.
LEMMA MoveKeeps ==
    ASSUME DisputesInv, NEW w \in Workers, NEW d \in Ids,
           \/ Respond(w, d) \/ Withdraw(w, d) \/ StartReview(w, d) \/ Escalate(w, d)
    PROVE  JobsOK' /\ OneResolver' /\ StoresOK' /\ EvidenceMovesOn'
<1>1. PICK op \in Ops \ {"resolve"},
           to \in (Active \cup Terminal) \ (Resolved \cup {"pending_evidence"}) :
        Transition(d, to) /\ Starts(w, op, "STATE_CHANGED", d, state[d])
  BY DEF Respond, Withdraw, StartReview, Escalate, Ops, Active, Terminal, Resolved
<1>2. UNCHANGED <<evidence, resolution, arbitration>>
  BY DEF Respond, Withdraw, StartReview, Escalate, stores
<1>3. /\ state[d] \in Active /\ state'[d] = to
      /\ \A x \in Ids \ {d} : state'[x] = state[x]
  BY <1>1, AllowedFromActive DEF Transition, DisputesInv, TypeOK
<1>4. to \notin {"none", "lost", "pending_evidence"} /\ to \notin Resolved
      /\ state[d] \notin {"none", "lost"} /\ state[d] \notin Resolved
  BY <1>1, <1>3 DEF Active, Terminal, Resolved
<1>5. JobsOK' /\ OneResolver'
  BY <1>1, <1>2, <1>3, <1>4, BusyKept DEF DisputesInv, Published
<1>6. jobs[w] = Free /\ (\A v \in Workers \ {w} : jobs'[v] = jobs[v]) /\ UNCHANGED approved
  BY <1>1, StartsJob DEF DisputesInv, Published
<1>7. StoresOK'
  BY <1>2, <1>3, <1>4, <1>6 DEF DisputesInv, StoresOK, OnFile
<1>8. EvidenceMovesOn'
  BY <1>2, <1>3, <1>4, <1>6 DEF DisputesInv, EvidenceMovesOn
<1> QED
  BY <1>5, <1>7, <1>8

\* What admins leave behind without a change of state.
LEMMA QuietKeeps ==
    ASSUME DisputesInv, NEW d \in Ids,
           \/ Assign(d) \/ AddNote(d) \/ RefusedReview(d)
           \/ \E r \in Resolutions : RefusedResolve(d, r)
    PROVE  JobsOK' /\ OneResolver' /\ StoresOK' /\ EvidenceMovesOn'
<1>1. UNCHANGED <<state, evidence, jobs, approved>>
  BY DEF Assign, AddNote, RefusedReview, RefusedResolve
<1>2. \A x \in Ids : arbitration[x] \subseteq arbitration'[x]
  BY DEF Assign, AddNote, RefusedReview, RefusedResolve, DisputesInv, TypeOK
<1>3. \A x \in Ids : resolution'[x] = resolution[x] \/ state[x] \in Active
  BY DEF Assign, AddNote, RefusedReview, RefusedResolve, MayResolve, DisputesInv, TypeOK
<1>4. \A x \in Ids : state[x] \in Resolved => resolution'[x] = resolution[x]
  BY <1>3 DEF Active, Resolved
<1>5. JobsOK'
  <2>1. ASSUME NEW w \in Workers, jobs'[w] # Free
        PROVE  /\ state'[jobs'[w].id] \notin {"none", "lost"}
               /\ jobs'[w].at \in {"DISPUTE_RESOLVED", "REFUND_APPROVED"} =>
                    jobs'[w].op = "resolve"
               /\ jobs'[w].op = "resolve" => Resolves(jobs[w])'
    <3>1. jobs[w] # Free /\ jobs[w].id \in Ids
      BY <1>1, <2>1, BusyJob DEF DisputesInv
    <3> QED
      BY <1>1, <1>2, <1>4, <3>1 DEF DisputesInv, JobsOK, Resolves
  <2> QED
    BY <2>1 DEF JobsOK
<1>6. OneResolver' /\ EvidenceMovesOn'
  BY <1>1 DEF DisputesInv, OneResolver, EvidenceMovesOn
<1>7. StoresOK'
  BY <1>1, <1>2, <1>4 DEF DisputesInv, StoresOK, OnFile
<1> QED
  BY <1>5, <1>6, <1>7

LEMMA ResolveKeeps ==
    ASSUME DisputesInv, NEW w \in Workers, NEW d \in Ids, NEW r \in Resolutions,
           Resolve(w, d, r)
    PROVE  JobsOK' /\ OneResolver' /\ StoresOK' /\ EvidenceMovesOn'
<1>1. /\ state[d] \in Active /\ Starts(w, "resolve", "STATE_CHANGED", d, r)
      /\ state'[d] = ResolvedState(r) /\ \A x \in Ids \ {d} : state'[x] = state[x]
      /\ resolution'[d] = r /\ \A x \in Ids \ {d} : resolution'[x] = resolution[x]
      /\ UNCHANGED <<evidence, arbitration>>
  <2>1. MayResolve(d, r) /\ Transition(d, ResolvedState(r))
    BY DEF Resolve
  <2>2. /\ state' = [state EXCEPT ![d] = ResolvedState(r)]
        /\ resolution' = [resolution EXCEPT ![d] = r]
        /\ UNCHANGED <<evidence, arbitration>>
        /\ Starts(w, "resolve", "STATE_CHANGED", d, r)
    BY <2>1 DEF Resolve, Transition
  <2>3. state \in [Ids -> Active \cup Terminal \cup {"none", "lost"}]
        /\ resolution \in [Ids -> Resolutions \cup {"none"}]
    BY DEF DisputesInv, TypeOK
  <2>4. state[d] \in Active
    BY <2>1 DEF MayResolve
  <2> QED
    BY <2>2, <2>3, <2>4
<1>2. ResolvedState(r) \in Resolved /\ r # "none"
      /\ ResolvedState(r) \notin {"none", "lost", "pending_evidence"}
  BY ResolvedStates DEF Resolved, Resolutions
<1>3. /\ jobs[w] = Free /\ \A v \in Workers \ {w} : jobs'[v] = jobs[v]
      /\ jobs'[w] # Free /\ jobs'[w].at = "STATE_CHANGED" /\ jobs'[w].op = "resolve"
      /\ jobs'[w].id = d /\ jobs'[w].seen = r /\ UNCHANGED approved
  <2>1. TypeOK /\ "STATE_CHANGED" \in Published
    BY DEF DisputesInv, Published
  <2>2. Starts(w, "resolve", "STATE_CHANGED", d, r)
    BY <1>1
  <2> QED
    BY <2>1, <2>2, StartsJob, ZenonT(60)
<1>4. approved[d] = 0 /\ state[d] \notin {"none", "lost"}
  BY <1>1 DEF DisputesInv, StoresOK, Active, Resolved
<1>5. \A v \in Workers : jobs[v] # Free /\ jobs[v].id = d => jobs[v].op # "resolve"
  BY <1>1, OpenHasNoResolver DEF DisputesInv
<1>6. JobsOK'
  <2>1. ASSUME NEW v \in Workers, jobs'[v] # Free
        PROVE  /\ state'[jobs'[v].id] \notin {"none", "lost"}
               /\ jobs'[v].at \in {"DISPUTE_RESOLVED", "REFUND_APPROVED"} =>
                    jobs'[v].op = "resolve"
               /\ jobs'[v].op = "resolve" => Resolves(jobs[v])'
    <3>1. CASE v = w
      BY <1>1, <1>2, <1>3, <1>4, <3>1 DEF Resolves
    <3>2. CASE v # w
      <4>1. jobs'[v] = jobs[v] /\ jobs[v] # Free /\ jobs[v].id \in Ids
        BY <1>3, <2>1, <3>2, BusyJob DEF DisputesInv
      <4>2. jobs[v].op = "resolve" => jobs[v].id # d
        BY <1>5, <4>1
      <4> QED
        BY <1>1, <1>2, <1>3, <4>1, <4>2 DEF DisputesInv, JobsOK, Resolves
    <3> QED
      BY <3>1, <3>2
  <2> QED
    BY <2>1 DEF JobsOK
<1>7. OneResolver'
  <2>1. ASSUME NEW u \in Workers, NEW v \in Workers,
               jobs'[u] # Free, jobs'[u].op = "resolve",
               jobs'[v] # Free, jobs'[v].op = "resolve", jobs'[u].id = jobs'[v].id
        PROVE  u = v
    BY <1>3, <1>5, <2>1 DEF DisputesInv, OneResolver
  <2> QED
    BY <2>1 DEF OneResolver
<1>8. StoresOK'
  BY <1>1, <1>2, <1>3, <1>4 DEF DisputesInv, StoresOK, OnFile
<1>9. EvidenceMovesOn'
  BY <1>1, <1>2, <1>3 DEF DisputesInv, EvidenceMovesOn
<1> QED
  BY <1>6, <1>7, <1>8, <1>9

\* What the end of a publish does to the handler itself.
LEMMA EndMoves ==
    ASSUME DisputesInv, NEW w \in Workers, NEW ok \in BOOLEAN, EndPublish(w, ok)
    PROVE  LET j == jobs[w] IN
      /\ j # Free /\ j.id \in Ids
      /\ \A v \in Workers \ {w} : jobs'[v] = jobs[v]
      /\ UNCHANGED <<evidence, resolution>>
      /\ arbitration'[j.id] = arbitration[j.id] \cup Recorded(j)
      /\ \A x \in Ids \ {j.id} : /\ arbitration'[x] = arbitration[x]
                                 /\ approved'[x] = approved[x]
                                 /\ state'[x] = state[x]
      /\ approved'[j.id] = IF ok /\ j.at = "REFUND_APPROVED" THEN approved[j.id] + 1
                           ELSE approved[j.id]
      /\ \/ /\ MovesOn(j)
            /\ state[j.id] = "pending_evidence" /\ state'[j.id] = "evidence_submitted"
            /\ jobs'[w] = Job("evidence", "STATE_CHANGED", j.id, j.seen)
         \/ /\ MovesOn(j) => state[j.id] # "pending_evidence"
            /\ state'[j.id] = state[j.id]
            /\ jobs'[w] = IF NextEvent(j) = "free" THEN Free
                          ELSE Job(j.op, NextEvent(j), j.id, j.seen)
<1> DEFINE j == jobs[w]
<1>1. j # Free /\ j.id \in Ids /\ TypeOK
  BY BusyJob DEF EndPublish, DisputesInv
<1>2. /\ approved' = IF ok /\ j.at = "REFUND_APPROVED"
                     THEN [approved EXCEPT ![j.id] = approved[j.id] + 1] ELSE approved
      /\ arbitration' = [arbitration EXCEPT ![j.id] = arbitration[j.id] \cup Recorded(j)]
      /\ UNCHANGED <<evidence, resolution>>
  BY DEF EndPublish, Delivered
<1>3. \/ /\ MovesOn(j)
         /\ Allowed(state[j.id], "evidence_submitted")
         /\ state' = [state EXCEPT ![j.id] = "evidence_submitted"]
         /\ jobs' = [jobs EXCEPT ![w] = Job("evidence", "STATE_CHANGED", j.id, j.seen)]
      \/ /\ MovesOn(j) => ~Allowed(state[j.id], "evidence_submitted")
         /\ state' = state
         /\ jobs' = [jobs EXCEPT ![w] = IF NextEvent(j) = "free" THEN Free
                                        ELSE Job(j.op, NextEvent(j), j.id, j.seen)]
  BY DEF EndPublish, Transition
<1>4. Allowed(state[j.id], "evidence_submitted") <=> state[j.id] = "pending_evidence"
  BY DEF Allowed
<1>5. /\ approved \in [Ids -> Nat] /\ arbitration \in [Ids -> SUBSET Actions]
      /\ state \in [Ids -> Active \cup Terminal \cup {"none", "lost"}]
      /\ DOMAIN jobs = Workers
  BY <1>1 DEF TypeOK
<1> HIDE DEF j
<1>6. /\ arbitration'[j.id] = arbitration[j.id] \cup Recorded(j)
      /\ \A x \in Ids \ {j.id} : arbitration'[x] = arbitration[x]
  BY <1>1, <1>2, <1>5
<1>7. /\ \A x \in Ids \ {j.id} : approved'[x] = approved[x]
      /\ approved'[j.id] = IF ok /\ j.at = "REFUND_APPROVED" THEN approved[j.id] + 1
                           ELSE approved[j.id]
  BY <1>1, <1>2, <1>5
<1>8. /\ \A x \in Ids \ {j.id} : state'[x] = state[x]
      /\ \A v \in Workers \ {w} : jobs'[v] = jobs[v]
  BY <1>3, <1>5
<1>9. \/ /\ MovesOn(j)
         /\ state[j.id] = "pending_evidence" /\ state'[j.id] = "evidence_submitted"
         /\ jobs'[w] = Job("evidence", "STATE_CHANGED", j.id, j.seen)
      \/ /\ MovesOn(j) => state[j.id] # "pending_evidence"
         /\ state'[j.id] = state[j.id]
         /\ jobs'[w] = IF NextEvent(j) = "free" THEN Free
                       ELSE Job(j.op, NextEvent(j), j.id, j.seen)
  BY <1>1, <1>3, <1>4, <1>5
<1> QED
  BY <1>1, <1>2, <1>6, <1>7, <1>8, <1>9 DEF j

\* The handler afterwards: it is done, or waits for its next publish.
LEMMA EndJob ==
    ASSUME DisputesInv, NEW w \in Workers, NEW ok \in BOOLEAN, EndPublish(w, ok),
           jobs'[w] # Free
    PROVE  /\ jobs'[w].id = jobs[w].id /\ jobs'[w].op = jobs[w].op
           /\ jobs'[w].seen = jobs[w].seen
           /\ jobs[w].op = "resolve" =>
                \/ jobs[w].at = "STATE_CHANGED" /\ jobs'[w].at = "DISPUTE_RESOLVED"
                \/ /\ jobs[w].at = "DISPUTE_RESOLVED" /\ jobs'[w].at = "REFUND_APPROVED"
                   /\ Pays(jobs[w].seen)
           /\ jobs'[w].at \in {"DISPUTE_RESOLVED", "REFUND_APPROVED"} =>
                jobs[w].op = "resolve"
<1> DEFINE j == jobs[w]
<1>1. CASE jobs'[w] = Job("evidence", "STATE_CHANGED", j.id, j.seen) /\ MovesOn(j)
  BY <1>1 DEF Job, MovesOn
<1>2. CASE jobs'[w] = Job(j.op, NextEvent(j), j.id, j.seen) /\ NextEvent(j) # "free"
  <2>1. /\ jobs'[w].id = j.id /\ jobs'[w].op = j.op /\ jobs'[w].seen = j.seen
        /\ jobs'[w].at = NextEvent(j)
    BY <1>2 DEF Job
  <2>2. j # Free /\ j.at = "DISPUTE_RESOLVED" => j.op = "resolve"
    BY DEF DisputesInv, JobsOK
  <2>3. j # Free
    BY DEF EndPublish
  <2>4. j.op = "resolve" =>
          \/ j.at = "STATE_CHANGED" /\ NextEvent(j) = "DISPUTE_RESOLVED"
          \/ j.at = "DISPUTE_RESOLVED" /\ NextEvent(j) = "REFUND_APPROVED" /\ Pays(j.seen)
    BY <1>2 DEF NextEvent
  <2>5. NextEvent(j) = "DISPUTE_RESOLVED" => j.op = "resolve"
    BY DEF NextEvent
  <2>6. NextEvent(j) = "REFUND_APPROVED" => j.at = "DISPUTE_RESOLVED"
    BY DEF NextEvent
  <2> QED
    BY <2>1, <2>2, <2>3, <2>4, <2>5, <2>6
<1> QED
  BY <1>1, <1>2, EndMoves

\* No second handler comes to resolve a dispute, and the ones that move a
\* dispute on are there as long as it waits.
LEMMA EndOthers ==
    ASSUME DisputesInv, NEW w \in Workers, NEW ok \in BOOLEAN, EndPublish(w, ok)
    PROVE  OneResolver' /\ EvidenceMovesOn'
<1>1. jobs[w] # Free /\ jobs[w].id \in Ids /\ \A v \in Workers \ {w} : jobs'[v] = jobs[v]
  BY EndMoves
<1>2. jobs'[w] # Free => jobs'[w].id = jobs[w].id /\ jobs'[w].op = jobs[w].op
  BY EndJob
<1>3. OneResolver'
  BY <1>1, <1>2 DEF DisputesInv, OneResolver
<1>4. ASSUME NEW x \in Ids, state'[x] = "pending_evidence", evidence'[x]["traveler"] > 0
      PROVE  \E v \in Workers : /\ jobs'[v] # Free /\ jobs'[v].id = x
                                /\ jobs'[v].op = "evidence"
                                /\ jobs'[v].at = "EVIDENCE_SUBMITTED"
                                /\ jobs'[v].seen = "pending_evidence"
  <2>1. state[x] = "pending_evidence" /\ evidence[x]["traveler"] > 0
    BY <1>1, <1>4, EndMoves
  <2>2. PICK v \in Workers : /\ jobs[v] # Free /\ jobs[v].id = x
                             /\ jobs[v].op = "evidence"
                             /\ jobs[v].at = "EVIDENCE_SUBMITTED"
                             /\ jobs[v].seen = "pending_evidence"
    BY <2>1 DEF DisputesInv, EvidenceMovesOn
  <2>3. v # w
    BY <1>4, <2>1, <2>2, EndMoves DEF MovesOn
  <2> QED
    BY <1>1, <2>2, <2>3
<1> QED
  BY <1>3, <1>4 DEF EvidenceMovesOn

LEMMA EndKeeps ==
    ASSUME DisputesInv, NEW w \in Workers, NEW ok \in BOOLEAN, EndPublish(w, ok)
    PROVE  JobsOK' /\ OneResolver' /\ StoresOK' /\ EvidenceMovesOn'
<1>1. PICK d \in Ids : d = jobs[w].id
  BY EndMoves
<1>2. jobs[w] # Free /\ \A v \in Workers \ {w} : jobs'[v] = jobs[v]
  BY EndMoves
<1>3. /\ UNCHANGED <<evidence, resolution>>
      /\ \A x \in Ids : arbitration[x] \subseteq arbitration'[x]
      /\ \A x \in Ids \ {d} : approved'[x] = approved[x] /\ state'[x] = state[x]
      /\ state'[d] = state[d] \/ (state[d] = "pending_evidence" /\ state'[d] = "evidence_submitted")
  BY <1>1, EndMoves, Zenon
<1>4. jobs[w].op = "resolve" => Resolves(jobs[w])
  BY <1>2 DEF DisputesInv, JobsOK
<1>5. CASE approved'[d] = approved[d]
  <2>1. JobsOK'
    <3>1. ASSUME NEW v \in Workers, jobs'[v] # Free
          PROVE  /\ state'[jobs'[v].id] \notin {"none", "lost"}
                 /\ jobs'[v].at \in {"DISPUTE_RESOLVED", "REFUND_APPROVED"} =>
                      jobs'[v].op = "resolve"
                 /\ jobs'[v].op = "resolve" => Resolves(jobs[v])'
      <4>1. CASE v = w
        <5>1. state'[d] \notin {"none", "lost"}
          BY <1>1, <1>2, <1>3 DEF DisputesInv, JobsOK
        <5>2. jobs'[w].op = "resolve" => Resolves(jobs[w])'
          <6>1. SUFFICES ASSUME jobs[w].op = "resolve"
                         PROVE  Resolves(jobs[w])'
            BY <3>1, <4>1, EndJob
          <6>2. /\ state[d] \in Resolved /\ jobs[w].seen = resolution[d] /\ approved[d] = 0
                /\ jobs[w].at # "STATE_CHANGED" => "resolution_approved" \in arbitration[d]
            BY <1>1, <1>4, <6>1 DEF Resolves
          <6>3. state'[d] = state[d]
            BY <1>3, <6>2 DEF Resolved
          <6>4. "resolution_approved" \in arbitration'[d]
            <7>1. jobs[w].at = "STATE_CHANGED" => "resolution_approved" \in Recorded(jobs[w])
              BY <6>1 DEF Recorded
            <7>2. arbitration'[d] = arbitration[d] \cup Recorded(jobs[w])
              BY <1>1, EndMoves
            <7> QED
              BY <6>2, <7>1, <7>2
          <6>5. /\ jobs'[w].id = d /\ jobs'[w].seen = jobs[w].seen
                /\ jobs'[w].at \in {"DISPUTE_RESOLVED", "REFUND_APPROVED"}
                /\ jobs'[w].at = "REFUND_APPROVED" => Pays(jobs[w].seen)
            BY <1>1, <3>1, <4>1, <6>1, EndJob
          <6> QED
            BY <1>3, <1>5, <6>2, <6>3, <6>4, <6>5 DEF Resolves
        <5> QED
          BY <1>1, <3>1, <4>1, <5>1, <5>2, EndJob
      <4>2. CASE v # w
        <5>1. jobs'[v] = jobs[v] /\ jobs[v] # Free /\ jobs[v].id \in Ids
          BY <1>2, <3>1, <4>2, BusyJob DEF DisputesInv
        <5>2. /\ state[jobs[v].id] \notin {"none", "lost"}
              /\ jobs[v].at \in {"DISPUTE_RESOLVED", "REFUND_APPROVED"} =>
                   jobs[v].op = "resolve"
              /\ jobs[v].op = "resolve" => Resolves(jobs[v])
          BY <5>1 DEF DisputesInv, JobsOK
        <5>3. state'[jobs[v].id] \notin {"none", "lost"}
          BY <1>3, <5>1, <5>2
        <5>4. Resolves(jobs[v]) => Resolves(jobs[v])'
          <6>1. SUFFICES ASSUME Resolves(jobs[v])
                         PROVE  Resolves(jobs[v])'
            OBVIOUS
          <6>2. state[jobs[v].id] \in Resolved /\ state'[jobs[v].id] = state[jobs[v].id]
            BY <1>3, <5>1, <6>1 DEF Resolves, Resolved
          <6> QED
            BY <1>3, <1>5, <5>1, <6>1, <6>2 DEF Resolves
        <5> QED
          BY <5>1, <5>2, <5>3, <5>4
      <4> QED
        BY <4>1, <4>2
    <3> QED
      BY <3>1 DEF JobsOK
  <2>2. StoresOK'
    <3>1. \A x \in Ids : approved'[x] = approved[x]
      BY <1>3, <1>5
    <3>2. \A x \in Ids : \/ state'[x] = state[x]
                         \/ /\ state[x] \notin Resolved \cup {"lost"}
                            /\ state'[x] \notin Resolved \cup {"none", "lost"}
      BY <1>3 DEF Resolved
    <3> QED
      BY <1>3, <3>1, <3>2 DEF DisputesInv, StoresOK, OnFile
  <2> QED
    BY <2>1, <2>2, EndOthers
<1>6. CASE approved'[d] # approved[d]
  <2>1. jobs[w].at = "REFUND_APPROVED" /\ approved'[d] = approved[d] + 1
    BY <1>1, <1>6, EndMoves
  <2>2. /\ jobs[w].op = "resolve" /\ state[d] \in Resolved
        /\ Pays(resolution[d]) /\ "resolution_approved" \in arbitration[d]
        /\ approved[d] = 0
    BY <1>1, <1>2, <2>1 DEF DisputesInv, JobsOK, Resolves
  <2>3. state'[d] = state[d]
    BY <1>3, <2>2 DEF Resolved
  <2>4. jobs'[w] = Free
    BY <2>1, <2>2, EndJob
  <2>5. StoresOK'
    <3>1. \A x \in Ids : state'[x] = state[x]
      BY <1>3, <2>3
    <3>2. approved'[d] = 1 /\ \A x \in Ids \ {d} : approved'[x] = approved[x]
      BY <1>3, <2>1, <2>2
    <3>3. state[d] # "none"
      BY <2>2 DEF Resolved
    <3>4. \A x \in Ids : approved'[x] = approved[x] \/
             /\ approved'[x] = 1 /\ state[x] \in Resolved /\ Pays(resolution[x])
             /\ "resolution_approved" \in arbitration[x] /\ state[x] # "none"
      BY <2>2, <3>2, <3>3
    <3> HIDE DEF Pays
    <3> QED
      BY <1>3, <3>1, <3>4 DEF DisputesInv, StoresOK, OnFile
  <2>6. JobsOK'
    <3>1. ASSUME NEW v \in Workers, jobs'[v] # Free
          PROVE  /\ state'[jobs'[v].id] \notin {"none", "lost"}
                 /\ jobs'[v].at \in {"DISPUTE_RESOLVED", "REFUND_APPROVED"} =>
                      jobs'[v].op = "resolve"
                 /\ jobs'[v].op = "resolve" => Resolves(jobs[v])'
      <4>1. v # w /\ jobs'[v] = jobs[v] /\ jobs[v] # Free /\ jobs[v].id \in Ids
        BY <1>2, <2>4, <3>1, BusyJob DEF DisputesInv
      <4>2. jobs[v].op = "resolve" => jobs[v].id # d
        BY <1>1, <1>2, <2>2, <4>1 DEF DisputesInv, OneResolver
      <4>3. state'[jobs[v].id] = state[jobs[v].id]
        BY <1>3, <2>3, <4>1
      <4> QED
        BY <1>3, <4>1, <4>2, <4>3 DEF DisputesInv, JobsOK, Resolves
    <3> QED
      BY <3>1 DEF JobsOK
  <2> QED
    BY <2>5, <2>6, EndOthers
<1> QED
  BY <1>5, <1>6

LEMMA RestartKeeps ==
    ASSUME DisputesInv, Restart
    PROVE  JobsOK' /\ OneResolver' /\ StoresOK' /\ EvidenceMovesOn'
<1>1. \A w \in Workers : jobs'[w] = Free
  BY DEF Restart
<1>2. \A d \in Ids : state'[d] = IF state[d] = "none" THEN "none" ELSE "lost"
  BY DEF Restart
<1>3. \A d \in Ids : evidence'[d]["traveler"] = 0
  BY DEF Restart, Sources
<1>4. JobsOK' /\ OneResolver' /\ EvidenceMovesOn'
  BY <1>1, <1>2, <1>3 DEF JobsOK, OneResolver, EvidenceMovesOn
<1>5. UNCHANGED approved
  BY DEF Restart
<1>6. StoresOK'
  BY <1>2, <1>3, <1>5 DEF DisputesInv, StoresOK, Resolved
<1> QED
  BY <1>4, <1>6

LEMMA InitHolds == Init => DisputesInv
<1> SUFFICES ASSUME Init PROVE DisputesInv
  OBVIOUS
<1>1. TypeOK
  BY DisputesAssumption DEF Init, TypeOK, Files, Sources
<1>2. JobsOK /\ OneResolver /\ EvidenceMovesOn
  BY DEF Init, JobsOK, OneResolver, EvidenceMovesOn
<1>3. StoresOK
  BY DEF Init, StoresOK, Resolved, Sources
<1> QED
  BY <1>1, <1>2, <1>3 DEF DisputesInv

LEMMA InvKept == DisputesInv /\ [Next]_vars => DisputesInv'
<1> SUFFICES ASSUME DisputesInv, [Next]_vars PROVE DisputesInv'
  OBVIOUS
<1>1. TypeOK'
  BY TypesKept DEF DisputesInv
<1>2. ASSUME NEW w \in Workers, NEW d \in Ids, CreateDispute(w, d)
      PROVE  JobsOK' /\ OneResolver' /\ StoresOK' /\ EvidenceMovesOn'
  BY <1>2, CreateKeeps
<1>3. ASSUME NEW w \in Workers, NEW d \in Ids, NEW source \in Sources,
             SubmitEvidence(w, d, source)
      PROVE  JobsOK' /\ OneResolver' /\ StoresOK' /\ EvidenceMovesOn'
  BY <1>3, EvidenceKeeps
<1>4. ASSUME NEW w \in Workers, NEW d \in Ids,
             \/ Respond(w, d) \/ Withdraw(w, d) \/ StartReview(w, d) \/ Escalate(w, d)
      PROVE  JobsOK' /\ OneResolver' /\ StoresOK' /\ EvidenceMovesOn'
  BY <1>4, MoveKeeps
<1>5. ASSUME NEW w \in Workers, NEW d \in Ids, NEW r \in Resolutions, Resolve(w, d, r)
      PROVE  JobsOK' /\ OneResolver' /\ StoresOK' /\ EvidenceMovesOn'
  BY <1>5, ResolveKeeps
<1>6. ASSUME NEW d \in Ids,
             \/ Assign(d) \/ AddNote(d) \/ RefusedReview(d)
             \/ \E r \in Resolutions : RefusedResolve(d, r)
      PROVE  JobsOK' /\ OneResolver' /\ StoresOK' /\ EvidenceMovesOn'
  BY <1>6, QuietKeeps
<1>7. ASSUME NEW w \in Workers, NEW ok \in BOOLEAN, EndPublish(w, ok)
      PROVE  JobsOK' /\ OneResolver' /\ StoresOK' /\ EvidenceMovesOn'
  BY <1>7, EndKeeps
<1>8. CASE Restart
  BY <1>1, <1>8, RestartKeeps DEF DisputesInv
<1>9. CASE UNCHANGED vars
  <2>1. UNCHANGED <<state, evidence, resolution, arbitration, jobs, approved>>
    BY <1>9 DEF vars, stores
  <2>2. JobsOK' /\ OneResolver' /\ EvidenceMovesOn'
    BY <2>1 DEF DisputesInv, JobsOK, Resolves, OneResolver, EvidenceMovesOn
  <2>3. StoresOK'
    BY <2>1 DEF DisputesInv, StoresOK, OnFile
  <2> QED
    BY <1>1, <2>2, <2>3 DEF DisputesInv
<1> QED
  BY <1>1, <1>2, <1>3, <1>4, <1>5, <1>6, <1>7, <1>8, <1>9 DEF DisputesInv, Next

-----------------------------------------------------------------------------
(* The theorems. *)

\* The inductive invariant holds in every reachable state.
THEOREM DisputesInvariant == Spec => []DisputesInv
  BY InitHolds, InvKept, PTL DEF Spec

\* The stores have their types, and the limit of files holds however the
\* uploads of traveler and agent cross (evidence.service.ts:83-88).
THEOREM DisputesTypes == Spec => []TypeOK
<1>1. DisputesInv => TypeOK
  BY DEF DisputesInv
<1> QED
  BY DisputesInvariant, <1>1, PTL

\* Any number of admins: a dispute keeps the resolution it was resolved with
\* and its refund is approved at most once, with the decision on record
\* (arbitration.service.ts:119-231).
THEOREM VerdictsAreFinal == Spec => []OneVerdict
<1>1. DisputesInv => OneVerdict
  <2>1. SUFFICES ASSUME DisputesInv PROVE OneVerdict
    OBVIOUS
  <2>2. StoresOK
    BY <2>1 DEF DisputesInv
  <2> QED
    BY <2>2 DEF StoresOK, OnFile, OneVerdict, Resolved
<1> QED
  BY DisputesInvariant, <1>1, PTL

\* A dispute that has the traveler's evidence has moved on, or a handler in
\* flight will move it on (dispute.handler.ts:292-323).
THEOREM EvidenceIsNotForgotten == Spec => []EvidenceMovesOn
<1>1. DisputesInv => EvidenceMovesOn
  BY DEF DisputesInv
<1> QED
  BY DisputesInvariant, <1>1, PTL

-----------------------------------------------------------------------------
(* A decision to pay is under way, and the handlers run down: the two halves *)
(* of PaymentIsApproved that do not depend on fairness.                      *)

InHand(d) == \E w \in Workers : jobs[w] # Free /\ jobs[w].id = d /\ jobs[w].op = "resolve"

\* A decision to pay that is neither approved nor cut off is in the hand of the
\* handler that made it (arbitration.service.ts:201-231).
PaymentIsUnderWay ==
    \A d \in Ids : state[d] \in {"resolved_refund", "resolved_partial"} =>
        approved[d] = 1 \/ d \in unheard \/ InHand(d)

\* The publishes that a handler still makes, the one it waits for included.
PublishesLeft(j) ==
    CASE j.at = "free"                                                        -> 0
      [] j.at = "STATE_CHANGED" /\ j.op = "resolve"                           -> 3
      [] j.at = "STATE_CHANGED" /\ j.op \in {"respond", "withdraw", "escalate"} -> 2
      [] j.at = "EVIDENCE_SUBMITTED" /\ j.op = "evidence"                     -> 2
      [] j.at = "DISPUTE_RESOLVED"                                            -> 2
      [] OTHER                                                                -> 1

\* What happens to a handler brings it nearer its end, and nothing adds work.
HandlersRunDown ==
    [][\A w \in Workers : jobs[w] # Free =>
          \/ /\ jobs'[w] = jobs[w]
             /\ \A ok \in BOOLEAN : ~EndPublish(w, ok)
          \/ PublishesLeft(jobs'[w]) < PublishesLeft(jobs[w])]_vars

\* Every step takes up a handler, ends a publish, restarts, or is of an admin
\* and changes no state.
LEMMA StepKinds ==
    ASSUME DisputesInv, [Next]_vars
    PROVE  \/ \E w \in Workers, op \in Ops, event \in Published, d \in Ids,
                 seen \in Active \cup Resolutions :
                 /\ Starts(w, op, event, d, seen)
                 /\ \A x \in Ids : state'[x] # state[x] =>
                       \/ state'[x] \notin {"resolved_refund", "resolved_partial"}
                       \/ x = d /\ op = "resolve"
           \/ \E w \in Workers, ok \in BOOLEAN : EndPublish(w, ok)
           \/ Restart
           \/ UNCHANGED <<state, jobs, approved, unheard>>
<1> DEFINE Started(w, op, event, d, seen) ==
             /\ Starts(w, op, event, d, seen)
             /\ \A x \in Ids : state'[x] # state[x] =>
                   \/ state'[x] \notin {"resolved_refund", "resolved_partial"}
                   \/ x = d /\ op = "resolve"
           Goal == \/ \E w \in Workers, op \in Ops, event \in Published, d \in Ids,
                         seen \in Active \cup Resolutions : Started(w, op, event, d, seen)
                   \/ \E w \in Workers, ok \in BOOLEAN : EndPublish(w, ok)
                   \/ Restart
                   \/ UNCHANGED <<state, jobs, approved, unheard>>
<1>0. state \in [Ids -> Active \cup Terminal \cup {"none", "lost"}]
  BY DEF DisputesInv, TypeOK
<1>1. ASSUME NEW w \in Workers, NEW d \in Ids, CreateDispute(w, d) PROVE Goal
  <2>1. Started(w, "create", "DISPUTE_CREATED", d, "pending_evidence")
    BY <1>0, <1>1 DEF CreateDispute
  <2> HIDE DEF Started
  <2> QED
    BY <2>1 DEF Ops, Published, Active
<1>2. ASSUME NEW w \in Workers, NEW d \in Ids, NEW source \in Sources,
             SubmitEvidence(w, d, source)
      PROVE  Goal
  <2> DEFINE op == IF source = "traveler" THEN "evidence" ELSE "agentEvidence"
  <2>1. Started(w, op, "EVIDENCE_SUBMITTED", d, state[d])
    BY <1>2 DEF SubmitEvidence
  <2>2. state[d] \in Active /\ op \in Ops
    BY <1>2 DEF SubmitEvidence, Active, Ops
  <2> HIDE DEF Started, op
  <2> QED
    BY <2>1, <2>2 DEF Published
<1>3. ASSUME NEW w \in Workers, NEW d \in Ids,
             \/ Respond(w, d) \/ Withdraw(w, d) \/ StartReview(w, d) \/ Escalate(w, d)
      PROVE  Goal
  <2>1. PICK op \in Ops, to \in (Active \cup Terminal) \ Resolved :
          Transition(d, to) /\ Starts(w, op, "STATE_CHANGED", d, state[d])
    BY <1>3 DEF Respond, Withdraw, StartReview, Escalate, Ops, Active, Terminal, Resolved
  <2>2. state[d] \in Active
    BY <2>1, AllowedFromActive DEF Transition
  <2>3. Started(w, op, "STATE_CHANGED", d, state[d])
    BY <1>0, <2>1 DEF Transition, Resolved
  <2> HIDE DEF Started
  <2> QED
    BY <2>2, <2>3 DEF Published
<1>4. ASSUME NEW w \in Workers, NEW d \in Ids, NEW r \in Resolutions, Resolve(w, d, r)
      PROVE  Goal
  <2>1. Started(w, "resolve", "STATE_CHANGED", d, r)
    BY <1>0, <1>4 DEF Resolve, Transition
  <2> HIDE DEF Started
  <2> QED
    BY <2>1 DEF Ops, Published
<1>5. ASSUME \/ \E d \in Ids : \/ Assign(d) \/ AddNote(d) \/ RefusedReview(d)
                               \/ \E r \in Resolutions : RefusedResolve(d, r)
             \/ UNCHANGED vars
      PROVE  Goal
  BY <1>5 DEF Assign, AddNote, RefusedReview, RefusedResolve, vars
<1> HIDE DEF Started, Goal
<1>6. (\E w \in Workers, ok \in BOOLEAN : EndPublish(w, ok)) \/ Restart => Goal
  BY DEF Goal
<1>7. Goal
  BY <1>1, <1>2, <1>3, <1>4, <1>5, <1>6 DEF Next
<1> QED
  BY <1>7 DEF Goal, Started

LEMMA PaymentStaysUnderWay ==
    ASSUME DisputesInv, PaymentIsUnderWay, [Next]_vars
    PROVE  PaymentIsUnderWay'
<1> SUFFICES ASSUME NEW x \in Ids, state'[x] \in {"resolved_refund", "resolved_partial"}
             PROVE  approved'[x] = 1 \/ x \in unheard' \/ InHand(x)'
  BY DEF PaymentIsUnderWay
<1>1. ASSUME NEW w \in Workers, NEW op \in Ops, NEW event \in Published, NEW d \in Ids,
             NEW seen \in Active \cup Resolutions, Starts(w, op, event, d, seen),
             state'[x] # state[x] => x = d /\ op = "resolve"
      PROVE  approved'[x] = 1 \/ x \in unheard' \/ InHand(x)'
  <2>1. /\ jobs[w] = Free /\ jobs'[w] # Free
        /\ jobs'[w].op = op /\ jobs'[w].id = d
        /\ \A v \in Workers \ {w} : jobs'[v] = jobs[v]
        /\ UNCHANGED <<approved, unheard>>
    <3>1. TypeOK
      BY DEF DisputesInv
    <3>2. UNCHANGED <<approved, unheard>>
      BY <1>1 DEF Starts
    <3> QED
      BY <1>1, <3>1, <3>2, StartsJob
  <2>2. CASE state'[x] # state[x]
    <3>1. x = d /\ op = "resolve"
      BY <1>1, <2>2
    <3>2. jobs'[w] # Free /\ jobs'[w].id = x /\ jobs'[w].op = "resolve"
      BY <2>1, <3>1
    <3>3. InHand(x)'
      BY <3>2 DEF InHand
    <3> QED
      BY <3>3
  <2>3. CASE state'[x] = state[x]
    BY <2>1, <2>3 DEF PaymentIsUnderWay, InHand
  <2> QED
    BY <2>2, <2>3
<1>2. ASSUME NEW w \in Workers, NEW ok \in BOOLEAN, EndPublish(w, ok)
      PROVE  approved'[x] = 1 \/ x \in unheard' \/ InHand(x)'
  <2> DEFINE j == jobs[w]
  <2>1. /\ j # Free /\ j.id \in Ids /\ \A v \in Workers \ {w} : jobs'[v] = jobs[v]
        /\ \A y \in Ids \ {j.id} : approved'[y] = approved[y]
        /\ approved'[j.id] = IF ok /\ j.at = "REFUND_APPROVED" THEN approved[j.id] + 1
                             ELSE approved[j.id]
        /\ state'[x] = state[x]
    BY <1>2, EndMoves
  <2>2. unheard' = IF ok THEN unheard ELSE unheard \cup {j.id}
    BY <1>2 DEF EndPublish, Delivered
  <2>3. approved[x] = 1 \/ x \in unheard \/ InHand(x)
    BY <2>1 DEF PaymentIsUnderWay
  <2>4. CASE x \in unheard \/ (x = j.id /\ ~ok)
    BY <2>2, <2>4
  <2>5. CASE x # j.id /\ (approved[x] = 1 \/ InHand(x))
    BY <2>1, <2>5 DEF InHand
  <2>6. CASE x = j.id /\ ok /\ InHand(x) /\ j.op # "resolve"
    BY <2>1, <2>6 DEF InHand
  <2>7. CASE x = j.id /\ ok /\ j.op = "resolve"
    <3>1. /\ Resolves(j) /\ OnFile(x)
      BY <2>1, <2>7 DEF DisputesInv, JobsOK, StoresOK, Resolved
    <3>2. Pays(j.seen)
      <4>1. /\ resolution[x] \in Resolutions /\ j.seen = resolution[x]
            /\ ResolvedState(resolution[x]) \in {"resolved_refund", "resolved_partial"}
        BY <2>1, <2>7, <3>1 DEF Resolves, OnFile, DisputesInv, TypeOK
      <4> QED
        BY <4>1 DEF ResolvedState, Pays, Resolutions
    <3>3. CASE j.at = "REFUND_APPROVED"
      BY <2>1, <2>7, <3>1, <3>3 DEF Resolves
    <3>4. CASE j.at \in {"STATE_CHANGED", "DISPUTE_RESOLVED"}
      <4>1. NextEvent(j) \in Published
        BY <2>7, <3>2, <3>4 DEF NextEvent, Published
      <4>2. jobs'[w] = Job(j.op, NextEvent(j), j.id, j.seen) /\ ~MovesOn(j)
        <5>1. ~MovesOn(j)
          BY <2>7 DEF MovesOn
        <5>2. NextEvent(j) # "free"
          BY <4>1 DEF Published
        <5> QED
          BY <1>2, <5>1, <5>2, EndMoves
      <4>3. jobs'[w] # Free /\ jobs'[w].id = x /\ jobs'[w].op = "resolve"
        BY <2>7, <4>1, <4>2, JobIsBusy DEF Job
      <4> QED
        BY <4>3 DEF InHand
    <3> QED
      BY <3>1, <3>3, <3>4 DEF Resolves
  <2>8. CASE x = j.id /\ ok /\ approved[x] = 1 /\ j.op # "resolve"
    <3>1. j.at # "REFUND_APPROVED"
      BY <2>1, <2>8 DEF DisputesInv, JobsOK
    <3> QED
      BY <2>1, <2>8, <3>1
  <2> QED
    BY <2>3, <2>4, <2>5, <2>6, <2>7, <2>8
<1>3. CASE Restart
  BY <1>3 DEF Restart
<1>4. CASE UNCHANGED <<state, jobs, approved, unheard>>
  BY <1>4 DEF PaymentIsUnderWay, InHand
<1> QED
  BY <1>1, <1>2, <1>3, <1>4, StepKinds

LEMMA HandlersStepDown ==
    ASSUME DisputesInv, [Next]_vars, NEW w \in Workers, jobs[w] # Free
    PROVE  \/ /\ jobs'[w] = jobs[w]
              /\ \A ok \in BOOLEAN : ~EndPublish(w, ok)
           \/ PublishesLeft(jobs'[w]) < PublishesLeft(jobs[w])
<1>0. jobs[w].at \in Published /\ PublishesLeft(Free) = 0 /\ PublishesLeft(jobs[w]) \in 1..3
  <2>1. jobs[w].at \in Published
    BY BusyJob DEF DisputesInv
  <2> QED
    BY <2>1 DEF PublishesLeft, Published, Free
<1>1. ASSUME NEW v \in Workers, NEW op \in Ops, NEW event \in Published, NEW d \in Ids,
             NEW seen, Starts(v, op, event, d, seen)
      PROVE  jobs'[w] = jobs[w]
  BY <1>1, StartsJob DEF DisputesInv
<1>2. ASSUME NEW v \in Workers, NEW ok \in BOOLEAN, EndPublish(v, ok)
      PROVE  \/ v # w /\ jobs'[w] = jobs[w]
             \/ PublishesLeft(jobs'[w]) < PublishesLeft(jobs[w])
  <2>1. CASE v # w
    BY <1>2, <2>1, EndMoves
  <2>2. CASE v = w
    <3> DEFINE j == jobs[w]
    <3>1. CASE jobs'[w] = Free
      BY <1>0, <3>1
    <3>2. CASE MovesOn(j) /\ jobs'[w] = Job("evidence", "STATE_CHANGED", j.id, j.seen)
      <4>1. jobs'[w].at = "STATE_CHANGED" /\ jobs'[w].op = "evidence"
        BY <3>2 DEF Job
      <4> QED
        BY <3>2, <4>1 DEF MovesOn, PublishesLeft
    <3>3. CASE NextEvent(j) # "free" /\ jobs'[w] = Job(j.op, NextEvent(j), j.id, j.seen)
      <4>1. jobs'[w].at = NextEvent(j) /\ jobs'[w].op = j.op
        BY <3>3 DEF Job
      <4>2. \/ /\ j.at = "STATE_CHANGED" /\ j.op = "resolve"
               /\ NextEvent(j) = "DISPUTE_RESOLVED"
            \/ /\ j.at = "STATE_CHANGED" /\ j.op \in {"respond", "withdraw", "escalate"}
               /\ NextEvent(j) \in {"AGENT_RESPONDED", "DISPUTE_WITHDRAWN",
                                    "DISPUTE_ESCALATED"}
            \/ j.at = "DISPUTE_RESOLVED" /\ NextEvent(j) = "REFUND_APPROVED"
        BY <3>3 DEF NextEvent
      <4> QED
        BY <4>1, <4>2 DEF PublishesLeft
    <3> QED
      BY <1>2, <2>2, <3>1, <3>2, <3>3, EndMoves
  <2> QED
    BY <2>1, <2>2
<1>3. CASE Restart
  BY <1>0, <1>3 DEF Restart
<1>4. CASE \E ok \in BOOLEAN : EndPublish(w, ok)
  BY <1>2, <1>4
<1>5. jobs'[w] = jobs[w] \/ PublishesLeft(jobs'[w]) < PublishesLeft(jobs[w])
  BY <1>1, <1>2, <1>3, StepKinds
<1> QED
  BY <1>4, <1>5

\* A decision to pay is not dropped between its record and its approval: while
\* the two differ, the handler that decided has its publish in flight, or a
\* publish about the dispute failed (arbitration.service.ts:201-231).
THEOREM DecisionsAreUnderWay == Spec => []PaymentIsUnderWay
<1>1. Init => PaymentIsUnderWay
  BY DEF Init, PaymentIsUnderWay
<1>2. DisputesInv /\ PaymentIsUnderWay /\ [Next]_vars => PaymentIsUnderWay'
  BY PaymentStaysUnderWay
<1> QED
  BY <1>1, <1>2, DisputesInvariant, PTL DEF Spec

\* No handler of a dispute makes more than three publishes, whatever crosses it
\* (dispute.handler.ts:292-323, arbitration.service.ts:201-231).
THEOREM DisputeHandlersEnd == Spec => HandlersRunDown
<1>1. DisputesInv /\ [Next]_vars =>
        [\A w \in Workers : jobs[w] # Free =>
            \/ /\ jobs'[w] = jobs[w]
               /\ \A ok \in BOOLEAN : ~EndPublish(w, ok)
            \/ PublishesLeft(jobs'[w]) < PublishesLeft(jobs[w])]_vars
  BY HandlersStepDown
<1> QED
  BY <1>1, DisputesInvariant, PTL DEF Spec, HandlersRunDown

-----------------------------------------------------------------------------
(* Reviews *)

\* What a handler has established before it writes the status.
Established(h, passed) ==
    /\ h.at = "write" =>
         \/ h.op = "draft" /\ h.base.status \in {"PENDING_SUBMISSION", "DRAFT"}
            /\ h.new.status = "DRAFT" /\ h.new.text \in Texts
         \/ h.op = "submit" /\ h.base.status \in {"PENDING_SUBMISSION", "DRAFT"}
            /\ h.new.status = "SUBMITTED" /\ h.new.text \in Texts
         \/ h.op = "moderate" /\ h.base.status \in {"SUBMITTED", "UNDER_MODERATION"}
            /\ h.new.verdict \in Decisions /\ h.new.status = StatusOf(h.new.verdict)
         \/ h.op = "visibility" /\ h.base.status = "PUBLISHED" /\ h.new.status = "HIDDEN"
         \/ h.op = "visibility" /\ h.base.status = "HIDDEN" /\ h.new.status = "PUBLISHED"
    /\ h.at \in {"analyse", "score", "publish", "final"} => h.op = "submit"
    /\ h.at \in {"record", "analyse", "score", "publish", "final"} /\ h.op = "submit" =>
         h.base.status = "SUBMITTED"
    /\ h.at = "score" => h.found \in {"allow", "flag", "reject"}
                         /\ (h.found = "allow" => h.base.text \in passed)
    /\ h.at = "publish" => h.base.text \in passed
    /\ h.at = "final" =>
         /\ h.new.status \in {"PUBLISHED", "UNDER_MODERATION", "REJECTED"}
         /\ h.new.status = "PUBLISHED" => h.base.text \in passed
         /\ h.new.status = "REJECTED" => h.new.verdict = "GAMING"

\* Once the review was written it has a text, and so has every copy of it.
HasText(h, r) ==
    h.base.status # "PENDING_SUBMISSION" => h.base.text \in Texts /\ r.text \in Texts

HandlersOK ==
  \A c \in Callers :
    handlers[c] # Idle => Established(handlers[c], cleared) /\ HasText(handlers[c], row)
RowHasText == row.status # "PENDING_SUBMISSION" => row.text \in Texts

ReviewInv == ReviewTypeOK /\ HandlersOK /\ RowHasText /\ PublishedIsCleared /\ SubmittedIsUnderWay

\* A handler in flight has the type of one.
LEMMA HandlerType ==
    ASSUME ReviewTypeOK, NEW c \in Callers, handlers[c].at # "idle" \/ handlers[c] # Idle
    PROVE  handlers[c] \in Handler /\ handlers[c] # Idle
  BY DEF ReviewTypeOK, Idle, Handler

LEMMA HandlerBusy == ASSUME NEW h \in Handler PROVE h # Idle
  BY DEF Handler, Idle

\* A request arrives and establishes what its handler goes by.
LEMMA TakesKeeps ==
    ASSUME ReviewInv, NEW c \in Callers, NEW op \in {"draft", "submit", "moderate", "visibility"},
           NEW new \in Row, Takes(c, op, new),
           Established([at |-> "write", op |-> op, base |-> row, new |-> new,
                        version |-> row.version, found |-> "none"], cleared)
    PROVE  ReviewInv'
<1> DEFINE h == [at |-> "write", op |-> op, base |-> row, new |-> new,
                 version |-> row.version, found |-> "none"]
<1>1. h \in Handler /\ h.at = "write" /\ h.base = row
  BY DEF Handler, ReviewInv, ReviewTypeOK, Row
<1>2. h # Idle /\ Established(h, cleared) /\ HasText(h, row)
  BY <1>1, HandlerBusy DEF ReviewInv, HasText, RowHasText
<1>3. /\ handlers' = [handlers EXCEPT ![c] = h] /\ handlers[c] = Idle
      /\ requests < MaxRequests /\ requests' = requests + 1
      /\ UNCHANGED <<row, past, cleared, overtaken, cut>>
  BY DEF Takes
<1> HIDE DEF h
<1>4. ReviewTypeOK'
  BY <1>1, <1>3, ReviewsAssumption DEF ReviewInv, ReviewTypeOK
<1>5. HandlersOK'
  BY <1>2, <1>3 DEF ReviewInv, ReviewTypeOK, HandlersOK, Established, HasText
<1>6. \A b \in Callers : Submitting(b) => Submitting(b)'
  <2> SUFFICES ASSUME NEW b \in Callers, Submitting(b) PROVE Submitting(b)'
    OBVIOUS
  <2>1. b # c
    BY <1>3 DEF Submitting, Idle
  <2> QED
    BY <1>3, <2>1 DEF Submitting, ReviewInv, ReviewTypeOK
<1> QED
  BY <1>3, <1>4, <1>5, <1>6 DEF ReviewInv, RowHasText, PublishedIsCleared, SubmittedIsUnderWay

LEMMA RequestsKeep ==
    ASSUME ReviewInv, NEW c \in Callers,
           \/ \E t \in Texts : SaveDraft(c, t) \/ SubmitReview(c, t)
           \/ \E decision \in Decisions : ModerateReview(c, decision)
           \/ HideReview(c) \/ UnhideReview(c)
    PROVE  ReviewInv'
<1>0. row \in Row
  BY DEF ReviewInv, ReviewTypeOK
<1>1. ASSUME NEW t \in Texts, SaveDraft(c, t) PROVE ReviewInv'
  <2> DEFINE new == [row EXCEPT !.status = "DRAFT", !.text = t]
  <2>1. new \in Row /\ new.status = "DRAFT" /\ new.text \in Texts
    BY <1>0 DEF Row, ReviewStatus
  <2>2. Takes(c, "draft", new) /\ row.status \in {"PENDING_SUBMISSION", "DRAFT"}
    BY <1>1 DEF SaveDraft, MayWrite
  <2> HIDE DEF new
  <2> QED
    BY <2>1, <2>2, TakesKeeps DEF Established
<1>2. ASSUME NEW t \in Texts, SubmitReview(c, t) PROVE ReviewInv'
  <2> DEFINE new == [row EXCEPT !.status = "SUBMITTED", !.text = t]
  <2>1. new \in Row /\ new.status = "SUBMITTED" /\ new.text \in Texts
    BY <1>0 DEF Row, ReviewStatus
  <2>2. Takes(c, "submit", new) /\ row.status \in {"PENDING_SUBMISSION", "DRAFT"}
    BY <1>2 DEF SubmitReview, MayWrite
  <2> HIDE DEF new
  <2> QED
    BY <2>1, <2>2, TakesKeeps DEF Established
<1>3. ASSUME NEW decision \in Decisions, ModerateReview(c, decision) PROVE ReviewInv'
  <2> DEFINE new == [row EXCEPT !.status = StatusOf(decision), !.verdict = decision]
  <2>1. new \in Row /\ new.status = StatusOf(decision) /\ new.verdict = decision
    BY <1>0 DEF Row, ReviewStatus, Decisions, StatusOf
  <2>2. Takes(c, "moderate", new) /\ row.status \in {"SUBMITTED", "UNDER_MODERATION"}
    BY <1>3 DEF ModerateReview, CanBeModerated
  <2> HIDE DEF new
  <2> QED
    BY <2>1, <2>2, TakesKeeps DEF Established
<1>4. CASE HideReview(c)
  <2> DEFINE new == [row EXCEPT !.status = "HIDDEN"]
  <2>1. new \in Row /\ new.status = "HIDDEN"
    BY <1>0 DEF Row, ReviewStatus
  <2>2. Takes(c, "visibility", new) /\ row.status = "PUBLISHED"
    BY <1>4 DEF HideReview
  <2> HIDE DEF new
  <2> QED
    BY <2>1, <2>2, TakesKeeps DEF Established
<1>5. CASE UnhideReview(c)
  <2> DEFINE new == [row EXCEPT !.status = "PUBLISHED"]
  <2>1. new \in Row /\ new.status = "PUBLISHED"
    BY <1>0 DEF Row, ReviewStatus
  <2>2. Takes(c, "visibility", new) /\ row.status = "HIDDEN"
    BY <1>5 DEF UnhideReview
  <2> HIDE DEF new
  <2> QED
    BY <2>1, <2>2, TakesKeeps DEF Established
<1> QED
  BY <1>1, <1>2, <1>3, <1>4, <1>5

\* The row that a handler leaves behind.
LEMMA WrittenRow ==
    ASSUME ReviewInv, NEW c \in Callers, WriteStatus(c)
    PROVE  /\ handlers[c] \in Handler /\ Established(handlers[c], cleared) /\ HasText(handlers[c], row)
           /\ row' = Written(handlers[c]) /\ row' \in Row
           /\ row'.status = handlers[c].new.status
           /\ row'.status # "PENDING_SUBMISSION" /\ row'.text \in Texts
<1> DEFINE h == handlers[c]
<1>1. h \in Handler /\ h # Idle /\ h.at \in {"write", "final"}
  BY HandlerType DEF WriteStatus, ReviewInv
<1>2. Established(h, cleared) /\ HasText(h, row)
  BY <1>1 DEF ReviewInv, HandlersOK
<1>3. h.new.status \in ReviewStatus /\ h.new.verdict \in Decisions \cup {"GAMING", "none"}
      /\ h.new.text \in Texts \cup {NoText} /\ row \in Row
  BY <1>1 DEF Handler, Row, ReviewInv, ReviewTypeOK
<1>4. row' = Written(h)
  BY DEF WriteStatus
<1> HIDE DEF h
<1>5. /\ row' \in Row /\ row'.status = h.new.status
      /\ row'.text = IF h.at = "write" /\ h.op \in {"draft", "submit"} THEN h.new.text
                     ELSE row.text
  BY <1>3, <1>4 DEF Written, Row
<1>6. h.new.status # "PENDING_SUBMISSION"
  BY <1>1, <1>2 DEF Established, StatusOf, Decisions
<1>7. row'.text \in Texts
  <2>1. CASE h.at = "write" /\ h.op \in {"draft", "submit"}
    BY <1>2, <1>5, <2>1 DEF Established
  <2>2. CASE ~(h.at = "write" /\ h.op \in {"draft", "submit"})
    <3>1. h.base.status # "PENDING_SUBMISSION"
      BY <1>1, <1>2, <2>2 DEF Established
    <3> QED
      BY <1>2, <1>5, <2>2, <3>1 DEF HasText
  <2> QED
    BY <2>1, <2>2
<1> QED
  BY <1>1, <1>2, <1>4, <1>5, <1>6, <1>7 DEF h

LEMMA WriteKeeps ==
    ASSUME ReviewInv, NEW c \in Callers, WriteStatus(c)
    PROVE  ReviewInv'
<1> DEFINE h == handlers[c]
<1> DEFINE k == [h EXCEPT !.at = IF h.at = "write" THEN "record" ELSE "note",
                          !.base = IF h.at = "write" THEN row' ELSE @]
<1>1. /\ h \in Handler /\ Established(h, cleared) /\ HasText(h, row) /\ h.at \in {"write", "final"}
      /\ row' = Written(h) /\ row' \in Row /\ row'.status = h.new.status
      /\ row'.status # "PENDING_SUBMISSION" /\ row'.text \in Texts
  BY WrittenRow DEF WriteStatus
<1>2. /\ handlers' = [handlers EXCEPT ![c] = k]
      /\ overtaken' = (overtaken \/ row # h.base)
      /\ cleared' = IF h.op = "moderate" /\ h.new.verdict = "APPROVE"
                    THEN cleared \cup {h.base.text} ELSE cleared
      /\ cut' = FALSE /\ UNCHANGED <<past, requests>>
  BY DEF WriteStatus
<1>3. /\ k \in Handler /\ k.op = h.op /\ k.new = h.new
      /\ k.at = (IF h.at = "write" THEN "record" ELSE "note")
      /\ k.base = (IF h.at = "write" THEN row' ELSE h.base)
  BY <1>1 DEF Handler
<1> HIDE DEF h, k
<1>4. h.op = "moderate" => h.base.text \in Texts
  <2>1. h.op = "moderate" => h.base.status # "PENDING_SUBMISSION"
    BY <1>1 DEF Established
  <2> QED
    BY <1>1, <2>1 DEF HasText
<1>5. cleared \subseteq cleared' /\ cleared' \subseteq Texts
  BY <1>2, <1>4 DEF ReviewInv, ReviewTypeOK
<1>6. ReviewTypeOK'
  BY <1>1, <1>2, <1>3, <1>5 DEF ReviewInv, ReviewTypeOK
<1>7. handlers'[c] = k /\ \A b \in Callers \ {c} : handlers'[b] = handlers[b]
  BY <1>2 DEF ReviewInv, ReviewTypeOK
<1>8. HandlersOK'
  <2> SUFFICES ASSUME NEW b \in Callers, handlers'[b] # Idle
               PROVE  Established(handlers'[b], cleared') /\ HasText(handlers'[b], row')
    BY DEF HandlersOK
  <2>1. CASE b = c
    <3>1. Established(k, cleared')
      BY <1>1, <1>3 DEF Established
    <3>2. HasText(k, row')
      BY <1>1, <1>3 DEF HasText
    <3> QED
      BY <1>7, <2>1, <3>1, <3>2 DEF Established, HasText
  <2>2. CASE b # c
    BY <1>1, <1>5, <1>7, <2>2 DEF ReviewInv, HandlersOK, Established, HasText
  <2> QED
    BY <2>1, <2>2
<1>9. PublishedIsCleared'
  <2> SUFFICES ASSUME ~overtaken'
               PROVE  /\ row'.status \in {"PUBLISHED", "HIDDEN"} => row'.text \in cleared'
                      /\ row'.verdict \in {"REJECT", "GAMING"} => row'.status = "REJECTED"
    BY DEF PublishedIsCleared
  <2>1. row = h.base /\ row \in Row
        /\ (row.status \in {"PUBLISHED", "HIDDEN"} => row.text \in cleared)
        /\ (row.verdict \in {"REJECT", "GAMING"} => row.status = "REJECTED")
    BY <1>2 DEF ReviewInv, ReviewTypeOK, PublishedIsCleared
  <2>2. /\ row'.text = IF h.at = "write" /\ h.op \in {"draft", "submit"} THEN h.new.text
                       ELSE row.text
        /\ row'.verdict = IF h.op = "moderate" \/ h.new.status = "REJECTED"
                          THEN h.new.verdict ELSE row.verdict
    BY <1>1, <2>1 DEF Written, Row
  <2>3. CASE h.at = "final"
    <3>1. h.op = "submit" /\ h.base.status = "SUBMITTED"
          /\ h.new.status \in {"PUBLISHED", "UNDER_MODERATION", "REJECTED"}
          /\ (h.new.status = "PUBLISHED" => h.base.text \in cleared)
      BY <1>1, <2>3 DEF Established
    <3> QED
      BY <1>1, <1>5, <2>1, <2>2, <2>3, <3>1
  <2>4. CASE h.at = "write"
    <3>1. CASE h.op \in {"draft", "submit"}
      <4>1. h.base.status \in {"PENDING_SUBMISSION", "DRAFT"}
            /\ h.new.status \in {"DRAFT", "SUBMITTED"}
        BY <1>1, <2>4, <3>1 DEF Established
      <4> QED
        BY <1>1, <2>1, <2>2, <3>1, <4>1
    <3>2. CASE h.op = "moderate"
      <4>1. h.new.verdict \in Decisions /\ h.new.status = StatusOf(h.new.verdict)
        BY <1>1, <2>4, <3>2 DEF Established
      <4> QED
        BY <1>1, <1>2, <2>1, <2>2, <3>2, <4>1 DEF StatusOf, Decisions
    <3>3. CASE h.op = "visibility"
      <4>1. h.base.status \in {"PUBLISHED", "HIDDEN"} /\ h.new.status \in {"PUBLISHED", "HIDDEN"}
        BY <1>1, <2>4, <3>3 DEF Established
      <4> QED
        BY <1>1, <1>5, <2>1, <2>2, <3>3, <4>1
    <3> QED
      BY <1>1, <3>1, <3>2, <3>3 DEF Handler
  <2> QED
    BY <1>1, <2>3, <2>4
<1>10. SubmittedIsUnderWay'
  <2> SUFFICES ASSUME row'.status = "SUBMITTED" PROVE Submitting(c)'
    BY DEF SubmittedIsUnderWay
  <2>1. h.at = "write" /\ h.op = "submit"
    BY <1>1 DEF Established, StatusOf, Decisions
  <2> QED
    BY <1>3, <1>7, <2>1 DEF Submitting
<1> QED
  BY <1>1, <1>6, <1>8, <1>9, <1>10 DEF ReviewInv, RowHasText

\* A step of a handler that leaves the row alone.
LEMMA HandlerStepKeeps ==
    ASSUME ReviewInv, NEW c \in Callers, NEW k \in Handler \cup {Idle},
           handlers' = [handlers EXCEPT ![c] = k],
           cleared \subseteq cleared', cleared' \subseteq Texts,
           k # Idle => Established(k, cleared') /\ k.base = handlers[c].base /\ handlers[c] # Idle,
           cut' \in BOOLEAN, cut => cut',
           Submitting(c) => cut' \/ (k.op = "submit"
              /\ k.at \in {"record", "analyse", "score", "publish", "final"}),
           UNCHANGED <<row, past, overtaken, requests>>
    PROVE  ReviewInv'
<1>1. ReviewTypeOK'
  BY DEF ReviewInv, ReviewTypeOK
<1>2. handlers'[c] = k /\ \A b \in Callers \ {c} : handlers'[b] = handlers[b]
  BY DEF ReviewInv, ReviewTypeOK
<1>3. HandlersOK'
  <2> SUFFICES ASSUME NEW b \in Callers, handlers'[b] # Idle
               PROVE  Established(handlers'[b], cleared') /\ HasText(handlers'[b], row')
    BY DEF HandlersOK
  <2>1. CASE b = c
    <3>1. HasText(handlers[c], row) /\ Established(k, cleared') /\ k.base = handlers[c].base
      BY <1>2, <2>1 DEF ReviewInv, HandlersOK
    <3> QED
      BY <1>2, <2>1, <3>1 DEF Established, HasText
  <2>2. CASE b # c
    BY <1>2, <2>2 DEF ReviewInv, HandlersOK, Established, HasText
  <2> QED
    BY <2>1, <2>2
<1>4. RowHasText' /\ PublishedIsCleared'
  BY DEF ReviewInv, RowHasText, PublishedIsCleared
<1>5. SubmittedIsUnderWay'
  BY <1>2 DEF ReviewInv, SubmittedIsUnderWay, Submitting
<1> QED
  BY <1>1, <1>3, <1>4, <1>5 DEF ReviewInv

LEMMA QueriesKeep ==
    ASSUME ReviewInv, NEW c \in Callers,
           \/ RecordEvent(c)
           \/ \E found \in {"allow", "flag", "reject"} : AnalyzeReview(c, found)
           \/ StoreScore(c) \/ PublishReview(c) \/ Fail(c)
    PROVE  ReviewInv'
<1> DEFINE h == handlers[c]
<1>1. h \in Handler /\ h # Idle /\ Established(h, cleared) /\ HasText(h, row)
  <2>1. h \in Handler /\ h # Idle
    BY HandlerType DEF ReviewInv, RecordEvent, AnalyzeReview, StoreScore, PublishReview, Fail
  <2> QED
    BY <2>1 DEF ReviewInv, HandlersOK
<1>2. cleared \subseteq Texts /\ row \in Row /\ cut \in BOOLEAN
  BY DEF ReviewInv, ReviewTypeOK
<1>3. CASE RecordEvent(c)
  <2> DEFINE k == IF Submitting(c) THEN [h EXCEPT !.at = "analyse"] ELSE Idle
  <2>1. /\ handlers' = [handlers EXCEPT ![c] = k] /\ h.at \in {"record", "note"}
        /\ UNCHANGED <<row, past, cleared, overtaken, cut, requests>>
    BY <1>3 DEF RecordEvent
  <2>2. CASE Submitting(c)
    <3>1. k \in Handler /\ k.at = "analyse" /\ k.op = "submit" /\ k.base = h.base
      BY <1>1, <2>2 DEF Handler, Submitting
    <3>2. Established(k, cleared')
      BY <1>1, <2>2, <3>1 DEF Established, Submitting
    <3> HIDE DEF h, k
    <3> QED
      BY <1>1, <1>2, <2>1, <3>1, <3>2, HandlerStepKeeps DEF h
  <2>3. CASE ~Submitting(c)
    BY <1>1, <1>2, <2>1, <2>3, HandlerStepKeeps
  <2> QED
    BY <2>2, <2>3
<1>4. ASSUME NEW found \in {"allow", "flag", "reject"}, AnalyzeReview(c, found) PROVE ReviewInv'
  <2> DEFINE k == [h EXCEPT !.at = "score", !.found = found]
  <2>1. /\ handlers' = [handlers EXCEPT ![c] = k] /\ h.at = "analyse"
        /\ cleared' = IF found = "allow" THEN cleared \cup {h.base.text} ELSE cleared
        /\ UNCHANGED <<row, past, overtaken, cut, requests>>
    BY <1>4 DEF AnalyzeReview
  <2>2. h.op = "submit" /\ h.base.status = "SUBMITTED" /\ h.base.text \in Texts
    BY <1>1, <2>1 DEF Established, HasText
  <2>3. /\ k \in Handler /\ k.at = "score" /\ k.found = found
        /\ k.op = h.op /\ k.base = h.base
    BY <1>1 DEF Handler
  <2>4. Established(k, cleared')
    BY <2>1, <2>2, <2>3 DEF Established
  <2>5. cleared \subseteq cleared' /\ cleared' \subseteq Texts
    BY <1>2, <2>1, <2>2
  <2> HIDE DEF h, k
  <2> QED
    BY <1>1, <1>2, <2>1, <2>2, <2>3, <2>4, <2>5, HandlerStepKeeps DEF h
<1>5. CASE StoreScore(c)
  <2> DEFINE g == [h EXCEPT !.version = row.version]
  <2> DEFINE k == AfterScore(g)
  <2>1. /\ handlers' = [handlers EXCEPT ![c] = k] /\ h.at = "score"
        /\ UNCHANGED <<row, past, cleared, overtaken, cut, requests>>
    BY <1>5 DEF StoreScore
  <2>2. /\ h.op = "submit" /\ h.base.status = "SUBMITTED"
        /\ h.found \in {"allow", "flag", "reject"}
        /\ h.found = "allow" => h.base.text \in cleared
    BY <1>1, <2>1 DEF Established
  <2>3. g \in Handler /\ g.op = "submit" /\ g.found = h.found /\ g.base = h.base
    BY <1>1, <1>2, <2>2 DEF Handler, Row
  <2> HIDE DEF h, g
  <2>4. /\ k \in Handler /\ k.op = "submit" /\ k.base = h.base
        /\ k.at \in {"publish", "final"} /\ (k.at = "publish" => h.found = "allow")
        /\ k.at = "final" => \/ k.new.status = "UNDER_MODERATION"
                             \/ k.new.status = "REJECTED" /\ k.new.verdict = "GAMING"
    <3>1. CASE g.found = "allow"
      <4>1. k = [g EXCEPT !.at = "publish"]
        BY <3>1 DEF AfterScore
      <4> HIDE DEF k
      <4> QED
        BY <2>3, <3>1, <4>1 DEF Handler
    <3>2. CASE g.found = "flag"
      <4>1. k = [g EXCEPT !.at = "final", !.new.status = "UNDER_MODERATION"]
        BY <3>2 DEF AfterScore
      <4>2. [g.new EXCEPT !.status = "UNDER_MODERATION"] \in Row
        BY <2>3 DEF Handler, Row, ReviewStatus
      <4> HIDE DEF k
      <4> QED
        BY <2>3, <3>2, <4>1, <4>2 DEF Handler, Row
    <3>3. CASE g.found = "reject"
      <4>1. k = [g EXCEPT !.at = "final", !.new.status = "REJECTED",
                          !.new.verdict = "GAMING"]
        BY <3>3 DEF AfterScore
      <4>2. [g.new EXCEPT !.status = "REJECTED", !.verdict = "GAMING"] \in Row
        BY <2>3 DEF Handler, Row, ReviewStatus
      <4> HIDE DEF k
      <4> QED
        BY <2>3, <3>3, <4>1, <4>2 DEF Handler, Row
    <3> QED
      BY <2>2, <2>3, <3>1, <3>2, <3>3
  <2> HIDE DEF k
  <2>5. Established(k, cleared')
    BY <2>1, <2>2, <2>4 DEF Established
  <2> QED
    BY <1>1, <1>2, <2>1, <2>4, <2>5, HandlerStepKeeps DEF h
<1>6. CASE PublishReview(c)
  <2> DEFINE k == [h EXCEPT !.at = "final", !.new.status = "PUBLISHED", !.version = row.version]
  <2>1. /\ handlers' = [handlers EXCEPT ![c] = k] /\ h.at = "publish"
        /\ UNCHANGED <<row, past, cleared, overtaken, cut, requests>>
    BY <1>6 DEF PublishReview
  <2>2. h.op = "submit" /\ h.base.status = "SUBMITTED" /\ h.base.text \in cleared
    BY <1>1, <2>1 DEF Established
  <2>3. /\ k \in Handler /\ k.at = "final" /\ k.new.status = "PUBLISHED"
        /\ k.op = h.op /\ k.base = h.base
    BY <1>1, <1>2 DEF Handler, Row, ReviewStatus
  <2>4. Established(k, cleared')
    BY <2>1, <2>2, <2>3 DEF Established
  <2> HIDE DEF h, k
  <2> QED
    BY <1>1, <1>2, <2>1, <2>2, <2>3, <2>4, HandlerStepKeeps DEF h
<1>7. CASE Fail(c)
  BY <1>1, <1>2, <1>7, HandlerStepKeeps DEF Fail
<1> QED
  BY <1>3, <1>4, <1>5, <1>6, <1>7

\* The invariant of a review is inductive.
LEMMA ReviewInvInductive ==
    /\ ReviewInit => ReviewInv
    /\ ReviewInv /\ [ReviewNext]_reviewVars => ReviewInv'
<1>1. ASSUME ReviewInit PROVE ReviewInv
  <2>1. row \in Row /\ row.status = "PENDING_SUBMISSION" /\ row.verdict = "none"
    BY <1>1 DEF ReviewInit, Row, ReviewStatus, NoText
  <2>2. ReviewTypeOK
    <3>1. handlers \in [Callers -> Handler \cup {Idle}] /\ cleared \subseteq Texts
      BY <1>1 DEF ReviewInit
    <3>2. past \in BOOLEAN /\ overtaken \in BOOLEAN /\ cut \in BOOLEAN
      BY <1>1, Zenon DEF ReviewInit
    <3>3. requests \in 0..MaxRequests
      BY <1>1, ReviewsAssumption DEF ReviewInit
    <3> QED
      BY <2>1, <3>1, <3>2, <3>3, Zenon DEF ReviewTypeOK
  <2>3. HandlersOK
    BY <1>1 DEF ReviewInit, HandlersOK
  <2>4. RowHasText /\ PublishedIsCleared /\ SubmittedIsUnderWay
    BY <2>1 DEF RowHasText, PublishedIsCleared, SubmittedIsUnderWay
  <2> QED
    BY <2>2, <2>3, <2>4 DEF ReviewInv
<1>2. ASSUME ReviewInv, [ReviewNext]_reviewVars PROVE ReviewInv'
  <2>1. ASSUME NEW c \in Callers,
               \/ \E t \in Texts : SaveDraft(c, t) \/ SubmitReview(c, t)
               \/ \E decision \in Decisions : ModerateReview(c, decision)
               \/ HideReview(c) \/ UnhideReview(c)
        PROVE  ReviewInv'
    BY <1>2, <2>1, RequestsKeep
  <2>2. ASSUME NEW c \in Callers, WriteStatus(c) PROVE ReviewInv'
    BY <1>2, <2>2, WriteKeeps
  <2>3. ASSUME NEW c \in Callers,
               \/ RecordEvent(c)
               \/ \E found \in {"allow", "flag", "reject"} : AnalyzeReview(c, found)
               \/ StoreScore(c) \/ PublishReview(c) \/ Fail(c)
        PROVE  ReviewInv'
    BY <1>2, <2>3, QueriesKeep
  <2>4. CASE DeadlinePasses \/ UNCHANGED reviewVars
    <3>1. /\ past' \in BOOLEAN
          /\ UNCHANGED <<row, handlers, cleared, overtaken, cut, requests>>
      BY <1>2, <2>4 DEF DeadlinePasses, reviewVars, ReviewInv, ReviewTypeOK
    <3>2. ReviewTypeOK' /\ HandlersOK'
      BY <1>2, <3>1 DEF ReviewInv, ReviewTypeOK, HandlersOK
    <3>3. RowHasText' /\ PublishedIsCleared' /\ SubmittedIsUnderWay'
      BY <1>2, <3>1 DEF ReviewInv, RowHasText, PublishedIsCleared, SubmittedIsUnderWay, Submitting
    <3> QED
      BY <3>2, <3>3 DEF ReviewInv
  <2> QED
    BY <1>2, <2>1, <2>2, <2>3, <2>4 DEF ReviewNext
<1> QED
  BY <1>1, <1>2

\* The inductive invariant of a review.
THEOREM ReviewsInvariant == ReviewSpec => []ReviewInv
<1>1. ReviewInit => ReviewInv
  BY ReviewInvInductive
<1>2. ReviewInv /\ [ReviewNext]_reviewVars => ReviewInv'
  BY ReviewInvInductive
<1> QED
  BY <1>1, <1>2, PTL DEF ReviewSpec

\* The row and the handlers in flight keep their shape.
THEOREM ReviewsTypes == ReviewSpec => []ReviewTypeOK
<1>1. ReviewInv => ReviewTypeOK
  BY DEF ReviewInv
<1> QED
  BY <1>1, ReviewsInvariant, PTL

\* Nothing is public that neither the analysis nor a moderator let pass, and a
\* rejection stands, unless a handler wrote over a row that had changed.
THEOREM PublicIsCleared == ReviewSpec => []PublishedIsCleared
<1>1. ReviewInv => PublishedIsCleared
  BY DEF ReviewInv
<1> QED
  BY <1>1, ReviewsInvariant, PTL

\* A submitted review has a handler that will decide of it, unless its
\* submission was cut off.
THEOREM SubmissionsAreHandled == ReviewSpec => []SubmittedIsUnderWay
<1>1. ReviewInv => SubmittedIsUnderWay
  BY DEF ReviewInv
<1> QED
  BY <1>1, ReviewsInvariant, PTL
=============================================================================
