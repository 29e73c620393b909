------------------------------ MODULE Disputes ------------------------------
(***************************************************************************)
(* Disputes and their arbitration in services/disputes: dispute.service.ts,*)
(* evidence.service.ts, agent-response.service.ts, arbitration.service.ts  *)
(* and the state machine they share (dispute-state.ts), behind the routes  *)
(* of travelers, agents and admins.                                        *)
(*                                                                         *)
(* All stores are maps in memory and await only settled promises: a handler*)
(* runs alone up to its first publish and from the end of one publish to   *)
(* the next; publish() swallows every failure.  What is read before a      *)
(* publish may be stale after it.                                          *)
(***************************************************************************)
EXTENDS Naturals, FiniteSets

CONSTANTS
    Ids,           \* ids that uuidv4() may return
    Workers,       \* handlers in flight at a time (bound of the model)
    MaxEvidence,   \* maxEvidenceFilesPerDispute
    MaxRestarts    \* bound

ASSUME DisputesAssumption ==
    MaxEvidence \in Nat \ {0} /\ MaxRestarts \in Nat

VARIABLES
    state,         \* disputeStore: [Ids -> state, "none" if absent]
    subjective,    \* disputes whose isSubjectiveComplaint is set
    assigned,      \* disputes with an adminAssignedId
    evidence,      \* evidenceStore: [Ids -> [source -> number of files]]
    responses,     \* agentResponseStore: disputes with a response
    resolution,    \* resolutionStore: [Ids -> type, "none" if absent]
    arbitration,   \* arbitrationStore: [Ids -> actions on record]
    jobs,          \* [Workers -> the handler in flight and its publish]
    approved,      \* [Ids -> REFUND_APPROVED events on the event bus]
    unheard,       \* history: disputes with a publish that failed or was cut off
    restarts       \* bound: restarts so far

stores == <<subjective, assigned, evidence, responses, resolution, arbitration>>
vars == <<state, stores, jobs, approved, unheard, restarts>>

Terminal == {"resolved_refund", "resolved_partial", "resolved_denied",
             "closed_withdrawn", "closed_expired"}
Active == {"pending_evidence", "evidence_submitted", "agent_responded",
           "under_admin_review", "escalated"}
Resolutions == {"full_refund", "partial_refund", "credit_issued",
                "no_refund_objective", "no_refund_subjective"}
Sources == {"traveler", "agent"}
Actions == {"dispute_opened", "dispute_escalated", "resolution_approved", "note_added"}
Published == {"DISPUTE_CREATED", "EVIDENCE_SUBMITTED", "STATE_CHANGED", "AGENT_RESPONDED",
              "DISPUTE_WITHDRAWN", "DISPUTE_ESCALATED", "DISPUTE_RESOLVED", "REFUND_APPROVED"}

\* resolutionToAction() and the state the action leads to.
ResolvedState(r) ==
    CASE r = "full_refund"                        -> "resolved_refund"
      [] r \in {"partial_refund", "credit_issued"} -> "resolved_partial"
      [] OTHER                                    -> "resolved_denied"

\* A resolution with an amount: every one that does not deny the refund.
Pays(r) == r \in {"full_refund", "partial_refund", "credit_issued"}

\* STATE_TRANSITIONS, without the expiry that nothing triggers.
Allowed(from, to) ==
    CASE to = "evidence_submitted" -> from = "pending_evidence"
      [] to = "agent_responded"    -> from = "evidence_submitted"
      [] to = "under_admin_review" -> from \in {"evidence_submitted", "agent_responded"}
      [] to = "escalated"          -> from = "under_admin_review"
      [] to = "closed_withdrawn"   -> from \in Active \ {"escalated"}
      [] OTHER                     -> from \in {"under_admin_review", "escalated"}

Files(d) == evidence[d]["traveler"] + evidence[d]["agent"]

Free == [at |-> "free"]
\* A handler waits for the publish of an event; seen is what it keeps from
\* before: the state it read, or the resolution it applies.
Job(op, event, d, seen) == [at |-> event, op |-> op, id |-> d, seen |-> seen]

Ops == {"create", "evidence", "agentEvidence", "respond", "withdraw", "review",
        "escalate", "resolve"}

\* The types of the stores; however many submit at once, traveler and agent,
\* the limit of files holds (evidence.service.ts:83-88).
TypeOK ==
    /\ state \in [Ids -> Active \cup Terminal \cup {"none", "lost"}]
    /\ subjective \subseteq Ids /\ assigned \subseteq Ids /\ responses \subseteq Ids
    /\ evidence \in [Ids -> [Sources -> 0..MaxEvidence]]
    /\ \A d \in Ids : Files(d) <= MaxEvidence
    /\ resolution \in [Ids -> Resolutions \cup {"none"}]
    /\ arbitration \in [Ids -> SUBSET Actions]
    /\ jobs \in [Workers -> {Free} \cup
           [at : Published, op : Ops, id : Ids, seen : Active \cup Resolutions]]
    /\ approved \in [Ids -> Nat]
    /\ unheard \subseteq Ids
    /\ restarts \in 0..MaxRestarts

Init ==
    /\ state = [d \in Ids |-> "none"]
    /\ subjective = {} /\ assigned = {} /\ responses = {}
    /\ evidence = [d \in Ids |-> [s \in Sources |-> 0]]
    /\ resolution = [d \in Ids |-> "none"]
    /\ arbitration = [d \in Ids |-> {}]
    /\ jobs = [w \in Workers |-> Free]
    /\ approved = [d \in Ids |-> 0]
    /\ unheard = {}
    /\ restarts = 0

Starts(w, op, event, d, seen) ==
    /\ jobs[w] = Free
    /\ jobs' = [jobs EXCEPT ![w] = Job(op, event, d, seen)]
    /\ UNCHANGED <<approved, unheard, restarts>>

\* transitionDisputeState() up to its publish.
Transition(d, to) ==
    /\ Allowed(state[d], to)
    /\ state' = [state EXCEPT ![d] = to]

-----------------------------------------------------------------------------
(* Travelers and agents *)

CreateDispute(w, d) ==
    /\ state[d] = "none"
    /\ state' = [state EXCEPT ![d] = "pending_evidence"]
    /\ subjective' \in {subjective, subjective \cup {d}}
    /\ Starts(w, "create", "DISPUTE_CREATED", d, "pending_evidence")
    /\ UNCHANGED <<assigned, evidence, responses, resolution, arbitration>>

\* submitEvidence(), from the handler of the traveler or of the agent, up to
\* its publish.
SubmitEvidence(w, d, source) ==
    /\ state[d] \in {"pending_evidence", "evidence_submitted"}
    /\ Files(d) < MaxEvidence
    /\ evidence' = [evidence EXCEPT ![d][source] = @ + 1]
    /\ Starts(w, IF source = "traveler" THEN "evidence" ELSE "agentEvidence",
              "EVIDENCE_SUBMITTED", d, state[d])
    /\ UNCHANGED <<state, subjective, assigned, responses, resolution, arbitration>>

Respond(w, d) ==
    /\ d \notin responses
    /\ responses' = responses \cup {d}
    /\ Transition(d, "agent_responded")
    /\ Starts(w, "respond", "STATE_CHANGED", d, state[d])
    /\ UNCHANGED <<subjective, assigned, evidence, resolution, arbitration>>

Withdraw(w, d) ==
    /\ Transition(d, "closed_withdrawn")
    /\ Starts(w, "withdraw", "STATE_CHANGED", d, state[d])
    /\ UNCHANGED stores

-----------------------------------------------------------------------------
(* Admins *)

Assign(d) ==
    /\ state[d] \in Active
    /\ assigned' = assigned \cup {d}
    /\ UNCHANGED <<state, subjective, evidence, responses, resolution, arbitration,
                   jobs, approved, unheard, restarts>>

AddNote(d) ==
    /\ state[d] \notin {"none", "lost"}
    /\ arbitration' = [arbitration EXCEPT ![d] = @ \cup {"note_added"}]
    /\ UNCHANGED <<state, subjective, assigned, evidence, responses, resolution,
                   jobs, approved, unheard, restarts>>

StartReview(w, d) ==
    /\ Transition(d, "under_admin_review")
    /\ assigned' = assigned \cup {d}
    /\ Starts(w, "review", "STATE_CHANGED", d, state[d])
    /\ UNCHANGED <<subjective, evidence, responses, resolution, arbitration>>

\* A review that is refused has assigned the dispute all the same.
RefusedReview(d) ==
    /\ state[d] \in Active /\ ~Allowed(state[d], "under_admin_review")
    /\ assigned' = assigned \cup {d}
    /\ UNCHANGED <<state, subjective, evidence, responses, resolution, arbitration,
                   jobs, approved, unheard, restarts>>

Escalate(w, d) ==
    /\ Transition(d, "escalated")
    /\ Starts(w, "escalate", "STATE_CHANGED", d, state[d])
    /\ UNCHANGED stores

\* Variant: a dispute that is closed is not turned away.
MayResolveClosed(d, r) ==
    /\ state[d] \in Active \cup Terminal
    /\ d \in subjective => r \notin {"full_refund", "partial_refund"}

\* The checks of resolveDispute().
MayResolve(d, r) ==
    /\ state[d] \in Active
    /\ d \in subjective => r \notin {"full_refund", "partial_refund"}

\* The resolution is stored before the transition is tried.
Resolve(w, d, r) ==
    /\ MayResolve(d, r)
    /\ resolution' = [resolution EXCEPT ![d] = r]
    /\ Transition(d, ResolvedState(r))
    /\ Starts(w, "resolve", "STATE_CHANGED", d, r)
    /\ UNCHANGED <<subjective, assigned, evidence, responses, arbitration>>

RefusedResolve(d, r) ==
    /\ MayResolve(d, r) /\ ~Allowed(state[d], ResolvedState(r))
    /\ resolution' = [resolution EXCEPT ![d] = r]
    /\ UNCHANGED <<state, subjective, assigned, evidence, responses, arbitration,
                   jobs, approved, unheard, restarts>>

-----------------------------------------------------------------------------
(* The end of a publish *)

\* What the handler puts on record once its change of state is published.
Recorded(j) ==
    CASE j.at = "STATE_CHANGED" /\ j.op = "review"   -> {"dispute_opened"}
      [] j.at = "STATE_CHANGED" /\ j.op = "escalate" -> {"dispute_escalated"}
      [] j.at = "STATE_CHANGED" /\ j.op = "resolve"  -> {"resolution_approved"}
      [] OTHER                                       -> {}

\* Variant: only a full refund is approved.
NextEventFullOnly(j) ==
    CASE j.at = "STATE_CHANGED" /\ j.op = "respond"  -> "AGENT_RESPONDED"
      [] j.at = "STATE_CHANGED" /\ j.op = "withdraw" -> "DISPUTE_WITHDRAWN"
      [] j.at = "STATE_CHANGED" /\ j.op = "escalate" -> "DISPUTE_ESCALATED"
      [] j.at = "STATE_CHANGED" /\ j.op = "resolve"  -> "DISPUTE_RESOLVED"
      [] j.at = "DISPUTE_RESOLVED" /\ j.seen = "full_refund" -> "REFUND_APPROVED"
      [] OTHER                                       -> "free"

\* The event that follows, if any.
NextEvent(j) ==
    CASE j.at = "STATE_CHANGED" /\ j.op = "respond"  -> "AGENT_RESPONDED"
      [] j.at = "STATE_CHANGED" /\ j.op = "withdraw" -> "DISPUTE_WITHDRAWN"
      [] j.at = "STATE_CHANGED" /\ j.op = "escalate" -> "DISPUTE_ESCALATED"
      [] j.at = "STATE_CHANGED" /\ j.op = "resolve"  -> "DISPUTE_RESOLVED"
      [] j.at = "DISPUTE_RESOLVED" /\ Pays(j.seen)   -> "REFUND_APPROVED"
      [] OTHER                                       -> "free"

\* Variant: only the first file of a dispute moves it on.
MovesOnFirstFile(j) ==
    /\ j.at = "EVIDENCE_SUBMITTED" /\ j.op = "evidence" /\ j.seen = "pending_evidence"
    /\ Files(j.id) = 1

\* handleSubmitEvidence() goes by the state it read before the publish.
MovesOn(j) ==
    j.at = "EVIDENCE_SUBMITTED" /\ j.op = "evidence" /\ j.seen = "pending_evidence"

Delivered(j, ok) ==
    /\ approved' = IF ok /\ j.at = "REFUND_APPROVED"
                   THEN [approved EXCEPT ![j.id] = @ + 1] ELSE approved
    /\ unheard' = IF ok THEN unheard ELSE unheard \cup {j.id}

\* A transition that comes too late throws, and the handler ends.
EndPublish(w, ok) ==
    /\ jobs[w] # Free
    /\ LET j == jobs[w] IN
         /\ Delivered(j, ok)
         /\ arbitration' = [arbitration EXCEPT ![j.id] = @ \cup Recorded(j)]
         /\ \/ /\ MovesOn(j)
               /\ Transition(j.id, "evidence_submitted")
               /\ jobs' = [jobs EXCEPT ![w] = Job("evidence", "STATE_CHANGED", j.id, j.seen)]
            \/ /\ MovesOn(j) => ~Allowed(state[j.id], "evidence_submitted")
               /\ jobs' = [jobs EXCEPT ![w] =
                             IF NextEvent(j) = "free" THEN Free
                             ELSE Job(j.op, NextEvent(j), j.id, j.seen)]
               /\ UNCHANGED state
    /\ UNCHANGED <<subjective, assigned, evidence, responses, resolution, restarts>>

\* Every store is in memory; the event bus keeps what reached it.
Restart ==
    /\ restarts < MaxRestarts
    /\ state' = [d \in Ids |-> IF state[d] = "none" THEN "none" ELSE "lost"]
    /\ subjective' = {} /\ assigned' = {} /\ responses' = {}
    /\ evidence' = [d \in Ids |-> [s \in Sources |-> 0]]
    /\ resolution' = [d \in Ids |-> "none"]
    /\ arbitration' = [d \in Ids |-> {}]
    /\ unheard' = unheard \cup {d \in Ids : \E w \in Workers : jobs[w] # Free /\ jobs[w].id = d}
    /\ jobs' = [w \in Workers |-> Free]
    /\ restarts' = restarts + 1
    /\ UNCHANGED approved

-----------------------------------------------------------------------------
Next ==
    \/ \E w \in Workers, d \in Ids :
         \/ CreateDispute(w, d)
         \/ \E source \in Sources : SubmitEvidence(w, d, source)
         \/ Respond(w, d)
         \/ Withdraw(w, d)
         \/ StartReview(w, d)
         \/ Escalate(w, d)
         \/ \E r \in Resolutions : Resolve(w, d, r)
    \/ \E d \in Ids :
         \/ Assign(d) \/ AddNote(d) \/ RefusedReview(d)
         \/ \E r \in Resolutions : RefusedResolve(d, r)
    \/ \E w \in Workers, ok \in BOOLEAN : EndPublish(w, ok)
    \/ Restart

Spec == Init /\ [][Next]_vars

\* A fetch to the event bus is answered or fails.
FairSpec == Spec /\ \A w \in Workers : WF_vars(\E ok \in BOOLEAN : EndPublish(w, ok))

-----------------------------------------------------------------------------
(* Properties *)

\* Whoever decides, and however often: a dispute that was resolved keeps the
\* resolution it was resolved with, its refund is approved at most once, and
\* never before the decision is on record (arbitration.service.ts:119-199,
\* 216-231).
OneVerdict ==
    \A d \in Ids :
      /\ state[d] \in {"resolved_refund", "resolved_partial", "resolved_denied"} =>
           resolution[d] # "none" /\ ResolvedState(resolution[d]) = state[d]
      /\ approved[d] <= 1
      /\ approved[d] = 1 /\ state[d] # "lost" =>
           Pays(resolution[d]) /\ state[d] = ResolvedState(resolution[d])
           /\ "resolution_approved" \in arbitration[d]

\* A dispute the traveler gave evidence for does not stay where it waits for
\* evidence: a handler that will move it on is in flight, although it goes by
\* a state it read before its publish (dispute.handler.ts:292-323).
EvidenceMovesOn ==
    \A d \in Ids :
      state[d] = "pending_evidence" /\ evidence[d]["traveler"] > 0 =>
        \E w \in Workers : /\ jobs[w] # Free /\ jobs[w].id = d
                           /\ jobs[w].op = "evidence" /\ jobs[w].at = "EVIDENCE_SUBMITTED"
                           /\ jobs[w].seen = "pending_evidence"

\* A decision to pay leads to the approval of its refund, unless a
\* publish fails or the process ends in between
\* (arbitration.service.ts:201-231).
PaymentIsApproved ==
    \A d \in Ids :
      (state[d] \in {"resolved_refund", "resolved_partial"}) ~> (approved[d] = 1 \/ d \in unheard)
=============================================================================
