---------------------------- MODULE MatchingEngine ----------------------------
(***************************************************************************)
(* Matching of one travel request with agents: services/matching/src/      *)
(* engine/matching-engine.ts and selection.ts behind the webhook handlers  *)
(* of handlers/event-handlers.ts.                                          *)
(*                                                                         *)
(* Each webhook of the event bus is a flow of its own over the shared,     *)
(* in-memory MatchingState.  A flow runs from one await to the next: every *)
(* publish is a fetch that may take any time or throw, and a search that   *)
(* finds too few agents waits for the cooldown and tries again.  `pc' is   *)
(* the await a flow is at.  Publishes in a row with no assignment between  *)
(* them are one await.  The bus delivers at least once and in any order.   *)
(***************************************************************************)
EXTENDS Integers, Sequences, FiniteSets

CONSTANTS
    Agents,
    Stars,           \* agents of tier STAR; the others are BENCH
    MinAgents,       \* matchingConfig.minAgents
    MaxAgents,       \* matchingConfig.maxAgents
    MaxAttempts,     \* matchingConfig.maxAttempts
    BenchFallback,   \* featureFlags.benchFallback
    PeakSingle,      \* may a peak season lower the minimum to one agent?
    PublishFails,    \* may a publish throw?
    Overrides,       \* the AdminOverrideActions that admins use
    Flows,           \* bound of the model: webhooks handled at a time
    MaxObjects,      \* bound of the model: RequestCreated events of the request
    MaxEvents        \* bound of the model: events in all

ASSUME MatchingAssumption ==
    /\ IsFiniteSet(Agents) /\ Stars \subseteq Agents
    /\ MinAgents \in Nat \ {0} /\ MaxAgents \in Nat /\ MinAgents <= MaxAgents
    /\ MaxAttempts \in Nat \ {0}
    /\ {BenchFallback, PeakSingle, PublishFails} \subseteq BOOLEAN
    /\ Overrides \subseteq {"FORCE_REMATCH", "CANCEL_MATCHING"}
    /\ IsFiniteSet(Flows) /\ MaxObjects \in Nat /\ MaxEvents \in Nat

VARIABLES
    states,     \* the MatchingState objects ever made for the request
    current,    \* the one matchingStates holds, 0 if none
    flows,      \* [Flows -> what the flow has in its local variables]
    issued,     \* matches that were announced to their agents
    events,     \* events handled so far
    broken,     \* history: a publish has thrown
    forced      \* history: rematches an admin forced

vars == <<states, current, flows, issued, events, broken, forced>>

\* A match is named by the state, the attempt and the agent it was made for.
Match == Nat \X Nat \X Agents

AgentOf(m) == m[3]

Minimum(S) == CHOOSE n \in S : \A k \in S : n <= k

NewState == [status |-> "MATCHING_IN_PROGRESS", attempts |-> 0, excluded |-> {},
             active |-> {}, outcome |-> "none", matches |-> {}]

\* obj: the state captured; pool: the agents available when the event came and
\* fit for the request; initial: processRequest() rather than a rematch;
\* result: the matches found; remaining: those left after the decline;
\* todo: the timed-out matches still to be declined.
Idle == [pc |-> "idle", obj |-> 0, pool |-> {}, initial |-> FALSE,
         result |-> {}, remaining |-> 0, todo |-> {}]

\* Only the last publishes are left: of its local variables the flow needs
\* none but the timeouts still to be declined, and the pool for them.
Closing(flow) ==
    [Idle EXCEPT !.pc = "closing", !.todo = flow.todo,
                 !.pool = IF flow.todo = {} THEN {} ELSE flow.pool]

State(f) == states[flows[f].obj]

Eligible(f) == flows[f].pool \ State(f).excluded

\* Variant: a turn of the loop does not use an attempt up.
NextAttemptSame(f) == State(f).attempts

NextAttempt(f) == State(f).attempts + 1

-----------------------------------------------------------------------------
(* selection.ts *)

\* Stars first, up to the maximum; the bench only if they are too few.  The
\* order of the scores decides who of them: any.
Selections(eligible, min) ==
    LET stars == eligible \cap Stars
        bench == eligible \ Stars
        s == Minimum({MaxAgents, Cardinality(stars)})
        b == IF s < min /\ BenchFallback
             THEN Minimum({MaxAgents - s, Cardinality(bench)}) ELSE 0
    IN  {S \in SUBSET eligible :
            Cardinality(S \cap Stars) = s /\ Cardinality(S \ Stars) = b}

\* adjustedMinAgents of the season at hand.
Minima == {MinAgents} \cup (IF PeakSingle THEN {1} ELSE {})

\* What selectAgents() makes of a selection.
OutcomeOf(S, min, attempt) ==
    IF Cardinality(S) < min /\ attempt < MaxAttempts THEN "NO_AGENTS_AVAILABLE"
    ELSE IF S = {} THEN "MATCHING_FAILED"
    ELSE "AGENTS_MATCHED"

-----------------------------------------------------------------------------
Init ==
    /\ states = <<>>
    /\ current = 0
    /\ flows = [f \in Flows |-> Idle]
    /\ issued = {}
    /\ events = 0
    /\ broken = FALSE
    /\ forced = 0

\* An event comes in: a flow that handles nothing takes it.
Arrives(f) ==
    /\ flows[f] = Idle
    /\ events < MaxEvents
    /\ events' = events + 1
    /\ UNCHANGED <<issued, broken>>

\* A flow resumes from an await at pc.
Resumes(f, pc) ==
    /\ flows[f].pc = pc
    /\ UNCHANGED <<events, broken, forced>>

\* handleRequestCreated(), processRequest(): a second RequestCreated replaces
\* the state, under whatever flows still work on the first.
RequestCreated(f, pool) ==
    /\ Arrives(f)
    /\ Len(states) < MaxObjects
    /\ states' = Append(states, NewState)
    /\ current' = Len(states) + 1
    /\ flows' = [flows EXCEPT ![f] = [Idle EXCEPT !.pc = "opening", !.initial = TRUE,
                                         !.obj = Len(states) + 1, !.pool = pool]]
    /\ UNCHANGED forced

\* One turn of performMatching()'s loop, and what follows it up to an await.
Attempt(f) ==
    LET o == flows[f].obj
        attempt == NextAttempt(f)
    IN  \E min \in Minima : \E S \in Selections(Eligible(f), min) :
        LET outcome == OutcomeOf(S, min, attempt)
            found == {<<o, attempt, a>> : a \in S}
        IN  \/ /\ outcome = "NO_AGENTS_AVAILABLE"
               /\ states' = [states EXCEPT ![o] = [@ EXCEPT !.attempts = attempt]]
               /\ flows' = [flows EXCEPT ![f] = [@ EXCEPT !.pc = "cooling"]]
            \/ /\ outcome = "AGENTS_MATCHED"
               /\ states' = [states EXCEPT ![o] = [@ EXCEPT !.attempts = attempt,
                     !.outcome = outcome, !.matches = found,
                     !.active = found, !.status = "AWAITING_AGENT_RESPONSE"]]
               /\ flows' = [flows EXCEPT ![f] = [@ EXCEPT !.pc = "announcing", !.result = found]]
            \/ /\ outcome = "MATCHING_FAILED"
               /\ states' = [states EXCEPT ![o] = [@ EXCEPT !.attempts = attempt,
                     !.outcome = outcome, !.matches = {},
                     !.status = "MATCHING_FAILED"]]
               /\ flows' = [flows EXCEPT ![f] = Closing(@)]

Search(f) ==
    /\ Resumes(f, "opening")
    /\ Attempt(f)
    /\ UNCHANGED <<current, issued>>

\* The cooldown is over and no other flow has used the attempts up meanwhile.
SearchAgain(f) ==
    /\ Resumes(f, "cooling")
    /\ State(f).attempts < MaxAttempts
    /\ Attempt(f)
    /\ UNCHANGED <<current, issued>>

\* It has: the loop ends with a result that is neither.  processRequest()
\* does nothing about it, triggerRematch() has handleAllAgentsDeclined() give
\* up.  That method would rematch if attempts were left; at neither of its two
\* callers are any (here, and in AfterDecline), so that branch is never taken.
GiveUp(f) ==
    LET o == flows[f].obj
    IN  /\ Resumes(f, "cooling")
        /\ State(f).attempts >= MaxAttempts
        /\ states' = [states EXCEPT ![o] = [@ EXCEPT
              !.outcome = "NO_AGENTS_AVAILABLE", !.matches = {},
              !.status = IF flows[f].initial THEN State(f).status
                         ELSE "MATCHING_FAILED"]]
        /\ flows' = [flows EXCEPT ![f] = IF @.initial THEN Idle
                                         ELSE Closing(@)]
        /\ UNCHANGED <<current, issued>>

\* The status is published, the matches go out to their agents.
Announce(f) ==
    /\ Resumes(f, "announcing")
    /\ issued' = issued \cup flows[f].result
    /\ flows' = [flows EXCEPT ![f] = Closing(@)]
    /\ UNCHANGED <<states, current>>

\* handleAgentDecline() up to its first await.
RecordDecline(f, flow, m) ==
    LET left == states[current].active \ {m}
    IN  /\ states' = [states EXCEPT ![current] = [@ EXCEPT
              !.active = left,
              !.excluded = states[current].excluded \cup {AgentOf(m)}]]
        /\ flows' = [flows EXCEPT ![f] = [flow EXCEPT !.pc = "declined", !.obj = current,
                                             !.remaining = Cardinality(left)]]

\* A flow is done with an event, or goes on to the next match that timed out
\* and is still part of the last result.
Proceed(f, flow) ==
    LET open == IF current = 0 THEN {} ELSE flow.todo \cap states[current].matches
    IN  \/ /\ open = {}
           /\ flows' = [flows EXCEPT ![f] = Idle]
           /\ UNCHANGED states
        \/ \E m \in open : RecordDecline(f, [flow EXCEPT !.todo = @ \ {m}], m)

Decline(f, m, pool) ==
    /\ Arrives(f)
    /\ current # 0
    /\ RecordDecline(f, [Idle EXCEPT !.pool = pool], m)
    /\ UNCHANGED <<current, forced>>

\* handleMatchingTimeoutExpired() for matches of one announcement.
TimeoutExpired(f, ms, pool) ==
    /\ Arrives(f)
    /\ \A m, n \in ms : m[1] = n[1] /\ m[2] = n[2]
    /\ Proceed(f, [Idle EXCEPT !.pool = pool, !.todo = ms])
    /\ UNCHANGED <<current, forced>>

\* triggerRematch() up to its first await.
TriggerRematch(f, excluded, flow) ==
    /\ states' = [states EXCEPT ![flow.obj] = [@ EXCEPT !.active = {},
                                                         !.excluded = excluded]]
    /\ flows' = [flows EXCEPT ![f] = [flow EXCEPT !.pc = "rematching"]]

\* Variant: the attempts used up are not looked at.
AfterDeclineAlways(f) ==
    LET remaining == flows[f].remaining
        flow == [flows[f] EXCEPT !.remaining = 0]
    IN  /\ Resumes(f, "declined")
        /\ \/ remaining < MinAgents /\ TriggerRematch(f, State(f).excluded, flow)
           \/ remaining >= MinAgents /\ Proceed(f, flow)
        /\ UNCHANGED <<current, issued>>

\* Variant: the last decline, with no attempt left, is not looked at.
AfterDeclineDropsLast(f) ==
    LET remaining == flows[f].remaining
        flow == [flows[f] EXCEPT !.remaining = 0]
        requiresRematch == remaining < MinAgents
        attemptsLeft == State(f).attempts < MaxAttempts
    IN  /\ Resumes(f, "declined")
        /\ \/ /\ requiresRematch /\ attemptsLeft
              /\ TriggerRematch(f, State(f).excluded, flow)
           \/ /\ ~(requiresRematch /\ attemptsLeft)
              /\ Proceed(f, flow)
        /\ UNCHANGED <<current, issued>>

\* The decline is published: rematch, fail or carry on, by what was left then.
AfterDecline(f) ==
    LET remaining == flows[f].remaining
        flow == [flows[f] EXCEPT !.remaining = 0]
        requiresRematch == remaining < MinAgents
        attemptsLeft == State(f).attempts < MaxAttempts
    IN  /\ Resumes(f, "declined")
        /\ \/ /\ requiresRematch /\ attemptsLeft
              /\ TriggerRematch(f, State(f).excluded, flow)
           \/ /\ ~(requiresRematch /\ attemptsLeft) /\ remaining = 0
              /\ states' = [states EXCEPT ![flow.obj] = [@ EXCEPT !.status = "MATCHING_FAILED"]]
              /\ flows' = [flows EXCEPT ![f] = Closing(@)]
           \/ /\ ~(requiresRematch /\ attemptsLeft) /\ remaining # 0
              /\ Proceed(f, flow)
        /\ UNCHANGED <<current, issued>>

\* RematchInitiated is published, the status changes.
Rematch(f) ==
    /\ Resumes(f, "rematching")
    /\ states' = [states EXCEPT ![flows[f].obj] =
                     [@ EXCEPT !.status = "MATCHING_IN_PROGRESS"]]
    /\ flows' = [flows EXCEPT ![f] = [@ EXCEPT !.pc = "opening", !.initial = FALSE]]
    /\ UNCHANGED <<current, issued>>

\* The overrides of an admin that change the state; FORCE_MATCH does not.
ForceRematch(f, pool) ==
    /\ "FORCE_REMATCH" \in Overrides
    /\ Arrives(f)
    /\ current # 0
    /\ TriggerRematch(f, {}, [Idle EXCEPT !.obj = current, !.pool = pool])
    /\ forced' = forced + 1
    /\ UNCHANGED current

CancelMatching(f) ==
    /\ "CANCEL_MATCHING" \in Overrides
    /\ Arrives(f)
    /\ current # 0
    /\ states' = [states EXCEPT ![current] = [@ EXCEPT !.status = "CANCELLED"]]
    /\ flows' = [flows EXCEPT ![f] = Closing(@)]
    /\ UNCHANGED <<current, forced>>

\* The last publishes of a flow.
Close(f) ==
    /\ Resumes(f, "closing")
    /\ Proceed(f, flows[f])
    /\ UNCHANGED <<current, issued>>

\* A publish throws: the handler logs it, and the rest of the flow is not done.
PublishThrows(f) ==
    /\ PublishFails
    /\ flows[f].pc \notin {"idle", "cooling"}
    /\ flows' = [flows EXCEPT ![f] = Idle]
    /\ broken' = TRUE
    /\ UNCHANGED <<states, current, issued, events, forced>>

\* cleanupStates(): the last result is more than 24 hours old.
Cleanup ==
    /\ current # 0
    /\ states[current].outcome # "none"
    /\ current' = 0
    /\ UNCHANGED <<states, flows, issued, events, broken, forced>>

FlowStep(f) ==
    \/ Search(f) \/ SearchAgain(f) \/ GiveUp(f)
    \/ Announce(f)
    \/ AfterDecline(f) \/ Rematch(f) \/ Close(f)
    \/ PublishThrows(f)

Next ==
    \/ \E f \in Flows :
        \/ FlowStep(f)
        \/ \E pool \in SUBSET Agents :
              \/ RequestCreated(f, pool)
              \/ ForceRematch(f, pool)
              \/ \E m \in issued : Decline(f, m, pool)
              \/ \E ms \in SUBSET issued : TimeoutExpired(f, ms, pool)
        \/ CancelMatching(f)
    \/ Cleanup

Spec == Init /\ [][Next]_vars

\* Fetches settle and cooldowns end.
FairSpec == Spec /\ \A f \in Flows : WF_vars(FlowStep(f))

-----------------------------------------------------------------------------
(* Properties *)

Statuses == {"MATCHING_IN_PROGRESS", "AWAITING_AGENT_RESPONSE", "MATCHING_FAILED",
             "CANCELLED"}
Outcomes == {"none", "NO_AGENTS_AVAILABLE", "MATCHING_FAILED", "AGENTS_MATCHED"}

StateType == [status : Statuses, attempts : Nat, excluded : SUBSET Agents,
              active : SUBSET Match, outcome : Outcomes, matches : SUBSET Match]

FlowType == [pc : {"idle", "opening", "cooling", "announcing", "declined",
                   "rematching", "closing"},
             obj : 0..Len(states), pool : SUBSET Agents, initial : BOOLEAN,
             result : SUBSET Match, remaining : Nat, todo : SUBSET Match]

\* The shape of the engine's state and of its flows.
TypeOK ==
    /\ states \in Seq(StateType)
    /\ current \in 0..Len(states)
    /\ flows \in [Flows -> FlowType]
    /\ issued \subseteq Match
    /\ events \in 0..MaxEvents
    /\ broken \in BOOLEAN
    /\ forced \in Nat

\* maxAttempts is checked before the publishes of a rematch and an attempt is
\* used up after them, by flows that share the state: the searches made for a
\* state exceed the maximum only by the flows that can be past the check
\* together, and by the rematches an admin forced (handleAgentDecline(),
\* triggerRematch(), performMatching()).
AttemptsAreFew ==
    \A o \in 1..Len(states) :
        states[o].attempts <= MaxAttempts - 1 + Cardinality(Flows) + forced

AllIdle == \A f \in Flows : flows[f] = Idle

\* When every handler has ended and no publish threw, no request is left in
\* the middle of matching, one that waits has an agent to wait for, and it has
\* fewer than it should only when its attempts are used up: declines that
\* cross rematches lose nothing (handleAgentDecline(), triggerRematch(),
\* handleAllAgentsDeclined(), processRequest()).
SettledWhenIdle ==
    (AllIdle /\ ~broken) =>
        \A o \in 1..Len(states) :
            /\ states[o].status # "MATCHING_IN_PROGRESS"
            /\ states[o].status = "AWAITING_AGENT_RESPONSE" =>
                  /\ states[o].active # {}
                  /\ \/ Cardinality(states[o].active) >= Minimum(Minima)
                     \/ states[o].attempts >= MaxAttempts

\* Every handler ends: the retries of performMatching() stop, however flows
\* share the attempts of a state and replace it, and so do the rematches and
\* the timed-out matches a handler goes through.
EveryHandlerEnds == \A f \in Flows : (flows[f].pc # "idle") ~> (flows[f].pc = "idle")

=============================================================================
