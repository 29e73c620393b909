------------------------ MODULE MatchingEngineProofs ------------------------
(***************************************************************************)
(* Theorems of MatchingEngine, for any agents, limits and number of        *)
(* flows.  Every action resumes or starts one flow and writes at most one  *)
(* MatchingState; what is proved of an action is that the record of the    *)
(* flow and the state it writes are good ones, and StepKeepsInv does the   *)
(* rest once.                                                              *)
(***************************************************************************)
EXTENDS MatchingEngine, SequenceTheorems, FunctionTheorems, FiniteSetTheorems, TLAPS

FlowRecord(n) ==
    [pc : {"idle", "opening", "cooling", "announcing", "declined",
           "rematching", "closing"},
     obj : 0..n, pool : SUBSET Agents, initial : BOOLEAN,
     result : SUBSET Match, remaining : Nat, todo : SUBSET Match]

\* A flow that still has work on a state has one.
GoodFlow(fl, n) ==
    /\ fl \in FlowRecord(n)
    /\ fl.pc \notin {"idle", "closing"} => fl.obj # 0

GoodState(s) == s \in StateType /\ IsFiniteSet(s.active)

\* A later version of a state: no attempt is given back.
Follows(old, new) == new.attempts >= old.attempts

MatchingInv ==
    /\ TypeOK
    /\ \A f \in Flows : GoodFlow(flows[f], Len(states))
    /\ \A o \in 1..Len(states) : IsFiniteSet(states[o].active)

-----------------------------------------------------------------------------
(* What every action does. *)

\* One state and one flow are written, and both are good.
WritesOne(f) ==
    /\ \/ states' = states
       \/ \E o \in 1..Len(states), s \in StateType :
             /\ states' = [states EXCEPT ![o] = s]
             /\ IsFiniteSet(s.active)
             /\ Follows(states[o], s)
    /\ \E fl : GoodFlow(fl, Len(states)) /\ flows' = [flows EXCEPT ![f] = fl]

LEMMA KeepsFollow ==
    ASSUME NEW old \in StateType, NEW new, new.attempts \in {old.attempts, old.attempts + 1}
    PROVE  Follows(old, new)
<1>1. old.attempts \in Nat
  BY DEF StateType
<1> QED
  BY <1>1 DEF Follows

\* An action that writes a good state and a good flow keeps the invariant, and
\* gives no attempt back.
LEMMA StepKeepsInv ==
    ASSUME MatchingInv, NEW f \in Flows, WritesOne(f),
           current' \in 0..Len(states), issued' \subseteq Match,
           events' \in 0..MaxEvents, broken' \in BOOLEAN, forced' \in Nat
    PROVE  /\ MatchingInv'
           /\ \A o \in 1..Len(states) : Follows(states[o], states'[o])
<1>1. /\ states' \in Seq(StateType) /\ Len(states') = Len(states)
      /\ \A o \in 1..Len(states) : /\ IsFiniteSet(states'[o].active)
                                   /\ Follows(states[o], states'[o])
  <2>1. /\ states \in Seq(StateType)
        /\ \A o \in 1..Len(states) : Follows(states[o], states[o])
    BY ElementOfSeq, KeepsFollow DEF MatchingInv, TypeOK
  <2>2. CASE states' = states
    BY <2>1, <2>2 DEF MatchingInv
  <2>3. ASSUME NEW o \in 1..Len(states), NEW s \in StateType,
               states' = [states EXCEPT ![o] = s],
               IsFiniteSet(s.active), Follows(states[o], s)
        PROVE  <1>1
    <3>1. /\ states' \in Seq(StateType) /\ Len(states') = Len(states)
          /\ \A j \in 1..Len(states) : states'[j] = IF j = o THEN s ELSE states[j]
      BY <2>1, <2>3, ExceptSeq
    <3>2. ASSUME NEW j \in 1..Len(states)
          PROVE  /\ IsFiniteSet(states'[j].active)
                 /\ Follows(states[j], states'[j])
      <4>1. CASE j = o
        BY <3>1, <2>3, <4>1
      <4>2. CASE j # o
        BY <2>1, <3>1, <4>2 DEF MatchingInv
      <4> QED
        BY <4>1, <4>2
    <3> QED
      BY <3>1, <3>2
  <2> QED
    BY <2>2, <2>3 DEF WritesOne
<1>2. PICK fl : GoodFlow(fl, Len(states)) /\ flows' = [flows EXCEPT ![f] = fl]
  BY DEF WritesOne
<1>3. flows' \in [Flows -> FlowRecord(Len(states))]
  BY <1>2 DEF MatchingInv, TypeOK, FlowType, FlowRecord, GoodFlow
<1>4. \A g \in Flows : GoodFlow(flows'[g], Len(states))
  BY <1>2 DEF MatchingInv, TypeOK
<1>5. TypeOK'
  BY <1>1, <1>3 DEF TypeOK, FlowType, FlowRecord
<1> QED
  BY <1>1, <1>4, <1>5 DEF MatchingInv


\* A flow that is done, or has only its last publishes left, is a good one.
LEMMA GoodFlows ==
    ASSUME NEW n \in Nat
    PROVE  /\ GoodFlow(Idle, n)
           /\ \A fl \in FlowRecord(n) : GoodFlow(Closing(fl), n)
<1>1. Idle \in FlowRecord(n) /\ Idle.pc = "idle"
  BY DEF FlowRecord, Idle
<1>2. ASSUME NEW fl \in FlowRecord(n) PROVE GoodFlow(Closing(fl), n)
  <2> DEFINE pool == IF fl.todo = {} THEN {} ELSE fl.pool
             todo == fl.todo
  <2>1. todo \in SUBSET Match /\ pool \in SUBSET Agents
    BY DEF FlowRecord
  <2>2. Closing(fl) = [Idle EXCEPT !.pc = "closing", !.todo = todo, !.pool = pool]
    BY DEF Closing
  <2> HIDE DEF pool, todo
  <2>3. Closing(fl) \in FlowRecord(n) /\ Closing(fl).pc = "closing"
    BY <1>1, <2>1, <2>2 DEF FlowRecord
  <2> QED
    BY <2>3 DEF GoodFlow
<1> QED
  BY <1>1, <1>2 DEF GoodFlow

\* A flow that announces what it found is a good one.
LEMMA AnnouncingIsGood ==
    ASSUME NEW n \in Nat, NEW fl \in FlowRecord(n), fl.obj # 0, NEW R \in SUBSET Match
    PROVE  GoodFlow([fl EXCEPT !.pc = "announcing", !.result = R], n)
  BY DEF GoodFlow, FlowRecord

\* A flow that publishes a decline is a good one.
LEMMA DeclinedIsGood ==
    ASSUME NEW n \in Nat, NEW fl \in FlowRecord(n), NEW o \in 1..n, NEW k \in Nat
    PROVE  GoodFlow([fl EXCEPT !.pc = "declined", !.obj = o, !.remaining = k], n)
<1> DEFINE new == [fl EXCEPT !.pc = "declined", !.obj = o, !.remaining = k]
<1>1. o \in 0..n /\ o # 0
  OBVIOUS
<1>2. new \in FlowRecord(n)
  BY <1>1 DEF FlowRecord
<1>3. new.obj = o
  BY DEF FlowRecord
<1> QED
  BY <1>1, <1>2, <1>3 DEF GoodFlow

\* What is known where an action starts.
LEMMA Known ==
    ASSUME MatchingInv
    PROVE  /\ Len(states) \in Nat
           /\ \A f \in Flows : flows[f] \in FlowRecord(Len(states))
           /\ \A f \in Flows : flows[f].pc \notin {"idle", "closing"} =>
                 flows[f].obj \in 1..Len(states)
           /\ \A o \in 1..Len(states) : GoodState(states[o])
           /\ current \in 0..Len(states)
           /\ current # 0 => current \in 1..Len(states)
<1>1. states \in Seq(StateType) /\ Len(states) \in Nat
  BY LenProperties DEF MatchingInv, TypeOK
<1>2. \A o \in 1..Len(states) : GoodState(states[o])
  BY <1>1, ElementOfSeq DEF MatchingInv, GoodState
<1> QED
  BY <1>1, <1>2 DEF MatchingInv, GoodFlow, FlowRecord, TypeOK

\* The matches made for a set of agents are one each, so as many as they.
LEMMA FoundAreAsMany ==
    ASSUME NEW o, NEW n, NEW S \in SUBSET Agents,
           NEW found, found = {<<o, n, a>> : a \in S}
    PROVE  ExistsBijection(S, found)
<1> DEFINE make == [a \in S |-> <<o, n, a>>]
<1>1. make \in [S -> found] /\ \A t \in found : \E a \in S : make[a] = t
  OBVIOUS
<1>2. \A a, b \in S : make[a] = make[b] => a = b
  OBVIOUS
<1>3. make \in Bijection(S, found)
  BY <1>1, <1>2, Fun_IsBij
<1> QED
  BY <1>3 DEF ExistsBijection

LEMMA FoundIsFinite ==
    ASSUME NEW o, NEW n, NEW S \in SUBSET Agents
    PROVE  IsFiniteSet({<<o, n, a>> : a \in S})
<1>1. ExistsBijection(S, {<<o, n, a>> : a \in S})
  BY FoundAreAsMany
<1>2. IsFiniteSet(S)
  BY MatchingAssumption, FS_Subset
<1> QED
  BY <1>1, <1>2, FS_Bijection

\* The three ways a turn of the search ends, with the agents it selected: enough
\* or all there will be if they are matched (performMatching(), selectAgents()).
LEMMA AttemptCases ==
    ASSUME MatchingInv, NEW f \in Flows, flows[f].pc \in {"opening", "cooling"},
           Attempt(f)
    PROVE  LET o == flows[f].obj
               attempt == State(f).attempts + 1
               found(S) == {<<o, attempt, a>> : a \in S}
           IN  \E S \in SUBSET Agents :
                 \/ /\ attempt < MaxAttempts
                    /\ states' = [states EXCEPT ![o] = [@ EXCEPT !.attempts = attempt]]
                    /\ flows' = [flows EXCEPT ![f] = [@ EXCEPT !.pc = "cooling"]]
                 \/ /\ S # {}
                    /\ \/ \E min \in Minima : Cardinality(S) >= min
                       \/ attempt >= MaxAttempts
                    /\ states' = [states EXCEPT ![o] = [@ EXCEPT !.attempts = attempt,
                          !.outcome = "AGENTS_MATCHED", !.matches = found(S),
                          !.active = found(S), !.status = "AWAITING_AGENT_RESPONSE"]]
                    /\ flows' = [flows EXCEPT ![f] = [@ EXCEPT !.pc = "announcing",
                                                               !.result = found(S)]]
                 \/ /\ states' = [states EXCEPT ![o] = [@ EXCEPT !.attempts = attempt,
                          !.outcome = "MATCHING_FAILED", !.matches = {},
                          !.status = "MATCHING_FAILED"]]
                    /\ flows' = [flows EXCEPT ![f] = Closing(@)]
<1> DEFINE o == flows[f].obj
           attempt == State(f).attempts + 1
           found(S) == {<<o, attempt, a>> : a \in S}
<1>1. /\ o \in 1..Len(states) /\ GoodState(states[o])
      /\ flows[f] \in FlowRecord(Len(states)) /\ MaxAttempts \in Nat
  BY Known, MatchingAssumption
<1>2. attempt \in Nat /\ Minima \subseteq Nat
  BY <1>1, MatchingAssumption DEF State, GoodState, StateType, Minima
<1>3. PICK min \in Minima : \E S \in Selections(Eligible(f), min) :
        LET outcome == OutcomeOf(S, min, attempt)
        IN  \/ /\ outcome = "NO_AGENTS_AVAILABLE"
               /\ states' = [states EXCEPT ![o] = [@ EXCEPT !.attempts = attempt]]
               /\ flows' = [flows EXCEPT ![f] = [@ EXCEPT !.pc = "cooling"]]
            \/ /\ outcome = "AGENTS_MATCHED"
               /\ states' = [states EXCEPT ![o] = [@ EXCEPT !.attempts = attempt,
                     !.outcome = outcome, !.matches = found(S),
                     !.active = found(S), !.status = "AWAITING_AGENT_RESPONSE"]]
               /\ flows' = [flows EXCEPT ![f] = [@ EXCEPT !.pc = "announcing",
                                                          !.result = found(S)]]
            \/ /\ outcome = "MATCHING_FAILED"
               /\ states' = [states EXCEPT ![o] = [@ EXCEPT !.attempts = attempt,
                     !.outcome = outcome, !.matches = {},
                     !.status = "MATCHING_FAILED"]]
               /\ flows' = [flows EXCEPT ![f] = Closing(@)]
  BY DEF Attempt, NextAttempt
<1>4. PICK S \in Selections(Eligible(f), min) :
            \/ /\ OutcomeOf(S, min, attempt) = "NO_AGENTS_AVAILABLE"
               /\ states' = [states EXCEPT ![o] = [@ EXCEPT !.attempts = attempt]]
               /\ flows' = [flows EXCEPT ![f] = [@ EXCEPT !.pc = "cooling"]]
            \/ /\ OutcomeOf(S, min, attempt) = "AGENTS_MATCHED"
               /\ states' = [states EXCEPT ![o] = [@ EXCEPT !.attempts = attempt,
                     !.outcome = "AGENTS_MATCHED", !.matches = found(S),
                     !.active = found(S), !.status = "AWAITING_AGENT_RESPONSE"]]
               /\ flows' = [flows EXCEPT ![f] = [@ EXCEPT !.pc = "announcing",
                                                          !.result = found(S)]]
            \/ /\ states' = [states EXCEPT ![o] = [@ EXCEPT !.attempts = attempt,
                     !.outcome = "MATCHING_FAILED", !.matches = {},
                     !.status = "MATCHING_FAILED"]]
               /\ flows' = [flows EXCEPT ![f] = Closing(@)]
  BY <1>3
<1>5. S \in SUBSET Agents
  BY <1>1 DEF Selections, Eligible, State, FlowRecord
<1>6. Cardinality(S) \in Nat
  BY <1>5, MatchingAssumption, FS_Subset, FS_CardinalityType
<1>7. OutcomeOf(S, min, attempt) = "NO_AGENTS_AVAILABLE" => attempt < MaxAttempts
  BY DEF OutcomeOf
<1>8. OutcomeOf(S, min, attempt) = "AGENTS_MATCHED" =>
         S # {} /\ (Cardinality(S) >= min \/ attempt >= MaxAttempts)
  <2>1. min \in Nat
    BY <1>2
  <2> QED
    BY <1>1, <1>2, <1>6, <2>1 DEF OutcomeOf
<1> HIDE DEF o, attempt, found
<1>9. \E T \in SUBSET Agents :
         \/ /\ attempt < MaxAttempts
            /\ states' = [states EXCEPT ![o] = [@ EXCEPT !.attempts = attempt]]
            /\ flows' = [flows EXCEPT ![f] = [@ EXCEPT !.pc = "cooling"]]
         \/ /\ T # {}
            /\ (\E n \in Minima : Cardinality(T) >= n) \/ attempt >= MaxAttempts
            /\ states' = [states EXCEPT ![o] = [@ EXCEPT !.attempts = attempt,
                  !.outcome = "AGENTS_MATCHED", !.matches = found(T),
                  !.active = found(T), !.status = "AWAITING_AGENT_RESPONSE"]]
            /\ flows' = [flows EXCEPT ![f] = [@ EXCEPT !.pc = "announcing",
                                                       !.result = found(T)]]
         \/ /\ states' = [states EXCEPT ![o] = [@ EXCEPT !.attempts = attempt,
                  !.outcome = "MATCHING_FAILED", !.matches = {},
                  !.status = "MATCHING_FAILED"]]
            /\ flows' = [flows EXCEPT ![f] = Closing(@)]
  BY <1>4, <1>5, <1>7, <1>8
<1> QED
  BY <1>9 DEF o, attempt, found

\* A turn of the search writes the state it searched for (performMatching()).
LEMMA AttemptWrites ==
    ASSUME MatchingInv, NEW f \in Flows, flows[f].pc \in {"opening", "cooling"},
           Attempt(f)
    PROVE  WritesOne(f)
<1> DEFINE o == flows[f].obj
           attempt == State(f).attempts + 1
           found(S) == {<<o, attempt, a>> : a \in S}
<1>1. /\ o \in 1..Len(states) /\ GoodState(states[o]) /\ Len(states) \in Nat
      /\ flows[f] \in FlowRecord(Len(states))
  BY Known
<1>2. attempt \in Nat /\ attempt = states[o].attempts + 1 /\ attempt >= states[o].attempts
  BY <1>1 DEF State, GoodState, StateType
<1>3. PICK S \in SUBSET Agents :
         \/ /\ states' = [states EXCEPT ![o] = [@ EXCEPT !.attempts = attempt]]
            /\ flows' = [flows EXCEPT ![f] = [@ EXCEPT !.pc = "cooling"]]
         \/ /\ states' = [states EXCEPT ![o] = [@ EXCEPT !.attempts = attempt,
                  !.outcome = "AGENTS_MATCHED", !.matches = found(S),
                  !.active = found(S), !.status = "AWAITING_AGENT_RESPONSE"]]
            /\ flows' = [flows EXCEPT ![f] = [@ EXCEPT !.pc = "announcing",
                                                       !.result = found(S)]]
         \/ /\ states' = [states EXCEPT ![o] = [@ EXCEPT !.attempts = attempt,
                  !.outcome = "MATCHING_FAILED", !.matches = {},
                  !.status = "MATCHING_FAILED"]]
            /\ flows' = [flows EXCEPT ![f] = Closing(@)]
  BY AttemptCases
<1>5. found(S) \in SUBSET Match /\ IsFiniteSet(found(S))
  <2>1. o \in Nat
    BY <1>1
  <2>2. found(S) \in SUBSET Match
    BY <2>1, <1>2 DEF Match
  <2> QED
    BY <2>2, FoundIsFinite
<1>6. CASE /\ states' = [states EXCEPT ![o] = [@ EXCEPT !.attempts = attempt]]
           /\ flows' = [flows EXCEPT ![f] = [@ EXCEPT !.pc = "cooling"]]
  <2> DEFINE s == [states[o] EXCEPT !.attempts = attempt]
             fl == [flows[f] EXCEPT !.pc = "cooling"]
  <2>1. s \in StateType /\ IsFiniteSet(s.active) /\ Follows(states[o], s)
    <3>1. /\ s \in StateType /\ s.active = states[o].active
          /\ s.attempts = states[o].attempts + 1
      BY <1>1, <1>2 DEF GoodState, StateType
    <3> HIDE DEF s
    <3> QED
      BY <1>1, <3>1, KeepsFollow DEF GoodState
  <2>2. GoodFlow(fl, Len(states))
    BY <1>1 DEF GoodFlow, FlowRecord
  <2> QED
    BY <1>1, <1>6, <2>1, <2>2 DEF WritesOne
<1>7. CASE /\ states' = [states EXCEPT ![o] = [@ EXCEPT !.attempts = attempt,
                     !.outcome = "AGENTS_MATCHED", !.matches = found(S),
                     !.active = found(S), !.status = "AWAITING_AGENT_RESPONSE"]]
           /\ flows' = [flows EXCEPT ![f] = [@ EXCEPT !.pc = "announcing",
                                                      !.result = found(S)]]
  <2> DEFINE s == [states[o] EXCEPT !.attempts = attempt,
                     !.outcome = "AGENTS_MATCHED", !.matches = found(S),
                     !.active = found(S), !.status = "AWAITING_AGENT_RESPONSE"]
             fl == [flows[f] EXCEPT !.pc = "announcing", !.result = found(S)]
  <2>1. s \in StateType /\ s.active = found(S) /\ s.attempts = attempt
    BY <1>1, <1>2, <1>5 DEF GoodState, StateType, Statuses, Outcomes
  <2>2. IsFiniteSet(s.active) /\ Follows(states[o], s)
    BY <2>1, <1>2, <1>5 DEF Follows
  <2>3. GoodFlow(fl, Len(states))
    <3>1. o # 0
      BY <1>1
    <3> HIDE DEF found
    <3> QED
      BY <1>1, <1>5, <3>1, AnnouncingIsGood
  <2> QED
    BY <1>1, <1>7, <2>1, <2>2, <2>3 DEF WritesOne
<1>8. CASE /\ states' = [states EXCEPT ![o] = [@ EXCEPT !.attempts = attempt,
                     !.outcome = "MATCHING_FAILED", !.matches = {},
                     !.status = "MATCHING_FAILED"]]
           /\ flows' = [flows EXCEPT ![f] = Closing(@)]
  <2> DEFINE s == [states[o] EXCEPT !.attempts = attempt,
                     !.outcome = "MATCHING_FAILED", !.matches = {},
                     !.status = "MATCHING_FAILED"]
  <2>1. s \in StateType /\ IsFiniteSet(s.active) /\ Follows(states[o], s)
    <3>1. /\ s \in StateType /\ s.active = states[o].active
          /\ s.attempts = states[o].attempts + 1
      BY <1>1, <1>2 DEF GoodState, StateType, Statuses, Outcomes
    <3> HIDE DEF s
    <3> QED
      BY <1>1, <3>1, KeepsFollow DEF GoodState
  <2>2. GoodFlow(Closing(flows[f]), Len(states))
    BY <1>1, GoodFlows
  <2> QED
    BY <1>1, <1>8, <2>1, <2>2 DEF WritesOne
<1> QED
  BY <1>3, <1>6, <1>7, <1>8

\* A decline takes a match away and adds to the exclusions
\* (handleAgentDecline() up to its publish).
LEMMA RecordDeclineWrites ==
    ASSUME MatchingInv, NEW f \in Flows, NEW flow \in FlowRecord(Len(states)),
           NEW m \in Match, current # 0, RecordDecline(f, flow, m)
    PROVE  WritesOne(f)
<1> DEFINE left == states[current].active \ {m}
           s == [states[current] EXCEPT
                   !.active = left,
                   !.excluded = states[current].excluded \cup {AgentOf(m)}]
           fl == [flow EXCEPT !.pc = "declined", !.obj = current,
                              !.remaining = Cardinality(left)]
<1>1. /\ current \in 1..Len(states) /\ GoodState(states[current])
      /\ Len(states) \in Nat
  BY Known
<1>2. left \in SUBSET Match /\ IsFiniteSet(left) /\ Cardinality(left) \in Nat
  BY <1>1, FS_RemoveElement, FS_CardinalityType DEF GoodState, StateType
<1>3. AgentOf(m) \in Agents
  BY DEF AgentOf, Match
<1>4. s \in StateType /\ IsFiniteSet(s.active) /\ Follows(states[current], s)
  <2>1. /\ s \in StateType /\ s.active = left /\ s.attempts = states[current].attempts
    BY <1>1, <1>2, <1>3 DEF GoodState, StateType
  <2> HIDE DEF s, left
  <2> QED
    BY <1>1, <1>2, <2>1, KeepsFollow DEF GoodState
<1>5. GoodFlow(fl, Len(states))
  <2> HIDE DEF left
  <2> QED
    BY <1>1, <1>2, DeclinedIsGood
<1>6. /\ states' = [states EXCEPT ![current] = s]
      /\ flows' = [flows EXCEPT ![f] = fl]
  BY DEF RecordDecline
<1> QED
  BY <1>1, <1>4, <1>5, <1>6 DEF WritesOne

LEMMA ProceedWrites ==
    ASSUME MatchingInv, NEW f \in Flows, NEW flow \in FlowRecord(Len(states)),
           Proceed(f, flow)
    PROVE  WritesOne(f)
<1> DEFINE open == IF current = 0 THEN {} ELSE flow.todo \cap states[current].matches
<1>1. Len(states) \in Nat
  BY Known
<1>2. CASE states' = states /\ flows' = [flows EXCEPT ![f] = Idle]
  BY <1>1, <1>2, GoodFlows DEF WritesOne
<1>3. ASSUME NEW m \in open, RecordDecline(f, [flow EXCEPT !.todo = @ \ {m}], m)
      PROVE  WritesOne(f)
  <2>1. current # 0 /\ m \in Match
    BY DEF FlowRecord
  <2>2. [flow EXCEPT !.todo = @ \ {m}] \in FlowRecord(Len(states))
    BY DEF FlowRecord
  <2> QED
    BY <2>1, <2>2, <1>3, RecordDeclineWrites
<1> QED
  BY <1>2, <1>3 DEF Proceed

LEMMA TriggerRematchWrites ==
    ASSUME MatchingInv, NEW f \in Flows, NEW flow \in FlowRecord(Len(states)),
           NEW excluded \in SUBSET Agents, flow.obj # 0,
           TriggerRematch(f, excluded, flow)
    PROVE  WritesOne(f)
<1> DEFINE s == [states[flow.obj] EXCEPT !.active = {}, !.excluded = excluded]
           fl == [flow EXCEPT !.pc = "rematching"]
<1>1. Len(states) \in Nat /\ flow.obj \in 1..Len(states) /\ GoodState(states[flow.obj])
  <2>1. Len(states) \in Nat
    BY Known
  <2>2. flow.obj \in 1..Len(states)
    BY <2>1 DEF FlowRecord
  <2> QED
    BY <2>1, <2>2, Known
<1>2. s \in StateType /\ IsFiniteSet(s.active) /\ Follows(states[flow.obj], s)
  <2>1. s \in StateType /\ s.active = {} /\ s.attempts = states[flow.obj].attempts
    BY <1>1 DEF GoodState, StateType
  <2> HIDE DEF s
  <2> QED
    BY <1>1, <2>1, FS_EmptySet, KeepsFollow DEF GoodState
<1>3. GoodFlow(fl, Len(states))
  BY <1>1 DEF GoodFlow, FlowRecord
<1> QED
  BY <1>1, <1>2, <1>3 DEF WritesOne, TriggerRematch

\* A status, an outcome or the last matches change; active matches do not.
LEMMA StatusWrites ==
    ASSUME MatchingInv, NEW f \in Flows, NEW fl, GoodFlow(fl, Len(states)),
           flows' = [flows EXCEPT ![f] = fl],
           NEW o \in 1..Len(states), NEW s \in StateType,
           s.active = states[o].active, s.attempts = states[o].attempts,
           states' = [states EXCEPT ![o] = s]
    PROVE  WritesOne(f)
<1>1. s.attempts \in Nat
  BY DEF StateType
<1>2. IsFiniteSet(s.active) /\ Follows(states[o], s)
  BY <1>1 DEF MatchingInv, Follows
<1> QED
  BY <1>2 DEF WritesOne

-----------------------------------------------------------------------------
(* The actions. *)

\* What an action leaves of everything but its state and its flow.
Frame ==
    /\ current' \in 0..Len(states) /\ issued' \subseteq Match
    /\ events' \in 0..MaxEvents /\ broken' \in BOOLEAN /\ forced' \in Nat

LEMMA ArrivesWrites ==
    ASSUME MatchingInv, NEW f \in Flows, Arrives(f), UNCHANGED current,
           forced' \in {forced, forced + 1},
           NEW pool \in SUBSET Agents
    PROVE  /\ Frame
           /\ [Idle EXCEPT !.pool = pool] \in FlowRecord(Len(states))
           /\ \A ms \in SUBSET Match :
                 [Idle EXCEPT !.pool = pool, !.todo = ms] \in FlowRecord(Len(states))
           /\ \A o \in 1..Len(states) :
                 /\ [Idle EXCEPT !.obj = o, !.pool = pool] \in FlowRecord(Len(states))
                 /\ [Idle EXCEPT !.obj = o, !.pool = pool].obj # 0
<1>1. Frame
  <2>1. MaxEvents \in Nat /\ events \in 0..MaxEvents
    BY MatchingAssumption DEF MatchingInv, TypeOK
  <2>2. events' \in 0..MaxEvents
    BY <2>1 DEF Arrives
  <2> QED
    BY <2>2 DEF Frame, Arrives, MatchingInv, TypeOK
<1>2. Len(states) \in Nat /\ Idle \in FlowRecord(Len(states))
  BY Known, GoodFlows DEF GoodFlow
<1>3. [Idle EXCEPT !.pool = pool] \in FlowRecord(Len(states))
  BY <1>2 DEF FlowRecord
<1>4. ASSUME NEW ms \in SUBSET Match
      PROVE  [Idle EXCEPT !.pool = pool, !.todo = ms] \in FlowRecord(Len(states))
  BY <1>2 DEF FlowRecord
<1>5. ASSUME NEW o \in 1..Len(states)
      PROVE  /\ [Idle EXCEPT !.obj = o, !.pool = pool] \in FlowRecord(Len(states))
             /\ [Idle EXCEPT !.obj = o, !.pool = pool].obj # 0
  <2> DEFINE fl == [Idle EXCEPT !.obj = o, !.pool = pool]
  <2>1. o \in 0..Len(states) /\ o # 0
    BY <1>2
  <2>2. fl \in FlowRecord(Len(states))
    BY <1>2, <2>1 DEF FlowRecord
  <2>3. fl.obj = o
    BY <1>2 DEF FlowRecord
  <2> QED
    BY <2>1, <2>2, <2>3
<1> QED
  BY <1>1, <1>3, <1>4, <1>5

\* The steps of a flow that resumes from an await.
LEMMA FlowStepWrites ==
    ASSUME MatchingInv, NEW f \in Flows, FlowStep(f)
    PROVE  WritesOne(f) /\ Frame
<1> DEFINE n == Len(states)
<1>1. /\ n \in Nat /\ flows[f] \in FlowRecord(n)
      /\ GoodFlow(Idle, n) /\ GoodFlow(Closing(flows[f]), n)
  BY Known, GoodFlows
<1>2. Frame
  <2>1. /\ UNCHANGED <<current, events, forced>> /\ broken' \in {broken, TRUE}
        /\ issued' = issued \/ issued' = issued \cup flows[f].result
    BY DEF FlowStep, Search, SearchAgain, GiveUp, Announce, AfterDecline, Rematch,
           Close, PublishThrows, Resumes
  <2>2. issued' \subseteq Match
    BY <1>1, <2>1 DEF FlowRecord, MatchingInv, TypeOK
  <2> QED
    BY <2>1, <2>2 DEF Frame, MatchingInv, TypeOK
<1>3. CASE Search(f) \/ SearchAgain(f)
  BY <1>2, <1>3, AttemptWrites DEF Search, SearchAgain, Resumes
<1>4. CASE GiveUp(f)
  <2> DEFINE o == flows[f].obj
             status == IF flows[f].initial THEN State(f).status ELSE "MATCHING_FAILED"
             s == [states[o] EXCEPT !.outcome = "NO_AGENTS_AVAILABLE", !.matches = {},
                                    !.status = status]
             fl == IF flows[f].initial THEN Idle ELSE Closing(flows[f])
  <2>1. o \in 1..n /\ GoodState(states[o])
    BY <1>4, Known DEF GiveUp, Resumes
  <2>2. status \in Statuses
    BY <2>1 DEF State, GoodState, StateType, Statuses
  <2>3. states' = [states EXCEPT ![o] = s] /\ flows' = [flows EXCEPT ![f] = fl]
    BY <1>4 DEF GiveUp
  <2>4. /\ s \in StateType /\ s.active = states[o].active
        /\ s.attempts = states[o].attempts
    <3> HIDE DEF status
    <3> QED
      BY <2>1, <2>2 DEF GoodState, StateType, Outcomes
  <2>5. GoodFlow(fl, n)
    BY <1>1
  <2> HIDE DEF s, fl
  <2> QED
    BY <1>2, <2>1, <2>3, <2>4, <2>5, StatusWrites
<1>5. CASE Announce(f)
  BY <1>1, <1>2, <1>5 DEF Announce, WritesOne
<1>6. CASE AfterDecline(f)
  <2> DEFINE flow == [flows[f] EXCEPT !.remaining = 0]
             s == [states[flow.obj] EXCEPT !.status = "MATCHING_FAILED"]
  <2>1. /\ flows[f].obj \in 1..n /\ GoodState(State(f))
        /\ State(f).excluded \in SUBSET Agents
    BY <1>6, Known DEF AfterDecline, Resumes, State, GoodState, StateType
  <2>2. flow \in FlowRecord(n) /\ flow.obj = flows[f].obj /\ flow.obj # 0
    BY <1>1, <2>1 DEF FlowRecord
  <2>3. \/ TriggerRematch(f, State(f).excluded, flow)
        \/ /\ states' = [states EXCEPT ![flow.obj] = s]
           /\ flows' = [flows EXCEPT ![f] = Closing(flows[f])]
        \/ Proceed(f, flow)
    BY <1>6 DEF AfterDecline
  <2>4. CASE TriggerRematch(f, State(f).excluded, flow)
    BY <2>1, <2>2, <2>4, <1>2, TriggerRematchWrites
  <2>5. CASE /\ states' = [states EXCEPT ![flow.obj] = s]
             /\ flows' = [flows EXCEPT ![f] = Closing(flows[f])]
    <3>1. /\ s \in StateType /\ s.active = states[flow.obj].active
          /\ s.attempts = states[flow.obj].attempts
      BY <2>1, <2>2 DEF State, GoodState, StateType, Statuses
    <3> QED
      BY <2>1, <2>2, <2>5, <3>1, <1>1, <1>2, StatusWrites
  <2>6. CASE Proceed(f, flow)
    BY <2>2, <2>6, <1>2, ProceedWrites
  <2> QED
    BY <2>3, <2>4, <2>5, <2>6
<1>7. CASE Rematch(f)
  <2> DEFINE o == flows[f].obj
             s == [states[o] EXCEPT !.status = "MATCHING_IN_PROGRESS"]
             fl == [flows[f] EXCEPT !.pc = "opening", !.initial = FALSE]
  <2>1. o \in 1..n /\ GoodState(states[o])
    BY <1>7, Known DEF Rematch, Resumes
  <2>2. /\ s \in StateType /\ s.active = states[o].active
        /\ s.attempts = states[o].attempts
    BY <2>1 DEF GoodState, StateType, Statuses
  <2>3. GoodFlow(fl, n)
    <3>1. fl \in FlowRecord(n)
      BY <1>1 DEF FlowRecord
    <3>2. fl.obj = o /\ o # 0
      BY <1>1, <2>1 DEF FlowRecord
    <3> QED
      BY <3>1, <3>2 DEF GoodFlow
  <2> QED
    BY <1>2, <1>7, <2>1, <2>2, <2>3, StatusWrites DEF Rematch
<1>8. CASE Close(f)
  BY <1>1, <1>2, <1>8, ProceedWrites DEF Close
<1>9. CASE PublishThrows(f)
  BY <1>1, <1>2, <1>9 DEF PublishThrows, WritesOne
<1> QED
  BY <1>2, <1>3, <1>4, <1>5, <1>6, <1>7, <1>8, <1>9 DEF FlowStep

\* A repeated RequestCreated puts a new state beside those that flows hold.
LEMMA RequestCreatedKeepsInv ==
    ASSUME MatchingInv, NEW f \in Flows, NEW pool \in SUBSET Agents,
           RequestCreated(f, pool)
    PROVE  /\ MatchingInv'
           /\ \A o \in 1..Len(states) : states'[o] = states[o]
<1> DEFINE n == Len(states)
           fl == [Idle EXCEPT !.pc = "opening", !.initial = TRUE,
                              !.obj = n + 1, !.pool = pool]
<1>1. n \in Nat /\ states \in Seq(StateType)
  BY Known DEF MatchingInv, TypeOK
<1>2. NewState \in StateType /\ IsFiniteSet(NewState.active)
  BY FS_EmptySet DEF NewState, StateType, Statuses, Outcomes
<1>3. /\ states' = Append(states, NewState) /\ current' = n + 1
      /\ flows' = [flows EXCEPT ![f] = fl]
      /\ events' \in 0..MaxEvents /\ UNCHANGED <<issued, broken, forced>>
  <2>1. MaxEvents \in Nat /\ events \in 0..MaxEvents
    BY MatchingAssumption DEF MatchingInv, TypeOK
  <2> QED
    BY <2>1 DEF RequestCreated, Arrives
<1>4. /\ states' \in Seq(StateType) /\ Len(states') = n + 1
      /\ \A o \in 1..n : states'[o] = states[o]
      /\ states'[n + 1] = NewState
  BY <1>1, <1>2, <1>3, AppendProperties
<1>5. GoodFlow(fl, n + 1)
  <2>1. Idle \in FlowRecord(n + 1) /\ n + 1 \in 0..(n + 1) /\ n + 1 # 0
    BY <1>1, GoodFlows DEF GoodFlow
  <2>2. fl \in FlowRecord(n + 1)
    BY <2>1 DEF FlowRecord
  <2>3. fl.obj = n + 1
    BY <2>1 DEF FlowRecord
  <2> QED
    BY <2>1, <2>2, <2>3 DEF GoodFlow
<1>6. \A g \in Flows : GoodFlow(flows'[g], n + 1)
  <2>1. ASSUME NEW g \in Flows, g # f PROVE GoodFlow(flows'[g], n + 1)
    <3>1. flows'[g] = flows[g]
      BY <1>3, <2>1 DEF MatchingInv, TypeOK
    <3>2. GoodFlow(flows[g], n) /\ FlowRecord(n) \subseteq FlowRecord(n + 1)
      BY <1>1 DEF MatchingInv, FlowRecord
    <3> QED
      BY <3>1, <3>2 DEF GoodFlow
  <2>2. flows'[f] = fl
    BY <1>3 DEF MatchingInv, TypeOK
  <2> QED
    BY <2>1, <2>2, <1>5
<1>7. flows' \in [Flows -> FlowRecord(n + 1)]
  <2>1. DOMAIN flows' = Flows /\ flows' = [g \in Flows |-> flows'[g]]
    BY <1>3 DEF MatchingInv, TypeOK
  <2> QED
    BY <2>1, <1>6 DEF GoodFlow
<1>8. TypeOK'
  BY <1>1, <1>3, <1>4, <1>7 DEF TypeOK, FlowType, FlowRecord, MatchingInv
<1>9. \A o \in 1..(n + 1) : IsFiniteSet(states'[o].active)
  <2>1. ASSUME NEW o \in 1..(n + 1) PROVE o \in 1..n \/ o = n + 1
    BY <1>1
  <2> QED
    BY <2>1, <1>2, <1>4 DEF MatchingInv
<1> QED
  BY <1>4, <1>6, <1>8, <1>9 DEF MatchingInv

\* Every step keeps the invariant and gives no attempt back.
LEMMA NextKeepsInv ==
    ASSUME MatchingInv, [Next]_vars
    PROVE  /\ MatchingInv'
           /\ \A o \in 1..Len(states) : Follows(states[o], states'[o])
<1> DEFINE Goal == /\ MatchingInv'
                   /\ \A o \in 1..Len(states) : Follows(states[o], states'[o])
<1>0. \A o \in 1..Len(states) : Follows(states[o], states[o])
  BY Known, KeepsFollow DEF GoodState
<1>1. ASSUME NEW f \in Flows, WritesOne(f), Frame
      PROVE  Goal
  BY <1>1, StepKeepsInv DEF Frame
<1>2. ASSUME NEW f \in Flows, FlowStep(f)
      PROVE  Goal
  BY <1>1, <1>2, FlowStepWrites
<1> HIDE DEF Goal
<1>3. ASSUME NEW f \in Flows, NEW pool \in SUBSET Agents, RequestCreated(f, pool)
      PROVE  Goal
  BY <1>0, <1>3, RequestCreatedKeepsInv DEF Goal
<1>4. ASSUME NEW f \in Flows, NEW pool \in SUBSET Agents, ForceRematch(f, pool)
      PROVE  Goal
  <2>1. current \in 1..Len(states)
    BY <1>4, Known DEF ForceRematch
  <2>2. /\ Frame
        /\ [Idle EXCEPT !.obj = current, !.pool = pool] \in FlowRecord(Len(states))
        /\ [Idle EXCEPT !.obj = current, !.pool = pool].obj # 0
    BY <1>4, <2>1, ArrivesWrites DEF ForceRematch
  <2>3. WritesOne(f)
    <3> DEFINE fl == [Idle EXCEPT !.obj = current, !.pool = pool]
    <3>1. TriggerRematch(f, {}, fl) /\ {} \in SUBSET Agents
      BY <1>4 DEF ForceRematch
    <3> HIDE DEF fl
    <3>2. fl \in FlowRecord(Len(states)) /\ fl.obj # 0
      BY <2>2 DEF fl
    <3> QED
      BY <3>1, <3>2, TriggerRematchWrites
  <2> QED
    BY <1>1, <2>2, <2>3
<1>5. ASSUME NEW f \in Flows, NEW pool \in SUBSET Agents, NEW m \in issued,
             Decline(f, m, pool)
      PROVE  Goal
  <2>1. Frame /\ [Idle EXCEPT !.pool = pool] \in FlowRecord(Len(states)) /\ m \in Match
    BY <1>5, ArrivesWrites DEF Decline, MatchingInv, TypeOK
  <2>2. WritesOne(f)
    BY <1>5, <2>1, RecordDeclineWrites DEF Decline
  <2> QED
    BY <1>1, <2>1, <2>2
<1>6. ASSUME NEW f \in Flows, NEW pool \in SUBSET Agents, NEW ms \in SUBSET issued,
             TimeoutExpired(f, ms, pool)
      PROVE  Goal
  <2>1. ms \in SUBSET Match
    BY DEF MatchingInv, TypeOK
  <2>2. Frame /\ [Idle EXCEPT !.pool = pool, !.todo = ms] \in FlowRecord(Len(states))
    BY <1>6, <2>1, ArrivesWrites DEF TimeoutExpired
  <2>3. WritesOne(f)
    BY <1>6, <2>2, ProceedWrites DEF TimeoutExpired
  <2> QED
    BY <1>1, <2>2, <2>3
<1>7. ASSUME NEW f \in Flows, CancelMatching(f)
      PROVE  Goal
  <2> DEFINE s == [states[current] EXCEPT !.status = "CANCELLED"]
  <2>1. /\ current \in 1..Len(states) /\ GoodState(states[current])
        /\ GoodFlow(Closing(flows[f]), Len(states))
    BY <1>7, Known, GoodFlows DEF CancelMatching
  <2>2. /\ s \in StateType /\ s.active = states[current].active
        /\ s.attempts = states[current].attempts
    BY <2>1 DEF GoodState, StateType, Statuses
  <2>3. Frame
    BY <1>7, ArrivesWrites DEF CancelMatching
  <2>4. WritesOne(f)
    BY <1>7, <2>1, <2>2, StatusWrites DEF CancelMatching
  <2> QED
    BY <1>1, <2>3, <2>4
<1>8. CASE Cleanup
  <2>1. UNCHANGED <<states, flows, issued, events, broken, forced>> /\ current' \in 0..Len(states)
    BY <1>8, Known DEF Cleanup
  <2>2. MatchingInv'
    BY <2>1 DEF MatchingInv, TypeOK, FlowType
  <2> QED
    BY <1>0, <2>1, <2>2 DEF Goal
<1>9. CASE UNCHANGED vars
  <2>1. MatchingInv'
    BY <1>9 DEF vars, MatchingInv, TypeOK, FlowType
  <2> QED
    BY <1>0, <1>9, <2>1 DEF vars, Goal
<1> QED
  BY <1>2, <1>3, <1>4, <1>5, <1>6, <1>7, <1>8, <1>9 DEF Next, Goal

-----------------------------------------------------------------------------
(* Nothing is left in the middle.  A request that is being matched has a    *)
(* flow that will yet search for it, and one that waits with too few agents *)
(* has a flow that will yet see to that.                                    *)

\* A waiting request has the agents it should have, or all it will get.
Enough(s) ==
    /\ s.active # {}
    /\ Cardinality(s.active) >= Minimum(Minima) \/ s.attempts >= MaxAttempts

\* The flow will search, or give the request up: not a first search that finds
\* the attempts used up when it wakes.
Seeks(fl, s) ==
    \/ fl.pc = "opening"
    \/ fl.pc = "cooling" /\ (s.attempts < MaxAttempts \/ ~fl.initial)

\* The flow will rematch or fail the request for want of agents.
Watches(fl, s) ==
    \/ fl.pc = "rematching"
    \/ /\ fl.pc = "declined" /\ fl.remaining < MinAgents
       /\ fl.remaining = 0 \/ s.attempts < MaxAttempts

Cared(o) ==
    /\ states[o].status = "MATCHING_IN_PROGRESS" =>
          \E f \in Flows : flows[f].obj = o /\ Seeks(flows[f], states[o])
    /\ states[o].status = "AWAITING_AGENT_RESPONSE" =>
          \/ Enough(states[o])
          \/ \E f \in Flows : flows[f].obj = o /\ Watches(flows[f], states[o])

SettledInv == ~broken => \A o \in 1..Len(states) : Cared(o)

\* No state depends on the flow.
Free(f) == ~Seeks(flows[f], State(f)) /\ ~Watches(flows[f], State(f))

\* The state o, once it is s, is cared for: by the flow, now fl, or by those
\* that cared for it before.
Settles(f, o, s, fl) ==
    /\ Free(f) \/ flows[f].obj = o
    /\ s.status = "MATCHING_IN_PROGRESS" =>
          \/ fl.obj = o /\ Seeks(fl, s)
          \/ /\ states[o].status = "MATCHING_IN_PROGRESS"
             /\ ~Seeks(flows[f], State(f)) /\ s.attempts = states[o].attempts
    /\ s.status = "AWAITING_AGENT_RESPONSE" =>
          \/ Enough(s)
          \/ fl.obj = o /\ Watches(fl, s)
          \/ /\ states[o].status = "AWAITING_AGENT_RESPONSE"
             /\ ~Watches(flows[f], State(f)) /\ (Enough(states[o]) => Enough(s))
             /\ s.attempts = states[o].attempts \/ s.attempts < MaxAttempts

\* A step of the flow either settles the state it writes, or writes none while
\* none depends on it.
SettlesOne(f) ==
    \E fl :
        /\ flows' = [flows EXCEPT ![f] = fl]
        /\ \/ states' = states /\ Free(f)
           \/ \E o \in 1..Len(states) : \E s :
                 states' = [states EXCEPT ![o] = s] /\ Settles(f, o, s, fl)

LEMMA StepSettles ==
    ASSUME MatchingInv, SettledInv, NEW f \in Flows, SettlesOne(f), broken' = broken
    PROVE  SettledInv'
<1> SUFFICES ASSUME ~broken
             PROVE  \A p \in 1..Len(states') : Cared(p)'
  BY DEF SettledInv
<1>1. PICK fl :
        /\ flows' = [flows EXCEPT ![f] = fl]
        /\ \/ states' = states /\ Free(f)
           \/ \E o \in 1..Len(states) : \E s :
                 states' = [states EXCEPT ![o] = s] /\ Settles(f, o, s, fl)
  BY DEF SettlesOne
<1>2. /\ flows'[f] = fl /\ \A g \in Flows \ {f} : flows'[g] = flows[g]
      /\ states \in Seq(StateType)
      /\ \A o \in 1..Len(states) : Cared(o)
  BY <1>1 DEF MatchingInv, TypeOK, SettledInv
\* Whatever does not depend on f, and is not written, stays cared for.
<1>3. ASSUME NEW p \in 1..Len(states), states'[p] = states[p],
             Free(f) \/ flows[f].obj # p
      PROVE  Cared(p)'
  <2>1. \A g \in Flows : /\ flows[g].obj = p /\ Seeks(flows[g], states[p]) => g # f
                         /\ flows[g].obj = p /\ Watches(flows[g], states[p]) => g # f
    BY <1>3 DEF Free, State
  <2> HIDE DEF Seeks, Watches, Enough
  <2>2. states[p].status = "MATCHING_IN_PROGRESS" =>
           \E g \in Flows \ {f} : flows[g].obj = p /\ Seeks(flows[g], states[p])
    BY <1>2, <2>1 DEF Cared
  <2>3. states[p].status = "AWAITING_AGENT_RESPONSE" =>
           \/ Enough(states[p])
           \/ \E g \in Flows \ {f} : flows[g].obj = p /\ Watches(flows[g], states[p])
    BY <1>2, <2>1 DEF Cared
  <2>4. states'[p].status = "MATCHING_IN_PROGRESS" =>
           \E g \in Flows : flows'[g].obj = p /\ Seeks(flows'[g], states'[p])
    BY <1>2, <1>3, <2>2
  <2>5. states'[p].status = "AWAITING_AGENT_RESPONSE" =>
           \/ Enough(states'[p])
           \/ \E g \in Flows : flows'[g].obj = p /\ Watches(flows'[g], states'[p])
    BY <1>2, <1>3, <2>3
  <2> QED
    BY <2>4, <2>5 DEF Cared, Enough, Seeks, Watches
<1>4. CASE states' = states /\ Free(f)
  BY <1>3, <1>4
<1>5. ASSUME NEW o \in 1..Len(states), NEW s,
             states' = [states EXCEPT ![o] = s], Settles(f, o, s, fl)
      PROVE  \A p \in 1..Len(states') : Cared(p)'
  <2>1. /\ Len(states') = Len(states) /\ states'[o] = s
        /\ \A p \in 1..Len(states) \ {o} : states'[p] = states[p]
    BY <1>2, <1>5, ExceptSeq
  <2>2. ASSUME NEW p \in 1..Len(states), p # o PROVE Cared(p)'
    BY <1>3, <1>5, <2>1, <2>2 DEF Settles
  <2>3. s.status = "MATCHING_IN_PROGRESS" =>
           \E g \in Flows : flows'[g].obj = o /\ Seeks(flows'[g], s)
    <3>1. CASE fl.obj = o /\ Seeks(fl, s)
      BY <1>2, <3>1
    <3>2. CASE /\ states[o].status = "MATCHING_IN_PROGRESS"
               /\ ~Seeks(flows[f], State(f)) /\ s.attempts = states[o].attempts
      <4>1. PICK g \in Flows : flows[g].obj = o /\ Seeks(flows[g], states[o])
        BY <1>2, <3>2 DEF Cared
      <4>2. g # f
        BY <3>2, <4>1 DEF State
      <4>3. Seeks(flows[g], s)
        BY <3>2, <4>1 DEF Seeks
      <4> QED
        BY <1>2, <4>1, <4>2, <4>3
    <3> QED
      BY <1>5, <3>1, <3>2 DEF Settles
  <2>4. s.status = "AWAITING_AGENT_RESPONSE" =>
           \/ Enough(s)
           \/ \E g \in Flows : flows'[g].obj = o /\ Watches(flows'[g], s)
    <3>1. CASE fl.obj = o /\ Watches(fl, s)
      BY <1>2, <3>1
    <3>2. CASE /\ states[o].status = "AWAITING_AGENT_RESPONSE"
               /\ ~Watches(flows[f], State(f)) /\ (Enough(states[o]) => Enough(s))
               /\ s.attempts = states[o].attempts \/ s.attempts < MaxAttempts
      <4>1. CASE Enough(states[o])
        BY <3>2, <4>1
      <4>2. ASSUME NEW g \in Flows, flows[g].obj = o, Watches(flows[g], states[o])
            PROVE  \E h \in Flows : flows'[h].obj = o /\ Watches(flows'[h], s)
        <5>1. g # f
          BY <3>2, <4>2 DEF State
        <5>2. Watches(flows[g], s)
          BY <3>2, <4>2 DEF Watches
        <5> QED
          BY <1>2, <4>2, <5>1, <5>2
      <4> QED
        BY <1>2, <3>2, <4>1, <4>2 DEF Cared
    <3> QED
      BY <1>5, <3>1, <3>2 DEF Settles
  <2>5. Cared(o)'
    BY <2>1, <2>3, <2>4 DEF Cared, Enough, Seeks, Watches
  <2> QED
    BY <2>1, <2>2, <2>5
<1> QED
  BY <1>1, <1>4, <1>5

LEMMA MinimaBounds ==
    /\ Minimum(Minima) \in Minima
    /\ \A n \in Minima : Minimum(Minima) <= n
    /\ Minima \subseteq Nat \ {0} /\ \A n \in Minima : n <= MinAgents
<1>1. /\ MinAgents \in Minima /\ Minima \subseteq Nat \ {0}
      /\ \A n \in Minima : n = MinAgents \/ n = 1
  BY MatchingAssumption DEF Minima
<1>2. \E n \in Minima : \A k \in Minima : n <= k
  <2>1. CASE 1 \in Minima
    BY <1>1, <2>1
  <2>2. CASE 1 \notin Minima
    BY <1>1, <2>2
  <2> QED
    BY <2>1, <2>2
<1>3. \A n \in Minima : n <= MinAgents
  BY <1>1
<1> QED
  BY <1>1, <1>2, <1>3 DEF Minimum

\* A search that ends with agents ends with enough of them, and one that ends
\* with too few goes on (performMatching(), selectAgents()).
LEMMA AttemptSettles ==
    ASSUME MatchingInv, NEW f \in Flows, flows[f].pc \in {"opening", "cooling"},
           Attempt(f)
    PROVE  SettlesOne(f)
<1> DEFINE o == flows[f].obj
           attempt == State(f).attempts + 1
           found(S) == {<<o, attempt, a>> : a \in S}
<1>1. /\ o \in 1..Len(states) /\ GoodState(states[o])
      /\ flows[f] \in FlowRecord(Len(states)) /\ MaxAttempts \in Nat
  BY Known, MatchingAssumption
<1>2. attempt \in Nat /\ attempt = states[o].attempts + 1 /\ states[o].attempts \in Nat
  BY <1>1 DEF State, GoodState, StateType
<1>3. PICK S \in SUBSET Agents :
         \/ /\ attempt < MaxAttempts
            /\ states' = [states EXCEPT ![o] = [@ EXCEPT !.attempts = attempt]]
            /\ flows' = [flows EXCEPT ![f] = [@ EXCEPT !.pc = "cooling"]]
         \/ /\ S # {}
            /\ (\E min \in Minima : Cardinality(S) >= min) \/ attempt >= MaxAttempts
            /\ states' = [states EXCEPT ![o] = [@ EXCEPT !.attempts = attempt,
                  !.outcome = "AGENTS_MATCHED", !.matches = found(S),
                  !.active = found(S), !.status = "AWAITING_AGENT_RESPONSE"]]
            /\ flows' = [flows EXCEPT ![f] = [@ EXCEPT !.pc = "announcing",
                                                       !.result = found(S)]]
         \/ /\ states' = [states EXCEPT ![o] = [@ EXCEPT !.attempts = attempt,
                  !.outcome = "MATCHING_FAILED", !.matches = {},
                  !.status = "MATCHING_FAILED"]]
            /\ flows' = [flows EXCEPT ![f] = Closing(@)]
  BY AttemptCases
<1>4. CASE /\ attempt < MaxAttempts
           /\ states' = [states EXCEPT ![o] = [@ EXCEPT !.attempts = attempt]]
           /\ flows' = [flows EXCEPT ![f] = [@ EXCEPT !.pc = "cooling"]]
  <2> DEFINE s == [states[o] EXCEPT !.attempts = attempt]
             fl == [flows[f] EXCEPT !.pc = "cooling"]
  <2>1. s.attempts = attempt /\ s.status = states[o].status /\ s.active = states[o].active
    BY <1>1 DEF GoodState, StateType
  <2>2. fl.obj = o /\ Seeks(fl, s)
    BY <1>1, <1>4, <2>1 DEF Seeks, FlowRecord
  <2>3. Enough(states[o]) => Enough(s)
    BY <1>1, <1>2, <2>1 DEF Enough
  <2>4. ~Watches(flows[f], State(f))
    BY DEF Watches
  <2> HIDE DEF s, fl
  <2>5. Settles(f, o, s, fl)
    BY <1>4, <2>1, <2>2, <2>3, <2>4 DEF Settles
  <2> QED
    BY <1>1, <1>4, <2>5 DEF SettlesOne, s, fl
<1>5. CASE /\ S # {}
           /\ (\E min \in Minima : Cardinality(S) >= min) \/ attempt >= MaxAttempts
           /\ states' = [states EXCEPT ![o] = [@ EXCEPT !.attempts = attempt,
                     !.outcome = "AGENTS_MATCHED", !.matches = found(S),
                     !.active = found(S), !.status = "AWAITING_AGENT_RESPONSE"]]
           /\ flows' = [flows EXCEPT ![f] = [@ EXCEPT !.pc = "announcing",
                                                      !.result = found(S)]]
  <2> DEFINE all == {<<o, attempt, a>> : a \in S}
             s == [states[o] EXCEPT !.attempts = attempt,
                     !.outcome = "AGENTS_MATCHED", !.matches = all,
                     !.active = all, !.status = "AWAITING_AGENT_RESPONSE"]
             fl == [flows[f] EXCEPT !.pc = "announcing", !.result = all]
  <2>1. all = {<<o, attempt, a>> : a \in S} /\ all # {}
    BY <1>5
  <2>2. s.attempts = attempt /\ s.status = "AWAITING_AGENT_RESPONSE" /\ s.active = all
    BY <1>1 DEF GoodState, StateType
  <2>3. states' = [states EXCEPT ![o] = s] /\ flows' = [flows EXCEPT ![f] = fl]
    BY <1>5
  <2> HIDE DEF all, s, fl
  <2>4. Cardinality(all) = Cardinality(S)
    <3>1. ExistsBijection(S, all)
      BY <2>1, FoundAreAsMany
    <3>2. IsFiniteSet(S)
      BY MatchingAssumption, FS_Subset
    <3> QED
      BY <3>1, <3>2, FS_Bijection
  <2>5. Cardinality(S) >= Minimum(Minima) \/ attempt >= MaxAttempts
    <3>1. Cardinality(S) \in Nat
      BY MatchingAssumption, FS_Subset, FS_CardinalityType
    <3>2. /\ Minima \subseteq Nat /\ Minimum(Minima) \in Nat
          /\ \A n \in Minima : Minimum(Minima) <= n
      BY MinimaBounds
    <3> QED
      BY <1>5, <3>1, <3>2
  <2>6. Enough(s)
    BY <2>1, <2>2, <2>4, <2>5 DEF Enough
  <2>7. Settles(f, o, s, fl)
    BY <2>2, <2>6 DEF Settles
  <2> QED
    BY <1>1, <2>3, <2>7 DEF SettlesOne
<1>6. CASE /\ states' = [states EXCEPT ![o] = [@ EXCEPT !.attempts = attempt,
                     !.outcome = "MATCHING_FAILED", !.matches = {},
                     !.status = "MATCHING_FAILED"]]
           /\ flows' = [flows EXCEPT ![f] = Closing(@)]
  <2> DEFINE s == [states[o] EXCEPT !.attempts = attempt,
                     !.outcome = "MATCHING_FAILED", !.matches = {},
                     !.status = "MATCHING_FAILED"]
  <2>1. s.status = "MATCHING_FAILED"
    BY <1>1 DEF GoodState, StateType
  <2>2. Settles(f, o, s, Closing(flows[f]))
    BY <2>1 DEF Settles
  <2> QED
    BY <1>1, <1>6, <2>2 DEF SettlesOne
<1> QED
  BY <1>3, <1>4, <1>5, <1>6

\* The flow that records a decline watches what is left.
LEMMA RecordDeclineSettles ==
    ASSUME MatchingInv, NEW f \in Flows, Free(f), NEW flow \in FlowRecord(Len(states)),
           NEW m \in Match, current # 0, RecordDecline(f, flow, m)
    PROVE  SettlesOne(f)
<1> DEFINE left == states[current].active \ {m}
           s == [states[current] EXCEPT
                   !.active = left,
                   !.excluded = states[current].excluded \cup {AgentOf(m)}]
           fl == [flow EXCEPT !.pc = "declined", !.obj = current,
                              !.remaining = Cardinality(left)]
<1>1. /\ current \in 1..Len(states) /\ GoodState(states[current])
      /\ MinAgents \in Nat \ {0} /\ MaxAttempts \in Nat
      /\ Minimum(Minima) \in Nat /\ Minimum(Minima) <= MinAgents
  BY Known, MatchingAssumption, MinimaBounds
<1>2. Cardinality(left) \in Nat /\ (Cardinality(left) = 0 <=> left = {})
  BY <1>1, FS_RemoveElement, FS_CardinalityType, FS_EmptySet DEF GoodState
<1>3. /\ s.active = left /\ s.status = states[current].status
      /\ s.attempts = states[current].attempts /\ s.attempts \in Nat
  BY <1>1 DEF GoodState, StateType
<1>4. fl.obj = current /\ fl.pc = "declined" /\ fl.remaining = Cardinality(left)
  BY DEF FlowRecord
<1>5. /\ states' = [states EXCEPT ![current] = s]
      /\ flows' = [flows EXCEPT ![f] = fl]
  BY DEF RecordDecline
<1> HIDE DEF left, s, fl
<1>6. Enough(s) \/ Watches(fl, s)
  BY <1>1, <1>2, <1>3, <1>4 DEF Enough, Watches
<1>7. Settles(f, current, s, fl)
  BY <1>3, <1>4, <1>6 DEF Settles, Free
<1> QED
  BY <1>1, <1>5, <1>7 DEF SettlesOne

LEMMA ProceedSettles ==
    ASSUME MatchingInv, NEW f \in Flows, Free(f), NEW flow \in FlowRecord(Len(states)),
           Proceed(f, flow)
    PROVE  SettlesOne(f)
<1> DEFINE open == IF current = 0 THEN {} ELSE flow.todo \cap states[current].matches
<1>1. CASE states' = states /\ flows' = [flows EXCEPT ![f] = Idle]
  BY <1>1 DEF SettlesOne
<1>2. ASSUME NEW m \in open, RecordDecline(f, [flow EXCEPT !.todo = @ \ {m}], m)
      PROVE  SettlesOne(f)
  <2>1. current # 0 /\ m \in Match
    BY DEF FlowRecord
  <2>2. [flow EXCEPT !.todo = @ \ {m}] \in FlowRecord(Len(states))
    BY DEF FlowRecord
  <2> QED
    BY <2>1, <2>2, <1>2, RecordDeclineSettles
<1> QED
  BY <1>1, <1>2 DEF Proceed

\* The flow that empties the list of active matches watches the request.
LEMMA TriggerRematchSettles ==
    ASSUME MatchingInv, NEW f \in Flows, NEW flow \in FlowRecord(Len(states)),
           NEW excluded, flow.obj \in 1..Len(states),
           Free(f) \/ flows[f].obj = flow.obj,
           ~Seeks(flows[f], State(f)), TriggerRematch(f, excluded, flow)
    PROVE  SettlesOne(f)
<1> DEFINE s == [states[flow.obj] EXCEPT !.active = {}, !.excluded = excluded]
           fl == [flow EXCEPT !.pc = "rematching"]
<1>1. /\ s.status = states[flow.obj].status /\ s.attempts = states[flow.obj].attempts
      /\ fl.pc = "rematching" /\ fl.obj = flow.obj
  BY Known DEF GoodState, StateType, FlowRecord
<1>2. /\ states' = [states EXCEPT ![flow.obj] = s]
      /\ flows' = [flows EXCEPT ![f] = fl]
  BY DEF TriggerRematch
<1> HIDE DEF s, fl
<1>3. Settles(f, flow.obj, s, fl)
  BY <1>1 DEF Settles, Watches
<1> QED
  BY <1>2, <1>3 DEF SettlesOne

LEMMA IdleIsFree ==
    ASSUME NEW f \in Flows, flows[f].pc \in {"idle", "closing", "announcing"}
    PROVE  Free(f)
  BY DEF Free, Seeks, Watches

LEMMA FlowStepSettles ==
    ASSUME MatchingInv, NEW f \in Flows, FlowStep(f), ~PublishThrows(f)
    PROVE  SettlesOne(f)
<1> DEFINE n == Len(states)
<1>1. n \in Nat /\ flows[f] \in FlowRecord(n) /\ MaxAttempts \in Nat
  BY Known, MatchingAssumption
<1>2. CASE Search(f) \/ SearchAgain(f)
  BY <1>2, AttemptSettles DEF Search, SearchAgain, Resumes
<1>3. CASE GiveUp(f)
  <2> DEFINE o == flows[f].obj
             status == IF flows[f].initial THEN State(f).status ELSE "MATCHING_FAILED"
             s == [states[o] EXCEPT !.outcome = "NO_AGENTS_AVAILABLE", !.matches = {},
                                    !.status = status]
             fl == IF flows[f].initial THEN Idle ELSE Closing(flows[f])
  <2>1. /\ o \in 1..n /\ GoodState(states[o]) /\ flows[f].pc = "cooling"
        /\ states[o].attempts >= MaxAttempts
    BY <1>3, Known DEF GiveUp, Resumes, State
  <2>2. /\ s.status = status /\ s.active = states[o].active
        /\ s.attempts = states[o].attempts
    BY <2>1 DEF GoodState, StateType
  <2>3. states' = [states EXCEPT ![o] = s] /\ flows' = [flows EXCEPT ![f] = fl]
    BY <1>3 DEF GiveUp
  <2>4. ~Watches(flows[f], State(f)) /\ (flows[f].initial => ~Seeks(flows[f], State(f)))
    <3>1. states[o].attempts \in Nat
      BY <2>1 DEF GoodState, StateType
    <3> QED
      BY <1>1, <2>1, <3>1 DEF Watches, Seeks, State
  <2> HIDE DEF s, fl
  <2>5. Settles(f, o, s, fl)
    <3>1. CASE flows[f].initial
      BY <2>2, <2>4, <3>1 DEF Settles, State, Enough
    <3>2. CASE ~flows[f].initial
      BY <2>2, <3>2 DEF Settles
    <3> QED
      BY <3>1, <3>2
  <2> QED
    BY <2>1, <2>3, <2>5 DEF SettlesOne
<1>4. CASE Announce(f)
  BY <1>4, IdleIsFree DEF Announce, Resumes, SettlesOne
<1>5. CASE AfterDecline(f)
  <2> DEFINE flow == [flows[f] EXCEPT !.remaining = 0]
             remaining == flows[f].remaining
             left == remaining < MinAgents /\ State(f).attempts < MaxAttempts
             s == [states[flow.obj] EXCEPT !.status = "MATCHING_FAILED"]
  <2>1. /\ flows[f].obj \in 1..n /\ GoodState(State(f)) /\ flows[f].pc = "declined"
        /\ State(f).attempts \in Nat
    BY <1>5, Known DEF AfterDecline, Resumes, State, GoodState, StateType
  <2>2. flow \in FlowRecord(n) /\ flow.obj = flows[f].obj
    BY <1>1 DEF FlowRecord
  <2>3. ~Seeks(flows[f], State(f))
    BY <2>1 DEF Seeks
  <2>4. CASE left
    <3>1. TriggerRematch(f, State(f).excluded, flow)
      BY <1>5, <2>4 DEF AfterDecline
    <3> HIDE DEF flow
    <3> QED
      BY <2>1, <2>2, <2>3, <3>1, TriggerRematchSettles
  <2>5. CASE ~left /\ remaining = 0
    <3>1. /\ states' = [states EXCEPT ![flow.obj] = s]
          /\ flows' = [flows EXCEPT ![f] = Closing(flows[f])]
      BY <1>5, <2>5 DEF AfterDecline
    <3>2. s.status = "MATCHING_FAILED"
      BY <2>1, <2>2 DEF State, GoodState, StateType
    <3>3. Settles(f, flow.obj, s, Closing(flows[f]))
      BY <2>2, <3>2 DEF Settles
    <3> QED
      BY <2>1, <2>2, <3>1, <3>3 DEF SettlesOne
  <2>6. CASE ~left /\ remaining # 0
    <3>1. Proceed(f, flow)
      BY <1>5, <2>6 DEF AfterDecline
    <3>2. Free(f)
      BY <2>1, <2>3, <2>6 DEF Free, Watches
    <3> QED
      BY <2>2, <3>1, <3>2, ProceedSettles
  <2> QED
    BY <2>4, <2>5, <2>6
<1>6. CASE Rematch(f)
  <2> DEFINE o == flows[f].obj
             s == [states[o] EXCEPT !.status = "MATCHING_IN_PROGRESS"]
             fl == [flows[f] EXCEPT !.pc = "opening", !.initial = FALSE]
  <2>1. o \in 1..n /\ GoodState(states[o])
    BY <1>6, Known DEF Rematch, Resumes
  <2>2. s.status = "MATCHING_IN_PROGRESS"
    BY <2>1 DEF GoodState, StateType
  <2>3. fl.obj = o /\ fl.pc = "opening"
    BY <1>1 DEF FlowRecord
  <2>4. Settles(f, o, s, fl)
    BY <2>2, <2>3 DEF Settles, Seeks
  <2> QED
    BY <1>6, <2>1, <2>4 DEF Rematch, SettlesOne
<1>7. CASE Close(f)
  BY <1>1, <1>7, IdleIsFree, ProceedSettles DEF Close, Resumes
<1> QED
  BY <1>2, <1>3, <1>4, <1>5, <1>6, <1>7 DEF FlowStep

\* The flow that takes a RequestCreated will search for the new state.
LEMMA RequestCreatedSettles ==
    ASSUME MatchingInv, SettledInv, ~broken, NEW f \in Flows, NEW pool,
           RequestCreated(f, pool)
    PROVE  \A p \in 1..Len(states') : Cared(p)'
<1> DEFINE n == Len(states)
           fl == [Idle EXCEPT !.pc = "opening", !.initial = TRUE,
                              !.obj = n + 1, !.pool = pool]
<1>1. n \in Nat /\ states \in Seq(StateType) /\ NewState \in StateType
  BY Known DEF MatchingInv, TypeOK, NewState, StateType, Statuses, Outcomes
<1>2. /\ Len(states') = n + 1 /\ states'[n + 1] = NewState
      /\ \A p \in 1..n : states'[p] = states[p]
  BY <1>1, AppendProperties DEF RequestCreated
<1>3. /\ flows'[f] = fl /\ \A g \in Flows \ {f} : flows'[g] = flows[g]
      /\ flows[f].pc = "idle"
  BY DEF RequestCreated, Arrives, MatchingInv, TypeOK, Idle
<1>4. fl.obj = n + 1 /\ fl.pc = "opening"
  BY DEF Idle
<1> HIDE DEF fl
<1>5. ASSUME NEW p \in 1..Len(states'), p = n + 1 PROVE Cared(p)'
  <2>1. NewState.status = "MATCHING_IN_PROGRESS"
    BY DEF NewState
  <2> QED
    BY <1>2, <1>3, <1>4, <1>5, <2>1 DEF Cared, Seeks
<1>6. ASSUME NEW p \in 1..n PROVE Cared(p)'
  <2>1. Cared(p) /\ states'[p] = states[p]
    BY <1>2 DEF SettledInv
  <2>2. ~Seeks(flows[f], states[p]) /\ ~Watches(flows[f], states[p])
    BY <1>3 DEF Seeks, Watches
  <2> HIDE DEF Seeks, Watches, Enough
  <2>3. states'[p].status = "MATCHING_IN_PROGRESS" =>
           \E g \in Flows : flows'[g].obj = p /\ Seeks(flows'[g], states'[p])
    BY <1>3, <2>1, <2>2 DEF Cared
  <2>4. states'[p].status = "AWAITING_AGENT_RESPONSE" =>
           \/ Enough(states'[p])
           \/ \E g \in Flows : flows'[g].obj = p /\ Watches(flows'[g], states'[p])
    BY <1>3, <2>1, <2>2 DEF Cared
  <2> QED
    BY <2>3, <2>4 DEF Cared, Enough, Seeks, Watches
<1>7. \A p \in 1..(n + 1) : p \in 1..n \/ p = n + 1
  BY <1>1
<1> QED
  BY <1>2, <1>5, <1>6, <1>7

LEMMA NextKeepsSettled ==
    ASSUME MatchingInv, SettledInv, [Next]_vars
    PROVE  SettledInv'
<1>1. ASSUME NEW f \in Flows, FlowStep(f)
      PROVE  SettledInv'
  <2>1. CASE PublishThrows(f)
    BY <2>1 DEF PublishThrows, SettledInv
  <2>2. CASE ~PublishThrows(f)
    <3>1. broken' = broken
      BY <1>1, <2>2 DEF FlowStep, Search, SearchAgain, GiveUp, Announce, AfterDecline,
                        Rematch, Close, Resumes
    <3> QED
      BY <1>1, <2>2, <3>1, FlowStepSettles, StepSettles
  <2> QED
    BY <2>1, <2>2
<1>2. ASSUME NEW f \in Flows, Arrives(f)
      PROVE  /\ Free(f) /\ ~Seeks(flows[f], State(f)) /\ broken' = broken
             /\ SettlesOne(f) => SettledInv'
  <2>1. flows[f].pc = "idle" /\ broken' = broken
    BY <1>2 DEF Arrives, Idle
  <2> QED
    BY <2>1, IdleIsFree, StepSettles DEF Free
<1>3. ASSUME NEW f \in Flows, NEW pool \in SUBSET Agents, RequestCreated(f, pool)
      PROVE  SettledInv'
  <2>1. broken' = broken
    BY <1>3 DEF RequestCreated, Arrives
  <2> QED
    BY <1>3, <2>1, RequestCreatedSettles DEF SettledInv
<1>4. ASSUME NEW f \in Flows, NEW pool \in SUBSET Agents, ForceRematch(f, pool)
      PROVE  SettledInv'
  <2> DEFINE fl == [Idle EXCEPT !.obj = current, !.pool = pool]
  <2>1. current \in 1..Len(states) /\ Arrives(f)
    BY <1>4, Known DEF ForceRematch
  <2>2. fl \in FlowRecord(Len(states)) /\ TriggerRematch(f, {}, fl)
    BY <1>4, <2>1, ArrivesWrites DEF ForceRematch
  <2>3. fl.obj = current
    BY DEF Idle
  <2> HIDE DEF fl
  <2>4. SettlesOne(f)
    BY <1>2, <2>1, <2>2, <2>3, TriggerRematchSettles
  <2> QED
    BY <1>2, <2>1, <2>4
<1>5. ASSUME NEW f \in Flows, NEW pool \in SUBSET Agents, NEW m \in issued,
             Decline(f, m, pool)
      PROVE  SettledInv'
  <2>1. Arrives(f) /\ [Idle EXCEPT !.pool = pool] \in FlowRecord(Len(states)) /\ m \in Match
    BY <1>5, ArrivesWrites DEF Decline, MatchingInv, TypeOK
  <2>2. SettlesOne(f)
    BY <1>2, <1>5, <2>1, RecordDeclineSettles DEF Decline
  <2> QED
    BY <1>2, <2>1, <2>2
<1>6. ASSUME NEW f \in Flows, NEW pool \in SUBSET Agents, NEW ms \in SUBSET issued,
             TimeoutExpired(f, ms, pool)
      PROVE  SettledInv'
  <2>1. ms \in SUBSET Match /\ Arrives(f)
    BY <1>6 DEF MatchingInv, TypeOK, TimeoutExpired
  <2>2. [Idle EXCEPT !.pool = pool, !.todo = ms] \in FlowRecord(Len(states))
    BY <1>6, <2>1, ArrivesWrites DEF TimeoutExpired
  <2>3. SettlesOne(f)
    BY <1>2, <1>6, <2>1, <2>2, ProceedSettles DEF TimeoutExpired
  <2> QED
    BY <1>2, <2>1, <2>3
<1>7. ASSUME NEW f \in Flows, CancelMatching(f)
      PROVE  SettledInv'
  <2> DEFINE s == [states[current] EXCEPT !.status = "CANCELLED"]
  <2>1. current \in 1..Len(states) /\ GoodState(states[current]) /\ Arrives(f)
    BY <1>7, Known DEF CancelMatching
  <2>2. s.status = "CANCELLED"
    BY <2>1 DEF GoodState, StateType
  <2>3. Settles(f, current, s, Closing(flows[f]))
    BY <1>2, <2>1, <2>2 DEF Settles
  <2>4. SettlesOne(f)
    BY <1>7, <2>1, <2>3 DEF SettlesOne, CancelMatching
  <2> QED
    BY <1>2, <2>1, <2>4
<1>8. CASE Cleanup \/ UNCHANGED vars
  BY <1>8 DEF Cleanup, vars, SettledInv, Cared, Enough, Seeks, Watches
<1> QED
  BY <1>1, <1>3, <1>4, <1>5, <1>6, <1>7, <1>8 DEF Next

-----------------------------------------------------------------------------
(* Handlers run down.  A handler declines its timeouts one after the other;  *)
(* between two of them its awaits follow an order; the cooldown alone       *)
(* repeats, and each of its turns uses up an attempt that all flows share.  *)

\* The awaits that handling one decline may take, and the attempts it may use.
Span == MaxAttempts + 6

\* The steps that a flow at await pc needs at most, of the decline it is at.
Stage(pc, attempts) ==
    CASE pc = "declined"   -> MaxAttempts + 6
      [] pc = "rematching" -> MaxAttempts + 5
      [] pc = "opening"    -> MaxAttempts + 4
      [] pc = "cooling"    -> 3 + (IF attempts < MaxAttempts THEN MaxAttempts - attempts
                                   ELSE 0)
      [] pc = "announcing" -> 2
      [] OTHER             -> 1

StepsLeft(f) ==
    IF flows[f].pc = "idle" THEN 0
    ELSE Cardinality(flows[f].todo) * Span + Stage(flows[f].pc, State(f).attempts)

\* A step of a handler leaves it fewer steps, and no other step, of whatever
\* flow, adds to them.
HandlersRunDown ==
    [][\A f \in Flows :
          /\ FlowStep(f) => StepsLeft(f)' < StepsLeft(f)
          /\ flows[f].pc # "idle" => StepsLeft(f)' <= StepsLeft(f)]_vars

Finite(flow) == IsFiniteSet(flow.todo) /\ IsFiniteSet(flow.result)

\* A timeout is about matches that were announced: finitely many.
FiniteInv == IsFiniteSet(issued) /\ \A f \in Flows : Finite(flows[f])

RunInv == MatchingInv /\ FiniteInv

LEMMA StageBounds ==
    ASSUME NEW pc, NEW attempts, pc = "cooling" => attempts \in Nat
    PROVE  Span \in Nat /\ Stage(pc, attempts) \in 1..Span
<1>1. MaxAttempts \in Nat
  BY MatchingAssumption
<1>2. CASE pc = "cooling"
  BY <1>1, <1>2 DEF Stage, Span
<1>3. CASE pc # "cooling"
  BY <1>1, <1>3 DEF Stage, Span
<1> QED
  BY <1>2, <1>3

\* A flow that sleeps has no more to do when its state has used up attempts.
LEMMA StageShrinks ==
    ASSUME NEW m \in Nat, NEW n \in Nat, m >= n
    PROVE  Stage("cooling", m) <= Stage("cooling", n)
<1>1. MaxAttempts \in Nat
  BY MatchingAssumption
<1>2. \A k \in Nat : Stage("cooling", k) =
                       3 + (IF k < MaxAttempts THEN MaxAttempts - k ELSE 0)
  BY DEF Stage
<1>3. CASE m < MaxAttempts
  BY <1>1, <1>2, <1>3
<1>4. CASE ~(m < MaxAttempts)
  BY <1>1, <1>2, <1>4
<1> QED
  BY <1>3, <1>4

\* Fewer timeouts, or as many and an earlier stage, are fewer steps.
LEMMA CountsDown ==
    ASSUME NEW c \in Nat, NEW d \in Nat, NEW x \in 1..Span, NEW y \in 1..Span,
           d < c \/ (d = c /\ x < y)
    PROVE  d * Span + x < c * Span + y
<1>1. Span \in Nat
  BY MatchingAssumption DEF Span
<1>2. CASE d = c /\ x < y
  BY <1>1, <1>2
<1>3. CASE d < c
  <2> DEFINE k == c - (d + 1)
  <2>1. k \in Nat /\ c = (d + 1) + k
    BY <1>3
  <2>2. c * Span = d * Span + Span + k * Span /\ k * Span \in Nat
    BY <1>1, <2>1
  <2> QED
    BY <1>1, <2>2
<1> QED
  BY <1>2, <1>3

\* What a step makes of its flow: nothing is left, or a timeout less, or the
\* same timeouts at a later await.
Advances(f, fl) ==
    \/ fl = Idle
    \/ /\ fl.pc # "idle"
       /\ \E m \in flows[f].todo : fl.todo = flows[f].todo \ {m}
    \/ /\ fl.pc # "idle" /\ fl.todo = flows[f].todo
       /\ Stage(fl.pc, states'[fl.obj].attempts) < Stage(flows[f].pc, State(f).attempts)

LEMMA EndsAreFinite ==
    /\ Finite(Idle)
    /\ \A flow : /\ Closing(flow).pc = "closing" /\ Closing(flow).result = {}
                 /\ Closing(flow).todo = flow.todo
                 /\ Finite(flow) => Finite(Closing(flow))
<1>1. Finite(Idle)
  BY FS_EmptySet DEF Finite, Idle
<1>2. ASSUME NEW flow
      PROVE  /\ Closing(flow).pc = "closing" /\ Closing(flow).result = {}
             /\ Closing(flow).todo = flow.todo
  BY DEF Closing, Idle
<1> QED
  BY <1>1, <1>2, FS_EmptySet DEF Finite

\* A handler that goes on ends, or has a timeout less to decline.
LEMMA ProceedRuns ==
    ASSUME NEW f \in Flows, NEW flow \in FlowRecord(Len(states)), Finite(flow),
           Proceed(f, flow)
    PROVE  \E fl : /\ flows' = [flows EXCEPT ![f] = fl] /\ Finite(fl)
                   /\ \/ fl = Idle
                      \/ /\ fl.pc # "idle"
                         /\ \E m \in flow.todo : fl.todo = flow.todo \ {m}
<1> DEFINE open == IF current = 0 THEN {} ELSE flow.todo \cap states[current].matches
<1>1. CASE flows' = [flows EXCEPT ![f] = Idle]
  BY <1>1, EndsAreFinite
<1>2. ASSUME NEW m \in open, RecordDecline(f, [flow EXCEPT !.todo = @ \ {m}], m)
      PROVE  \E fl : /\ flows' = [flows EXCEPT ![f] = fl] /\ Finite(fl)
                     /\ fl.pc # "idle" /\ fl.todo = flow.todo \ {m}
  <2> DEFINE left == states[current].active \ {m}
             fl == [[flow EXCEPT !.todo = @ \ {m}] EXCEPT
                       !.pc = "declined", !.obj = current, !.remaining = Cardinality(left)]
  <2>1. flows' = [flows EXCEPT ![f] = fl]
    BY <1>2 DEF RecordDecline
  <2>2. fl.pc = "declined" /\ fl.todo = flow.todo \ {m} /\ fl.result = flow.result
    BY DEF FlowRecord
  <2> HIDE DEF fl
  <2>3. Finite(fl)
    BY <2>2, FS_RemoveElement DEF Finite
  <2> QED
    BY <2>1, <2>2, <2>3
<1>3. open \subseteq flow.todo
  OBVIOUS
<1> HIDE DEF open
<1>4. \/ flows' = [flows EXCEPT ![f] = Idle]
      \/ \E m \in open : RecordDecline(f, [flow EXCEPT !.todo = @ \ {m}], m)
  BY DEF Proceed, open
<1> QED
  BY <1>1, <1>2, <1>3, <1>4

LEMMA AttemptRuns ==
    ASSUME RunInv, NEW f \in Flows, flows[f].pc \in {"opening", "cooling"},
           flows[f].pc = "cooling" => State(f).attempts < MaxAttempts, Attempt(f)
    PROVE  \E fl : /\ flows' = [flows EXCEPT ![f] = fl] /\ Finite(fl)
                   /\ Advances(f, fl)
<1> DEFINE o == flows[f].obj
           attempt == State(f).attempts + 1
           found(S) == {<<o, attempt, a>> : a \in S}
<1>1. /\ o \in 1..Len(states) /\ GoodState(states[o]) /\ Finite(flows[f])
      /\ flows[f] \in FlowRecord(Len(states)) /\ MaxAttempts \in Nat
      /\ states \in Seq(StateType)
  BY Known, MatchingAssumption DEF RunInv, FiniteInv, MatchingInv, TypeOK
<1>2. State(f).attempts \in Nat
  BY <1>1 DEF State, GoodState, StateType
<1>3. Stage(flows[f].pc, State(f).attempts) \in Nat \ (0..2)
  BY <1>1, <1>2 DEF Stage
<1>4. PICK S \in SUBSET Agents :
         \/ /\ attempt < MaxAttempts
            /\ states' = [states EXCEPT ![o] = [@ EXCEPT !.attempts = attempt]]
            /\ flows' = [flows EXCEPT ![f] = [@ EXCEPT !.pc = "cooling"]]
         \/ flows' = [flows EXCEPT ![f] = [@ EXCEPT !.pc = "announcing",
                                                    !.result = found(S)]]
         \/ flows' = [flows EXCEPT ![f] = Closing(@)]
  BY AttemptCases DEF RunInv
<1>5. CASE /\ attempt < MaxAttempts
           /\ states' = [states EXCEPT ![o] = [@ EXCEPT !.attempts = attempt]]
           /\ flows' = [flows EXCEPT ![f] = [@ EXCEPT !.pc = "cooling"]]
  <2> DEFINE fl == [flows[f] EXCEPT !.pc = "cooling"]
  <2>1. /\ fl.pc = "cooling" /\ fl.obj = o /\ fl.todo = flows[f].todo
        /\ fl.result = flows[f].result
    BY <1>1 DEF FlowRecord
  <2>2. states'[o].attempts = attempt
    <3>1. states'[o] = [states[o] EXCEPT !.attempts = attempt]
      BY <1>1, <1>5
    <3> QED
      BY <1>1, <3>1 DEF GoodState, StateType
  <2>3. Stage("cooling", attempt) < Stage(flows[f].pc, State(f).attempts)
    BY <1>1, <1>2, <1>5 DEF Stage
  <2> HIDE DEF fl, attempt, o
  <2>4. Finite(fl) /\ Advances(f, fl)
    BY <1>1, <2>1, <2>2, <2>3 DEF Finite, Advances
  <2> QED
    BY <1>5, <2>4 DEF fl
<1>6. CASE flows' = [flows EXCEPT ![f] = [@ EXCEPT !.pc = "announcing", !.result = found(S)]]
  <2> DEFINE fl == [flows[f] EXCEPT !.pc = "announcing", !.result = found(S)]
  <2>1. fl.pc = "announcing" /\ fl.todo = flows[f].todo /\ fl.result = found(S)
    BY <1>1 DEF FlowRecord
  <2>2. Stage("announcing", states'[fl.obj].attempts) = 2
    BY DEF Stage
  <2>3. IsFiniteSet(found(S))
    BY FoundIsFinite
  <2> HIDE DEF fl, found
  <2>4. Finite(fl) /\ Advances(f, fl)
    BY <1>1, <1>3, <2>1, <2>2, <2>3 DEF Finite, Advances
  <2> QED
    BY <1>6, <2>4 DEF fl
<1>7. CASE flows' = [flows EXCEPT ![f] = Closing(@)]
  <2>1. Stage("closing", states'[Closing(flows[f]).obj].attempts) = 1
    BY DEF Stage
  <2>2. Advances(f, Closing(flows[f]))
    BY <1>3, <2>1, EndsAreFinite DEF Advances
  <2> QED
    BY <1>1, <1>7, <2>2, EndsAreFinite
<1> QED
  BY <1>4, <1>5, <1>6, <1>7

\* A flow that resumes gets on, and takes nothing endless along.
LEMMA FlowStepRuns ==
    ASSUME RunInv, NEW f \in Flows, FlowStep(f)
    PROVE  /\ flows[f].pc # "idle"
           /\ issued' = issued \/ issued' = issued \cup flows[f].result
           /\ \E fl : /\ flows' = [flows EXCEPT ![f] = fl] /\ Finite(fl)
                      /\ Advances(f, fl)
<1> DEFINE n == Len(states)
           Goal == \E fl : /\ flows' = [flows EXCEPT ![f] = fl] /\ Finite(fl)
                           /\ Advances(f, fl)
<1>1. /\ flows[f] \in FlowRecord(n) /\ Finite(flows[f]) /\ MaxAttempts \in Nat
      /\ flows[f].pc \notin {"idle", "closing"} => State(f).attempts \in Nat
  BY Known, MatchingAssumption DEF RunInv, FiniteInv, State, GoodState, StateType
<1>2. /\ flows[f].pc # "idle"
      /\ issued' = issued \/ issued' = issued \cup flows[f].result
  BY DEF FlowStep, Search, SearchAgain, GiveUp, Announce, AfterDecline, Rematch,
         Close, PublishThrows, Resumes
<1>3. ASSUME flows' = [flows EXCEPT ![f] = Idle]
      PROVE  Goal
  BY <1>3, EndsAreFinite DEF Advances
<1>4. ASSUME flows' = [flows EXCEPT ![f] = Closing(@)],
             flows[f].pc \notin {"idle", "closing"}
      PROVE  Goal
  <2>1. Stage("closing", states'[Closing(flows[f]).obj].attempts) = 1
    BY DEF Stage
  <2>2. Stage(flows[f].pc, State(f).attempts) > 1
    BY <1>1, <1>4 DEF Stage, FlowRecord
  <2>3. Advances(f, Closing(flows[f]))
    BY <2>1, <2>2, EndsAreFinite DEF Advances
  <2> QED
    BY <1>1, <1>4, <2>3, EndsAreFinite
<1>5. ASSUME NEW flow \in FlowRecord(n), flow.todo = flows[f].todo,
             flow.result = flows[f].result, Proceed(f, flow)
      PROVE  Goal
  <2>1. Finite(flow)
    BY <1>1, <1>5 DEF Finite
  <2> QED
    BY <1>5, <2>1, ProceedRuns DEF Advances
<1>6. ASSUME NEW fl, flows' = [flows EXCEPT ![f] = fl], fl.todo = flows[f].todo,
             fl.result = flows[f].result,
             \/ flows[f].pc = "declined" /\ fl.pc = "rematching"
             \/ flows[f].pc = "rematching" /\ fl.pc = "opening"
      PROVE  Goal
  <2>1. \A x, y : /\ Stage("rematching", x) < Stage("declined", y)
                  /\ Stage("opening", x) < Stage("rematching", y)
    BY <1>1 DEF Stage
  <2> QED
    BY <1>1, <1>6, <2>1 DEF Finite, Advances
<1>7. ASSUME Search(f) \/ SearchAgain(f) PROVE Goal
  BY <1>7, AttemptRuns DEF Search, SearchAgain, Resumes
<1> HIDE DEF Goal
<1>8. ASSUME GiveUp(f) PROVE Goal
  <2>1. /\ flows[f].pc = "cooling"
        /\ \/ flows' = [flows EXCEPT ![f] = Idle]
           \/ flows' = [flows EXCEPT ![f] = Closing(@)]
    BY <1>8 DEF GiveUp, Resumes
  <2> QED
    BY <2>1, <1>3, <1>4
<1>9. ASSUME Announce(f) PROVE Goal
  BY <1>9, <1>4 DEF Announce, Resumes
<1>10. ASSUME AfterDecline(f) PROVE Goal
  <2> DEFINE flow == [flows[f] EXCEPT !.remaining = 0]
             fl == [flow EXCEPT !.pc = "rematching"]
  <2>1. /\ flow \in FlowRecord(n) /\ flow.todo = flows[f].todo
        /\ flow.result = flows[f].result
    BY <1>1 DEF FlowRecord
  <2>2. fl.pc = "rematching" /\ fl.todo = flows[f].todo /\ fl.result = flows[f].result
    BY <1>1 DEF FlowRecord
  <2>3. /\ flows[f].pc = "declined"
        /\ \/ flows' = [flows EXCEPT ![f] = fl]
           \/ flows' = [flows EXCEPT ![f] = Closing(@)]
           \/ Proceed(f, flow)
    BY <1>10 DEF AfterDecline, Resumes, TriggerRematch
  <2> HIDE DEF flow, fl
  <2> QED
    BY <2>1, <2>2, <2>3, <1>4, <1>5, <1>6
<1>11. ASSUME Rematch(f) PROVE Goal
  <2> DEFINE fl == [flows[f] EXCEPT !.pc = "opening", !.initial = FALSE]
  <2>1. fl.pc = "opening" /\ fl.todo = flows[f].todo /\ fl.result = flows[f].result
    BY <1>1 DEF FlowRecord
  <2>2. flows[f].pc = "rematching" /\ flows' = [flows EXCEPT ![f] = fl]
    BY <1>11 DEF Rematch, Resumes
  <2> HIDE DEF fl
  <2> QED
    BY <2>1, <2>2, <1>6
<1>12. ASSUME Close(f) PROVE Goal
  BY <1>12, <1>1, <1>5 DEF Close
<1>13. ASSUME PublishThrows(f) PROVE Goal
  BY <1>13, <1>3 DEF PublishThrows
<1>14. Goal
  BY <1>7, <1>8, <1>9, <1>10, <1>11, <1>12, <1>13 DEF FlowStep, Goal
<1> QED
  BY <1>2, <1>14 DEF Goal

\* An event that comes in leaves everyone else's work alone.
LEMMA ArrivalRuns ==
    ASSUME RunInv, NEW f \in Flows, Arrives(f),
           NEW fl, flows' = [flows EXCEPT ![f] = fl], Finite(fl)
    PROVE  FiniteInv' /\ \A g \in Flows : flows[g].pc # "idle" => flows'[g] = flows[g]
<1>1. flows[f].pc = "idle" /\ issued' = issued
  BY DEF Arrives, Idle
<1>2. \A g \in Flows : flows'[g] = IF g = f THEN fl ELSE flows[g]
  BY DEF RunInv, MatchingInv, TypeOK
<1> QED
  BY <1>1, <1>2 DEF FiniteInv, RunInv

\* A step of one flow is the only one that touches its local variables.
LEMMA NextRuns ==
    ASSUME RunInv, [Next]_vars
    PROVE  /\ FiniteInv'
           /\ \A g \in Flows : \/ FlowStep(g)
                               \/ flows[g].pc = "idle"
                               \/ flows'[g] = flows[g]
<1> DEFINE Goal == /\ FiniteInv'
                   /\ \A g \in Flows : \/ FlowStep(g)
                                       \/ flows[g].pc = "idle"
                                       \/ flows'[g] = flows[g]
<1>1. ASSUME NEW f \in Flows, FlowStep(f)
      PROVE  Goal
  <2>1. PICK fl : flows' = [flows EXCEPT ![f] = fl] /\ Finite(fl)
    BY <1>1, FlowStepRuns
  <2>2. \A g \in Flows : flows'[g] = IF g = f THEN fl ELSE flows[g]
    BY <2>1 DEF RunInv, MatchingInv, TypeOK
  <2>3. IsFiniteSet(issued')
    <3>1. IsFiniteSet(issued) /\ IsFiniteSet(flows[f].result)
      BY DEF RunInv, FiniteInv, Finite
    <3>2. IsFiniteSet(issued \cup flows[f].result)
      BY <3>1, FS_Union
    <3>3. issued' = issued \/ issued' = issued \cup flows[f].result
      BY <1>1, FlowStepRuns
    <3> QED
      BY <3>1, <3>2, <3>3
  <2> QED
    BY <1>1, <2>1, <2>2, <2>3 DEF FiniteInv, RunInv
<1>2. ASSUME NEW f \in Flows, Arrives(f),
             NEW fl, flows' = [flows EXCEPT ![f] = fl], Finite(fl)
      PROVE  Goal
  BY <1>2, ArrivalRuns
<1> HIDE DEF Goal
<1>3. ASSUME NEW f \in Flows, NEW pool, RequestCreated(f, pool)
      PROVE  Goal
  <2> DEFINE fl == [Idle EXCEPT !.pc = "opening", !.initial = TRUE,
                                !.obj = Len(states) + 1, !.pool = pool]
  <2>1. Finite(fl)
    BY FS_EmptySet DEF Finite, Idle
  <2>2. Arrives(f) /\ flows' = [flows EXCEPT ![f] = fl]
    BY <1>3 DEF RequestCreated
  <2> QED
    BY <2>1, <2>2, <1>2
<1>4. ASSUME NEW f \in Flows, NEW pool, ForceRematch(f, pool)
      PROVE  Goal
  <2> DEFINE fl == [[Idle EXCEPT !.obj = current, !.pool = pool] EXCEPT !.pc = "rematching"]
  <2>1. Finite(fl)
    BY FS_EmptySet DEF Finite, Idle
  <2>2. Arrives(f) /\ flows' = [flows EXCEPT ![f] = fl]
    BY <1>4 DEF ForceRematch, TriggerRematch
  <2> QED
    BY <2>1, <2>2, <1>2
<1>5. ASSUME NEW f \in Flows, NEW pool, NEW m, Decline(f, m, pool)
      PROVE  Goal
  <2> DEFINE left == states[current].active \ {m}
             fl == [[Idle EXCEPT !.pool = pool] EXCEPT
                       !.pc = "declined", !.obj = current, !.remaining = Cardinality(left)]
  <2>1. Finite(fl)
    BY FS_EmptySet DEF Finite, Idle
  <2>2. Arrives(f) /\ flows' = [flows EXCEPT ![f] = fl]
    BY <1>5 DEF Decline, RecordDecline
  <2> QED
    BY <2>1, <2>2, <1>2
<1>6. ASSUME NEW f \in Flows, NEW pool \in SUBSET Agents, NEW ms \in SUBSET issued,
             TimeoutExpired(f, ms, pool)
      PROVE  Goal
  <2> DEFINE flow == [Idle EXCEPT !.pool = pool, !.todo = ms]
  <2>1. ms \in SUBSET Match /\ IsFiniteSet(ms) /\ MatchingInv
    BY FS_Subset DEF RunInv, FiniteInv, MatchingInv, TypeOK
  <2>2. /\ Arrives(f) /\ UNCHANGED <<current, forced>> /\ Proceed(f, flow)
    BY <1>6 DEF TimeoutExpired
  <2>3. flow \in FlowRecord(Len(states))
    BY <2>1, <2>2, ArrivesWrites
  <2>4. Finite(flow)
    BY <2>1, FS_EmptySet DEF Finite, Idle
  <2> HIDE DEF flow
  <2>5. PICK fl : flows' = [flows EXCEPT ![f] = fl] /\ Finite(fl)
    BY <2>2, <2>3, <2>4, ProceedRuns
  <2> QED
    BY <2>2, <2>5, <1>2
<1>7. ASSUME NEW f \in Flows, CancelMatching(f)
      PROVE  Goal
  <2>1. /\ Arrives(f) /\ flows' = [flows EXCEPT ![f] = Closing(flows[f])]
        /\ Finite(Closing(flows[f]))
    BY <1>7, EndsAreFinite DEF CancelMatching, RunInv, FiniteInv
  <2> QED
    BY <2>1, <1>2
<1>8. ASSUME Cleanup \/ UNCHANGED vars PROVE Goal
  BY <1>8 DEF Cleanup, vars, Goal, FiniteInv, RunInv
<1> QED
  <2>1. Goal
    BY <1>1, <1>3, <1>4, <1>5, <1>6, <1>7, <1>8 DEF Next
  <2> QED
    BY <2>1 DEF Goal

\* The steps a flow needs are a number, zero when it is idle.
LEMMA StepsAreCounted ==
    ASSUME RunInv, NEW f \in Flows
    PROVE  /\ StepsLeft(f) \in Nat
           /\ StepsLeft(f) = 0 <=> flows[f].pc = "idle"
           /\ flows[f].pc = "cooling" => State(f).attempts \in Nat
           /\ Cardinality(flows[f].todo) \in Nat
<1>1. Cardinality(flows[f].todo) \in Nat
  BY FS_CardinalityType DEF RunInv, FiniteInv, Finite
<1>2. flows[f].pc = "cooling" => State(f).attempts \in Nat
  BY Known DEF RunInv, State, GoodState, StateType
<1>3. Span \in Nat /\ Stage(flows[f].pc, State(f).attempts) \in 1..Span
  BY <1>2, StageBounds
<1> DEFINE c == Cardinality(flows[f].todo)
<1> HIDE DEF c
<1>4. c * Span \in Nat
  BY <1>1, <1>3 DEF c
<1> QED
  BY <1>1, <1>2, <1>3, <1>4 DEF StepsLeft, c

LEMMA FlowStepCounts ==
    ASSUME RunInv, RunInv', NEW f \in Flows, FlowStep(f)
    PROVE  StepsLeft(f)' < StepsLeft(f)
<1>1. PICK fl : flows' = [flows EXCEPT ![f] = fl] /\ Finite(fl) /\ Advances(f, fl)
  BY FlowStepRuns
<1>2. flows'[f] = fl /\ flows[f].pc # "idle" /\ IsFiniteSet(flows[f].todo)
  BY <1>1, FlowStepRuns DEF RunInv, MatchingInv, TypeOK, FiniteInv, Finite
<1> DEFINE c == Cardinality(flows[f].todo)
           d == Cardinality(fl.todo)
           x == Stage(fl.pc, states'[fl.obj].attempts)
           y == Stage(flows[f].pc, State(f).attempts)
<1>3. c \in Nat /\ d \in Nat
  BY <1>1, <1>2, FS_CardinalityType DEF Finite
<1>4. y \in 1..Span
  BY StepsAreCounted, StageBounds
<1>5. x \in 1..Span
  <2>1. flows'[f].pc = "cooling" => states'[flows'[f].obj].attempts \in Nat
    <3>1. (flows[f].pc = "cooling" => State(f).attempts \in Nat)'
      BY StepsAreCounted, PTL
    <3> QED
      BY <3>1 DEF State
  <2> QED
    BY <1>2, <2>1, StageBounds
<1>6. StepsLeft(f) = c * Span + y
  BY <1>2 DEF StepsLeft
<1>7. StepsLeft(f)' = IF fl.pc = "idle" THEN 0 ELSE d * Span + x
  BY <1>2 DEF StepsLeft, State
<1>8. CASE fl = Idle
  <2>1. fl.pc = "idle"
    BY <1>8 DEF Idle
  <2>2. StepsLeft(f) \in Nat /\ StepsLeft(f) # 0
    BY <1>2, StepsAreCounted
  <2> QED
    BY <1>7, <2>1, <2>2
<1>9. ASSUME NEW m \in flows[f].todo, fl.todo = flows[f].todo \ {m}, fl.pc # "idle"
      PROVE  StepsLeft(f)' < StepsLeft(f)
  <2>1. d = c - 1
    BY <1>2, <1>9, FS_RemoveElement
  <2> HIDE DEF c, d, x, y
  <2> QED
    BY <1>3, <1>4, <1>5, <1>6, <1>7, <1>9, <2>1, CountsDown
<1>10. CASE fl.pc # "idle" /\ fl.todo = flows[f].todo /\ x < y
  <2>1. d = c
    BY <1>10
  <2> HIDE DEF c, d, x, y
  <2> QED
    BY <1>3, <1>4, <1>5, <1>6, <1>7, <1>10, <2>1, CountsDown
<1> QED
  BY <1>1, <1>8, <1>9, <1>10 DEF Advances

\* An attempt used up by another flow is one less for this one too.
LEMMA OthersCount ==
    ASSUME RunInv, NEW f \in Flows, flows[f].pc # "idle", flows'[f] = flows[f],
           \A o \in 1..Len(states) : Follows(states[o], states'[o]),
           RunInv'
    PROVE  StepsLeft(f)' <= StepsLeft(f)
<1> DEFINE c == Cardinality(flows[f].todo)
           x == Stage(flows[f].pc, states'[flows[f].obj].attempts)
           y == Stage(flows[f].pc, State(f).attempts)
<1>1. c \in Nat /\ y \in 1..Span /\ Span \in Nat
  BY StepsAreCounted, StageBounds
<1>2. x \in Nat /\ x <= y
  <2>1. CASE flows[f].pc = "cooling"
    <3>1. flows[f].obj \in 1..Len(states) /\ State(f).attempts \in Nat
      BY <2>1, Known, StepsAreCounted DEF RunInv
    <3>2. states'[flows[f].obj].attempts >= State(f).attempts
      BY <3>1 DEF Follows, State
    <3>3. states'[flows[f].obj].attempts \in Nat
      <4>1. (flows[f].pc = "cooling" => State(f).attempts \in Nat)'
        BY StepsAreCounted, PTL
      <4> QED
        BY <2>1, <4>1 DEF State
    <3>4. x <= y
      BY <2>1, <3>1, <3>2, <3>3, StageShrinks
    <3>5. x \in Nat
      BY <2>1, <3>3, StageBounds
    <3> QED
      BY <3>4, <3>5
  <2>2. CASE flows[f].pc # "cooling"
    <3>1. x = y
      BY <2>2 DEF Stage
    <3> QED
      BY <1>1, <3>1
  <2> QED
    BY <2>1, <2>2
<1>3. StepsLeft(f) = c * Span + y /\ StepsLeft(f)' = c * Span + x
  BY DEF StepsLeft, State
<1> HIDE DEF c, x, y
<1>4. c * Span \in Nat
  BY <1>1
<1> QED
  BY <1>1, <1>2, <1>3, <1>4

-----------------------------------------------------------------------------
(* The searches made for a state.  AttemptsAreFew is not inductive: a flow  *)
(* past the check of maxAttempts uses an attempt up however many the others *)
(* have used meanwhile.  So its attempt is counted from the check on.       *)

CommittedPcs == {"rematching", "opening"}

\* The flows that will use up an attempt of the state whatever happens to it.
Committed(o) == {f \in Flows : flows[f].obj = o /\ flows[f].pc \in CommittedPcs}

Budget == MaxAttempts - 1 + Cardinality(Flows) + forced

BudgetInv ==
    \A o \in 1..Len(states) : states[o].attempts + Cardinality(Committed(o)) <= Budget

\* How the committed flows change with one flow.
LEMMA CommittedChange ==
    ASSUME MatchingInv, NEW f \in Flows, NEW fl, flows' = [flows EXCEPT ![f] = fl], NEW o
    PROVE  LET joins == fl.obj = o /\ fl.pc \in CommittedPcs
               was == f \in Committed(o)
           IN  /\ Cardinality(Committed(o)) \in Nat /\ Cardinality(Committed(o)') \in Nat
               /\ Cardinality(Flows) \in Nat
               /\ Cardinality(Committed(o)') <= Cardinality(Flows)
               /\ ~was => Cardinality(Committed(o)) + 1 <= Cardinality(Flows)
               /\ ~joins \/ was => Cardinality(Committed(o)') <= Cardinality(Committed(o))
               /\ was /\ ~joins => Cardinality(Committed(o)') = Cardinality(Committed(o)) - 1
               /\ Cardinality(Committed(o)') <= Cardinality(Committed(o)) + 1
<1> DEFINE joins == fl.obj = o /\ fl.pc \in CommittedPcs
           was == f \in Committed(o)
           A == Committed(o)
           B == Committed(o)'
<1>1. IsFiniteSet(Flows) /\ A \subseteq Flows /\ B \subseteq Flows
  BY MatchingAssumption DEF Committed
<1>2. IsFiniteSet(A) /\ IsFiniteSet(B)
  BY <1>1, FS_Subset
<1>3. \A g \in Flows : flows'[g] = IF g = f THEN fl ELSE flows[g]
  BY DEF MatchingInv, TypeOK
<1>4. f \in B <=> joins
  BY <1>3 DEF Committed
<1>5. \A g \in Flows \ {f} : g \in B <=> g \in A
  BY <1>3 DEF Committed
<1> HIDE DEF A, B, joins
<1>6. Cardinality(A) \in Nat /\ Cardinality(B) \in Nat /\ Cardinality(Flows) \in Nat
  BY <1>1, <1>2, FS_CardinalityType
<1>7. Cardinality(B) <= Cardinality(Flows)
  BY <1>1, FS_Subset
<1>8. f \notin A => Cardinality(A) + 1 <= Cardinality(Flows)
  <2> SUFFICES ASSUME f \notin A PROVE Cardinality(A) + 1 <= Cardinality(Flows)
    OBVIOUS
  <2>1. Cardinality(A \cup {f}) = Cardinality(A) + 1
    BY <1>2, FS_AddElement
  <2>2. A \cup {f} \subseteq Flows
    BY <1>1
  <2>3. Cardinality(A \cup {f}) <= Cardinality(Flows)
    BY <1>1, <2>2, FS_Subset
  <2> QED
    BY <2>1, <2>3
<1>9. (f \notin B \/ f \in A) => Cardinality(B) <= Cardinality(A)
  <2> SUFFICES ASSUME f \notin B \/ f \in A PROVE Cardinality(B) <= Cardinality(A)
    OBVIOUS
  <2>1. B \subseteq A
    BY <1>1, <1>5
  <2> QED
    BY <1>2, <2>1, FS_Subset
<1>10. (f \in A /\ f \notin B) => Cardinality(B) = Cardinality(A) - 1
  <2> SUFFICES ASSUME f \in A, f \notin B PROVE Cardinality(B) = Cardinality(A) - 1
    OBVIOUS
  <2>1. B = A \ {f}
    BY <1>1, <1>5
  <2> QED
    BY <1>2, <2>1, FS_RemoveElement
<1>11. Cardinality(B) <= Cardinality(A) + 1
  <2>1. CASE f \in A
    BY <1>6, <1>9, <2>1
  <2>2. CASE f \notin A
    <3>1. B \subseteq A \cup {f}
      BY <1>1, <1>5
    <3>2. IsFiniteSet(A \cup {f}) /\ Cardinality(A \cup {f}) = Cardinality(A) + 1
      BY <1>2, <2>2, FS_AddElement
    <3>3. Cardinality(B) <= Cardinality(A \cup {f})
      BY <3>1, <3>2, FS_Subset
    <3> QED
      BY <3>2, <3>3
  <2> QED
    BY <2>1, <2>2
<1> QED
  BY <1>4, <1>6, <1>7, <1>8, <1>9, <1>10, <1>11 DEF A, B, joins

\* The numbers the budget is made of.
LEMMA BudgetNumbers ==
    ASSUME MatchingInv
    PROVE  /\ MaxAttempts \in Nat \ {0} /\ Cardinality(Flows) \in Nat /\ forced \in Nat
           /\ Budget \in Nat
           /\ \A o \in 1..Len(states) : states[o].attempts \in Nat
<1>1. MaxAttempts \in Nat \ {0} /\ Cardinality(Flows) \in Nat /\ forced \in Nat
  BY MatchingAssumption, FS_CardinalityType DEF MatchingInv, TypeOK
<1>2. \A o \in 1..Len(states) : states[o].attempts \in Nat
  BY Known DEF GoodState, StateType
<1> QED
  BY <1>1, <1>2 DEF Budget

\* A step that uses no attempt up and commits no flow anew.
LEMMA QuietBudget ==
    ASSUME MatchingInv, BudgetInv, NEW f \in Flows, NEW fl,
           flows' = [flows EXCEPT ![f] = fl], forced' = forced,
           Len(states') = Len(states),
           \A o \in 1..Len(states) : states'[o].attempts = states[o].attempts,
           fl.pc \in CommittedPcs =>
               flows[f].pc \in CommittedPcs /\ flows[f].obj = fl.obj
    PROVE  BudgetInv'
<1> SUFFICES ASSUME NEW o \in 1..Len(states)
             PROVE  states[o].attempts + Cardinality(Committed(o)') <= Budget
  BY DEF BudgetInv, Budget
<1>1. ~(fl.obj = o /\ fl.pc \in CommittedPcs) \/ f \in Committed(o)
  BY DEF Committed
<1>2. /\ Cardinality(Committed(o)) \in Nat /\ Cardinality(Committed(o)') \in Nat
      /\ Cardinality(Committed(o)') <= Cardinality(Committed(o))
  BY <1>1, CommittedChange
<1> QED
  BY <1>2, BudgetNumbers DEF BudgetInv

\* One state is written, and its attempts stay as they are.
LEMMA SameAttempts ==
    ASSUME MatchingInv, NEW o \in 1..Len(states), NEW s,
           states' = [states EXCEPT ![o] = s], s.attempts = states[o].attempts
    PROVE  /\ Len(states') = Len(states)
           /\ \A p \in 1..Len(states) : states'[p].attempts = states[p].attempts
<1>1. states \in Seq(StateType) /\ Len(states) \in Nat
  BY Known DEF MatchingInv, TypeOK
<1>2. /\ Len(states') = Len(states)
      /\ \A p \in 1..Len(states) : states'[p] = IF p = o THEN s ELSE states[p]
  BY <1>1, LenProperties
<1> QED
  BY <1>2

\* A turn of the search uses up the attempt its flow was committed to, or one
\* that was left after the cooldown (performMatching()).
LEMMA AttemptBudget ==
    ASSUME MatchingInv, BudgetInv, NEW f \in Flows, Attempt(f), forced' = forced,
           \/ flows[f].pc = "opening"
           \/ flows[f].pc = "cooling" /\ State(f).attempts < MaxAttempts
    PROVE  BudgetInv'
<1> DEFINE o == flows[f].obj
           attempt == State(f).attempts + 1
           found(S) == {<<o, attempt, a>> : a \in S}
<1>1. o \in 1..Len(states) /\ GoodState(states[o]) /\ Len(states) \in Nat
      /\ flows[f] \in FlowRecord(Len(states)) /\ states \in Seq(StateType)
  BY Known DEF MatchingInv, TypeOK
<1>2. \E fl, s : /\ states' = [states EXCEPT ![o] = s] /\ s.attempts = attempt
                 /\ flows' = [flows EXCEPT ![f] = fl] /\ fl.pc \notin CommittedPcs
  <2>1. PICK S \in SUBSET Agents :
         \/ /\ states' = [states EXCEPT ![o] = [@ EXCEPT !.attempts = attempt]]
            /\ flows' = [flows EXCEPT ![f] = [@ EXCEPT !.pc = "cooling"]]
         \/ /\ states' = [states EXCEPT ![o] = [@ EXCEPT !.attempts = attempt,
                  !.outcome = "AGENTS_MATCHED", !.matches = found(S),
                  !.active = found(S), !.status = "AWAITING_AGENT_RESPONSE"]]
            /\ flows' = [flows EXCEPT ![f] = [@ EXCEPT !.pc = "announcing",
                                                       !.result = found(S)]]
         \/ /\ states' = [states EXCEPT ![o] = [@ EXCEPT !.attempts = attempt,
                  !.outcome = "MATCHING_FAILED", !.matches = {},
                  !.status = "MATCHING_FAILED"]]
            /\ flows' = [flows EXCEPT ![f] = Closing(@)]
    BY AttemptCases
  <2> DEFINE s1 == [states[o] EXCEPT !.attempts = attempt]
             s2 == [states[o] EXCEPT !.attempts = attempt,
                     !.outcome = "AGENTS_MATCHED", !.matches = found(S),
                     !.active = found(S), !.status = "AWAITING_AGENT_RESPONSE"]
             s3 == [states[o] EXCEPT !.attempts = attempt,
                     !.outcome = "MATCHING_FAILED", !.matches = {},
                     !.status = "MATCHING_FAILED"]
             f1 == [flows[f] EXCEPT !.pc = "cooling"]
             f2 == [flows[f] EXCEPT !.pc = "announcing", !.result = found(S)]
             f3 == Closing(flows[f])
  <2>2. s1.attempts = attempt /\ s2.attempts = attempt /\ s3.attempts = attempt
    <3> HIDE DEF attempt, found
    <3> QED
      BY <1>1 DEF GoodState, StateType
  <2>3. f1.pc = "cooling" /\ f2.pc = "announcing" /\ f3.pc = "closing"
    <3> HIDE DEF found
    <3> QED
      BY <1>1 DEF FlowRecord, Closing, Idle
  <2>4. \/ states' = [states EXCEPT ![o] = s1] /\ flows' = [flows EXCEPT ![f] = f1]
        \/ states' = [states EXCEPT ![o] = s2] /\ flows' = [flows EXCEPT ![f] = f2]
        \/ states' = [states EXCEPT ![o] = s3] /\ flows' = [flows EXCEPT ![f] = f3]
    BY <2>1
  <2> HIDE DEF s1, s2, s3, f1, f2, f3
  <2> QED
    BY <2>2, <2>3, <2>4 DEF CommittedPcs
<1>3. PICK fl, s : /\ states' = [states EXCEPT ![o] = s] /\ s.attempts = attempt
                  /\ flows' = [flows EXCEPT ![f] = fl] /\ fl.pc \notin CommittedPcs
  BY <1>2
<1>4. /\ Len(states') = Len(states)
      /\ \A p \in 1..Len(states) : states'[p] = IF p = o THEN s ELSE states[p]
  BY <1>1, <1>3, LenProperties
<1>5. State(f).attempts = states[o].attempts /\ states[o].attempts \in Nat
  BY <1>1, BudgetNumbers DEF State
<1> HIDE DEF o
<1>6. ASSUME NEW p \in 1..Len(states)
      PROVE  states'[p].attempts + Cardinality(Committed(p)') <= Budget
  <2>1. /\ Cardinality(Committed(p)) \in Nat /\ Cardinality(Committed(p)') \in Nat
        /\ Cardinality(Committed(p)') <= Cardinality(Committed(p))
        /\ f \in Committed(p) => Cardinality(Committed(p)') = Cardinality(Committed(p)) - 1
        /\ f \notin Committed(p) => Cardinality(Committed(p)) + 1 <= Cardinality(Flows)
    BY <1>3, CommittedChange
  <2>2. states[p].attempts + Cardinality(Committed(p)) <= Budget /\ states[p].attempts \in Nat
    BY BudgetNumbers DEF BudgetInv
  <2>3. CASE p # o
    BY <2>1, <2>2, <2>3, <1>4, BudgetNumbers
  <2>4. CASE p = o /\ flows[f].pc = "opening"
    <3>1. f \in Committed(p)
      BY <2>4 DEF Committed, CommittedPcs, o
    <3> QED
      BY <3>1, <2>1, <2>2, <2>4, <1>3, <1>4, <1>5, BudgetNumbers
  <2>5. CASE p = o /\ flows[f].pc = "cooling" /\ State(f).attempts < MaxAttempts
    <3>1. f \notin Committed(p)
      BY <2>5 DEF Committed, CommittedPcs
    <3> QED
      BY <3>1, <2>1, <2>5, <1>3, <1>4, <1>5, BudgetNumbers DEF Budget
  <2> QED
    BY <2>3, <2>4, <2>5
<1> QED
  BY <1>4, <1>6 DEF BudgetInv, Budget

\* A flow is committed to a rematch where attempts are left, or by an admin.
LEMMA TriggerBudget ==
    ASSUME MatchingInv, BudgetInv, NEW f \in Flows, NEW flow \in FlowRecord(Len(states)),
           NEW excluded, flow.obj # 0, TriggerRematch(f, excluded, flow),
           \/ states[flow.obj].attempts < MaxAttempts /\ forced' = forced
           \/ forced' = forced + 1
    PROVE  BudgetInv'
<1> DEFINE s == [states[flow.obj] EXCEPT !.active = {}, !.excluded = excluded]
           fl == [flow EXCEPT !.pc = "rematching"]
<1>1. Len(states) \in Nat /\ flow.obj \in 1..Len(states) /\ GoodState(states[flow.obj])
  <2>1. Len(states) \in Nat
    BY Known
  <2>2. flow.obj \in 1..Len(states)
    BY <2>1 DEF FlowRecord
  <2> QED
    BY <2>1, <2>2, Known
<1>2. /\ states' = [states EXCEPT ![flow.obj] = s] /\ s.attempts = states[flow.obj].attempts
      /\ flows' = [flows EXCEPT ![f] = fl] /\ fl.obj = flow.obj
  BY <1>1 DEF TriggerRematch, GoodState, StateType, FlowRecord
<1> HIDE DEF s, fl
<1>3. /\ Len(states') = Len(states)
      /\ \A p \in 1..Len(states) : states'[p].attempts = states[p].attempts
  BY <1>1, <1>2, SameAttempts
<1>4. ASSUME NEW p \in 1..Len(states)
      PROVE  states[p].attempts + Cardinality(Committed(p)') <= Budget'
  <2>1. /\ Cardinality(Committed(p)) \in Nat /\ Cardinality(Committed(p)') \in Nat
        /\ Cardinality(Committed(p)') <= Cardinality(Flows)
        /\ Cardinality(Committed(p)') <= Cardinality(Committed(p)) + 1
        /\ p # flow.obj => Cardinality(Committed(p)') <= Cardinality(Committed(p))
    BY <1>2, CommittedChange
  <2>2. states[p].attempts + Cardinality(Committed(p)) <= Budget /\ states[p].attempts \in Nat
    BY BudgetNumbers DEF BudgetInv
  <2>3. /\ Budget = MaxAttempts - 1 + Cardinality(Flows) + forced
        /\ Budget' = MaxAttempts - 1 + Cardinality(Flows) + forced'
    BY DEF Budget
  <2> DEFINE a == states[p].attempts
             c == Cardinality(Committed(p))
             d == Cardinality(Committed(p)')
             n == Cardinality(Flows)
  <2>4. /\ a \in Nat /\ c \in Nat /\ d \in Nat /\ n \in Nat /\ forced \in Nat
        /\ MaxAttempts \in Nat /\ a + c <= Budget /\ d <= n /\ d <= c + 1
    BY <2>1, <2>2, BudgetNumbers
  <2>5. \/ forced' = forced + 1
        \/ forced' = forced /\ p # flow.obj /\ d <= c
        \/ forced' = forced /\ p = flow.obj /\ a < MaxAttempts
    BY <2>1
  <2>6. /\ Budget = MaxAttempts - 1 + n + forced
        /\ Budget' = MaxAttempts - 1 + n + forced'
    BY <2>3
  <2> HIDE DEF a, c, d, n, Budget
  <2>7. a + d <= Budget'
    <3>1. CASE forced' = forced + 1
      BY <2>4, <2>6, <3>1
    <3>2. CASE forced' = forced /\ d <= c
      BY <2>4, <2>6, <3>2
    <3>3. CASE forced' = forced /\ a < MaxAttempts
      BY <2>4, <2>6, <3>3
    <3> QED
      BY <2>5, <3>1, <3>2, <3>3
  <2> QED
    BY <2>7 DEF a, d
<1> QED
  BY <1>3, <1>4 DEF BudgetInv

\* A decline uses no attempt up.
LEMMA RecordDeclineBudget ==
    ASSUME MatchingInv, BudgetInv, NEW f \in Flows, NEW flow \in FlowRecord(Len(states)),
           NEW m, current # 0, RecordDecline(f, flow, m), forced' = forced
    PROVE  BudgetInv'
<1> DEFINE left == states[current].active \ {m}
           s == [states[current] EXCEPT
                   !.active = left,
                   !.excluded = states[current].excluded \cup {AgentOf(m)}]
           fl == [flow EXCEPT !.pc = "declined", !.obj = current,
                              !.remaining = Cardinality(left)]
<1>1. current \in 1..Len(states) /\ GoodState(states[current])
  BY Known
<1>2. states' = [states EXCEPT ![current] = s] /\ flows' = [flows EXCEPT ![f] = fl]
  BY DEF RecordDecline
<1>3. s.attempts = states[current].attempts
  BY <1>1 DEF GoodState, StateType
<1>4. fl.pc \notin CommittedPcs
  BY DEF FlowRecord, CommittedPcs
<1> HIDE DEF s, fl
<1>5. /\ Len(states') = Len(states)
      /\ \A p \in 1..Len(states) : states'[p].attempts = states[p].attempts
  BY <1>1, <1>2, <1>3, SameAttempts
<1> QED
  BY <1>2, <1>4, <1>5, QuietBudget

\* A flow that ends, or goes on to a timed-out match (handleAgentDecline() up to
\* its publish), uses no attempt up.
LEMMA ProceedBudget ==
    ASSUME MatchingInv, BudgetInv, NEW f \in Flows, NEW flow \in FlowRecord(Len(states)),
           Proceed(f, flow), forced' = forced
    PROVE  BudgetInv'
<1>1. CASE states' = states /\ flows' = [flows EXCEPT ![f] = Idle]
  <2>1. Idle.pc \notin CommittedPcs
    BY DEF Idle, CommittedPcs
  <2> QED
    BY <1>1, <2>1, QuietBudget
<1>2. ASSUME NEW m, current # 0, RecordDecline(f, [flow EXCEPT !.todo = @ \ {m}], m)
      PROVE  BudgetInv'
  <2>1. [flow EXCEPT !.todo = @ \ {m}] \in FlowRecord(Len(states))
    BY DEF FlowRecord
  <2> QED
    BY <1>2, <2>1, RecordDeclineBudget
<1>3. \/ states' = states /\ flows' = [flows EXCEPT ![f] = Idle]
      \/ \E m : current # 0 /\ RecordDecline(f, [flow EXCEPT !.todo = @ \ {m}], m)
  BY DEF Proceed
<1> QED
  BY <1>1, <1>2, <1>3

\* The steps of a flow that resumes from an await.
LEMMA FlowStepBudget ==
    ASSUME MatchingInv, BudgetInv, NEW f \in Flows, FlowStep(f)
    PROVE  BudgetInv'
<1>1. flows[f] \in FlowRecord(Len(states)) /\ Closing(flows[f]).pc = "closing"
      /\ Idle.pc \notin CommittedPcs
  BY Known DEF Closing, Idle, CommittedPcs
<1>2. ASSUME flows[f].pc \notin {"idle", "closing"}
      PROVE  flows[f].obj \in 1..Len(states) /\ GoodState(State(f)) /\ flows[f].obj # 0
  BY <1>2, Known DEF State
<1>3. CASE Search(f) \/ SearchAgain(f)
  BY <1>3, AttemptBudget DEF Search, SearchAgain, Resumes
<1>4. CASE GiveUp(f)
  <2> DEFINE o == flows[f].obj
             s == [State(f) EXCEPT !.outcome = "NO_AGENTS_AVAILABLE", !.matches = {},
                      !.status = IF flows[f].initial THEN State(f).status
                                 ELSE "MATCHING_FAILED"]
             fl == IF flows[f].initial THEN Idle ELSE Closing(flows[f])
  <2>1. /\ states' = [states EXCEPT ![o] = s] /\ flows' = [flows EXCEPT ![f] = fl]
        /\ o \in 1..Len(states) /\ forced' = forced
    BY <1>2, <1>4 DEF GiveUp, Resumes, State
  <2>2. s.attempts = states[o].attempts
    BY <1>2, <1>4 DEF GiveUp, Resumes, State, GoodState, StateType
  <2>3. fl.pc \notin CommittedPcs
    BY <1>1 DEF CommittedPcs
  <2> HIDE DEF s, fl
  <2> QED
    BY <2>1, <2>2, <2>3, SameAttempts, QuietBudget
<1>5. CASE Announce(f)
  BY <1>1, <1>5, QuietBudget DEF Announce, Resumes, CommittedPcs
<1>6. CASE AfterDecline(f)
  <2> DEFINE flow == [flows[f] EXCEPT !.remaining = 0]
  <2>1. flow \in FlowRecord(Len(states)) /\ flow.obj = flows[f].obj
        /\ flow.obj \in 1..Len(states) /\ flow.obj # 0 /\ forced' = forced
    BY <1>1, <1>2, <1>6 DEF AfterDecline, Resumes, FlowRecord
  <2>2. CASE State(f).attempts < MaxAttempts /\ TriggerRematch(f, State(f).excluded, flow)
    BY <2>1, <2>2, TriggerBudget DEF State
  <2>3. CASE /\ states' = [states EXCEPT ![flow.obj] = [@ EXCEPT !.status = "MATCHING_FAILED"]]
             /\ flows' = [flows EXCEPT ![f] = Closing(@)]
    <3> DEFINE o == flows[f].obj
               s == [states[o] EXCEPT !.status = "MATCHING_FAILED"]
    <3>1. states' = [states EXCEPT ![o] = s] /\ o \in 1..Len(states)
          /\ flows' = [flows EXCEPT ![f] = Closing(flows[f])]
      BY <2>1, <2>3
    <3>2. s.attempts = states[o].attempts
      BY <1>2, <1>6 DEF AfterDecline, Resumes, State, GoodState, StateType
    <3>3. Closing(flows[f]).pc \notin CommittedPcs
      BY <1>1 DEF CommittedPcs
    <3> HIDE DEF s
    <3> QED
      BY <2>1, <3>1, <3>2, <3>3, SameAttempts, QuietBudget
  <2>4. CASE Proceed(f, flow)
    BY <2>1, <2>4, ProceedBudget
  <2> HIDE DEF flow
  <2> QED
    BY <1>6, <2>2, <2>3, <2>4 DEF AfterDecline, flow
<1>7. CASE Rematch(f)
  <2> DEFINE o == flows[f].obj
             s == [states[o] EXCEPT !.status = "MATCHING_IN_PROGRESS"]
             fl == [flows[f] EXCEPT !.pc = "opening", !.initial = FALSE]
  <2>1. /\ states' = [states EXCEPT ![o] = s] /\ flows' = [flows EXCEPT ![f] = fl]
        /\ o \in 1..Len(states) /\ forced' = forced /\ flows[f].pc = "rematching"
    BY <1>2, <1>7 DEF Rematch, Resumes
  <2>2. s.attempts = states[o].attempts /\ fl.obj = o
    BY <1>1, <1>2, <2>1 DEF State, GoodState, StateType, FlowRecord
  <2> HIDE DEF s, fl
  <2> QED
    BY <2>1, <2>2, SameAttempts, QuietBudget DEF CommittedPcs
<1>8. CASE Close(f)
  BY <1>1, <1>8, ProceedBudget DEF Close, Resumes
<1>9. CASE PublishThrows(f)
  BY <1>1, <1>9, QuietBudget DEF PublishThrows
<1> QED
  BY <1>3, <1>4, <1>5, <1>6, <1>7, <1>8, <1>9 DEF FlowStep

\* A new state has used no attempt up, and one flow is committed to it.
LEMMA RequestCreatedBudget ==
    ASSUME MatchingInv, BudgetInv, NEW f \in Flows, NEW pool \in SUBSET Agents,
           RequestCreated(f, pool)
    PROVE  BudgetInv'
<1> DEFINE n == Len(states)
           fl == [Idle EXCEPT !.pc = "opening", !.initial = TRUE,
                              !.obj = n + 1, !.pool = pool]
<1>1. n \in Nat /\ states \in Seq(StateType) /\ NewState \in StateType
  BY Known DEF MatchingInv, TypeOK, NewState, StateType, Statuses, Outcomes
<1>2. /\ Len(states') = n + 1 /\ states'[n + 1] = NewState
      /\ \A o \in 1..n : states'[o] = states[o]
  BY <1>1, AppendProperties DEF RequestCreated
<1>3. flows' = [flows EXCEPT ![f] = fl] /\ fl.obj = n + 1 /\ forced' = forced
  BY DEF RequestCreated, Idle
<1> HIDE DEF fl
<1>4. ASSUME NEW o \in 1..(n + 1)
      PROVE  states'[o].attempts + Cardinality(Committed(o)') <= Budget
  <2>1. CASE o \in 1..n
    <3>1. o # fl.obj
      BY <1>1, <1>3, <2>1
    <3>2. /\ Cardinality(Committed(o)) \in Nat /\ Cardinality(Committed(o)') \in Nat
          /\ Cardinality(Committed(o)') <= Cardinality(Committed(o))
      BY <1>3, <3>1, CommittedChange
    <3>3. states'[o].attempts = states[o].attempts
      BY <1>2, <2>1
    <3>4. /\ states[o].attempts \in Nat /\ Budget \in Nat
          /\ states[o].attempts + Cardinality(Committed(o)) <= Budget
      BY <2>1, BudgetNumbers DEF BudgetInv
    <3> QED
      BY <3>2, <3>3, <3>4
  <2>2. CASE o = n + 1
    <3>1. /\ Cardinality(Committed(o)') \in Nat
          /\ Cardinality(Committed(o)') <= Cardinality(Flows)
      BY <1>3, CommittedChange
    <3>2. states'[o].attempts = 0
      BY <1>2, <2>2 DEF NewState
    <3> QED
      BY <3>1, <3>2, BudgetNumbers DEF Budget
  <2> QED
    BY <1>1, <2>1, <2>2
<1>5. Budget' = Budget
  BY <1>3 DEF Budget
<1> QED
  BY <1>2, <1>4, <1>5 DEF BudgetInv

\* No step uses attempts up beyond the budget.
LEMMA NextKeepsBudget ==
    ASSUME MatchingInv, BudgetInv, [Next]_vars
    PROVE  BudgetInv'
<1>1. ASSUME NEW f \in Flows, NEW pool \in SUBSET Agents, ForceRematch(f, pool)
      PROVE  BudgetInv'
  <2> DEFINE fl == [Idle EXCEPT !.obj = current, !.pool = pool]
  <2>1. current \in 1..Len(states)
    BY <1>1, Known DEF ForceRematch
  <2>2. fl \in FlowRecord(Len(states)) /\ fl.obj # 0
    BY <1>1, <2>1, ArrivesWrites DEF ForceRematch
  <2>3. TriggerRematch(f, {}, fl) /\ forced' = forced + 1
    BY <1>1 DEF ForceRematch
  <2> HIDE DEF fl
  <2> QED
    BY <2>2, <2>3, TriggerBudget
<1>2. ASSUME NEW f \in Flows, NEW pool \in SUBSET Agents, NEW m \in issued,
             Decline(f, m, pool)
      PROVE  BudgetInv'
  <2>1. [Idle EXCEPT !.pool = pool] \in FlowRecord(Len(states))
    BY <1>2, ArrivesWrites DEF Decline
  <2> QED
    BY <1>2, <2>1, RecordDeclineBudget DEF Decline
<1>3. ASSUME NEW f \in Flows, NEW pool \in SUBSET Agents, NEW ms \in SUBSET issued,
             TimeoutExpired(f, ms, pool)
      PROVE  BudgetInv'
  <2>1. ms \in SUBSET Match
    BY DEF MatchingInv, TypeOK
  <2>2. [Idle EXCEPT !.pool = pool, !.todo = ms] \in FlowRecord(Len(states))
    BY <1>3, <2>1, ArrivesWrites DEF TimeoutExpired
  <2> QED
    BY <1>3, <2>2, ProceedBudget DEF TimeoutExpired
<1>4. ASSUME NEW f \in Flows, CancelMatching(f)
      PROVE  BudgetInv'
  <2> DEFINE s == [states[current] EXCEPT !.status = "CANCELLED"]
  <2>1. /\ current \in 1..Len(states) /\ GoodState(states[current])
        /\ states' = [states EXCEPT ![current] = s] /\ forced' = forced
        /\ flows' = [flows EXCEPT ![f] = Closing(flows[f])]
    BY <1>4, Known DEF CancelMatching
  <2>2. s.attempts = states[current].attempts
    BY <2>1 DEF GoodState, StateType
  <2>3. Closing(flows[f]).pc \notin CommittedPcs
    BY DEF Closing, Idle, CommittedPcs
  <2> HIDE DEF s
  <2> QED
    BY <2>1, <2>2, <2>3, SameAttempts, QuietBudget
<1>5. CASE Cleanup \/ UNCHANGED vars
  <2>1. UNCHANGED <<states, flows, forced>>
    BY <1>5 DEF Cleanup, vars
  <2> QED
    BY <2>1 DEF BudgetInv, Budget, Committed
<1> QED
  BY <1>1, <1>2, <1>3, <1>4, <1>5, FlowStepBudget, RequestCreatedBudget DEF Next

-----------------------------------------------------------------------------
(* Theorems *)

LEMMA InitHasInv == Init => MatchingInv
<1> SUFFICES ASSUME Init PROVE MatchingInv
  OBVIOUS
<1>1. states \in Seq(StateType) /\ Len(states) = 0
  BY EmptySeq DEF Init
<1>2. /\ flows = [f \in Flows |-> Idle] /\ GoodFlow(Idle, 0)
      /\ flows \in [Flows -> FlowRecord(0)]
  BY GoodFlows DEF Init, GoodFlow
<1>3. MaxEvents \in Nat
  BY MatchingAssumption
<1>4. FlowType = FlowRecord(Len(states))
  BY DEF FlowType, FlowRecord
<1>5. TypeOK
  <2>1. current \in 0..Len(states) /\ events \in 0..MaxEvents
    BY <1>1, <1>3 DEF Init
  <2>2. issued \subseteq Match /\ broken \in BOOLEAN /\ forced \in Nat
    BY DEF Init
  <2> QED
    BY <1>1, <1>2, <1>4, <2>1, <2>2 DEF TypeOK
<1> QED
  BY <1>1, <1>2, <1>5 DEF MatchingInv

\* The inductive invariant: shapes, a state under every flow that is at work,
\* and finitely many active matches (matching-engine.ts, selection.ts).
THEOREM MatchingInvariant == Spec => []MatchingInv
<1>1. MatchingInv /\ [Next]_vars => MatchingInv'
  BY NextKeepsInv
<1> QED
  BY <1>1, InitHasInv, PTL DEF Spec

\* The engine's state and its flows keep their shape, whatever webhooks cross.
THEOREM MatchingTypeCorrect == Spec => []TypeOK
<1>1. MatchingInv => TypeOK
  BY DEF MatchingInv
<1> QED
  BY <1>1, MatchingInvariant, PTL

\* What is left to do of a request is always on some flow: the strengthening of
\* SettledWhenIdle, which says nothing while a flow is at work.
THEOREM SettledInvariant == Spec => []SettledInv
<1>1. Init => SettledInv
  BY DEF Init, SettledInv
<1>2. MatchingInv /\ SettledInv /\ [Next]_vars => SettledInv'
  BY NextKeepsSettled
<1> QED
  BY <1>1, <1>2, MatchingInvariant, PTL DEF Spec

\* When every handler has ended and no publish threw, no request is left in the
\* middle of matching, and one that waits has an agent to wait for: declines,
\* timeouts and rematches that cross lose nothing (handleAgentDecline(),
\* triggerRematch(), handleAllAgentsDeclined(), processRequest()).
THEOREM MatchingSettles == Spec => []SettledWhenIdle
<1>1. SettledInv => SettledWhenIdle
  BY DEF SettledInv, SettledWhenIdle, AllIdle, Cared, Enough, Seeks, Watches, Idle
<1> QED
  BY <1>1, SettledInvariant, PTL

\* The attempts of a state, with those its flows are committed to use up, stay
\* within the budget: the strengthening of AttemptsAreFew, which does not say
\* that a flow past the check of maxAttempts has its attempt still to come.
THEOREM BudgetInvariant == Spec => []BudgetInv
<1>1. Init => BudgetInv
  BY DEF Init, BudgetInv
<1>2. MatchingInv /\ BudgetInv /\ [Next]_vars => BudgetInv'
  BY NextKeepsBudget
<1> QED
  BY <1>1, <1>2, MatchingInvariant, PTL DEF Spec

\* The searches made for a state exceed maxAttempts only by the flows that can
\* be past its check together, and by the rematches an admin forced: that the
\* check is made before the publishes of a rematch and the attempt used up
\* after them costs no more (handleAgentDecline(), triggerRematch(),
\* performMatching()).
THEOREM SearchesAreFew == Spec => []AttemptsAreFew
<1>1. MatchingInv /\ BudgetInv => AttemptsAreFew
  <2> SUFFICES ASSUME MatchingInv, BudgetInv, NEW o \in 1..Len(states)
               PROVE  states[o].attempts <= Budget
    BY DEF AttemptsAreFew, Budget
  <2>1. Committed(o) \subseteq Flows
    BY DEF Committed
  <2>2. Cardinality(Committed(o)) \in Nat
    BY <2>1, MatchingAssumption, FS_Subset, FS_CardinalityType
  <2> QED
    BY <2>2, BudgetNumbers DEF BudgetInv
<1> QED
  BY <1>1, MatchingInvariant, BudgetInvariant, PTL

\* What a handler has in hand is finite: the matches it found and the timeouts
\* it is still to decline (handleMatchingTimeoutExpired()).
THEOREM FlowsAreFinite == Spec => []FiniteInv
<1>1. Init => FiniteInv
  BY EndsAreFinite, FS_EmptySet DEF Init, FiniteInv
<1>2. MatchingInv /\ FiniteInv /\ [Next]_vars => FiniteInv'
  BY NextRuns DEF RunInv
<1> QED
  BY <1>1, <1>2, MatchingInvariant, PTL DEF Spec

\* The retries of performMatching(), and the rematches and timeouts a handler
\* goes through, are bounded, however flows share a state: a handler has a number
\* of steps left, each of its own steps lowers it, and none of anyone raises it;
\* at zero, and only there, it has ended.
THEOREM HandlersEnd ==
    /\ Spec => []\A f \in Flows : /\ StepsLeft(f) \in Nat
                                  /\ StepsLeft(f) = 0 <=> flows[f].pc = "idle"
    /\ Spec => HandlersRunDown
<1> DEFINE Counted == \A f \in Flows : /\ StepsLeft(f) \in Nat
                                       /\ StepsLeft(f) = 0 <=> flows[f].pc = "idle"
           Down == \A f \in Flows :
                      /\ FlowStep(f) => StepsLeft(f)' < StepsLeft(f)
                      /\ flows[f].pc # "idle" => StepsLeft(f)' <= StepsLeft(f)
<1>1. RunInv => Counted
  BY StepsAreCounted
<1>2. RunInv /\ RunInv' /\ [Next]_vars => [Down]_vars
  <2> SUFFICES ASSUME RunInv, RunInv', [Next]_vars
               PROVE  Down
    OBVIOUS
  <2>1. \A o \in 1..Len(states) : Follows(states[o], states'[o])
    BY NextKeepsInv DEF RunInv
  <2>2. ASSUME NEW f \in Flows, FlowStep(f)
        PROVE  StepsLeft(f)' < StepsLeft(f) /\ StepsLeft(f)' <= StepsLeft(f)
    <3>1. StepsLeft(f)' < StepsLeft(f)
      BY <2>2, FlowStepCounts
    <3>2. StepsLeft(f) \in Nat
      BY StepsAreCounted
    <3>3. (StepsLeft(f) \in Nat)'
      BY StepsAreCounted, PTL
    <3> QED
      BY <3>1, <3>2, <3>3
  <2>3. ASSUME NEW f \in Flows, flows[f].pc # "idle"
        PROVE  StepsLeft(f)' <= StepsLeft(f)
    <3>1. FlowStep(f) \/ flows'[f] = flows[f]
      BY <2>3, NextRuns
    <3> QED
      BY <2>1, <2>2, <2>3, <3>1, OthersCount
  <2> QED
    BY <2>2, <2>3
<1>3. RunInv <=> MatchingInv /\ FiniteInv
  BY DEF RunInv
<1> HIDE DEF Counted, Down, RunInv
<1>4. /\ Spec => []Counted
      /\ Spec => [][Down]_vars
  BY <1>1, <1>2, <1>3, MatchingInvariant, FlowsAreFinite, PTL DEF Spec
<1> QED
  BY <1>4 DEF Counted, Down, HandlersRunDown

=============================================================================
