------------------------- MODULE NotificationsProofs -------------------------
(***************************************************************************)
(* Theorems of Notifications, for any events, recipients, slots and        *)
(* limit.  OneMailPerKey needs to know who may still send a mail: a        *)
(* delivery is armed when it will call the provider for a key without      *)
(* asking the log again.  Of an undisturbed key at most one delivery is    *)
(* armed, and none once the mail is out.  The last sections relate the     *)
(* broker to the consumer and bound the steps of a delivery.               *)
(***************************************************************************)
EXTENDS Notifications, FiniteSetTheorems, TLAPS

Busy(w) == jobs[w] # Free

Armed(w, k) ==
    /\ Busy(w) /\ jobs[w].key = k
    /\ \/ jobs[w].at = "send"
       \/ jobs[w].at = "admit" /\ jobs[w].seen \notin {"none", "sent"}

\* A mail of k is out and about to be recorded.
Recording(w, k) ==
    /\ Busy(w) /\ jobs[w].key = k
    /\ jobs[w].at = "record" /\ jobs[w].outcome = "sent"

Logged(k) == row[k] \in Outcomes \/ k \in unlogged

\* What the stage of a delivery says of the row and the mails of its key.
StageOK(w) ==
    /\ jobs[w].at = "admit" /\ jobs[w].seen # "none" => row[jobs[w].key] # "none"
    /\ jobs[w].at = "admit" /\ jobs[w].seen = "sent" => row[jobs[w].key] \in Outcomes
    /\ jobs[w].at = "send" => row[jobs[w].key] # "none"
    /\ jobs[w].at = "record" => jobs[w].outcome # "none"
    /\ jobs[w].at = "record" /\ jobs[w].outcome = "sent" =>
         row[jobs[w].key] # "none" /\ mails[jobs[w].key] > 0
    /\ jobs[w].at \in {"count", "returned"} => Logged(jobs[w].key)
    /\ jobs[w].at = "returned" => jobs[w].key[2] = Len(Mails[EventOf(jobs[w])])

StagesOK == \A w \in Jobs : Busy(w) => StageOK(w)

\* A delivery has logged the mails it has passed.
PassedLogged ==
    \A w \in Jobs, k \in Keys :
        Busy(w) /\ EventOf(jobs[w]) = k[1] /\ k[2] < jobs[w].key[2] => Logged(k)

Undisturbed == Keys \ (crossed \cup unsure)

MailOK(k) ==
    /\ mails[k] <= 1
    /\ mails[k] > 0 => row[k] = "sent" \/ \E w \in Jobs : Recording(w, k)
    /\ \A w \in Jobs : Armed(w, k) => mails[k] = 0
    /\ \A v, w \in Jobs : Armed(v, k) /\ Armed(w, k) => v = w

MailsOK == \A k \in Undisturbed : MailOK(k)

SentWasMailed == \A k \in Keys : row[k] = "sent" => mails[k] > 0

\* Deliveries that were admitted and will count a mail of r, unless it fails.
Admitted(r) ==
    {w \in Jobs : /\ Busy(w) /\ To(jobs[w].key) = r
                  /\ \/ jobs[w].at \in {"insert", "send"}
                     \/ jobs[w].at \in {"record", "count"} /\ jobs[w].outcome = "sent"}

AdmittedFit ==
    \A r \in Recipients : window[r] + Cardinality(Admitted(r)) < Limit + Cardinality(Jobs)

NotificationsInv ==
    /\ TypeOK /\ StagesOK /\ PassedLogged /\ MailsOK /\ SentWasMailed
    /\ EventIsLogged /\ AdmittedFit
-----------------------------------------------------------------------------
(* Keys and deliveries. *)

LEMMA KeyParts ==
    ASSUME NEW k \in Keys
    PROVE  /\ k = <<k[1], k[2]>> /\ k[1] \in Events
           /\ k[2] \in Nat /\ 1 <= k[2] /\ k[2] <= Len(Mails[k[1]])
           /\ To(k) \in Recipients
<1>1. PICK e \in Events : k \in {<<e, i>> : i \in 1..Len(Mails[e])}
  BY DEF Keys
<1>2. PICK i \in 1..Len(Mails[e]) : k = <<e, i>>
  BY <1>1
<1>3. Mails[e] \in Seq(Recipients)
  BY NotificationsAssumption
<1>4. Mails[e][i] \in Recipients /\ Len(Mails[e]) \in Nat
  BY <1>2, <1>3
<1> QED
  BY <1>2, <1>4 DEF To

LEMMA PairIsKey ==
    ASSUME NEW e \in Events, NEW i \in Nat, 1 <= i, i <= Len(Mails[e])
    PROVE  <<e, i>> \in Keys
<1>1. Mails[e] \in Seq(Recipients)
  BY NotificationsAssumption
<1>2. i \in 1..Len(Mails[e])
  BY <1>1
<1> QED
  BY <1>2 DEF Keys

LEMMA FirstKey ==
    ASSUME NEW e \in Events
    PROVE  <<e, 1>> \in Keys
<1>1. Mails[e] \in Seq(Recipients) /\ Mails[e] # <<>>
  BY NotificationsAssumption
<1>2. 1 <= Len(Mails[e])
  BY <1>1
<1> QED
  BY <1>2, PairIsKey

LEMMA StartIsJob ==
    ASSUME NEW k \in Keys, NEW again \in BOOLEAN
    PROVE  /\ Start(k, again) \in Job /\ Start(k, again) # Free
           /\ Start(k, again).at = "look" /\ Start(k, again).key = k
           /\ Start(k, again).again = again
  BY DEF Start, Job, Statuses, Outcomes, Free

\* A delivery that is under way is a record of the shape Job.
LEMMA BusyIsJob ==
    ASSUME TypeOK, NEW w \in Jobs, Busy(w)
    PROVE  /\ jobs[w] \in Job /\ jobs[w].key \in Keys
           /\ jobs[w].outcome \in {"none", "sent", "failed", "limited"}
           /\ jobs[w].seen \in Statuses /\ jobs[w].again \in BOOLEAN
           /\ EventOf(jobs[w]) \in Events
<1>1. jobs[w] \in Job
  BY DEF TypeOK, Busy
<1> QED
  BY <1>1, KeyParts DEF Job, Outcomes, EventOf

LEMMA StagedIsBusy ==
    ASSUME NEW w, NEW stage, At(w, stage), stage # "free"
    PROVE  Busy(w)
  BY DEF At, Busy, Free

\* The handler goes on to the next key of its event, or returns at the last.
LEMMA ProceedMoves ==
    ASSUME NEW j \in Job
    PROVE  /\ Proceed(j) \in Job /\ Proceed(j) # Free
           /\ EventOf(Proceed(j)) = EventOf(j)
           /\ Proceed(j).again = j.again
           /\ \/ /\ Proceed(j).at = "look"
                 /\ Proceed(j).key[2] = j.key[2] + 1
              \/ /\ Proceed(j).at = "returned" /\ Proceed(j).key = j.key
                 /\ j.key[2] = Len(Mails[EventOf(j)])
<1>1. /\ j.key \in Keys /\ j.again \in BOOLEAN
      /\ EventOf(j) \in Events /\ j.key[2] \in Nat
      /\ 1 <= j.key[2] /\ j.key[2] <= Len(Mails[EventOf(j)])
      /\ Len(Mails[EventOf(j)]) \in Nat
  <2>1. j.key \in Keys /\ j.again \in BOOLEAN
    BY DEF Job
  <2>2. EventOf(j) \in Events
    BY <2>1, KeyParts DEF EventOf
  <2>3. Mails[EventOf(j)] \in Seq(Recipients)
    BY <2>2, NotificationsAssumption
  <2> QED
    BY <2>1, <2>2, <2>3, KeyParts DEF EventOf
<1>2. CASE j.key[2] < Len(Mails[EventOf(j)])
  <2> DEFINE k == <<EventOf(j), j.key[2] + 1>>
  <2>1. k \in Keys
    BY <1>1, <1>2, PairIsKey
  <2>2. Proceed(j) = Start(k, j.again)
    BY <1>2 DEF Proceed
  <2> HIDE DEF k
  <2>3. Proceed(j) \in Job /\ Proceed(j) # Free /\ Proceed(j).at = "look"
        /\ Proceed(j).key = k /\ Proceed(j).again = j.again
    BY <1>1, <2>1, <2>2, StartIsJob
  <2> QED
    BY <2>3 DEF EventOf, k
<1>3. CASE ~(j.key[2] < Len(Mails[EventOf(j)]))
  <2>1. Proceed(j) = [j EXCEPT !.at = "returned", !.seen = "none", !.outcome = "none"]
    BY <1>3 DEF Proceed
  <2>2. j.key[2] = Len(Mails[EventOf(j)])
    BY <1>1, <1>3
  <2>3. Proceed(j) \in Job /\ Proceed(j).at = "returned" /\ Proceed(j).key = j.key
        /\ Proceed(j).again = j.again
    BY <2>1 DEF Job, Statuses
  <2>4. Proceed(j) # Free
    BY <2>3 DEF Free
  <2> QED
    BY <2>2, <2>3, <2>4 DEF EventOf
<1> QED
  BY <1>2, <1>3

-----------------------------------------------------------------------------
(* What an action does to the delivery that takes it. *)

Others(w) ==
    /\ jobs' \in [Jobs -> Job \cup {Free}]
    /\ \A v \in Jobs \ {w} : jobs'[v] = jobs[v]

Stages == {"look", "admit", "insert", "send", "record", "count", "returned", "threw"}

LEMMA MoveDoes ==
    ASSUME TypeOK, NEW w \in Jobs, NEW j \in Job, jobs' = [jobs EXCEPT ![w] = j]
    PROVE  Others(w) /\ jobs'[w] = j /\ Busy(w)'
<1>1. Others(w) /\ jobs'[w] = j
  BY DEF Others, TypeOK
<1>2. j.at # "free"
  BY DEF Job
<1>3. jobs'[w] # Free
  BY <1>1, <1>2 DEF Free
<1> QED
  BY <1>1, <1>3 DEF Busy

\* A delivery that only moves to another stage keeps the rest.
LEMMA StageDoes ==
    ASSUME TypeOK, NEW w \in Jobs, Busy(w), NEW stage \in Stages,
           jobs' = [jobs EXCEPT ![w].at = stage]
    PROVE  /\ Others(w) /\ jobs'[w] \in Job /\ Busy(w)'
           /\ jobs'[w].at = stage /\ jobs'[w].key = jobs[w].key
           /\ jobs'[w].outcome = jobs[w].outcome /\ jobs'[w].seen = jobs[w].seen
           /\ jobs'[w].again = jobs[w].again
<1> DEFINE j == [jobs[w] EXCEPT !.at = stage]
<1>1. jobs[w] \in Job
  BY BusyIsJob
<1>2. /\ j \in Job /\ j.at = stage /\ j.key = jobs[w].key /\ j.outcome = jobs[w].outcome
      /\ j.seen = jobs[w].seen /\ j.again = jobs[w].again
  BY <1>1 DEF Job, Stages
<1>3. jobs' = [jobs EXCEPT ![w] = j]
  OBVIOUS
<1> HIDE DEF j
<1> QED
  BY <1>2, <1>3, MoveDoes

LEMMA LookDoes ==
    ASSUME TypeOK, NEW w \in Jobs, Look(w)
    PROVE  /\ Busy(w) /\ jobs[w].at = "look"
           /\ Others(w) /\ jobs'[w] \in Job /\ Busy(w)'
           /\ jobs'[w].at = "admit" /\ jobs'[w].key = jobs[w].key
           /\ jobs'[w].seen = row[jobs[w].key]
<1>1. Busy(w) /\ jobs[w].at = "look"
  BY StagedIsBusy DEF Look, At
<1>2. jobs[w] \in Job /\ row[jobs[w].key] \in Statuses
  BY <1>1, BusyIsJob DEF TypeOK
<1> DEFINE j == [jobs[w] EXCEPT !.at = "admit", !.seen = row[jobs[w].key]]
<1>3. jobs' = [jobs EXCEPT ![w] = j]
  BY DEF Look
<1>4. j \in Job /\ j.at = "admit" /\ j.key = jobs[w].key /\ j.seen = row[jobs[w].key]
  BY <1>2 DEF Job
<1> HIDE DEF j
<1> QED
  BY <1>1, <1>3, <1>4, MoveDoes

LEMMA AdmitDoes ==
    ASSUME TypeOK, NEW w \in Jobs, Admit(w)
    PROVE  /\ Busy(w) /\ jobs[w] \in Job /\ jobs[w].at = "admit"
           /\ Others(w) /\ jobs'[w] \in Job /\ Busy(w)'
           /\ \/ jobs[w].seen = "sent" /\ jobs'[w] = Proceed(jobs[w])
              \/ /\ jobs[w].seen # "sent" /\ jobs'[w].key = jobs[w].key
                 /\ jobs'[w].at = "record" /\ jobs'[w].outcome = "limited"
              \/ /\ jobs[w].seen = "none" /\ jobs'[w].key = jobs[w].key
                 /\ window[To(jobs[w].key)] < Limit /\ jobs'[w].at = "insert"
              \/ /\ jobs[w].seen \notin {"none", "sent"} /\ jobs'[w].key = jobs[w].key
                 /\ window[To(jobs[w].key)] < Limit /\ jobs'[w].at = "send"
<1>1. Busy(w) /\ jobs[w].at = "admit"
  BY StagedIsBusy DEF Admit, At
<1>2. jobs[w] \in Job /\ window[To(jobs[w].key)] \in Nat /\ Limit \in Nat
  BY <1>1, BusyIsJob, KeyParts, NotificationsAssumption DEF TypeOK
<1>3. CASE jobs[w].seen = "sent"
  <2>1. jobs' = [jobs EXCEPT ![w] = Proceed(jobs[w])]
    BY <1>3 DEF Admit
  <2> QED
    BY <1>1, <1>2, <1>3, <2>1, ProceedMoves, MoveDoes
<1>4. CASE jobs[w].seen # "sent" /\ window[To(jobs[w].key)] >= Limit
  <2> DEFINE j == [jobs[w] EXCEPT !.at = "record", !.seen = "none", !.outcome = "limited"]
  <2>1. jobs' = [jobs EXCEPT ![w] = j]
    BY <1>4 DEF Admit
  <2>2. j \in Job /\ j.at = "record" /\ j.outcome = "limited" /\ j.key = jobs[w].key
    BY <1>2 DEF Job, Statuses, Outcomes
  <2> HIDE DEF j
  <2> QED
    BY <1>1, <1>2, <1>4, <2>1, <2>2, MoveDoes
<1>5. CASE jobs[w].seen # "sent" /\ ~(window[To(jobs[w].key)] >= Limit)
  <2> DEFINE stage == IF jobs[w].seen = "none" THEN "insert" ELSE "send"
             j == [jobs[w] EXCEPT !.at = stage, !.seen = "none"]
  <2>1. jobs' = [jobs EXCEPT ![w] = j]
    BY <1>5 DEF Admit
  <2>2. j \in Job /\ j.at = stage /\ j.key = jobs[w].key
    BY <1>2 DEF Job, Statuses
  <2> HIDE DEF j
  <2>3. Others(w) /\ jobs'[w] = j /\ Busy(w)'
    BY <2>1, <2>2, MoveDoes
  <2> QED
    BY <1>1, <1>2, <1>5, <2>2, <2>3
<1> QED
  BY <1>3, <1>4, <1>5

LEMMA InsertDoes ==
    ASSUME TypeOK, NEW w \in Jobs, Insert(w)
    PROVE  /\ Busy(w) /\ jobs[w].at = "insert"
           /\ Others(w) /\ jobs'[w] \in Job /\ Busy(w)' /\ jobs'[w].key = jobs[w].key
           /\ \/ /\ row[jobs[w].key] = "none" /\ jobs'[w].at = "send"
                 /\ row' = [row EXCEPT ![jobs[w].key] = "pending"]
              \/ row[jobs[w].key] # "none" /\ jobs'[w].at = "threw" /\ row' = row
<1>1. Busy(w) /\ jobs[w].at = "insert"
  BY StagedIsBusy DEF Insert, At
<1>2. CASE row[jobs[w].key] = "none"
  <2>1. /\ jobs' = [jobs EXCEPT ![w].at = "send"]
        /\ row' = [row EXCEPT ![jobs[w].key] = "pending"]
    BY <1>2 DEF Insert
  <2> QED
    BY <1>1, <1>2, <2>1, StageDoes DEF Stages
<1>3. CASE row[jobs[w].key] # "none"
  <2>1. jobs' = [jobs EXCEPT ![w].at = "threw"] /\ row' = row
    BY <1>3 DEF Insert
  <2> QED
    BY <1>1, <1>3, <2>1, StageDoes DEF Stages
<1> QED
  BY <1>2, <1>3

LEMMA QueryFailsDoes ==
    ASSUME TypeOK, NEW w \in Jobs, QueryFails(w)
    PROVE  /\ Busy(w) /\ jobs[w].at \in {"look", "insert"}
           /\ Others(w) /\ jobs'[w] \in Job /\ Busy(w)'
           /\ jobs'[w].at = "threw" /\ jobs'[w].key = jobs[w].key
           /\ jobs'[w].outcome = jobs[w].outcome
<1>1. Busy(w) /\ jobs[w].at \in {"look", "insert"}
  BY StagedIsBusy DEF QueryFails, At
<1>2. jobs' = [jobs EXCEPT ![w].at = "threw"]
  BY DEF QueryFails
<1> QED
  BY <1>1, <1>2, StageDoes DEF Stages

LEMMA SendDoes ==
    ASSUME TypeOK, NEW w \in Jobs, NEW taken \in BOOLEAN, NEW outcome \in {"sent", "failed"},
           Send(w, taken, outcome)
    PROVE  /\ Busy(w) /\ jobs[w].at = "send" /\ (outcome = "sent" => taken)
           /\ Others(w) /\ jobs'[w] \in Job /\ Busy(w)'
           /\ jobs'[w].at = "record" /\ jobs'[w].key = jobs[w].key
           /\ jobs'[w].outcome = outcome
<1>1. Busy(w) /\ jobs[w].at = "send"
  BY StagedIsBusy DEF Send, At
<1>2. jobs[w] \in Job
  BY <1>1, BusyIsJob
<1> DEFINE j == [jobs[w] EXCEPT !.at = "record", !.outcome = outcome]
<1>3. jobs' = [jobs EXCEPT ![w] = j] /\ (outcome = "sent" => taken)
  BY DEF Send
<1>4. j \in Job /\ j.at = "record" /\ j.key = jobs[w].key /\ j.outcome = outcome
  BY <1>2 DEF Job, Outcomes
<1> HIDE DEF j
<1> QED
  BY <1>1, <1>3, <1>4, MoveDoes

LEMMA RecordDoes ==
    ASSUME TypeOK, NEW w \in Jobs, Record(w) \/ RecordFails(w)
    PROVE  /\ Busy(w) /\ jobs[w].at = "record"
           /\ Others(w) /\ jobs'[w] \in Job /\ Busy(w)'
           /\ jobs'[w].at = "count" /\ jobs'[w].key = jobs[w].key
           /\ jobs'[w].outcome = jobs[w].outcome
<1>1. Busy(w) /\ jobs[w].at = "record"
  BY StagedIsBusy DEF Record, RecordFails, At
<1>2. jobs' = [jobs EXCEPT ![w].at = "count"]
  BY DEF Record, RecordFails
<1> QED
  BY <1>1, <1>2, StageDoes DEF Stages

LEMMA CountDoes ==
    ASSUME TypeOK, NEW w \in Jobs, Count(w)
    PROVE  /\ Busy(w) /\ jobs[w] \in Job /\ jobs[w].at = "count"
           /\ Others(w) /\ jobs'[w] \in Job /\ Busy(w)'
           /\ jobs'[w] = Proceed(jobs[w])
<1>1. Busy(w) /\ jobs[w].at = "count"
  BY StagedIsBusy DEF Count, At
<1>2. jobs[w] \in Job
  BY <1>1, BusyIsJob
<1>3. jobs' = [jobs EXCEPT ![w] = Proceed(jobs[w])]
  BY DEF Count
<1> QED
  BY <1>1, <1>2, <1>3, ProceedMoves, MoveDoes

\* A new delivery begins with the first mail of its event.
LEMMA ArrivalDoes ==
    ASSUME TypeOK, NEW w \in Jobs, NEW e \in Events, Consume(w, e) \/ Post(w, e)
    PROVE  /\ Others(w) /\ jobs'[w] \in Job /\ Busy(w)' /\ ~Busy(w)
           /\ jobs'[w].at = "look" /\ jobs'[w].key = <<e, 1>>
<1>1. PICK again \in BOOLEAN : jobs' = [jobs EXCEPT ![w] = Start(<<e, 1>>, again)]
  <2>1. CASE Consume(w, e)
    <3>1. jobs' = [jobs EXCEPT ![w] = Start(<<e, 1>>, message[e] = "again")]
      BY <2>1 DEF Consume
    <3>2. (message[e] = "again") \in BOOLEAN
      OBVIOUS
    <3> QED
      BY <3>1, <3>2
  <2>2. CASE Post(w, e)
    <3>1. jobs' = [jobs EXCEPT ![w] = Start(<<e, 1>>, FALSE)]
      BY <2>2 DEF Post
    <3>2. FALSE \in BOOLEAN
      OBVIOUS
    <3> QED
      BY <3>1, <3>2
  <2> QED
    BY <2>1, <2>2
<1>2. ~Busy(w)
  BY DEF Consume, Post, Busy
<1> DEFINE k == <<e, 1>>
<1>3. k \in Keys
  BY FirstKey
<1> HIDE DEF k
<1>4. /\ Start(k, again) \in Job
      /\ Start(k, again).at = "look" /\ Start(k, again).key = k
  BY <1>3, StartIsJob
<1>5. Others(w) /\ jobs'[w] = Start(k, again) /\ Busy(w)'
  BY <1>1, <1>4, MoveDoes DEF k
<1>6. Others(w) /\ jobs'[w] \in Job /\ Busy(w)'
      /\ jobs'[w].at = "look" /\ jobs'[w].key = k
  BY <1>4, <1>5
<1> QED
  BY <1>2, <1>6 DEF k

\* A settled delivery frees its slot.
LEMMA SettleDoes ==
    ASSUME TypeOK, NEW w \in Jobs,
           jobs' = [jobs EXCEPT ![w] = Free]
    PROVE  Others(w) /\ ~Busy(w)'
  BY DEF Others, Busy, TypeOK

-----------------------------------------------------------------------------
(* Types. *)

LogTypes ==
    /\ row \in [Keys -> Statuses] /\ mails \in [Keys -> Nat]
    /\ crossed \subseteq Keys /\ unsure \subseteq Keys /\ unlogged \subseteq Keys

BrokerTypes ==
    /\ message \in [Events -> {"absent", "ready", "again", "unacked", "acked", "dead"}]
    /\ connected \in BOOLEAN /\ answered \subseteq Events
    /\ posts \in 0..MaxPosts /\ losses \in 0..MaxLosses

CountTypes == window \in [Recipients -> Nat]

JobTypes == jobs \in [Jobs -> Job \cup {Free}]

LEMMA TypeParts == TypeOK <=> LogTypes /\ BrokerTypes /\ CountTypes /\ JobTypes
  BY DEF TypeOK, LogTypes, BrokerTypes, CountTypes, JobTypes

LEMMA TypePartsNext == LogTypes' /\ BrokerTypes' /\ CountTypes' /\ JobTypes' => TypeOK'
  BY DEF TypeOK, LogTypes, BrokerTypes, CountTypes, JobTypes

LEMMA NewProcessTypes ==
    ASSUME TypeOK, NewProcess
    PROVE  LogTypes' /\ CountTypes' /\ JobTypes'
           /\ message' \in [Events -> {"absent", "ready", "again", "unacked", "acked", "dead"}]
           /\ connected' \in BOOLEAN /\ answered' \subseteq Events /\ posts' = posts
<1>1. unsure' \subseteq Keys
  BY DEF NewProcess, TypeOK
<1>2. LogTypes'
  BY <1>1 DEF NewProcess, TypeOK, LogTypes
<1>3. JobTypes' /\ CountTypes'
  BY DEF NewProcess, JobTypes, CountTypes
<1>4. message' \in [Events -> {"absent", "ready", "again", "unacked", "acked", "dead"}]
  BY DEF NewProcess, TypeOK
<1> QED
  BY <1>2, <1>3, <1>4 DEF NewProcess, TypeOK

LEMMA JobStepTypes ==
    ASSUME TypeOK, NEW w \in Jobs, JobStep(w)
    PROVE  TypeOK'
<1>0. LogTypes /\ BrokerTypes /\ CountTypes /\ JobTypes
  BY TypeParts
<1>1. CASE Look(w)
  <2>1. jobs[w].key \in Keys /\ JobTypes'
    BY <1>1, LookDoes, BusyIsJob DEF Others, JobTypes
  <2>2. LogTypes' /\ BrokerTypes' /\ CountTypes'
    BY <1>0, <1>1, <2>1 DEF Look, LogTypes, BrokerTypes, CountTypes
  <2> QED
    BY <2>1, <2>2, TypePartsNext
<1>2. CASE Admit(w)
  <2>1. JobTypes'
    BY <1>2, AdmitDoes DEF Others, JobTypes
  <2>2. LogTypes' /\ BrokerTypes' /\ CountTypes'
    BY <1>0, <1>2 DEF Admit, LogTypes, BrokerTypes, CountTypes
  <2> QED
    BY <2>1, <2>2, TypePartsNext
<1>3. CASE Insert(w)
  <2>1. JobTypes' /\ (row' = row \/ row' = [row EXCEPT ![jobs[w].key] = "pending"])
    BY <1>3, InsertDoes DEF Others, JobTypes
  <2>2. LogTypes' /\ BrokerTypes' /\ CountTypes'
    BY <1>0, <1>3, <2>1 DEF Insert, LogTypes, BrokerTypes, CountTypes, Statuses
  <2> QED
    BY <2>1, <2>2, TypePartsNext
<1>4. CASE QueryFails(w)
  <2>1. JobTypes'
    BY <1>4, QueryFailsDoes DEF Others, JobTypes
  <2>2. LogTypes' /\ BrokerTypes' /\ CountTypes'
    BY <1>0, <1>4 DEF QueryFails, LogTypes, BrokerTypes, CountTypes, Statuses
  <2> QED
    BY <2>1, <2>2, TypePartsNext
<1>5. ASSUME NEW taken \in BOOLEAN, NEW outcome \in {"sent", "failed"}, Send(w, taken, outcome)
      PROVE  TypeOK'
  <2>1. JobTypes' /\ jobs[w].key \in Keys
    BY <1>5, SendDoes, BusyIsJob DEF Others, JobTypes
  <2>2. mails' \in [Keys -> Nat]
    <3>1. mails' = mails \/ mails' = [mails EXCEPT ![jobs[w].key] = @ + 1]
      BY <1>5 DEF Send
    <3> QED
      BY <1>0, <2>1, <3>1 DEF LogTypes
  <2>3. LogTypes' /\ BrokerTypes' /\ CountTypes'
    BY <1>0, <1>5, <2>1, <2>2 DEF Send, LogTypes, BrokerTypes, CountTypes
  <2> QED
    BY <2>1, <2>3, TypePartsNext
<1>6. CASE Record(w)
  <2>1. JobTypes' /\ jobs[w].key \in Keys /\ jobs[w].outcome \in {"none", "sent", "failed", "limited"}
    BY <1>6, RecordDoes, BusyIsJob DEF Others, JobTypes
  <2>2. row' = row \/ row' = [row EXCEPT ![jobs[w].key] = jobs[w].outcome]
    BY <1>6 DEF Record
  <2>3. row' \in [Keys -> Statuses]
    BY <1>0, <2>1, <2>2 DEF LogTypes, Statuses, Outcomes
  <2>4. LogTypes' /\ BrokerTypes' /\ CountTypes'
    BY <1>0, <1>6, <2>1, <2>3 DEF Record, LogTypes, BrokerTypes, CountTypes
  <2> QED
    BY <2>1, <2>4, TypePartsNext
<1>7. CASE RecordFails(w)
  <2>1. JobTypes' /\ jobs[w].key \in Keys
    BY <1>7, RecordDoes, BusyIsJob DEF Others, JobTypes
  <2>2. LogTypes' /\ BrokerTypes' /\ CountTypes'
    BY <1>0, <1>7, <2>1 DEF RecordFails, LogTypes, BrokerTypes, CountTypes
  <2> QED
    BY <2>1, <2>2, TypePartsNext
<1>8. CASE Count(w)
  <2>1. JobTypes' /\ jobs[w].key \in Keys
    BY <1>8, CountDoes, BusyIsJob DEF Others, JobTypes
  <2>2. To(jobs[w].key) \in Recipients
    BY <2>1, KeyParts
  <2>3. window' = window \/ window' = [window EXCEPT ![To(jobs[w].key)] = @ + 1]
    BY <1>8 DEF Count
  <2>4. CountTypes'
    BY <1>0, <2>2, <2>3 DEF CountTypes
  <2>5. LogTypes' /\ BrokerTypes'
    BY <1>0, <1>8 DEF Count, LogTypes, BrokerTypes
  <2> QED
    BY <2>1, <2>4, <2>5, TypePartsNext
<1>9. CASE SettleMessage(w)
  <2>1. CASE connected /\ jobs' = [jobs EXCEPT ![w] = Free]
    <3>1. JobTypes'
      BY <2>1, SettleDoes DEF Others, JobTypes
    <3>2. Settled(jobs[w]) \in {"acked", "dead", "again"}
      <4>1. Busy(w) /\ jobs[w].at \in {"returned", "threw"}
        BY <1>9, StagedIsBusy DEF SettleMessage, At
      <4>2. jobs[w].again \in BOOLEAN
        BY <4>1, BusyIsJob
      <4> QED
        BY <4>1, <4>2 DEF Settled
    <3>3. message' = [message EXCEPT ![EventOf(jobs[w])] = Settled(jobs[w])] \/ NewProcess
      BY <1>9 DEF SettleMessage
    <3>4. BrokerTypes' /\ LogTypes' /\ CountTypes'
      <4>1. CASE NewProcess
        BY <1>0, <1>9, <4>1, NewProcessTypes DEF BrokerTypes, SettleMessage
      <4>2. CASE ~NewProcess
        BY <1>0, <1>9, <3>2, <3>3, <4>2 DEF SettleMessage, BrokerTypes, LogTypes, CountTypes
      <4> QED
        BY <4>1, <4>2
    <3> QED
      BY <3>1, <3>4, TypePartsNext
  <2>2. CASE NewProcess
    <3>1. BrokerTypes'
      BY <1>0, <1>9, <2>2, NewProcessTypes DEF BrokerTypes, SettleMessage
    <3> QED
      BY <2>2, <3>1, NewProcessTypes, TypePartsNext
  <2> QED
    BY <1>9, <2>1, <2>2 DEF SettleMessage
<1>10. CASE SettlePost(w)
  <2>1. jobs' = [jobs EXCEPT ![w] = Free]
    BY <1>10 DEF SettlePost
  <2>2. JobTypes'
    BY <2>1, SettleDoes DEF Others, JobTypes
  <2>3. EventOf(jobs[w]) \in Events
    <3>1. Busy(w)
      BY <1>10, StagedIsBusy DEF SettlePost
    <3> QED
      BY <3>1, BusyIsJob
  <2>4. LogTypes' /\ BrokerTypes' /\ CountTypes'
    BY <1>0, <1>10, <2>3 DEF SettlePost, LogTypes, BrokerTypes, CountTypes
  <2> QED
    BY <2>2, <2>4, TypePartsNext
<1> QED
  BY <1>1, <1>2, <1>3, <1>4, <1>5, <1>6, <1>7, <1>8, <1>9, <1>10 DEF JobStep

LEMMA StepTypes ==
    ASSUME TypeOK, [Next]_vars
    PROVE  TypeOK'
<1>0. /\ LogTypes /\ BrokerTypes /\ CountTypes /\ JobTypes
      /\ MaxPosts \in Nat /\ MaxLosses \in Nat
  BY TypeParts, NotificationsAssumption
<1>1. ASSUME NEW w \in Consumers, NEW e \in Events, Consume(w, e)
      PROVE  TypeOK'
  <2>1. JobTypes'
    BY <1>1, ArrivalDoes DEF Others, JobTypes, Jobs
  <2>2. LogTypes' /\ BrokerTypes' /\ CountTypes'
    BY <1>0, <1>1 DEF Consume, LogTypes, BrokerTypes, CountTypes
  <2> QED
    BY <2>1, <2>2, TypePartsNext
<1>2. ASSUME NEW w \in Posts, NEW e \in Events, Post(w, e)
      PROVE  TypeOK'
  <2>1. JobTypes'
    BY <1>2, ArrivalDoes DEF Others, JobTypes, Jobs
  <2>2. LogTypes' /\ BrokerTypes' /\ CountTypes'
    BY <1>0, <1>2 DEF Post, LogTypes, BrokerTypes, CountTypes
  <2> QED
    BY <2>1, <2>2, TypePartsNext
<1>3. ASSUME NEW r \in Recipients, HourPasses(r)
      PROVE  TypeOK'
  BY <1>3 DEF HourPasses, TypeOK
<1>4. CASE Restart
  <2>1. BrokerTypes'
    BY <1>0, <1>4, NewProcessTypes DEF BrokerTypes, Restart
  <2> QED
    BY <1>4, <2>1, NewProcessTypes, TypePartsNext DEF Restart
<1>5. CASE ConnectionLost
  <2>1. LogTypes' /\ CountTypes' /\ JobTypes'
    BY <1>0, <1>5 DEF ConnectionLost, LogTypes, CountTypes, JobTypes
  <2>2. /\ message' \in [Events -> {"absent", "ready", "again", "unacked", "acked", "dead"}]
        /\ losses' \in 0..MaxLosses
    BY <1>0, <1>5 DEF ConnectionLost, BrokerTypes
  <2>3. connected' \in BOOLEAN
    BY <1>5 DEF ConnectionLost
  <2>4. answered' \subseteq Events /\ posts' \in 0..MaxPosts
    BY <1>0, <1>5 DEF ConnectionLost, BrokerTypes
  <2>5. BrokerTypes'
    BY <2>2, <2>3, <2>4 DEF BrokerTypes
  <2> QED
    BY <2>1, <2>5, TypePartsNext
<1>6. CASE UNCHANGED vars
  BY <1>6 DEF vars, TypeOK
<1> QED
  BY <1>1, <1>2, <1>3, <1>4, <1>5, <1>6, JobStepTypes DEF Next

-----------------------------------------------------------------------------
(* The log grows. *)

\* A row is never deleted and never becomes pending again, a mail is never
\* taken back.
Grows(k) ==
    /\ row[k] # "none" => row'[k] # "none"
    /\ row[k] \in Outcomes => row'[k] \in Outcomes
    /\ unlogged \subseteq unlogged'
    /\ mails[k] > 0 => mails'[k] > 0

LEMMA SameGrows ==
    ASSUME TypeOK, NEW k \in Keys, row' = row, unlogged \subseteq unlogged', mails' = mails
    PROVE  Grows(k)
  BY DEF Grows, TypeOK

LEMMA LogGrows ==
    ASSUME TypeOK, StagesOK, [Next]_vars
    PROVE  \A k \in Keys : Grows(k)
<1> SUFFICES ASSUME NEW k \in Keys PROVE Grows(k)
  OBVIOUS
<1>0. row \in [Keys -> Statuses] /\ mails[k] \in Nat
  BY DEF TypeOK
<1>1. ASSUME NEW w \in Jobs, JobStep(w)
      PROVE  Grows(k)
  <2>1. CASE Insert(w) \/ QueryFails(w)
    <3>1. mails' = mails /\ unlogged' = unlogged
      BY <2>1 DEF Insert, QueryFails
    <3>2. \/ row' = row
          \/ row[jobs[w].key] = "none" /\ row' = [row EXCEPT ![jobs[w].key] = "pending"]
      BY <2>1 DEF Insert, QueryFails
    <3> QED
      BY <1>0, <3>1, <3>2 DEF Grows, Outcomes
  <2>2. ASSUME NEW taken \in BOOLEAN, NEW outcome \in {"sent", "failed"}, Send(w, taken, outcome)
        PROVE  Grows(k)
    <3>1. row' = row /\ unlogged' = unlogged
          /\ (mails' = mails \/ mails' = [mails EXCEPT ![jobs[w].key] = @ + 1])
      BY <2>2 DEF Send
    <3>2. mails[k] > 0 => mails'[k] > 0
      BY <1>0, <3>1 DEF TypeOK
    <3> QED
      BY <3>1, <3>2 DEF Grows
  <2>3. CASE Record(w)
    <3>1. Busy(w) /\ jobs[w].at = "record"
      BY <2>3, RecordDoes
    <3>2. jobs[w].outcome \in Outcomes
      BY <3>1, BusyIsJob DEF StagesOK, StageOK, Outcomes
    <3>3. /\ mails' = mails /\ unlogged \subseteq unlogged'
          /\ (row' = row \/ row' = [row EXCEPT ![jobs[w].key] = jobs[w].outcome])
      BY <2>3 DEF Record
    <3> QED
      BY <1>0, <3>2, <3>3 DEF Grows, Outcomes
  <2>4. CASE Look(w) \/ Admit(w) \/ RecordFails(w) \/ Count(w) \/ SettleMessage(w) \/ SettlePost(w)
    <3>1. row' = row /\ mails' = mails /\ unlogged \subseteq unlogged'
      BY <2>4 DEF Look, Admit, RecordFails, Count, SettleMessage, SettlePost, NewProcess
    <3> QED
      BY <3>1, SameGrows
  <2> QED
    BY <1>1, <2>1, <2>2, <2>3, <2>4 DEF JobStep
<1>2. CASE \/ \E w \in Consumers, e \in Events : Consume(w, e)
           \/ \E w \in Posts, e \in Events : Post(w, e)
           \/ \E r \in Recipients : HourPasses(r)
           \/ Restart \/ ConnectionLost \/ UNCHANGED vars
  <2>1. row' = row /\ mails' = mails /\ unlogged' = unlogged
    BY <1>2 DEF Consume, Post, HourPasses, Restart, NewProcess, ConnectionLost, vars
  <2> QED
    BY <2>1, SameGrows
<1> QED
  BY <1>1, <1>2 DEF Next

LEMMA LoggedStays ==
    ASSUME NEW k, Grows(k), Logged(k)
    PROVE  Logged(k)'
  BY DEF Grows, Logged

LEMMA StageStays ==
    ASSUME TypeOK, NEW v \in Jobs, jobs'[v] = jobs[v], Busy(v) => StageOK(v),
           \A k \in Keys : Grows(k)
    PROVE  Busy(v)' => StageOK(v)'
<1> SUFFICES ASSUME Busy(v) PROVE StageOK(v)'
  BY DEF Busy
<1>1. PICK k \in Keys : k = jobs[v].key
  BY BusyIsJob
<1>2. Grows(k)
  BY <1>1
<1>3. Logged(k) => Logged(k)'
  BY <1>2, LoggedStays
<1>4. /\ jobs[v].at \in {"count", "returned"} => Logged(k)'
      /\ jobs[v].at = "returned" => k[2] = Len(Mails[EventOf(jobs[v])])
  BY <1>1, <1>3 DEF StageOK
<1>5. /\ jobs[v].at = "admit" /\ jobs[v].seen # "none" => row'[k] # "none"
      /\ jobs[v].at = "admit" /\ jobs[v].seen = "sent" => row'[k] \in Outcomes
      /\ jobs[v].at = "send" => row'[k] # "none"
      /\ jobs[v].at = "record" => jobs[v].outcome # "none"
      /\ jobs[v].at = "record" /\ jobs[v].outcome = "sent" =>
           row'[k] # "none" /\ mails'[k] > 0
  BY <1>1, <1>2 DEF Grows, StageOK
<1>6. jobs'[v].key = k
  BY <1>1
<1> QED
  BY <1>4, <1>5, <1>6 DEF StageOK, EventOf, Logged

LEMMA MoverStages ==
    ASSUME TypeOK, StagesOK, \A k \in Keys : Grows(k),
           NEW w \in Jobs, Others(w), Busy(w)' => StageOK(w)'
    PROVE  StagesOK'
<1> SUFFICES ASSUME NEW v \in Jobs PROVE Busy(v)' => StageOK(v)'
  BY DEF StagesOK, Jobs
<1>1. CASE v = w
  BY <1>1
<1>2. CASE v # w
  <2>1. jobs'[v] = jobs[v] /\ (Busy(v) => StageOK(v))
    BY <1>2 DEF Others, StagesOK
  <2> QED
    BY <2>1, StageStays
<1> QED
  BY <1>1, <1>2

\* A new process has nothing in flight.
LEMMA NewProcessIsIdle ==
    ASSUME NewProcess
    PROVE  \A w \in Jobs : ~Busy(w)'
  BY DEF NewProcess, Busy

\* Where a delivery stands after it proceeds from a key it has logged.
LEMMA ProceedStage ==
    ASSUME NEW w \in Jobs, jobs[w] \in Job, jobs'[w] = Proceed(jobs[w]),
           NEW k \in Keys, k = jobs[w].key, Logged(k)'
    PROVE  StageOK(w)'
<1>1. \/ jobs'[w].at = "look"
      \/ /\ jobs'[w].at = "returned" /\ jobs'[w].key = k
         /\ k[2] = Len(Mails[EventOf(jobs[w])])
  BY ProceedMoves
<1>2. CASE jobs'[w].at = "look"
  BY <1>2 DEF StageOK
<1>3. CASE /\ jobs'[w].at = "returned" /\ jobs'[w].key = k
           /\ k[2] = Len(Mails[EventOf(jobs[w])])
  BY <1>3 DEF StageOK, Logged, EventOf
<1> QED
  BY <1>1, <1>2, <1>3

LEMMA JobStepStages ==
    ASSUME TypeOK, StagesOK, \A k \in Keys : Grows(k), NEW w \in Jobs, JobStep(w)
    PROVE  StagesOK'
<1> USE DEF StageOK
<1>0. row \in [Keys -> Statuses] /\ mails \in [Keys -> Nat]
  BY DEF TypeOK
<1>1. CASE Look(w)
  <2>1. PICK k \in Keys : k = jobs[w].key
    BY <1>1, LookDoes, BusyIsJob
  <2>2. Others(w) /\ jobs'[w].at = "admit" /\ jobs'[w].key = k /\ jobs'[w].seen = row[k]
    BY <1>1, <2>1, LookDoes
  <2>3. row' = row
    BY <1>1 DEF Look
  <2> QED
    BY <2>2, <2>3, MoverStages DEF Outcomes
<1>2. CASE Admit(w)
  <2>1. PICK k \in Keys : k = jobs[w].key
    BY <1>2, AdmitDoes, BusyIsJob
  <2>2. Others(w) /\ jobs[w] \in Job /\ jobs[w].at = "admit" /\ StageOK(w)
    BY <1>2, AdmitDoes DEF StagesOK
  <2>3. row' = row
    BY <1>2 DEF Admit
  <2>4. CASE jobs[w].seen = "sent" /\ jobs'[w] = Proceed(jobs[w])
    <3>1. row'[k] \in Outcomes
      BY <2>1, <2>2, <2>3, <2>4
    <3>2. Logged(k)'
      BY <3>1 DEF Logged
    <3> QED
      BY <2>1, <2>2, <2>4, <3>2, ProceedStage, MoverStages
  <2>5. CASE jobs'[w].at = "record" /\ jobs'[w].outcome = "limited"
    BY <2>2, <2>5, MoverStages
  <2>6. CASE jobs'[w].at = "insert"
    BY <2>2, <2>6, MoverStages
  <2>7. CASE jobs[w].seen \notin {"none", "sent"} /\ jobs'[w].key = jobs[w].key /\ jobs'[w].at = "send"
    BY <2>1, <2>2, <2>3, <2>7, MoverStages
  <2> QED
    BY <1>2, <2>4, <2>5, <2>6, <2>7, AdmitDoes
<1>3. CASE Insert(w)
  <2>1. PICK k \in Keys : k = jobs[w].key
    BY <1>3, InsertDoes, BusyIsJob
  <2>2. /\ Others(w) /\ jobs'[w].key = k
        /\ \/ jobs'[w].at = "send" /\ row' = [row EXCEPT ![k] = "pending"]
           \/ jobs'[w].at = "threw"
    BY <1>3, <2>1, InsertDoes
  <2>3. jobs'[w].at = "send" => row'[k] # "none"
    BY <1>0, <2>2
  <2> QED
    BY <2>2, <2>3, MoverStages
<1>4. CASE QueryFails(w)
  BY <1>4, QueryFailsDoes, MoverStages
<1>5. ASSUME NEW taken \in BOOLEAN, NEW outcome \in {"sent", "failed"}, Send(w, taken, outcome)
      PROVE  StagesOK'
  <2>1. PICK k \in Keys : k = jobs[w].key
    BY <1>5, SendDoes, BusyIsJob
  <2>2. /\ Others(w) /\ jobs'[w].key = k /\ jobs'[w].at = "record" /\ jobs'[w].outcome = outcome
        /\ jobs[w].at = "send" /\ StageOK(w) /\ (outcome = "sent" => taken)
    BY <1>5, <2>1, SendDoes DEF StagesOK
  <2>3. row' = row /\ (taken => mails' = [mails EXCEPT ![k] = @ + 1])
    BY <1>5, <2>1 DEF Send
  <2>4. row'[k] # "none" /\ (outcome = "sent" => mails'[k] > 0)
    BY <1>0, <2>1, <2>2, <2>3
  <2> QED
    BY <2>2, <2>4, MoverStages
<1>6. CASE Record(w) \/ RecordFails(w)
  <2>1. PICK k \in Keys : k = jobs[w].key
    BY <1>6, RecordDoes, BusyIsJob
  <2>2. /\ Others(w) /\ jobs'[w].key = k /\ jobs'[w].at = "count"
        /\ Busy(w) /\ jobs[w].at = "record" /\ StageOK(w)
    BY <1>6, <2>1, RecordDoes DEF StagesOK
  <2>3. jobs[w].outcome \in Outcomes
    BY <2>2, BusyIsJob DEF Outcomes
  <2>4. \/ k \in unlogged'
        \/ row' = [row EXCEPT ![k] = jobs[w].outcome]
    BY <1>6, <2>1 DEF Record, RecordFails
  <2>5. Logged(k)'
    BY <1>0, <2>3, <2>4 DEF Logged
  <2> QED
    BY <2>2, <2>5, MoverStages DEF Logged
<1>7. CASE Count(w)
  <2>1. PICK k \in Keys : k = jobs[w].key
    BY <1>7, CountDoes, BusyIsJob
  <2>2. /\ Others(w) /\ jobs[w] \in Job /\ jobs'[w] = Proceed(jobs[w])
        /\ jobs[w].at = "count" /\ StageOK(w)
    BY <1>7, CountDoes DEF StagesOK
  <2>3. Logged(k)
    BY <2>1, <2>2
  <2>4. Logged(k)'
    BY <2>3, LoggedStays
  <2> QED
    BY <2>1, <2>2, <2>4, ProceedStage, MoverStages
<1>8. CASE SettleMessage(w) \/ SettlePost(w)
  <2>1. CASE NewProcess
    BY <2>1, NewProcessIsIdle DEF StagesOK, Jobs
  <2>2. CASE jobs' = [jobs EXCEPT ![w] = Free]
    BY <2>2, SettleDoes, MoverStages
  <2> QED
    BY <1>8, <2>1, <2>2 DEF SettleMessage, SettlePost
<1> QED
  BY <1>1, <1>2, <1>3, <1>4, <1>5, <1>6, <1>7, <1>8 DEF JobStep

LEMMA StagesStay ==
    ASSUME TypeOK, StagesOK, [Next]_vars
    PROVE  StagesOK'
<1>0. \A k \in Keys : Grows(k)
  BY LogGrows
<1>1. ASSUME NEW w \in Jobs, NEW e \in Events, Consume(w, e) \/ Post(w, e)
      PROVE  StagesOK'
  <2>1. Others(w) /\ jobs'[w].at = "look"
    BY <1>1, ArrivalDoes
  <2>2. StageOK(w)'
    BY <2>1 DEF StageOK
  <2> QED
    BY <1>0, <2>1, <2>2, MoverStages
<1>2. CASE Restart
  BY <1>2, NewProcessIsIdle DEF Restart, StagesOK, Jobs
<1>3. CASE (\E r \in Recipients : HourPasses(r)) \/ ConnectionLost \/ UNCHANGED vars
  <2>1. jobs' = jobs
    BY <1>3 DEF HourPasses, ConnectionLost, vars
  <2> SUFFICES ASSUME NEW v \in Jobs PROVE Busy(v)' => StageOK(v)'
    BY DEF StagesOK, Jobs
  <2> QED
    BY <1>0, <2>1, StageStays DEF StagesOK
<1> QED
  BY <1>0, <1>1, <1>2, <1>3, JobStepStages DEF Next, Jobs

-----------------------------------------------------------------------------
(* What a delivery leaves behind is logged. *)

PassedOf(w) ==
    \A k \in Keys : EventOf(jobs[w]) = k[1] /\ k[2] < jobs[w].key[2] => Logged(k)

LEMMA MoverPasses ==
    ASSUME PassedLogged, \A k \in Keys : Grows(k),
           NEW w \in Jobs, Others(w), Busy(w)' => PassedOf(w)'
    PROVE  PassedLogged'
<1> SUFFICES ASSUME NEW v \in Jobs, NEW k \in Keys, Busy(v)',
                    EventOf(jobs'[v]) = k[1], k[2] < jobs'[v].key[2]
             PROVE  Logged(k)'
  BY DEF PassedLogged, Jobs, Keys, EventOf
<1>1. CASE v = w
  BY <1>1 DEF PassedOf, EventOf
<1>2. CASE v # w
  <2>1. jobs'[v] = jobs[v]
    BY <1>2 DEF Others
  <2>2. Logged(k)
    BY <2>1 DEF PassedLogged, Busy
  <2> QED
    BY <2>2, LoggedStays
<1> QED
  BY <1>1, <1>2

LEMMA SameKeyPasses ==
    ASSUME PassedLogged, \A k \in Keys : Grows(k),
           NEW w \in Jobs, Busy(w), jobs'[w].key = jobs[w].key
    PROVE  PassedOf(w)'
<1> SUFFICES ASSUME NEW k \in Keys, EventOf(jobs'[w]) = k[1], k[2] < jobs'[w].key[2]
             PROVE  Logged(k)'
  BY DEF PassedOf, EventOf
<1>1. Logged(k)
  BY DEF PassedLogged, EventOf
<1> QED
  BY <1>1, LoggedStays

LEMMA ProceedPasses ==
    ASSUME PassedLogged, \A k \in Keys : Grows(k),
           NEW w \in Jobs, Busy(w), jobs[w] \in Job, jobs'[w] = Proceed(jobs[w]),
           NEW c \in Keys, c = jobs[w].key, Logged(c)'
    PROVE  PassedOf(w)'
<1>1. CASE jobs'[w].key = jobs[w].key
  BY <1>1, SameKeyPasses
<1>2. CASE jobs'[w].key[2] = c[2] + 1
  <2> SUFFICES ASSUME NEW k \in Keys, EventOf(jobs'[w]) = k[1], k[2] < jobs'[w].key[2]
               PROVE  Logged(k)'
    BY DEF PassedOf, EventOf
  <2>1. EventOf(jobs[w]) = k[1] /\ c[1] = k[1]
    BY ProceedMoves DEF EventOf
  <2>2. k[2] \in Nat /\ c[2] \in Nat /\ k = <<k[1], k[2]>> /\ c = <<c[1], c[2]>>
    BY KeyParts
  <2>3. k[2] < c[2] \/ k = c
    BY <1>2, <2>1, <2>2
  <2>4. CASE k[2] < c[2]
    <3>1. Logged(k)
      BY <2>1, <2>4 DEF PassedLogged
    <3> QED
      BY <3>1, LoggedStays
  <2> QED
    BY <2>3, <2>4
<1> QED
  BY <1>1, <1>2, ProceedMoves

LEMMA PassedStays ==
    ASSUME TypeOK, StagesOK, PassedLogged, [Next]_vars
    PROVE  PassedLogged'
<1>0. \A k \in Keys : Grows(k)
  BY LogGrows
<1>1. ASSUME NEW w \in Jobs, NEW e \in Events, Consume(w, e) \/ Post(w, e)
      PROVE  PassedLogged'
  <2>1. Others(w) /\ jobs'[w].key[2] = 1
    BY <1>1, ArrivalDoes
  <2>2. PassedOf(w)'
    <3> SUFFICES ASSUME NEW k \in Keys, k[2] < jobs'[w].key[2] PROVE FALSE
      BY DEF PassedOf
    <3> QED
      BY <2>1, KeyParts
  <2> QED
    BY <1>0, <2>1, <2>2, MoverPasses
<1>2. ASSUME NEW w \in Jobs, JobStep(w)
      PROVE  PassedLogged'
  <2>1. CASE Look(w) \/ Insert(w) \/ QueryFails(w) \/ Record(w) \/ RecordFails(w)
             \/ \E taken \in BOOLEAN, outcome \in {"sent", "failed"} : Send(w, taken, outcome)
    <3>1. Others(w) /\ Busy(w) /\ jobs'[w].key = jobs[w].key
      BY <2>1, LookDoes, InsertDoes, QueryFailsDoes, RecordDoes, SendDoes
    <3> QED
      BY <1>0, <3>1, SameKeyPasses, MoverPasses
  <2>2. CASE Admit(w)
    <3>1. PICK k \in Keys : k = jobs[w].key
      BY <2>2, AdmitDoes, BusyIsJob
    <3>2. Others(w) /\ Busy(w) /\ jobs[w] \in Job /\ jobs[w].at = "admit" /\ StageOK(w)
      BY <2>2, AdmitDoes DEF StagesOK
    <3>3. CASE jobs'[w].key = jobs[w].key
      BY <1>0, <3>2, <3>3, SameKeyPasses, MoverPasses
    <3>4. CASE jobs[w].seen = "sent" /\ jobs'[w] = Proceed(jobs[w])
      <4>1. Logged(k)
        BY <3>1, <3>2, <3>4 DEF StageOK, Logged
      <4>2. Logged(k)'
        BY <1>0, <4>1, LoggedStays
      <4> QED
        BY <1>0, <3>1, <3>2, <3>4, <4>2, ProceedPasses, MoverPasses
    <3> QED
      BY <2>2, <3>3, <3>4, AdmitDoes
  <2>3. CASE Count(w)
    <3>1. PICK k \in Keys : k = jobs[w].key
      BY <2>3, CountDoes, BusyIsJob
    <3>2. /\ Others(w) /\ Busy(w) /\ jobs[w] \in Job /\ jobs'[w] = Proceed(jobs[w])
          /\ jobs[w].at = "count" /\ StageOK(w)
      BY <2>3, CountDoes DEF StagesOK
    <3>3. Logged(k)
      BY <3>1, <3>2 DEF StageOK
    <3>4. Logged(k)'
      BY <1>0, <3>3, LoggedStays
    <3> QED
      BY <1>0, <3>1, <3>2, <3>4, ProceedPasses, MoverPasses
  <2>4. CASE SettleMessage(w) \/ SettlePost(w)
    <3>1. CASE NewProcess
      BY <3>1, NewProcessIsIdle DEF PassedLogged, Jobs
    <3>2. CASE jobs' = [jobs EXCEPT ![w] = Free]
      BY <1>0, <3>2, SettleDoes, MoverPasses
    <3> QED
      BY <2>4, <3>1, <3>2 DEF SettleMessage, SettlePost
  <2> QED
    BY <1>2, <2>1, <2>2, <2>3, <2>4 DEF JobStep
<1>3. CASE Restart
  BY <1>3, NewProcessIsIdle DEF Restart, PassedLogged, Jobs
<1>4. CASE (\E r \in Recipients : HourPasses(r)) \/ ConnectionLost \/ UNCHANGED vars
  <2>1. jobs' = jobs
    BY <1>4 DEF HourPasses, ConnectionLost, vars
  <2> SUFFICES ASSUME NEW v \in Jobs, NEW k \in Keys, Busy(v)',
                      EventOf(jobs'[v]) = k[1], k[2] < jobs'[v].key[2]
               PROVE  Logged(k)'
    BY DEF PassedLogged, Jobs, Keys, EventOf
  <2>2. Logged(k)
    BY <2>1 DEF PassedLogged, Busy
  <2> QED
    BY <1>0, <2>2, LoggedStays
<1> QED
  BY <1>1, <1>2, <1>3, <1>4 DEF Next, Jobs

\* When the handler returns, each mail of its event is logged.
LEMMA ReturnedIsLogged ==
    ASSUME TypeOK, StagesOK, PassedLogged, NEW w \in Jobs, Busy(w), jobs[w].at = "returned",
           NEW k \in Keys, EventOf(jobs[w]) = k[1]
    PROVE  Logged(k)
<1>1. PICK c \in Keys : c = jobs[w].key
  BY BusyIsJob
<1>2. Logged(c) /\ c[2] = Len(Mails[k[1]]) /\ c[1] = k[1]
  BY <1>1 DEF StagesOK, StageOK, EventOf
<1>3. k = <<k[1], k[2]>> /\ c = <<c[1], c[2]>> /\ k[2] \in Nat /\ c[2] \in Nat /\ k[2] <= c[2]
  BY <1>2, KeyParts
<1>4. k[2] < c[2] \/ k = c
  BY <1>2, <1>3
<1> QED
  BY <1>1, <1>2, <1>4 DEF PassedLogged

LEMMA EventsStayLogged ==
    ASSUME TypeOK, StagesOK, PassedLogged, EventIsLogged, [Next]_vars
    PROVE  EventIsLogged'
<1>0. \A k \in Keys : Grows(k)
  BY LogGrows
<1> SUFFICES ASSUME NEW k \in Keys, message'[k[1]] = "acked" \/ k[1] \in answered'
             PROVE  Logged(k)'
  BY DEF EventIsLogged, Logged
<1>e. k[1] \in Events
  BY KeyParts
<1>1. CASE message[k[1]] = "acked" \/ k[1] \in answered
  <2>1. Logged(k)
    BY <1>1 DEF EventIsLogged, Logged
  <2> QED
    BY <1>0, <2>1, LoggedStays
<1>2. CASE ~(message[k[1]] = "acked" \/ k[1] \in answered)
  <2>1. PICK w \in Jobs :
          Busy(w) /\ jobs[w].at = "returned" /\ EventOf(jobs[w]) = k[1]
    <3>1. ASSUME NEW w \in Jobs, SettleMessage(w), ~NewProcess
          PROVE  Busy(w) /\ jobs[w].at = "returned" /\ EventOf(jobs[w]) = k[1]
      <4>1. /\ message' = [message EXCEPT ![EventOf(jobs[w])] = Settled(jobs[w])]
            /\ answered' = answered
            /\ jobs[w].at = "returned" \/ jobs[w].at = "threw"
        BY <3>1 DEF SettleMessage, At
      <4>2. Busy(w) /\ jobs[w].again \in BOOLEAN
        BY <4>1, StagedIsBusy, BusyIsJob DEF At
      <4>3. EventOf(jobs[w]) = k[1] /\ Settled(jobs[w]) = "acked"
        BY <1>2, <1>e, <4>1 DEF TypeOK
      <4>4. jobs[w].at = "returned"
        BY <4>1, <4>2, <4>3 DEF Settled
      <4> QED
        BY <4>2, <4>3, <4>4
    <3>2. ASSUME NEW w \in Jobs, SettlePost(w)
          PROVE  Busy(w) /\ jobs[w].at = "returned" /\ EventOf(jobs[w]) = k[1]
      <4>1. message' = message /\ k[1] \in answered'
        BY <1>2, <3>2 DEF SettlePost
      <4>2. jobs[w].at = "returned" /\ EventOf(jobs[w]) = k[1]
        BY <1>2, <3>2, <4>1 DEF SettlePost, At
      <4> QED
        BY <4>2, StagedIsBusy DEF At
    <3>3. ASSUME \/ NewProcess
                 \/ \E w \in Jobs : \/ Look(w) \/ Admit(w) \/ Insert(w) \/ QueryFails(w)
                                    \/ Record(w) \/ RecordFails(w) \/ Count(w)
                 \/ \E w \in Jobs, taken \in BOOLEAN, outcome \in {"sent", "failed"} :
                      Send(w, taken, outcome)
                 \/ \E w \in Consumers, e \in Events : Consume(w, e)
                 \/ \E w \in Posts, e \in Events : Post(w, e)
                 \/ \E r \in Recipients : HourPasses(r)
                 \/ ConnectionLost \/ UNCHANGED vars
          PROVE  FALSE
      <4>1. answered' = answered
        BY <3>3 DEF NewProcess, Look, Admit, Insert, QueryFails, Record, RecordFails, Count,
                    Send, Consume, Post, HourPasses, ConnectionLost, vars
      <4>2. \/ message' = message
            \/ \E e \in Events : message' = [message EXCEPT ![e] = "unacked"]
            \/ message' = [e \in Events |-> IF message[e] = "unacked" THEN "again" ELSE message[e]]
        BY <3>3 DEF NewProcess, Look, Admit, Insert, QueryFails, Record, RecordFails, Count,
                    Send, Consume, Post, HourPasses, ConnectionLost, vars
      <4>3. message'[k[1]] = "acked" => message[k[1]] = "acked"
        BY <1>e, <4>2 DEF TypeOK
      <4> QED
        BY <1>2, <4>1, <4>3
    <3> QED
      BY <3>1, <3>2, <3>3 DEF Next, JobStep, Restart
  <2>2. Logged(k)
    BY <2>1, ReturnedIsLogged
  <2> QED
    BY <1>0, <2>2, LoggedStays
<1> QED
  BY <1>1, <1>2

-----------------------------------------------------------------------------
(* The log calls a mail sent only if it was. *)

\* Only an update of a mail that went out makes a row "sent".
LEMMA SentIsRecorded ==
    ASSUME TypeOK, [Next]_vars, NEW k \in Keys, row'[k] = "sent", row[k] # "sent"
    PROVE  \E w \in Jobs : Recording(w, k) /\ Record(w)
<1>0. row \in [Keys -> Statuses]
  BY DEF TypeOK
<1>1. ASSUME NEW w \in Jobs, Record(w)
      PROVE  Recording(w, k)
  <2>1. Busy(w) /\ jobs[w].at = "record"
    BY <1>1, RecordDoes
  <2>2. row' = row \/ row' = [row EXCEPT ![jobs[w].key] = jobs[w].outcome]
    BY <1>1 DEF Record
  <2>3. jobs[w].key = k /\ jobs[w].outcome = "sent"
    BY <1>0, <2>2
  <2> QED
    BY <2>1, <2>3 DEF Recording
<1>2. ASSUME NEW w \in Jobs, Insert(w) \/ QueryFails(w)
      PROVE  FALSE
  <2>1. row' = row \/ row' = [row EXCEPT ![jobs[w].key] = "pending"]
    BY <1>2 DEF Insert, QueryFails
  <2> QED
    BY <1>0, <2>1
<1>3. ASSUME row' = row PROVE FALSE
  BY <1>3
<1> QED
  BY <1>1, <1>2, <1>3
     DEF Next, JobStep, Look, Admit, Send, RecordFails, Count, SettleMessage, SettlePost,
         NewProcess, Consume, Post, HourPasses, Restart, ConnectionLost, vars

LEMMA SentStaysMailed ==
    ASSUME TypeOK, StagesOK, SentWasMailed, [Next]_vars
    PROVE  SentWasMailed'
<1> SUFFICES ASSUME NEW k \in Keys, row'[k] = "sent" PROVE mails'[k] > 0
  BY DEF SentWasMailed
<1>1. mails[k] > 0
  <2>1. CASE row[k] = "sent"
    BY <2>1 DEF SentWasMailed
  <2>2. CASE row[k] # "sent"
    <3>1. PICK w \in Jobs : Recording(w, k)
      BY <2>2, SentIsRecorded
    <3> QED
      BY <3>1 DEF Recording, StagesOK, StageOK
  <2> QED
    BY <2>1, <2>2
<1> QED
  BY <1>1, LogGrows DEF Grows

-----------------------------------------------------------------------------
(* A mail goes out once. *)

\* A step that arms no delivery for k, and loses no record of it.
LEMMA MailKept ==
    ASSUME NEW k \in Keys, MailOK(k), NEW w \in Jobs, Others(w),
           mails'[k] = mails[k], row[k] = "sent" => row'[k] = "sent",
           Armed(w, k)' => Armed(w, k),
           Recording(w, k) => Recording(w, k)' \/ row'[k] = "sent"
    PROVE  MailOK(k)'
<1>1. \A v \in Jobs : Armed(v, k)' => Armed(v, k)
  BY DEF Others, Armed, Busy
<1>2. \A v \in Jobs : Recording(v, k) => Recording(v, k)' \/ row'[k] = "sent"
  BY DEF Others, Recording, Busy
<1>3. mails'[k] <= 1 /\ (\A v \in Jobs : Armed(v, k)' => mails'[k] = 0)
  BY <1>1 DEF MailOK
<1>4. mails'[k] > 0 => row'[k] = "sent" \/ \E v \in Jobs : Recording(v, k)'
  BY <1>2 DEF MailOK
<1>5. \A v, u \in Jobs : Armed(v, k)' /\ Armed(u, k)' => v = u
  BY <1>1 DEF MailOK
<1> QED
  BY <1>3, <1>4, <1>5 DEF MailOK, Jobs

\* A step that arms w while no other delivery is armed and no mail is out.
LEMMA MailArmed ==
    ASSUME TypeOK, NEW k \in Keys, MailOK(k), NEW w \in Jobs, Others(w),
           mails'[k] = mails[k], row[k] # "sent",
           \A v \in Jobs \ {w} : ~Armed(v, k),
           \A v \in Jobs : ~Recording(v, k)
    PROVE  MailOK(k)'
<1>1. mails'[k] = 0
  <2>1. mails[k] \in Nat /\ ~(mails[k] > 0)
    BY DEF MailOK, TypeOK
  <2> QED
    BY <2>1
<1>2. \A v \in Jobs : Armed(v, k)' => v = w
  BY DEF Others, Armed, Busy
<1>3. \A v, u \in Jobs : Armed(v, k)' /\ Armed(u, k)' => v = u
  BY <1>2
<1> QED
  BY <1>1, <1>3 DEF MailOK, Jobs

LEMMA NewProcessMail ==
    ASSUME NEW k \in Keys, MailOK(k), NewProcess, k \notin unsure'
    PROVE  MailOK(k)'
<1>1. \A v \in Jobs : ~Recording(v, k) /\ ~Armed(v, k)'
  BY NewProcessIsIdle DEF NewProcess, Recording, Armed, At
<1>2. mails' = mails /\ row' = row
  BY DEF NewProcess
<1> QED
  BY <1>1, <1>2 DEF MailOK, Jobs

LEMMA JobStepMail ==
    ASSUME TypeOK, StagesOK, NEW k \in Keys, MailOK(k), k \notin crossed', k \notin unsure',
           NEW w \in Jobs, JobStep(w)
    PROVE  MailOK(k)'
<1>0. row \in [Keys -> Statuses] /\ mails \in [Keys -> Nat]
  BY DEF TypeOK
<1>1. CASE Look(w)
  <2>1. /\ Others(w) /\ jobs[w].at = "look" /\ jobs'[w].at = "admit"
        /\ jobs'[w].key = jobs[w].key /\ jobs'[w].seen = row[jobs[w].key]
        /\ row' = row /\ mails' = mails
    BY <1>1, LookDoes DEF Look
  <2>2. ~Recording(w, k)
    BY <2>1 DEF Recording
  <2>3. CASE Armed(w, k)'
    <3>1. jobs[w].key = k /\ row[k] \notin {"none", "sent"}
      BY <2>1, <2>3 DEF Armed
    <3>2. \A v \in Jobs \ {w} : ~Holds(v, k)
      BY <1>1, <3>1 DEF Look
    <3>3. \A v \in Jobs \ {w} : ~Armed(v, k) /\ ~Recording(v, k)
      BY <3>2 DEF Holds, Armed, Recording
    <3>4. \A v \in Jobs : ~Recording(v, k)
      BY <2>2, <3>3
    <3> QED
      BY <2>1, <3>1, <3>3, <3>4, MailArmed
  <2>4. CASE ~Armed(w, k)'
    BY <2>1, <2>2, <2>4, MailKept
  <2> QED
    BY <2>3, <2>4
<1>2. CASE Admit(w)
  <2>1. /\ Others(w) /\ Busy(w) /\ jobs[w] \in Job /\ jobs[w].at = "admit"
        /\ row' = row /\ mails' = mails
    BY <1>2, AdmitDoes DEF Admit
  <2>2. ~Recording(w, k)
    BY <2>1 DEF Recording
  <2>3. Armed(w, k)' => Armed(w, k)
    <3>1. jobs'[w].at # "admit"
      BY <1>2, <2>1, AdmitDoes, ProceedMoves
    <3>2. jobs'[w].at = "send" =>
            jobs[w].seen \notin {"none", "sent"} /\ jobs'[w].key = jobs[w].key
      BY <1>2, <2>1, AdmitDoes, ProceedMoves
    <3> QED
      BY <2>1, <3>1, <3>2 DEF Armed
  <2> QED
    BY <2>1, <2>2, <2>3, MailKept
<1>3. CASE Insert(w)
  <2>1. /\ Others(w) /\ Busy(w) /\ jobs[w].at = "insert" /\ jobs'[w].key = jobs[w].key
        /\ \/ /\ row[jobs[w].key] = "none" /\ jobs'[w].at = "send"
              /\ row' = [row EXCEPT ![jobs[w].key] = "pending"]
           \/ jobs'[w].at = "threw" /\ row' = row
    BY <1>3, InsertDoes
  <2>2. mails' = mails /\ ~Recording(w, k)
    BY <1>3, <2>1 DEF Insert, Recording
  <2>3. row[k] = "sent" => row'[k] = "sent"
    BY <1>0, <2>1
  <2>4. CASE Armed(w, k)'
    <3>1. jobs[w].key = k /\ row[k] = "none"
      BY <2>1, <2>4 DEF Armed
    <3>2. \A v \in Jobs : ~Armed(v, k) /\ ~Recording(v, k)
      BY <3>1 DEF Armed, Recording, StagesOK, StageOK
    <3> QED
      BY <2>1, <2>2, <3>1, <3>2, MailArmed
  <2>5. CASE ~Armed(w, k)'
    BY <2>1, <2>2, <2>3, <2>5, MailKept
  <2> QED
    BY <2>4, <2>5
<1>4. CASE QueryFails(w)
  <2>1. Others(w) /\ jobs[w].at \in {"look", "insert"} /\ jobs'[w].at = "threw" /\ mails' = mails
    BY <1>4, QueryFailsDoes DEF QueryFails
  <2>2. ~Recording(w, k) /\ ~Armed(w, k)'
    BY <2>1 DEF Recording, Armed
  <2>3. row[k] = "sent" => row'[k] = "sent"
    BY <1>0, <1>4 DEF QueryFails
  <2> QED
    BY <2>1, <2>2, <2>3, MailKept
<1>5. ASSUME NEW taken \in BOOLEAN, NEW outcome \in {"sent", "failed"}, Send(w, taken, outcome)
      PROVE  MailOK(k)'
  <2>1. /\ Others(w) /\ Busy(w) /\ jobs[w].at = "send" /\ jobs'[w].at = "record" /\ Busy(w)'
        /\ jobs'[w].key = jobs[w].key /\ jobs'[w].outcome = outcome
        /\ (outcome = "sent" => taken) /\ row' = row
    BY <1>5, SendDoes DEF Send
  <2>2. ~Recording(w, k) /\ ~Armed(w, k)'
    BY <2>1 DEF Recording, Armed
  <2>3. CASE jobs[w].key = k /\ taken
    <3>1. outcome = "sent" /\ mails'[k] = mails[k] + 1
      BY <1>0, <1>5, <2>3 DEF Send
    <3>2. Armed(w, k)
      BY <2>1, <2>3 DEF Armed
    <3>3. mails'[k] = 1
      BY <3>1, <3>2 DEF MailOK
    <3>4. Recording(w, k)'
      BY <2>1, <2>3, <3>1 DEF Recording
    <3>5. \A v \in Jobs : ~Armed(v, k)'
      <4> SUFFICES ASSUME NEW v \in Jobs, Armed(v, k)' PROVE FALSE
        OBVIOUS
      <4>1. v # w
        BY <2>2
      <4>2. Armed(v, k)
        BY <2>1, <4>1 DEF Others, Armed, Busy
      <4> QED
        BY <3>2, <4>1, <4>2 DEF MailOK
    <3> QED
      BY <3>3, <3>4, <3>5 DEF MailOK, Jobs
  <2>4. CASE ~(jobs[w].key = k /\ taken)
    <3>1. mails'[k] = mails[k]
      BY <1>0, <1>5, <2>4 DEF Send
    <3> QED
      BY <2>1, <2>2, <3>1, MailKept
  <2> QED
    BY <2>3, <2>4
<1>6. CASE Record(w)
  <2>1. /\ Others(w) /\ Busy(w) /\ jobs[w].at = "record" /\ jobs'[w].at = "count" /\ mails' = mails
    BY <1>6, RecordDoes DEF Record
  <2>2. ~Armed(w, k)'
    BY <2>1 DEF Armed
  <2>3. row[k] = "sent" => row'[k] = "sent"
    BY <1>0, <1>6 DEF Record
  <2>4. Recording(w, k) => row'[k] = "sent"
    <3>1. Recording(w, k) => row[k] # "none"
      BY DEF Recording, StagesOK, StageOK
    <3> QED
      BY <1>0, <1>6, <3>1 DEF Record, Recording
  <2> QED
    BY <2>1, <2>2, <2>3, <2>4, MailKept
<1>7. CASE RecordFails(w)
  <2>1. /\ Others(w) /\ jobs'[w].at = "count" /\ mails' = mails /\ row' = row
    BY <1>7, RecordDoes DEF RecordFails
  <2>2. ~Armed(w, k)'
    BY <2>1 DEF Armed
  <2>3. ~Recording(w, k)
    BY <1>7 DEF RecordFails, Recording
  <2> QED
    BY <2>1, <2>2, <2>3, MailKept
<1>8. CASE Count(w)
  <2>1. /\ Others(w) /\ jobs[w] \in Job /\ jobs[w].at = "count"
        /\ jobs'[w] = Proceed(jobs[w]) /\ mails' = mails /\ row' = row
    BY <1>8, CountDoes DEF Count
  <2>2. jobs'[w].at \in {"look", "returned"}
    BY <2>1, ProceedMoves
  <2>3. ~Recording(w, k) /\ ~Armed(w, k)'
    BY <2>1, <2>2 DEF Recording, Armed
  <2> QED
    BY <2>1, <2>3, MailKept
<1>9. CASE SettleMessage(w) \/ SettlePost(w)
  <2>1. CASE NewProcess
    BY <2>1, NewProcessMail
  <2>2. CASE ~NewProcess
    <3>1. /\ jobs' = [jobs EXCEPT ![w] = Free] /\ row' = row /\ mails' = mails
          /\ jobs[w].at \in {"returned", "threw"}
      BY <1>9, <2>2 DEF SettleMessage, SettlePost, At
    <3>2. Others(w) /\ ~Busy(w)'
      BY <3>1, SettleDoes
    <3>3. ~Recording(w, k) /\ ~Armed(w, k)'
      BY <3>1, <3>2 DEF Recording, Armed
    <3> QED
      BY <3>1, <3>2, <3>3, MailKept
  <2> QED
    BY <2>1, <2>2
<1> QED
  BY <1>1, <1>2, <1>3, <1>4, <1>5, <1>6, <1>7, <1>8, <1>9 DEF JobStep

LEMMA HistoryGrows ==
    ASSUME [Next]_vars
    PROVE  crossed \subseteq crossed' /\ unsure \subseteq unsure'
  BY DEF Next, JobStep, Look, Admit, Insert, QueryFails, Send, Record, RecordFails, Count,
         SettleMessage, SettlePost, NewProcess, Consume, Post, HourPasses, Restart,
         ConnectionLost, vars

LEMMA MailsStay ==
    ASSUME TypeOK, StagesOK, MailsOK, [Next]_vars
    PROVE  MailsOK'
<1> SUFFICES ASSUME NEW k \in Keys, k \notin crossed', k \notin unsure' PROVE MailOK(k)'
  BY DEF MailsOK, Undisturbed, Keys
<1>0. MailOK(k)
  BY HistoryGrows DEF MailsOK, Undisturbed
<1>1. ASSUME NEW w \in Jobs, NEW e \in Events, Consume(w, e) \/ Post(w, e)
      PROVE  MailOK(k)'
  <2>1. /\ Others(w) /\ jobs'[w].at = "look" /\ ~Busy(w) /\ row' = row /\ mails' = mails
    BY <1>1, ArrivalDoes DEF Consume, Post
  <2>2. ~Recording(w, k) /\ ~Armed(w, k)'
    BY <2>1 DEF Recording, Armed
  <2> QED
    BY <1>0, <2>1, <2>2, MailKept
<1>2. CASE Restart
  BY <1>0, <1>2, NewProcessMail DEF Restart
<1>3. CASE (\E r \in Recipients : HourPasses(r)) \/ ConnectionLost \/ UNCHANGED vars
  <2>1. jobs' = jobs /\ row' = row /\ mails' = mails
    BY <1>3 DEF HourPasses, ConnectionLost, vars
  <2> QED
    BY <1>0, <2>1 DEF MailOK, Armed, Recording, Busy, Jobs
<1> QED
  BY <1>0, <1>1, <1>2, <1>3, JobStepMail DEF Next, Jobs

-----------------------------------------------------------------------------
(* The limit of a window. *)

LEMMA JobsAreFinite == IsFiniteSet(Jobs) /\ Cardinality(Jobs) \in Nat
<1>1. IsFiniteSet(Jobs)
  BY FS_Union, NotificationsAssumption DEF Jobs
<1> QED
  BY <1>1, FS_CardinalityType

LEMMA AdmittedIsFinite ==
    ASSUME NEW r
    PROVE  /\ IsFiniteSet(Admitted(r)) /\ Cardinality(Admitted(r)) \in Nat
           /\ Cardinality(Admitted(r)) <= Cardinality(Jobs)
<1>1. Admitted(r) \subseteq Jobs
  BY DEF Admitted
<1>2. IsFiniteSet(Admitted(r)) /\ Cardinality(Admitted(r)) <= Cardinality(Jobs)
  BY <1>1, JobsAreFinite, FS_Subset
<1> QED
  BY <1>2, FS_CardinalityType

\* Smaller sets have smaller cardinality; a set that lost w is smaller by one.
LEMMA FewerAdmitted ==
    ASSUME NEW S, IsFiniteSet(S), NEW T \in SUBSET S
    PROVE  /\ IsFiniteSet(T) /\ Cardinality(T) \in Nat /\ Cardinality(S) \in Nat
           /\ Cardinality(T) <= Cardinality(S)
           /\ \A w \in S \ T : Cardinality(T) + 1 <= Cardinality(S)
<1>1. IsFiniteSet(T) /\ Cardinality(T) <= Cardinality(S)
  BY FS_Subset
<1>2. Cardinality(T) \in Nat /\ Cardinality(S) \in Nat
  BY <1>1, FS_CardinalityType
<1>3. ASSUME NEW w \in S \ T
      PROVE  Cardinality(T) + 1 <= Cardinality(S)
  <2>1. IsFiniteSet(S \ {w}) /\ Cardinality(S \ {w}) = Cardinality(S) - 1
    BY FS_RemoveElement
  <2>2. T \in SUBSET (S \ {w})
    OBVIOUS
  <2>3. Cardinality(T) <= Cardinality(S \ {w})
    BY <2>1, <2>2, FS_Subset
  <2> QED
    BY <1>2, <2>1, <2>3
<1> QED
  BY <1>1, <1>2, <1>3

Fits(r) == window[r] + Cardinality(Admitted(r)) < Limit + Cardinality(Jobs)

\* A step that admits no delivery and counts no mail.
LEMMA FitKept ==
    ASSUME TypeOK, NEW r \in Recipients, Fits(r), NEW w \in Jobs, Others(w),
           window'[r] = window[r], w \in Admitted(r)' => w \in Admitted(r)
    PROVE  Fits(r)'
<1>1. PICK T : T = Admitted(r)'
  OBVIOUS
<1>2. T \in SUBSET Admitted(r)
  BY <1>1 DEF Others, Admitted, Busy, Jobs
<1>3. /\ Cardinality(T) \in Nat /\ Cardinality(Admitted(r)) \in Nat
      /\ Cardinality(T) <= Cardinality(Admitted(r))
  BY <1>2, AdmittedIsFinite, FewerAdmitted
<1>4. window[r] \in Nat /\ Limit \in Nat /\ Cardinality(Jobs) \in Nat
  BY JobsAreFinite, NotificationsAssumption DEF TypeOK
<1>5. window[r] + Cardinality(T) < Limit + Cardinality(Jobs)
  BY <1>3, <1>4 DEF Fits
<1>6. window'[r] + Cardinality(Admitted(r)') < Limit + Cardinality(Jobs)
  BY <1>1, <1>5
<1> QED
  BY <1>6 DEF Fits, Jobs

LEMMA NewProcessFits ==
    ASSUME NewProcess, NEW r \in Recipients
    PROVE  Fits(r)'
<1>1. Admitted(r)' = {} /\ window'[r] = 0
  BY NewProcessIsIdle DEF NewProcess, Admitted
<1>2. Cardinality(Admitted(r)') = 0
  BY <1>1, FS_EmptySet
<1>3. window'[r] + Cardinality(Admitted(r)') < Limit + Cardinality(Jobs)
  BY <1>1, <1>2, JobsAreFinite, NotificationsAssumption
<1> QED
  BY <1>3 DEF Fits, Jobs

LEMMA JobStepFits ==
    ASSUME TypeOK, NEW r \in Recipients, Fits(r), NEW w \in Jobs, JobStep(w)
    PROVE  Fits(r)'
<1>0. window \in [Recipients -> Nat] /\ Limit \in Nat /\ Cardinality(Jobs) \in Nat
  BY JobsAreFinite, NotificationsAssumption DEF TypeOK
<1>1. CASE Look(w)
  <2>1. Others(w) /\ jobs'[w].at = "admit" /\ window' = window
    BY <1>1, LookDoes DEF Look
  <2>2. w \notin Admitted(r)'
    BY <2>1 DEF Admitted
  <2> QED
    BY <2>1, <2>2, FitKept
<1>2. CASE Admit(w)
  <2>1. /\ Others(w) /\ jobs[w] \in Job /\ jobs[w].at = "admit" /\ window' = window
    BY <1>2, AdmitDoes DEF Admit
  <2>2. CASE jobs'[w].key = jobs[w].key /\ window[To(jobs[w].key)] < Limit
    <3>1. CASE To(jobs[w].key) = r
      <4>1. PICK T : T = Admitted(r)'
        OBVIOUS
      <4>2. T \in SUBSET Jobs
        BY <4>1 DEF Admitted, Jobs
      <4>3. Cardinality(T) \in Nat /\ Cardinality(T) <= Cardinality(Jobs)
        BY <4>2, JobsAreFinite, FewerAdmitted
      <4>4. window'[r] + Cardinality(T) < Limit + Cardinality(Jobs)
        BY <1>0, <2>1, <2>2, <3>1, <4>3
      <4>5. window'[r] + Cardinality(Admitted(r)') < Limit + Cardinality(Jobs)
        BY <4>1, <4>4
      <4> QED
        BY <4>5 DEF Fits, Jobs
    <3>2. CASE To(jobs[w].key) # r
      <4>1. w \notin Admitted(r)'
        BY <2>2, <3>2 DEF Admitted, To
      <4> QED
        BY <2>1, <4>1, FitKept
    <3> QED
      BY <3>1, <3>2
  <2>3. CASE \/ jobs'[w].at \in {"look", "returned"}
             \/ jobs'[w].at = "record" /\ jobs'[w].outcome = "limited"
    <3>1. w \notin Admitted(r)'
      BY <2>3 DEF Admitted
    <3> QED
      BY <2>1, <3>1, FitKept
  <2>4. jobs'[w] = Proceed(jobs[w]) => jobs'[w].at \in {"look", "returned"}
    BY <2>1, ProceedMoves
  <2>5. \/ jobs'[w] = Proceed(jobs[w])
        \/ jobs'[w].at = "record" /\ jobs'[w].outcome = "limited"
        \/ jobs'[w].key = jobs[w].key /\ window[To(jobs[w].key)] < Limit
    BY <1>2, AdmitDoes
  <2> QED
    BY <2>2, <2>3, <2>4, <2>5
<1>3. CASE Insert(w)
  <2>1. /\ Others(w) /\ Busy(w) /\ jobs[w].at = "insert" /\ jobs'[w].key = jobs[w].key
        /\ window' = window
    BY <1>3, InsertDoes DEF Insert
  <2>2. w \in Admitted(r)' => w \in Admitted(r)
    BY <2>1 DEF Admitted, To
  <2> QED
    BY <2>1, <2>2, FitKept
<1>4. CASE QueryFails(w)
  <2>1. Others(w) /\ jobs'[w].at = "threw" /\ window' = window
    BY <1>4, QueryFailsDoes DEF QueryFails
  <2>2. w \notin Admitted(r)'
    BY <2>1 DEF Admitted
  <2> QED
    BY <2>1, <2>2, FitKept
<1>5. ASSUME NEW taken \in BOOLEAN, NEW outcome \in {"sent", "failed"}, Send(w, taken, outcome)
      PROVE  Fits(r)'
  <2>1. /\ Others(w) /\ Busy(w) /\ jobs[w].at = "send" /\ jobs'[w].key = jobs[w].key
        /\ window' = window
    BY <1>5, SendDoes DEF Send
  <2>2. w \in Admitted(r)' => w \in Admitted(r)
    BY <2>1 DEF Admitted, To
  <2> QED
    BY <2>1, <2>2, FitKept
<1>6. CASE Record(w) \/ RecordFails(w)
  <2>1. /\ Others(w) /\ Busy(w) /\ jobs[w].at = "record" /\ jobs'[w].at = "count"
        /\ jobs'[w].key = jobs[w].key /\ jobs'[w].outcome = jobs[w].outcome /\ window' = window
    BY <1>6, RecordDoes DEF Record, RecordFails
  <2>2. w \in Admitted(r)' => w \in Admitted(r)
    BY <2>1 DEF Admitted, To
  <2> QED
    BY <2>1, <2>2, FitKept
<1>7. CASE Count(w)
  <2>1. /\ Others(w) /\ Busy(w) /\ jobs[w] \in Job /\ jobs[w].at = "count"
        /\ jobs'[w] = Proceed(jobs[w])
    BY <1>7, CountDoes
  <2>2. jobs'[w].at \in {"look", "returned"}
    BY <2>1, ProceedMoves
  <2>3. w \notin Admitted(r)'
    BY <2>2 DEF Admitted
  <2>4. CASE jobs[w].outcome = "sent" /\ To(jobs[w].key) = r
    <3>1. window'[r] = window[r] + 1
      BY <1>0, <1>7, <2>4 DEF Count
    <3>2. w \in Admitted(r)
      BY <2>1, <2>4 DEF Admitted
    <3>3. PICK T : T = Admitted(r)'
      OBVIOUS
    <3>4. T \in SUBSET Admitted(r) /\ w \in Admitted(r) \ T
      BY <2>1, <2>3, <3>2, <3>3 DEF Others, Admitted, Busy, Jobs
    <3>5. /\ Cardinality(T) \in Nat /\ Cardinality(Admitted(r)) \in Nat
          /\ Cardinality(T) + 1 <= Cardinality(Admitted(r))
      BY <3>4, AdmittedIsFinite, FewerAdmitted
    <3>6. window[r] \in Nat
      BY <1>0
    <3>7. (window[r] + 1) + Cardinality(T) < Limit + Cardinality(Jobs)
      BY <1>0, <3>5, <3>6 DEF Fits
    <3>8. window'[r] + Cardinality(Admitted(r)') < Limit + Cardinality(Jobs)
      BY <3>1, <3>3, <3>7
    <3> QED
      BY <3>8 DEF Fits, Jobs
  <2>5. CASE ~(jobs[w].outcome = "sent" /\ To(jobs[w].key) = r)
    <3>1. window'[r] = window[r]
      BY <1>0, <1>7, <2>5 DEF Count
    <3> QED
      BY <2>1, <2>3, <3>1, FitKept
  <2> QED
    BY <2>4, <2>5
<1>8. CASE SettleMessage(w) \/ SettlePost(w)
  <2>1. CASE NewProcess
    BY <2>1, NewProcessFits
  <2>2. CASE ~NewProcess
    <3>1. jobs' = [jobs EXCEPT ![w] = Free] /\ window' = window
      BY <1>8, <2>2 DEF SettleMessage, SettlePost
    <3>2. Others(w) /\ w \notin Admitted(r)'
      BY <3>1, SettleDoes DEF Admitted
    <3> QED
      BY <3>1, <3>2, FitKept
  <2> QED
    BY <2>1, <2>2
<1> QED
  BY <1>1, <1>2, <1>3, <1>4, <1>5, <1>6, <1>7, <1>8 DEF JobStep

LEMMA FitStays ==
    ASSUME TypeOK, AdmittedFit, [Next]_vars
    PROVE  AdmittedFit'
<1> SUFFICES ASSUME NEW r \in Recipients PROVE Fits(r)'
  BY DEF AdmittedFit, Fits, Jobs
<1>0. Fits(r)
  BY DEF AdmittedFit, Fits
<1>1. ASSUME NEW w \in Jobs, NEW e \in Events, Consume(w, e) \/ Post(w, e)
      PROVE  Fits(r)'
  <2>1. Others(w) /\ jobs'[w].at = "look" /\ window' = window
    BY <1>1, ArrivalDoes DEF Consume, Post
  <2>2. w \notin Admitted(r)'
    BY <2>1 DEF Admitted
  <2> QED
    BY <1>0, <2>1, <2>2, FitKept
<1>2. CASE Restart
  BY <1>2, NewProcessFits DEF Restart
<1>3. CASE (\E q \in Recipients : HourPasses(q)) \/ ConnectionLost \/ UNCHANGED vars
  <2>1. /\ jobs' = jobs
        /\ window' = window \/ \E q \in Recipients : window' = [window EXCEPT ![q] = 0]
    BY <1>3 DEF HourPasses, ConnectionLost, vars
  <2>2. Admitted(r)' = Admitted(r)
    BY <2>1 DEF Admitted, Busy, Jobs
  <2>3. window'[r] \in Nat /\ window[r] \in Nat /\ window'[r] <= window[r]
    BY <2>1 DEF TypeOK
  <2>4. Cardinality(Admitted(r)) \in Nat /\ Cardinality(Jobs) \in Nat /\ Limit \in Nat
    BY AdmittedIsFinite, JobsAreFinite, NotificationsAssumption
  <2>5. window'[r] + Cardinality(Admitted(r)) < Limit + Cardinality(Jobs)
    BY <1>0, <2>3, <2>4 DEF Fits
  <2>6. window'[r] + Cardinality(Admitted(r)') < Limit + Cardinality(Jobs)
    BY <2>2, <2>5
  <2> QED
    BY <2>6 DEF Fits, Jobs
<1> QED
  BY <1>0, <1>1, <1>2, <1>3, JobStepFits DEF Next, Jobs

-----------------------------------------------------------------------------
(* The theorems. *)

LEMMA InitHolds == Init => NotificationsInv
<1> SUFFICES ASSUME Init PROVE NotificationsInv
  OBVIOUS
<1>1. \A w \in Jobs : ~Busy(w) /\ jobs[w] = Free
  BY DEF Init, Busy
<1>2. TypeOK
  <2>1. LogTypes /\ CountTypes /\ JobTypes
    BY DEF Init, LogTypes, CountTypes, JobTypes, Statuses
  <2>2. 0 \in 0..MaxPosts /\ 0 \in 0..MaxLosses
    BY NotificationsAssumption
  <2>3. BrokerTypes
    BY <2>2 DEF Init, BrokerTypes
  <2> QED
    BY <2>1, <2>3, TypeParts
<1>3. StagesOK /\ PassedLogged
  BY <1>1 DEF StagesOK, PassedLogged
<1>4. MailsOK /\ SentWasMailed
  <2>1. \A k \in Keys : mails[k] = 0 /\ row[k] = "none"
    BY DEF Init
  <2>2. \A k \in Keys : MailOK(k)
    BY <1>1, <2>1 DEF MailOK, Armed
  <2> QED
    BY <2>1, <2>2 DEF MailsOK, Undisturbed, SentWasMailed
<1>6. EventIsLogged
  BY KeyParts DEF Init, EventIsLogged
<1>5. AdmittedFit
  <2> SUFFICES ASSUME NEW r \in Recipients
               PROVE  window[r] + Cardinality(Admitted(r)) < Limit + Cardinality(Jobs)
    BY DEF AdmittedFit
  <2>1. Admitted(r) = {} /\ window[r] = 0
    BY <1>1 DEF Admitted, Init
  <2> QED
    BY <2>1, FS_EmptySet, JobsAreFinite, NotificationsAssumption
<1> QED
  BY <1>2, <1>3, <1>4, <1>5, <1>6 DEF NotificationsInv

LEMMA InvKept == NotificationsInv /\ [Next]_vars => NotificationsInv'
  BY StepTypes, StagesStay, PassedStays, MailsStay, SentStaysMailed, EventsStayLogged, FitStays
     DEF NotificationsInv

\* The inductive invariant holds in every reachable state.
THEOREM NotificationsInvariant == Spec => []NotificationsInv
  BY InitHolds, InvKept, PTL DEF Spec

\* The log, the counts and the deliveries keep their shape, for any events,
\* recipients and number of deliveries at a time (notification.service.ts:91-183).
THEOREM NotificationsTypes == Spec => []TypeOK
<1>1. NotificationsInv => TypeOK
  BY DEF NotificationsInv
<1> QED
  BY NotificationsInvariant, <1>1, PTL

\* A mail goes out once unless two deliveries had it in hand at the same time
\* after its row was there, or the log lost it (notification.service.ts:100-118).
THEOREM MailsGoOutOnce == Spec => []OneMailPerKey
<1>1. NotificationsInv => OneMailPerKey
  BY DEF NotificationsInv, MailsOK, MailOK, Undisturbed, OneMailPerKey
<1> QED
  BY NotificationsInvariant, <1>1, PTL

\* The log and the provider agree on what was sent, but for the exceptions
\* the code leaves (notification.service.ts:174-175, 353-354).
THEOREM LogTellsTheTruth == Spec => []LogIsTrue
<1>1. NotificationsInv => LogIsTrue
  <2> SUFFICES ASSUME NotificationsInv, NEW k \in Keys
               PROVE  /\ row[k] = "sent" => mails[k] > 0
                      /\ mails[k] > 0 => \/ row[k] = "sent" \/ k \in crossed \cup unsure
                                         \/ \E w \in Jobs : Holds(w, k) /\ At(w, "record")
    BY DEF LogIsTrue
  <2>1. row[k] = "sent" => mails[k] > 0
    BY DEF NotificationsInv, SentWasMailed
  <2>2. ASSUME mails[k] > 0, row[k] # "sent", k \notin crossed \cup unsure
        PROVE  \E w \in Jobs : Holds(w, k) /\ At(w, "record")
    <3>1. PICK w \in Jobs : Recording(w, k)
      BY <2>2 DEF NotificationsInv, MailsOK, MailOK, Undisturbed
    <3> QED
      BY <3>1 DEF Recording, Holds, At
  <2> QED
    BY <2>1, <2>2
<1> QED
  BY NotificationsInvariant, <1>1, PTL

\* What is acknowledged or answered is in the log, mail by mail
\* (consumer.ts:162-165, webhook.router.ts:84-98).
THEOREM EventsAreLogged == Spec => []EventIsLogged
<1>1. NotificationsInv => EventIsLogged
  BY DEF NotificationsInv
<1> QED
  BY NotificationsInvariant, <1>1, PTL

\* The limit of a window is exceeded by less than the number of deliveries
\* that can be under way (notification.service.ts:121).
THEOREM LimitIsKept == Spec => []WithinLimit
<1>1. NotificationsInv => WithinLimit
  <2> SUFFICES ASSUME NotificationsInv, NEW r \in Recipients
               PROVE  window[r] < Limit + Cardinality(Jobs)
    BY DEF WithinLimit
  <2>1. window[r] + Cardinality(Admitted(r)) < Limit + Cardinality(Jobs) /\ window[r] \in Nat
    BY DEF NotificationsInv, AdmittedFit, TypeOK
  <2> QED
    BY <2>1, AdmittedIsFinite, JobsAreFinite, NotificationsAssumption
<1> QED
  BY NotificationsInvariant, <1>1, PTL

-----------------------------------------------------------------------------
(* What the broker has handed out is in hand, and runs down: the halves of   *)
(* MessageIsSettled that do not depend on fairness.                          *)

Handles(w, e) == Busy(w) /\ EventOf(jobs[w]) = e

\* While the connection stands, an event is out exactly when one slot handles
\* it; once it is lost nothing is out (consumer.ts:94-96, 161-199).
HandedOutIsHandled ==
    IF connected
    THEN \A e \in Events :
           /\ message[e] = "unacked" <=> \E w \in Consumers : Handles(w, e)
           /\ \A v, w \in Consumers : Handles(v, e) /\ Handles(w, e) => v = w
    ELSE \A e \in Events : message[e] # "unacked"

\* The awaits that are left for the mail in hand.
Rank(at) ==
    CASE at = "look"   -> 7
      [] at = "admit"  -> 6
      [] at = "insert" -> 5
      [] at = "send"   -> 4
      [] at = "record" -> 3
      [] at = "count"  -> 2
      [] OTHER         -> 1

\* The steps that a delivery takes at most, the one that settles it included.
StepsLeft(j) ==
    IF j = Free THEN 0 ELSE 7 * (Len(Mails[EventOf(j)]) - j.key[2]) + Rank(j.at)

\* The message came back once, and is handled for the last time.
Retried(e) == \E w \in Consumers : Handles(w, e) /\ jobs[w].again

\* How often a message can still change hands: it is handed out, requeued once,
\* handed out again and settled.
Chances(e) ==
    CASE message[e] = "ready"                  -> 4
      [] message[e] = "unacked" /\ ~Retried(e) -> 3
      [] message[e] = "again"                  -> 2
      [] message[e] = "unacked" /\ Retried(e)  -> 1
      [] OTHER                                 -> 0

LEMMA RankIsCounted ==
    ASSUME NEW at
    PROVE  Rank(at) \in Nat /\ 1 <= Rank(at) /\ Rank(at) <= 7
  BY DEF Rank

LEMMA Sevens ==
    ASSUME NEW n \in Nat, NEW i \in Nat, NEW r \in Nat, 1 <= i, i <= n, 1 <= r, r <= 7
    PROVE  /\ 7 * (n - i) + r \in Nat \ {0} /\ 7 * (n - i) + r <= 7 * n
           /\ 7 * (n - (i + 1)) + 7 = 7 * (n - i)
           /\ 7 * (n - i) \in Nat
  OBVIOUS

LEMMA StepsAreCounted ==
    ASSUME NEW j \in Job
    PROVE  /\ j # Free /\ EventOf(j) \in Events
           /\ Len(Mails[EventOf(j)]) \in Nat /\ j.key[2] \in Nat
           /\ j.key[2] <= Len(Mails[EventOf(j)])
           /\ StepsLeft(j) \in Nat \ {0}
           /\ StepsLeft(j) <= 7 * Len(Mails[EventOf(j)])
<1>1. j.key \in Keys /\ j.at # "free"
  BY DEF Job
<1>2. j # Free
  BY <1>1 DEF Free
<1>3. /\ EventOf(j) \in Events /\ j.key[2] \in Nat /\ 1 <= j.key[2]
      /\ j.key[2] <= Len(Mails[EventOf(j)])
  BY <1>1, KeyParts DEF EventOf
<1>4. Mails[EventOf(j)] \in Seq(Recipients)
  BY <1>3, NotificationsAssumption
<1>5. Len(Mails[EventOf(j)]) \in Nat
  BY <1>4
<1>6. Rank(j.at) \in Nat /\ 1 <= Rank(j.at) /\ Rank(j.at) <= 7
  BY RankIsCounted
<1>7. StepsLeft(j) = 7 * (Len(Mails[EventOf(j)]) - j.key[2]) + Rank(j.at)
  BY <1>2 DEF StepsLeft
<1> QED
  BY <1>2, <1>3, <1>5, <1>6, <1>7, Sevens

\* A later stage of the same mail is fewer steps from the end.
LEMMA StageRunsDown ==
    ASSUME NEW j \in Job, NEW k \in Job, k.key = j.key, Rank(k.at) < Rank(j.at)
    PROVE  StepsLeft(k) < StepsLeft(j)
<1>1. EventOf(k) = EventOf(j)
  BY DEF EventOf
<1>2. /\ StepsLeft(j) = 7 * (Len(Mails[EventOf(j)]) - j.key[2]) + Rank(j.at)
      /\ StepsLeft(k) = 7 * (Len(Mails[EventOf(j)]) - j.key[2]) + Rank(k.at)
  BY <1>1, StepsAreCounted DEF StepsLeft
<1> DEFINE whole == 7 * (Len(Mails[EventOf(j)]) - j.key[2])
<1>3. whole \in Int
  BY StepsAreCounted
<1>4. Rank(j.at) \in Nat /\ Rank(k.at) \in Nat
  BY RankIsCounted
<1> HIDE DEF whole
<1>5. whole + Rank(k.at) < whole + Rank(j.at)
  BY <1>3, <1>4
<1> QED
  BY <1>2, <1>5 DEF whole

\* So is the next mail, or the return.
LEMMA ProceedRunsDown ==
    ASSUME NEW j \in Job, j.at \in {"admit", "count"}
    PROVE  StepsLeft(Proceed(j)) < StepsLeft(j)
<1> DEFINE k == Proceed(j)
           n == Len(Mails[EventOf(j)])
           i == j.key[2]
<1>0. SUFFICES StepsLeft(k) < StepsLeft(j)
  OBVIOUS
<1>1. /\ k \in Job /\ EventOf(k) = EventOf(j)
      /\ \/ k.at = "look" /\ k.key[2] = i + 1
         \/ k.at = "returned" /\ k.key = j.key
  BY ProceedMoves
<1> HIDE DEF k
<1>2. Rank(j.at) >= 2 /\ Rank(j.at) \in Nat
  BY DEF Rank
<1>3. CASE k.at = "look" /\ k.key[2] = i + 1
  <2>1. Rank(k.at) = 7
    BY <1>3 DEF Rank
  <2>2. /\ StepsLeft(j) = 7 * (n - i) + Rank(j.at)
        /\ StepsLeft(k) = 7 * (n - (i + 1)) + 7
    BY <1>1, <1>3, <2>1, StepsAreCounted DEF StepsLeft
  <2>3. n \in Nat /\ i \in Nat
    BY StepsAreCounted
  <2> HIDE DEF n, i
  <2> QED
    BY <1>2, <2>2, <2>3
<1>4. CASE k.at = "returned" /\ k.key = j.key
  <2>1. Rank(k.at) = 1
    BY <1>4 DEF Rank
  <2>2. Rank(k.at) < Rank(j.at)
    BY <1>2, <2>1
  <2> QED
    BY <1>1, <1>4, <2>2, StageRunsDown
<1> QED
  BY <1>1, <1>3, <1>4

\* A step inside a handler: it stays with its event, it comes closer to its
\* end, and the broker does not hear of it.
HandlerMoves(w) ==
    /\ Busy(w) /\ Others(w)
    /\ jobs[w] \in Job /\ jobs'[w] \in Job
    /\ EventOf(jobs'[w]) = EventOf(jobs[w]) /\ jobs'[w].again = jobs[w].again
    /\ StepsLeft(jobs'[w]) < StepsLeft(jobs[w])
    /\ UNCHANGED <<message, connected, losses>>

LEMMA StageMoves ==
    ASSUME TypeOK, NEW w \in Jobs, Busy(w), Others(w), jobs'[w] \in Job,
           jobs'[w].key = jobs[w].key, jobs'[w].again = jobs[w].again,
           Rank(jobs'[w].at) < Rank(jobs[w].at),
           UNCHANGED <<message, connected, losses>>
    PROVE  HandlerMoves(w)
<1>1. jobs[w] \in Job
  BY BusyIsJob
<1>2. StepsLeft(jobs'[w]) < StepsLeft(jobs[w])
  BY <1>1, StageRunsDown
<1> QED
  BY <1>1, <1>2 DEF HandlerMoves, EventOf

LEMMA ProceedStep ==
    ASSUME TypeOK, NEW w \in Jobs, Busy(w), Others(w), jobs[w].at \in {"admit", "count"},
           jobs'[w] = Proceed(jobs[w]),
           UNCHANGED <<message, connected, losses>>
    PROVE  HandlerMoves(w)
<1>1. jobs[w] \in Job
  BY BusyIsJob
<1>2. StepsLeft(jobs'[w]) < StepsLeft(jobs[w])
  BY <1>1, ProceedRunsDown
<1> QED
  BY <1>1, <1>2, ProceedMoves DEF HandlerMoves

LEMMA AdmitMoves ==
    ASSUME TypeOK, NEW w \in Jobs, Admit(w)
    PROVE  HandlerMoves(w)
<1>1. /\ Busy(w) /\ jobs[w] \in Job /\ jobs[w].at = "admit" /\ Others(w)
      /\ jobs'[w] \in Job /\ UNCHANGED <<message, connected, losses>>
  <2>1. UNCHANGED <<message, connected, losses>>
    BY DEF Admit
  <2> QED
    BY <2>1, AdmitDoes
<1>2. CASE jobs'[w] = Proceed(jobs[w])
  BY <1>1, <1>2, ProceedStep
<1>3. CASE jobs'[w] # Proceed(jobs[w])
  <2>1. jobs'[w].key = jobs[w].key /\ jobs'[w].at \in {"record", "insert", "send"}
    BY <1>3, AdmitDoes
  <2>2. jobs'[w].again = jobs[w].again
    <3>1. jobs[w].seen # "sent"
      BY <1>3, AdmitDoes
    <3> DEFINE stage == IF jobs[w].seen = "none" THEN "insert" ELSE "send"
    <3>2. CASE window[To(jobs[w].key)] >= Limit
      <4>1. jobs' = [jobs EXCEPT ![w] = [jobs[w] EXCEPT !.at = "record", !.seen = "none", !.outcome = "limited"]]
        BY <3>1, <3>2 DEF Admit
      <4> QED
        BY <1>1, <4>1 DEF Job, TypeOK
    <3>3. CASE ~(window[To(jobs[w].key)] >= Limit)
      <4>1. jobs' = [jobs EXCEPT ![w] = [jobs[w] EXCEPT !.at = stage, !.seen = "none"]]
        BY <3>1, <3>3 DEF Admit
      <4> QED
        BY <1>1, <4>1 DEF Job, TypeOK
    <3> QED
      BY <3>2, <3>3
  <2>3. Rank(jobs'[w].at) < Rank(jobs[w].at)
    BY <1>1, <2>1 DEF Rank
  <2> QED
    BY <1>1, <2>1, <2>2, <2>3, StageMoves
<1> QED
  BY <1>2, <1>3

\* Every step of a handler that does not settle its delivery moves it on.
LEMMA HandlerSteps ==
    ASSUME TypeOK, NEW w \in Jobs, JobStep(w)
    PROVE  HandlerMoves(w) \/ SettleMessage(w) \/ SettlePost(w)
<1>1. ASSUME Look(w) PROVE HandlerMoves(w)
  <2>1. /\ Busy(w) /\ jobs[w].at = "look" /\ Others(w) /\ jobs'[w] \in Job
        /\ jobs'[w].at = "admit" /\ jobs'[w].key = jobs[w].key
    BY <1>1, LookDoes
  <2>2. UNCHANGED <<message, connected, losses>>
    BY <1>1 DEF Look
  <2>3. jobs'[w].again = jobs[w].again
    <3>1. jobs' = [jobs EXCEPT ![w] = [jobs[w] EXCEPT !.at = "admit", !.seen = row[jobs[w].key]]]
      BY <1>1 DEF Look
    <3>2. jobs[w] \in Job
      BY <2>1, BusyIsJob
    <3> QED
      BY <3>1, <3>2 DEF Job, TypeOK
  <2>4. Rank(jobs'[w].at) < Rank(jobs[w].at)
    BY <2>1 DEF Rank
  <2> QED
    BY <2>1, <2>2, <2>3, <2>4, StageMoves
<1>2. ASSUME NEW stage \in {"send", "count", "threw"}, jobs' = [jobs EXCEPT ![w].at = stage],
             Busy(w), Rank(stage) < Rank(jobs[w].at), UNCHANGED <<message, connected, losses>>
      PROVE  HandlerMoves(w)
  <2>1. stage \in Stages
    BY DEF Stages
  <2>2. /\ Others(w) /\ jobs'[w] \in Job /\ jobs'[w].at = stage
        /\ jobs'[w].key = jobs[w].key /\ jobs'[w].again = jobs[w].again
    BY <1>2, <2>1, StageDoes
  <2> QED
    BY <1>2, <2>2, StageMoves
<1>3. ASSUME Insert(w) PROVE HandlerMoves(w)
  <2>1. Busy(w) /\ jobs[w].at = "insert"
    BY <1>3, InsertDoes
  <2>2. \E stage \in {"send", "threw"} : jobs' = [jobs EXCEPT ![w].at = stage]
    BY <1>3 DEF Insert
  <2>3. UNCHANGED <<message, connected, losses>>
    BY <1>3 DEF Insert
  <2>4. Rank("send") < Rank(jobs[w].at) /\ Rank("threw") < Rank(jobs[w].at)
    BY <2>1 DEF Rank
  <2> QED
    BY <1>2, <2>1, <2>2, <2>3, <2>4
<1>4. ASSUME QueryFails(w) PROVE HandlerMoves(w)
  <2>1. Busy(w) /\ jobs[w].at \in {"look", "insert"}
    BY <1>4, QueryFailsDoes
  <2>2. jobs' = [jobs EXCEPT ![w].at = "threw"]
    BY <1>4 DEF QueryFails
  <2>3. UNCHANGED <<message, connected, losses>>
    BY <1>4 DEF QueryFails
  <2>4. Rank("threw") < Rank(jobs[w].at)
    BY <2>1 DEF Rank
  <2> QED
    BY <1>2, <2>1, <2>2, <2>3, <2>4
<1>5. ASSUME NEW taken \in BOOLEAN, NEW outcome \in {"sent", "failed"}, Send(w, taken, outcome)
      PROVE  HandlerMoves(w)
  <2>1. /\ Busy(w) /\ jobs[w].at = "send" /\ Others(w) /\ jobs'[w] \in Job
        /\ jobs'[w].at = "record" /\ jobs'[w].key = jobs[w].key
    BY <1>5, SendDoes
  <2>2. UNCHANGED <<message, connected, losses>>
    BY <1>5 DEF Send
  <2>3. jobs'[w].again = jobs[w].again
    <3>1. jobs' = [jobs EXCEPT ![w] = [jobs[w] EXCEPT !.at = "record", !.outcome = outcome]]
      BY <1>5 DEF Send
    <3>2. jobs[w] \in Job
      BY <2>1, BusyIsJob
    <3> QED
      BY <3>1, <3>2 DEF Job, TypeOK
  <2>4. Rank(jobs'[w].at) < Rank(jobs[w].at)
    BY <2>1 DEF Rank
  <2> QED
    BY <2>1, <2>2, <2>3, <2>4, StageMoves
<1>6. ASSUME Record(w) \/ RecordFails(w) PROVE HandlerMoves(w)
  <2>1. Busy(w) /\ jobs[w].at = "record"
    BY <1>6, RecordDoes
  <2>2. jobs' = [jobs EXCEPT ![w].at = "count"]
    BY <1>6 DEF Record, RecordFails
  <2>3. UNCHANGED <<message, connected, losses>>
    BY <1>6 DEF Record, RecordFails
  <2>4. Rank("count") < Rank(jobs[w].at)
    BY <2>1 DEF Rank
  <2> QED
    BY <1>2, <2>1, <2>2, <2>3, <2>4
<1>7. ASSUME Count(w) PROVE HandlerMoves(w)
  <2>1. /\ Busy(w) /\ jobs[w].at = "count" /\ Others(w)
        /\ jobs'[w] = Proceed(jobs[w])
    BY <1>7, CountDoes
  <2>2. UNCHANGED <<message, connected, losses>>
    BY <1>7 DEF Count
  <2> QED
    BY <2>1, <2>2, ProceedStep
<1> QED
  BY <1>1, <1>3, <1>4, <1>5, <1>6, <1>7, AdmitMoves DEF JobStep

\* A delivery that is settled on a connection that stands frees its slot, and
\* only its own message moves; on one that is lost the process goes down.
LEMMA SettleMoves ==
    ASSUME TypeOK, NEW w \in Jobs, SettleMessage(w)
    PROVE  /\ w \in Consumers /\ Busy(w) /\ EventOf(jobs[w]) \in Events
           /\ jobs[w].again \in BOOLEAN /\ losses' = losses
           /\ \/ /\ connected /\ connected' = connected
                 /\ Others(w) /\ ~Busy(w)'
                 /\ message' = [message EXCEPT ![EventOf(jobs[w])] = Settled(jobs[w])]
                 /\ \/ Settled(jobs[w]) \in {"acked", "dead"}
                    \/ Settled(jobs[w]) = "again" /\ ~jobs[w].again
              \/ ~connected /\ NewProcess
<1>1. w \in Consumers /\ losses' = losses /\ jobs[w].at \in {"returned", "threw"}
  BY DEF SettleMessage, At
<1>2. Busy(w)
  BY <1>1, StagedIsBusy DEF At
<1>3. EventOf(jobs[w]) \in Events /\ jobs[w].again \in BOOLEAN
  BY <1>2, BusyIsJob
<1>4. CASE ~connected
  <2>1. NewProcess
    BY <1>4 DEF SettleMessage
  <2> QED
    BY <1>1, <1>2, <1>3, <1>4, <2>1
<1>5. CASE connected
  <2>1. /\ message' = [message EXCEPT ![EventOf(jobs[w])] = Settled(jobs[w])]
        /\ jobs' = [jobs EXCEPT ![w] = Free] /\ connected' = connected
    BY <1>5 DEF SettleMessage
  <2>2. Others(w) /\ ~Busy(w)'
    BY <2>1, SettleDoes
  <2>3. \/ Settled(jobs[w]) \in {"acked", "dead"}
        \/ Settled(jobs[w]) = "again" /\ ~jobs[w].again
    BY <1>1, <1>3 DEF Settled
  <2> QED
    BY <1>1, <1>2, <1>3, <1>5, <2>1, <2>2, <2>3
<1> QED
  BY <1>4, <1>5

LEMMA PostSettles ==
    ASSUME TypeOK, NEW w \in Jobs, SettlePost(w)
    PROVE  /\ w \in Posts /\ Busy(w) /\ Others(w) /\ ~Busy(w)'
           /\ UNCHANGED <<message, connected, losses>>
<1>1. w \in Posts /\ Busy(w)
  BY StagedIsBusy DEF SettlePost
<1>2. jobs' = [jobs EXCEPT ![w] = Free]
  BY DEF SettlePost
<1>3. UNCHANGED <<message, connected, losses>>
  BY DEF SettlePost
<1> QED
  BY <1>1, <1>2, <1>3, SettleDoes

\* A message handed out goes to an idle slot, with the mark it has.
LEMMA ConsumeTakes ==
    ASSUME TypeOK, NEW w \in Consumers, NEW e \in Events, Consume(w, e)
    PROVE  /\ connected /\ connected' = connected /\ losses' = losses
           /\ message[e] \in {"ready", "again"}
           /\ message' = [message EXCEPT ![e] = "unacked"]
           /\ Others(w) /\ ~Busy(w) /\ Busy(w)' /\ EventOf(jobs'[w]) = e
           /\ jobs'[w].again = (message[e] = "again")
<1>0. w \in Jobs
  BY DEF Jobs
<1>1. Others(w) /\ ~Busy(w) /\ Busy(w)' /\ jobs'[w].key = <<e, 1>>
  BY <1>0, ArrivalDoes
<1>2. EventOf(jobs'[w]) = e
  BY <1>1 DEF EventOf
<1>3. jobs'[w] = Start(<<e, 1>>, message[e] = "again")
  BY <1>0 DEF Consume, TypeOK
<1>4. jobs'[w].again = (message[e] = "again")
  BY <1>3 DEF Start
<1>5. /\ connected /\ connected' = connected /\ losses' = losses
      /\ message[e] \in {"ready", "again"}
      /\ message' = [message EXCEPT ![e] = "unacked"]
  BY DEF Consume
<1> QED
  BY <1>1, <1>2, <1>4, <1>5

\* The broker has no part in the step: what is out stays with its slot.
Silent ==
    /\ UNCHANGED <<message, connected>>
    /\ \A v \in Consumers :
         /\ Busy(v)' <=> Busy(v)
         /\ Busy(v) => EventOf(jobs'[v]) = EventOf(jobs[v]) /\ jobs'[v].again = jobs[v].again

LEMMA OthersAreSilent ==
    ASSUME NEW w \in Jobs, Others(w), UNCHANGED <<message, connected>>,
           w \in Consumers => Busy(w) /\ Busy(w)' /\ EventOf(jobs'[w]) = EventOf(jobs[w])
                              /\ jobs'[w].again = jobs[w].again
    PROVE  Silent
  BY DEF Silent, Others, Busy, Jobs

LEMMA SilentKeeps ==
    ASSUME Silent
    PROVE  /\ \A v \in Consumers, e \in Events : Handles(v, e)' <=> Handles(v, e)
           /\ \A e \in Events : Retried(e)' <=> Retried(e)
           /\ \A e \in Events : Chances(e)' = Chances(e)
<1>1. ASSUME NEW v \in Consumers, NEW e \in Events PROVE Handles(v, e)' <=> Handles(v, e)
  BY DEF Silent, Handles
<1>2. ASSUME NEW e \in Events PROVE Retried(e)' <=> Retried(e)
  <2>1. ASSUME NEW v \in Consumers
        PROVE  (Handles(v, e) /\ jobs[v].again)' <=> (Handles(v, e) /\ jobs[v].again)
    BY DEF Silent, Handles
  <2> QED
    BY <2>1 DEF Retried
<1>3. ASSUME NEW e \in Events PROVE Chances(e)' = Chances(e)
  BY <1>2 DEF Chances, Silent
<1> QED
  BY <1>1, <1>2, <1>3

\* What a step is to the broker.
LEMMA StepsOfTheBroker ==
    ASSUME TypeOK, [Next]_vars
    PROVE  \/ \E w \in Consumers, e \in Events : Consume(w, e)
           \/ Silent
           \/ \E w \in Jobs : SettleMessage(w)
           \/ NewProcess /\ losses' # losses
           \/ ConnectionLost /\ losses' # losses
<1>1. ASSUME NEW w \in Posts, NEW e \in Events, Post(w, e) PROVE Silent
  <2>1. w \in Jobs /\ w \notin Consumers
    BY NotificationsAssumption DEF Jobs
  <2>2. Others(w)
    BY <1>1, <2>1, ArrivalDoes
  <2>3. UNCHANGED <<message, connected>>
    BY <1>1 DEF Post
  <2> QED
    BY <2>1, <2>2, <2>3, OthersAreSilent
<1>2. ASSUME NEW w \in Jobs, HandlerMoves(w) PROVE Silent
  <2>1. jobs'[w] # Free
    BY <1>2, StepsAreCounted DEF HandlerMoves
  <2>2. Others(w) /\ UNCHANGED <<message, connected>> /\ Busy(w)
        /\ EventOf(jobs'[w]) = EventOf(jobs[w]) /\ jobs'[w].again = jobs[w].again
    BY <1>2 DEF HandlerMoves
  <2>3. Busy(w)'
    BY <2>1 DEF Busy
  <2> QED
    BY <2>2, <2>3, OthersAreSilent
<1>3. ASSUME NEW w \in Jobs, SettlePost(w) PROVE Silent
  <2>1. w \in Posts /\ Others(w) /\ UNCHANGED <<message, connected>>
    BY <1>3, PostSettles
  <2>2. w \notin Consumers
    BY <2>1, NotificationsAssumption
  <2> QED
    BY <2>1, <2>2, OthersAreSilent
<1>4. ASSUME NEW r \in Recipients, HourPasses(r) PROVE Silent
  BY <1>4 DEF HourPasses, Silent, Busy
<1>5. CASE UNCHANGED vars
  BY <1>5 DEF vars, Silent, Busy
<1>6. CASE Restart
  <2>1. losses \in Nat
    BY NotificationsAssumption DEF TypeOK
  <2> QED
    BY <1>6, <2>1 DEF Restart
<1>7. CASE ConnectionLost
  <2>1. losses \in Nat
    BY NotificationsAssumption DEF TypeOK
  <2> QED
    BY <1>7, <2>1 DEF ConnectionLost
<1> QED
  BY <1>1, <1>2, <1>3, <1>4, <1>5, <1>6, <1>7, HandlerSteps DEF Next

LEMMA NothingOut ==
    ASSUME TypeOK,
           message' = [e \in Events |-> IF message[e] = "unacked" THEN "again" ELSE message[e]]
    PROVE  /\ \A e \in Events : message'[e] # "unacked"
           /\ \A e \in Events : message[e] # "unacked" => message'[e] = message[e]
  OBVIOUS

\* Another consumer neither takes nor loses an event.
LEMMA OthersHandle ==
    ASSUME NEW w \in Jobs, Others(w), NEW v \in Consumers \ {w}
    PROVE  /\ jobs'[v] = jobs[v]
           /\ \A e \in Events : Handles(v, e)' <=> Handles(v, e)
  BY DEF Others, Handles, Busy, Jobs

LEMMA ConsumeHandles ==
    ASSUME TypeOK, HandedOutIsHandled, NEW w \in Consumers, NEW e \in Events, Consume(w, e)
    PROVE  /\ HandedOutIsHandled'
           /\ \A x \in Events \ {e} : Chances(x)' = Chances(x)
           /\ Chances(e)' < Chances(e)
<1>0. w \in Jobs
  BY DEF Jobs
<1>1. /\ connected /\ connected' /\ message[e] \in {"ready", "again"}
      /\ message' = [message EXCEPT ![e] = "unacked"]
      /\ Others(w) /\ ~Busy(w) /\ Busy(w)' /\ EventOf(jobs'[w]) = e
      /\ jobs'[w].again = (message[e] = "again")
  BY ConsumeTakes
<1>2. /\ message'[e] = "unacked"
      /\ \A x \in Events \ {e} : message'[x] = message[x]
  BY <1>1 DEF TypeOK
<1>3. \A v \in Consumers : ~Handles(v, e)
  BY <1>1 DEF HandedOutIsHandled
<1>4. Handles(w, e)' /\ \A x \in Events \ {e} : ~Handles(w, x)' /\ ~Handles(w, x)
  BY <1>1 DEF Handles
<1>5. \A v \in Consumers \ {w} : ~Handles(v, e)'
  BY <1>0, <1>1, <1>3, OthersHandle
<1>6. ASSUME NEW x \in Events \ {e}
      PROVE  /\ \A v \in Consumers : Handles(v, x)' <=> Handles(v, x)
             /\ Retried(x)' <=> Retried(x)
  <2>1. \A v \in Consumers : Handles(v, x)' <=> Handles(v, x)
    BY <1>0, <1>1, <1>4, OthersHandle
  <2>2. \A v \in Consumers : (Handles(v, x) /\ jobs[v].again)' <=> (Handles(v, x) /\ jobs[v].again)
    BY <1>0, <1>1, <1>4, OthersHandle
  <2> QED
    BY <2>1, <2>2 DEF Retried
<1>7. HandedOutIsHandled'
  <2>1. \A x \in Events :
          /\ message'[x] = "unacked" <=> \E v \in Consumers : Handles(v, x)'
          /\ \A u, v \in Consumers : Handles(u, x)' /\ Handles(v, x)' => u = v
    <3>1. ASSUME NEW x \in Events \ {e}
          PROVE  /\ message'[x] = "unacked" <=> \E v \in Consumers : Handles(v, x)'
                 /\ \A u, v \in Consumers : Handles(u, x)' /\ Handles(v, x)' => u = v
      BY <1>1, <1>2, <1>6 DEF HandedOutIsHandled
    <3> QED
      BY <1>2, <1>4, <1>5, <3>1
  <2> QED
    BY <1>1, <2>1 DEF HandedOutIsHandled
<1>8. \A x \in Events \ {e} : Chances(x)' = Chances(x)
  BY <1>2, <1>6 DEF Chances
<1>9. Chances(e)' < Chances(e)
  <2>1. message[e] = "again" => Retried(e)'
    BY <1>1, <1>4 DEF Retried
  <2>2. CASE message[e] = "ready"
    <3>1. Chances(e) = 4
      BY <2>2 DEF Chances
    <3>2. Chances(e)' \in {1, 3}
      BY <1>2 DEF Chances
    <3> QED
      BY <3>1, <3>2
  <2>3. CASE message[e] = "again"
    <3>1. Chances(e) = 2
      BY <2>3 DEF Chances
    <3>2. Chances(e)' = 1
      BY <1>2, <2>1, <2>3 DEF Chances
    <3> QED
      BY <3>1, <3>2
  <2> QED
    BY <1>1, <2>2, <2>3
<1> QED
  BY <1>7, <1>8, <1>9

LEMMA SettleHandles ==
    ASSUME TypeOK, HandedOutIsHandled, connected, NEW w \in Jobs, SettleMessage(w),
           NEW e, e = EventOf(jobs[w])
    PROVE  /\ HandedOutIsHandled'
           /\ \A x \in Events \ {e} : Chances(x)' = Chances(x)
           /\ Chances(e)' < Chances(e)
<1>1. /\ w \in Consumers /\ Busy(w) /\ e \in Events /\ connected'
      /\ Others(w) /\ ~Busy(w)' /\ jobs[w].again \in BOOLEAN
      /\ message' = [message EXCEPT ![e] = Settled(jobs[w])]
      /\ \/ Settled(jobs[w]) \in {"acked", "dead"}
         \/ Settled(jobs[w]) = "again" /\ ~jobs[w].again
  BY SettleMoves
<1>2. Handles(w, e) /\ \A x \in Events \ {e} : ~Handles(w, x)
  BY <1>1 DEF Handles
<1>3. \A x \in Events : ~Handles(w, x)'
  BY <1>1 DEF Handles
<1>4. /\ message'[e] = Settled(jobs[w])
      /\ \A x \in Events \ {e} : message'[x] = message[x]
  BY <1>1 DEF TypeOK
<1>5. /\ message[e] = "unacked"
      /\ \A v \in Consumers \ {w} : ~Handles(v, e)
  BY <1>1, <1>2 DEF HandedOutIsHandled
<1>6. ASSUME NEW x \in Events \ {e}
      PROVE  /\ \A v \in Consumers : Handles(v, x)' <=> Handles(v, x)
             /\ Retried(x)' <=> Retried(x)
  <2>1. \A v \in Consumers : Handles(v, x)' <=> Handles(v, x)
    BY <1>1, <1>2, <1>3, OthersHandle
  <2>2. \A v \in Consumers : (Handles(v, x) /\ jobs[v].again)' <=> (Handles(v, x) /\ jobs[v].again)
    BY <1>1, <1>2, <1>3, OthersHandle
  <2> QED
    BY <2>1, <2>2 DEF Retried
<1>7. HandedOutIsHandled'
  <2>1. ASSUME NEW x \in Events \ {e}
        PROVE  /\ message'[x] = "unacked" <=> \E v \in Consumers : Handles(v, x)'
               /\ \A u, v \in Consumers : Handles(u, x)' /\ Handles(v, x)' => u = v
    BY <1>4, <1>6 DEF HandedOutIsHandled
  <2>2. \A v \in Consumers : ~Handles(v, e)'
    BY <1>1, <1>3, <1>5, OthersHandle
  <2>3. message'[e] # "unacked"
    BY <1>1, <1>4
  <2> QED
    BY <1>1, <2>1, <2>2, <2>3 DEF HandedOutIsHandled
<1>8. \A x \in Events \ {e} : Chances(x)' = Chances(x)
  BY <1>4, <1>6 DEF Chances
<1>9. Chances(e)' < Chances(e)
  <2>1. Retried(e) <=> jobs[w].again
    BY <1>1, <1>2, <1>5 DEF Retried
  <2>2. CASE Settled(jobs[w]) \in {"acked", "dead"}
    <3>1. Chances(e)' = 0
      BY <1>4, <2>2 DEF Chances
    <3>2. Chances(e) \in {1, 3}
      BY <1>5 DEF Chances
    <3> QED
      BY <3>1, <3>2
  <2>3. CASE Settled(jobs[w]) = "again" /\ ~jobs[w].again
    <3>1. Chances(e)' = 2
      BY <1>4, <2>3 DEF Chances
    <3>2. Chances(e) = 3
      BY <1>5, <2>1, <2>3 DEF Chances
    <3> QED
      BY <3>1, <3>2
  <2> QED
    BY <1>1, <2>2, <2>3
<1> QED
  BY <1>7, <1>8, <1>9

\* A new process has nothing in hand, and the broker has nothing out.
LEMMA DownHandles ==
    ASSUME TypeOK, NewProcess
    PROVE  HandedOutIsHandled'
<1>1. connected' /\ \A v \in Jobs : ~Busy(v)'
  BY DEF NewProcess, Busy
<1>2. \A e \in Events : message'[e] # "unacked"
  BY NothingOut DEF NewProcess
<1>3. \A v \in Consumers, e \in Events : ~Handles(v, e)'
  BY <1>1 DEF Handles, Jobs
<1> QED
  BY <1>1, <1>2, <1>3 DEF HandedOutIsHandled

LEMMA HandlingStays ==
    ASSUME TypeOK, HandedOutIsHandled, [Next]_vars
    PROVE  HandedOutIsHandled'
<1>1. ASSUME NEW w \in Consumers, NEW e \in Events, Consume(w, e)
      PROVE  HandedOutIsHandled'
  BY <1>1, ConsumeHandles
<1>2. CASE Silent
  <2>1. UNCHANGED <<message, connected>>
    BY <1>2 DEF Silent
  <2>2. \A v \in Consumers, e \in Events : Handles(v, e)' <=> Handles(v, e)
    BY <1>2, SilentKeeps
  <2> QED
    BY <2>1, <2>2 DEF HandedOutIsHandled
<1>3. ASSUME NEW w \in Jobs, SettleMessage(w)
      PROVE  HandedOutIsHandled'
  <2>1. CASE connected
    BY <1>3, <2>1, SettleHandles
  <2>2. CASE ~connected
    BY <1>3, <2>2, SettleMoves, DownHandles
  <2> QED
    BY <2>1, <2>2
<1>4. CASE NewProcess
  BY <1>4, DownHandles
<1>5. CASE ConnectionLost
  <2>1. ~connected' /\ \A e \in Events : message'[e] # "unacked"
    BY <1>5, NothingOut DEF ConnectionLost
  <2> QED
    BY <2>1 DEF HandedOutIsHandled
<1> QED
  BY <1>1, <1>2, <1>3, <1>4, <1>5, StepsOfTheBroker

\* While the connection stands, what the broker has handed out is in hand, of
\* one slot each, and nobody handles a message that is not out: no message is
\* lost between the broker and its consumer, and none is handled by two slots
\* at a time (consumer.ts:161-199).
THEOREM MessagesAreInHand == Spec => []HandedOutIsHandled
<1>1. Init => HandedOutIsHandled
  BY DEF Init, HandedOutIsHandled, Handles, Busy, Jobs
<1>2. TypeOK /\ HandedOutIsHandled /\ [Next]_vars => HandedOutIsHandled'
  BY HandlingStays
<1> QED
  BY NotificationsTypes, <1>1, <1>2, PTL DEF Spec
-----------------------------------------------------------------------------
(* The handlers and the messages run down. *)

\* A step brings its handler closer to its end, and no step of another one
\* takes a handler back.
HandlersRunDown ==
    \A w \in Jobs :
      /\ JobStep(w) => StepsLeft(jobs'[w]) < StepsLeft(jobs[w])
      /\ Busy(w) => StepsLeft(jobs'[w]) <= StepsLeft(jobs[w])

\* Only a loss gives a message new chances; on a connection that stands it
\* loses one each time it is handed out and each time it is settled.
ChancesRunDown ==
    /\ losses' = losses => \A e \in Events : Chances(e)' <= Chances(e)
    /\ connected =>
         \A w \in Consumers, e \in Events :
             Consume(w, e) \/ (SettleMessage(w) /\ e = EventOf(jobs[w])) =>
                 Chances(e)' < Chances(e)

LEMMA ChancesAreCounted ==
    ASSUME NEW e \in Events
    PROVE  Chances(e) \in 0..4
  BY DEF Chances

LEMMA HandlersStepDown ==
    ASSUME TypeOK, [Next]_vars
    PROVE  HandlersRunDown
<1>0. TypeOK'
  BY StepTypes
<1>1. \A w \in Jobs : /\ StepsLeft(jobs[w]) \in Nat
                      /\ Busy(w) => StepsLeft(jobs[w]) > 0
  <2>1. ASSUME NEW w \in Jobs, jobs[w] # Free
        PROVE  StepsLeft(jobs[w]) \in Nat /\ StepsLeft(jobs[w]) > 0
    <3>1. jobs[w] \in Job
      BY <2>1 DEF TypeOK
    <3>2. StepsLeft(jobs[w]) \in Nat \ {0}
      BY <3>1, StepsAreCounted
    <3> QED
      BY <3>2
  <2>2. StepsLeft(Free) = 0
    BY DEF StepsLeft
  <2> QED
    BY <2>1, <2>2 DEF Busy
<1>2. StepsLeft(Free) = 0
  BY DEF StepsLeft
<1>3. ASSUME NEW w \in Jobs, JobStep(w)
      PROVE  StepsLeft(jobs'[w]) < StepsLeft(jobs[w])
  <2>1. CASE HandlerMoves(w)
    BY <2>1 DEF HandlerMoves
  <2>2. CASE SettleMessage(w)
    <3>1. Busy(w) /\ jobs'[w] = Free
      BY <2>2, SettleMoves, NewProcessIsIdle DEF Busy
    <3> QED
      BY <1>1, <1>2, <3>1
  <2>3. CASE SettlePost(w)
    <3>1. Busy(w) /\ jobs'[w] = Free
      BY <2>3, PostSettles DEF Busy
    <3> QED
      BY <1>1, <1>2, <3>1
  <2> QED
    BY <1>3, <2>1, <2>2, <2>3, HandlerSteps
<1>4. ASSUME NEW w \in Jobs, Busy(w)
      PROVE  StepsLeft(jobs'[w]) <= StepsLeft(jobs[w])
  <2>1. CASE jobs'[w] = jobs[w] \/ jobs'[w] = Free
    BY <1>1, <1>2, <2>1
  <2>2. CASE JobStep(w)
    <3>1. StepsLeft(jobs'[w]) < StepsLeft(jobs[w])
      BY <1>3, <2>2
    <3>2. StepsLeft(jobs'[w]) \in Nat /\ StepsLeft(jobs[w]) \in Nat
      <4>1. jobs'[w] \in Job \cup {Free}
        BY <1>0 DEF TypeOK
      <4>2. jobs'[w] \in Job => StepsLeft(jobs'[w]) \in Nat
        BY StepsAreCounted
      <4> QED
        BY <1>1, <1>2, <4>1, <4>2
    <3> QED
      BY <3>1, <3>2
  <2>3. ASSUME ~JobStep(w) PROVE jobs'[w] = jobs[w] \/ jobs'[w] = Free
    <3>1. ASSUME NEW v \in Jobs, Others(v), v # w PROVE jobs'[w] = jobs[w]
      BY <3>1 DEF Others
    <3>2. ASSUME NEW v \in Consumers, NEW e \in Events, Consume(v, e)
          PROVE  jobs'[w] = jobs[w]
      <4>1. v \in Jobs /\ v # w /\ Others(v)
        BY <1>4, <3>2, ConsumeTakes DEF Jobs
      <4> QED
        BY <3>1, <4>1
    <3>3. ASSUME NEW v \in Posts, NEW e \in Events, Post(v, e)
          PROVE  jobs'[w] = jobs[w]
      <4>1. v \in Jobs
        BY DEF Jobs
      <4>2. v # w /\ Others(v)
        BY <1>4, <3>3, <4>1, ArrivalDoes
      <4> QED
        BY <3>1, <4>1, <4>2
    <3>4. ASSUME NEW v \in Jobs, JobStep(v)
          PROVE  jobs'[w] = jobs[w] \/ jobs'[w] = Free
      <4>1. v # w
        BY <2>3, <3>4
      <4>2. Others(v) \/ NewProcess
        BY <3>4, HandlerSteps, SettleMoves, PostSettles DEF HandlerMoves
      <4>3. NewProcess => jobs'[w] = Free
        BY DEF NewProcess
      <4> QED
        BY <3>1, <4>1, <4>2, <4>3
    <3>5. CASE Restart
      BY <3>5 DEF Restart, NewProcess
    <3>6. ASSUME \/ \E r \in Recipients : HourPasses(r)
                 \/ ConnectionLost
                 \/ UNCHANGED vars
          PROVE  jobs'[w] = jobs[w]
      BY <3>6 DEF HourPasses, ConnectionLost, vars
    <3> QED
      BY <3>2, <3>3, <3>4, <3>5, <3>6 DEF Next
  <2> QED
    BY <2>1, <2>2, <2>3
<1> QED
  BY <1>3, <1>4 DEF HandlersRunDown

LEMMA ChancesStepDown ==
    ASSUME TypeOK, HandedOutIsHandled, [Next]_vars
    PROVE  ChancesRunDown
<1>1. ASSUME NEW w \in Consumers, NEW e \in Events, Consume(w, e)
      PROVE  \A x \in Events : Chances(x)' <= Chances(x) /\ (x = e => Chances(x)' < Chances(x))
  <2>1. /\ \A x \in Events \ {e} : Chances(x)' = Chances(x)
        /\ Chances(e)' < Chances(e)
    BY <1>1, ConsumeHandles
  <2>2. \A x \in Events : Chances(x) \in Int
    BY ChancesAreCounted
  <2>3. \A x \in Events : Chances(x)' \in Int
    BY DEF Chances
  <2> QED
    BY <2>1, <2>2, <2>3
<1>2. ASSUME NEW w \in Jobs, SettleMessage(w), connected
      PROVE  \A x \in Events :
               /\ Chances(x)' <= Chances(x)
               /\ x = EventOf(jobs[w]) => Chances(x)' < Chances(x)
  <2>1. /\ \A x \in Events : x # EventOf(jobs[w]) => Chances(x)' = Chances(x)
        /\ \A x \in Events : x = EventOf(jobs[w]) => Chances(x)' < Chances(x)
    <3>1. ASSUME NEW e, e = EventOf(jobs[w])
          PROVE  /\ \A x \in Events \ {e} : Chances(x)' = Chances(x)
                 /\ Chances(e)' < Chances(e)
      BY <1>2, <3>1, SettleHandles
    <3> QED
      BY <3>1
  <2>2. \A x \in Events : Chances(x) \in Int
    BY ChancesAreCounted
  <2>3. \A x \in Events : Chances(x)' \in Int
    BY DEF Chances
  <2> QED
    BY <2>1, <2>2, <2>3
<1>3. ASSUME NewProcess, ~connected
      PROVE  \A x \in Events : Chances(x)' = Chances(x)
  <2>1. \A x \in Events : message[x] # "unacked"
    BY <1>3 DEF HandedOutIsHandled
  <2>2. \A x \in Events : message'[x] = message[x]
    BY <1>3, <2>1, NothingOut DEF NewProcess
  <2> QED
    BY <2>1, <2>2 DEF Chances
<1>4. ASSUME Silent PROVE \A x \in Events : Chances(x)' = Chances(x)
  BY <1>4, SilentKeeps
<1>5. losses' = losses => \A e \in Events : Chances(e)' <= Chances(e)
  <2>1. \A x \in Events : Chances(x) \in Int
    BY ChancesAreCounted
  <2>2. ASSUME NEW w \in Jobs, SettleMessage(w)
        PROVE  \A x \in Events : Chances(x)' <= Chances(x)
    BY <1>2, <1>3, <2>1, <2>2, SettleMoves
  <2> QED
    BY <1>1, <1>4, <2>1, <2>2, StepsOfTheBroker
<1> QED
  BY <1>1, <1>2, <1>5 DEF ChancesRunDown, Jobs

\* A delivery takes at most seven steps per mail of its event and is then
\* settled: each step of its handler brings it closer to the end, and nothing
\* that another delivery, the broker or the clock does takes it back.
THEOREM DeliveriesEnd ==
    Spec => [](\A w \in Jobs :
                 /\ StepsLeft(jobs[w]) \in Nat /\ (StepsLeft(jobs[w]) = 0 <=> ~Busy(w))
                 /\ Busy(w) => StepsLeft(jobs[w]) <= 7 * Len(Mails[EventOf(jobs[w])]))
            /\ [][HandlersRunDown]_vars
<1>1. ASSUME TypeOK, NEW w \in Jobs
      PROVE  /\ StepsLeft(jobs[w]) \in Nat /\ (StepsLeft(jobs[w]) = 0 <=> ~Busy(w))
             /\ Busy(w) => StepsLeft(jobs[w]) <= 7 * Len(Mails[EventOf(jobs[w])])
  <2>1. CASE Busy(w)
    <3>1. jobs[w] \in Job
      BY <1>1, <2>1, BusyIsJob
    <3> QED
      BY <2>1, <3>1, StepsAreCounted
  <2>2. CASE ~Busy(w)
    BY <2>2 DEF Busy, StepsLeft
  <2> QED
    BY <2>1, <2>2
<1>2. TypeOK => \A w \in Jobs :
                 /\ StepsLeft(jobs[w]) \in Nat /\ (StepsLeft(jobs[w]) = 0 <=> ~Busy(w))
                 /\ Busy(w) => StepsLeft(jobs[w]) <= 7 * Len(Mails[EventOf(jobs[w])])
  BY <1>1
<1>3. TypeOK /\ [Next]_vars => HandlersRunDown
  BY HandlersStepDown
<1> QED
  BY NotificationsTypes, <1>2, <1>3, PTL DEF Spec

\* A message is handed out and settled at most twice between two losses: it
\* has four chances at most, and only a restart or a lost connection gives it
\* new ones (consumer.ts:185-199).
THEOREM MessagesRunDown ==
    Spec => [](\A e \in Events : Chances(e) \in 0..4) /\ [][ChancesRunDown]_vars
<1>1. \A e \in Events : Chances(e) \in 0..4
  BY ChancesAreCounted
<1>2. TypeOK /\ HandedOutIsHandled /\ [Next]_vars => ChancesRunDown
  BY ChancesStepDown
<1> QED
  BY NotificationsTypes, MessagesAreInHand, <1>1, <1>2, PTL DEF Spec

=============================================================================
