---------------------------- MODULE Notifications ----------------------------
(***************************************************************************)
(* How services/notifications turns an event into mails: the AMQP consumer *)
(* and the webhook (consumer.ts, webhook.router.ts), the handlers, and     *)
(* sendEmail() with its log of keys and its rate limiter (notification.    *)
(* service.ts, delivery-log.repository.ts, rate-limiter.service.ts).       *)
(*                                                                         *)
(* A handler sends the mails of its event one after the other.  Each mail  *)
(* has a key; the query for it, the insert, the call of the provider and   *)
(* the update are awaited one by one, and another delivery of the event    *)
(* may be anywhere in between.  The log survives a restart, the counts of  *)
(* the rate limiter do not.                                                *)
(***************************************************************************)
EXTENDS Naturals, Sequences, FiniteSets

CONSTANTS
    Events,        \* events that are published
    Recipients,    \* mail addresses
    Mails,         \* [Events -> whom its handler writes to, in order]
    Consumers,     \* messages the broker hands out at a time (prefetch)
    Posts,         \* webhooks in flight at a time (bound of the model)
    Limit,         \* RATE_LIMIT_EMAIL_PER_HOUR
    MaxPosts,      \* bound: webhooks that arrive
    MaxLosses      \* bound: restarts and losses of the broker

ASSUME NotificationsAssumption ==
    /\ Mails \in [Events -> Seq(Recipients) \ {<<>>}]
    /\ IsFiniteSet(Consumers) /\ IsFiniteSet(Posts) /\ Consumers \cap Posts = {}
    /\ Limit \in Nat \ {0} /\ MaxPosts \in Nat /\ MaxLosses \in Nat

VARIABLES
    row,        \* [Keys -> status of the key in delivery_logs]
    window,     \* [Recipients -> count of the rate limiter]
    message,    \* [Events -> where the broker has the message]
    connected,  \* does the broker's connection stand?
    jobs,       \* [Jobs -> what the delivery it handles has come to]
    mails,      \* [Keys -> mails the provider took]
    answered,   \* events whose webhook was answered with success
    crossed,    \* history: keys taken up again, or overwritten as sent,
                \*   while another delivery had them under way
    unsure,     \* history: keys of a mail the log may not know of
    unlogged,   \* history: keys with an attempt the log has no row for
    posts,      \* bound: webhooks that have arrived
    losses      \* bound: restarts and losses so far

vars == <<row, window, message, connected, jobs, mails, answered,
          crossed, unsure, unlogged, posts, losses>>

Keys == UNION {{<<e, i>> : i \in 1..Len(Mails[e])} : e \in Events}
To(k) == Mails[k[1]][k[2]]
Jobs == Consumers \cup Posts

Outcomes == {"sent", "failed", "limited"}
Statuses == {"none", "pending"} \cup Outcomes

\* at: the await the handler is at; seen: the row it read; outcome: of the
\* mail; again: the message came marked as redelivered.
Job == [at : {"look", "admit", "insert", "send", "record", "count", "returned", "threw"},
        key : Keys, seen : Statuses, outcome : {"none"} \cup Outcomes, again : BOOLEAN]
Free == [at |-> "free"]

Start(k, again) ==
    [at |-> "look", key |-> k, seen |-> "none", outcome |-> "none", again |-> again]

EventOf(j) == j.key[1]

\* The handler goes on to its next mail, or returns.
Proceed(j) ==
    IF j.key[2] < Len(Mails[EventOf(j)]) THEN Start(<<EventOf(j), j.key[2] + 1>>, j.again)
    ELSE [j EXCEPT !.at = "returned", !.seen = "none", !.outcome = "none"]

At(w, stage) == jobs[w].at = stage
\* A delivery has the key k in hand: it has read its row and not yet written.
Holds(w, k) == jobs[w].at \in {"admit", "insert", "send", "record"} /\ jobs[w].key = k

TypeOK ==
    /\ row \in [Keys -> Statuses]
    /\ window \in [Recipients -> Nat]
    /\ message \in [Events -> {"absent", "ready", "again", "unacked", "acked", "dead"}]
    /\ connected \in BOOLEAN
    /\ jobs \in [Jobs -> Job \cup {Free}]
    /\ mails \in [Keys -> Nat]
    /\ answered \subseteq Events
    /\ crossed \subseteq Keys /\ unsure \subseteq Keys /\ unlogged \subseteq Keys
    /\ posts \in 0..MaxPosts /\ losses \in 0..MaxLosses

\* Messages wait in the durable queue when the service starts.
Init ==
    /\ row = [k \in Keys |-> "none"]
    /\ window = [r \in Recipients |-> 0]
    /\ message \in [Events -> {"absent", "ready"}]
    /\ connected = TRUE
    /\ jobs = [w \in Jobs |-> Free]
    /\ mails = [k \in Keys |-> 0]
    /\ answered = {} /\ crossed = {} /\ unsure = {} /\ unlogged = {}
    /\ posts = 0 /\ losses = 0

-----------------------------------------------------------------------------
(* Deliveries of an event *)

\* The broker hands out a message; one it handed out before is marked.
Consume(w, e) ==
    /\ connected /\ jobs[w] = Free
    /\ message[e] \in {"ready", "again"}
    /\ jobs' = [jobs EXCEPT ![w] = Start(<<e, 1>>, message[e] = "again")]
    /\ message' = [message EXCEPT ![e] = "unacked"]
    /\ UNCHANGED <<row, window, connected, mails, answered, crossed, unsure, unlogged, posts, losses>>

\* The event bus posts an event, perhaps not for the first time, perhaps
\* while the first post is still being handled.
Post(w, e) ==
    /\ jobs[w] = Free /\ posts < MaxPosts
    /\ jobs' = [jobs EXCEPT ![w] = Start(<<e, 1>>, FALSE)]
    /\ posts' = posts + 1
    /\ UNCHANGED <<row, window, message, connected, mails, answered, crossed, unsure, unlogged, losses>>

-----------------------------------------------------------------------------
(* sendEmail() *)

\* checkIdempotency().
Look(w) ==
    /\ At(w, "look")
    /\ LET k == jobs[w].key IN
         /\ jobs' = [jobs EXCEPT ![w].at = "admit", ![w].seen = row[k]]
         /\ crossed' = IF row[k] \notin {"none", "sent"} /\ (\E v \in Jobs \ {w} : Holds(v, k))
                       THEN crossed \cup {k} ELSE crossed
    /\ UNCHANGED <<row, window, message, connected, mails, answered, unsure, unlogged, posts, losses>>

\* Variant: the limit is compared with what was sent before, not with this mail.
AdmitLate(w) ==
    /\ At(w, "admit")
    /\ LET j == jobs[w] IN
         jobs' = [jobs EXCEPT ![w] =
           CASE j.seen = "sent" -> Proceed(j)
             [] j.seen # "sent" /\ window[To(j.key)] > Limit ->
                  [j EXCEPT !.at = "record", !.seen = "none", !.outcome = "limited"]
             [] OTHER -> [j EXCEPT !.at = IF j.seen = "none" THEN "insert" ELSE "send",
                                   !.seen = "none"]]
    /\ UNCHANGED <<row, window, message, connected, mails, answered, crossed, unsure, unlogged, posts, losses>>

\* Only a mail on record as sent is not sent again; a recipient at the limit
\* gets none.
Admit(w) ==
    /\ At(w, "admit")
    /\ LET j == jobs[w] IN
         jobs' = [jobs EXCEPT ![w] =
           CASE j.seen = "sent" -> Proceed(j)
             [] j.seen # "sent" /\ window[To(j.key)] >= Limit ->
                  [j EXCEPT !.at = "record", !.seen = "none", !.outcome = "limited"]
             [] OTHER -> [j EXCEPT !.at = IF j.seen = "none" THEN "insert" ELSE "send",
                                   !.seen = "none"]]
    /\ UNCHANGED <<row, window, message, connected, mails, answered, crossed, unsure, unlogged, posts, losses>>

\* Variant: no UNIQUE, the second insert goes on to send.
InsertUpserts(w) ==
    /\ At(w, "insert")
    /\ row' = [row EXCEPT ![jobs[w].key] = "pending"]
    /\ jobs' = [jobs EXCEPT ![w].at = "send"]
    /\ UNCHANGED <<window, message, connected, mails, answered, crossed, unsure, unlogged, posts, losses>>

\* Variant: the row is created as sent.
InsertOptimistic(w) ==
    /\ At(w, "insert")
    /\ LET k == jobs[w].key IN
         IF row[k] = "none"
         THEN /\ row' = [row EXCEPT ![k] = "sent"]
              /\ jobs' = [jobs EXCEPT ![w].at = "send"]
         ELSE /\ jobs' = [jobs EXCEPT ![w].at = "threw"]
              /\ UNCHANGED row
    /\ UNCHANGED <<window, message, connected, mails, answered, crossed, unsure, unlogged, posts, losses>>

\* create(): idempotency_key is UNIQUE, so the second insert throws.
Insert(w) ==
    /\ At(w, "insert")
    /\ LET k == jobs[w].key IN
         IF row[k] = "none"
         THEN /\ row' = [row EXCEPT ![k] = "pending"]
              /\ jobs' = [jobs EXCEPT ![w].at = "send"]
         ELSE /\ jobs' = [jobs EXCEPT ![w].at = "threw"]
              /\ UNCHANGED row
    /\ UNCHANGED <<window, message, connected, mails, answered, crossed, unsure, unlogged, posts, losses>>

\* A query throws, and with it the handler; an insert may have been done.
QueryFails(w) ==
    /\ At(w, "look") \/ At(w, "insert")
    /\ jobs' = [jobs EXCEPT ![w].at = "threw"]
    /\ \/ UNCHANGED row
       \/ /\ At(w, "insert") /\ row[jobs[w].key] = "none"
          /\ row' = [row EXCEPT ![jobs[w].key] = "pending"]
    /\ UNCHANGED <<window, message, connected, mails, answered, crossed, unsure, unlogged, posts, losses>>

\* provider.send() turns every error into a failed result, a lost answer too.
Send(w, taken, outcome) ==
    /\ At(w, "send") /\ (outcome = "sent" => taken)
    /\ LET k == jobs[w].key IN
         /\ mails' = IF taken THEN [mails EXCEPT ![k] = @ + 1] ELSE mails
         /\ unsure' = IF taken /\ outcome = "failed" THEN unsure \cup {k} ELSE unsure
    /\ jobs' = [jobs EXCEPT ![w].at = "record", ![w].outcome = outcome]
    /\ UNCHANGED <<row, window, message, connected, answered, crossed, unlogged, posts, losses>>

\* updateStatus() writes whatever status the row has; where there is no row
\* it writes nothing.
Record(w) ==
    /\ At(w, "record")
    /\ LET k == jobs[w].key
           o == jobs[w].outcome IN
         /\ row' = IF row[k] = "none" THEN row ELSE [row EXCEPT ![k] = o]
         /\ unlogged' = IF row[k] = "none" THEN unlogged \cup {k} ELSE unlogged
         /\ crossed' = IF row[k] = "sent" /\ o # "sent" THEN crossed \cup {k} ELSE crossed
    /\ jobs' = [jobs EXCEPT ![w].at = "count"]
    /\ UNCHANGED <<window, message, connected, mails, answered, unsure, posts, losses>>

\* The update throws: recordDeliveryAttempt() swallows it.
RecordFails(w) ==
    /\ At(w, "record")
    /\ unlogged' = unlogged \cup {jobs[w].key}
    /\ unsure' = IF jobs[w].outcome = "sent" THEN unsure \cup {jobs[w].key} ELSE unsure
    /\ jobs' = [jobs EXCEPT ![w].at = "count"]
    /\ UNCHANGED <<row, window, message, connected, mails, answered, crossed, posts, losses>>

\* recordSend(), and on to the next mail.
Count(w) ==
    /\ At(w, "count")
    /\ window' = IF jobs[w].outcome = "sent" THEN [window EXCEPT ![To(jobs[w].key)] = @ + 1]
                 ELSE window
    /\ jobs' = [jobs EXCEPT ![w] = Proceed(@)]
    /\ UNCHANGED <<row, message, connected, mails, answered, crossed, unsure, unlogged, posts, losses>>

-----------------------------------------------------------------------------
(* The end of a delivery *)

\* A new process: what was in flight is gone, the broker hands it out again,
\* and a mail that was sent but not recorded is forgotten.
NewProcess ==
    /\ jobs' = [w \in Jobs |-> Free]
    /\ window' = [r \in Recipients |-> 0]
    /\ connected' = TRUE
    /\ message' = [e \in Events |-> IF message[e] = "unacked" THEN "again" ELSE message[e]]
    /\ unsure' = unsure \cup {k \in Keys : \E w \in Jobs :
                     At(w, "record") /\ jobs[w].outcome = "sent" /\ jobs[w].key = k}
    /\ UNCHANGED <<row, mails, answered, crossed, unlogged, posts>>

\* Variant: every end is acknowledged, a failure too.
SettledAcksAll(j) == "acked"

\* Variant: a failure is requeued every time.
SettledRequeues(j) == IF j.at = "returned" THEN "acked" ELSE "again"

\* The handler's end is acknowledged; its failure is requeued once.
Settled(j) ==
    CASE j.at = "returned"          -> "acked"
      [] j.at = "threw" /\ j.again  -> "dead"
      [] j.at = "threw" /\ ~j.again -> "again"

\* On a connection that is lost ack() throws, reject() throws in the catch
\* block, and the unhandled rejection ends the process.
SettleMessage(w) ==
    /\ w \in Consumers
    /\ At(w, "returned") \/ At(w, "threw")
    /\ \/ /\ connected
          /\ message' = [message EXCEPT ![EventOf(jobs[w])] = Settled(jobs[w])]
          /\ jobs' = [jobs EXCEPT ![w] = Free]
          /\ UNCHANGED <<row, window, connected, mails, answered, crossed, unsure, unlogged, posts>>
       \/ ~connected /\ NewProcess
    /\ UNCHANGED losses

SettlePost(w) ==
    /\ w \in Posts
    /\ At(w, "returned") \/ At(w, "threw")
    /\ answered' = IF At(w, "returned") THEN answered \cup {EventOf(jobs[w])} ELSE answered
    /\ jobs' = [jobs EXCEPT ![w] = Free]
    /\ UNCHANGED <<row, window, message, connected, mails, crossed, unsure, unlogged, posts, losses>>

-----------------------------------------------------------------------------
(* Time and failures *)

\* An hour after its first mail the window of a recipient is over.
HourPasses(r) ==
    /\ window[r] > 0
    /\ window' = [window EXCEPT ![r] = 0]
    /\ UNCHANGED <<row, message, connected, jobs, mails, answered, crossed, unsure, unlogged, posts, losses>>

Restart ==
    /\ losses < MaxLosses
    /\ NewProcess
    /\ losses' = losses + 1

\* The broker requeues what it has handed out; the service logs it, goes on,
\* and does not connect again.
ConnectionLost ==
    /\ connected /\ losses < MaxLosses
    /\ connected' = FALSE
    /\ message' = [e \in Events |-> IF message[e] = "unacked" THEN "again" ELSE message[e]]
    /\ losses' = losses + 1
    /\ UNCHANGED <<row, window, jobs, mails, answered, crossed, unsure, unlogged, posts>>

-----------------------------------------------------------------------------
JobStep(w) ==
    \/ Look(w) \/ Admit(w) \/ Insert(w) \/ QueryFails(w)
    \/ \E taken \in BOOLEAN, outcome \in {"sent", "failed"} : Send(w, taken, outcome)
    \/ Record(w) \/ RecordFails(w) \/ Count(w)
    \/ SettleMessage(w) \/ SettlePost(w)

Next ==
    \/ \E w \in Consumers, e \in Events : Consume(w, e)
    \/ \E w \in Posts, e \in Events : Post(w, e)
    \/ \E w \in Jobs : JobStep(w)
    \/ \E r \in Recipients : HourPasses(r)
    \/ Restart
    \/ ConnectionLost

Spec == Init /\ [][Next]_vars

\* The broker hands out what waits while a slot is free, and queries and the
\* provider answer or fail in the end.
FairSpec ==
    /\ Spec
    /\ \A w \in Jobs : WF_vars(JobStep(w))
    /\ WF_vars(\E w \in Consumers, e \in Events : Consume(w, e))

-----------------------------------------------------------------------------
(* Properties *)

\* A mail goes out once, however often and however close together its event
\* is delivered, unless two deliveries had it in hand at the same time after
\* its row was there, or the log lost the mail (notification.service.ts:100-118).
OneMailPerKey ==
    \A k \in Keys \ (crossed \cup unsure) : mails[k] <= 1

\* The log calls a mail sent only if it was; and calls each mail sent, as
\* soon as its delivery is recorded, but for the same two exceptions
\* (notification.service.ts:174-175, 353-354).
LogIsTrue ==
    \A k \in Keys :
      /\ row[k] = "sent" => mails[k] > 0
      /\ mails[k] > 0 => \/ row[k] = "sent" \/ k \in crossed \cup unsure
                         \/ \E w \in Jobs : Holds(w, k) /\ At(w, "record")

\* An event that is acknowledged or answered has the outcome of each of its
\* mails in the log, or the attempt to write it had no row or failed
\* (consumer.ts:162-165, webhook.router.ts:84-98).
EventIsLogged ==
    \A k \in Keys : message[k[1]] = "acked" \/ k[1] \in answered =>
        row[k] \in Outcomes \/ k \in unlogged

\* A recipient gets more mails in a window than the limit only through
\* deliveries that were admitted side by side (notification.service.ts:121).
WithinLimit ==
    \A r \in Recipients : window[r] < Limit + Cardinality(Jobs)

\* A message that waits is acknowledged or given up in the end, unless the
\* connection is lost: nothing connects again (consumer.ts:94-96).
MessageIsSettled ==
    \A e \in Events :
        message[e] \in {"ready", "again"} ~> message[e] \in {"acked", "dead"} \/ ~connected
=============================================================================
