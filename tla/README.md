# Verification of howweplan

TLA+ models, model checking and proofs for the backend of howweplan, a marketplace
where travellers post requests, agents are matched with them, and bookings are paid,
refunded, disputed and reviewed. The backend is fourteen Node services and seven shared
packages; they talk over HTTP and over an event bus of their own.

Modelled so far: the event bus, which every other service relies on, the matching engine,
the services that a trip goes through - requests, booking-payments, disputes
and reviews - and notifications, which writes to people about all of it.
The inventory below covers the whole repository; the plan at the end says what comes next.

All paths are relative to `src/`. `ebs/` abbreviates `services/event-bus-service/`.

## 1. The system

### Components

| component | state | operations | what is hard | what makes it correct |
|---|---|---|---|---|
| **event store** `ebs/src/store` | events by id, their order, three index maps; all in memory | append, read by domain / correlation / aggregate, replay | appends overlap at a 1 ms timer while earlier ones evict; restart | the log is the unbroken run of the newest events, indexes agree with it, pages skip nothing |
| **consumer manager, pull** `ebs/src/consumers` | consumers, offset per topic, an ack timer per delivery | register, subscribe, consume, ack, nack, deactivate, remove | acks late, repeated, out of order; timers race nacks; eviction under an offset | nothing between offset, timer and dead letters vanishes; a delivery fails once |
| **consumer manager, webhooks** `ebs/src/consumers` | subscriptions, background tasks | publish, attempt, subscribe, unsubscribe | lost responses; tasks outlive their subscription | every started delivery arrives or is dead-lettered |
| **dead letter queue** `ebs/src/dlq` | an entry per (event, consumer), retry timers | recordFailure, manualRetry, discard, scheduleRetry, cleanup | entries reopen; operators race tasks | status agrees with count |
| bus schema, authorization, metrics | static tables, counters | validate, authorize, count | - | stateless |
| **matching** `services/matching` | a MatchingState per request, in memory; agents in a table | processRequest, decline, timeout, accept, overrides, cleanup | every publish is an await that may throw; searches sleep 300 s; handlers share a state | handlers end; searches stay within their attempts; no request is left hanging |
| **booking-payments** `services/booking-payments` | idempotency keys and header records in memory; charges and refunds live at the gateway, bookings are built and published | gateway webhooks, create order, create and process refund, create booking | repeated webhooks, keys read before and marked after an await, lost answers, publishes that fail silently, expiry of keys, restart | a key acts once; what is answered is done; a made refund is recorded; a captured payment is charged |
| **requests** `services/requests` | rows of `travel_requests` | create under caps, submit, cancel, admin cancel / expire / transition, expiry job | the expiry job works on a snapshot and validates nothing; writes replace whole rows; caps are count-then-insert; publishes throw | changes follow the table; caps hold; states are announced, with one ending; overdue requests close |
| **disputes** `services/disputes` | disputes, evidence, responses, resolutions, arbitration records; all in memory | open, submit evidence, respond, withdraw, assign, review, escalate, resolve, note | admins, agent and traveller cross at publishes; a handler goes by a state it read before one | a verdict is final and paid at most once; evidence moves its dispute on; a decision to pay is approved |
| **notifications** `services/notifications` | a delivery log by idempotency key (a table), a count per recipient in memory, messages of a broker | consume a message, take a webhook, send a mail | broker and webhook bring one event twice, at once; every query is an await; lost answers; a restart between the provider and the log; a lost broker | one mail per key; the log is true; the limit holds; each message is settled |
| itineraries | itineraries, versions, disclosure | draft, submit, approve, archive, disclose | read-modify-write of whole rows; an expiry job | no disclosure before payment |
| messaging | conversations, messages, read marks | send, edit, read, close | concurrent read marks; masking of contacts | unread counts agree with marks |
| identity | accounts, sessions, agent verification | register, login, refresh, verify | token rotation; buffered audit events flushed by a timer | a revoked session stays revoked |
| **reviews** `services/reviews` | rows of `reviews`; scores and badges derived from them | create pair, draft, submit with an analysis, publish, moderate, hide, unhide | author, analysis and admins cross at every query; the version that should keep them apart never changes; a submission is cut off half way | what is public was cleared as it stands; a submission gets its decision |
| audit | append-only log | consume, store, query | ack after store; reconnect gives up after ten tries | an acknowledged event is stored |
| api-gateway | circuit breaker and cache per service, sockets | proxy, limit, broadcast | late results of another breaker epoch | an open breaker closes again |
| wishlist | a table | CRUD | - | - |
| packages/resilience, idempotency, cache, auth-utils, contracts, observability | breaker, bulkhead, request keys, cache entries | execute, acquire, complete | late results; a key that expires while held | one execution per key |
| web applications, database, deployment | presentation, tables, containers | - | - | not modelled |

### How they interact

Services publish over HTTP to the event bus (`POST /publish`), which stores the event and
starts webhook tasks; subscribers are called by webhook (matching's `routes/webhook.router.ts`)
or poll (`POST /consume`, `/ack`, `/nack`). Failures of either way of delivery end in the
bus's dead letter queue, which operators see under `/dlq`. Inside a service the handlers
share in-memory maps or a database; a handler that awaits gives way to all others.

### Execution model

Each service is one Node process. Between two awaits a handler runs alone; an `await` of an
in-memory map is an already resolved promise, and lets nothing but its own continuation
run. So a request of the event bus is one atomic action, except where it meets a real timer
or a `fetch`: the 1 ms timer of `persist()`, the ack timers, the webhook attempts. In the
matching engine every publish is a `fetch`, and every one is a point where flows interleave.
In booking-payments these points are the calls of the gateway and the publishes, in disputes
the publishes, in requests every query of the database and every publish to Redis, in reviews every query,
in notifications every query, every call of the mail provider and every message of the broker.

## 2. The modules

| module | models | extends |
|---|---|---|
| `EventStore` | `event-store.ts` | - |
| `DeadLetters` | the entries of `dead-letter-queue.ts` and what an operation does to one | - |
| `DeliveryContract` | what the bus promises about one delivery (abstract) | - |
| `PullConsumption` | the pull half of `consumer-manager.ts` and its routes | EventStore, DeadLetters; refines DeliveryContract |
| `WebhookDelivery` | the push half, its routes and the operator's retry and discard | EventStore, DeadLetters; refines DeliveryContract |
| `MatchingEngine` | `matching-engine.ts`, `selection.ts`, `event-handlers.ts` | - |
| `EventStoreProofs` | theorems about `EventStore`, lemmas about `DeadLetters` | EventStore, DeadLetters |
| `PullConsumptionProofs` | theorems about `PullConsumption` | `EventStoreProofs` |
| `WebhookDeliveryProofs` | theorems about `WebhookDelivery` | `EventStoreProofs` |
| `MatchingEngineProofs` | theorems about `MatchingEngine` | - |
| `Payments`, `PaymentsProofs` | the keyed operations of booking-payments | - |
| `Requests`, `RequestsProofs` | `request.service.ts` with its repository, state machine and caps | - |
| `Disputes` | the services of disputes over their state machine | - |
| `Reviews` | `review.service.ts` over `review.repository.ts` | - |
| `DecisionsProofs` | theorems about `Disputes` and about `Reviews` | both |
| `Notifications`, `NotificationsProofs` | the deliveries of `consumer.ts` and `webhook.router.ts`, `sendEmail()`, its log and its limiter | - |
| `MCEventStore`, `MCPullConsumption`, `MCWebhookDelivery`, `MCMatchingEngine`, `MCNotifications`, `MCReviews` | constants for TLC | |

Operators whose comment begins with "Variant:" are what a plausible bug would make of the
operator after them. Nothing uses them; each has been put in place of its original to see
that some property then fails (`mutants` in `PROJECT.json`).

### EventStore

State: `appended` (every envelope `append()` was called for; its index is the event's id),
`persisted` (how many of them have passed the 1 ms timer), `eventOrder`, `index` (the three
maps as one function over their keys), `acknowledged`, `now`. Node fires timers of equal
delay in the order they were set, so waiting appends are a queue and `appended` with
`persisted` is all there is to know of them. `AppendCall` is `append()` up to its await,
`Persist` what the timer runs - store, index, evict, return -, `StoreRestart` the loss of
the process, `Tick` the clock. `Date.now()` is the clock of the host: it may jump ahead and,
with `ClockStepsBack`, be set back. The log does not depend on it; the merged responses of
pull consumption are sorted by it, and their runs and theorems assume that it is not set back
(section 5 says what happens when it is). Envelopes keep type, correlation, aggregate and the stamp;
payloads and metadata are left out. Only the pair of restart and durability looks at a
restart: the composed modules run within one life of the process.

### PullConsumption

State: `consumers`, `offsets`, `pendingDeliveries` (the timer map), the dead letter entries
of `DeadLetters`, and the client's side: what it `held`, its last `batch`, and history
(`handedOut`, `acked`, `skipTo`). Actions are the routes and the timer: `Register`,
`Subscribe`, `Pull`, `FirstAck` and `RepeatedAck`, `NegativeAck`, `Leave`, `AckTimeout`, and
`Publish` for the store's own steps. `Pull` follows `pullEvents()`: a page per topic limited
by domain, filter by type, a stable sort by stamp, a slice. A response is described by what
it must contain (`IsResponse`) rather than by sorting. No client of `/consume` is in the
repository; it is modelled as one that polls a fixed list of topics, answers only what it
was handed, and does that at any time, in any order, or never. Seeks and repeated acks are
counted together in `repeats` and bounded by `MaxRepeats`.

### WebhookDelivery

`tasks[d][a]` counts the background tasks of delivery `d` that are about to make attempt
`a`: tasks of a delivery are alike. `Publish` is the second half of a publish (store, then
start tasks), `Attempt` one round of the retry loop with what the endpoint saw (`reached`)
and what the bus learnt (`ok`), `ManualRetry` and `Discard` the operator's routes.

### MatchingEngine

One travel request: requests share nothing but the map. `states` are the MatchingState
objects ever made for it (a repeated RequestCreated replaces the one in the map while
handlers still hold the old), `current` the one in the map. A flow is a webhook being
handled; its record holds the local variables that survive an await, and `pc` names the
await:

| `pc` | the flow waits for |
|---|---|
| `opening` | the status MATCHING_IN_PROGRESS to be published |
| `cooling` | the cooldown between two searches |
| `announcing` | the status AWAITING_AGENT_RESPONSE to be published |
| `declined` | AgentDeclined to be published |
| `rematching` | RematchInitiated to be published |
| `closing` | the last publishes, after which it changes nothing |

An action runs from one await to the next. Scores and availability are abstracted: the pool
a handler fetched is any set of agents, the order of scores any order; stars before bench,
the minimum, the maximum and the exclusions are kept. Accepting a match changes only the
agent's workload row, which shows as another pool.

### Payments

`marked` is `IdempotencyStore`: one map for webhooks, orders, refunds and bookings, whose
keys have disjoint prefixes or are chosen by clients; `cached` the middleware's own map. A
job is an operation in flight; its stage names the await: `gateway`, `ledger`
(`recordMoneyMovement()` publishes) or `announce` (the domain event). The three kinds of
operation mark their key at different points - a webhook at its end, a gateway call when the
gateway has answered, a booking before anything is awaited - and that is what the module is
about. `made`, `ledger` and `told` count what reached the gateway and the bus; `faults` is
history, and says which of the hazards befell a key, so that a property can be stated
exactly where the code keeps it. The controllers of orders answer 501, and
`processRefund()` has no caller; they are modelled as their signatures offer them.

A delivery of the gateway (`ReceiveWebhook`) is answered 400 and changes nothing when its
signature does not verify. Whether it does is a property of how the body arrives, so the
payments whose deliveries verify are a constant, `Verified`: on the exact path of the route
none do (section 5). A payment without a booking id in its notes (`Unbooked`) is marked and
answered at once, with nothing done. `GatewayStops` is the gateway giving up an event it got
no 200 for. With `AuditEnabled` false `recordMoneyMovement()` returns at once and the stage
`ledger` is skipped. Left out: `order.paid`, `refund.*` and unknown events, which write a
log line; the catch-all 200 of the handler, which a body without a payment reaches and no
failure of a publish does, because `publish()` swallows it; and a booking refused for its
price, whose failed response deletes the record of its header.

### Requests

`row` is the table (state and canceller are the columns that operations change), for the
requests of one user: no code relates two users. An operation is `Read` (with the
validation), `Write` (the whole row, by id alone) and its announcements, each one await
(`Emit`). The expiry job reads a page and then writes and announces row after row. A lost
answer, a failed query and a publish that throws are actions. `raced` records the requests
written from a copy that was no longer the row: the code has no version column, so what it
promises, it promises for the others. Limits are constants: the 60 s cache in front of the
settings table is left out, as is the mapping of states of older schemas, which is the
identity on the states modelled. Creation writes `submitted`; a `draft` is only ever the
default of the column. Rows found at start are open ones in any state.

### Disputes

The stores are maps and are awaited as settled promises, so an action runs from one publish
to the next: `CreateDispute`, `SubmitEvidence`, `Respond`, `Withdraw`, `StartReview`,
`Escalate` and `Resolve` run up to the first publish, `EndPublish` from one to the next.
`RefusedReview` and `RefusedResolve` are the operations that throw after they have already
changed something: a review that is not allowed has assigned the dispute, a resolution that
is not allowed is on file. The sample disputes seeded outside production, the deadline
expiry that nothing calls and the event subscriber, which is commented out, are left out.

### Reviews

One review: reviews share nothing but what the analysis of one reads of others, and its
outcome is left open. `row` has the columns the operations change. `SaveDraft`,
`SubmitReview`, `ModerateReview`, `HideReview` and `UnhideReview` read the row and check its
status; `at` names the query the handler waits for next:

| `at` | the handler waits for |
|---|---|
| `write` | its write of the status |
| `record` | the audit event of that write |
| `analyse`, `score` | a submission: the analysis, and its score being stored |
| `publish` | a submission: `publishReview()` reading the row again |
| `final`, `note` | a submission: the write of its outcome, and the last audit event |

`WriteStatus` stands for `updateStatus()`, and for the `update()` of a draft, which asks for
no version. `version` is in the model because the code compares it, and is always 1 because
no code sets another. `Fail` is a query that throws and the end of the process alike: nothing
resumes a handler. The rating, title and content of a review are one text; a draft that
changes a part of it is another text. Texts too short are refused like a missing row and are
left out. `cleared`, `overtaken` and `cut` are history: the texts that the analysis or a
moderator let pass, whether a handler ever wrote over a row it did not go by, and whether a
submission ended early since the status last changed.

### Notifications

A job is a delivery being handled, of a message the broker handed out (`Consumers`, as many
as the prefetch) or of a webhook (`Posts`). A handler sends the mails of its event one after
the other; `at` names the await a mail is at:

| `at` | the delivery waits for |
|---|---|
| `look` | the query for the key |
| `admit` | the rate limiter |
| `insert` | the row being created |
| `send` | the provider |
| `record` | the update of the row |
| `count` | the limiter's count |
| `returned`, `threw` | nothing: `SettleMessage` or `SettlePost` is next |

`row` is `delivery_logs` with its UNIQUE key, `window` the limiter's count, `message` where
the broker has the message of an event, `answered` the webhooks that got their 200. `Look`
reads the row and `Admit` goes by what was read: only `sent` keeps a mail from going out
again. `Send` distinguishes what the provider took from what the service learnt.
`RecordFails` is the update whose error `recordDeliveryAttempt()` swallows. `Restart` loses
jobs and counts and has the broker hand out again what it had handed out, marked as
redelivered; `ConnectionLost` does so while the jobs go on, and their acknowledgement then
throws on the closed channel, which ends the process (`NewProcess`; the container restarts
it, `docker-compose.yml:468`). Three history variables say which keys met what the code does
not protect against: `crossed` (a delivery took a key up that another had in hand, or wrote
over its success), `unsure` (the log may not know of a mail), `unlogged` (an attempt the log
has no row for).

## 3. Runs

| run | what it asks | states |
|---|---|---|
| `store` | overlapping appends, evictions, restarts and a clock set back against the log, the indexes and paged reads | 1 961 258 |
| `pull_exact` | two types of two domains, separate offsets, pages cut by limit and filter, responses by the slice; late, repeated and reordered acks, a consumer that leaves | 576 074 |
| `pull_live` | a wildcard, a page of one event, eviction, seeks, consumers that leave: nothing is lost silently, every retained event is handed out | 50 689 |
| `webhooks` | tasks against unsubscribing, removal, lost responses, operators; every task ends | 115 086 |
| `matching` | crossing declines, timeouts, overrides, repeated creation, failing publishes, cleanup | 260 878 |
| `payments` | copies, overlaps, signatures that fail, lost answers, failed publishes, a gateway that gives up, expired keys and restarts against the idempotency keys | 727 212 |
| `requests` | users, admins and the expiry job writing stale rows, failed queries and publishes | 546 106 |
| `disputes` | handlers of all three sides crossing at publishes, a restart | 148 966 |
| `reviews` | author, analysis and admins over one review, failed queries, the deadline | 665 416 |
| `notifications` | a broker and a webhook bring an event of two mails to one recipient; lost answers, failed queries, restarts, a lost connection | 1 090 648 |
| `starved`, `charged_twice` | statements of the documentation and comments that the code does not keep (section 5) | violated |

No run spends a property on a type invariant: all of them are proved (section 4).

### What the properties say

Store. `RetainsNewestRun`, `IndexAgreesWithLog`, `ReadsAreGapless`: see
their comments; together they are what makes an offset meaningful.

Pull. `NoSilentLoss` is the central one: an event an offset has passed was acknowledged, or
has its timer, or has a dead letter entry - unless a client asked to skip it. An ack never
checks what it acknowledges, so this rests on responses having no holes
(`BatchHasNoHoles`): sorted before they are sliced, whatever limit, filter and slice cut. `OneFailurePerDelivery` is the race of a nack and its timer;
`StatusMatchesCount` ties the status of an entry to its history. `KeepsContract` is the
refinement of `DeliveryContract`. `AtLeastOnce` is liveness.

Push. `StartedIsAccounted`, `FailuresAreStartedTasks`, `ReopenedByRunningTask`: nothing
started vanishes, failures are counted once per task, an entry an operator closed opens
again only through a task that was still running. `EveryTaskEnds` is liveness, and
`KeepsContract` the same contract as for pull.

Matching. `SettledWhenIdle`: when all handlers have ended without a publish throwing, no
request is left in the middle, one that waits has an agent to wait for, and fewer than the
minimum only after the last attempt. `AttemptsAreFew`: the maximum is checked before two
publishes and the attempt used up after them, so a state may be searched beyond it, but only
by the handlers that can be past the check together and by the rematches an admin forced,
which check nothing. `EveryHandlerEnds`: handlers end although they wait out cooldowns and use up
each other's attempts.

Payments. `OncePerKey` says for each kind of operation what protects it: a webhook acts once
unless copies overlap or its key is lost, a gateway call likewise unless its answer is lost,
a booking even beside a second call. `AnsweredIsDone` is the order of work and mark: what
the gateway stops repeating is done, for payments with a booking; the charge is part of that
where the audit is on, as in `RefundsAreRecorded`, which relates the gateway's refunds to
the ledger over retries that find the key marked; a refund whose answer was lost is outside it. `ProcessingHasRequest`: no header answers
409 for ever. `CapturedIsCharged` is liveness over repeats and restarts, of payments with a
booking whose deliveries verify: charged in the end, unless a publish about the payment failed,
or the service forgot it and the gateway gave it up.

Requests. `CapsHold` holds unless two creates count side by side; `Lifecycle` says that only a
stale copy breaks the table, the expiry job apart, which may expire any open request;
`CancellerOfCancelled` that a stale copy revives a request as a whole, without leaving the
cancellation's columns behind; `StateIsPublished` and `OneEnding` relate the row to what
others were told. `OverdueIsClosed` is liveness over pages, failed queries and restarts.

Disputes. `OneVerdict`: two admins, or one who is refused, never change the resolution of a
resolved dispute, and its refund is approved at most once and after the decision is on
record. `EvidenceMovesOn`: although the handler goes by a state it read before a publish, a
dispute with the traveller's evidence does not stay where it waits for evidence.
`PaymentIsApproved` is liveness up to a failed publish. The limit of files is part of the
type invariant.

Reviews. `PublishedIsCleared`: what is or was public passed the analysis or a moderator word
for word, and what was rejected stays rejected, as long as no handler wrote over a row it did
not go by; so the guards, the order of the queries and what each write leaves alone are right,
and only the lock is not (section 5). `SubmittedIsUnderWay`
holds with stale writes, too: a review in SUBMITTED, where its author cannot submit again and
the queue of moderators does not list it, has a submission that will decide of it, or one
that was cut off.

Notifications. `OneMailPerKey`: through redeliveries, repeated webhooks, failures and
restarts a mail goes out once, but for keys in `crossed` or `unsure`. `LogIsTrue`: what the
log calls sent was sent, and with the same exceptions the other way round. `EventIsLogged`
relates the acknowledgement to the log: an event that will not come again has an outcome for
each of its mails, or one the log could not take. `WithinLimit`: the limit is exceeded by
less than the number of deliveries that can be under way. `MessageIsSettled` is liveness
over redeliveries and restarts, as long as the connection stands.

### Bounds, and why they are enough

* Store: 5 appends, 3 kept, one domain and two aggregates (lists that hold every event, some or
  none), time 0..1, forth and back: two evictions, a tie, a page that starts
  behind an event and has room for a hole, and an append in flight across a restart all
  happen.
* Pull: in `PullExact` 3 appends are kept and a batch is 2, over two types of one domain and a
  third of another: the limit cuts a page of three, the filter drops an event of the second
  type, the slice cuts three found events to two, and a tie is ordered by page. In `PullLive` 2 of 3
  are kept and a batch is 1, so an offset is evicted and every page is cut. One seek or repeated ack; 2
  failures reach `maxRetries`; counts saturate there (`CountCap`), the code compares with nothing
  higher. One consumer: consumers share no state but the log, which none of them changes.
* Push: one event, two consumers, two subscriptions, two attempts, one manual retry; one
  event suffices because tasks of different events share nothing. Counts up to 4 cover all
  the tasks that can start.
* Matching: two flows at a time, two RequestCreated, three events, two attempts, two agents
  with a minimum of two. Three events are creation, a decline and one that crosses it;
  each event may run through every attempt.
* Payments: one payment with both its webhooks, one refund, one order, two bookings and one
  header, of which two keys are used in a behaviour (`MaxKeys`): keys share only the map and
  the header, so pairs suffice. One more payment whose deliveries do not verify and one without
  a booking. Two workers are an operation and the one that crosses it; a
  third copy finds what the second leaves. The audit is on: off, nothing is recorded, and what
  is left of the properties is proved for both. Two losses are an expiry and a restart.
* Requests: the bounds are in `Requests.cfg`: a creation, an operation and the expiry job
  cross on one row and on two; pages of one row, so that the job has to come back.
* Disputes: one dispute, which shares nothing with others; two handlers; two files, one of
  each side or two of one; one restart.
* Reviews: three callers are a submission, one that crosses it and one that crosses both; two
  texts are the cleared one and another; four requests are a submission, what sends it back,
  the next submission and one that crosses.
* Notifications: one event with two mails to one recipient, so that a mail crosses the next
  and the limit of 1 is met; one slot of the broker and one webhook are a delivery and the
  one that crosses it; one loss, which a redelivery already follows. Windows reset freely.

`MaxAppends`, `MaxTime`, `CountCap`, `MaxRepeats`, `MaxManualRetries`, `Flows`, `MaxObjects`,
`MaxPosts`, `MaxLosses`, `Callers` and `MaxRequests` of reviews, and the `MaxEvents` of matching are bounds of the models and not of
the code; each is named where it is declared. Runs without deadlock checking are those whose
bounds let everything stop.

### Fairness

* `pull_live`: the persist timer, ack timers, and the client's polling are weakly fair: timers
  of a running process fire, and a client that does not poll is owed nothing. That a client
  acknowledges at last what it is handed again and again is strong fairness: each copy may
  time out. Publishing, seeking, leaving and nacks are never required.
* `webhooks`: `Publish` and each attempt are weakly fair: `fetch` answers or its 10 s abort
  fires, and the backoff timer ends.
* `matching`: each flow is weakly fair: a fetch settles (undici gives up on its own) and a
  cooldown ends. Which way it settles is free.

* `payments`: the steps of each job are weakly fair: a fetch settles; and the gateway delivers
  a webhook again until it is answered with 200, or gives it up. Which way a call settles is free.
* `requests`: the expiry job starts and its steps end, as `setInterval()` sees to it; users
  and admins owe nothing. Failed queries are bounded by `MaxLosses`.
* `disputes`: the fetch of a publish settles. Nobody has to decide anything.
* `notifications`: each job is weakly fair: a query and the provider answer or fail; and the
  broker hands out a message while one waits and a slot is free. Which way a call ends is
  free, and no webhook has to come.

## 4. Proofs

All of them hold for every value of the constants within the named assumptions
(`EventTypesAssumption`, `KeysAssumption`, `MaxEventsAssumption`, `BoundsAssumption`, `ClockAssumption`,
`RetriesAssumption`, `PullAssumption`, `WebhookAssumption`, `MatchingAssumption`,
`PaymentsAssumption`, `RequestsAssumption`, `DisputesAssumption`,
`ReviewsAssumption`, `NotificationsAssumption`), which say what the types of the configuration say;
the key sets being disjoint is what lets one function stand for three maps.

**EventStoreProofs.** The inductive invariant `StoreInv` joins the types,
`RetainsNewestRun`, `IndexAgreesWithLog` and, where the clock is not set back, `StampsAscend`. None of the first three is
inductive alone: an append keeps the lists ascending because the log is the newest run, so
the next id exceeds all that are listed; an eviction removes the least id. From it follow
`StoreTypeCorrect`, `LogHasNoHoles`, `IndexIsFaithful`, and by a lemma
about pages (`PageIsGapless`) `PagesAreGapless`.

The same module ends with what `recordFailure`, `markResolved` and `discard` keep of a dead
letter entry; pull and push cite the same lemmas.

**PullConsumptionProofs.** `PullInv` adds to the type invariant, `StoreInv`,
`StatusMatchesCount` and `OnlyHandedOutFails` that what a client holds is on record
(`HeldIsOnRecord`): the refinement needs it, because an ack ends a delivery in the contract
only if the bus still knew of it. `PullKeepsContract` maps every step to a step of
`DeliveryContract` or a stutter; `EachDeliveryFailsOnce` is the action property.

In the same module, `NoSilentLoss` is not inductive: the offset moves long after the response
that justifies it. `HandedIsDense` - behind an event that was handed out nothing of its topic
is unaccounted - carries the fact from the response to the ack. `NothingIsLostSilently` and
`ResponsesHaveNoHoles` assume `TopicsDontOverlap`: no consumer polls a topic twice or a
wildcard with a type it covers, and that the clock is not set back (`~ClockStepsBack`). Both
assumptions are necessary (section 5).

**WebhookDeliveryProofs.** `PushInv` is the type invariant, `StoreInv`, `StatusMatchesCount`
and `StartedIsAccounted`. Every action is shown to be a `GoodStep`: it keeps the parts of the
invariant, loses no record, puts none where nothing was under way, and reopens an entry only
with an attempt of its delivery. The invariant, the action property `ReopenedByRunningTask`
and the refinement of `DeliveryContract` all follow from that one lemma (`StepIsGood`). The
case that needs an argument is `Attempt` (`AttemptEffect`): the task that is over either
has a successor, or reached its endpoint, or leaves an entry. `FailuresStayStarted`
(`FailuresAreStartedTasks`) needs what a step does to a number of tasks: `TasksOf` counts
tasks by name, attempt and number, so that lemmas about cardinalities give the sum without
induction. Weighing each task by the attempts it has left gives `TasksRunDown`: between two
starts every step of a delivery's tasks leaves fewer attempts, and at zero none is under way.

**MatchingEngineProofs.** `MatchingInv` is the type invariant with what keeps a handler's
references meaningful - the state a flow holds has been made - and that the matches of a state
are finitely many (the engine counts them).

`AttemptsAreFew` is not inductive: a flow that has passed the check of the maximum will use an
attempt up later. `BudgetInv` counts such flows with the attempts (`Committed`): a flow can
join them only while the attempts are below the maximum, so attempts and committed flows
together stay below the bound, and a committed flow that searches turns one into the other.
A flow that is cooling looks at the maximum again and is not counted. `BudgetInvariant` is
that invariant, `SearchesAreFew` what it is for.

`SettledWhenIdle` says nothing while a handler is at work, so it is not inductive at all.
`SettledInv` says who will see to a request meanwhile: of a state in the middle of matching
some flow `Seeks` (it opens a search, or sleeps before one that will not find the attempts
used up); of a state that waits for its agents with too few of them some flow `Watches` (it
rematches, or has just read how few remain). Each step keeps that for the state it works on,
the only one it changes, and passes it from one `pc` to the next. In `HandlersEnd` a handler has a number
of steps left, each of its own steps lowers it and those of the other flows, which may share
its state, never raise it; at zero, and only there, it has ended. It rests on `FlowsAreFinite`. (`handleAllAgentsDeclined()` looks as if
it could call `triggerRematch()` back: its callers reach it with the attempts used up, so that
branch, `matching-engine.ts:268-271`, is never taken and not modelled.)

**PaymentsProofs.** The invariant joins the properties with the parts they rest on, which
relate a key's mark, its jobs and its counts: of a webhook whose copies did not overlap one
job at most is in flight, its key is not marked meanwhile, and the ledger is empty until the
job is past it; a gateway key that is not marked has nothing made, and its job at the
gateway is alone; a copy about to be announced has been recorded. What a refund's workers
are about to record is counted with the ledger. Each action is taken by itself. `KeysActOnce`,
`AnsweredWebhooksAreDone`, `RefundsReachTheLedger` and `HeadersAreFreed` follow.
`OperationsEnd`: an operation awaits three calls at most, each that returns leaves fewer, and
only a new delivery of a webhook that is not answered takes it up again.

**RequestsProofs.** `CapsHold` is not inductive: between its counts and its insert a create
holds a promise that there is room. The invariant keeps, for a create that is alone, that what
it counted is still below the limit - rows only close meanwhile, and a row that reopens is a
`raced` one. `StateIsPublished` needs that a handler's next announcement is of the state it
wrote; `EndingsAreOne` that a request announced as closed, and not raced, stays closed and
that every copy in flight of it is stale. `ChangesFollowTheTable` is the action property.
`OperationsEnd`: an operation of a user or an admin has five steps at most and a run of the
expiry job four for each row of its page; each step leaves fewer and nothing that crosses it
adds one. What makes the bound inductive is `OperationsFit`: no job waits without a row to
write or an event to send, and none takes on a row after its query.

**DecisionsProofs.** Of disputes: `VerdictsAreFinal` rests on terminal states having no way
out and on one handler alone carrying a resolved dispute to its approval: the invariant says which job may
still publish the approval and that none is left once it is on the bus. That nothing is
approved twice is half of it; `DecisionsAreUnderWay` is the other half: a decision to pay is
approved, or its handler has the publish still to make, or a publish of the dispute failed.
`DisputeHandlersEnd` bounds that handler by three publishes. Of reviews:
`PublishedIsCleared` is not inductive, for what becomes public is decided queries before it is
written. The invariant keeps what each handler has established before it writes
(`Established`): a submission on its way to publication goes by a text that is cleared, an
approval by a row that waited for it, hiding and unhiding by a row that was or is public; and
that such rows have a text (`HasText`, `RowHasText`). As long as nobody was overtaken the row
still is the one the handler goes by when it writes. `SubmissionsAreHandled` needs that a
submission goes by a SUBMITTED row until its last write.

**NotificationsProofs.** `OneMailPerKey` is about mails that are out; what makes it inductive
is who may still send one. A delivery is `Armed` for a key when it will call the provider
without asking the log again; of an undisturbed key at most one is, and none once the mail is
out (`MailsOK`). That a late insert throws is the case of the UNIQUE key, that a redelivery
stops at `sent` the case of the log, and a restart leaves no delivery armed. `EventIsLogged`
needs `PassedLogged`, that a delivery at its second mail has logged the first, and
`WithinLimit` that a recipient's count and the deliveries admitted for it stay below the
bound together (`AdmittedFit`, by a count of finite sets). Each action is taken by itself,
after lemmas that say what it does to a job.

`MessagesAreInHand` relates the broker to the consumer: while the connection stands a message
is unacknowledged exactly when one slot, and only one, handles it. From it `DeliveriesEnd` (a
delivery takes at most seven steps for each mail of its event and each is one fewer) and
`MessagesRunDown` (a message is handed out and settled at most twice unless a restart or a
lost connection intervenes).

**What is only model-checked.** Every invariant and every action property of the passing runs
is stated by a theorem. What remains is liveness: `AtLeastOnce`, `EveryTaskEnds`,
`EveryHandlerEnds`, `CapturedIsCharged`, `OverdueIsClosed`, `PaymentIsApproved`,
`MessageIsSettled`. Such a property has two halves. That work cannot be lost and cannot go on
for ever is safety and is proved: `TasksRunDown`, `HandlersEnd`, the two `OperationsEnd`,
`DisputeHandlersEnd` with `DecisionsAreUnderWay`, `DeliveriesEnd` with `MessagesRunDown`; for
`AtLeastOnce`, `NothingIsLostSilently`. That a step which remains possible is taken some day
needs fairness and ENABLED, which the prover cannot reason about; that half stays with TLC.
The measures also leave out what only fairness rules out: for `AtLeastOnce` that a consumer
polls again, for `OverdueIsClosed` that the expiry job runs again and that its queries stop
failing, for `CapturedIsCharged` that the gateway delivers once more or gives up.

## 5. Where code and documentation disagree

| run | statement | what happens |
|---|---|---|
| `starved` | `ebs/README.md:10` "At-least-once delivery" | the page is limited by domain before it is filtered by type: a full page of another type hides an exact topic for good |
| `charged_twice` | `services/booking-payments/src/services/payment.service.ts:97` "Idempotent - safe to call multiple times with same payment." | the key of a webhook is read before two publishes and marked after them: a copy in between records the charge again, if the body arrives parsed (below) |

Seen in the code while it was modelled, and plain enough without a run:

* `event-store.ts:22` asks an event to be durable before `append()` returns; the only store is
  in memory and evicts.
* `dead-letter-queue.ts:11` promises a retry with backoff; nothing calls `scheduleRetry()`, so
  an entry marked retrying stays so. `dead-letter-queue.ts:260` calls an entry resolved after a
  "successful retry"; a manual retry resolves it when its tasks have started.
* `consumer-manager.ts:356` sorts the pages of several topics by millisecond and cuts: a
  consumer that polls a wildcard together with a type it covers can acknowledge past an event
  it was never handed. So can any consumer of two topics when the host's clock is set back between
  two appends (`event-store.ts:241`): with stamps 0, 1, 0 of an event of one topic, and two of another,
  a response of two lists the first and the last, and the ack of the last moves the offset over the
  second. TLC finds it in the constants of `PullExact` with `ClockStepsBack` TRUE.
* `services/booking-payments/src/index.ts:60` leaves the body of `/api/v1/webhooks/razorpay` raw ("need
  raw body for signature verification"), so the handler gets a Buffer; `razorpay.handler.ts:40` checks the
  signature of `JSON.stringify()` of it, which is not what was signed. Every genuine delivery to
  that exact path is answered 400 and no charge is made. A path that differs from it, by a
  trailing slash, has its body parsed, and verifies if it was written as `JSON.stringify()` writes.
* `razorpay.handler.ts:129` marks and answers a captured payment without a booking id: the
  gateway does not deliver it again, and it is never charged.
* `matching-engine.ts:184` records a decline in the state that is in the map. After a repeated
  RequestCreated the state that was replaced does not know of it, nor does a new one of declines
  before it: a search of the other state offers the request to the decliner again.
* `services/requests/README.md:41` has requests expire that no agent matched; the expiry job
  expires drafts and matched requests as well, and publishes no change of state. An admin's
  transition to submitted starts no matching, one to cancelled publishes no cancellation.
* `arbitration.service.ts:102` says subjective complaints are not refundable; `credit_issued` on
  one publishes the approval of a refund. No code consumes `dispute.refund_approved`. Two disputes of one booking may each be refunded
  in full: nothing looks for the other.
* `services/notifications/README.md:268` "Idempotency prevents duplicate sends": the row says
  `pending` while a mail is on its way, and only `sent` stops the next delivery, so a webhook
  beside the broker, or a redelivery after a restart or a lost answer, sends it again; a late
  failed or limited result overwrites `sent` (`crossed` and `unsure` are these cases).
* `notification.service.ts:9` of the same service names a "Retry with exponential backoff";
  `getPendingRetries()` has no caller, and a mail that failed or met the limit is acknowledged
  and not tried again. A first attempt that meets the limit leaves no row at all.
* `services/matching/README.md:67` says of `MATCHING_FAILED` "No agents available". A decline
  counts the matches left, publishes, and declares the failure although a rematch it crossed
  has found agents meanwhile, whose matches stay active;
  `SettledWhenIdle` therefore says nothing of the matches of a failed request.
* `review.repository.ts:339` of reviews says "Update review status with optimistic locking".
  The version it compares (`:369`) is never changed by anything, so the comparison always
  succeeds, and of two handlers that read one row the later write wins. The premise of
  `PublishedIsCleared` is exactly that this did not happen.
* `review.service.ts:397` of reviews has `publishReview()` for "internal use after moderation
  passes"; it looks at no status, so the publication that follows a submission's analysis
  overrides a moderator who rejected the review in the meantime. `overtaken` is this case.
  A submission that is cut off stays SUBMITTED: an admin who knows its id can moderate it, but
  the queue (`reviews.api.ts:342`) lists UNDER_MODERATION only. Nothing calls
  `expireOverdueReviews()`.
* The consumer of notifications logs a closed connection and opens no other. A crash marks the message as
  redelivered, so the first failure after it is already the last; the exchange that rejected
  messages should go to is named but never asserted.

## 6. Not modelled, and the plan

Not modelled of the parts above: `scheduleRetry()` and `cleanup()` of the dead letter queue
(no caller), replay and traces beyond the reads they consist of, lag, metrics, schema
validation and authorization of the bus; scores, workload counters and the direct HTTP
matching of the matching service; a publish that throws in the middle of a decline leaves
the request waiting for no one, which `SettledWhenIdle` excludes by its premise. Of
booking-payments the xstate machines, escrow and refund requests, which keep no state of
their own; of requests the settings cache, the idempotency middleware (the one of
booking-payments is modelled), destinations and the AI helper; of disputes the
verification of a file; of reviews scores, badges, trust reviews, response times, the expiry
that nothing calls and the event consumer, a stub; of notifications SMS and push (no handler sends any), templates and
providers, the buffer of its audit trail, unparsable and unhandled messages (acknowledged or
rejected without further state), the webhook that takes a batch of events one after the other,
and the routes over the table of notifications a user sees, which no handler writes.

Not modelled at all: the services and packages the inventory lists without a module.
`packages/resilience`, `packages/idempotency` and `packages/cache` are imported by no
service. The web applications, more than a third of the code, are presentation over HTTP; the rest of
the services is mostly CRUD over one table with authorization, where a row per call leaves
nothing for a model to tell apart.

Next, in this order:

1. `EventBus`: pull, push and restart over one store and one dead letter queue.
2. `Settlement`: the approval of a dispute's refund, the refund at the gateway and the ledger,
   once a subscriber joins them.
3. `Itineraries`, `Messaging`: their state machines with the jobs that race them.
4. `Audit`: its AMQP loop with reconnects.
5. The circuit breaker of the gateway.
