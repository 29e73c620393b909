------------------------------ MODULE Payments ------------------------------
(***************************************************************************)
(* The keyed operations of services/booking-payments: the gateway's        *)
(* webhooks (razorpay.handler.ts), refunds and orders at the gateway       *)
(* (razorpay.service.ts, refund.service.ts, payment.service.ts) and the    *)
(* creation of bookings behind the idempotency middleware                  *)
(* (booking.service.ts, idempotency.middleware.ts).                        *)
(*                                                                         *)
(* Every operation looks its key up in one map in memory, works through    *)
(* awaited calls to the gateway and to the event bus, and marks the key at *)
(* a point of its own: a webhook after all its work, a gateway call when   *)
(* the gateway has answered, a booking before anything is awaited.  Code   *)
(* between two awaits runs alone, so an action is what runs from one       *)
(* network answer to the next.  publish() swallows every failure.          *)
(***************************************************************************)
EXTENDS Naturals, FiniteSets

CONSTANTS
    Charges,       \* payments of the gateway that send webhooks
    Verified,      \* those whose deliveries the handler can verify: the body
                   \*   comes parsed, and stringified it is what was signed
    Unbooked,      \* those without a booking_id in their notes
    AuditEnabled,  \* config.audit.enabled
    Refunds,       \* ids of refunds to process
    Orders,        \* idempotency keys of checkouts
    Bookings,      \* idempotency keys in the bodies of booking requests
    Headers,       \* values of the Idempotency-Key header
    NoHeader,      \* a request without one
    Workers,       \* operations in flight at a time (bound of the model)
    MaxCalls,      \* bound: copies of a webhook and repeats of a call
    MaxKeys,       \* bound: keys used in one behaviour
    MaxLosses      \* bound: restarts and expiries

Webhooks == {"captured", "failed"} \X Charges
GatewayCalls == ({"refund"} \X Refunds) \cup ({"order"} \X Orders)
BookingKeys == {"booking"} \X Bookings
Keys == Webhooks \cup GatewayCalls \cup BookingKeys

ASSUME PaymentsAssumption ==
    /\ Verified \subseteq Charges /\ Unbooked \subseteq Charges
    /\ AuditEnabled \in BOOLEAN
    /\ NoHeader \notin Headers /\ IsFiniteSet(Workers)
    /\ MaxCalls \in Nat /\ MaxKeys \in Nat /\ MaxLosses \in Nat

VARIABLES
    marked,      \* IdempotencyStore.store: the keys that get() finds
    cached,      \* the middleware's map: [Headers -> the key being created,
                 \*   or created, and its status]
    jobs,        \* [Workers -> the operation in flight]
    calls,       \* [Keys -> times it was started, up to MaxCalls]
    answered,    \* webhooks the gateway got a 200 for
    made,        \* [Keys -> refunds and orders made at the gateway, bookings]
    ledger,      \* [Keys -> money movements that reached the event bus]
    told,        \* [Keys -> domain events that reached the event bus]
    faults,      \* history: [Keys -> what went wrong around this key]
    losses       \* bound: restarts and expiries so far

vars == <<marked, cached, jobs, calls, answered, made, ledger, told, faults, losses>>
effects == <<made, ledger, told>>

Faults == {"overlap", "forgotten", "unheard", "dropped", "abandoned"}
Stages == {"gateway", "ledger", "announce"}
Free == [at |-> "free"]
Job(k, stage, h) == [at |-> stage, key |-> k, header |-> h]
NotCached == [status |-> "none"]
Cached(k, status) == [status |-> status, key |-> k]

Busy(w) == jobs[w].at # "free"
InFlight(k) == {w \in Workers : Busy(w) /\ jobs[w].key = k}

TypeOK ==
    /\ marked \subseteq Keys
    /\ cached \in [Headers -> {NotCached} \cup
                      [status : {"processing", "completed"}, key : BookingKeys]]
    /\ jobs \in [Workers -> {Free} \cup
                    [at : Stages, key : Keys, header : Headers \cup {NoHeader}]]
    /\ calls \in [Keys -> 0..MaxCalls]
    /\ answered \subseteq Webhooks
    /\ made \in [Keys -> Nat] /\ ledger \in [Keys -> Nat] /\ told \in [Keys -> Nat]
    /\ faults \in [Keys -> SUBSET Faults]
    /\ losses \in 0..MaxLosses

Init ==
    /\ marked = {}
    /\ cached = [h \in Headers |-> NotCached]
    /\ jobs = [w \in Workers |-> Free]
    /\ calls = [k \in Keys |-> 0]
    /\ answered = {}
    /\ made = [k \in Keys |-> 0]
    /\ ledger = [k \in Keys |-> 0]
    /\ told = [k \in Keys |-> 0]
    /\ faults = [k \in Keys |-> {}]
    /\ losses = 0

Called(k) ==
    /\ calls[k] > 0 \/ Cardinality({j \in Keys : calls[j] > 0}) < MaxKeys
    /\ calls' = [calls EXCEPT ![k] = IF @ < MaxCalls THEN @ + 1 ELSE @]

\* A call that found its key unmarked runs beside another that did.
NoteOverlap(k) ==
    faults' = [faults EXCEPT ![k] =
                 IF InFlight(k) # {} THEN @ \cup {"overlap"} ELSE @]

-----------------------------------------------------------------------------
(* Webhooks *)

\* Variant: the charge is announced without being recorded.
FirstStageAnnounces(k) == "announce"

\* handlePaymentSuccess() records the charge first, unless the audit is off;
\* handlePaymentFailure() only announces.
FirstStage(k) == IF k[1] = "captured" /\ AuditEnabled THEN "ledger" ELSE "announce"

\* A delivery of the gateway reaches the handler.  The gateway delivers an
\* event until it is answered or it gives the event up, and may repeat one
\* that was answered.
Delivers(w, k) ==
    /\ ~Busy(w)
    /\ k \notin answered \/ calls[k] < MaxCalls
    /\ "abandoned" \notin faults[k]
    /\ Called(k)

\* Variant: the key is marked before the work is done.
ReceiveWebhookMarksFirst(w, k) ==
    /\ Delivers(w, k)
    /\ \/ /\ k[2] \notin Verified
          /\ UNCHANGED <<marked, jobs, answered, faults>>
       \/ /\ k[2] \in Verified
          /\ k \in marked \/ k[2] \in Unbooked
          /\ marked' = marked \cup {k}
          /\ answered' = answered \cup {k}
          /\ UNCHANGED <<jobs, faults>>
       \/ /\ k[2] \in Verified \ Unbooked
          /\ k \notin marked
          /\ marked' = marked \cup {k}
          /\ jobs' = [jobs EXCEPT ![w] = Job(k, FirstStage(k), NoHeader)]
          /\ NoteOverlap(k)
          /\ UNCHANGED answered
    /\ UNCHANGED <<cached, effects, losses>>

\* handleRazorpayWebhook() up to its first network call: 400 for a signature
\* that does not verify; 200 at once for a key that is marked, and for a
\* payment without a booking, which marks its key with nothing done.  Its
\* catch, which answers 200 too, sees a body without a payment only: nothing
\* that is awaited for one throws.
ReceiveWebhook(w, k) ==
    /\ Delivers(w, k)
    /\ \/ /\ k[2] \notin Verified
          /\ UNCHANGED <<marked, jobs, answered, faults>>
       \/ /\ k[2] \in Verified
          /\ k \in marked \/ k[2] \in Unbooked
          /\ marked' = marked \cup {k}
          /\ answered' = answered \cup {k}
          /\ UNCHANGED <<jobs, faults>>
       \/ /\ k[2] \in Verified \ Unbooked
          /\ k \notin marked
          /\ jobs' = [jobs EXCEPT ![w] = Job(k, FirstStage(k), NoHeader)]
          /\ NoteOverlap(k)
          /\ UNCHANGED <<marked, answered>>
    /\ UNCHANGED <<cached, effects, losses>>

\* The gateway gives an event up that it got no 200 for.
GatewayStops(k) ==
    /\ calls[k] > 0 /\ k \notin answered
    /\ "abandoned" \notin faults[k]
    /\ faults' = [faults EXCEPT ![k] = @ \cup {"abandoned"}]
    /\ UNCHANGED <<marked, cached, jobs, calls, answered, effects, losses>>

-----------------------------------------------------------------------------
(* Refunds and orders *)

\* Variant: a refund is announced without being recorded.
AfterGatewayAnnounces(k) == "announce"

\* What follows the answer of the gateway: processRefund() records the
\* movement, unless the audit is off; createCheckout() only announces.
AfterGateway(k) == IF k[1] = "refund" /\ AuditEnabled THEN "ledger" ELSE "announce"

\* createRefund() or createOrder() up to the gateway; a marked key returns
\* the stored answer and the caller goes on with it.
CallGateway(w, k) ==
    /\ ~Busy(w)
    /\ calls[k] < MaxCalls
    /\ Called(k)
    /\ IF k \in marked
       THEN /\ jobs' = [jobs EXCEPT ![w] = Job(k, AfterGateway(k), NoHeader)]
            /\ UNCHANGED faults
       ELSE /\ jobs' = [jobs EXCEPT ![w] = Job(k, "gateway", NoHeader)]
            /\ faults' = [faults EXCEPT ![k] =
                 IF \E v \in InFlight(k) : jobs[v].at = "gateway"
                 THEN @ \cup {"overlap"} ELSE @]
    /\ UNCHANGED <<marked, cached, answered, effects, losses>>

GatewayAnswers(w) ==
    /\ jobs[w].at = "gateway"
    /\ LET k == jobs[w].key IN
         /\ made' = [made EXCEPT ![k] = @ + 1]
         /\ marked' = marked \cup {k}
         /\ jobs' = [jobs EXCEPT ![w] = Job(k, AfterGateway(k), NoHeader)]
    /\ UNCHANGED <<cached, calls, answered, ledger, told, faults, losses>>

\* The call fails, before or after the gateway acted on it; the key stays
\* free and processRefund() catches the error.
GatewayFails(w) ==
    /\ jobs[w].at = "gateway"
    /\ LET k == jobs[w].key IN
         \/ UNCHANGED <<made, faults>>
         \/ /\ made' = [made EXCEPT ![k] = @ + 1]
            /\ faults' = [faults EXCEPT ![k] = @ \cup {"unheard"}]
    /\ jobs' = [jobs EXCEPT ![w] = Free]
    /\ UNCHANGED <<marked, cached, calls, answered, ledger, told, losses>>

-----------------------------------------------------------------------------
(* Bookings *)

\* Variant: createBooking() makes the booking and no mark.
RequestBookingMarksLate(w, k, h) ==
    /\ ~Busy(w)
    /\ calls[k] < MaxCalls
    /\ h # NoHeader => cached[h] = NotCached
    /\ Called(k)
    /\ k \notin marked
    /\ cached' = IF h = NoHeader THEN cached
                 ELSE [cached EXCEPT ![h] = Cached(k, "processing")]
    /\ made' = [made EXCEPT ![k] = @ + 1]
    /\ jobs' = [jobs EXCEPT ![w] = Job(k, "announce", h)]
    /\ UNCHANGED <<marked, answered, ledger, told, faults, losses>>

\* A request passes the middleware (the header's record is set and read in
\* one go) and createBooking() runs up to its publish: the booking and its
\* mark are made before anything is awaited.  A rejected price leaves
\* nothing behind, the header's record deleted with the response, and is
\* left out.
RequestBooking(w, k, h) ==
    /\ ~Busy(w)
    /\ calls[k] < MaxCalls
    /\ h # NoHeader => cached[h] = NotCached
    /\ Called(k)
    /\ IF k \in marked
       THEN /\ cached' = IF h = NoHeader THEN cached
                         ELSE [cached EXCEPT ![h] = Cached(k, "completed")]
            /\ UNCHANGED <<marked, jobs, made>>
       ELSE /\ cached' = IF h = NoHeader THEN cached
                         ELSE [cached EXCEPT ![h] = Cached(k, "processing")]
            /\ marked' = marked \cup {k}
            /\ made' = [made EXCEPT ![k] = @ + 1]
            /\ jobs' = [jobs EXCEPT ![w] = Job(k, "announce", h)]
    /\ UNCHANGED <<answered, ledger, told, faults, losses>>

-----------------------------------------------------------------------------
(* Publishing *)

Arrives(f, k, ok) == f' = IF ok THEN [f EXCEPT ![k] = @ + 1] ELSE f
NoteDrop(k, ok) ==
    faults' = IF ok THEN faults ELSE [faults EXCEPT ![k] = @ \cup {"dropped"}]

\* recordMoneyMovement() returns from its publish, which never throws.
MovementPublished(w, ok) ==
    /\ jobs[w].at = "ledger"
    /\ LET k == jobs[w].key IN
         /\ Arrives(ledger, k, ok)
         /\ NoteDrop(k, ok)
         /\ jobs' = [jobs EXCEPT ![w] = Job(k, "announce", NoHeader)]
    /\ UNCHANGED <<marked, cached, calls, answered, made, told, losses>>

\* Variant: the response of a booking is not stored under its header.
EventPublishedKeepsProcessing(w, ok) ==
    /\ jobs[w].at = "announce"
    /\ LET k == jobs[w].key IN
         /\ Arrives(told, k, ok)
         /\ NoteDrop(k, ok)
         /\ IF k \in Webhooks
            THEN marked' = marked \cup {k} /\ answered' = answered \cup {k}
            ELSE UNCHANGED <<marked, answered>>
    /\ jobs' = [jobs EXCEPT ![w] = Free]
    /\ UNCHANGED <<cached, calls, made, ledger, losses>>

\* The last publish returns: a webhook marks its key and is answered, a
\* booking request's response is stored under its header.
EventPublished(w, ok) ==
    /\ jobs[w].at = "announce"
    /\ LET k == jobs[w].key
           h == jobs[w].header IN
         /\ Arrives(told, k, ok)
         /\ NoteDrop(k, ok)
         /\ IF k \in Webhooks
            THEN marked' = marked \cup {k} /\ answered' = answered \cup {k}
            ELSE UNCHANGED <<marked, answered>>
         /\ cached' = IF h = NoHeader THEN cached
                      ELSE [cached EXCEPT ![h] = Cached(k, "completed")]
    /\ jobs' = [jobs EXCEPT ![w] = Free]
    /\ UNCHANGED <<calls, made, ledger, losses>>

-----------------------------------------------------------------------------
(* Memory that is lost *)

\* An entry outlives IDEMPOTENCY_TTL_SECONDS and get() or cleanup() drops it.
ExpireKey(k) ==
    /\ losses < MaxLosses
    /\ k \in marked /\ InFlight(k) = {}
    /\ marked' = marked \ {k}
    /\ faults' = [faults EXCEPT ![k] = @ \cup {"forgotten"}]
    /\ losses' = losses + 1
    /\ UNCHANGED <<cached, jobs, calls, answered, effects>>

ExpireHeader(h) ==
    /\ losses < MaxLosses
    /\ cached[h].status = "completed"
    /\ cached' = [cached EXCEPT ![h] = NotCached]
    /\ losses' = losses + 1
    /\ UNCHANGED <<marked, jobs, calls, answered, effects, faults>>

\* Both maps and everything in flight are gone; the gateway and the event
\* bus keep what reached them.
Restart ==
    /\ losses < MaxLosses
    /\ marked' = {}
    /\ cached' = [h \in Headers |-> NotCached]
    /\ jobs' = [w \in Workers |-> Free]
    /\ faults' = [k \in Keys |-> IF k \in marked \/ InFlight(k) # {}
                                 THEN faults[k] \cup {"forgotten"} ELSE faults[k]]
    /\ losses' = losses + 1
    /\ UNCHANGED <<calls, answered, effects>>

-----------------------------------------------------------------------------
JobStep(w) ==
    \/ GatewayAnswers(w) \/ GatewayFails(w)
    \/ \E ok \in BOOLEAN : MovementPublished(w, ok) \/ EventPublished(w, ok)

Next ==
    \/ \E w \in Workers :
         \/ \E k \in Webhooks : ReceiveWebhook(w, k)
         \/ \E k \in GatewayCalls : CallGateway(w, k)
         \/ \E k \in BookingKeys, h \in Headers \cup {NoHeader} : RequestBooking(w, k, h)
         \/ JobStep(w)
    \/ \E k \in Webhooks : GatewayStops(k)
    \/ \E k \in Keys : ExpireKey(k)
    \/ \E h \in Headers : ExpireHeader(h)
    \/ Restart

Spec == Init /\ [][Next]_vars

\* Awaited calls return (fetch has a timeout), and the gateway delivers a
\* webhook that was not answered again, or gives it up.
FairSpec ==
    /\ Spec
    /\ \A w \in Workers : WF_vars(JobStep(w))
    /\ \A k \in Webhooks :
         WF_vars(/\ k \notin answered
                 /\ GatewayStops(k) \/ \E w \in Workers : ReceiveWebhook(w, k))

-----------------------------------------------------------------------------
(* Properties *)

Clear(k, kinds) == faults[k] \cap kinds = {}

\* A charge is recorded once, a refund or an order made once, a booking
\* created once, as long as the key was not lost and no second call read it
\* before the first one marked it; a booking even then, because its mark is
\* made before anything is awaited (razorpay.handler.ts:51-78,
\* razorpay.service.ts:168-192, booking.service.ts:52-118).
OncePerKey ==
    /\ \A k \in Webhooks : Clear(k, {"overlap", "forgotten"}) => ledger[k] <= 1
    /\ \A k \in GatewayCalls : Clear(k, {"overlap", "forgotten", "unheard"}) => made[k] <= 1
    /\ \A k \in BookingKeys : Clear(k, {"forgotten"}) => made[k] <= 1

\* A webhook of a booked payment that later copies are turned away for, or
\* that the gateway stops repeating for an answer, has done all its work: the
\* event, and the charge where the audit records any, are on the bus unless a
\* publish failed (razorpay.handler.ts:55-81).
AnsweredIsDone ==
    \A k \in (marked \cap Webhooks) \cup answered :
      k[2] \notin Unbooked /\ Clear(k, {"dropped"}) =>
        /\ told[k] >= 1
        /\ k[1] = "captured" /\ AuditEnabled => ledger[k] >= 1

\* A refund the gateway made and reported is on the ledger, or its worker
\* is about to put it there, where the audit records any
\* (refund.service.ts:275-301).
RefundsAreRecorded ==
    \A r \in Refunds : LET k == <<"refund", r>> IN
      AuditEnabled /\ Clear(k, {"forgotten", "unheard", "dropped"}) =>
        made[k] <= ledger[k] + Cardinality({w \in InFlight(k) : jobs[w].at = "ledger"})

\* A header that answers 409 has a request in flight that will change that
\* (idempotency.middleware.ts:107-147).
ProcessingHasRequest ==
    \A h \in Headers : cached[h].status = "processing" =>
      \E w \in InFlight(cached[h].key) : jobs[w].header = h

\* A booked payment whose deliveries verify, once the gateway reported it as
\* captured, is charged in the end, through overlapping copies and restarts:
\* unless a publish about it failed, or the service forgot it and the gateway
\* gave it up (handleRazorpayWebhook(), handlePaymentSuccess()).
CapturedIsCharged ==
    \A p \in Verified \ Unbooked : LET k == <<"captured", p>> IN
      (AuditEnabled /\ calls[k] > 0) ~>
        \/ ledger[k] > 0
        \/ "dropped" \in faults[k]
        \/ {"forgotten", "abandoned"} \subseteq faults[k]

\* "Idempotent - safe to call multiple times with same payment"
\* (payment.service.ts:97): the ledger has a payment's charge at most once
\* while nothing is lost.
ChargedOnce ==
    \A p \in Charges : LET k == <<"captured", p>> IN
      Clear(k, {"forgotten"}) => ledger[k] <= 1
=============================================================================
