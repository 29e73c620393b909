------------------------------- MODULE Reviews -------------------------------
(***************************************************************************)
(* One review from its invitation to its publication: saveDraft,           *)
(* submitReview, publishReview, moderateReview, hideReview and             *)
(* unhideReview of services/reviews/src/services/review.service.ts, over   *)
(* the row that review.repository.ts reads and writes.                     *)
(*                                                                         *)
(* Every query is awaited and may fail; a handler that fails, or whose     *)
(* process ends, goes no further and nothing takes its work up again.  A   *)
(* write of the status carries the version the handler read, but no write  *)
(* gives the row another version.  What the analysis of a submission finds *)
(* depends on other reviews and on the clock, and is left open.            *)
(***************************************************************************)
EXTENDS Naturals

CONSTANTS
    Callers,       \* requests in flight at a time (bound of the model)
    Texts,         \* ratings, titles and contents that may be written
    MaxRequests    \* bound: requests that arrive

ASSUME ReviewsAssumption == MaxRequests \in Nat

VARIABLES
    row,           \* the row of the review
    past,          \* is the submission deadline past?
    handlers,      \* [Callers -> the handler in flight]
    cleared,       \* history: texts that the analysis or a moderator let pass
    overtaken,     \* history: has a handler written over a row that was no
                   \*   longer the one it goes by?
    cut,           \* history: has a submission ended early since the last
                   \*   change of the status?
    requests       \* bound: requests that have arrived

reviewVars == <<row, past, handlers, cleared, overtaken, cut, requests>>

\* EXPIRED is not among them: nothing calls expireOverdueReviews().
ReviewStatus == {"PENDING_SUBMISSION", "DRAFT", "SUBMITTED", "UNDER_MODERATION",
                 "PUBLISHED", "REJECTED", "HIDDEN"}
Decisions == {"APPROVE", "REJECT", "REQUIRE_EDIT"}
NoText == "none"

\* verdict: the moderation field, by who decided what.
Row == [status : ReviewStatus, text : Texts \cup {NoText},
        verdict : Decisions \cup {"GAMING", "none"}, version : {1}]

Idle == [at |-> "idle"]

\* base: the row the handler goes by; new: the row it is going to write;
\* version: the one it read last; found: the outcome of the analysis.
Handler == [at : {"write", "record", "analyse", "score", "publish", "final", "note"},
            op : {"draft", "submit", "moderate", "visibility"}, base : Row, new : Row,
            version : {1}, found : {"none", "allow", "flag", "reject"}]

\* The handler c submits the review, and has written its submission.
Submitting(c) == handlers[c].at \in {"record", "analyse", "score", "publish", "final"}
                 /\ handlers[c].op = "submit"

ReviewTypeOK ==
    /\ row \in Row
    /\ past \in BOOLEAN
    /\ handlers \in [Callers -> Handler \cup {Idle}]
    /\ cleared \subseteq Texts
    /\ overtaken \in BOOLEAN /\ cut \in BOOLEAN
    /\ requests \in 0..MaxRequests

\* createPendingReviews() has inserted the row.
ReviewInit ==
    /\ row = [status |-> "PENDING_SUBMISSION", text |-> NoText, verdict |-> "none",
              version |-> 1]
    /\ past = FALSE
    /\ handlers = [c \in Callers |-> Idle]
    /\ cleared = {}
    /\ overtaken = FALSE /\ cut = FALSE
    /\ requests = 0

-----------------------------------------------------------------------------
(* A request arrives: the handler reads the row and checks its status. *)

Takes(c, op, new) ==
    /\ handlers[c] = Idle /\ requests < MaxRequests
    /\ handlers' = [handlers EXCEPT ![c] =
         [at |-> "write", op |-> op, base |-> row, new |-> new,
          version |-> row.version, found |-> "none"]]
    /\ requests' = requests + 1
    /\ UNCHANGED <<row, past, cleared, overtaken, cut>>

MayWrite == ~past /\ row.status \in {"PENDING_SUBMISSION", "DRAFT"}

SaveDraft(c, t) ==
    /\ MayWrite
    /\ Takes(c, "draft", [row EXCEPT !.status = "DRAFT", !.text = t])

SubmitReview(c, t) ==
    /\ MayWrite
    /\ Takes(c, "submit", [row EXCEPT !.status = "SUBMITTED", !.text = t])

CanBeModerated == row.status \in {"SUBMITTED", "UNDER_MODERATION"}

StatusOf(decision) ==
    CASE decision = "APPROVE"      -> "PUBLISHED"
      [] decision = "REJECT"       -> "REJECTED"
      [] decision = "REQUIRE_EDIT" -> "DRAFT"

ModerateReview(c, decision) ==
    /\ CanBeModerated
    /\ Takes(c, "moderate", [row EXCEPT !.status = StatusOf(decision), !.verdict = decision])

HideReview(c) ==
    /\ row.status = "PUBLISHED"
    /\ Takes(c, "visibility", [row EXCEPT !.status = "HIDDEN"])

UnhideReview(c) ==
    /\ row.status = "HIDDEN"
    /\ Takes(c, "visibility", [row EXCEPT !.status = "PUBLISHED"])

-----------------------------------------------------------------------------
(* The queries of a handler, one by one. *)

\* The columns that update() or updateStatus() is given: the status, and what
\* was written or decided.
Written(h) ==
    [row EXCEPT
       !.status = h.new.status,
       !.text = IF h.at = "write" /\ h.op \in {"draft", "submit"} THEN h.new.text ELSE @,
       !.verdict = IF h.op = "moderate" \/ h.new.status = "REJECTED" THEN h.new.verdict ELSE @]

\* saveDraft() writes by the id alone.
VersionMatches(h) == h.op = "draft" \/ h.version = row.version

\* The status is written, for the first or, by a submission, the last time.
WriteStatus(c) ==
    /\ handlers[c].at \in {"write", "final"}
    /\ VersionMatches(handlers[c])
    /\ row' = Written(handlers[c])
    /\ handlers' = [handlers EXCEPT
         ![c].at = IF handlers[c].at = "write" THEN "record" ELSE "note",
         ![c].base = IF handlers[c].at = "write" THEN row' ELSE @]
    /\ overtaken' = (overtaken \/ row # handlers[c].base)
    /\ cleared' = IF handlers[c].op = "moderate" /\ handlers[c].new.verdict = "APPROVE"
                  THEN cleared \cup {handlers[c].base.text} ELSE cleared
    /\ cut' = FALSE
    /\ UNCHANGED <<past, requests>>

\* The audit event of the change is recorded; only a submission goes on.
RecordEvent(c) ==
    /\ handlers[c].at \in {"record", "note"}
    /\ handlers' = [handlers EXCEPT ![c] =
         IF Submitting(c) THEN [@ EXCEPT !.at = "analyse"] ELSE Idle]
    /\ UNCHANGED <<row, past, cleared, overtaken, cut, requests>>

\* analyseReview() and the score it arrives at: below 0.3, not below, or
\* recommending to reject.
AnalyzeReview(c, found) ==
    /\ handlers[c].at = "analyse"
    /\ handlers' = [handlers EXCEPT ![c].at = "score", ![c].found = found]
    /\ cleared' = IF found = "allow" THEN cleared \cup {handlers[c].base.text} ELSE cleared
    /\ UNCHANGED <<row, past, overtaken, cut, requests>>

\* Variant: a submission that is flagged is left as it is.
AfterScoreLeaves(h) ==
    CASE h.found = "allow"  -> [h EXCEPT !.at = "publish"]
      [] h.found = "flag"   -> Idle
      [] h.found = "reject" -> [h EXCEPT !.at = "final", !.new.status = "REJECTED",
                                         !.new.verdict = "GAMING"]

\* Variant: only a recommendation to reject keeps a submission from publication.
AfterScorePublishes(h) ==
    CASE h.found = "reject" -> [h EXCEPT !.at = "final", !.new.status = "REJECTED",
                                         !.new.verdict = "GAMING"]
      [] OTHER              -> [h EXCEPT !.at = "publish"]

\* What becomes of the submission.
AfterScore(h) ==
    CASE h.found = "allow"  -> [h EXCEPT !.at = "publish"]
      [] h.found = "flag"   -> [h EXCEPT !.at = "final", !.new.status = "UNDER_MODERATION"]
      [] h.found = "reject" -> [h EXCEPT !.at = "final", !.new.status = "REJECTED",
                                         !.new.verdict = "GAMING"]

\* The score is stored by the id alone, and the row comes back with its version.
StoreScore(c) ==
    /\ handlers[c].at = "score"
    /\ handlers' = [handlers EXCEPT ![c] = AfterScore([@ EXCEPT !.version = row.version])]
    /\ UNCHANGED <<row, past, cleared, overtaken, cut, requests>>

\* publishReview() reads the row again, and looks at its version only.
PublishReview(c) ==
    /\ handlers[c].at = "publish"
    /\ handlers' = [handlers EXCEPT ![c].at = "final", ![c].new.status = "PUBLISHED",
                                    ![c].version = row.version]
    /\ UNCHANGED <<row, past, cleared, overtaken, cut, requests>>

\* A query throws, or the process ends.
Fail(c) ==
    /\ handlers[c] # Idle
    /\ handlers' = [handlers EXCEPT ![c] = Idle]
    /\ cut' = (cut \/ Submitting(c))
    /\ UNCHANGED <<row, past, cleared, overtaken, requests>>

DeadlinePasses ==
    /\ ~past
    /\ past' = TRUE
    /\ UNCHANGED <<row, handlers, cleared, overtaken, cut, requests>>

-----------------------------------------------------------------------------
ReviewNext ==
    \/ \E c \in Callers :
         \/ \E t \in Texts : SaveDraft(c, t) \/ SubmitReview(c, t)
         \/ \E decision \in Decisions : ModerateReview(c, decision)
         \/ HideReview(c) \/ UnhideReview(c)
         \/ WriteStatus(c) \/ RecordEvent(c)
         \/ \E found \in {"allow", "flag", "reject"} : AnalyzeReview(c, found)
         \/ StoreScore(c) \/ PublishReview(c)
         \/ Fail(c)
    \/ DeadlinePasses

ReviewSpec == ReviewInit /\ [][ReviewNext]_reviewVars

-----------------------------------------------------------------------------
(* Properties *)

\* Unless a handler wrote over a row that was no longer the one it goes by,
\* what is or was public has passed the analysis or a moderator as it stands,
\* and a review that was rejected stays rejected (review.service.ts:335-393,
\* 434-527).
PublishedIsCleared ==
    ~overtaken =>
      /\ row.status \in {"PUBLISHED", "HIDDEN"} => row.text \in cleared
      /\ row.verdict \in {"REJECT", "GAMING"} => row.status = "REJECTED"

\* A review does not stay SUBMITTED, where its author cannot submit it again
\* and the moderation queue does not list it, unless its submission was cut
\* off: whatever handlers cross, one is on its way to decide of it
\* (review.service.ts:300-393, reviews.api.ts:342-346).
SubmittedIsUnderWay ==
    row.status = "SUBMITTED" => cut \/ \E c \in Callers : Submitting(c)

=============================================================================
