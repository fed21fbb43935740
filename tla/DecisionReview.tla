----------------------------- MODULE DecisionReview -----------------------------
(***************************************************************************)
(* Scheduled reviews of locked decisions and the revisions they start (the *)
(* review half of services, repositories and models action_review).        *)
(*                                                                         *)
(* A request reads and checks in one step and commits in a later one; the  *)
(* commit writes the attributes it changed over whatever the row has       *)
(* become, and the constraints of the tables are what refuses it.  A       *)
(* creation only reads a lock, which is never undone, so it is one step.   *)
(* Owners and admins alone make these requests (can_manage_reviews); a     *)
(* refused one changes nothing.                                            *)
(***************************************************************************)
EXTENDS Naturals, FiniteSets

CONSTANTS
    Decisions,
    Reviews,
    Requests

ASSUME DecisionsAssumption == IsFiniteSet(Decisions)

VARIABLES
    decisions,  \* status of each decision
    reviews,    \* decision_reviews
    revisions,  \* decision_revisions
    requests    \* what each request in progress has read

reviewVars == <<decisions, reviews, revisions, requests>>

--------------------------------------------------------------------------------
Finished == {"COMPLETED", "CANCELLED"}

Outcomes == {"CONFIRMED", "REOPENED", "SUPERSEDED"}

(* due: scheduled_for has passed. *)
ReviewRow == [status: {"NONE", "SCHEDULED"} \cup Finished, decision: Decisions, due: BOOLEAN,
              outcome: Outcomes \cup {"NONE"}, completed: BOOLEAN, cancelled: BOOLEAN]

Revision == [root: Decisions, number: Nat \ {0}, predecessor: Decisions,
             successor: Decisions, review: Reviews, outcome: Outcomes \ {"CONFIRMED"}]

(* ck_decision_reviews_terminal_state *)
ReviewCheck(row) ==
    /\ row.completed <=> row.status = "COMPLETED"
    /\ row.cancelled <=> row.status = "CANCELLED"
    /\ row.outcome # "NONE" <=> row.status = "COMPLETED"

(* uq_decision_reviews_one_scheduled_per_decision *)
OneScheduled(d) == ~\E v \in Reviews : reviews[v].status = "SCHEDULED" /\ reviews[v].decision = d

(* Seeded fault: a predecessor may have several successors. *)
UniqueButPredecessor(new) ==
    \A old \in revisions :
        /\ <<old.root, old.number>> # <<new.root, new.number>>
        /\ old.successor # new.successor
        /\ old.review # new.review

(* The four unique constraints of decision_revisions. *)
Unique(new) ==
    \A old \in revisions :
        /\ <<old.root, old.number>> # <<new.root, new.number>>
        /\ old.predecessor # new.predecessor
        /\ old.successor # new.successor
        /\ old.review # new.review

Idle == [op |-> "Idle"]

Begin(r, request) == requests[r] = Idle /\ requests' = [requests EXCEPT ![r] = request]

Doing(r, op) == requests[r].op = op

Finish(r) == requests' = [requests EXCEPT ![r] = Idle]

Init ==
    /\ decisions = [d \in Decisions |-> "NONE"]
    /\ \E d \in Decisions : reviews = [v \in Reviews |->
          [status |-> "NONE", decision |-> d, due |-> FALSE, outcome |-> "NONE",
           completed |-> FALSE, cancelled |-> FALSE]]
    /\ revisions = {}
    /\ requests = [r \in Requests |-> Idle]

--------------------------------------------------------------------------------
(* What module Governance does to a decision, as far as it matters here.   *)

CreateDraft(d) ==
    /\ decisions[d] = "NONE"
    /\ decisions' = [decisions EXCEPT ![d] = "DRAFT"]
    /\ UNCHANGED <<reviews, revisions, requests>>

LockDecision(d) ==
    /\ decisions[d] = "DRAFT"
    /\ decisions' = [decisions EXCEPT ![d] = "LOCKED"]
    /\ UNCHANGED <<reviews, revisions, requests>>

(* Seeded fault: deleting a draft cascades. *)
UnrevisedAnyway(d) == TRUE

(* The foreign keys of decision_revisions: ON DELETE RESTRICT. *)
Unrevised(d) == ~\E old \in revisions : d \in {old.root, old.predecessor, old.successor}

DeleteDraft(d) ==
    /\ decisions[d] = "DRAFT"
    /\ Unrevised(d)
    /\ decisions' = [decisions EXCEPT ![d] = "NONE"]
    /\ UNCHANGED <<reviews, revisions, requests>>

--------------------------------------------------------------------------------
(* Scheduled reviews.                                                      *)

CreateReview(v, d) ==
    /\ reviews[v].status = "NONE"
    /\ decisions[d] = "LOCKED"
    /\ OneScheduled(d)
    /\ reviews' = [reviews EXCEPT ![v].status = "SCHEDULED", ![v].decision = d]
    /\ UNCHANGED <<decisions, revisions, requests>>

BecomeDue(v) ==
    /\ reviews[v].status = "SCHEDULED"
    /\ ~reviews[v].due
    /\ reviews' = [reviews EXCEPT ![v].due = TRUE]
    /\ UNCHANGED <<decisions, revisions, requests>>

UpdateReview(r, v) ==
    /\ reviews[v].status = "SCHEDULED"
    /\ Begin(r, [op |-> "UpdateReview", review |-> v])
    /\ UNCHANGED <<decisions, reviews, revisions>>

WriteReview(r) ==
    /\ Doing(r, "UpdateReview")
    /\ reviews' = [reviews EXCEPT ![requests[r].review].due = FALSE]
    /\ Finish(r)
    /\ UNCHANGED <<decisions, revisions>>

CancelReview(r, v) ==
    /\ reviews[v].status = "SCHEDULED"
    /\ Begin(r, [op |-> "CancelReview", review |-> v])
    /\ UNCHANGED <<decisions, reviews, revisions>>

WriteCancelled(r) ==
    LET v == requests[r].review
        row == [reviews[v] EXCEPT !.status = "CANCELLED", !.cancelled = TRUE]
    IN
    /\ Doing(r, "CancelReview")
    /\ reviews' = IF ReviewCheck(row) THEN [reviews EXCEPT ![v] = row] ELSE reviews
    /\ Finish(r)
    /\ UNCHANGED <<decisions, revisions>>

(* Confirmed goes on to complete the review; the other outcomes first read *)
(* the chain that the new revision extends.                                *)
CompleteReview(r, v, outcome) ==
    /\ reviews[v].status = "SCHEDULED"
    /\ reviews[v].due
    /\ Begin(r, [op |-> IF outcome = "CONFIRMED" THEN "Confirm" ELSE "ReadRevisions",
                 review |-> v, outcome |-> outcome])
    /\ UNCHANGED <<decisions, reviews, revisions>>

Completed(row, outcome) ==
    [row EXCEPT !.status = "COMPLETED", !.outcome = outcome, !.completed = TRUE]

WriteConfirmed(r) ==
    LET v == requests[r].review
        row == Completed(reviews[v], "CONFIRMED")
    IN
    /\ Doing(r, "Confirm")
    /\ reviews' = IF ReviewCheck(row) THEN [reviews EXCEPT ![v] = row] ELSE reviews
    /\ Finish(r)
    /\ UNCHANGED <<decisions, revisions>>

(* get_revision_root: the root of the revision that created d, or d. *)
Root(d) ==
    IF \E old \in revisions : old.successor = d
    THEN (CHOOSE old \in revisions : old.successor = d).root
    ELSE d

(* next_revision_number: max + 1 over the revisions of the root. *)
NextNumber(root, n) ==
    /\ n \in Nat \ {0}
    /\ \A old \in revisions : old.root = root => old.number < n
    /\ n = 1 \/ \E old \in revisions : old.root = root /\ old.number = n - 1

Numbers == 1..Cardinality(revisions) + 1

ReadRevisions(r) ==
    LET root == Root(reviews[requests[r].review].decision) IN
    /\ Doing(r, "ReadRevisions")
    /\ \E n \in Numbers :
        /\ NextNumber(root, n)
        /\ requests' = [requests EXCEPT ![r] =
              [op |-> "Revise", review |-> @.review, outcome |-> @.outcome, root |-> root,
               number |-> n]]
    /\ UNCHANGED <<decisions, reviews, revisions>>

NewRevision(r, successor) ==
    LET q == requests[r] IN
    [root |-> q.root, number |-> q.number, predecessor |-> reviews[q.review].decision,
     successor |-> successor, review |-> q.review, outcome |-> q.outcome]

(* complete_review_with_revision: the review, the successor draft and the  *)
(* revision in one commit.                                                 *)
Revise(r, successor) ==
    LET v == requests[r].review
        row == Completed(reviews[v], requests[r].outcome)
    IN
    /\ Doing(r, "Revise")
    /\ decisions[successor] = "NONE"
    /\ ReviewCheck(row)
    /\ Unique(NewRevision(r, successor))
    /\ reviews' = [reviews EXCEPT ![v] = row]
    /\ decisions' = [decisions EXCEPT ![successor] = "DRAFT"]
    /\ revisions' = revisions \cup {NewRevision(r, successor)}
    /\ Finish(r)

(* A constraint refuses the commit: ReviewConflictError, nothing written.  *)
ReviseConflict(r) ==
    /\ Doing(r, "Revise")
    /\ \/ ~ReviewCheck(Completed(reviews[requests[r].review], requests[r].outcome))
       \/ \A d \in Decisions : ~Unique(NewRevision(r, d))
    /\ Finish(r)
    /\ UNCHANGED <<decisions, reviews, revisions>>

--------------------------------------------------------------------------------
DecisionStep(d) == CreateDraft(d) \/ LockDecision(d) \/ DeleteDraft(d)

ReviewStep(r) ==
    \/ \E v \in Reviews :
        \/ UpdateReview(r, v) \/ CancelReview(r, v)
        \/ \E o \in Outcomes : CompleteReview(r, v, o)
    \/ WriteReview(r) \/ WriteCancelled(r) \/ WriteConfirmed(r)
    \/ ReadRevisions(r) \/ ReviseConflict(r)
    \/ \E d \in Decisions : Revise(r, d)

Next ==
    \/ \E d \in Decisions : DecisionStep(d)
    \/ \E v \in Reviews, d \in Decisions : CreateReview(v, d)
    \/ \E v \in Reviews : BecomeDue(v)
    \/ \E r \in Requests : ReviewStep(r)

Spec == Init /\ [][Next]_reviewVars

--------------------------------------------------------------------------------
Request ==
    {Idle}
    \cup [op: {"UpdateReview", "CancelReview"}, review: Reviews]
    \cup [op: {"Confirm", "ReadRevisions"}, review: Reviews, outcome: Outcomes]
    \cup [op: {"Revise"}, review: Reviews, outcome: Outcomes \ {"CONFIRMED"},
          root: Decisions, number: Nat \ {0}]

(* Every row and every request in progress is well formed. *)
TypeOK ==
    /\ decisions \in [Decisions -> {"NONE", "DRAFT", "LOCKED"}]
    /\ reviews \in [Reviews -> ReviewRow]
    /\ revisions \subseteq Revision
    /\ requests \in [Requests -> Request]

(* A review is completed or cancelled once: requests that read it while it *)
(* was scheduled still commit afterwards, and the check refuses them       *)
(* (cancel_review, complete_review).                                       *)
ReviewEndsOnce ==
    [][\A v \in Reviews :
        reviews[v].status \in Finished => reviews'[v].status = reviews[v].status]_reviewVars

(* The revisions of a root are numbered 1, 2, ... and each starts from the *)
(* decision the one before created, although complete_review reads the     *)
(* root and the highest number before it commits.                          *)
RevisionsFormAChain ==
    \A new \in revisions :
        IF new.number = 1
        THEN new.predecessor = new.root
        ELSE \E old \in revisions : /\ old.root = new.root
                                    /\ old.number = new.number - 1
                                    /\ old.successor = new.predecessor

(* Every revision links two existing decisions and a completed review of   *)
(* the predecessor, which is still locked, and every review that reopened  *)
(* or superseded a decision has its revision: the three rows are committed *)
(* together and no later request takes one of them back.                   *)
RevisionsStand ==
    /\ \A rev \in revisions :
        /\ decisions[rev.predecessor] = "LOCKED"
        /\ decisions[rev.successor] \in {"DRAFT", "LOCKED"}
        /\ reviews[rev.review].status = "COMPLETED"
        /\ reviews[rev.review].decision = rev.predecessor
    /\ \A v \in Reviews :
        reviews[v].outcome \in {"REOPENED", "SUPERSEDED"} =>
            \E rev \in revisions : rev.review = v /\ rev.outcome = reviews[v].outcome

================================================================================
