---------------------------- MODULE ServicesProofs ----------------------------
(***************************************************************************)
(* Proofs about Services, for any users, rows and requests.  Meetings,     *)
(* sessions and workspaces have proofs in modules of their own, which this *)
(* one applies to the composition; the other services are proved correct   *)
(* here.                                                                   *)
(***************************************************************************)
EXTENDS Services, FiniteSetTheorems, TLAPS

RP == INSTANCE MeetingProofs
    WITH Participants <- Guests, Connections <- Devices, UserOf <- GuestOn, Role <- GuestRole,
         Crowd <- GuestCrowd
QP == INSTANCE MeetingProofs
    WITH Participants <- Members, Connections <- Devices, UserOf <- MemberOn, Crowd <- MemberCrowd
SP == INSTANCE SessionsProofs WITH Users <- Holders
WP == INSTANCE WorkspacesProofs WITH Users <- Members

--------------------------------------------------------------------------------
(* Reviews: the revisions of a decision form a chain.                      *)

(* No commit left a row that the check of the table refuses. *)
Checked == \A v \in Reviews : ReviewCheck(reviews[v])

(* Reviews are of locked decisions, and a locked decision stays so. *)
OnLocked ==
    \A v \in Reviews : reviews[v].status # "NONE" => decisions[reviews[v].decision] = "LOCKED"

(* The unique constraints, as a fact about the table. *)
Distinct ==
    \A old, new \in revisions :
        \/ old.root = new.root /\ old.number = new.number
        \/ old.predecessor = new.predecessor
        \/ old.successor = new.successor
        \/ old.review = new.review
        => old = new

(* Nothing deletes a revision, so the numbers of a root have no gap. *)
NoGaps ==
    \A rev \in revisions : \A k \in 1..rev.number :
        \E old \in revisions : old.root = rev.root /\ old.number = k

(* What stays true of a root and number read for a revision of d: either   *)
(* they extend the chain of d, or d was revised meanwhile and the unique   *)
(* predecessor refuses the commit.                                         *)
Extending(table, d, root, n) ==
    \/ n = 1 /\ root = d
    \/ \E old \in table : old.root = root /\ old.number = n - 1 /\ old.successor = d
    \/ \E old \in table : old.predecessor = d

(* What a request in progress read and no other commit takes back. *)
Knows(request, table, rows) ==
    /\ request # Idle => rows[request.review].status # "NONE"
    /\ request.op = "ReadRevisions" => request.outcome # "CONFIRMED"
    /\ request.op = "Revise" =>
          Extending(table, rows[request.review].decision, request.root, request.number)

Known == \A r \in Requests : Knows(requests[r], revisions, reviews)

Chains == Distinct /\ NoGaps /\ RevisionsFormAChain

ReviewInv == TypeOK /\ Checked /\ OnLocked /\ Chains /\ RevisionsStand /\ Known

--------------------------------------------------------------------------------
(* Every request in progress names a review. *)
LEMMA RequestReview ==
    ASSUME TypeOK, NEW r \in Requests, requests[r] # Idle
    PROVE  requests[r].review \in Reviews
BY DEF TypeOK, Request, Idle

(* A request is in progress exactly when its operation is not Idle. *)
LEMMA RequestBusy ==
    ASSUME TypeOK, NEW r \in Requests, NEW op, Doing(r, op), op # "Idle"
    PROVE  requests[r] # Idle
BY DEF Doing, Idle

(* Whoever begins knows that the review exists. *)
LEMMA BeginKnown ==
    ASSUME ReviewInv, NEW r \in Requests, NEW request \in Request, Begin(r, request),
           Knows(request, revisions, reviews), UNCHANGED <<reviews, revisions>>
    PROVE  Known' /\ requests' \in [Requests -> Request]
<1>1. requests' = [requests EXCEPT ![r] = request] /\ requests \in [Requests -> Request]
  BY DEF Begin, ReviewInv, TypeOK
<1>2. \A s \in Requests : Knows(requests'[s], revisions', reviews')
  BY <1>1 DEF ReviewInv, Known
<1>3. QED BY <1>1, <1>2 DEF Known

(* What a request knows survives whatever leaves existing reviews with     *)
(* their decision and revisions in the table.                              *)
LEMMA KnowledgeKept ==
    ASSUME TypeOK, NEW r \in Requests, Knows(requests[r], revisions, reviews),
           revisions \subseteq revisions',
           \A v \in Reviews : reviews[v].status # "NONE" =>
               reviews'[v].status # "NONE" /\ reviews'[v].decision = reviews[v].decision
    PROVE  Knows(requests[r], revisions', reviews')
<1>1. CASE requests[r] = Idle
  BY <1>1 DEF Knows, Idle
<1>2. CASE requests[r] # Idle
  <2>1. requests[r].review \in Reviews
    BY <1>2, RequestReview
  <2>2. QED BY <1>2, <2>1 DEF Knows, Extending
<1>3. QED BY <1>1, <1>2

(* The requests after a step that finishes one, or none. *)
LEMMA FinishKnown ==
    ASSUME ReviewInv, revisions \subseteq revisions',
           \A v \in Reviews : reviews[v].status # "NONE" =>
               reviews'[v].status # "NONE" /\ reviews'[v].decision = reviews[v].decision,
           UNCHANGED requests \/ \E r \in Requests : Finish(r)
    PROVE  Known' /\ requests' \in [Requests -> Request]
<1>1. requests \in [Requests -> Request] /\ TypeOK
  BY DEF ReviewInv, TypeOK
<1>2. /\ requests' \in [Requests -> Request]
      /\ \A s \in Requests : requests'[s] = requests[s] \/ requests'[s] = Idle
  BY <1>1 DEF Finish, Request
<1>3. \A s \in Requests : Knows(requests[s], revisions', reviews')
  BY <1>1, KnowledgeKept DEF ReviewInv, Known
<1>4. Knows(Idle, revisions', reviews')
  BY DEF Knows, Idle
<1>5. QED BY <1>2, <1>3, <1>4 DEF Known

--------------------------------------------------------------------------------
(* The steps.                                                              *)

(* Creating, locking and deleting a decision: a locked one stays locked,   *)
(* and the foreign keys keep a revised draft.                              *)
LEMMA DecisionSteps ==
    ASSUME ReviewInv, NEW d \in Decisions, DecisionStep(d)
    PROVE  ReviewInv'
<1> USE DEF ReviewInv
<1>1. UNCHANGED <<reviews, revisions, requests>>
  BY DEF DecisionStep, CreateDraft, LockDecision, DeleteDraft
<1>2. /\ decisions' \in [Decisions -> {"NONE", "DRAFT", "LOCKED"}]
      /\ \A e \in Decisions : decisions[e] = "LOCKED" => decisions'[e] = "LOCKED"
      /\ \A e \in Decisions : decisions[e] \in {"DRAFT", "LOCKED"} /\ ~Unrevised(e) =>
            decisions'[e] \in {"DRAFT", "LOCKED"}
  BY DEF TypeOK, DecisionStep, CreateDraft, LockDecision, DeleteDraft
<1>3. TypeOK'
  BY <1>1, <1>2 DEF TypeOK, Revision, ReviewRow
<1>4. Checked' /\ Chains'
  BY <1>1 DEF Checked, Chains, Distinct, NoGaps, RevisionsFormAChain
<1>5. OnLocked'
  BY <1>1, <1>2 DEF OnLocked, TypeOK, ReviewRow
<1>6. RevisionsStand'
  <2>1. ASSUME NEW rev \in revisions
        PROVE  /\ decisions'[rev.predecessor] = "LOCKED"
               /\ decisions'[rev.successor] \in {"DRAFT", "LOCKED"}
    <3>1. rev.predecessor \in Decisions /\ rev.successor \in Decisions
      BY DEF TypeOK, Revision
    <3>2. ~Unrevised(rev.successor)
      BY DEF Unrevised
    <3>3. QED BY <1>2, <3>1, <3>2 DEF RevisionsStand
  <2>2. QED BY <1>1, <2>1 DEF RevisionsStand
<1>7. Known'
  BY <1>1 DEF Known
<1>8. QED BY <1>3, <1>4, <1>5, <1>6, <1>7

(* Writing a review that the table's check accepts. *)
LEMMA ReviewWrites ==
    ASSUME ReviewInv, NEW v \in Reviews, NEW row \in ReviewRow,
           reviews' = [reviews EXCEPT ![v] = row], UNCHANGED <<decisions, revisions>>,
           UNCHANGED requests \/ \E r \in Requests : Finish(r),
           ReviewCheck(row), row.status # "NONE", decisions[row.decision] = "LOCKED",
           reviews[v].status # "NONE" => row.decision = reviews[v].decision,
           reviews[v].status = "COMPLETED" => row.status = "COMPLETED",
           row.outcome \in {"REOPENED", "SUPERSEDED"} => row.outcome = reviews[v].outcome
    PROVE  ReviewInv'
<1> USE DEF ReviewInv
<1>1. /\ reviews' \in [Reviews -> ReviewRow] /\ reviews'[v] = row
      /\ \A w \in Reviews : w # v => reviews'[w] = reviews[w]
  BY DEF TypeOK
<1>2. Known' /\ requests' \in [Requests -> Request]
  BY <1>1, FinishKnown
<1>3. TypeOK'
  BY <1>1, <1>2 DEF TypeOK, Revision
<1>4. Checked' /\ OnLocked'
  BY <1>1 DEF Checked, OnLocked, ReviewCheck
<1>5. Chains'
  BY DEF Chains, Distinct, NoGaps, RevisionsFormAChain
<1>6. RevisionsStand'
  <2>1. ASSUME NEW rev \in revisions
        PROVE  /\ reviews'[rev.review].status = "COMPLETED"
               /\ reviews'[rev.review].decision = rev.predecessor
    BY <1>1 DEF RevisionsStand, TypeOK, Revision
  <2>2. ASSUME NEW w \in Reviews, reviews'[w].outcome \in {"REOPENED", "SUPERSEDED"}
        PROVE  \E rev \in revisions : rev.review = w /\ rev.outcome = reviews'[w].outcome
    BY <1>1, <2>2 DEF RevisionsStand
  <2>3. QED BY <2>1, <2>2 DEF RevisionsStand
<1>7. QED BY <1>2, <1>3, <1>4, <1>5, <1>6

(* Scheduling, and the commits of an edit, a cancellation and a            *)
(* confirmation.                                                           *)
LEMMA ReviewSteps ==
    ASSUME ReviewInv,
           \/ \E v \in Reviews, d \in Decisions : CreateReview(v, d)
           \/ \E v \in Reviews : BecomeDue(v)
           \/ \E r \in Requests : WriteReview(r) \/ WriteCancelled(r) \/ WriteConfirmed(r)
    PROVE  ReviewInv'
<1>1. ASSUME NEW v \in Reviews, NEW d \in Decisions, CreateReview(v, d)
      PROVE  ReviewInv'
  <2> DEFINE row == [reviews[v] EXCEPT !.status = "SCHEDULED", !.decision = d]
  <2>1. reviews[v] \in ReviewRow /\ ReviewCheck(reviews[v]) /\ reviews[v].status = "NONE"
    BY <1>1 DEF CreateReview, ReviewInv, TypeOK, Checked
  <2>2. row \in ReviewRow /\ ReviewCheck(row) /\ row.outcome = reviews[v].outcome
        /\ row.status = "SCHEDULED" /\ row.decision = d
    BY <2>1 DEF ReviewRow, ReviewCheck
  <2>3. reviews' = [reviews EXCEPT ![v] = row]
    BY <1>1 DEF CreateReview, ReviewInv, TypeOK
  <2>4. decisions[d] = "LOCKED" /\ UNCHANGED <<decisions, revisions, requests>>
    BY <1>1 DEF CreateReview
  <2> HIDE DEF row
  <2>5. QED BY <2>1, <2>2, <2>3, <2>4, ReviewWrites
<1>2. ASSUME NEW v \in Reviews, BecomeDue(v)
      PROVE  ReviewInv'
  <2> DEFINE row == [reviews[v] EXCEPT !.due = TRUE]
  <2>1. reviews[v] \in ReviewRow /\ ReviewCheck(reviews[v]) /\ reviews[v].status = "SCHEDULED"
    BY <1>2 DEF BecomeDue, ReviewInv, TypeOK, Checked
  <2>2. row \in ReviewRow /\ ReviewCheck(row) /\ row.outcome = reviews[v].outcome
        /\ row.status = "SCHEDULED" /\ row.decision = reviews[v].decision
    BY <2>1 DEF ReviewRow, ReviewCheck
  <2>3. reviews' = [reviews EXCEPT ![v] = row]
    BY <1>2 DEF BecomeDue, ReviewInv, TypeOK
  <2>4. decisions[reviews[v].decision] = "LOCKED" /\ UNCHANGED <<decisions, revisions, requests>>
    BY <1>2, <2>1 DEF BecomeDue, ReviewInv, OnLocked
  <2> HIDE DEF row
  <2>5. QED BY <2>1, <2>2, <2>3, <2>4, ReviewWrites
<1>3. ASSUME NEW r \in Requests, WriteReview(r) \/ WriteCancelled(r) \/ WriteConfirmed(r)
      PROVE  ReviewInv'
  <2> DEFINE v == requests[r].review
  <2>1. requests[r] # Idle
    <3>1. requests[r].op \in {"UpdateReview", "CancelReview", "Confirm"}
      BY <1>3 DEF WriteReview, WriteCancelled, WriteConfirmed, Doing
    <3>2. QED BY <3>1 DEF Idle
  <2>2. v \in Reviews
    BY <2>1, RequestReview DEF ReviewInv
  <2>3. reviews[v] \in ReviewRow /\ ReviewCheck(reviews[v]) /\ reviews[v].status # "NONE"
        /\ decisions[reviews[v].decision] = "LOCKED"
    BY <2>1, <2>2 DEF ReviewInv, TypeOK, Checked, Known, Knows, OnLocked
  <2>4. Finish(r) /\ UNCHANGED <<decisions, revisions>>
    BY <1>3 DEF WriteReview, WriteCancelled, WriteConfirmed
  <2>5. PICK row \in ReviewRow :
           /\ reviews' = [reviews EXCEPT ![v] = row]
           /\ ReviewCheck(row) /\ row.status # "NONE" /\ row.decision = reviews[v].decision
           /\ reviews[v].status = "COMPLETED" => row.status = "COMPLETED"
           /\ row.outcome \in {"REOPENED", "SUPERSEDED"} => row.outcome = reviews[v].outcome
    <3>1. reviews = [reviews EXCEPT ![v] = reviews[v]]
      BY DEF ReviewInv, TypeOK
    <3>2. CASE UNCHANGED reviews
      BY <2>3, <3>1, <3>2
    <3>3. CASE WriteReview(r)
      <4> DEFINE row == [reviews[v] EXCEPT !.due = FALSE]
      <4>1. row \in ReviewRow /\ ReviewCheck(row) /\ row.status = reviews[v].status
            /\ row.decision = reviews[v].decision /\ row.outcome = reviews[v].outcome
        BY <2>3 DEF ReviewRow, ReviewCheck
      <4>2. reviews' = [reviews EXCEPT ![v] = row]
        BY <3>3 DEF WriteReview, ReviewInv, TypeOK
      <4> HIDE DEF row
      <4>3. QED BY <2>3, <4>1, <4>2
    <3>4. CASE WriteCancelled(r) /\ ~UNCHANGED reviews
      <4> DEFINE row == [reviews[v] EXCEPT !.status = "CANCELLED", !.cancelled = TRUE]
      <4>1. ReviewCheck(row) /\ reviews' = [reviews EXCEPT ![v] = row]
        BY <3>4 DEF WriteCancelled
      <4>2. row \in ReviewRow /\ row.status = "CANCELLED" /\ row.completed = reviews[v].completed
            /\ row.decision = reviews[v].decision /\ row.outcome = reviews[v].outcome
        BY <2>3 DEF ReviewRow, Finished
      <4> HIDE DEF row
      <4>3. reviews[v].status # "COMPLETED"
        BY <2>3, <4>1, <4>2 DEF ReviewCheck
      <4>4. QED BY <4>1, <4>2, <4>3
    <3>5. CASE WriteConfirmed(r) /\ ~UNCHANGED reviews
      <4> DEFINE row == Completed(reviews[v], "CONFIRMED")
      <4>1. ReviewCheck(row) /\ reviews' = [reviews EXCEPT ![v] = row]
        BY <3>5 DEF WriteConfirmed
      <4>2. row \in ReviewRow /\ row.status = "COMPLETED" /\ row.outcome = "CONFIRMED"
            /\ row.decision = reviews[v].decision
        BY <2>3 DEF Completed, ReviewRow, Finished, Outcomes
      <4> HIDE DEF row
      <4>3. QED BY <4>1, <4>2
    <3>6. QED BY <1>3, <3>2, <3>3, <3>4, <3>5
  <2> HIDE DEF v
  <2>6. QED BY <2>2, <2>3, <2>4, <2>5, ReviewWrites
<1>4. QED BY <1>1, <1>2, <1>3

(* A revision starts from the decision that the revision before it         *)
(* created, or from the root: what the request has read extends the chain. *)
LEMMA ReadExtends ==
    ASSUME ReviewInv, NEW d \in Decisions, NEW n \in Nat, NextNumber(Root(d), n)
    PROVE  Root(d) \in Decisions /\ Extending(revisions, d, Root(d), n)
<1> USE DEF ReviewInv, Chains
<1>1. CASE ~\E old \in revisions : old.successor = d
  <2>1. Root(d) = d
    BY <1>1 DEF Root
  <2>2. CASE n = 1
    BY <2>1, <2>2 DEF Extending
  <2>3. CASE n # 1
    <3>1. PICK old \in revisions : old.root = d /\ old.number = n - 1
      BY <2>1, <2>3 DEF NextNumber
    <3>2. old.number \in Nat \ {0}
      BY DEF TypeOK, Revision
    <3>3. PICK first \in revisions : first.root = d /\ first.number = 1
      BY <3>1, <3>2 DEF NoGaps
    <3>4. first.predecessor = d
      BY <3>3 DEF RevisionsFormAChain
    <3>5. QED BY <2>1, <3>4 DEF Extending
  <2>4. QED BY <2>2, <2>3
<1>2. CASE \E old \in revisions : old.successor = d
  <2>1. PICK e \in revisions : e.successor = d /\ Root(d) = e.root
    BY <1>2 DEF Root
  <2>2. e.number \in Nat \ {0} /\ e.root \in Decisions /\ e.number < n
    BY <2>1 DEF TypeOK, Revision, NextNumber
  <2>3. CASE e.number = n - 1
    BY <2>1, <2>2, <2>3 DEF Extending
  <2>4. CASE e.number # n - 1
    <3>1. PICK old \in revisions : old.root = e.root /\ old.number = n - 1
      BY <2>1, <2>2 DEF NextNumber
    <3>2. e.number + 1 \in 1..old.number
      BY <2>2, <2>4, <3>1
    <3>3. PICK next \in revisions : next.root = e.root /\ next.number = e.number + 1
      BY <3>1, <3>2 DEF NoGaps
    <3>4. next.number # 1 /\ next.number - 1 = e.number
      BY <2>2, <3>3
    <3>5. PICK before \in revisions :
             before.root = e.root /\ before.number = e.number
             /\ before.successor = next.predecessor
      BY <3>3, <3>4 DEF RevisionsFormAChain
    <3>6. before = e
      BY <3>5 DEF Distinct
    <3>7. QED BY <2>1, <2>2, <3>5, <3>6 DEF Extending
  <2>5. QED BY <2>3, <2>4
<1>3. QED BY <1>1, <1>2

(* The reads of a request: nothing but the request changes. *)
LEMMA RequestSteps ==
    ASSUME ReviewInv, NEW r \in Requests,
           \/ \E v \in Reviews :
                  \/ UpdateReview(r, v) \/ CancelReview(r, v)
                  \/ \E o \in Outcomes : CompleteReview(r, v, o)
           \/ ReadRevisions(r) \/ ReviseConflict(r)
    PROVE  ReviewInv'
<1>1. UNCHANGED <<decisions, reviews, revisions>>
  BY DEF UpdateReview, CancelReview, CompleteReview, ReadRevisions, ReviseConflict
<1>2. Known' /\ requests' \in [Requests -> Request]
  <2>1. ASSUME NEW v \in Reviews, UpdateReview(r, v) \/ CancelReview(r, v)
        PROVE  Known' /\ requests' \in [Requests -> Request]
    <3>1. PICK op \in {"UpdateReview", "CancelReview"} : Begin(r, [op |-> op, review |-> v])
      BY <2>1 DEF UpdateReview, CancelReview
    <3>2. [op |-> op, review |-> v] \in Request
      BY DEF Request
    <3>3. Knows([op |-> op, review |-> v], revisions, reviews)
      BY <2>1 DEF Knows, UpdateReview, CancelReview
    <3>4. QED BY <1>1, <3>1, <3>2, <3>3, BeginKnown
  <2>2. ASSUME NEW v \in Reviews, NEW o \in Outcomes, CompleteReview(r, v, o)
        PROVE  Known' /\ requests' \in [Requests -> Request]
    <3> DEFINE request == [op |-> IF o = "CONFIRMED" THEN "Confirm" ELSE "ReadRevisions",
                           review |-> v, outcome |-> o]
    <3>1. Begin(r, request) /\ reviews[v].status = "SCHEDULED"
      BY <2>2 DEF CompleteReview
    <3>2. request \in Request
      BY DEF Request
    <3>3. Knows(request, revisions, reviews)
      BY <3>1 DEF Knows
    <3> HIDE DEF request
    <3>4. QED BY <1>1, <3>1, <3>2, <3>3, BeginKnown
  <2>3. CASE ReadRevisions(r)
    <3> DEFINE d == reviews[requests[r].review].decision
    <3>1. PICK n \in Nat \ {0} :
             /\ NextNumber(Root(d), n)
             /\ requests' = [requests EXCEPT ![r] =
                   [op |-> "Revise", review |-> @.review, outcome |-> @.outcome,
                    root |-> Root(d), number |-> n]]
      BY <2>3 DEF ReadRevisions, NextNumber
    <3>2. requests[r].op = "ReadRevisions" /\ requests[r] # Idle
      BY <2>3 DEF ReadRevisions, Doing, Idle
    <3>3. /\ requests[r].review \in Reviews /\ requests[r].outcome \in Outcomes \ {"CONFIRMED"}
          /\ reviews[requests[r].review].status # "NONE" /\ d \in Decisions
      BY <3>2 DEF ReviewInv, TypeOK, Request, Idle, Known, Knows, ReviewRow
    <3> DEFINE request == [op |-> "Revise", review |-> requests[r].review,
                           outcome |-> requests[r].outcome, root |-> Root(d), number |-> n]
    <3>4. Root(d) \in Decisions /\ Extending(revisions, d, Root(d), n)
      BY <3>1, <3>3, ReadExtends
    <3>5. request \in Request
      BY <3>3, <3>4 DEF Request
    <3>6. Knows(request, revisions, reviews)
      BY <3>3, <3>4 DEF Knows
    <3>7. requests \in [Requests -> Request] /\ requests' = [requests EXCEPT ![r] = request]
      BY <3>1 DEF ReviewInv, TypeOK
    <3> HIDE DEF request
    <3>8. requests' \in [Requests -> Request]
          /\ \A s \in Requests : Knows(requests'[s], revisions, reviews)
      BY <3>5, <3>6, <3>7 DEF ReviewInv, Known
    <3>9. QED BY <1>1, <3>8 DEF Known
  <2>4. CASE ReviseConflict(r)
    BY <1>1, <2>4, FinishKnown DEF ReviseConflict
  <2>5. QED BY <2>1, <2>2, <2>3, <2>4
<1>3. QED
  BY <1>1, <1>2 DEF ReviewInv, TypeOK, Checked, OnLocked, Chains, Distinct, NoGaps,
                    RevisionsFormAChain, RevisionsStand, Revision, ReviewRow

(* The commit of a revision: what its request read extends the chain, or   *)
(* a constraint refuses it.                                                *)
LEMMA ReviseSteps ==
    ASSUME ReviewInv, NEW r \in Requests, NEW successor \in Decisions, Revise(r, successor)
    PROVE  ReviewInv'
<1> DEFINE q == requests[r]
           v == q.review
           d == reviews[v].decision
           row == Completed(reviews[v], q.outcome)
           new == NewRevision(r, successor)
<1>1. /\ q # Idle /\ q.op = "Revise" /\ v \in Reviews /\ q.outcome \in Outcomes \ {"CONFIRMED"}
      /\ q.root \in Decisions /\ q.number \in Nat \ {0}
  BY DEF Revise, Doing, ReviewInv, TypeOK, Request, Idle
<1>2. /\ reviews[v] \in ReviewRow /\ reviews[v].status # "NONE" /\ decisions[d] = "LOCKED"
      /\ d \in Decisions /\ Extending(revisions, d, q.root, q.number)
  BY <1>1 DEF ReviewInv, TypeOK, Known, Knows, OnLocked, ReviewRow
<1>3. /\ decisions[successor] = "NONE" /\ ReviewCheck(row) /\ Unique(new)
      /\ reviews' = [reviews EXCEPT ![v] = row]
      /\ decisions' = [decisions EXCEPT ![successor] = "DRAFT"]
      /\ revisions' = revisions \cup {new} /\ Finish(r)
  BY DEF Revise
<1>4. /\ row \in ReviewRow /\ row.status = "COMPLETED" /\ row.outcome = q.outcome
      /\ row.decision = d
  BY <1>1, <1>2 DEF Completed, ReviewRow, Finished
<1>5. /\ new \in Revision /\ new.root = q.root /\ new.number = q.number
      /\ new.predecessor = d /\ new.successor = successor /\ new.review = v
      /\ new.outcome = q.outcome
  BY <1>1, <1>2 DEF NewRevision, Revision
<1> HIDE DEF row, new, d, v, q
<1>6. /\ reviews' \in [Reviews -> ReviewRow] /\ reviews'[v] = row
      /\ \A w \in Reviews : w # v => reviews'[w] = reviews[w]
      /\ decisions' \in [Decisions -> {"NONE", "DRAFT", "LOCKED"}]
      /\ decisions'[successor] = "DRAFT"
      /\ \A e \in Decisions : e # successor => decisions'[e] = decisions[e]
  BY <1>1, <1>3, <1>4 DEF ReviewInv, TypeOK
<1>7. \A old \in revisions :
        /\ ~(old.root = new.root /\ old.number = new.number)
        /\ old.predecessor # new.predecessor /\ old.successor # new.successor
        /\ old.review # new.review
  BY <1>3 DEF Unique
<1>8. Known' /\ requests' \in [Requests -> Request]
  <2>1. \A w \in Reviews : reviews[w].status # "NONE" =>
            reviews'[w].status # "NONE" /\ reviews'[w].decision = reviews[w].decision
    BY <1>4, <1>6 DEF d
  <2>2. QED BY <1>3, <2>1, FinishKnown
<1>9. TypeOK'
  BY <1>3, <1>5, <1>6, <1>8 DEF ReviewInv, TypeOK, Revision
<1>10. Checked'
  BY <1>3, <1>6 DEF ReviewInv, Checked, ReviewCheck
<1>11. OnLocked'
  BY <1>2, <1>3, <1>4, <1>6 DEF ReviewInv, OnLocked, TypeOK, ReviewRow
<1>12. Distinct'
  BY <1>3, <1>7 DEF ReviewInv, Chains, Distinct
<1>13. \/ new.number = 1 /\ new.root = new.predecessor
       \/ \E old \in revisions : old.root = new.root /\ old.number = new.number - 1
                               /\ old.successor = new.predecessor
  BY <1>2, <1>5, <1>7 DEF Extending
<1>14. RevisionsFormAChain'
  <2>1. \A old \in revisions : old.number \in Nat \ {0}
    BY DEF ReviewInv, TypeOK, Revision
  <2>2. CASE new.number = 1
    <3>1. new.root = new.predecessor
      BY <1>13, <2>1, <2>2
    <3>2. QED BY <1>3, <2>2, <3>1 DEF ReviewInv, Chains, RevisionsFormAChain
  <2>3. CASE new.number # 1
    BY <1>3, <1>13, <2>3 DEF ReviewInv, Chains, RevisionsFormAChain
  <2>4. QED BY <2>2, <2>3
<1>15. NoGaps'
  <2>1. ASSUME NEW k \in 1..new.number
        PROVE  \E old \in revisions' : old.root = new.root /\ old.number = k
    <3>1. CASE k = new.number
      BY <1>3, <3>1
    <3>2. CASE k # new.number
      <4>1. PICK last \in revisions : last.root = new.root /\ last.number = new.number - 1
        BY <1>1, <1>5, <1>13, <3>2
      <4>2. k \in 1..last.number
        BY <1>1, <1>5, <3>2, <4>1
      <4>3. QED BY <1>3, <4>1, <4>2 DEF ReviewInv, Chains, NoGaps
    <3>3. QED BY <3>1, <3>2
  <2>2. QED BY <1>3, <2>1 DEF ReviewInv, Chains, NoGaps
<1>16. RevisionsStand'
  <2>1. ASSUME NEW rev \in revisions
        PROVE  /\ decisions'[rev.predecessor] = "LOCKED"
               /\ decisions'[rev.successor] \in {"DRAFT", "LOCKED"}
               /\ reviews'[rev.review].status = "COMPLETED"
               /\ reviews'[rev.review].decision = rev.predecessor
    <3>1. rev.predecessor \in Decisions /\ rev.successor \in Decisions /\ rev.review \in Reviews
      BY DEF ReviewInv, TypeOK, Revision
    <3>2. rev.review # v
      BY <1>5, <1>7
    <3>3. QED BY <1>3, <1>6, <3>1, <3>2 DEF ReviewInv, RevisionsStand
  <2>2. /\ decisions'[new.predecessor] = "LOCKED"
        /\ decisions'[new.successor] \in {"DRAFT", "LOCKED"}
        /\ reviews'[new.review].status = "COMPLETED"
        /\ reviews'[new.review].decision = new.predecessor
    BY <1>2, <1>3, <1>4, <1>5, <1>6
  <2>3. ASSUME NEW w \in Reviews, reviews'[w].outcome \in {"REOPENED", "SUPERSEDED"}
        PROVE  \E rev \in revisions' : rev.review = w /\ rev.outcome = reviews'[w].outcome
    BY <1>3, <1>4, <1>5, <1>6, <2>3 DEF ReviewInv, RevisionsStand
  <2>4. QED BY <1>3, <2>1, <2>2, <2>3 DEF RevisionsStand
<1>17. QED
  BY <1>8, <1>9, <1>10, <1>11, <1>12, <1>14, <1>15, <1>16 DEF ReviewInv, Chains

--------------------------------------------------------------------------------
(* The theorems.                                                           *)

(* Rows, requests and revisions are what the tables' constraints and the   *)
(* requests' reads make them: an inductive invariant.                      *)
THEOREM ReviewInvariant == Spec => []ReviewInv
<1>1. Init => ReviewInv
  <2> SUFFICES ASSUME Init PROVE ReviewInv
    OBVIOUS
  <2>1. TypeOK /\ revisions = {} /\ \A r \in Requests : requests[r] = Idle
    BY DEF Init, TypeOK, ReviewRow, Request, Idle
  <2>2. \A v \in Reviews : reviews[v].status = "NONE" /\ reviews[v].outcome = "NONE"
                         /\ ReviewCheck(reviews[v])
    BY DEF Init, ReviewCheck
  <2>3. Known
    BY <2>1 DEF Known, Knows, Idle
  <2>4. QED
    BY <2>1, <2>2, <2>3 DEF ReviewInv, Checked, OnLocked, Chains, Distinct, NoGaps,
                            RevisionsFormAChain, RevisionsStand
<1>2. ReviewInv /\ [Next]_reviewVars => ReviewInv'
  <2> SUFFICES ASSUME ReviewInv, [Next]_reviewVars PROVE ReviewInv'
    OBVIOUS
  <2>1. CASE UNCHANGED reviewVars
    BY <2>1 DEF reviewVars, ReviewInv, TypeOK, Checked, OnLocked, Chains, Distinct, NoGaps,
                RevisionsFormAChain, RevisionsStand, Known, Revision, ReviewRow
  <2>2. CASE \E d \in Decisions : DecisionStep(d)
    BY <2>2, DecisionSteps
  <2>3. CASE \/ \E v \in Reviews, d \in Decisions : CreateReview(v, d)
             \/ \E v \in Reviews : BecomeDue(v)
    BY <2>3, ReviewSteps
  <2>4. ASSUME NEW r \in Requests, ReviewStep(r) PROVE ReviewInv'
    <3>1. \/ \E v \in Reviews :
                \/ UpdateReview(r, v) \/ CancelReview(r, v)
                \/ \E o \in Outcomes : CompleteReview(r, v, o)
          \/ ReadRevisions(r) \/ ReviseConflict(r)
          \/ WriteReview(r) \/ WriteCancelled(r) \/ WriteConfirmed(r)
          \/ \E d \in Decisions : Revise(r, d)
      BY <2>4 DEF ReviewStep
    <3>2. QED BY <3>1, RequestSteps, ReviewSteps, ReviseSteps
  <2>5. QED BY <2>1, <2>2, <2>3, <2>4 DEF Next
<1>3. QED BY <1>1, <1>2, PTL DEF Spec

(* Revisions are numbered 1, 2, ... and each starts from what the one      *)
(* before created, although complete_review reads the root and the number  *)
(* before it commits.                                                      *)
THEOREM ChainsHold == Spec => []RevisionsFormAChain
<1>1. ReviewInv => RevisionsFormAChain
  BY DEF ReviewInv, Chains
<1>2. QED BY <1>1, ReviewInvariant, PTL

(* A revision keeps its two decisions and its completed review, and a      *)
(* review that reopened or superseded a decision keeps its revision        *)
(* (complete_review_with_revision).                                        *)
THEOREM RevisionsAreKept == Spec => []RevisionsStand
<1>1. ReviewInv => RevisionsStand
  BY DEF ReviewInv
<1>2. QED BY <1>1, ReviewInvariant, PTL

(* A completed or cancelled review stays so, although requests that read   *)
(* it while it was scheduled still commit (cancel_review, complete_review). *)
THEOREM ReviewsEnd == Spec => ReviewEndsOnce
<1>1. ReviewInv /\ ReviewInv' /\ [Next]_reviewVars =>
        [\A v \in Reviews :
            reviews[v].status \in Finished => reviews'[v].status = reviews[v].status]_reviewVars
  <2> SUFFICES ASSUME ReviewInv, Next, NEW v \in Reviews, reviews[v].status \in Finished
               PROVE  reviews'[v].status = reviews[v].status
    OBVIOUS
  <2>1. reviews[v] \in ReviewRow /\ ReviewCheck(reviews[v]) /\ reviews \in [Reviews -> ReviewRow]
    BY DEF ReviewInv, TypeOK, Checked
  <2>2. CASE UNCHANGED reviews
    BY <2>2
  <2>3. ASSUME NEW w \in Reviews, BecomeDue(w) \/ \E d \in Decisions : CreateReview(w, d)
        PROVE  reviews'[v].status = reviews[v].status
    BY <2>1, <2>3 DEF CreateReview, BecomeDue, Finished
  <2>4. ASSUME NEW r \in Requests, WriteReview(r)
        PROVE  reviews'[v].status = reviews[v].status
    BY <2>1, <2>4 DEF WriteReview
  <2>5. ASSUME NEW row, NEW w \in Reviews, reviews' = [reviews EXCEPT ![w] = row], ReviewCheck(row),
               \/ row.status = "CANCELLED" /\ row.completed = reviews[w].completed
               \/ row.status = "COMPLETED" /\ row.cancelled = reviews[w].cancelled
        PROVE  reviews'[v].status = reviews[v].status
    BY <2>1, <2>5 DEF ReviewCheck, Finished
  <2>6. ASSUME NEW r \in Requests, requests[r] # Idle, ~UNCHANGED reviews,
               \/ WriteCancelled(r) \/ WriteConfirmed(r) \/ \E d \in Decisions : Revise(r, d)
        PROVE  reviews'[v].status = reviews[v].status
    <3> DEFINE w == requests[r].review
    <3>1. w \in Reviews /\ reviews[w] \in ReviewRow
      BY <2>6, RequestReview DEF ReviewInv, TypeOK
    <3>2. CASE WriteCancelled(r)
      <4> DEFINE row == [reviews[w] EXCEPT !.status = "CANCELLED", !.cancelled = TRUE]
      <4>1. reviews' = [reviews EXCEPT ![w] = row] /\ ReviewCheck(row)
        BY <2>6, <3>2 DEF WriteCancelled
      <4>2. row.status = "CANCELLED" /\ row.completed = reviews[w].completed
        BY <3>1 DEF ReviewRow
      <4> HIDE DEF row, w
      <4>3. QED BY <2>5, <3>1, <4>1, <4>2
    <3>3. ASSUME NEW outcome, reviews' = [reviews EXCEPT ![w] = Completed(reviews[w], outcome)],
                 ReviewCheck(Completed(reviews[w], outcome))
          PROVE  reviews'[v].status = reviews[v].status
      <4> DEFINE row == Completed(reviews[w], outcome)
      <4>1. row.status = "COMPLETED" /\ row.cancelled = reviews[w].cancelled
        BY <3>1 DEF Completed, ReviewRow
      <4> HIDE DEF row, w
      <4>2. QED BY <2>5, <3>1, <3>3, <4>1 DEF row
    <3>4. CASE WriteConfirmed(r)
      BY <2>6, <3>3, <3>4 DEF WriteConfirmed
    <3>5. CASE \E d \in Decisions : Revise(r, d)
      BY <3>3, <3>5 DEF Revise
    <3>6. QED BY <2>6, <3>2, <3>4, <3>5
  <2>7. ASSUME NEW r \in Requests,
               \/ WriteCancelled(r) \/ WriteConfirmed(r) \/ \E d \in Decisions : Revise(r, d)
        PROVE  requests[r] # Idle
    <3>1. requests[r].op \in {"CancelReview", "Confirm", "Revise"}
      BY <2>7 DEF WriteCancelled, WriteConfirmed, Revise, Doing
    <3>2. QED BY <3>1 DEF Idle
  <2>8. CASE \E d \in Decisions : DecisionStep(d)
    BY <2>2, <2>8 DEF DecisionStep, CreateDraft, LockDecision, DeleteDraft
  <2>9. ASSUME NEW r \in Requests, ReviewStep(r)
        PROVE  reviews'[v].status = reviews[v].status
    <3>1. \/ UNCHANGED reviews \/ WriteReview(r) \/ WriteCancelled(r) \/ WriteConfirmed(r)
          \/ \E d \in Decisions : Revise(r, d)
      BY <2>9 DEF ReviewStep, UpdateReview, CancelReview, CompleteReview, ReadRevisions,
                  ReviseConflict
    <3>2. QED BY <2>2, <2>4, <2>6, <2>7, <3>1
  <2>10. QED BY <2>3, <2>8, <2>9 DEF Next
<1>2. QED BY <1>1, ReviewInvariant, PTL DEF Spec, ReviewEndsOnce

--------------------------------------------------------------------------------
(* What a step of one service leaves alone. *)
LEMMA ReviewFrame ==
    ASSUME ReviewServiceStep
    PROVE  UNCHANGED <<service, actionVars, meetingVars, sessionVars, accountVars, discussionVars,
                       workspaceVars, connectionVars, discoveryVars, evaluationVars>>
  BY DEF ReviewServiceStep, OnReviews

LEMMA ActionFrame ==
    ASSUME ActionServiceStep
    PROVE  UNCHANGED <<service, reviewVars, meetingVars, sessionVars, accountVars, discussionVars,
                       workspaceVars, connectionVars, discoveryVars, evaluationVars>>
  BY DEF ActionServiceStep, OnActions

LEMMA MeetingFrame ==
    ASSUME MeetingStep
    PROVE  UNCHANGED <<service, reviewVars, actionVars, sessionVars, accountVars, discussionVars,
                       workspaceVars, connectionVars, discoveryVars, evaluationVars>>
  BY DEF MeetingStep, OnMeetings

LEMMA SessionFrame ==
    ASSUME SessionStep
    PROVE  UNCHANGED <<service, reviewVars, actionVars, meetingVars, accountVars, discussionVars,
                       workspaceVars, connectionVars, discoveryVars, evaluationVars>>
  BY DEF SessionStep, OnSessions

LEMMA AccountFrame ==
    ASSUME AccountStep
    PROVE  UNCHANGED <<service, reviewVars, actionVars, meetingVars, sessionVars, discussionVars,
                       workspaceVars, connectionVars, discoveryVars, evaluationVars>>
  BY DEF AccountStep, OnAccounts

LEMMA DiscussionFrame ==
    ASSUME DiscussionStep
    PROVE  UNCHANGED <<service, reviewVars, actionVars, meetingVars, sessionVars, accountVars,
                       workspaceVars, connectionVars, discoveryVars, evaluationVars>>
  BY DEF DiscussionStep, OnDiscussion

LEMMA WorkspaceFrame ==
    ASSUME WorkspaceStep
    PROVE  UNCHANGED <<service, reviewVars, actionVars, meetingVars, sessionVars, accountVars,
                       discussionVars, connectionVars, discoveryVars, evaluationVars>>
  BY DEF WorkspaceStep, OnWorkspaces

LEMMA ConnectionFrame ==
    ASSUME ConnectionStep
    PROVE  UNCHANGED <<service, reviewVars, actionVars, meetingVars, sessionVars, accountVars,
                       discussionVars, workspaceVars, discoveryVars, evaluationVars>>
  BY DEF ConnectionStep, OnConnections

LEMMA DiscoveryFrame ==
    ASSUME DiscoveryStep
    PROVE  UNCHANGED <<service, reviewVars, actionVars, meetingVars, sessionVars, accountVars,
                       discussionVars, workspaceVars, connectionVars, evaluationVars>>
  BY DEF DiscoveryStep, OnDiscovery

LEMMA EvaluationFrame ==
    ASSUME EvaluationStep
    PROVE  UNCHANGED <<service, reviewVars, actionVars, meetingVars, sessionVars, accountVars,
                       discussionVars, workspaceVars, connectionVars, discoveryVars>>
  BY DEF EvaluationStep, OnEvaluation

(* Only its own steps change what a service keeps. *)
LEMMA Frames ==
    ASSUME [ServicesNext]_servicesVars
    PROVE  /\ UNCHANGED service
           /\ ReviewServiceStep \/ UNCHANGED reviewVars
           /\ ActionServiceStep \/ UNCHANGED actionVars
           /\ MeetingStep \/ UNCHANGED meetingVars
           /\ SessionStep \/ UNCHANGED sessionVars
           /\ AccountStep \/ UNCHANGED accountVars
           /\ DiscussionStep \/ UNCHANGED discussionVars
           /\ WorkspaceStep \/ UNCHANGED workspaceVars
           /\ ConnectionStep \/ UNCHANGED connectionVars
           /\ DiscoveryStep \/ UNCHANGED discoveryVars
           /\ EvaluationStep \/ UNCHANGED evaluationVars
  <1>1. CASE UNCHANGED servicesVars
    BY <1>1 DEF servicesVars
  <1> QED
    BY <1>1, ReviewFrame, ActionFrame, MeetingFrame, SessionFrame, AccountFrame, DiscussionFrame,
       WorkspaceFrame, ConnectionFrame, DiscoveryFrame, EvaluationFrame DEF ServicesNext

--------------------------------------------------------------------------------
(* A step of the composition is a step of each component. *)
LEMMA ReviewStepped ==
    ASSUME [ServicesNext]_servicesVars
    PROVE  [Next]_reviewVars
  BY Frames DEF ReviewServiceStep, OnReviews, Next, DecisionStep, ReviewStep

LEMMA ActionStepped ==
    ASSUME [ServicesNext]_servicesVars
    PROVE  [Implementation!Next]_(Implementation!actionVars)
  BY Frames DEF ActionServiceStep, OnActions, Implementation!Next, actionVars,
     Implementation!actionVars

LEMMA SessionStepped ==
    ASSUME [ServicesNext]_servicesVars
    PROVE  [SP!Next]_(SP!sessionVars)
  <1>1. ASSUME NEW r, NEW u, NEW f, NEW t
        PROVE  /\ SignIn!SignIn(u, f) <=> SP!SignIn(u, f)
               /\ SignIn!Logout(t) <=> SP!Logout(t)
               /\ SignIn!BeginRefresh(r, t) <=> SP!BeginRefresh(r, t)
               /\ SignIn!Consume(r) <=> SP!Consume(r)
               /\ SignIn!ReadUser(r) <=> SP!ReadUser(r)
               /\ SignIn!Sign(r) <=> SP!Sign(r)
               /\ SignIn!Revoke(r) <=> SP!Revoke(r)
               /\ SignIn!BeginReset(r, u) <=> SP!BeginReset(r, u)
               /\ SignIn!UpdatePassword(r) <=> SP!UpdatePassword(r)
    BY DEF SignIn!SignIn, SP!SignIn, SignIn!Logout, SP!Logout, SignIn!BeginRefresh,
       SP!BeginRefresh, SignIn!Consume, SP!Consume, SignIn!ReadUser, SP!ReadUser, SignIn!Sign,
       SP!Sign, SignIn!Revoke, SP!Revoke, SignIn!BeginReset, SP!BeginReset,
       SignIn!UpdatePassword, SP!UpdatePassword, SignIn!NoCall, SP!NoCall, SignIn!Step, SP!Step,
       SignIn!End, SP!End
  <1>2. CASE SessionStep
    BY <1>1, <1>2 DEF SessionStep, OnSessions, SP!Next
  <1> QED
    BY <1>2, Frames DEF sessionVars, SP!sessionVars

LEMMA AccountStepped ==
    ASSUME [ServicesNext]_servicesVars
    PROVE  [Registration!Next]_(Registration!accountVars)
  BY Frames DEF AccountStep, OnAccounts, Registration!Next, accountVars, Registration!accountVars

LEMMA DiscussionStepped ==
    ASSUME [ServicesNext]_servicesVars
    PROVE  [Inbox!Next]_(Inbox!discussionVars)
  BY Frames DEF DiscussionStep, OnDiscussion, Inbox!Next, Inbox!PageStep, discussionVars,
     Inbox!discussionVars

LEMMA ConnectionStepped ==
    ASSUME [ServicesNext]_servicesVars
    PROVE  [Connect!Next]_(Connect!connectionVars)
  BY Frames DEF ConnectionStep, OnConnections, Connect!Next, Connect!TalkStep, connectionVars,
     Connect!connectionVars

LEMMA EvaluationStepped ==
    ASSUME [ServicesNext]_servicesVars
    PROVE  [Scoring!Next]_(Scoring!evaluationVars)
  BY Frames DEF EvaluationStep, OnEvaluation, Scoring!Next, Scoring!FormStep, evaluationVars,
     Scoring!evaluationVars

LEMMA WorkspaceStepped ==
    ASSUME [ServicesNext]_servicesVars
    PROVE  [WP!Next]_(WP!workspaceVars)
  <1>1. ASSUME NEW r, NEW m, NEW u, NEW role
        PROVE Membership!AddMember(r, m, u, role) <=> WP!AddMember(r, m, u, role)
    BY DEF Membership!AddMember, WP!AddMember, Membership!Managers, WP!Managers,
       Membership!Current, WP!Current,
       Membership!CanRemove, WP!CanRemove, Membership!Begin, WP!Begin, Membership!Exists,
       WP!Exists, Membership!Nothing, WP!Nothing, Membership!MemberRoles, WP!MemberRoles,
       Membership!Addable, WP!Addable
  <1>2. ASSUME NEW r, NEW m, NEW n, NEW role
        PROVE Membership!UpdateMemberRole(r, m, n, role) <=> WP!UpdateMemberRole(r, m, n, role)
    BY DEF Membership!UpdateMemberRole, WP!UpdateMemberRole, Membership!Current, WP!Current,
       Membership!CanChangeRole, WP!CanChangeRole, Membership!Begin, WP!Begin,
       Membership!Nothing, WP!Nothing, Membership!MemberRoles, WP!MemberRoles
  <1>3. ASSUME NEW r, NEW m, NEW n
        PROVE Membership!RemoveMember(r, m, n) <=> WP!RemoveMember(r, m, n)
    BY DEF Membership!RemoveMember, WP!RemoveMember, Membership!Current, WP!Current,
       Membership!CanRemove, WP!CanRemove, Membership!Begin, WP!Begin, Membership!Nothing,
       WP!Nothing, Membership!MemberRoles, WP!MemberRoles
  <1>4. ASSUME NEW r, NEW m PROVE Membership!InsertMember(r, m) <=> WP!InsertMember(r, m)
    BY DEF Membership!InsertMember, WP!InsertMember, Membership!Unused, WP!Unused,
       Membership!Addable, WP!Addable,
       Membership!Exists, WP!Exists, Membership!Current, WP!Current, Membership!End, WP!End,
       Membership!Nothing, WP!Nothing, Membership!MemberRoles, WP!MemberRoles
  <1>5. ASSUME NEW r PROVE Membership!InsertConflict(r) <=> WP!InsertConflict(r)
    BY DEF Membership!InsertConflict, WP!InsertConflict, Membership!Addable, WP!Addable,
       Membership!Exists, WP!Exists, Membership!Current, WP!Current, Membership!End, WP!End,
       Membership!Nothing, WP!Nothing, Membership!MemberRoles, WP!MemberRoles
  <1>6. ASSUME NEW r PROVE Membership!WriteRole(r) <=> WP!WriteRole(r)
    BY DEF Membership!WriteRole, WP!WriteRole, Membership!Current, WP!Current, Membership!End,
       WP!End, Membership!Nothing, WP!Nothing, Membership!MemberRoles, WP!MemberRoles
  <1>7. ASSUME NEW r PROVE Membership!DeleteRow(r) <=> WP!DeleteRow(r)
    BY DEF Membership!DeleteRow, WP!DeleteRow, Membership!Removed, WP!Removed, Membership!End,
       WP!End, Membership!Nothing, WP!Nothing, Membership!Current, WP!Current,
       Membership!MemberRoles, WP!MemberRoles
  <1>8. ASSUME NEW u, NEW m PROVE Membership!CreateWorkspace(u, m) <=> WP!CreateWorkspace(u, m)
    BY DEF Membership!CreateWorkspace, WP!CreateWorkspace
  <1>9. Membership!DeleteWorkspace <=> WP!DeleteWorkspace
    BY DEF Membership!DeleteWorkspace, WP!DeleteWorkspace, Membership!Exists, WP!Exists,
       Membership!Removed, WP!Removed, Membership!Current, WP!Current, Membership!MemberRoles,
       WP!MemberRoles
  <1>a. Membership!Assignable = WP!Assignable
    BY DEF Membership!Assignable, WP!Assignable
  <1>b. CASE WorkspaceStep
    BY <1>1, <1>2, <1>3, <1>4, <1>5, <1>6, <1>7, <1>8, <1>9, <1>a, <1>b
       DEF WorkspaceStep, OnWorkspaces, WP!Next, WP!ErrandStep
  <1> QED
    BY <1>b, Frames DEF workspaceVars, WP!workspaceVars

LEMMA RoomStepped ==
    ASSUME [ServicesNext]_servicesVars, service = "room"
    PROVE  [RP!Next]_(RP!meetingVars)
  <1>1. ASSUME NEW c PROVE Room!AcquireLock(c) <=> RP!AcquireLock(c)
    BY DEF Room!AcquireLock, RP!AcquireLock, Room!Nobody, RP!Nobody, Room!Go, RP!Go
  <1>2. ASSUME NEW c PROVE Room!FindStale(c) <=> RP!FindStale(c)
    BY DEF Room!FindStale, RP!FindStale, Room!Stale, RP!Stale
  <1>3. ASSUME NEW c PROVE Room!RemoveStale(c) <=> RP!RemoveStale(c)
    BY DEF Room!RemoveStale, RP!RemoveStale, Room!Remove, RP!Remove, Room!Without, RP!Without,
       Room!Kept, RP!Kept, Room!Off, RP!Off, Room!NoSpeakers, RP!NoSpeakers
  <1>4. ASSUME NEW c PROVE Room!CheckCapacity(c) <=> RP!CheckCapacity(c)
    BY DEF Room!CheckCapacity, RP!CheckCapacity, Room!Off, RP!Off, Room!Cardinality,
       RP!Cardinality, Room!IsFiniteSet, RP!IsFiniteSet
  <1>5. ASSUME NEW c PROVE Room!AddParticipant(c) <=> RP!AddParticipant(c)
    BY DEF Room!AddParticipant, RP!AddParticipant, Room!Kept, RP!Kept, Room!Go, RP!Go,
       Room!NoSpeakers, RP!NoSpeakers
  <1>6. ASSUME NEW c PROVE Room!ReleaseLock(c) <=> RP!ReleaseLock(c)
    BY DEF Room!ReleaseLock, RP!ReleaseLock, Room!Nobody, RP!Nobody, Room!Off, RP!Off
  <1>7. ASSUME NEW c PROVE Room!ReadTimer(c) <=> RP!ReadTimer(c)
    BY DEF Room!ReadTimer, RP!ReadTimer, Room!Go, RP!Go
  <1>8. ASSUME NEW c PROVE Room!DropTimer(c) <=> RP!DropTimer(c)
    BY DEF Room!DropTimer, RP!DropTimer, Room!Go, RP!Go
  <1>9. ASSUME NEW c PROVE Room!Heartbeat(c) <=> RP!Heartbeat(c)
    BY DEF Room!Heartbeat, RP!Heartbeat
  <1>10. ASSUME NEW c PROVE Room!AskToSpeak(c) <=> RP!AskToSpeak(c)
    BY DEF Room!AskToSpeak, RP!AskToSpeak, Room!Permission, RP!Permission, Room!Go, RP!Go
  <1>11. ASSUME NEW c PROVE Room!QueueSpeaker(c) <=> RP!QueueSpeaker(c)
    BY DEF Room!QueueSpeaker, RP!QueueSpeaker, Room!Go, RP!Go
  <1>12. ASSUME NEW c PROVE Room!LeaveQueue(c) <=> RP!LeaveQueue(c)
    BY DEF Room!LeaveQueue, RP!LeaveQueue, Room!Without, RP!Without, Room!NoSpeakers,
       RP!NoSpeakers
  <1>13. ASSUME NEW c PROVE Room!StartTimer(c) <=> RP!StartTimer(c)
    BY DEF Room!StartTimer, RP!StartTimer, Room!Permission, RP!Permission
  <1>14. ASSUME NEW c PROVE Room!CancelTimer(c) <=> RP!CancelTimer(c)
    BY DEF Room!CancelTimer, RP!CancelTimer, Room!Permission, RP!Permission
  <1>15. ASSUME NEW c PROVE Room!Leave(c) <=> RP!Leave(c)
    BY DEF Room!Leave, RP!Leave, Room!Remove, RP!Remove, Room!Without, RP!Without, Room!Kept,
       RP!Kept, Room!Off, RP!Off, Room!NoSpeakers, RP!NoSpeakers
  <1>16. ASSUME NEW c PROVE Room!Die(c) <=> RP!Die(c)
    BY DEF Room!Die, RP!Die, Room!Off, RP!Off
  <1>17. ASSUME NEW u PROVE Room!FallSilent(u) <=> RP!FallSilent(u)
    BY DEF Room!FallSilent, RP!FallSilent
  <1>18. Room!LockExpires <=> RP!LockExpires
    BY DEF Room!LockExpires, RP!LockExpires, Room!Nobody, RP!Nobody, Room!Joining, RP!Joining
  <1>19. Room!TimerEnds <=> RP!TimerEnds
    BY DEF Room!TimerEnds, RP!TimerEnds
  <1>20. Room!KeysExpire <=> RP!KeysExpire
    BY DEF Room!KeysExpire, RP!KeysExpire, Room!NoSpeakers, RP!NoSpeakers
  <1>a. CASE MeetingStep
    BY <1>1, <1>2, <1>3, <1>4, <1>5, <1>6, <1>7, <1>8, <1>9, <1>10, <1>11, <1>12, <1>13,
       <1>14, <1>15, <1>16, <1>17, <1>18, <1>19, <1>20, <1>a DEF MeetingStep, OnMeetings,
       Room!Next, RP!Next
  <1> QED
    BY <1>a, Frames DEF meetingVars, RP!meetingVars

LEMMA QueueStepped ==
    ASSUME [ServicesNext]_servicesVars, service # "room"
    PROVE  [QP!Next]_(QP!meetingVars)
  <1>1. ASSUME NEW c PROVE Queue!AcquireLock(c) <=> QP!AcquireLock(c)
    BY DEF Queue!AcquireLock, QP!AcquireLock, Queue!Nobody, QP!Nobody, Queue!Go, QP!Go
  <1>2. ASSUME NEW c PROVE Queue!FindStale(c) <=> QP!FindStale(c)
    BY DEF Queue!FindStale, QP!FindStale, Queue!Stale, QP!Stale
  <1>3. ASSUME NEW c PROVE Queue!RemoveStale(c) <=> QP!RemoveStale(c)
    BY DEF Queue!RemoveStale, QP!RemoveStale, Queue!Remove, QP!Remove, Queue!Without,
       QP!Without, Queue!Kept, QP!Kept, Queue!Off, QP!Off, Queue!NoSpeakers, QP!NoSpeakers
  <1>4. ASSUME NEW c PROVE Queue!CheckCapacity(c) <=> QP!CheckCapacity(c)
    BY DEF Queue!CheckCapacity, QP!CheckCapacity, Queue!Off, QP!Off, Queue!Cardinality,
       QP!Cardinality, Queue!IsFiniteSet, QP!IsFiniteSet
  <1>5. ASSUME NEW c PROVE Queue!AddParticipant(c) <=> QP!AddParticipant(c)
    BY DEF Queue!AddParticipant, QP!AddParticipant, Queue!Kept, QP!Kept, Queue!Go, QP!Go,
       Queue!NoSpeakers, QP!NoSpeakers
  <1>6. ASSUME NEW c PROVE Queue!ReleaseLock(c) <=> QP!ReleaseLock(c)
    BY DEF Queue!ReleaseLock, QP!ReleaseLock, Queue!Nobody, QP!Nobody, Queue!Off, QP!Off
  <1>7. ASSUME NEW c PROVE Queue!ReadTimer(c) <=> QP!ReadTimer(c)
    BY DEF Queue!ReadTimer, QP!ReadTimer, Queue!Go, QP!Go
  <1>8. ASSUME NEW c PROVE Queue!DropTimer(c) <=> QP!DropTimer(c)
    BY DEF Queue!DropTimer, QP!DropTimer, Queue!Go, QP!Go
  <1>9. ASSUME NEW c PROVE Queue!Heartbeat(c) <=> QP!Heartbeat(c)
    BY DEF Queue!Heartbeat, QP!Heartbeat
  <1>10. ASSUME NEW c PROVE Queue!AskToSpeak(c) <=> QP!AskToSpeak(c)
    BY DEF Queue!AskToSpeak, QP!AskToSpeak, Queue!Permission, QP!Permission, Queue!Go, QP!Go
  <1>11. ASSUME NEW c PROVE Queue!QueueSpeaker(c) <=> QP!QueueSpeaker(c)
    BY DEF Queue!QueueSpeaker, QP!QueueSpeaker, Queue!Go, QP!Go
  <1>12. ASSUME NEW c PROVE Queue!LeaveQueue(c) <=> QP!LeaveQueue(c)
    BY DEF Queue!LeaveQueue, QP!LeaveQueue, Queue!Without, QP!Without, Queue!NoSpeakers,
       QP!NoSpeakers
  <1>13. ASSUME NEW c PROVE Queue!StartTimer(c) <=> QP!StartTimer(c)
    BY DEF Queue!StartTimer, QP!StartTimer, Queue!Permission, QP!Permission
  <1>14. ASSUME NEW c PROVE Queue!CancelTimer(c) <=> QP!CancelTimer(c)
    BY DEF Queue!CancelTimer, QP!CancelTimer, Queue!Permission, QP!Permission
  <1>15. ASSUME NEW c PROVE Queue!Leave(c) <=> QP!Leave(c)
    BY DEF Queue!Leave, QP!Leave, Queue!Remove, QP!Remove, Queue!Without, QP!Without,
       Queue!Kept, QP!Kept, Queue!Off, QP!Off, Queue!NoSpeakers, QP!NoSpeakers
  <1>16. ASSUME NEW c PROVE Queue!Die(c) <=> QP!Die(c)
    BY DEF Queue!Die, QP!Die, Queue!Off, QP!Off
  <1>17. ASSUME NEW u PROVE Queue!FallSilent(u) <=> QP!FallSilent(u)
    BY DEF Queue!FallSilent, QP!FallSilent
  <1>18. Queue!LockExpires <=> QP!LockExpires
    BY DEF Queue!LockExpires, QP!LockExpires, Queue!Nobody, QP!Nobody, Queue!Joining,
       QP!Joining
  <1>19. Queue!TimerEnds <=> QP!TimerEnds
    BY DEF Queue!TimerEnds, QP!TimerEnds
  <1>20. Queue!KeysExpire <=> QP!KeysExpire
    BY DEF Queue!KeysExpire, QP!KeysExpire, Queue!NoSpeakers, QP!NoSpeakers
  <1>a. CASE MeetingStep
    BY <1>1, <1>2, <1>3, <1>4, <1>5, <1>6, <1>7, <1>8, <1>9, <1>10, <1>11, <1>12, <1>13,
       <1>14, <1>15, <1>16, <1>17, <1>18, <1>19, <1>20, <1>a DEF MeetingStep, OnMeetings, QP!Next
  <1> QED
    BY <1>a, Frames DEF meetingVars, QP!meetingVars

--------------------------------------------------------------------------------
(* Every behaviour of the composition is one of each component. *)
THEOREM ComponentSpecs ==
    ServicesSpec => /\ Spec /\ Implementation!Spec /\ SP!Spec /\ Registration!Spec
                    /\ Inbox!Spec /\ WP!Spec /\ Connect!Spec /\ Scoring!Spec
  <1>1. ServicesInit => /\ Init /\ Implementation!Init /\ SP!Init /\ Registration!Init
                        /\ Inbox!Init /\ WP!Init /\ Connect!Init /\ Scoring!Init
    BY DEF ServicesInit, SignIn!Init, SP!Init, SignIn!NoCall, SP!NoCall, Membership!Init, WP!Init,
       Membership!Unused, WP!Unused, Membership!Nothing, WP!Nothing
  <1>2. [ServicesNext]_servicesVars =>
            /\ [Next]_reviewVars
            /\ [Implementation!Next]_(Implementation!actionVars)
            /\ [SP!Next]_(SP!sessionVars)
            /\ [Registration!Next]_(Registration!accountVars)
            /\ [Inbox!Next]_(Inbox!discussionVars)
            /\ [WP!Next]_(WP!workspaceVars)
            /\ [Connect!Next]_(Connect!connectionVars)
            /\ [Scoring!Next]_(Scoring!evaluationVars)
    BY ReviewStepped, ActionStepped, SessionStepped, AccountStepped, DiscussionStepped,
       WorkspaceStepped, ConnectionStepped, EvaluationStepped
  <1> QED
    BY <1>1, <1>2, PTL DEF ServicesSpec, Spec, Implementation!Spec, SP!Spec, Registration!Spec,
       Inbox!Spec, WP!Spec, Connect!Spec, Scoring!Spec

(* A family of refresh tokens never has two that could be exchanged.       *)
THEOREM FamiliesAreLinear == ServicesSpec => []OneLiveTokenPerFamily
  <1>1. SP!Bounds
    BY BoundsAssumption DEF SP!Bounds
  <1>2. SP!OneLiveTokenPerFamily => OneLiveTokenPerFamily
    BY DEF OneLiveTokenPerFamily, SignIn!OneLiveTokenPerFamily, SP!OneLiveTokenPerFamily,
       SignIn!Rotating, SP!Rotating, SP!Cardinality, SignIn!Cardinality, SP!IsFiniteSet,
       SignIn!IsFiniteSet
  <1> QED
    BY <1>1, <1>2, SP!OneLiveToken, ComponentSpecs, PTL

(* The owner keeps the one OWNER membership. *)
THEOREM OwnersStay == ServicesSpec => []OwnerStays
  <1>1. WP!UsersAreUsers
    BY MembersAssumption DEF WP!UsersAreUsers
  <1>2. WP!OwnerStays => OwnerStays
    BY DEF OwnerStays, Membership!OwnerStays, WP!OwnerStays, Membership!Exists, WP!Exists,
       Membership!Current, WP!Current, Membership!MemberRoles, WP!MemberRoles
  <1> QED
    BY <1>1, <1>2, WP!OwnerIsKept, ComponentSpecs, PTL

--------------------------------------------------------------------------------
(* Meetings: the room that is joined and the one in which a queue forms.   *)
MeetingInv == IF service = "room" THEN RP!IInv ELSE QP!IInv

LEMMA RoomsFinite == RP!RoomsAreFinite /\ QP!RoomsAreFinite
  BY RoomsAssumption, DevicesAssumption, BoundsAssumption
     DEF RP!RoomsAreFinite, QP!RoomsAreFinite, RP!Nobody, QP!Nobody, RP!Cardinality,
         QP!Cardinality, Cardinality, RP!IsFiniteSet, QP!IsFiniteSet, IsFiniteSet

LEMMA MeetingsStart ==
    ASSUME ServicesInit
    PROVE  MeetingInv
  <1>1. Room!Init <=> RP!Init
    BY DEF Room!Init, RP!Init, Room!NoSpeakers, RP!NoSpeakers, Room!Kept, RP!Kept, Room!Off,
       RP!Off, Room!Nobody, RP!Nobody
  <1>2. Queue!Init <=> QP!Init
    BY DEF Queue!Init, QP!Init, Queue!NoSpeakers, QP!NoSpeakers, Queue!Kept, QP!Kept, Queue!Off,
       QP!Off, Queue!Nobody, QP!Nobody
  <1> QED
    BY <1>1, <1>2, RoomsFinite, RP!Start, QP!Start DEF ServicesInit, MeetingInv

(* In either room joiners without the lock never exceed the lapses.        *)
THEOREM MeetingsKeepInvariant == ServicesSpec => []MeetingInv
  <1>1. MeetingInv /\ [ServicesNext]_servicesVars => MeetingInv'
    <2> SUFFICES ASSUME MeetingInv, [ServicesNext]_servicesVars PROVE MeetingInv'
      OBVIOUS
    <2>1. UNCHANGED service
      BY Frames
    <2>2. CASE service = "room"
      BY <2>1, <2>2, RoomsFinite, RoomStepped, RP!NextKeeps DEF MeetingInv
    <2>3. CASE service # "room"
      BY <2>1, <2>3, RoomsFinite, QueueStepped, QP!NextKeeps DEF MeetingInv
    <2> QED
      BY <2>2, <2>3
  <1> QED
    BY <1>1, MeetingsStart, PTL DEF ServicesSpec

(* The room exceeds the limit by the lapses of the join lock at most, and  *)
(* a user waits to speak at most once for each connection (join and        *)
(* join_speaking_queue look first and write in a later command).           *)
THEOREM MeetingsKeepLimits == ServicesSpec => []MeetingLimits
  <1>1. MeetingInv => MeetingLimits
    <2>1. ASSUME RP!IInv PROVE Room!CapacityHeld /\ Room!SpeakersBounded
      <3>1. RP!CapacityHeld /\ RP!SpeakersBounded
        BY <2>1, RoomsFinite, RP!LimitsHold
      <3> QED
        BY <3>1 DEF RP!CapacityHeld, Room!CapacityHeld, RP!SpeakersBounded, Room!SpeakersBounded,
           RP!Cardinality, Room!Cardinality, RP!IsFiniteSet, Room!IsFiniteSet
    <2>2. ASSUME QP!IInv PROVE Queue!CapacityHeld /\ Queue!SpeakersBounded
      <3>1. QP!CapacityHeld /\ QP!SpeakersBounded
        BY <2>2, RoomsFinite, QP!LimitsHold
      <3> QED
        BY <3>1 DEF QP!CapacityHeld, Queue!CapacityHeld, QP!SpeakersBounded,
           Queue!SpeakersBounded, QP!Cardinality, Queue!Cardinality, QP!IsFiniteSet,
           Queue!IsFiniteSet
    <2> QED
      BY <2>1, <2>2 DEF MeetingInv, MeetingLimits
  <1> QED
    BY <1>1, MeetingsKeepInvariant, PTL

--------------------------------------------------------------------------------
(* Implementation actions: a request that has read an action finds it      *)
(* again, and every row passes the table's checks.                         *)
ActionInv ==
    /\ Implementation!TypeOK
    /\ \A a \in Actions :
          actions[a] # Implementation!Absent => Implementation!ActionCheck(actions[a])
    /\ \A r \in Requests :
          changes[r] # Implementation!NoChange =>
              changes[r].action \in Actions /\ actions[changes[r].action] # Implementation!Absent

LEMMA ChangeFields ==
    ASSUME ActionInv, NEW r \in Requests
    PROVE  /\ changes[r].op = "Update" =>
                changes[r] \in [op: {"Update"}, action: Actions, assignee: Members]
           /\ changes[r].op = "Transition" =>
                changes[r] \in [op: {"Transition"}, action: Actions,
                                target: Implementation!Active \cup Implementation!Finished]
           /\ changes[r].op \in {"Update", "Transition"} => changes[r] # Implementation!NoChange
  BY DEF ActionInv, Implementation!TypeOK, Implementation!NoChange

LEMMA ActionFields ==
    ASSUME ActionInv, NEW a \in Actions
    PROVE  /\ actions[a] # Implementation!Absent => actions[a] \in Implementation!ActionRow
           /\ actions[a].status \in Implementation!Active \cup Implementation!Finished
                <=> actions[a] # Implementation!Absent
  BY DEF ActionInv, Implementation!TypeOK, Implementation!Absent, Implementation!ActionRow,
     Implementation!Active, Implementation!Finished

LEMMA ActionsStart == Implementation!Init => ActionInv
  BY DEF Implementation!Init, ActionInv, Implementation!TypeOK

LEMMA ChangeBegins ==
    ASSUME ActionInv, NEW r \in Requests, NEW new, Implementation!Begin(r, new),
           UNCHANGED actions,
           \/ new \in [op: {"Update"}, action: Actions, assignee: Members]
           \/ new \in [op: {"Transition"}, action: Actions,
                       target: Implementation!Active \cup Implementation!Finished],
           actions[new.action] # Implementation!Absent
    PROVE  ActionInv'
  <1>1. new.action \in Actions
    OBVIOUS
  <1>2. changes' = [changes EXCEPT ![r] = new]
    BY DEF Implementation!Begin
  <1> QED
    BY <1>1, <1>2 DEF ActionInv, Implementation!TypeOK, Implementation!ActionCheck

(* A write that keeps the row and its checks. *)
LEMMA ActionWritten ==
    ASSUME ActionInv, NEW a \in Actions, NEW row \in Implementation!ActionRow,
           Implementation!ActionCheck(row), actions' = [actions EXCEPT ![a] = row],
           UNCHANGED changes \/ \E r \in Requests : Implementation!End(r)
    PROVE  ActionInv'
  <1>1. row # Implementation!Absent
    BY DEF Implementation!ActionRow, Implementation!Absent, Implementation!Active,
       Implementation!Finished
  <1>2. /\ changes' \in [Requests -> {Implementation!NoChange} \cup {changes[q] : q \in Requests}]
        /\ \A q \in Requests : changes'[q] \in {changes[q], Implementation!NoChange}
    BY DEF ActionInv, Implementation!TypeOK, Implementation!End
  <1>3. Implementation!TypeOK'
    BY <1>2 DEF ActionInv, Implementation!TypeOK
  <1>4. \A b \in Actions : actions'[b] = IF b = a THEN row ELSE actions[b]
    BY DEF ActionInv, Implementation!TypeOK
  <1> QED
    BY <1>1, <1>2, <1>3, <1>4 DEF ActionInv, Implementation!ActionCheck

LEMMA ActionCreated ==
    ASSUME ActionInv, NEW u \in Members, NEW v \in Members, NEW a \in Actions,
           Implementation!CreateAction(u, a, v)
    PROVE  ActionInv' /\ actions[a] = Implementation!Absent
                      /\ \A b \in Actions \ {a} : actions'[b] = actions[b]
  <1>1. PICK row :
            row = [status |-> "TODO", assignee |-> v, completed |-> FALSE, cancelled |-> FALSE]
    OBVIOUS
  <1>2. row \in Implementation!ActionRow /\ Implementation!ActionCheck(row)
    BY <1>1 DEF Implementation!ActionRow, Implementation!ActionCheck, Implementation!Active
  <1>3. /\ actions' = [actions EXCEPT ![a] = row] /\ UNCHANGED changes
        /\ actions[a] = Implementation!Absent
    BY <1>1 DEF Implementation!CreateAction
  <1>4. ActionInv'
    BY <1>2, <1>3, ActionWritten
  <1> QED
    BY <1>3, <1>4 DEF ActionInv, Implementation!TypeOK

LEMMA AssigneeWritten ==
    ASSUME ActionInv, NEW r \in Requests, Implementation!WriteUpdate(r)
    PROVE  ActionInv' /\ \A b \in Actions : actions'[b].status = actions[b].status
  <1>1. PICK a : a = changes[r].action
    OBVIOUS
  <1>2. PICK v : v = changes[r].assignee
    OBVIOUS
  <1>3. a \in Actions /\ v \in Members /\ actions[a] \in Implementation!ActionRow
    <2>1. changes[r].op = "Update"
      BY DEF Implementation!WriteUpdate
    <2>2. actions[a] # Implementation!Absent /\ a \in Actions
      BY <1>1, <2>1, ChangeFields DEF ActionInv
    <2> QED
      BY <1>1, <1>2, <2>1, <2>2, ChangeFields, ActionFields
  <1>4. PICK row : row = [actions[a] EXCEPT !.assignee = v]
    OBVIOUS
  <1>5. /\ row \in Implementation!ActionRow /\ row.status = actions[a].status
        /\ row.completed = actions[a].completed /\ row.cancelled = actions[a].cancelled
    BY <1>3, <1>4 DEF Implementation!ActionRow
  <1>6. Implementation!ActionCheck(row)
    BY <1>3, <1>5, ActionFields, ChangeFields
       DEF ActionInv, Implementation!ActionCheck, Implementation!WriteUpdate,
           Implementation!ActionRow
  <1>7. actions' = [actions EXCEPT ![a] = row] /\ Implementation!End(r)
    BY <1>1, <1>2, <1>4 DEF Implementation!WriteUpdate
  <1>8. ActionInv'
    BY <1>3, <1>5, <1>6, <1>7, ActionWritten
  <1> QED
    BY <1>3, <1>5, <1>7, <1>8 DEF ActionInv, Implementation!TypeOK

(* Moved keeps the timestamp of a finished action, so the check refuses    *)
(* whatever a late request makes of it.                                    *)
LEMMA StatusWritten ==
    ASSUME ActionInv, NEW r \in Requests, Implementation!WriteTransition(r)
    PROVE  /\ ActionInv'
           /\ \A b \in Actions : actions[b].status \in Implementation!Finished =>
                                    actions'[b].status = actions[b].status
  <1>1. PICK a : a = changes[r].action
    OBVIOUS
  <1>2. PICK t : t = changes[r].target
    OBVIOUS
  <1>3. /\ a \in Actions /\ actions[a] \in Implementation!ActionRow
        /\ t \in Implementation!Active \cup Implementation!Finished
        /\ Implementation!ActionCheck(actions[a])
    <2>1. changes[r].op = "Transition"
      BY DEF Implementation!WriteTransition
    <2>2. actions[a] # Implementation!Absent /\ a \in Actions
      BY <1>1, <2>1, ChangeFields DEF ActionInv
    <2> QED
      BY <1>1, <1>2, <2>1, <2>2, ChangeFields, ActionFields DEF ActionInv
  <1>4. PICK row : row = Implementation!Moved(actions[a], t)
    OBVIOUS
  <1>5. /\ row \in Implementation!ActionRow /\ row.status = t
        /\ actions[a].completed => row.completed
        /\ actions[a].cancelled => row.cancelled
    BY <1>3, <1>4 DEF Implementation!Moved, Implementation!ActionRow
  <1>6. /\ actions' = IF Implementation!ActionCheck(row) THEN [actions EXCEPT ![a] = row]
                      ELSE actions
        /\ Implementation!End(r)
    BY <1>1, <1>2, <1>4 DEF Implementation!WriteTransition
  <1>7. CASE Implementation!ActionCheck(row)
    <2>1. ActionInv'
      BY <1>3, <1>5, <1>6, <1>7, ActionWritten
    <2>2. actions[a].status \in Implementation!Finished => row.status = actions[a].status
      BY <1>3, <1>5, <1>7 DEF Implementation!ActionCheck, Implementation!Finished
    <2> QED
      BY <1>3, <1>6, <1>7, <2>1, <2>2 DEF ActionInv, Implementation!TypeOK
  <1>8. CASE ~Implementation!ActionCheck(row)
    <2>1. actions' = actions /\ changes' = [changes EXCEPT ![r] = Implementation!NoChange]
      BY <1>6, <1>8 DEF Implementation!End
    <2>2. ActionInv'
      BY <2>1 DEF ActionInv, Implementation!TypeOK, Implementation!ActionCheck
    <2> QED
      BY <2>1, <2>2
  <1> QED
    BY <1>7, <1>8

LEMMA ActionSteps ==
    ASSUME ActionInv, [Implementation!Next]_(Implementation!actionVars)
    PROVE  /\ ActionInv'
           /\ \A b \in Actions : actions[b].status \in Implementation!Finished =>
                                    actions'[b].status = actions[b].status
  <1>1. CASE UNCHANGED Implementation!actionVars
    BY <1>1 DEF Implementation!actionVars, ActionInv, Implementation!TypeOK,
       Implementation!ActionCheck
  <1>2. ASSUME NEW u \in Members, NEW v \in Members, NEW a \in Actions,
               Implementation!CreateAction(u, a, v)
        PROVE  /\ ActionInv'
               /\ \A b \in Actions : actions[b].status \in Implementation!Finished =>
                                        actions'[b].status = actions[b].status
    BY <1>2, ActionCreated DEF Implementation!Absent, Implementation!Finished
  <1>3. ASSUME NEW r \in Requests, NEW u \in Members, NEW v \in Members, NEW a \in Actions,
               Implementation!UpdateAction(r, u, a, v)
        PROVE  ActionInv' /\ UNCHANGED actions
    <2>1. PICK new : new = [op |-> "Update", action |-> a, assignee |-> v]
      OBVIOUS
    <2>2. new \in [op: {"Update"}, action: Actions, assignee: Members] /\ new.action = a
      BY <2>1
    <2>3. /\ Implementation!Begin(r, new) /\ UNCHANGED actions
          /\ actions[a] # Implementation!Absent
      BY <1>3, <2>1, ActionFields DEF Implementation!UpdateAction
    <2> QED
      BY <2>2, <2>3, ChangeBegins
  <1>4. ASSUME NEW r \in Requests, NEW u \in Members, NEW a \in Actions,
               NEW t \in Implementation!Active \cup Implementation!Finished,
               Implementation!TransitionAction(r, u, a, t)
        PROVE  ActionInv' /\ UNCHANGED actions
    <2>1. PICK new : new = [op |-> "Transition", action |-> a, target |-> t]
      OBVIOUS
    <2>2. /\ new \in [op: {"Transition"}, action: Actions,
                      target: Implementation!Active \cup Implementation!Finished]
          /\ new.action = a
      BY <2>1
    <2>3. /\ Implementation!Begin(r, new) /\ UNCHANGED actions
          /\ actions[a] # Implementation!Absent
      BY <1>4, <2>1, ActionFields DEF Implementation!TransitionAction, Implementation!Transitions
    <2> QED
      BY <2>2, <2>3, ChangeBegins
  <1> QED
    BY <1>1, <1>2, <1>3, <1>4, AssigneeWritten, StatusWritten DEF Implementation!Next

(* A request that has read an action finds it again.                       *)
THEOREM ActionsKeepInvariant == ServicesSpec => []ActionInv
  <1>1. ActionInv /\ [Implementation!Next]_(Implementation!actionVars) => ActionInv'
    BY ActionSteps
  <1> QED
    BY <1>1, ActionsStart, ComponentSpecs, PTL DEF Implementation!Spec

(* Completed and cancelled reviews and actions stay so: requests that read *)
(* them before commit afterwards, and the checks of the tables refuse what *)
(* they write (transition_action, cancel_review, complete_review).         *)
THEOREM FinishedOnce == ServicesSpec => EndsOnce
  <1>1. ActionInv /\ [Implementation!Next]_(Implementation!actionVars) => ActionInv'
    BY ActionSteps
  <1>2. ActionInv /\ [Implementation!Next]_(Implementation!actionVars) =>
            [\A a \in Actions : actions[a].status \in Implementation!Finished =>
                actions'[a].status = actions[a].status]_(Implementation!actionVars)
    BY ActionSteps
  <1>3. Implementation!Spec => Implementation!ActionEndsOnce
    BY <1>1, <1>2, ActionsStart, PTL DEF Implementation!Spec, Implementation!ActionEndsOnce
  <1> QED
    BY <1>3, ReviewsEnd, ComponentSpecs, PTL DEF EndsOnce

--------------------------------------------------------------------------------
(* Connections: who tests or disconnects has read credentials that could   *)
(* be used, and whoever has read a row finds it again.                     *)
ConnectionInv ==
    /\ Connect!TypeOK
    /\ Connect!ActiveHasToken
    /\ \A r \in Requests :
          /\ talks[r].op \in {"Test", "Disconnect", "MarkRevoked"} => Connect!Usable(talks[r].seen)
          /\ talks[r].op = "Upsert" /\ talks[r].seen # Connect!Absent
                => connections[talks[r].account] # Connect!Absent

Seeing == [op: {"Upsert", "Test", "Disconnect", "MarkRevoked"}, account: ProviderAccounts,
           seen: Connect!Connection \cup {Connect!Absent}]

Asking == [op: {"ReadSubscriptions"}, account: ProviderAccounts, set: Connect!Subscription,
           kinds: SUBSET EventTypes]

Setting == [op: {"WriteSubscriptions"}, account: ProviderAccounts, set: Connect!Subscription,
            kinds: SUBSET EventTypes, rows: [EventTypes -> Connect!Subscription]]

LEMMA TalkFields ==
    ASSUME NEW q \in Connect!Talk
    PROVE  /\ q.op = "None" => q = Connect!Silent
           /\ q.op = "ReadConnection" => q \in [op: {"ReadConnection"}, account: ProviderAccounts]
           /\ q.op \in {"Upsert", "Test", "Disconnect", "MarkRevoked"} => q \in Seeing
           /\ q.op = "ReadSubscriptions" => q \in Asking
           /\ q.op = "WriteSubscriptions" => q \in Setting
  BY DEF Connect!Talk, Connect!Silent, Seeing, Asking, Setting

LEMMA TalkKinds ==
    /\ Connect!Silent \in Connect!Talk /\ Connect!Silent.op = "None"
    /\ [op |-> "Exchange"] \in Connect!Talk
    /\ [op: {"ReadConnection"}, account: ProviderAccounts] \subseteq Connect!Talk
    /\ Seeing \subseteq Connect!Talk /\ Asking \subseteq Connect!Talk
    /\ Setting \subseteq Connect!Talk
  BY DEF Connect!Talk, Connect!Silent, Seeing, Asking, Setting

LEMMA RowUsable ==
    ASSUME NEW row \in Connect!Connection \cup {Connect!Absent}
    PROVE  /\ row = [status |-> row.status, token |-> row.token]
           /\ row.status \in {"NONE", "ACTIVE", "REVOKED"} /\ row.token \in BOOLEAN
           /\ row # Connect!Absent <=> row \in Connect!Connection
           /\ row.status = "NONE" <=> row = Connect!Absent
           /\ Connect!Usable(row) => row.status = "ACTIVE" /\ row.token
  <1>1. CASE row \in Connect!Connection
    BY <1>1 DEF Connect!Connection, Connect!Absent, Connect!Usable
  <1>2. CASE row = Connect!Absent
    BY <1>2 DEF Connect!Connection, Connect!Absent, Connect!Usable
  <1> QED
    BY <1>1, <1>2

LEMMA ConnectionsStart == Connect!Init => ConnectionInv
  BY DEF Connect!Init, ConnectionInv, Connect!TypeOK, Connect!ActiveHasToken, Connect!OAuthState,
     Connect!Subscription, Connect!Absent, Connect!Silent, Connect!Talk

(* A request goes on and writes no connection. *)
LEMMA TalkGoes ==
    ASSUME ConnectionInv, NEW r \in Requests, NEW q \in Connect!Talk,
           talks' = [talks EXCEPT ![r] = q], UNCHANGED connections,
           oauth' \in [States -> Connect!OAuthState],
           subscriptions' \in [ProviderAccounts -> [EventTypes -> Connect!Subscription]],
           granted' \in [ProviderAccounts -> BOOLEAN],
           q.op \in {"Test", "Disconnect", "MarkRevoked"} => Connect!Usable(q.seen),
           q.op = "Upsert" /\ q.seen # Connect!Absent => connections[q.account] # Connect!Absent
    PROVE  ConnectionInv'
  <1>1. Connect!TypeOK'
    BY DEF ConnectionInv, Connect!TypeOK
  <1>2. \A p \in Requests : talks'[p] = IF p = r THEN q ELSE talks[p]
    BY DEF ConnectionInv, Connect!TypeOK
  <1> QED
    BY <1>1, <1>2 DEF ConnectionInv, Connect!ActiveHasToken, Connect!Usable

(* A connection is written and the request ends or goes on to subscriptions. *)
LEMMA ConnectionWritten ==
    ASSUME ConnectionInv, NEW r \in Requests, NEW q \in Connect!Talk,
           q.op \in {"None", "ReadSubscriptions"}, talks' = [talks EXCEPT ![r] = q],
           NEW a \in ProviderAccounts, NEW row \in Connect!Connection \cup {Connect!Absent},
           connections' = [connections EXCEPT ![a] = row],
           row.status = "ACTIVE" => row.token,
           connections[a] # Connect!Absent => row # Connect!Absent,
           UNCHANGED <<oauth, subscriptions, granted>>
    PROVE  ConnectionInv'
  <1>1. Connect!TypeOK'
    BY DEF ConnectionInv, Connect!TypeOK
  <1>2. /\ \A p \in Requests : talks'[p] = IF p = r THEN q ELSE talks[p]
        /\ \A b \in ProviderAccounts : connections'[b] = IF b = a THEN row ELSE connections[b]
    BY DEF ConnectionInv, Connect!TypeOK
  <1>3. Connect!ActiveHasToken'
    BY <1>2 DEF ConnectionInv, Connect!ActiveHasToken
  <1>4. \A p \in Requests : talks[p].op = "Upsert" => talks[p].account \in ProviderAccounts
    BY TalkFields DEF ConnectionInv, Connect!TypeOK, Seeing
  <1> QED
    BY <1>1, <1>2, <1>3, <1>4 DEF ConnectionInv, Connect!Usable

LEMMA StateKeeps ==
    ASSUME ConnectionInv, NEW s \in States, Connect!Authorize(s) \/ Connect!DropState(s)
    PROVE  ConnectionInv'
  <1>1. /\ oauth' \in [States -> Connect!OAuthState]
        /\ UNCHANGED <<connections, subscriptions, granted, talks>>
    BY DEF Connect!Authorize, Connect!DropState, ConnectionInv, Connect!TypeOK, Connect!OAuthState
  <1> QED
    BY <1>1 DEF ConnectionInv, Connect!TypeOK, Connect!ActiveHasToken, Connect!Usable

LEMMA AuthorizationKeeps ==
    ASSUME ConnectionInv, NEW r \in Requests,
           \/ \E s \in States : Connect!CompleteAuthorization(r, s)
           \/ \E a \in ProviderAccounts : Connect!ExchangeCode(r, a)
           \/ Connect!ReadConnection(r)
    PROVE  ConnectionInv'
  <1>0. /\ oauth \in [States -> Connect!OAuthState] /\ granted \in [ProviderAccounts -> BOOLEAN]
        /\ subscriptions \in [ProviderAccounts -> [EventTypes -> Connect!Subscription]]
        /\ talks[r] \in Connect!Talk
    BY DEF ConnectionInv, Connect!TypeOK
  <1>1. CASE \E s \in States : Connect!CompleteAuthorization(r, s)
    <2>1. PICK q : q = [op |-> "Exchange"]
      OBVIOUS
    <2>2. /\ talks' = [talks EXCEPT ![r] = q] /\ oauth' \in [States -> Connect!OAuthState]
          /\ UNCHANGED <<connections, subscriptions, granted>>
      BY <1>0, <1>1, <2>1 DEF Connect!CompleteAuthorization, Connect!Consume, Connect!Begin,
         Connect!OAuthState
    <2>3. q \in Connect!Talk /\ q.op = "Exchange"
      BY <2>1, TalkKinds
    <2> QED
      BY <1>0, <2>2, <2>3, TalkGoes
  <1>2. ASSUME NEW a \in ProviderAccounts, Connect!ExchangeCode(r, a) PROVE ConnectionInv'
    <2>1. PICK q : q = [op |-> "ReadConnection", account |-> a]
      OBVIOUS
    <2>2. /\ talks' = [talks EXCEPT ![r] = q] /\ granted' \in [ProviderAccounts -> BOOLEAN]
          /\ UNCHANGED <<oauth, connections, subscriptions>>
      BY <1>0, <1>2, <2>1 DEF Connect!ExchangeCode, Connect!Continue
    <2>3. q \in Connect!Talk /\ q.op = "ReadConnection"
      BY <2>1, TalkKinds
    <2> QED
      BY <1>0, <2>2, <2>3, TalkGoes
  <1>3. CASE Connect!ReadConnection(r)
    <2>1. PICK a : a = talks[r].account
      OBVIOUS
    <2>2. a \in ProviderAccounts
      BY <1>0, <1>3, <2>1, TalkFields DEF Connect!ReadConnection, Connect!Doing
    <2>3. PICK q : q = [op |-> "Upsert", account |-> a, seen |-> connections[a]]
      OBVIOUS
    <2>4. /\ talks' = [talks EXCEPT ![r] = q]
          /\ UNCHANGED <<oauth, connections, subscriptions, granted>>
      BY <1>3, <2>1, <2>3 DEF Connect!ReadConnection, Connect!Continue
    <2>5. q \in Seeing /\ q.op = "Upsert" /\ q.account = a /\ q.seen = connections[a]
      BY <2>2, <2>3 DEF Seeing, ConnectionInv, Connect!TypeOK
    <2> QED
      BY <1>0, <2>4, <2>5, TalkGoes, TalkKinds
  <1> QED
    BY <1>1, <1>2, <1>3

LEMMA UpsertKeeps ==
    ASSUME ConnectionInv, NEW r \in Requests, Connect!UpsertConnection(r)
    PROVE  ConnectionInv'
  <1>1. PICK a : a = talks[r].account
    OBVIOUS
  <1>2. PICK seen : seen = talks[r].seen
    OBVIOUS
  <1>3. /\ talks[r].op = "Upsert" /\ talks[r] \in Seeing /\ a \in ProviderAccounts
        /\ seen \in Connect!Connection \cup {Connect!Absent}
        /\ connections[a] \in Connect!Connection \cup {Connect!Absent}
    <2>1. talks[r].op = "Upsert" /\ talks[r] \in Seeing
      BY TalkFields DEF Connect!UpsertConnection, Connect!Doing, ConnectionInv, Connect!TypeOK
    <2> QED
      BY <1>1, <1>2, <2>1 DEF Seeing, ConnectionInv, Connect!TypeOK
  <1>4. PICK status : status = Connect!Rewritten(connections[a].status, seen.status, "ACTIVE")
    OBVIOUS
  <1>5. PICK row : row = [status |-> status, token |-> TRUE]
    OBVIOUS
  <1>6. PICK q : q = [op |-> "ReadSubscriptions", account |-> a, set |-> "NONE",
                      kinds |-> EventTypes]
    OBVIOUS
  <1>7. /\ connections' = [connections EXCEPT ![a] = row] /\ talks' = [talks EXCEPT ![r] = q]
        /\ UNCHANGED <<oauth, subscriptions, granted>>
        /\ ~(seen = Connect!Absent /\ connections[a] # Connect!Absent)
    BY <1>1, <1>2, <1>3, <1>4, <1>5, <1>6
       DEF Connect!UpsertConnection, Connect!Conflict, Connect!Continue, ConnectionInv,
           Connect!TypeOK
  <1>8. status \in {"ACTIVE", "REVOKED"}
    <2>1. CASE seen = Connect!Absent
      BY <1>4, <2>1 DEF Connect!Rewritten, Connect!Absent
    <2>2. CASE seen # Connect!Absent
      <3>1. connections[a] # Connect!Absent
        BY <1>1, <1>2, <1>3, <2>2 DEF ConnectionInv
      <3>2. connections[a].status \in {"ACTIVE", "REVOKED"}
        BY <1>3, <3>1 DEF Connect!Connection
      <3> QED
        BY <1>4, <3>2 DEF Connect!Rewritten
    <2> QED
      BY <2>1, <2>2
  <1>9. row \in Connect!Connection /\ row.token /\ row # Connect!Absent
    BY <1>5, <1>8, RowUsable DEF Connect!Connection
  <1>10. q \in Asking /\ q.op = "ReadSubscriptions"
    BY <1>3, <1>6 DEF Asking, Connect!Subscription
  <1> QED
    BY <1>3, <1>7, <1>9, <1>10, ConnectionWritten, TalkKinds

LEMMA SubscriptionsKeep ==
    ASSUME ConnectionInv, NEW r \in Requests,
           \/ \E a \in ProviderAccounts :
                \/ Connect!ListSubscriptions(r, a)
                \/ \E k \in EventTypes, v \in {"DISABLED", "ENABLED"} :
                      Connect!UpdateSubscriptions(r, a, k, v)
           \/ Connect!ReadSubscriptions(r)
    PROVE  ConnectionInv'
  <1>0. /\ oauth \in [States -> Connect!OAuthState] /\ granted \in [ProviderAccounts -> BOOLEAN]
        /\ subscriptions \in [ProviderAccounts -> [EventTypes -> Connect!Subscription]]
        /\ talks[r] \in Connect!Talk
    BY DEF ConnectionInv, Connect!TypeOK
  <1>1. ASSUME NEW a \in ProviderAccounts, NEW set \in Connect!Subscription,
               NEW kinds \in SUBSET EventTypes,
               Connect!Begin(r, [op |-> "ReadSubscriptions", account |-> a, set |-> set,
                                 kinds |-> kinds]),
               UNCHANGED <<oauth, connections, subscriptions, granted>>
        PROVE  ConnectionInv'
    <2>1. PICK q : q = [op |-> "ReadSubscriptions", account |-> a, set |-> set, kinds |-> kinds]
      OBVIOUS
    <2>2. q \in Asking /\ q.op = "ReadSubscriptions"
      BY <2>1 DEF Asking
    <2>3. talks' = [talks EXCEPT ![r] = q]
      BY <1>1, <2>1 DEF Connect!Begin
    <2> QED
      BY <1>0, <1>1, <2>2, <2>3, TalkGoes, TalkKinds
  <1>2. ASSUME NEW a \in ProviderAccounts, Connect!ListSubscriptions(r, a) PROVE ConnectionInv'
    BY <1>1, <1>2 DEF Connect!ListSubscriptions, Connect!Subscription
  <1>3. ASSUME NEW a \in ProviderAccounts, NEW k \in EventTypes, NEW v \in {"DISABLED", "ENABLED"},
               Connect!UpdateSubscriptions(r, a, k, v)
        PROVE  ConnectionInv'
    <2>1. v \in Connect!Subscription /\ {k} \in SUBSET EventTypes
      BY DEF Connect!Subscription
    <2> QED
      BY <1>1, <1>3, <2>1 DEF Connect!UpdateSubscriptions
  <1>4. CASE Connect!ReadSubscriptions(r)
    <2>1. talks[r] \in Asking
      BY <1>0, <1>4, TalkFields DEF Connect!ReadSubscriptions, Connect!Doing
    <2>2. PICK q : q = [op |-> "WriteSubscriptions", account |-> talks[r].account,
                        set |-> talks[r].set, kinds |-> talks[r].kinds,
                        rows |-> subscriptions[talks[r].account]]
      OBVIOUS
    <2>3. q \in Setting /\ q.op = "WriteSubscriptions"
      BY <1>0, <2>1, <2>2 DEF Asking, Setting
    <2>4. /\ talks' = [talks EXCEPT ![r] = q]
          /\ UNCHANGED <<oauth, connections, subscriptions, granted>>
      BY <1>4, <2>2 DEF Connect!ReadSubscriptions, Connect!Continue
    <2> QED
      BY <1>0, <2>3, <2>4, TalkGoes, TalkKinds
  <1> QED
    BY <1>2, <1>3, <1>4

LEMMA SubscriptionsWritten ==
    ASSUME ConnectionInv, NEW r \in Requests, Connect!WriteSubscriptions(r)
    PROVE  ConnectionInv'
  <1>0. /\ oauth \in [States -> Connect!OAuthState] /\ granted \in [ProviderAccounts -> BOOLEAN]
        /\ subscriptions \in [ProviderAccounts -> [EventTypes -> Connect!Subscription]]
        /\ talks[r] \in Setting
    BY TalkFields DEF ConnectionInv, Connect!TypeOK, Connect!WriteSubscriptions, Connect!Doing
  <1> DEFINE q == talks[r]
             missing == {k \in q.kinds : q.rows[k] = "NONE"}
             default == IF q.set = "NONE" THEN "DISABLED" ELSE q.set
             written == [k \in EventTypes |->
                CASE k \in missing -> default
                  [] k \in q.kinds \ missing /\ q.set # "NONE" ->
                        Connect!Rewritten(subscriptions[q.account][k], q.rows[k], q.set)
                  [] OTHER -> subscriptions[q.account][k]]
  <1>1. /\ subscriptions' \in {subscriptions, [subscriptions EXCEPT ![q.account] = written]}
        /\ Connect!End(r) /\ UNCHANGED <<oauth, connections, granted>>
    BY DEF Connect!WriteSubscriptions
  <1>2. q.account \in ProviderAccounts /\ q.set \in Connect!Subscription
    BY <1>0 DEF Setting
  <1>3. written \in [EventTypes -> Connect!Subscription]
    <2> SUFFICES ASSUME NEW k \in EventTypes PROVE written[k] \in Connect!Subscription
      OBVIOUS
    <2>1. subscriptions[q.account][k] \in Connect!Subscription
      BY <1>0, <1>2
    <2>2. default \in Connect!Subscription
      BY <1>2 DEF Connect!Subscription
    <2>3. Connect!Rewritten(subscriptions[q.account][k], q.rows[k], q.set) \in Connect!Subscription
      BY <1>2, <2>1 DEF Connect!Rewritten
    <2> QED
      BY <2>1, <2>2, <2>3
  <1> HIDE DEF written, q
  <1>4. subscriptions' \in [ProviderAccounts -> [EventTypes -> Connect!Subscription]]
    BY <1>0, <1>1, <1>2, <1>3
  <1>5. talks' = [talks EXCEPT ![r] = Connect!Silent]
    BY <1>1 DEF Connect!End
  <1> QED
    BY <1>0, <1>1, <1>4, <1>5, TalkGoes, TalkKinds

(* A test and a disconnection: whoever has read usable credentials writes  *)
(* no status but REVOKED, and never without dropping the token.            *)
LEMMA ErrandsKeep ==
    ASSUME ConnectionInv, NEW r \in Requests,
           \/ \E a \in ProviderAccounts : Connect!SendTest(r, a) \/ Connect!Disconnect(r, a)
           \/ Connect!MarkVerified(r) \/ Connect!Revoke(r) \/ Connect!MarkRevoked(r)
           \/ Connect!TalkFails(r)
    PROVE  ConnectionInv'
  <1>0. /\ oauth \in [States -> Connect!OAuthState] /\ granted \in [ProviderAccounts -> BOOLEAN]
        /\ subscriptions \in [ProviderAccounts -> [EventTypes -> Connect!Subscription]]
        /\ connections \in [ProviderAccounts -> Connect!Connection \cup {Connect!Absent}]
        /\ talks[r] \in Connect!Talk
    BY DEF ConnectionInv, Connect!TypeOK
  <1>1. ASSUME NEW a \in ProviderAccounts, NEW op \in {"Test", "Disconnect", "MarkRevoked"},
               NEW seen \in Connect!Connection \cup {Connect!Absent}, Connect!Usable(seen),
               talks' = [talks EXCEPT ![r] = [op |-> op, account |-> a, seen |-> seen]],
               granted' \in [ProviderAccounts -> BOOLEAN],
               UNCHANGED <<oauth, connections, subscriptions>>
        PROVE  ConnectionInv'
    <2>1. PICK q : q = [op |-> op, account |-> a, seen |-> seen]
      OBVIOUS
    <2>2. q \in Seeing /\ q.op = op /\ q.seen = seen
      BY <2>1 DEF Seeing
    <2> QED
      BY <1>0, <1>1, <2>1, <2>2, TalkGoes, TalkKinds
  <1>2. ASSUME NEW a \in ProviderAccounts, Connect!SendTest(r, a) \/ Connect!Disconnect(r, a)
        PROVE  ConnectionInv'
    BY <1>0, <1>1, <1>2 DEF Connect!SendTest, Connect!Disconnect, Connect!Begin
  <1>3. ASSUME talks[r].op \in {"Test", "Disconnect", "MarkRevoked"}
        PROVE  /\ talks[r].account \in ProviderAccounts /\ Connect!Usable(talks[r].seen)
               /\ talks[r].seen \in Connect!Connection \cup {Connect!Absent}
               /\ talks[r].seen.status = "ACTIVE" /\ talks[r].seen.token
    <2>1. talks[r] \in Seeing /\ Connect!Usable(talks[r].seen)
      BY <1>0, <1>3, TalkFields DEF ConnectionInv
    <2> QED
      BY <2>1, RowUsable DEF Seeing
  <1>4. CASE Connect!Revoke(r)
    <2>1. PICK a : a = talks[r].account
      OBVIOUS
    <2>2. PICK seen : seen = talks[r].seen
      OBVIOUS
    <2>3. /\ talks' = [talks EXCEPT ![r] = [op |-> "MarkRevoked", account |-> a, seen |-> seen]]
          /\ granted' = [granted EXCEPT ![a] = FALSE] /\ talks[r].op = "Disconnect"
          /\ UNCHANGED <<oauth, connections, subscriptions>>
      BY <1>4, <2>1, <2>2 DEF Connect!Revoke, Connect!Continue, Connect!Doing
    <2> QED
      BY <1>0, <1>1, <1>3, <2>1, <2>2, <2>3
  <1>5. CASE Connect!TalkFails(r)
    <2>1. /\ talks' = [talks EXCEPT ![r] = Connect!Silent]
          /\ UNCHANGED <<oauth, connections, subscriptions, granted>>
      BY <1>5 DEF Connect!TalkFails, Connect!End
    <2> QED
      BY <1>0, <2>1, TalkGoes, TalkKinds
  <1>6. CASE Connect!MarkVerified(r)
    <2>1. PICK a : a = talks[r].account
      OBVIOUS
    <2>2. /\ talks' = [talks EXCEPT ![r] = Connect!Silent] /\ talks[r].op = "Test"
          /\ UNCHANGED <<oauth, subscriptions, granted>>
      BY <1>6 DEF Connect!MarkVerified, Connect!End, Connect!Doing
    <2>3. PICK row : row = connections[a]
      OBVIOUS
    <2>4. a \in ProviderAccounts /\ row \in Connect!Connection \cup {Connect!Absent}
      BY <1>0, <1>3, <2>1, <2>2, <2>3
    <2>5. [row EXCEPT !.status = row.status] = row
      BY <2>4 DEF Connect!Connection, Connect!Absent
    <2>6. connections' = [connections EXCEPT ![a] = row]
      <3>1. Connect!Rewritten(row.status, talks[r].seen.status, "ACTIVE") = row.status
        BY <1>3, <2>2 DEF Connect!Rewritten
      <3>2. connections' = [connections EXCEPT ![a] = [row EXCEPT !.status = row.status]]
        BY <1>0, <1>6, <2>1, <2>3, <2>4, <3>1 DEF Connect!MarkVerified
      <3> QED
        BY <2>5, <3>2
    <2>7. /\ row.status = "ACTIVE" => row.token
          /\ connections[a] # Connect!Absent => row # Connect!Absent
      BY <2>3, <2>4 DEF ConnectionInv, Connect!ActiveHasToken
    <2> QED
      BY <2>2, <2>4, <2>6, <2>7, ConnectionWritten, TalkKinds
  <1>7. CASE Connect!MarkRevoked(r)
    <2>1. PICK a : a = talks[r].account
      OBVIOUS
    <2>2. PICK row : row = [status |-> "REVOKED", token |-> FALSE]
      OBVIOUS
    <2>3. /\ talks' = [talks EXCEPT ![r] = Connect!Silent] /\ talks[r].op = "MarkRevoked"
          /\ UNCHANGED <<oauth, subscriptions, granted>>
      BY <1>7 DEF Connect!MarkRevoked, Connect!End, Connect!Doing
    <2>4. talks[r].seen.status = "ACTIVE" /\ talks[r].seen.token = TRUE
      <3>1. talks[r].seen.token \in BOOLEAN /\ talks[r].seen.token
        BY <1>3, <2>3, RowUsable
      <3> QED
        BY <1>3, <2>3, <3>1
    <2>5. connections' = [connections EXCEPT ![a] = row]
      BY <1>7, <2>1, <2>2, <2>4 DEF Connect!MarkRevoked, Connect!Rewritten
    <2>6. row \in Connect!Connection /\ row.status = "REVOKED" /\ row # Connect!Absent
      BY <2>2 DEF Connect!Connection, Connect!Absent
    <2> QED
      BY <1>3, <2>1, <2>3, <2>5, <2>6, ConnectionWritten, TalkKinds
  <1> QED
    BY <1>2, <1>4, <1>5, <1>6, <1>7

(* Requests that test or disconnect always hold credentials that could be  *)
(* used when they were read.                                               *)
THEOREM ConnectionsKeepInvariant == ServicesSpec => []ConnectionInv
  <1>1. ConnectionInv /\ [Connect!Next]_(Connect!connectionVars) => ConnectionInv'
    <2> SUFFICES ASSUME ConnectionInv, [Connect!Next]_(Connect!connectionVars)
                 PROVE  ConnectionInv'
      OBVIOUS
    <2>1. CASE UNCHANGED Connect!connectionVars
      BY <2>1 DEF Connect!connectionVars, ConnectionInv, Connect!TypeOK, Connect!ActiveHasToken,
         Connect!Usable
    <2>2. ASSUME NEW r \in Requests, Connect!TalkStep(r) PROVE ConnectionInv'
      BY <2>2, AuthorizationKeeps, UpsertKeeps, SubscriptionsKeep, SubscriptionsWritten,
         ErrandsKeep DEF Connect!TalkStep
    <2> QED
      BY <2>1, <2>2, StateKeeps DEF Connect!Next
  <1> QED
    BY <1>1, ConnectionsStart, ComponentSpecs, PTL DEF Connect!Spec

(* An active connection holds credentials, although tests, reconnections   *)
(* and disconnections commit over one another (mark_verified,              *)
(* upsert_connection, disconnect).                                         *)
THEOREM ActiveConnectionsHaveTokens == ServicesSpec => []ActiveHasToken
  <1>1. ConnectionInv => ActiveHasToken
    BY DEF ConnectionInv, ActiveHasToken
  <1> QED
    BY <1>1, ConnectionsKeepInvariant, PTL

--------------------------------------------------------------------------------
(* Accounts: whoever signed in has an account, and identities and users    *)
(* belong to each other one to one.                                        *)
AccountInv ==
    /\ Registration!TypeOK
    /\ signedIn \subseteq {<<a.subject, a.email>> : a \in accounts}
    /\ \A a, b \in accounts : a.subject = b.subject <=> a.email = b.email

Mailing == [at: {"CreateUser", "MarkVerified", "ResetPassword"}, email: Emails]

Issuing == [at: {"GetPrevious"}, email: Emails, purpose: Registration!Purposes]

Sending == [at: {"DropPrevious", "SetToken", "SetCurrent"}, email: Emails,
            purpose: Registration!Purposes, link: Links,
            previous: Links \cup {Registration!NoLink}]

Linking == [at: {"ReadEmail", "LinkUser", "InsertUser"}, subject: Subjects, email: Emails]

LEMMA TaskKinds ==
    Registration!Task = {Registration!NoTask} \cup Mailing \cup Issuing \cup Sending \cup Linking
  BY DEF Registration!Task, Mailing, Issuing, Sending, Linking

LEMMA TaskFields ==
    ASSUME AccountInv, NEW r \in Requests
    PROVE  /\ tasks[r].at \in {"CreateUser", "MarkVerified", "ResetPassword"}
                => tasks[r] \in Mailing
           /\ tasks[r].at = "GetPrevious" => tasks[r] \in Issuing
           /\ tasks[r].at \in {"DropPrevious", "SetToken", "SetCurrent"} => tasks[r] \in Sending
           /\ tasks[r].at \in {"ReadEmail", "LinkUser", "InsertUser"} => tasks[r] \in Linking
  BY TaskKinds DEF AccountInv, Registration!TypeOK, Registration!NoTask, Mailing, Issuing,
     Sending, Linking

LEMMA AccountsStart == Registration!Init => AccountInv
  <1> SUFFICES ASSUME Registration!Init PROVE AccountInv
    OBVIOUS
  <1>1. users \in [Emails -> Registration!User]
    BY DEF Registration!Init, Registration!User
  <1>2. current \in [Emails -> [Registration!Purposes -> Links \cup {Registration!NoLink}]]
    BY DEF Registration!Init
  <1>3. tasks \in [Requests -> Registration!Task]
    BY TaskKinds DEF Registration!Init
  <1>4. links = {} /\ sent = {} /\ accounts = {} /\ signedIn = {}
    BY DEF Registration!Init
  <1> QED
    BY <1>1, <1>2, <1>3, <1>4 DEF AccountInv, Registration!TypeOK

(* A request goes on to the task t and leaves accounts and sign-ins alone. *)
LEMMA TaskGoesOn ==
    ASSUME AccountInv, NEW r \in Requests, NEW t \in Registration!Task,
           tasks' = [tasks EXCEPT ![r] = t],
           users' \in [Emails -> Registration!User],
           links' \subseteq Registration!Link,
           current' \in [Emails -> [Registration!Purposes -> Links \cup {Registration!NoLink}]],
           sent' \subseteq Links,
           UNCHANGED <<accounts, signedIn>>
    PROVE  AccountInv'
  <1>1. tasks' \in [Requests -> Registration!Task]
    BY DEF AccountInv, Registration!TypeOK
  <1> QED
    BY <1>1 DEF AccountInv, Registration!TypeOK, Registration!Task, Registration!NoTask,
       Registration!Purposes, Registration!NoLink, Registration!User, Registration!Link,
       Registration!Account

LEMMA RegistrationKeeps ==
    ASSUME AccountInv, NEW r \in Requests,
           \/ \E e \in Emails : Registration!BeginRegister(r, e)
           \/ Registration!CreateUser(r)
           \/ \E e \in Emails, p \in Registration!Purposes : Registration!BeginIssue(r, e, p)
           \/ Registration!MarkVerified(r)
           \/ Registration!ResetPassword(r)
    PROVE  AccountInv'
  <1>1. ASSUME NEW e \in Emails, Registration!BeginRegister(r, e) PROVE AccountInv'
    <2>1. PICK t : t = [at |-> "CreateUser", email |-> e]
      OBVIOUS
    <2>2. t \in Registration!Task
      BY <2>1, TaskKinds DEF Mailing
    <2> QED
      BY <1>1, <2>1, <2>2, TaskGoesOn DEF Registration!BeginRegister, AccountInv,
         Registration!TypeOK
  <1>2. CASE Registration!CreateUser(r)
    <2>1. tasks[r].email \in Emails
      BY <1>2, TaskFields DEF Registration!CreateUser, Mailing
    <2>2. PICK t : t = [at |-> "GetPrevious", email |-> tasks[r].email,
                        purpose |-> "email-verification"]
      OBVIOUS
    <2>3. t \in Registration!Task /\ Registration!NoTask \in Registration!Task
      BY <2>1, <2>2, TaskKinds DEF Issuing, Registration!Purposes
    <2>4. users' \in [Emails -> Registration!User]
      BY <1>2 DEF Registration!CreateUser, AccountInv, Registration!TypeOK, Registration!User
    <2>5. \/ tasks' = [tasks EXCEPT ![r] = t]
          \/ tasks' = [tasks EXCEPT ![r] = Registration!NoTask]
      BY <1>2, <2>2 DEF Registration!CreateUser, Registration!End
    <2>6. UNCHANGED <<links, current, sent, accounts, signedIn>>
      BY <1>2 DEF Registration!CreateUser
    <2> QED
      BY <2>3, <2>4, <2>5, <2>6, TaskGoesOn DEF AccountInv, Registration!TypeOK
  <1>3. ASSUME NEW e \in Emails, NEW p \in Registration!Purposes,
               Registration!BeginIssue(r, e, p)
        PROVE  AccountInv'
    <2>1. PICK t : t = [at |-> "GetPrevious", email |-> e, purpose |-> p]
      OBVIOUS
    <2>2. t \in Registration!Task
      BY <2>1, TaskKinds DEF Issuing
    <2> QED
      BY <1>3, <2>1, <2>2, TaskGoesOn DEF Registration!BeginIssue, AccountInv,
         Registration!TypeOK
  <1>4. CASE Registration!MarkVerified(r)
    <2>1. users' \in [Emails -> Registration!User]
      BY <1>4 DEF Registration!MarkVerified, AccountInv, Registration!TypeOK, Registration!User
    <2> QED
      BY <1>4, <2>1, TaskKinds, TaskGoesOn DEF Registration!MarkVerified, Registration!End,
         AccountInv, Registration!TypeOK
  <1>5. CASE Registration!ResetPassword(r)
    BY <1>5, TaskKinds, TaskGoesOn DEF Registration!ResetPassword, Registration!End, AccountInv,
       Registration!TypeOK
  <1> QED
    BY <1>1, <1>2, <1>3, <1>4, <1>5

LEMMA MailKeeps ==
    ASSUME AccountInv, NEW r \in Requests,
           \/ \E l \in Links : Registration!GetPrevious(r, l)
           \/ Registration!DropPrevious(r)
           \/ Registration!SetToken(r)
           \/ Registration!SetCurrent(r)
    PROVE  AccountInv'
  <1>1. ASSUME NEW l \in Links, Registration!GetPrevious(r, l) PROVE AccountInv'
    <2>1. tasks[r] \in Issuing
      BY <1>1, TaskFields DEF Registration!GetPrevious
    <2>2. current[tasks[r].email][tasks[r].purpose] \in Links \cup {Registration!NoLink}
      BY <2>1 DEF Issuing, AccountInv, Registration!TypeOK
    <2>3. PICK t : t = [at |-> "DropPrevious", email |-> tasks[r].email,
                        purpose |-> tasks[r].purpose, link |-> l,
                        previous |-> current[tasks[r].email][tasks[r].purpose]]
      OBVIOUS
    <2>4. t \in Sending
      BY <2>1, <2>2, <2>3 DEF Issuing, Sending
    <2>5. tasks' = [tasks EXCEPT ![r] = t]
      BY <1>1, <2>3 DEF Registration!GetPrevious
    <2> QED
      BY <1>1, <2>4, <2>5, TaskKinds, TaskGoesOn DEF Registration!GetPrevious, AccountInv,
         Registration!TypeOK
  <1>2. ASSUME tasks[r] \in Sending, NEW step \in {"SetToken", "SetCurrent"},
               Registration!Go(r, step)
        PROVE  \E t \in Registration!Task : tasks' = [tasks EXCEPT ![r] = t]
    <2>1. PICK t : t = [tasks[r] EXCEPT !.at = step]
      OBVIOUS
    <2>2. t \in Sending
      BY <1>2, <2>1 DEF Sending
    <2> QED
      BY <1>2, <2>1, <2>2, TaskKinds DEF Registration!Go
  <1>3. CASE Registration!DropPrevious(r)
    <2>1. \E t \in Registration!Task : tasks' = [tasks EXCEPT ![r] = t]
      BY <1>2, <1>3, TaskFields DEF Registration!DropPrevious
    <2> QED
      BY <1>3, <2>1, TaskGoesOn DEF Registration!DropPrevious, AccountInv, Registration!TypeOK
  <1>4. CASE Registration!SetToken(r)
    <2>1. tasks[r] \in Sending
      BY <1>4, TaskFields DEF Registration!SetToken
    <2>2. \E t \in Registration!Task : tasks' = [tasks EXCEPT ![r] = t]
      BY <1>2, <1>4, <2>1 DEF Registration!SetToken
    <2>3. PICK k : k = [link |-> tasks[r].link, email |-> tasks[r].email,
                        purpose |-> tasks[r].purpose]
      OBVIOUS
    <2>4. k \in Registration!Link
      BY <2>1, <2>3 DEF Sending, Registration!Link
    <2>5. links' = links \cup {k}
      BY <1>4, <2>3 DEF Registration!SetToken
    <2> QED
      BY <1>4, <2>2, <2>4, <2>5, TaskGoesOn DEF Registration!SetToken, AccountInv,
         Registration!TypeOK
  <1>5. CASE Registration!SetCurrent(r)
    <2>1. tasks[r] \in Sending
      BY <1>5, TaskFields DEF Registration!SetCurrent
    <2>2. PICK e \in Emails, p \in Registration!Purposes, l \in Links :
              e = tasks[r].email /\ p = tasks[r].purpose /\ l = tasks[r].link
      BY <2>1 DEF Sending
    <2>3. current' = [current EXCEPT ![e][p] = l] /\ sent' = sent \cup {l}
      BY <1>5, <2>2 DEF Registration!SetCurrent
    <2>4. current' \in [Emails -> [Registration!Purposes -> Links \cup {Registration!NoLink}]]
      BY <2>3 DEF AccountInv, Registration!TypeOK
    <2>5. sent' \subseteq Links
      BY <2>3 DEF AccountInv, Registration!TypeOK
    <2>6. tasks' = [tasks EXCEPT ![r] = Registration!NoTask]
          /\ UNCHANGED <<users, links, accounts, signedIn>>
      BY <1>5 DEF Registration!SetCurrent, Registration!End
    <2> QED
      BY <2>4, <2>5, <2>6, TaskKinds, TaskGoesOn DEF AccountInv, Registration!TypeOK
  <1> QED
    BY <1>1, <1>3, <1>4, <1>5

(* A link that is taken or expires is forgotten where it is current. *)
LEMMA LinkForgotten ==
    ASSUME AccountInv, NEW k \in links,
           current' = IF current[k.email][k.purpose] = k.link
                      THEN [current EXCEPT ![k.email][k.purpose] = Registration!NoLink]
                      ELSE current
    PROVE  /\ k.email \in Emails
           /\ current' \in [Emails -> [Registration!Purposes -> Links \cup {Registration!NoLink}]]
  <1>1. PICK e \in Emails, p \in Registration!Purposes : e = k.email /\ p = k.purpose
    BY DEF AccountInv, Registration!TypeOK, Registration!Link
  <1>2. \/ current' = [current EXCEPT ![e][p] = Registration!NoLink]
        \/ current' = current
    BY <1>1
  <1> QED
    BY <1>1, <1>2 DEF AccountInv, Registration!TypeOK

LEMMA LinksKeep ==
    ASSUME AccountInv, NEW k \in links,
           \/ Registration!LinkExpires(k)
           \/ \E r \in Requests : Registration!Confirm(r, k)
    PROVE  AccountInv'
  <1>1. CASE Registration!LinkExpires(k)
    BY <1>1, LinkForgotten DEF Registration!LinkExpires, AccountInv, Registration!TypeOK,
       Registration!Task, Registration!NoTask, Registration!Purposes, Registration!NoLink,
       Registration!User, Registration!Link, Registration!Account
  <1>2. ASSUME NEW r \in Requests, Registration!Confirm(r, k) PROVE AccountInv'
    <2>1. /\ k.email \in Emails
          /\ current' \in [Emails -> [Registration!Purposes -> Links \cup {Registration!NoLink}]]
      BY <1>2, LinkForgotten DEF Registration!Confirm
    <2>2. PICK t : t = [at |-> IF k.purpose = "email-verification" THEN "MarkVerified"
                               ELSE "ResetPassword",
                        email |-> k.email]
      OBVIOUS
    <2>3. t \in Registration!Task
      BY <2>1, <2>2, TaskKinds DEF Mailing
    <2>4. tasks' = [tasks EXCEPT ![r] = t] /\ links' = links \ {k}
          /\ UNCHANGED <<users, sent, accounts, signedIn>>
      BY <1>2, <2>2 DEF Registration!Confirm
    <2> QED
      BY <2>1, <2>3, <2>4, TaskGoesOn DEF AccountInv, Registration!TypeOK
  <1> QED
    BY <1>1, <1>2

LEMMA GoogleKeeps ==
    ASSUME AccountInv, NEW r \in Requests,
           \/ \E s \in Subjects : Registration!ReturningUser(r, s)
           \/ \E s \in Subjects, e \in Emails : Registration!BeginGoogle(r, s, e)
           \/ Registration!ReadEmail(r)
           \/ Registration!LinkConflict(r)
    PROVE  AccountInv'
  <1>a. accounts \subseteq [subject: Subjects, email: Emails]
    BY DEF AccountInv, Registration!TypeOK, Registration!Account
  <1>1. ASSUME NEW s, NEW new \in SUBSET Registration!Linked(s),
               signedIn' = signedIn \cup {<<s, a.email>> : a \in new},
               tasks' \in [Requests -> Registration!Task],
               UNCHANGED <<users, links, current, sent, accounts>>
        PROVE  AccountInv'
    <2>1. signedIn' \subseteq {<<a.subject, a.email>> : a \in accounts}
      BY <1>1 DEF AccountInv, Registration!Linked
    <2>2. signedIn' \subseteq Subjects \X Emails
      BY <2>1, <1>a
    <2> QED
      BY <1>1, <2>1, <2>2 DEF AccountInv, Registration!TypeOK, Registration!Task,
         Registration!NoTask, Registration!Purposes, Registration!NoLink, Registration!User,
         Registration!Link, Registration!Account
  <1>2. ASSUME NEW s \in Subjects, Registration!ReturningUser(r, s) PROVE AccountInv'
    <2>1. PICK a \in Registration!Linked(s) : signedIn' = signedIn \cup {<<s, a.email>>}
      BY <1>2 DEF Registration!ReturningUser
    <2>2. PICK new \in SUBSET Registration!Linked(s) : new = {a}
      OBVIOUS
    <2>3. signedIn' = signedIn \cup {<<s, b.email>> : b \in new}
      BY <2>1, <2>2
    <2>4. /\ tasks' \in [Requests -> Registration!Task]
          /\ UNCHANGED <<users, links, current, sent, accounts>>
      BY <1>2 DEF Registration!ReturningUser, AccountInv, Registration!TypeOK
    <2> QED
      BY <1>1, <2>3, <2>4
  <1>3. ASSUME NEW s \in Subjects, NEW e \in Emails, Registration!BeginGoogle(r, s, e)
        PROVE  AccountInv'
    <2>1. PICK t : t = [at |-> "ReadEmail", subject |-> s, email |-> e]
      OBVIOUS
    <2>2. t \in Registration!Task
      BY <2>1, TaskKinds DEF Linking
    <2> QED
      BY <1>3, <2>1, <2>2, TaskGoesOn DEF Registration!BeginGoogle, AccountInv,
         Registration!TypeOK
  <1>4. CASE Registration!ReadEmail(r)
    <2>1. tasks[r] \in Linking
      BY <1>4, TaskFields DEF Registration!ReadEmail
    <2>2. PICK step \in {"LinkUser", "InsertUser"} : Registration!Go(r, step)
      BY <1>4 DEF Registration!ReadEmail
    <2>3. PICK t : t = [tasks[r] EXCEPT !.at = step]
      OBVIOUS
    <2>4. t \in Registration!Task
      BY <2>1, <2>3, TaskKinds DEF Linking
    <2>5. tasks' = [tasks EXCEPT ![r] = t]
      BY <2>2, <2>3 DEF Registration!Go
    <2> QED
      BY <1>4, <2>4, <2>5, TaskGoesOn DEF Registration!ReadEmail, AccountInv,
         Registration!TypeOK
  <1>5. CASE Registration!LinkConflict(r)
    <2>1. tasks' \in [Requests -> Registration!Task]
      BY <1>5, TaskKinds DEF Registration!LinkConflict, Registration!End, AccountInv,
         Registration!TypeOK
    <2> QED
      BY <1>1, <1>5, <2>1 DEF Registration!LinkConflict
  <1> QED
    BY <1>2, <1>3, <1>4, <1>5

LEMMA LinkGoogleKeeps ==
    ASSUME AccountInv, NEW r \in Requests, Registration!LinkGoogle(r)
    PROVE  AccountInv'
  <1>1. tasks[r] \in Linking
    BY TaskFields DEF Registration!LinkGoogle
  <1>2. PICK s \in Subjects, e \in Emails : s = tasks[r].subject /\ e = tasks[r].email
    BY <1>1 DEF Linking
  <1>3. PICK new : new = [subject |-> s, email |-> e]
    OBVIOUS
  <1>4. /\ \A a \in accounts : a.subject # s /\ a.email # e
        /\ users' = [users EXCEPT ![e] = "verified"]
        /\ accounts' = accounts \cup {new}
        /\ signedIn' = signedIn \cup {<<s, e>>}
        /\ tasks' = [tasks EXCEPT ![r] = Registration!NoTask]
        /\ UNCHANGED <<links, current, sent>>
    BY <1>2, <1>3 DEF Registration!LinkGoogle, Registration!Unlinked, Registration!End
  <1>5. new \in Registration!Account /\ new.subject = s /\ new.email = e
    BY <1>3 DEF Registration!Account
  <1>6. /\ accounts' \subseteq Registration!Account
        /\ \A a, b \in accounts' : a.subject = b.subject <=> a.email = b.email
    BY <1>4, <1>5 DEF AccountInv, Registration!TypeOK
  <1>7. /\ signedIn' \subseteq {<<a.subject, a.email>> : a \in accounts'}
        /\ signedIn' \subseteq Subjects \X Emails
    BY <1>4, <1>5 DEF AccountInv, Registration!TypeOK
  <1>8. users' \in [Emails -> Registration!User] /\ tasks' \in [Requests -> Registration!Task]
    BY <1>4, TaskKinds DEF AccountInv, Registration!TypeOK, Registration!User
  <1> QED
    BY <1>4, <1>6, <1>7, <1>8 DEF AccountInv, Registration!TypeOK, Registration!Task,
       Registration!NoTask, Registration!Purposes, Registration!NoLink, Registration!User,
       Registration!Link, Registration!Account

LEMMA AccountSteps ==
    ASSUME AccountInv, [Registration!Next]_(Registration!accountVars)
    PROVE  AccountInv'
  <1>1. CASE UNCHANGED Registration!accountVars
    BY <1>1 DEF Registration!accountVars, AccountInv, Registration!TypeOK, Registration!Task,
       Registration!NoTask, Registration!Purposes, Registration!NoLink, Registration!User,
       Registration!Link, Registration!Account
  <1>2. CASE Registration!Next
    BY <1>2, RegistrationKeeps, MailKeeps, LinksKeep, GoogleKeeps, LinkGoogleKeeps
       DEF Registration!Next
  <1> QED
    BY <1>1, <1>2

(* Whoever signed in has an account, one for each identity and user        *)
(* (authenticate_google).                                                  *)
THEOREM AccountsKeepInvariant == ServicesSpec => []AccountInv
  <1>1. AccountInv /\ [Registration!Next]_(Registration!accountVars) => AccountInv'
    BY AccountSteps
  <1> QED
    BY <1>1, AccountsStart, ComponentSpecs, PTL DEF Registration!Spec

(* All completed sign-ins of one Google identity are the same user, and no *)
(* two identities sign in as one user, although the account is looked for  *)
(* before concurrent sign-ins and registrations commit                     *)
(* (authenticate_google).                                                  *)
THEOREM IdentitiesAgree == ServicesSpec => []SignInsAgree
  <1>1. AccountInv => SignInsAgree
    <2> SUFFICES ASSUME AccountInv, NEW x \in signedIn, NEW y \in signedIn
                 PROVE  x[1] = y[1] <=> x[2] = y[2]
      BY DEF SignInsAgree, Registration!SignInsAgree
    <2>1. PICK a \in accounts, b \in accounts :
              x = <<a.subject, a.email>> /\ y = <<b.subject, b.email>>
      BY DEF AccountInv
    <2> QED
      BY <2>1 DEF AccountInv
  <1> QED
    BY <1>1, AccountsKeepInvariant, PTL

--------------------------------------------------------------------------------
(* Discussion: rows are typed, and each notice goes with its mention       *)
(* unless the comment went with a deleted draft.                           *)
DiscussionInv == Inbox!TypeOK /\ Inbox!NoticesFollowMentions

MentionRows == [Members -> Inbox!Mention \cup {Inbox!Absent}]

NoticeRows == [Members -> {"none", "unread", "read"}]

CommentRows == Inbox!Comment \cup {Inbox!Absent, Inbox!Gone}

(* What a comment's mentions and its notices say of each other. *)
Agree(comment, row, notes) ==
    \A u \in Members :
        /\ ~row[u].removed => notes[u] # "none"
        /\ notes[u] # "none" => ~row[u].removed \/ comment = Inbox!Gone

Editing == [op: {"Edit"}, comment: Comments, locks: BOOLEAN, edited: Inbox!Comment,
            users: SUBSET Members]

Writing == [op: {"Write"}, comment: Comments, locks: BOOLEAN, edited: Inbox!Comment,
            users: SUBSET Members, row: MentionRows]

Marking == [op: {"Mark"}, comment: Comments, user: Members, read: BOOLEAN, changed: BOOLEAN]

MarkingAll == [op: {"MarkAll"}, user: Members, comments: SUBSET Comments]

LEMMA PageKinds ==
    Inbox!Page = {Inbox!Blank} \cup Editing \cup Writing \cup Marking \cup MarkingAll
  BY DEF Inbox!Page, Editing, Writing, Marking, MarkingAll, MentionRows

LEMMA PageFields ==
    ASSUME DiscussionInv, NEW r \in Requests
    PROVE  /\ pages[r].op = "Edit" => pages[r] \in Editing
           /\ pages[r].op = "Write" => pages[r] \in Writing
           /\ pages[r].op = "Mark" => pages[r] \in Marking
           /\ pages[r].op = "MarkAll" => pages[r] \in MarkingAll
  BY PageKinds DEF DiscussionInv, Inbox!TypeOK, Inbox!Blank, Editing, Writing, Marking,
     MarkingAll

LEMMA InboxRows ==
    DiscussionInv <=>
        /\ comments \in [Comments -> CommentRows]
        /\ mentions \in [Comments -> MentionRows]
        /\ notices \in [Comments -> NoticeRows]
        /\ pages \in [Requests -> Inbox!Page]
        /\ \A c \in Comments : Agree(comments[c], mentions[c], notices[c])
  BY DEF DiscussionInv, Inbox!TypeOK, Inbox!NoticesFollowMentions, Inbox!Active, Agree,
     MentionRows, NoticeRows, CommentRows

LEMMA InboxRowsNext ==
    ASSUME comments' \in [Comments -> CommentRows],
           mentions' \in [Comments -> MentionRows],
           notices' \in [Comments -> NoticeRows],
           pages' \in [Requests -> Inbox!Page],
           \A c \in Comments : Agree(comments'[c], mentions'[c], notices'[c])
    PROVE  DiscussionInv'
  BY DEF DiscussionInv, Inbox!TypeOK, Inbox!NoticesFollowMentions, Inbox!Active, Agree,
     MentionRows, NoticeRows, Inbox!Page, Inbox!Mention, Inbox!Absent, Inbox!Gone, Inbox!Comment,
     Inbox!Blank, CommentRows

LEMMA DiscussionStarts == Inbox!Init => DiscussionInv
  <1> SUFFICES ASSUME Inbox!Init PROVE DiscussionInv
    OBVIOUS
  <1>1. [u \in Members |-> Inbox!Absent] \in MentionRows
    BY DEF MentionRows
  <1>2. [u \in Members |-> "none"] \in NoticeRows
    BY DEF NoticeRows
  <1>3. Agree(Inbox!Absent, [u \in Members |-> Inbox!Absent], [u \in Members |-> "none"])
    BY DEF Agree, Inbox!Absent
  <1>4. pages \in [Requests -> Inbox!Page]
    BY PageKinds DEF Inbox!Init
  <1> QED
    BY <1>1, <1>2, <1>3, <1>4, InboxRows DEF Inbox!Init, CommentRows

(* sync_for_comment writes the mentions and the notices of the same users. *)
LEMMA SyncKeeps ==
    ASSUME NEW row \in MentionRows, NEW was \in MentionRows, NEW notes \in NoticeRows,
           NEW comment, comment # Inbox!Gone, Agree(comment, was, notes), NEW later,
           NEW named \in SUBSET Members
    PROVE  /\ Inbox!Synced(row, was, named) \in MentionRows
           /\ Inbox!Noticed(row, notes, named) \in NoticeRows
           /\ Agree(later, Inbox!Synced(row, was, named), Inbox!Noticed(row, notes, named))
  <1>1. PICK gone \in SUBSET Members, fresh \in SUBSET Members :
            /\ gone = Inbox!Active(row) \ named
            /\ fresh = named \ Inbox!Active(row)
    BY DEF Inbox!Active
  <1>2. PICK off, on : /\ off = [read |-> TRUE, removed |-> TRUE]
                       /\ on = [read |-> FALSE, removed |-> FALSE]
    OBVIOUS
  <1>3. /\ off \in Inbox!Mention /\ on \in Inbox!Mention
        /\ off.removed /\ ~on.removed
    BY <1>2 DEF Inbox!Mention
  <1>4. Inbox!Synced(row, was, named) =
            [u \in Members |-> IF u \in gone THEN off ELSE IF u \in fresh THEN on ELSE was[u]]
    BY <1>1, <1>2 DEF Inbox!Synced
  <1>5. Inbox!Noticed(row, notes, named) =
            [u \in Members |-> IF u \in gone THEN "none"
                               ELSE IF u \in fresh THEN "unread" ELSE notes[u]]
    BY <1>1 DEF Inbox!Noticed
  <1>6. Inbox!Synced(row, was, named) \in MentionRows
    BY <1>3, <1>4 DEF MentionRows
  <1>7. Inbox!Noticed(row, notes, named) \in NoticeRows
    BY <1>5 DEF NoticeRows
  <1>8. Agree(later, Inbox!Synced(row, was, named), Inbox!Noticed(row, notes, named))
    <2> SUFFICES ASSUME NEW u \in Members
                 PROVE  ~Inbox!Synced(row, was, named)[u].removed
                            <=> Inbox!Noticed(row, notes, named)[u] # "none"
      BY DEF Agree
    <2>1. CASE u \in gone
      BY <2>1, <1>3, <1>4, <1>5
    <2>2. CASE u \notin gone /\ u \in fresh
      BY <2>2, <1>3, <1>4, <1>5
    <2>3. CASE u \notin gone /\ u \notin fresh
      BY <2>3, <1>4, <1>5 DEF Agree
    <2> QED
      BY <2>1, <2>2, <2>3
  <1> QED
    BY <1>6, <1>7, <1>8

LEMMA MentionMarked ==
    ASSUME NEW m \in Inbox!Mention \cup {Inbox!Absent}, NEW read \in BOOLEAN
    PROVE  /\ [m EXCEPT !.read = read] \in Inbox!Mention \cup {Inbox!Absent}
           /\ [m EXCEPT !.read = read].removed <=> m.removed
  <1>1. CASE m \in Inbox!Mention
    <2>1. PICK n : n = [m EXCEPT !.read = read]
      OBVIOUS
    <2> QED
      BY <1>1, <2>1 DEF Inbox!Mention
  <1>2. CASE m = Inbox!Absent
    <2>1. [m EXCEPT !.read = read] = m
      BY <1>2 DEF Inbox!Absent
    <2> QED
      BY <1>2, <2>1
  <1> QED
    BY <1>1, <1>2

LEMMA CommentEdited ==
    ASSUME NEW c \in Inbox!Comment, NEW q \in Writing
    PROVE  Inbox!Edited(c, q) \in Inbox!Comment
  <1>1. q.edited.text \in Texts
    BY DEF Writing, Inbox!Comment
  <1>2. PICK d, t : d = [c EXCEPT !.deleted = TRUE] /\ t = [c EXCEPT !.text = q.edited.text]
    OBVIOUS
  <1>3. d \in Inbox!Comment /\ t \in Inbox!Comment
    BY <1>1, <1>2 DEF Inbox!Comment
  <1> QED
    BY <1>2, <1>3 DEF Inbox!Edited

(* A request that only reads opens or advances its page. *)
LEMMA PageTurned ==
    ASSUME DiscussionInv, NEW r \in Requests, NEW page \in Inbox!Page,
           pages' = [pages EXCEPT ![r] = page], UNCHANGED <<comments, mentions, notices>>
    PROVE  DiscussionInv'
  BY InboxRows, InboxRowsNext

(* The rows of one comment are written together. *)
LEMMA RowsWritten ==
    ASSUME DiscussionInv, NEW c \in Comments, NEW row \in MentionRows, NEW notes \in NoticeRows,
           Agree(comments'[c], row, notes),
           \A d \in Comments \ {c} : comments'[d] = comments[d],
           mentions' = [mentions EXCEPT ![c] = row], notices' = [notices EXCEPT ![c] = notes],
           comments' \in [Comments -> CommentRows],
           pages' \in [Requests -> Inbox!Page]
    PROVE  DiscussionInv'
  <1>1. mentions' \in [Comments -> MentionRows] /\ notices' \in [Comments -> NoticeRows]
    BY InboxRows
  <1>2. \A d \in Comments : Agree(comments'[d], mentions'[d], notices'[d])
    BY InboxRows
  <1> QED
    BY <1>1, <1>2, InboxRowsNext

LEMMA ReadersKeep ==
    ASSUME DiscussionInv, NEW r \in Requests,
           \/ \E c \in Comments, t \in Texts : Inbox!UpdateComment(r, c, t)
           \/ \E c \in Comments : Inbox!DeleteComment(r, c)
           \/ \E c \in Comments, u \in Members, read \in BOOLEAN : Inbox!MarkMention(r, c, u, read)
           \/ \E u \in Members : Inbox!MarkAllMentions(r, u)
           \/ Inbox!ReadMentions(r)
           \/ Inbox!Rollback(r)
    PROVE  DiscussionInv'
  <1>1. ASSUME NEW c \in Comments, NEW t \in Texts, Inbox!UpdateComment(r, c, t)
        PROVE  DiscussionInv'
    <2>1. PICK page : page = [op |-> "Edit", comment |-> c, locks |-> t # comments[c].text,
                              edited |-> [text |-> t, deleted |-> FALSE],
                              users |-> Mentioned[t]]
      OBVIOUS
    <2>2. [text |-> t, deleted |-> FALSE] \in Inbox!Comment /\ Mentioned[t] \subseteq Members
      BY MentionedAssumption DEF Inbox!Comment
    <2>3. page \in Inbox!Page
      BY <2>1, <2>2, PageKinds DEF Editing
    <2> QED
      BY <1>1, <2>1, <2>3, PageTurned DEF Inbox!UpdateComment, Inbox!Open
  <1>2. ASSUME NEW c \in Comments, Inbox!DeleteComment(r, c) PROVE DiscussionInv'
    <2>1. PICK page : page = [op |-> "Edit", comment |-> c, locks |-> TRUE,
                              edited |-> [text |-> comments[c].text, deleted |-> TRUE],
                              users |-> {}]
      OBVIOUS
    <2>2. comments[c] \in Inbox!Comment
      BY <1>2, InboxRows DEF Inbox!DeleteComment, Inbox!Readable, Inbox!Exists, CommentRows
    <2>3. [text |-> comments[c].text, deleted |-> TRUE] \in Inbox!Comment
      BY <2>2 DEF Inbox!Comment
    <2>4. page \in Inbox!Page
      BY <2>1, <2>3, PageKinds DEF Editing
    <2> QED
      BY <1>2, <2>1, <2>4, PageTurned DEF Inbox!DeleteComment, Inbox!Open
  <1>3. ASSUME NEW c \in Comments, NEW u \in Members, NEW read \in BOOLEAN,
               Inbox!MarkMention(r, c, u, read)
        PROVE  DiscussionInv'
    <2>1. PICK page : page = [op |-> "Mark", comment |-> c, user |-> u, read |-> read,
                              changed |-> read \/ mentions[c][u].read]
      OBVIOUS
    <2>2. page \in Inbox!Page
      BY <2>1, PageKinds DEF Marking
    <2> QED
      BY <1>3, <2>1, <2>2, PageTurned DEF Inbox!MarkMention, Inbox!Open
  <1>4. ASSUME NEW u \in Members, Inbox!MarkAllMentions(r, u) PROVE DiscussionInv'
    <2>1. PICK set \in SUBSET Comments :
              set = {c \in Comments : u \in Inbox!Active(mentions[c]) /\ ~mentions[c][u].read}
      OBVIOUS
    <2>2. PICK page : page = [op |-> "MarkAll", user |-> u, comments |-> set]
      OBVIOUS
    <2>3. page \in Inbox!Page
      BY <2>2, PageKinds DEF MarkingAll
    <2> QED
      BY <1>4, <2>1, <2>2, <2>3, PageTurned DEF Inbox!MarkAllMentions, Inbox!Open
  <1>5. CASE Inbox!ReadMentions(r)
    <2>1. pages[r] \in Editing
      BY <1>5, PageFields DEF Inbox!ReadMentions, Inbox!Doing
    <2>2. PICK page : page = [op |-> "Write", comment |-> pages[r].comment,
                              locks |-> pages[r].locks, edited |-> pages[r].edited,
                              users |-> pages[r].users, row |-> mentions[pages[r].comment]]
      OBVIOUS
    <2>3. mentions[pages[r].comment] \in MentionRows
      BY <2>1, InboxRows DEF Editing
    <2>4. page \in Writing
      BY <2>1, <2>2, <2>3 DEF Editing, Writing
    <2> QED
      BY <1>5, <2>2, <2>4, PageKinds, PageTurned DEF Inbox!ReadMentions
  <1>6. CASE Inbox!Rollback(r)
    BY <1>6, PageKinds, PageTurned DEF Inbox!Rollback, Inbox!Close
  <1> QED
    BY <1>1, <1>2, <1>3, <1>4, <1>5, <1>6

LEMMA CreateCommentKeeps ==
    ASSUME DiscussionInv, NEW c \in Comments, NEW t \in Texts, Inbox!CreateComment(c, t)
    PROVE  DiscussionInv'
  <1>1. PICK new : new = [text |-> t, deleted |-> FALSE]
    OBVIOUS
  <1>2. new \in CommentRows /\ Mentioned[t] \in SUBSET Members
    BY <1>1, MentionedAssumption DEF Inbox!Comment, CommentRows
  <1>3. /\ comments' = [comments EXCEPT ![c] = new]
        /\ mentions' = [mentions EXCEPT ![c] =
                           Inbox!Synced(mentions[c], mentions[c], Mentioned[t])]
        /\ notices' = [notices EXCEPT ![c] = Inbox!Noticed(mentions[c], notices[c], Mentioned[t])]
        /\ pages' = pages
    BY <1>1 DEF Inbox!CreateComment
  <1>4. comments' \in [Comments -> CommentRows]
        /\ pages' \in [Requests -> Inbox!Page]
    BY <1>2, <1>3, InboxRows
  <1>5. /\ mentions[c] \in MentionRows /\ notices[c] \in NoticeRows
        /\ Agree(comments[c], mentions[c], notices[c])
    BY InboxRows
  <1>6. comments[c] # Inbox!Gone
    BY DEF Inbox!CreateComment, Inbox!Absent, Inbox!Gone
  <1>7. \A d \in Comments \ {c} : comments'[d] = comments[d]
    BY <1>3, InboxRows
  <1> QED
    BY <1>2, <1>3, <1>4, <1>5, <1>6, <1>7, SyncKeeps, RowsWritten

LEMMA CommitKeeps ==
    ASSUME DiscussionInv, NEW r \in Requests, Inbox!CommitComment(r)
    PROVE  DiscussionInv'
  <1>1. pages[r] \in Writing
    BY PageFields DEF Inbox!CommitComment, Inbox!Doing
  <1>2. PICK c \in Comments, row \in MentionRows, named \in SUBSET Members :
            c = pages[r].comment /\ row = pages[r].row /\ named = pages[r].users
    BY <1>1 DEF Writing
  <1>3. /\ comments' = [comments EXCEPT ![c] = Inbox!Edited(comments[c], pages[r])]
        /\ mentions' = [mentions EXCEPT ![c] = Inbox!Synced(row, mentions[c], named)]
        /\ notices' = [notices EXCEPT ![c] = Inbox!Noticed(row, notices[c], named)]
        /\ pages' = [pages EXCEPT ![r] = Inbox!Blank]
    BY <1>2 DEF Inbox!CommitComment, Inbox!Close
  <1>4. /\ comments[c] \in CommentRows
        /\ mentions[c] \in MentionRows /\ notices[c] \in NoticeRows
        /\ Agree(comments[c], mentions[c], notices[c])
    BY InboxRows
  <1>5. comments[c] \in Inbox!Comment /\ comments[c] # Inbox!Gone
    BY <1>2, <1>4 DEF CommentRows, Inbox!CommitComment, Inbox!Exists
  <1>6. Inbox!Edited(comments[c], pages[r]) \in CommentRows
    BY <1>1, <1>5, CommentEdited DEF CommentRows
  <1>7. /\ comments' \in [Comments -> CommentRows]
        /\ \A d \in Comments \ {c} : comments'[d] = comments[d]
    BY <1>3, <1>6, InboxRows
  <1>8. pages' \in [Requests -> Inbox!Page]
    BY <1>3, PageKinds, InboxRows
  <1> QED
    BY <1>2, <1>3, <1>4, <1>5, <1>7, <1>8, SyncKeeps, RowsWritten

LEMMA WriteMarkKeeps ==
    ASSUME DiscussionInv, NEW r \in Requests, Inbox!WriteMark(r)
    PROVE  DiscussionInv'
  <1>1. pages[r] \in Marking
    BY PageFields DEF Inbox!WriteMark, Inbox!Doing
  <1>2. PICK c \in Comments, u \in Members, read \in BOOLEAN :
            c = pages[r].comment /\ u = pages[r].user /\ read = pages[r].read
    BY <1>1 DEF Marking
  <1>3. /\ \/ mentions' = [mentions EXCEPT ![c][u].read = read]
           \/ mentions' = mentions
        /\ notices' = [notices EXCEPT ![c][u] = Inbox!SetNotice(notices[c][u], read)]
        /\ pages' = [pages EXCEPT ![r] = Inbox!Blank]
        /\ comments' = comments
    BY <1>2 DEF Inbox!WriteMark, Inbox!Close
  <1>4. /\ mentions[c] \in MentionRows /\ notices[c] \in NoticeRows
        /\ Agree(comments[c], mentions[c], notices[c])
        /\ mentions \in [Comments -> MentionRows] /\ notices \in [Comments -> NoticeRows]
    BY InboxRows
  <1>5. PICK m : m = [mentions[c][u] EXCEPT !.read = read]
    OBVIOUS
  <1>6. m \in Inbox!Mention \cup {Inbox!Absent} /\ (m.removed <=> mentions[c][u].removed)
    BY <1>4, <1>5, MentionMarked DEF MentionRows
  <1>7. PICK row : /\ row = [mentions[c] EXCEPT ![u] = m] \/ row = mentions[c]
                   /\ mentions' = [mentions EXCEPT ![c] = row]
    <2>1. CASE mentions' = mentions
      <3>1. mentions' = [mentions EXCEPT ![c] = mentions[c]]
        BY <2>1, <1>4
      <3> QED
        BY <3>1
    <2>2. CASE mentions' = [mentions EXCEPT ![c][u].read = read]
      BY <2>2, <1>5
    <2> QED
      BY <1>3, <2>1, <2>2
  <1>8. PICK notes : notes = [notices[c] EXCEPT ![u] = Inbox!SetNotice(notices[c][u], read)]
    OBVIOUS
  <1>9. row \in MentionRows /\ notes \in NoticeRows
    BY <1>4, <1>6, <1>7, <1>8 DEF MentionRows, NoticeRows, Inbox!SetNotice
  <1>10. Agree(comments[c], row, notes)
    <2> SUFFICES ASSUME NEW v \in Members
                 PROVE  /\ ~row[v].removed => notes[v] # "none"
                        /\ notes[v] # "none" => ~row[v].removed \/ comments[c] = Inbox!Gone
      BY DEF Agree
    <2>1. row[v].removed <=> mentions[c][v].removed
      BY <1>4, <1>6, <1>7 DEF MentionRows
    <2>2. notes[v] # "none" <=> notices[c][v] # "none"
      BY <1>4, <1>8 DEF NoticeRows, Inbox!SetNotice
    <2> QED
      BY <1>4, <2>1, <2>2 DEF Agree
  <1>11. /\ notices' = [notices EXCEPT ![c] = notes]
         /\ comments' = comments /\ comments' \in [Comments -> CommentRows]
         /\ pages' \in [Requests -> Inbox!Page]
    BY <1>3, <1>8, PageKinds, InboxRows
  <1> QED
    BY <1>7, <1>9, <1>10, <1>11, RowsWritten

LEMMA WriteAllKeeps ==
    ASSUME DiscussionInv, NEW r \in Requests, Inbox!WriteAllRead(r)
    PROVE  DiscussionInv'
  <1>1. pages[r] \in MarkingAll
    BY PageFields DEF Inbox!WriteAllRead, Inbox!Doing
  <1>2. PICK u \in Members, set \in SUBSET Comments :
            u = pages[r].user /\ set = pages[r].comments
    BY <1>1 DEF MarkingAll
  <1>3. /\ mentions' = [c \in Comments |->
              IF c \in set /\ mentions[c][u] # Inbox!Absent
              THEN [mentions[c] EXCEPT ![u].read = TRUE] ELSE mentions[c]]
        /\ notices' = [c \in Comments |->
              IF c \in set THEN [notices[c] EXCEPT ![u] = Inbox!SetNotice(notices[c][u], TRUE)]
              ELSE notices[c]]
        /\ comments' = comments
    BY <1>2 DEF Inbox!WriteAllRead
  <1>4. ASSUME NEW c \in Comments
        PROVE  /\ mentions'[c] \in MentionRows /\ notices'[c] \in NoticeRows
               /\ Agree(comments'[c], mentions'[c], notices'[c])
    <2>1. /\ mentions[c] \in MentionRows /\ notices[c] \in NoticeRows
          /\ Agree(comments[c], mentions[c], notices[c])
      BY InboxRows
    <2>2. CASE c \notin set
      BY <1>3, <2>1, <2>2
    <2>3. CASE c \in set
      <3>1. PICK m : m = [mentions[c][u] EXCEPT !.read = TRUE]
        OBVIOUS
      <3>2. m \in Inbox!Mention \cup {Inbox!Absent} /\ (m.removed <=> mentions[c][u].removed)
        BY <2>1, <3>1, MentionMarked DEF MentionRows
      <3>3. mentions'[c] = [mentions[c] EXCEPT ![u] = m] \/ mentions'[c] = mentions[c]
        BY <1>3, <2>3, <3>1
      <3>4. notices'[c] = [notices[c] EXCEPT ![u] = Inbox!SetNotice(notices[c][u], TRUE)]
        BY <1>3, <2>3
      <3>5. mentions'[c] \in MentionRows /\ notices'[c] \in NoticeRows
        BY <2>1, <3>2, <3>3, <3>4 DEF MentionRows, NoticeRows, Inbox!SetNotice
      <3>6. \A v \in Members : mentions'[c][v].removed <=> mentions[c][v].removed
        BY <2>1, <3>2, <3>3 DEF MentionRows
      <3>7. \A v \in Members : notices'[c][v] # "none" <=> notices[c][v] # "none"
        BY <2>1, <3>4 DEF NoticeRows, Inbox!SetNotice
      <3> QED
        BY <1>3, <2>1, <3>5, <3>6, <3>7 DEF Agree
    <2> QED
      BY <2>2, <2>3
  <1>5. mentions' \in [Comments -> MentionRows] /\ notices' \in [Comments -> NoticeRows]
    BY <1>3, <1>4
  <1>6. /\ comments' \in [Comments -> CommentRows]
        /\ pages' \in [Requests -> Inbox!Page]
    BY PageKinds, InboxRows DEF Inbox!WriteAllRead, Inbox!Close
  <1> QED
    BY <1>4, <1>5, <1>6, InboxRowsNext

(* The comments and mentions of a deleted draft go, the notices stay. *)
LEMMA CascadeKeeps ==
    ASSUME DiscussionInv, NEW cs \in SUBSET Comments, Inbox!CascadeComments(cs)
    PROVE  DiscussionInv'
  <1>1. PICK none : none = [u \in Members |-> Inbox!Absent]
    OBVIOUS
  <1>2. none \in MentionRows /\ \A u \in Members : none[u].removed
    BY <1>1 DEF MentionRows, Inbox!Absent
  <1>3. /\ comments' = [c \in Comments |-> IF c \in cs THEN Inbox!Gone ELSE comments[c]]
        /\ mentions' = [c \in Comments |-> IF c \in cs THEN none ELSE mentions[c]]
        /\ UNCHANGED <<notices, pages>>
    BY <1>1 DEF Inbox!CascadeComments
  <1>4. /\ comments' \in [Comments -> CommentRows]
        /\ mentions' \in [Comments -> MentionRows]
    BY <1>2, <1>3, InboxRows DEF CommentRows
  <1>5. ASSUME NEW c \in Comments
        PROVE  Agree(comments'[c], mentions'[c], notices'[c])
    <2>1. CASE c \in cs
      BY <1>2, <1>3, <2>1 DEF Agree
    <2>2. CASE c \notin cs
      BY <1>3, <2>2, InboxRows
    <2> QED
      BY <2>1, <2>2
  <1> QED
    BY <1>3, <1>4, <1>5, InboxRows, InboxRowsNext

LEMMA NoticesKeep ==
    ASSUME DiscussionInv, NEW u \in Members,
           \/ \E c \in Comments : Inbox!ReadNotice(c, u)
           \/ Inbox!ReadAllNotices(u)
    PROVE  DiscussionInv'
  <1>1. ASSUME notices' \in [Comments -> NoticeRows],
               \A c \in Comments, v \in Members :
                  notices'[c][v] # "none" <=> notices[c][v] # "none",
               UNCHANGED <<comments, mentions, pages>>
        PROVE  DiscussionInv'
    BY <1>1, InboxRows, InboxRowsNext DEF Agree
  <1>2. ASSUME NEW c \in Comments, Inbox!ReadNotice(c, u) PROVE DiscussionInv'
    <2>1. notices' = [notices EXCEPT ![c][u] = "read"] /\ notices[c][u] = "unread"
      BY <1>2 DEF Inbox!ReadNotice
    <2>2. notices \in [Comments -> NoticeRows]
      BY InboxRows
    <2>3. notices' \in [Comments -> NoticeRows]
      BY <2>1, <2>2 DEF NoticeRows
    <2>4. \A d \in Comments, v \in Members : notices'[d][v] # "none" <=> notices[d][v] # "none"
      BY <2>1, <2>2 DEF NoticeRows
    <2> QED
      BY <1>1, <1>2, <2>3, <2>4 DEF Inbox!ReadNotice
  <1>3. CASE Inbox!ReadAllNotices(u)
    <2>1. notices' = [c \in Comments |->
              [notices[c] EXCEPT ![u] = Inbox!SetNotice(notices[c][u], TRUE)]]
      BY <1>3 DEF Inbox!ReadAllNotices
    <2>2. notices \in [Comments -> NoticeRows]
      BY InboxRows
    <2>3. notices' \in [Comments -> NoticeRows]
      BY <2>1, <2>2 DEF NoticeRows, Inbox!SetNotice
    <2>4. \A d \in Comments, v \in Members : notices'[d][v] # "none" <=> notices[d][v] # "none"
      BY <2>1, <2>2 DEF NoticeRows, Inbox!SetNotice
    <2> QED
      BY <1>1, <1>3, <2>3, <2>4 DEF Inbox!ReadAllNotices
  <1> QED
    BY <1>2, <1>3

LEMMA DiscussionSteps ==
    ASSUME DiscussionInv, [Inbox!Next]_(Inbox!discussionVars)
    PROVE  DiscussionInv'
  <1>1. CASE UNCHANGED Inbox!discussionVars
    BY <1>1, InboxRows, InboxRowsNext DEF Inbox!discussionVars
  <1>2. CASE Inbox!Next
    BY <1>2, CascadeKeeps, ReadersKeep, CreateCommentKeeps, CommitKeeps, WriteMarkKeeps,
       WriteAllKeeps, NoticesKeep DEF Inbox!Next, Inbox!PageStep
  <1> QED
    BY <1>1, <1>2

(* Mentions and their notices are written together (sync_for_comment).     *)
THEOREM DiscussionKeepsInvariant == ServicesSpec => []DiscussionInv
  <1>1. DiscussionInv /\ [Inbox!Next]_(Inbox!discussionVars) => DiscussionInv'
    BY DiscussionSteps
  <1> QED
    BY <1>1, DiscussionStarts, ComponentSpecs, PTL DEF Inbox!Spec

(* A mention that stands has its notice and a notice its mention, whatever *)
(* edits, deletions and marks overlap (sync_for_comment,                   *)
(* remove_all_for_comment, mark_all_read); only when a comment goes with a *)
(* deleted draft are its notices left.                                     *)
THEOREM NoticesAndMentionsAgree == ServicesSpec => []NoticesFollowMentions
  <1>1. DiscussionInv => NoticesFollowMentions
    BY DEF DiscussionInv, NoticesFollowMentions
  <1> QED
    BY <1>1, DiscussionKeepsInvariant, PTL

--------------------------------------------------------------------------------
(* Discovery: what a scan found are keys, so its steps are those of the    *)
(* module; an occasion is published at most as often as it is inserted.    *)
DiscoveryInv == Scan!TypeOK /\ Scan!PublishedOnce

ScanRow == [next: Scan!Kinds \cup {"none", "end"}, at: Scan!Times, found: SUBSET Scan!Key]

LEMMA DiscoveryStarts == Scan!Init => DiscoveryInv
  <1> SUFFICES ASSUME Scan!Init PROVE DiscoveryInv
    OBVIOUS
  <1>1. 0 \in Scan!Times /\ 1 \in Scan!Times /\ MaxTime \in Scan!Times
    BY BoundsAssumption DEF Scan!Times
  <1>2. items \in [Items -> [open: BOOLEAN, due: Scan!Times]]
    BY <1>1 DEF Scan!Init
  <1>3. Scan!Asleep \in ScanRow
    BY <1>1 DEF ScanRow, Scan!Asleep
  <1>4. scans \in [Scans -> ScanRow]
    BY <1>3 DEF Scan!Init
  <1>5. published \in [Scan!Key -> Nat] /\ Scan!PublishedOnce
    BY DEF Scan!Init, Scan!PublishedOnce
  <1> QED
    BY <1>1, <1>2, <1>4, <1>5 DEF DiscoveryInv, Scan!TypeOK, Scan!Init, ScanRow

LEMMA LoadedAreKeys ==
    ASSUME NEW kind \in Scan!Kinds, NEW at PROVE Scan!Loaded(kind, at) \subseteq Scan!Key
  BY DEF Scan!Loaded, Scan!Kinds, Scan!DueActions, Scan!DueReviews, Scan!DueDecisions,
     Scan!DueVotings, Scan!Candidates

(* A scan that changes only what it has found or goes to the next kind. *)
LEMMA ScanGoesOn ==
    ASSUME DiscoveryInv, NEW s \in Scans, NEW row \in ScanRow,
           scans' = [scans EXCEPT ![s] = row],
           UNCHANGED <<now, items, inserted, published>>
    PROVE  DiscoveryInv'
  <1>1. scans' \in [Scans -> ScanRow]
    BY DEF DiscoveryInv, Scan!TypeOK, ScanRow
  <1> QED
    BY <1>1 DEF DiscoveryInv, Scan!TypeOK, Scan!PublishedOnce, ScanRow, Scan!Kinds, Scan!Times,
       Scan!Key

LEMMA ItemsKeep ==
    ASSUME DiscoveryInv,
           \/ Scan!Tick
           \/ \E i \in Items : Scan!FinishItem(i) \/ \E t \in Scan!Times : Scan!RescheduleItem(i, t)
    PROVE  DiscoveryInv'
  <1>1. ASSUME now' \in Scan!Times, items' \in [Items -> [open: BOOLEAN, due: Scan!Times]],
               UNCHANGED <<inserted, published, scans>>
        PROVE  DiscoveryInv'
    BY <1>1 DEF DiscoveryInv, Scan!TypeOK, Scan!PublishedOnce, Scan!Kinds, Scan!Times, Scan!Key
  <1>2. CASE Scan!Tick
    BY <1>1, <1>2, BoundsAssumption DEF Scan!Tick, Scan!Times, DiscoveryInv, Scan!TypeOK
  <1>3. ASSUME NEW i \in Items, Scan!FinishItem(i) PROVE DiscoveryInv'
    <2>1. PICK item : item = [items[i] EXCEPT !.open = FALSE]
      OBVIOUS
    <2>2. item \in [open: BOOLEAN, due: Scan!Times]
      BY <2>1 DEF DiscoveryInv, Scan!TypeOK
    <2>3. items' = [items EXCEPT ![i] = item]
      BY <1>3, <2>1 DEF Scan!FinishItem
    <2> QED
      BY <1>1, <1>3, <2>2, <2>3 DEF Scan!FinishItem, DiscoveryInv, Scan!TypeOK
  <1>4. ASSUME NEW i \in Items, NEW t \in Scan!Times, Scan!RescheduleItem(i, t)
        PROVE  DiscoveryInv'
    <2>1. PICK item : item = [items[i] EXCEPT !.due = t]
      OBVIOUS
    <2>2. item \in [open: BOOLEAN, due: Scan!Times]
      BY <2>1 DEF DiscoveryInv, Scan!TypeOK
    <2>3. items' = [items EXCEPT ![i] = item]
      BY <1>4, <2>1 DEF Scan!RescheduleItem
    <2> QED
      BY <1>1, <1>4, <2>2, <2>3 DEF Scan!RescheduleItem, DiscoveryInv, Scan!TypeOK
  <1> QED
    BY <1>2, <1>3, <1>4

LEMMA ScansKeep ==
    ASSUME DiscoveryInv, NEW s \in Scans,
           Scan!StartScan(s) \/ Scan!LoadCandidates(s) \/ Scan!EndScan(s)
    PROVE  DiscoveryInv'
  <1>1. 0 \in Scan!Times
    BY BoundsAssumption DEF Scan!Times
  <1>2. CASE Scan!StartScan(s)
    <2>1. PICK row : row = [next |-> "ACTION_DUE", at |-> now, found |-> {}]
      OBVIOUS
    <2>2. row \in ScanRow
      BY <2>1 DEF ScanRow, Scan!Kinds, DiscoveryInv, Scan!TypeOK
    <2> QED
      BY <1>2, <2>1, <2>2, ScanGoesOn DEF Scan!StartScan
  <1>3. CASE Scan!LoadCandidates(s)
    <2>1. PICK row : row = [next |-> Scan!After(scans[s].next), at |-> scans[s].at,
                            found |-> Scan!Loaded(scans[s].next, scans[s].at)]
      OBVIOUS
    <2>2. scans[s].next \in Scan!Kinds /\ scans[s].at \in Scan!Times
      BY <1>3 DEF Scan!LoadCandidates, DiscoveryInv, Scan!TypeOK
    <2>3. Scan!After(scans[s].next) \in Scan!Kinds \cup {"none", "end"}
      BY <2>2 DEF Scan!After, Scan!Kinds
    <2>4. row \in ScanRow
      BY <2>1, <2>2, <2>3, LoadedAreKeys DEF ScanRow
    <2>5. scans' = [scans EXCEPT ![s] = row] /\ UNCHANGED <<now, items, inserted, published>>
      BY <1>3, <2>1 DEF Scan!LoadCandidates
    <2> QED
      BY <2>4, <2>5, ScanGoesOn
  <1>4. CASE Scan!EndScan(s)
    <2>1. Scan!Asleep \in ScanRow
      BY <1>1 DEF ScanRow, Scan!Asleep
    <2> QED
      BY <1>4, <2>1, ScanGoesOn DEF Scan!EndScan
  <1> QED
    BY <1>2, <1>3, <1>4

LEMMA InsertionsKeep ==
    ASSUME DiscoveryInv, NEW s \in Scans, NEW key \in Scan!Key,
           Scan!CreateCandidate(s, key) \/ Scan!LoseAfterInsert(s, key)
    PROVE  DiscoveryInv'
  <1>1. PICK row : row = IF Scan!CreateCandidate(s, key)
                         THEN [scans[s] EXCEPT !.found = scans[s].found \ {key}]
                         ELSE Scan!Asleep
    OBVIOUS
  <1>2. row \in ScanRow
    <2>1. scans[s] \in ScanRow
      BY DEF DiscoveryInv, Scan!TypeOK, ScanRow
    <2>2. [scans[s] EXCEPT !.found = scans[s].found \ {key}] \in ScanRow
      BY <2>1 DEF ScanRow
    <2>3. Scan!Asleep \in ScanRow
      BY BoundsAssumption DEF ScanRow, Scan!Asleep, Scan!Times
    <2> QED
      BY <1>1, <2>2, <2>3
  <1>3. scans' = [scans EXCEPT ![s] = row]
    BY <1>1 DEF Scan!CreateCandidate, Scan!LoseAfterInsert
  <1>4. scans' \in [Scans -> ScanRow]
    BY <1>2, <1>3 DEF DiscoveryInv, Scan!TypeOK, ScanRow
  <1>5. /\ inserted' = inserted \cup {key}
        /\ \/ published' = published
           \/ key \notin inserted /\ published' = [published EXCEPT ![key] = published[key] + 1]
        /\ UNCHANGED <<now, items>>
    BY DEF Scan!CreateCandidate, Scan!LoseAfterInsert, Scan!Insertable
  <1>6. published' \in [Scan!Key -> Nat]
    BY <1>5 DEF DiscoveryInv, Scan!TypeOK
  <1>7. \A k \in Scan!Key : published'[k] <= (IF k \in inserted' THEN 1 ELSE 0)
    BY <1>5, <1>6 DEF DiscoveryInv, Scan!TypeOK, Scan!PublishedOnce
  <1> QED
    BY <1>4, <1>5, <1>6, <1>7 DEF DiscoveryInv, Scan!TypeOK, Scan!PublishedOnce, ScanRow,
       Scan!Kinds, Scan!Times, Scan!Key

LEMMA DiscoverySteps ==
    ASSUME DiscoveryInv, [Scan!Next]_(Scan!discoveryVars)
    PROVE  DiscoveryInv'
  <1>1. CASE UNCHANGED Scan!discoveryVars
    BY <1>1 DEF Scan!discoveryVars, DiscoveryInv, Scan!TypeOK, Scan!PublishedOnce, Scan!Kinds,
       Scan!Times, Scan!Key
  <1>2. CASE Scan!Next
    BY <1>2, ItemsKeep, ScansKeep, InsertionsKeep DEF Scan!Next, Scan!ScanStep
  <1> QED
    BY <1>1, <1>2

LEMMA DiscoveryStepped ==
    ASSUME DiscoveryInv, [ServicesNext]_servicesVars
    PROVE  [Scan!Next]_(Scan!discoveryVars)
  <1>1. \A s \in Scans : scans[s].found \subseteq Scan!Key
    BY DEF DiscoveryInv, Scan!TypeOK
  <1>2. CASE DiscoveryStep
    BY <1>1, <1>2 DEF DiscoveryStep, OnDiscovery, Scan!Next, Scan!ScanStep
  <1> QED
    BY <1>2, Frames DEF discoveryVars, Scan!discoveryVars

(* Scans hold keys of reminders, and the composition runs the scans of the *)
(* module (discover).                                                      *)
THEOREM DiscoveryKeepsInvariant == ServicesSpec => []DiscoveryInv /\ Scan!Spec
  <1>1. ServicesInit => Scan!Init
    BY DEF ServicesInit
  <1>2. DiscoveryInv /\ [ServicesNext]_servicesVars =>
            DiscoveryInv' /\ [Scan!Next]_(Scan!discoveryVars)
    BY DiscoverySteps, DiscoveryStepped
  <1> QED
    BY <1>1, <1>2, DiscoveryStarts, PTL DEF ServicesSpec, Scan!Spec

(* Whatever scans overlap, and however often work is moved to another time *)
(* and back, one occasion is published once, and only after its insertion  *)
(* (discover, create_candidate).                                           *)
THEOREM OccasionsArePublishedOnce == ServicesSpec => []PublishedOnce
  <1>1. DiscoveryInv => PublishedOnce
    BY DEF DiscoveryInv, PublishedOnce
  <1> QED
    BY <1>1, DiscoveryKeepsInvariant, PTL

--------------------------------------------------------------------------------
(* Evaluation: a position that is used or about to be used is below the    *)
(* number of criteria created so far, so reordering and inserting agree on *)
(* the positions there are.                                                *)
Created == {c \in Criteria : criteria[c] # Scoring!Absent}

ScoreRows == {Scoring!Score(p, c) : p \in Proposals, c \in Criteria}

FormOK(form, n) ==
    \/ form = Scoring!Empty
    \/ form \in [op: {"Create"}, position: 0..n]
    \/ /\ form.op = "Reorder"
       /\ DOMAIN form.order \subseteq Criteria
       /\ \A c \in DOMAIN form.order : form.order[c] \in 0..n - 1
    \/ /\ form.op = "Score"
       /\ form.score \in ScoreRows

EvaluationInv ==
    /\ Scoring!TypeOK
    /\ Scoring!CriteriaStayInOrder
    /\ \A c \in Scoring!Listed : criteria[c].position < Cardinality(Created)
    /\ DOMAIN forms = Requests
    /\ \A r \in Requests : FormOK(forms[r], Cardinality(Created))

LEMMA CreatedCounted ==
    /\ Cardinality(Created) \in Nat /\ Cardinality(Criteria) \in Nat
    /\ Cardinality(Created) <= Cardinality(Criteria)
    /\ Scoring!Cardinality(Criteria) = Cardinality(Criteria)
    /\ EvaluationInv => /\ Scoring!Cardinality(Scoring!Listed) \in Nat
                        /\ Scoring!Cardinality(Scoring!Listed) <= Cardinality(Created)
  <1>1. \A S : Scoring!Cardinality(S) = Cardinality(S)
    BY DEF Scoring!Cardinality, Cardinality, Scoring!IsFiniteSet, IsFiniteSet
  <1>2. Created \subseteq Criteria
    BY DEF Created
  <1>3. EvaluationInv => Scoring!Listed \subseteq Created
    BY DEF Created, Scoring!Listed, Scoring!Absent
  <1> QED
    BY <1>1, <1>2, <1>3, CriteriaAssumption, FS_Subset, FS_CardinalityType

LEMMA RowFields ==
    ASSUME EvaluationInv, NEW c \in Criteria
    PROVE  /\ c \in Scoring!Listed <=> criteria[c].state = "placed"
           /\ c \in Created <=> criteria[c].state \in {"placed", "deleted"}
           /\ c \in Scoring!Listed => criteria[c].position \in Nat
  <1>1. criteria[c] \in Scoring!Row
    BY DEF EvaluationInv, Scoring!TypeOK
  <1>2. /\ criteria[c].state = "placed" => criteria[c].position \in Nat
        /\ criteria[c] # Scoring!Absent <=> criteria[c].state \in {"placed", "deleted"}
    BY <1>1, CreatedCounted DEF Scoring!Row, Scoring!Absent, Scoring!Deleted, Scoring!Placed
  <1> QED
    BY <1>2 DEF Scoring!Listed, Created

LEMMA EvaluationStarts == Scoring!Init => EvaluationInv
  <1> SUFFICES ASSUME Scoring!Init PROVE EvaluationInv
    OBVIOUS
  <1>1. \A c \in Criteria : criteria[c] = Scoring!Absent
    BY DEF Scoring!Init
  <1>2. Scoring!Listed = {}
    BY <1>1 DEF Scoring!Listed, Scoring!Absent
  <1>3. criteria \in [Criteria -> Scoring!Row]
    BY DEF Scoring!Init, Scoring!Row
  <1>4. \A r \in Requests : forms[r] = Scoring!Empty
    BY DEF Scoring!Init
  <1> QED
    BY <1>2, <1>3, <1>4 DEF Scoring!Init, EvaluationInv, FormOK, Scoring!TypeOK,
       Scoring!CriteriaStayInOrder, Scoring!Empty

(* The next form of a request, when no row changes. *)
LEMMA FormFilled ==
    ASSUME EvaluationInv, NEW r \in Requests, NEW form, FormOK(form, Cardinality(Created)),
           forms' = [forms EXCEPT ![r] = form], UNCHANGED <<criteria, scores>>
    PROVE  EvaluationInv'
  <1>1. \A s \in Requests : FormOK(forms'[s], Cardinality(Created))
    BY DEF EvaluationInv
  <1>2. \A s \in Requests : forms'[s].op \in {"None", "Create", "Reorder", "Score"}
    BY <1>1 DEF FormOK, Scoring!Empty
  <1>3. DOMAIN forms' = Requests
    BY DEF EvaluationInv
  <1>4. UNCHANGED <<Created, Scoring!Listed>>
    BY DEF Created, Scoring!Listed, Scoring!Absent
  <1>5. Cardinality(Created)' = Cardinality(Created)
    BY <1>4
  <1>6. Scoring!TypeOK'
    BY <1>2 DEF EvaluationInv, Scoring!TypeOK, Scoring!Row, Scoring!Absent, Scoring!Deleted,
       Scoring!Placed, Scoring!Score
  <1>7. Scoring!CriteriaStayInOrder'
    BY <1>4 DEF EvaluationInv, Scoring!CriteriaStayInOrder
  <1>8. \A c \in Scoring!Listed' : criteria'[c].position < Cardinality(Created)'
    BY <1>4, <1>5 DEF EvaluationInv
  <1>9. \A s \in Requests : FormOK(forms'[s], Cardinality(Created)')
    BY <1>1, <1>5
  <1>a. \A s \in Requests : FormOK(forms[s], Cardinality(Created))'
    BY <1>9 DEF FormOK, Scoring!Empty, Scoring!Score
  <1> QED
    BY <1>3, <1>6, <1>7, <1>8, <1>a DEF EvaluationInv

(* A later number of created criteria is no smaller. *)
LEMMA FormsGrow ==
    ASSUME NEW form, NEW m \in Nat, NEW n \in Nat, m <= n, FormOK(form, m)
    PROVE  FormOK(form, n)
  <1>1. \A i : i \in 0..m => i \in 0..n
    OBVIOUS
  <1>2. \A i : i \in 0..m - 1 => i \in 0..n - 1
    OBVIOUS
  <1>3. form \in [op: {"Create"}, position: 0..m] => form \in [op: {"Create"}, position: 0..n]
    BY <1>1
  <1> QED
    BY <1>2, <1>3 DEF FormOK

(* What a write has to ensure. *)
LEMMA EvaluationWritten ==
    ASSUME EvaluationInv,
           criteria' \in [Criteria -> Scoring!Row],
           Scoring!Distinct(criteria'),
           scores' \subseteq ScoreRows,
           \A s \in scores' : s.criterion \in Scoring!Listed',
           Created \subseteq Created',
           \A c \in Scoring!Listed' : criteria'[c].position < Cardinality(Created)',
           \/ UNCHANGED forms
           \/ \E r \in Requests : forms' = [forms EXCEPT ![r] = Scoring!Empty]
    PROVE  EvaluationInv'
  <1>1. /\ Cardinality(Created)' \in Nat /\ Cardinality(Created) <= Cardinality(Created)'
        /\ Cardinality(Created) \in Nat
    <2>1. IsFiniteSet(Created') /\ IsFiniteSet(Created)
      BY CriteriaAssumption, FS_Subset DEF Created
    <2> QED
      BY <2>1, FS_Subset, FS_CardinalityType
  <1>2. \A s \in Requests : FormOK(forms'[s], Cardinality(Created)')
    <2> SUFFICES ASSUME NEW s \in Requests PROVE FormOK(forms'[s], Cardinality(Created)')
      OBVIOUS
    <2>1. forms'[s] = forms[s] \/ forms'[s] = Scoring!Empty
      BY DEF EvaluationInv
    <2>2. FormOK(forms[s], Cardinality(Created)')
      BY <1>1, FormsGrow DEF EvaluationInv
    <2> QED
      BY <2>1, <2>2 DEF FormOK
  <1>3. \A s \in Requests : FormOK(forms[s], Cardinality(Created))'
    BY <1>2 DEF FormOK, Scoring!Empty, Scoring!Score
  <1>4. DOMAIN forms' = Requests
    BY DEF EvaluationInv
  <1>5. Scoring!TypeOK'
    <2>1. \A s \in Requests : forms'[s].op \in {"None", "Create", "Reorder", "Score"}
      BY <1>2 DEF FormOK, Scoring!Empty
    <2> QED
      BY <2>1 DEF Scoring!TypeOK, Scoring!Row, Scoring!Absent, Scoring!Deleted, Scoring!Placed,
         ScoreRows, Scoring!Score
  <1>6. Scoring!CriteriaStayInOrder'
    BY DEF Scoring!CriteriaStayInOrder, Scoring!Distinct, Scoring!Listed
  <1> QED
    BY <1>3, <1>4, <1>5, <1>6 DEF EvaluationInv

LEMMA InsertKeeps ==
    ASSUME EvaluationInv, NEW r \in Requests, NEW c \in Criteria, Scoring!InsertCriterion(r, c)
    PROVE  EvaluationInv'
  <1>1. PICK p \in 0..Cardinality(Created) : p = forms[r].position
    BY DEF Scoring!InsertCriterion, Scoring!Doing, EvaluationInv, FormOK, Scoring!Empty
  <1>2. PICK new : new = Scoring!Placed(p)
    OBVIOUS
  <1>3. /\ criteria' = [criteria EXCEPT ![c] = new]
        /\ criteria[c] = Scoring!Absent
        /\ Scoring!Distinct(criteria')
        /\ forms' = [forms EXCEPT ![r] = Scoring!Empty]
        /\ scores' = scores
    BY <1>1, <1>2 DEF Scoring!InsertCriterion, Scoring!End
  <1>4. new.state = "placed" /\ new.position = p /\ new # Scoring!Absent
    BY <1>2 DEF Scoring!Placed, Scoring!Absent
  <1>5. DOMAIN criteria = Criteria
    BY DEF EvaluationInv, Scoring!TypeOK
  <1>6. Created' = Created \cup {c} /\ c \notin Created
    BY <1>3, <1>4, <1>5 DEF Created, Scoring!Absent
  <1>7. Scoring!Listed' = Scoring!Listed \cup {c}
    BY <1>3, <1>4, <1>5 DEF Scoring!Listed
  <1>8. /\ Cardinality(Created)' = Cardinality(Created) + 1
        /\ Cardinality(Created)' <= Cardinality(Criteria)
        /\ Cardinality(Created)' \in Nat
    <2>1. IsFiniteSet(Created) /\ Created' \subseteq Criteria
      BY CriteriaAssumption, FS_Subset, <1>6 DEF Created
    <2>2. Cardinality(Created)' = Cardinality(Created \cup {c})
      BY <1>6
    <2>3. Cardinality(Created \cup {c}) = Cardinality(Created) + 1
      BY <2>1, <1>6, FS_AddElement
    <2>4. Cardinality(Created \cup {c}) <= Cardinality(Criteria)
      BY <2>1, <1>6, CriteriaAssumption, FS_Subset
    <2> QED
      BY <2>2, <2>3, <2>4, CreatedCounted
  <1>9. new \in Scoring!Row
    BY <1>1, <1>2, <1>8, CreatedCounted DEF Scoring!Row
  <1>a. criteria' \in [Criteria -> Scoring!Row]
    BY <1>3, <1>9 DEF EvaluationInv, Scoring!TypeOK
  <1>b. \A d \in Scoring!Listed' : criteria'[d].position < Cardinality(Created)'
    <2> SUFFICES ASSUME NEW d \in Scoring!Listed'
                 PROVE  criteria'[d].position < Cardinality(Created)'
      OBVIOUS
    <2>1. CASE d = c
      BY <2>1, <1>1, <1>3, <1>4, <1>5, <1>8, CreatedCounted
    <2>2. CASE d # c
      <3>1. d \in Scoring!Listed /\ d \in Criteria
        BY <2>2, <1>7 DEF Scoring!Listed
      <3>2. criteria'[d] = criteria[d]
        BY <2>2, <3>1, <1>3, <1>5
      <3>3. criteria[d].position \in Nat /\ criteria[d].position < Cardinality(Created)
        BY <3>1, RowFields DEF EvaluationInv
      <3> QED
        BY <3>2, <3>3, <1>8, CreatedCounted
    <2> QED
      BY <2>1, <2>2
  <1>c. /\ scores' \subseteq ScoreRows
        /\ \A s \in scores' : s.criterion \in Scoring!Listed'
    BY <1>3, <1>7 DEF EvaluationInv, Scoring!TypeOK, Scoring!CriteriaStayInOrder,
       ScoreRows
  <1>d. Created \subseteq Created' /\ Scoring!Distinct(criteria')
    BY <1>3, <1>6
  <1>e. \E s \in Requests : forms' = [forms EXCEPT ![s] = Scoring!Empty]
    BY <1>3
  <1> QED
    BY <1>a, <1>b, <1>c, <1>d, <1>e, EvaluationWritten

LEMMA OrderKeeps ==
    ASSUME EvaluationInv, NEW r \in Requests, Scoring!WriteOrder(r)
    PROVE  EvaluationInv'
  <1>1. PICK form : form = forms[r]
    OBVIOUS
  <1>2. /\ DOMAIN form.order \subseteq Criteria
        /\ \A c \in DOMAIN form.order : form.order[c] \in 0..Cardinality(Created) - 1
    BY <1>1 DEF Scoring!WriteOrder, Scoring!Doing, EvaluationInv, FormOK, Scoring!Empty
  <1>3. PICK moved : moved = Scoring!Moved(form)
    OBVIOUS
  <1>4. moved \subseteq DOMAIN form.order /\ moved \subseteq Scoring!Listed
    BY <1>1, <1>3 DEF Scoring!WriteOrder, Scoring!Movable, Scoring!Moved
  <1>5. /\ criteria' = [c \in Criteria |->
               IF c \in moved THEN Scoring!Placed(form.order[c]) ELSE criteria[c]]
        /\ Scoring!Distinct(criteria')
        /\ forms' = [forms EXCEPT ![r] = Scoring!Empty]
        /\ scores' = scores
    BY <1>1, <1>3 DEF Scoring!WriteOrder, Scoring!Movable, Scoring!Reordered, Scoring!End
  <1>6. ASSUME NEW c \in moved
        PROVE  /\ criteria'[c] \in Scoring!Row /\ criteria'[c] # Scoring!Absent
               /\ criteria'[c].state = "placed"
               /\ criteria'[c].position < Cardinality(Created)
    <2>1. PICK p \in 0..Cardinality(Created) - 1 : p = form.order[c]
      BY <1>2, <1>4
    <2>2. criteria'[c] = Scoring!Placed(p)
      BY <2>1, <1>2, <1>4, <1>5
    <2>3. p \in 0..Cardinality(Criteria) - 1 /\ p < Cardinality(Created)
      BY <2>1, CreatedCounted
    <2> QED
      BY <2>2, <2>3, CreatedCounted DEF Scoring!Row, Scoring!Placed, Scoring!Absent
  <1>7. \A c \in Criteria \ moved : criteria'[c] = criteria[c]
    BY <1>5
  <1>8. Scoring!Listed' = Scoring!Listed
    BY <1>4, <1>6, <1>7 DEF Scoring!Listed
  <1>9. Created' = Created
    <2>1. \A c \in moved : c \in Created
      BY <1>4, RowFields DEF Scoring!Listed
    <2> QED
      BY <2>1, <1>6, <1>7 DEF Created, Scoring!Absent
  <1>a. criteria' \in [Criteria -> Scoring!Row]
    BY <1>5, <1>6, <1>7 DEF EvaluationInv, Scoring!TypeOK
  <1>b. \A c \in Scoring!Listed' : criteria'[c].position < Cardinality(Created)'
    <2>1. Cardinality(Created)' = Cardinality(Created)
      BY <1>9
    <2>2. Scoring!Listed \subseteq Criteria
      BY DEF Scoring!Listed
    <2> QED
      BY <2>1, <2>2, <1>6, <1>7, <1>8 DEF EvaluationInv
  <1>c. /\ scores' \subseteq ScoreRows
        /\ \A s \in scores' : s.criterion \in Scoring!Listed'
    BY <1>5, <1>8 DEF EvaluationInv, Scoring!TypeOK, Scoring!CriteriaStayInOrder,
       ScoreRows
  <1>d. Created \subseteq Created' /\ Scoring!Distinct(criteria')
    BY <1>5, <1>9
  <1>e. \E s \in Requests : forms' = [forms EXCEPT ![s] = Scoring!Empty]
    BY <1>5
  <1> QED
    BY <1>a, <1>b, <1>c, <1>d, <1>e, EvaluationWritten

LEMMA DeletionKeeps ==
    ASSUME EvaluationInv, NEW c \in Criteria, Scoring!DeleteCriterion(c)
    PROVE  EvaluationInv'
  <1>1. /\ c \in Scoring!Listed
        /\ criteria' = [criteria EXCEPT ![c] = Scoring!Deleted]
        /\ scores' = {s \in scores : s.criterion # c}
        /\ UNCHANGED forms
    BY DEF Scoring!DeleteCriterion
  <1>2. /\ Scoring!Deleted.state = "deleted" /\ Scoring!Deleted # Scoring!Absent
        /\ Scoring!Deleted \in Scoring!Row
    BY DEF Scoring!Deleted, Scoring!Absent, Scoring!Row
  <1>3. DOMAIN criteria = Criteria
    BY DEF EvaluationInv, Scoring!TypeOK
  <1>4. Created' = Created
    BY <1>1, <1>2, <1>3, RowFields DEF Created, Scoring!Absent
  <1>5. Scoring!Listed' = Scoring!Listed \ {c}
    BY <1>1, <1>2, <1>3 DEF Scoring!Listed
  <1>6. criteria' \in [Criteria -> Scoring!Row]
    BY <1>1, <1>2 DEF EvaluationInv, Scoring!TypeOK
  <1>7. \A d \in Scoring!Listed' : criteria'[d] = criteria[d]
    BY <1>1, <1>3, <1>5 DEF Scoring!Listed
  <1>8. Cardinality(Created)' = Cardinality(Created)
    BY <1>4
  <1>9. \A d \in Scoring!Listed' : criteria'[d].position < Cardinality(Created)'
    BY <1>5, <1>7, <1>8 DEF EvaluationInv
  <1>a. Scoring!Distinct(criteria')
    BY <1>5, <1>7 DEF Scoring!Distinct, EvaluationInv, Scoring!CriteriaStayInOrder,
       Scoring!Listed
  <1>b. scores' \subseteq ScoreRows /\ \A s \in scores' : s.criterion \in Scoring!Listed'
    BY <1>1, <1>5 DEF EvaluationInv, Scoring!TypeOK, Scoring!CriteriaStayInOrder, ScoreRows
  <1>c. Created \subseteq Created'
    BY <1>4
  <1> QED
    BY <1>1, <1>6, <1>9, <1>a, <1>b, <1>c, EvaluationWritten

LEMMA WriteScoreKeeps ==
    ASSUME EvaluationInv, NEW r \in Requests, Scoring!WriteScore(r)
    PROVE  EvaluationInv'
  <1>1. /\ forms[r].score \in ScoreRows
        /\ forms[r].score \in scores \/ forms[r].score.criterion \in Scoring!Listed
    BY DEF Scoring!WriteScore, Scoring!Doing, Scoring!Writable, EvaluationInv, FormOK,
       Scoring!Empty
  <1>2. /\ scores' = scores \cup {forms[r].score}
        /\ forms' = [forms EXCEPT ![r] = Scoring!Empty]
        /\ criteria' = criteria
    BY DEF Scoring!WriteScore, Scoring!End
  <1>3. UNCHANGED <<Created, Scoring!Listed>>
    BY <1>2 DEF Created, Scoring!Listed, Scoring!Absent
  <1>4. scores' \subseteq ScoreRows /\ \A s \in scores' : s.criterion \in Scoring!Listed'
    BY <1>1, <1>2, <1>3 DEF EvaluationInv, Scoring!TypeOK, Scoring!CriteriaStayInOrder, ScoreRows
  <1>5. criteria' \in [Criteria -> Scoring!Row]
    BY <1>2 DEF EvaluationInv, Scoring!TypeOK
  <1>6. Scoring!Distinct(criteria')
    BY <1>2 DEF Scoring!Distinct, EvaluationInv, Scoring!CriteriaStayInOrder, Scoring!Listed
  <1>7. Cardinality(Created)' = Cardinality(Created)
    BY <1>3
  <1>8. \A d \in Scoring!Listed' : criteria'[d].position < Cardinality(Created)'
    BY <1>2, <1>3, <1>7 DEF EvaluationInv
  <1>9. /\ Created \subseteq Created'
        /\ \E s \in Requests : forms' = [forms EXCEPT ![s] = Scoring!Empty]
    BY <1>2, <1>3
  <1> QED
    BY <1>4, <1>5, <1>6, <1>8, <1>9, EvaluationWritten

LEMMA ReadFormsKeep ==
    ASSUME EvaluationInv, NEW r \in Requests,
           \/ Scoring!CreateCriterion(r)
           \/ Scoring!ReorderCriteria(r)
           \/ Scoring!FormFails(r)
           \/ \E c \in Criteria, p \in Proposals : Scoring!UpsertScore(r, p, c)
    PROVE  EvaluationInv'
  <1>1. CASE Scoring!CreateCriterion(r)
    <2>1. PICK n \in Nat : /\ Scoring!NextPosition(n)
                           /\ Scoring!Begin(r, [op |-> "Create", position |-> n])
      BY <1>1, CreatedCounted DEF Scoring!CreateCriterion
    <2>2. n <= Cardinality(Created)
      <3>1. CASE n = 0
        BY <3>1, CreatedCounted
      <3>2. ASSUME NEW c \in Scoring!Listed, criteria[c].position = n - 1
            PROVE  n <= Cardinality(Created)
        BY <3>2, CreatedCounted DEF EvaluationInv
      <3> QED
        BY <2>1, <3>1, <3>2 DEF Scoring!NextPosition
    <2>3. n \in 0..Cardinality(Created)
      BY <2>2, CreatedCounted
    <2>4. PICK form : form = [op |-> "Create", position |-> n]
      OBVIOUS
    <2>5. FormOK(form, Cardinality(Created))
      BY <2>3, <2>4 DEF FormOK
    <2> QED
      BY <1>1, <2>1, <2>4, <2>5, FormFilled DEF Scoring!CreateCriterion, Scoring!Begin
  <1>2. CASE Scoring!ReorderCriteria(r)
    <2>1. PICK order \in Scoring!Orders(Scoring!Listed) :
              Scoring!Begin(r, [op |-> "Reorder", order |-> order, read |-> criteria])
      BY <1>2 DEF Scoring!ReorderCriteria
    <2>2. order \in [Scoring!Listed -> 0..Scoring!Cardinality(Scoring!Listed) - 1]
      BY DEF Scoring!Orders
    <2>3. \A c \in Scoring!Listed : order[c] \in 0..Cardinality(Created) - 1
      BY <2>2, CreatedCounted
    <2>4. PICK form : form = [op |-> "Reorder", order |-> order, read |-> criteria]
      OBVIOUS
    <2>5. FormOK(form, Cardinality(Created))
      BY <2>2, <2>3, <2>4 DEF FormOK, Scoring!Listed
    <2> QED
      BY <1>2, <2>1, <2>4, <2>5, FormFilled DEF Scoring!ReorderCriteria, Scoring!Begin
  <1>3. CASE Scoring!FormFails(r)
    <2>1. FormOK(Scoring!Empty, Cardinality(Created))
      BY DEF FormOK
    <2> QED
      BY <1>3, <2>1, FormFilled DEF Scoring!FormFails, Scoring!End
  <1>4. ASSUME NEW c \in Criteria, NEW p \in Proposals, Scoring!UpsertScore(r, p, c)
        PROVE  EvaluationInv'
    <2>1. PICK form : form = [op |-> "Score", score |-> Scoring!Score(p, c),
                              update |-> Scoring!Score(p, c) \in scores]
      OBVIOUS
    <2>2. Scoring!Score(p, c) \in ScoreRows
      BY DEF ScoreRows
    <2>3. FormOK(form, Cardinality(Created))
      BY <2>1, <2>2 DEF FormOK
    <2> QED
      BY <1>4, <2>1, <2>3, FormFilled DEF Scoring!UpsertScore, Scoring!Begin
  <1> QED
    BY <1>1, <1>2, <1>3, <1>4

LEMMA EvaluationSteps ==
    ASSUME EvaluationInv, [Scoring!Next]_(Scoring!evaluationVars)
    PROVE  EvaluationInv'
  <1>1. CASE UNCHANGED Scoring!evaluationVars
    <2>1. UNCHANGED <<criteria, scores, forms>>
      BY <1>1 DEF Scoring!evaluationVars
    <2>2. UNCHANGED <<Created, Scoring!Listed>>
      BY <2>1 DEF Created, Scoring!Listed, Scoring!Absent
    <2>3. scores' \subseteq ScoreRows /\ \A s \in scores' : s.criterion \in Scoring!Listed'
      BY <2>1, <2>2 DEF EvaluationInv, Scoring!TypeOK, Scoring!CriteriaStayInOrder, ScoreRows
    <2>4. criteria' \in [Criteria -> Scoring!Row] /\ Created \subseteq Created'
      BY <2>1, <2>2 DEF EvaluationInv, Scoring!TypeOK
    <2>5. Scoring!Distinct(criteria')
      BY <2>1 DEF Scoring!Distinct, EvaluationInv, Scoring!CriteriaStayInOrder, Scoring!Listed
    <2>6. Cardinality(Created)' = Cardinality(Created)
      BY <2>2
    <2>7. \A d \in Scoring!Listed' : criteria'[d].position < Cardinality(Created)'
      BY <2>1, <2>2, <2>6 DEF EvaluationInv
    <2> QED
      BY <2>1, <2>3, <2>4, <2>5, <2>7, EvaluationWritten
  <1>2. CASE Scoring!Next
    BY <1>2, InsertKeeps, OrderKeeps, DeletionKeeps, WriteScoreKeeps, ReadFormsKeep
       DEF Scoring!Next, Scoring!FormStep
  <1> QED
    BY <1>1, <1>2

(* Positions stay below the number of criteria that were ever created      *)
(* (next_criterion_position, reorder_criteria).                            *)
THEOREM EvaluationKeepsInvariant == ServicesSpec => []EvaluationInv
  <1>1. EvaluationInv /\ [Scoring!Next]_(Scoring!evaluationVars) => EvaluationInv'
    BY EvaluationSteps
  <1> QED
    BY <1>1, EvaluationStarts, ComponentSpecs, PTL DEF Scoring!Spec

(* Overlapping creations, reorders and deletions, which all compute        *)
(* positions from an earlier read, never leave two criteria in one place   *)
(* or a score of a criterion that is gone (create_criterion,               *)
(* reorder_criteria, upsert_score).                                        *)
THEOREM OrdersStay == ServicesSpec => []CriteriaStayInOrder
  <1>1. EvaluationInv => CriteriaStayInOrder
    BY DEF EvaluationInv, CriteriaStayInOrder
  <1> QED
    BY <1>1, EvaluationKeepsInvariant, PTL

--------------------------------------------------------------------------------
(* The state of every service is well formed.                              *)
THEOREM ServicesWellFormed == ServicesSpec => []ServicesTypeOK
  <1>1. SP!Bounds /\ WP!UsersAreUsers
    BY BoundsAssumption, MembersAssumption DEF SP!Bounds, WP!UsersAreUsers
  <1>2. SP!IInv => SignIn!TypeOK
    BY DEF SP!IInv, SP!TypeOK, SignIn!TypeOK, SP!Token, SignIn!Token, SP!NoCall, SignIn!NoCall,
       SP!Steps, SignIn!Steps
  <1>3. WP!IInv => Membership!TypeOK
    BY DEF WP!IInv, WP!TypeOK, Membership!TypeOK, WP!Owner, Membership!Owner, WP!Member,
       Membership!Member, WP!Unused, Membership!Unused, WP!Removed, Membership!Removed,
       WP!Nothing, Membership!Nothing, WP!Assignable, Membership!Assignable, WP!MemberRoles,
       Membership!MemberRoles
  <1>4. RP!IInv => Room!TypeOK
    <2>1. RP!Connection = Room!Connection
      BY DEF RP!Connection, Room!Connection, RP!Steps, Room!Steps, RP!Joining, Room!Joining,
         RP!Reading, Room!Reading
    <2>2. /\ RP!Kept(present, presence, speakers, timer)
                = Room!Kept(present, presence, speakers, timer)
          /\ RP!Nobody = Room!Nobody
      BY DEF RP!Kept, Room!Kept, RP!NoSpeakers, Room!NoSpeakers, RP!Nobody, Room!Nobody
    <2> QED
      BY <2>1, <2>2 DEF RP!IInv, RP!TypeOK, Room!TypeOK
  <1>5. QP!IInv => Queue!TypeOK
    <2>1. QP!Connection = Queue!Connection
      BY DEF QP!Connection, Queue!Connection, QP!Steps, Queue!Steps, QP!Joining, Queue!Joining,
         QP!Reading, Queue!Reading
    <2>2. /\ QP!Kept(present, presence, speakers, timer)
                = Queue!Kept(present, presence, speakers, timer)
          /\ QP!Nobody = Queue!Nobody
      BY DEF QP!Kept, Queue!Kept, QP!NoSpeakers, Queue!NoSpeakers, QP!Nobody, Queue!Nobody
    <2> QED
      BY <2>1, <2>2 DEF QP!IInv, QP!TypeOK, Queue!TypeOK
  <1>6. ReviewInv /\ ActionInv /\ SP!IInv /\ AccountInv /\ MeetingInv /\ DiscussionInv /\ WP!IInv
            /\ ConnectionInv /\ DiscoveryInv /\ EvaluationInv
        => ServicesTypeOK
    BY <1>2, <1>3, <1>4, <1>5 DEF ServicesTypeOK, ReviewInv, ActionInv, AccountInv, MeetingInv,
       DiscussionInv, ConnectionInv, DiscoveryInv, EvaluationInv
  <1> QED
    BY <1>1, <1>6, ReviewInvariant, SP!Invariant, WP!Invariant, ComponentSpecs,
       ActionsKeepInvariant, AccountsKeepInvariant, MeetingsKeepInvariant, DiscussionKeepsInvariant,
       ConnectionsKeepInvariant, DiscoveryKeepsInvariant, EvaluationKeepsInvariant, PTL

================================================================================
