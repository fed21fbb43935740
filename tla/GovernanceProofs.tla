---------------------------- MODULE GovernanceProofs ----------------------------
(***************************************************************************)
(* Proofs about Governance for any users, requests, proposals, objections  *)
(* and sessions.  The inductive invariant has three parts: the types, what *)
(* is so of the committed rows (RowsOK), and what is still so of the facts *)
(* a request in flight relies on (TxnOK).  Every step leaves opened        *)
(* sessions, ballots and a lock as they are (Kept), which is why the facts *)
(* a request read stay true until it commits.                              *)
(***************************************************************************)
EXTENDS Governance, FiniteSetTheorems, TLAPS

(* The outcome a lock may rest on. *)
Decided(s) == session[s].status = "CLOSED" /\ QuorumReached(s)

(* A session's row and its snapshot tables agree. *)
SessionOK(s) ==
    /\ session[s].status \in {"OPEN", "CLOSED"} => session[s].opened
    /\ session[s].status = "CLOSED" => session[s].closed
    /\ session[s].status = "CANCELLED" => session[s].cancelled
    /\ session[s].cancelled => session[s].status \in {"CANCELLED", "DELETED"}
    /\ session[s].opened =>
        /\ session[s].status \in {"OPEN", "CLOSED", "CANCELLED"}
        /\ session[s].choices # {}
        /\ session[s].eligibleCount = Cardinality(session[s].eligible)
        /\ Event("VOTING_OPENED", s) \in outbox
    /\ ~session[s].opened => session[s].eligible = {} /\ session[s].choices = {}

(* What a lock rests on. *)
OutcomeOK ==
    lock # NoLock =>
        /\ session[lock.session].status = "CLOSED"
        /\ QuorumReached(lock.session)
        /\ lock.winner \in session[lock.session].choices
        /\ proposal[lock.winner].status \notin Gone

RowsOK ==
    /\ DecisionCheck(decision)
    /\ LockedIffApproved
    /\ \A s \in Sessions : SessionOK(s)
    /\ IsFiniteSet(ballots)
    /\ BallotsAreLegitimate
    /\ ChoicesExist
    /\ OneUnfinishedSession
    /\ OutcomeOK

(* What request t read and still relies on. *)
TxnOK(t) ==
    /\ t.op = "TransitionDecision" => t.target # "LOCKED"
    /\ t.op = "OpenSession" => t.choices # {}
    /\ t.op = "CastVote" =>
        /\ t.ballot.voter \in session[t.ballot.session].eligible
        /\ t.ballot.choice \in session[t.ballot.session].choices
    /\ t.op = "LockTally" => Decided(t.session)
    /\ t.op = "LockCommit" =>
        Decided(t.lock.session) /\ t.lock.winner \in session[t.lock.session].choices

IInv == TypeOK /\ RowsOK /\ \A r \in Requests : TxnOK(pending[r])

(* The session may still be opened or closed. *)
Unfinished(status) == status \in {"DRAFT", "OPEN"}

(* What no step undoes. *)
Kept ==
    /\ \A s \in Sessions : session[s].opened =>
        /\ session'[s].opened
        /\ session'[s].eligible = session[s].eligible
        /\ session'[s].choices = session[s].choices
        /\ session'[s].eligibleCount = session[s].eligibleCount
        /\ session'[s].quorum = session[s].quorum
        /\ session[s].status = "CLOSED" => session'[s].status = "CLOSED"
    /\ \A s \in Sessions : session[s].cancelled => session'[s].cancelled
    /\ ballots \subseteq ballots'
    /\ lock # NoLock => lock' = lock

--------------------------------------------------------------------------------
(* A request in flight carries the fields of its operation. *)
LEMMA PendingFields ==
    ASSUME NEW t \in Pending
    PROVE  /\ t.op = "UpdateDecision" => t.content \in Contents
           /\ t.op = "TransitionDecision" =>
                t.target \in DecisionStatuses
           /\ t.op = "CreateProposal" => t.user \in Users /\ t.content \in Contents
           /\ t.op = "UpdateProposal" => t.proposal \in Proposals /\ t.content \in Contents
           /\ t.op = "TransitionProposal" =>
                t.proposal \in Proposals /\ t.target \in ProposalStatuses
           /\ t.op = "DeleteProposal" => t.proposal \in Proposals
           /\ t.op = "CreateObjection" =>
                t.user \in Users /\ t.on \in Proposals /\ t.severity \in Severities
           /\ t.op = "UpdateObjection" =>
                t.objection \in Objections /\ t.severity \in Severities
           /\ t.op = "TransitionObjection" =>
                t.objection \in Objections /\ t.target \in ObjectionStatuses
           /\ t.op = "CreateSession" => t.quorum \in Quorums
           /\ t.op \in {"CloseSession", "CancelSession"} => t.session \in Sessions
           /\ t.op = "OpenSession" =>
                /\ t.session \in Sessions
                /\ t.eligible \in SUBSET Users
                /\ t.choices \in SUBSET Proposals
           /\ t.op = "CastVote" => t.ballot \in Ballot
           /\ t.op \in {"LockDecision", "LockTally"} =>
                t.session \in Sessions /\ t.decisionContent \in Contents
           /\ t.op = "LockCommit" => t.lock \in Lock
  BY DEF Pending, Idle, DecisionTxn, TransitionTxn, ProposalTxn, ObjectionTxn, SessionTxn,
         OpeningTxn, BallotTxn, LockTxn, LockCommitTxn

--------------------------------------------------------------------------------
(* What a request relies on survives every step that keeps what is Kept. *)
LEMMA VotesGrow ==
    ASSUME NEW s \in Sessions, TypeOK, IsFiniteSet(ballots'), ballots \subseteq ballots',
           QuorumReached(s),
           session'[s].eligible = session[s].eligible,
           session'[s].quorum = session[s].quorum
    PROVE  QuorumReached(s)'
  <1>1. VotesIn(s) \subseteq VotesIn(s)'
    BY DEF VotesIn
  <1>2. IsFiniteSet(VotesIn(s)')
    BY FS_Subset DEF VotesIn
  <1>3. /\ IsFiniteSet(VotesIn(s))
        /\ Cardinality(VotesIn(s)) <= Cardinality(VotesIn(s)')
    BY <1>1, <1>2, FS_Subset
  <1>4. Cardinality(VotesIn(s)) \in Nat /\ Cardinality(VotesIn(s)') \in Nat
    BY <1>2, <1>3, FS_CardinalityType
  <1> DEFINE asked == session[s].quorum * Cardinality(session[s].eligible)
             given == Cardinality(VotesIn(s))
             later == Cardinality(VotesIn(s)')
  <1>5. asked \in Int
    <2>1. session[s].quorum \in Int
      BY DEF TypeOK, Session
    <2>2. Cardinality(session[s].eligible) \in Nat
      BY FiniteAssumption, FS_Subset, FS_CardinalityType DEF TypeOK, Session
    <2> QED
      BY <2>1, <2>2
  <1>6. 100 * given >= asked
    BY DEF QuorumReached
  <1>7. 100 * later >= asked
    <2> HIDE DEF asked, given, later
    <2>1. given \in Nat /\ later \in Nat /\ given <= later
      BY <1>3, <1>4 DEF given, later
    <2> QED
      BY <1>5, <1>6, <2>1
  <1> QED
    BY <1>7 DEF QuorumReached

(* Rounding the required votes up loses nothing: a met quorum is reached.  *)
LEMMA RoundedUp ==
    ASSUME NEW asked \in Nat, NEW given \in Nat, given >= (asked + 99) \div 100
    PROVE  100 * given >= asked
  OBVIOUS

LEMMA MetIsReached ==
    ASSUME NEW s \in Sessions, TypeOK, SessionOK(s), session[s].status = "CLOSED",
           IsFiniteSet(ballots), QuorumMet(s)
    PROVE  QuorumReached(s)
  <1>1. session[s].eligibleCount = Cardinality(session[s].eligible)
    BY DEF SessionOK
  <1>2. session[s].quorum \in Nat /\ session[s].eligibleCount \in Nat
    BY DEF TypeOK, Session
  <1>3. session[s].eligibleCount * session[s].quorum \in Nat
    BY <1>2
  <1>4. Cardinality(VotesIn(s)) \in Nat
    BY FS_Subset, FS_CardinalityType DEF VotesIn
  <1>5. 100 * Cardinality(VotesIn(s)) >= session[s].eligibleCount * session[s].quorum
    BY <1>3, <1>4, RoundedUp DEF QuorumMet, Required
  <1>6. session[s].eligibleCount * session[s].quorum
            = session[s].quorum * session[s].eligibleCount
    BY <1>2
  <1> QED
    BY <1>1, <1>5, <1>6 DEF QuorumReached

LEMMA DecidedKept ==
    ASSUME NEW s \in Sessions, TypeOK, SessionOK(s), IsFiniteSet(ballots'), Kept, Decided(s)
    PROVE  Decided(s)'
  <1>1. session[s].opened /\ session[s].status = "CLOSED"
    BY DEF Decided, SessionOK
  <1>2. QuorumReached(s)'
    BY <1>1, VotesGrow DEF Kept, Decided
  <1> QED
    BY <1>1, <1>2 DEF Decided, Kept

LEMMA TxnKept ==
    ASSUME NEW t \in Pending, TypeOK, RowsOK, IsFiniteSet(ballots'), Kept, TxnOK(t)
    PROVE  TxnOK(t)'
  <1>1. ASSUME t.op = "CastVote"
        PROVE  /\ t.ballot.voter \in session'[t.ballot.session].eligible
               /\ t.ballot.choice \in session'[t.ballot.session].choices
    <2>1. t.ballot.session \in Sessions
      BY <1>1, PendingFields DEF Ballot
    <2> QED
      BY <1>1, <2>1 DEF Kept, TxnOK, RowsOK, SessionOK
  <1>2. ASSUME t.op = "LockTally"
        PROVE  Decided(t.session)'
    BY <1>2, PendingFields, DecidedKept DEF TxnOK, RowsOK
  <1>3. ASSUME t.op = "LockCommit"
        PROVE  Decided(t.lock.session)' /\ t.lock.winner \in session'[t.lock.session].choices
    <2>1. t.lock.session \in Sessions
      BY <1>3, PendingFields DEF Lock
    <2>2. Decided(t.lock.session)'
      BY <1>3, <2>1, DecidedKept DEF TxnOK, RowsOK
    <2> QED
      BY <1>3, <2>1, <2>2 DEF Kept, TxnOK, RowsOK, SessionOK, Decided
  <1> QED
    BY <1>1, <1>2, <1>3 DEF TxnOK

--------------------------------------------------------------------------------
(* A step that only changes what is in flight. *)
LEMMA HoldStep ==
    ASSUME IInv, NEW r \in Requests, NEW txn \in Pending, TxnOK(txn),
           pending' = [pending EXCEPT ![r] = txn], UNCHANGED tables
    PROVE  IInv' /\ Kept
  <1>1. TypeOK'
    BY DEF IInv, TypeOK, tables
  <1>2. RowsOK' /\ Kept
    BY DEF IInv, RowsOK, tables, DecisionCheck, LockedIffApproved, SessionOK,
           BallotsAreLegitimate, ChoicesExist, OneUnfinishedSession, OutcomeOK,
           QuorumReached, VotesIn, Kept
  <1>3. ASSUME NEW q \in Requests
        PROVE  TxnOK(pending[q])'
    <2>1. pending[q] \in Pending /\ pending \in [Requests -> Pending]
      BY DEF IInv, TypeOK
    <2>2. CASE q = r
      <3>1. TxnOK(txn)'
        BY <1>2, TxnKept DEF IInv, RowsOK
      <3> QED
        BY <2>1, <2>2, <3>1 DEF TxnOK
    <2>3. CASE q # r
      <3>1. TxnOK(pending[q])
        BY DEF IInv
      <3>2. pending'[q] = pending[q]
        BY <2>1, <2>3
      <3> QED
        BY <1>2, <2>1, <3>1, <3>2, TxnKept DEF IInv, RowsOK, TxnOK
    <2> QED
      BY <2>2, <2>3
  <1> QED
    BY <1>1, <1>2, <1>3 DEF IInv

(* A step that ends request r and leaves the rows well formed and Kept. *)
LEMMA FinishStep ==
    ASSUME IInv, NEW r \in Requests, Finish(r), TypeOK', RowsOK', Kept
    PROVE  IInv'
  <1>1. pending \in [Requests -> Pending]
    BY DEF IInv, TypeOK
  <1>2. ASSUME NEW q \in Requests
        PROVE  TxnOK(pending[q])'
    <2>1. CASE q = r
      BY <1>1, <2>1 DEF Finish, Idle, TxnOK
    <2>2. CASE q # r
      <3>1. TxnOK(pending[q]) /\ pending[q] \in Pending
        BY <1>1 DEF IInv
      <3>2. pending'[q] = pending[q]
        BY <1>1, <2>2 DEF Finish
      <3> QED
        BY <3>1, <3>2, TxnKept DEF IInv, RowsOK, TxnOK
    <2> QED
      BY <2>1, <2>2
  <1> QED
    BY <1>2 DEF IInv

--------------------------------------------------------------------------------
(* What a handler holds after its guards is a request whose facts hold. *)
LEMMA ReadStepOK ==
    ASSUME IInv, NEW r \in Requests, ReadStep(r)
    PROVE  IInv' /\ Kept
  <1>0. PICK u \in Users : ReadStep(r)!(u)
    BY DEF ReadStep
  <1> USE DEF Pending, DecisionTxn, TransitionTxn, ProposalTxn, ObjectionTxn, SessionTxn,
              OpeningTxn, BallotTxn, LockTxn, Hold, TxnOK
  <1>1. ASSUME NEW c \in Contents, UpdateDecision(r, u, c)
        PROVE  IInv' /\ Kept
    BY <1>1, HoldStep DEF UpdateDecision
  <1>2. ASSUME NEW c \in Contents, CreateProposal(r, u, c)
        PROVE  IInv' /\ Kept
    BY <1>2, HoldStep DEF CreateProposal
  <1>3. ASSUME NEW target \in DecisionStatuses, TransitionDecision(r, u, target)
        PROVE  IInv' /\ Kept
    <2>1. target # "LOCKED"
      BY <1>3 DEF TransitionDecision, AllowedTransitions, DecisionStatuses
    <2> DEFINE events == IF decision.status = "DRAFT" /\ target = "ACTIVE"
                         THEN {Event("DECISION_ACTIVATED", "decision")} ELSE {}
               txn == [op |-> "TransitionDecision", target |-> target, events |-> events]
    <2>2. events \in SUBSET {Event("DECISION_ACTIVATED", "decision")}
      OBVIOUS
    <2>3. Hold(r, txn)
      BY <1>3 DEF TransitionDecision
    <2> HIDE DEF events
    <2>4. txn \in Pending /\ TxnOK(txn)
      BY <2>1, <2>2
    <2> QED
      BY <2>3, <2>4, HoldStep
  <1>4. ASSUME DeleteDecision(r, u)
        PROVE  IInv' /\ Kept
    BY <1>4, HoldStep DEF DeleteDecision
  <1>5. ASSUME NEW p \in Proposals, NEW c \in Contents, UpdateProposal(r, u, p, c)
        PROVE  IInv' /\ Kept
    BY <1>5, HoldStep DEF UpdateProposal
  <1>6. ASSUME NEW p \in Proposals, NEW target \in ProposalStatuses,
               TransitionProposal(r, u, p, target)
        PROVE  IInv' /\ Kept
    BY <1>6, HoldStep DEF TransitionProposal
  <1>7. ASSUME NEW p \in Proposals, DeleteProposal(r, u, p)
        PROVE  IInv' /\ Kept
    BY <1>7, HoldStep DEF DeleteProposal
  <1>8. ASSUME NEW p \in Proposals, NEW severity \in Severities,
               CreateObjection(r, u, p, severity)
        PROVE  IInv' /\ Kept
    BY <1>8, HoldStep DEF CreateObjection
  <1>9. ASSUME NEW o \in Objections, NEW severity \in Severities,
               UpdateObjection(r, u, o, severity)
        PROVE  IInv' /\ Kept
    BY <1>9, HoldStep DEF UpdateObjection
  <1>10. ASSUME NEW o \in Objections, NEW target \in ObjectionStatuses,
                TransitionObjection(r, u, o, target)
         PROVE  IInv' /\ Kept
    BY <1>10, HoldStep DEF TransitionObjection
  <1>11. ASSUME NEW quorum \in Quorums, CreateSession(r, u, quorum)
         PROVE  IInv' /\ Kept
    BY <1>11, HoldStep DEF CreateSession
  <1>12. ASSUME NEW s \in Sessions, OpenSession(r, u, s)
         PROVE  IInv' /\ Kept
    <2>1. Submitted # {}
      BY <1>12, FS_EmptySet DEF OpenSession
    <2>2. Eligible \in SUBSET Users /\ Submitted \in SUBSET Proposals
      BY DEF Eligible, Submitted
    <2> QED
      BY <1>12, <2>1, <2>2, HoldStep DEF OpenSession
  <1>13. ASSUME NEW s \in Sessions, NEW p \in Proposals, CastVote(r, u, s, p)
         PROVE  IInv' /\ Kept
    BY <1>13, HoldStep DEF CastVote, Ballot
  <1>14. ASSUME NEW s \in Sessions, CloseSession(r, u, s)
         PROVE  IInv' /\ Kept
    BY <1>14, HoldStep DEF CloseSession
  <1>15. ASSUME NEW s \in Sessions, CancelSession(r, u, s)
         PROVE  IInv' /\ Kept
    BY <1>15, HoldStep DEF CancelSession
  <1>16. ASSUME NEW s \in Sessions, LockDecision(r, u, s)
         PROVE  IInv' /\ Kept
    BY <1>16, HoldStep DEF LockDecision, IInv, TypeOK, Decision
  <1> QED
    BY <1>0, <1>1, <1>2, <1>3, <1>4, <1>5, <1>6, <1>7, <1>8, <1>9, <1>10, <1>11, <1>12,
       <1>13, <1>14, <1>15, <1>16

(* The lock handler's later reads: from the count on, the outcome it       *)
(* relies on is decided for good.                                          *)
LEMMA LockStepOK ==
    ASSUME IInv, NEW r \in Requests, LockStep(r)
    PROVE  IInv' /\ Kept
  <1>0. pending[r] \in Pending
    BY DEF IInv, TypeOK
  <1>1. ASSUME LockCountVotes(r)
        PROVE  IInv' /\ Kept
    <2> DEFINE txn == [op |-> "LockTally", session |-> pending[r].session,
                       decisionContent |-> pending[r].decisionContent]
    <2>1. txn \in Pending
      BY <1>0, <1>1, PendingFields DEF LockCountVotes, Pending, LockTxn
    <2>2. TxnOK(txn)
      <3>1. pending[r].session \in Sessions
        BY <1>0, <1>1, PendingFields DEF LockCountVotes
      <3>2. Decided(pending[r].session)
        BY <1>1, <3>1, MetIsReached DEF IInv, RowsOK, LockCountVotes, Decided, ResultAvailable
      <3> QED
        BY <3>2 DEF TxnOK
    <2> QED
      BY <1>1, <2>1, <2>2, HoldStep DEF LockCountVotes, Advance
  <1>2. ASSUME LockTallyVotes(r)
        PROVE  IInv' /\ Kept
    <2>1. PICK p \in Proposals :
            /\ Wins(pending[r].session, p)
            /\ Advance(r, [op |-> "LockCommit",
                           lock |-> [session |-> pending[r].session, winner |-> p,
                                     decisionContent |-> pending[r].decisionContent,
                                     winnerContent |-> proposal[p].content]])
      BY <1>2 DEF LockTallyVotes
    <2>2. /\ pending[r].op = "LockTally"
          /\ pending[r].session \in Sessions
          /\ pending[r].decisionContent \in Contents
      BY <1>0, <1>2, PendingFields DEF LockTallyVotes
    <2> DEFINE txn == [op |-> "LockCommit",
                       lock |-> [session |-> pending[r].session, winner |-> p,
                                 decisionContent |-> pending[r].decisionContent,
                                 winnerContent |-> proposal[p].content]]
    <2>3. txn.lock \in Lock
      BY <2>2 DEF IInv, TypeOK, Proposal, Lock
    <2>4. txn \in Pending
      BY <2>3 DEF Pending, LockCommitTxn
    <2>5. TxnOK(txn)
      <3>1. Decided(pending[r].session)
        BY <2>2 DEF IInv, TxnOK
      <3> QED
        BY <2>1, <3>1 DEF TxnOK, Wins
    <2> QED
      BY <2>1, <2>4, <2>5, HoldStep DEF Advance
  <1> QED
    BY <1>1, <1>2 DEF LockStep

--------------------------------------------------------------------------------
(* Commits to the decision.  A deletion finds no session that was opened,  *)
(* because the choices of an opened session restrict it.                   *)
LEMMA DecisionCommitOK ==
    ASSUME IInv, NEW r \in Requests,
           \/ CommitUpdateDecision(r)
           \/ CommitTransitionDecision(r)
           \/ CommitDeleteDecision(r)
    PROVE  IInv' /\ Kept
  <1>0. pending[r] \in Pending /\ TypeOK /\ RowsOK /\ TxnOK(pending[r])
    BY DEF IInv, TypeOK
  <1>1. Finish(r)
    BY DEF CommitUpdateDecision, CommitTransitionDecision, CommitDeleteDecision
  <1>2. pending' \in [Requests -> Pending]
    BY <1>1 DEF IInv, TypeOK, Finish, Pending
  <1>3. CASE CommitUpdateDecision(r) \/ CommitTransitionDecision(r)
    <2>1. decision' \in Decision
      BY <1>0, <1>3, PendingFields
         DEF TypeOK, Decision, CommitUpdateDecision, CommitTransitionDecision
    <2>2. /\ UNCHANGED <<role, proposal, objection, session, ballots, lock>>
          /\ outbox \subseteq outbox'
      BY <1>3 DEF CommitUpdateDecision, CommitTransitionDecision
    <2>3. TypeOK'
      BY <1>0, <1>2, <2>1, <2>2 DEF TypeOK
    <2>4. decision'.status = "LOCKED" <=> decision.status = "LOCKED"
      BY <1>0, <1>3
         DEF TypeOK, Decision, CommitUpdateDecision, CommitTransitionDecision, RowsOK,
             DecisionCheck, TxnOK
    <2>5. DecisionCheck(decision')
      BY <1>0, <1>3
         DEF TypeOK, Decision, CommitUpdateDecision, CommitTransitionDecision, RowsOK,
             DecisionCheck
    <2>6. RowsOK' /\ Kept
      BY <1>0, <2>2, <2>4, <2>5
         DEF RowsOK, LockedIffApproved, SessionOK, BallotsAreLegitimate, ChoicesExist,
             OneUnfinishedSession, OutcomeOK, QuorumReached, VotesIn, Kept,
             DecisionCheck
    <2> QED
      BY <1>1, <2>3, <2>6, FinishStep
  <1>4. CASE CommitDeleteDecision(r)
    <2>1. /\ lock = NoLock
          /\ decision' = [decision EXCEPT !.status = "DELETED"]
          /\ proposal' = [p \in Proposals |-> [proposal[p] EXCEPT !.status = "DELETED"]]
          /\ objection' = [o \in Objections |-> [objection[o] EXCEPT !.status = "DELETED"]]
          /\ session' = [s \in Sessions |-> [session[s] EXCEPT !.status = "DELETED"]]
          /\ UNCHANGED <<role, ballots, lock, outbox>>
      BY <1>4 DEF CommitDeleteDecision
    <2>2. ASSUME NEW s \in Sessions
          PROVE  ~session[s].opened /\ session[s].choices = {}
      <3>1. session[s].choices = {}
        BY <1>0, <1>4 DEF CommitDeleteDecision, Referenced, TypeOK, Session
      <3> QED
        BY <1>0, <3>1 DEF RowsOK, SessionOK
    <2>3. /\ decision' \in Decision
          /\ proposal' \in [Proposals -> Proposal]
          /\ objection' \in [Objections -> Objection]
          /\ session' \in [Sessions -> Session]
      <3>1. decision' \in Decision
        BY <1>0, <2>1 DEF TypeOK, Decision, Gone
      <3>2. proposal' \in [Proposals -> Proposal]
        BY <1>0, <2>1 DEF TypeOK, Proposal, Gone
      <3>3. objection' \in [Objections -> Objection]
        BY <1>0, <2>1 DEF TypeOK, Objection, Gone
      <3>4. session' \in [Sessions -> Session]
        <4>1. ASSUME NEW v \in Session
              PROVE  [v EXCEPT !.status = "DELETED"] \in Session
          BY <4>1 DEF Session, Gone
        <4> QED
          BY <1>0, <2>1, <4>1 DEF TypeOK
      <3> QED
        BY <3>1, <3>2, <3>3, <3>4
    <2>4. TypeOK'
      BY <1>0, <1>2, <2>1, <2>3 DEF TypeOK
    <2>5. ASSUME NEW s \in Sessions
          PROVE  /\ session'[s].status = "DELETED"
                 /\ session'[s].eligible = session[s].eligible
                 /\ session'[s].choices = {}
                 /\ session'[s].opened = FALSE
                 /\ session'[s].cancelled = session[s].cancelled
      BY <1>0, <2>1, <2>2 DEF TypeOK, Session
    <2>6. \A s \in Sessions : SessionOK(s)'
      BY <1>0, <2>1, <2>2, <2>5 DEF RowsOK, SessionOK
    <2>7. ballots = {}
      BY <1>0, <2>2 DEF RowsOK, BallotsAreLegitimate, TypeOK, Ballot
    <2>8. DecisionCheck(decision') /\ LockedIffApproved'
      BY <1>0, <2>1 DEF RowsOK, LockedIffApproved, DecisionCheck, TypeOK, Decision
    <2>9. RowsOK'
      BY <1>0, <2>1, <2>5, <2>6, <2>7, <2>8
         DEF RowsOK, BallotsAreLegitimate, ChoicesExist, OneUnfinishedSession,
             OutcomeOK, DecisionCheck
    <2>10. Kept
      BY <2>1, <2>2, <2>5 DEF Kept
    <2> QED
      BY <1>1, <2>4, <2>9, <2>10, FinishStep
  <1> QED
    BY <1>3, <1>4

--------------------------------------------------------------------------------
(* Commits to proposals and objections.  Their rows matter to a vote only  *)
(* in that the choices of a session exist.                                 *)
LEMMA ContentCommitOK ==
    ASSUME IInv, NEW r \in Requests, Finish(r),
           UNCHANGED <<role, decision, session, ballots, lock, outbox>>,
           proposal' \in [Proposals -> Proposal],
           objection' \in [Objections -> Objection],
           \A p \in Proposals :
                proposal[p].status \notin Gone /\ Referenced(p) => proposal'[p].status \notin Gone
    PROVE  IInv' /\ Kept
  <1>0. TypeOK /\ RowsOK
    BY DEF IInv
  <1>1. TypeOK'
    BY <1>0 DEF TypeOK, Finish, Pending
  <1>2. ChoicesExist'
    BY <1>0 DEF TypeOK, RowsOK, ChoicesExist, Referenced, Session
  <1>3. OutcomeOK'
    <2>1. CASE lock = NoLock
      BY <2>1 DEF OutcomeOK
    <2>2. CASE lock # NoLock
      <3>1. lock \in Lock /\ lock.session \in Sessions /\ lock.winner \in Proposals
        BY <1>0, <2>2 DEF TypeOK, Lock
      <3>2. Referenced(lock.winner)
        BY <1>0, <2>2, <3>1 DEF RowsOK, OutcomeOK, Referenced
      <3>3. QuorumReached(lock.session)'
        BY <1>0, <2>2 DEF RowsOK, OutcomeOK, QuorumReached, VotesIn
      <3> QED
        BY <1>0, <2>2, <3>1, <3>2, <3>3 DEF RowsOK, OutcomeOK
    <2> QED
      BY <2>1, <2>2
  <1>4. RowsOK' /\ Kept
    BY <1>0, <1>2, <1>3
       DEF RowsOK, DecisionCheck, LockedIffApproved, SessionOK, BallotsAreLegitimate,
           OneUnfinishedSession, Kept
  <1> QED
    BY <1>1, <1>4, FinishStep

LEMMA ProposalCommitOK ==
    ASSUME IInv, NEW r \in Requests,
           \/ CommitCreateProposal(r)
           \/ CommitUpdateProposal(r)
           \/ CommitTransitionProposal(r)
           \/ CommitDeleteProposal(r)
    PROVE  IInv' /\ Kept
  <1>0. pending[r] \in Pending /\ TypeOK
    BY DEF IInv, TypeOK
  <1>1. CASE CommitCreateProposal(r)
    <2>1. proposal' \in [Proposals -> Proposal]
      BY <1>0, <1>1, PendingFields DEF CommitCreateProposal, TypeOK, Proposal, ProposalStatuses
    <2>2. \A p \in Proposals : proposal[p].status \notin Gone => proposal'[p].status \notin Gone
      BY <1>0, <1>1 DEF CommitCreateProposal, TypeOK, Proposal, Gone
    <2> QED
      BY <1>0, <1>1, <2>1, <2>2, ContentCommitOK DEF CommitCreateProposal, TypeOK
  <1>2. CASE CommitUpdateProposal(r)
    <2>1. proposal' \in [Proposals -> Proposal]
      BY <1>0, <1>2, PendingFields DEF CommitUpdateProposal, TypeOK, Proposal
    <2>2. \A p \in Proposals : proposal[p].status \notin Gone => proposal'[p].status \notin Gone
      BY <1>0, <1>2 DEF CommitUpdateProposal, TypeOK, Proposal
    <2> QED
      BY <1>0, <1>2, <2>1, <2>2, ContentCommitOK DEF CommitUpdateProposal, TypeOK
  <1>3. CASE CommitTransitionProposal(r)
    <2>1. proposal' \in [Proposals -> Proposal]
      BY <1>0, <1>3, PendingFields DEF CommitTransitionProposal, TypeOK, Proposal
    <2>2. \A p \in Proposals : proposal[p].status \notin Gone => proposal'[p].status \notin Gone
      BY <1>0, <1>3, PendingFields
         DEF CommitTransitionProposal, TypeOK, Proposal, ProposalStatuses, Gone
    <2> QED
      BY <1>0, <1>3, <2>1, <2>2, ContentCommitOK DEF CommitTransitionProposal, TypeOK
  <1>4. CASE CommitDeleteProposal(r)
    <2>1. proposal' \in [Proposals -> Proposal]
      BY <1>0, <1>4, PendingFields DEF CommitDeleteProposal, TypeOK, Proposal, Gone
    <2>2. \A p \in Proposals :
              proposal[p].status \notin Gone /\ Referenced(p) => proposal'[p].status \notin Gone
      BY <1>0, <1>4, PendingFields DEF CommitDeleteProposal, TypeOK, Proposal
    <2>3. objection' \in [Objections -> Objection]
      BY <1>0, <1>4 DEF CommitDeleteProposal, CascadeObjection, TypeOK, Objection, Gone
    <2> QED
      BY <1>4, <2>1, <2>2, <2>3, ContentCommitOK DEF CommitDeleteProposal
  <1> QED
    BY <1>1, <1>2, <1>3, <1>4

LEMMA ObjectionCommitOK ==
    ASSUME IInv, NEW r \in Requests,
           \/ CommitCreateObjection(r)
           \/ CommitUpdateObjection(r)
           \/ CommitTransitionObjection(r)
    PROVE  IInv' /\ Kept
  <1>0. pending[r] \in Pending /\ TypeOK
    BY DEF IInv, TypeOK
  <1>1. objection' \in [Objections -> Objection]
    <2>1. CASE CommitCreateObjection(r)
      BY <1>0, <2>1, PendingFields
         DEF CommitCreateObjection, TypeOK, Objection, ObjectionStatuses
    <2>2. CASE CommitUpdateObjection(r)
      BY <1>0, <2>2, PendingFields DEF CommitUpdateObjection, TypeOK, Objection
    <2>3. CASE CommitTransitionObjection(r)
      BY <1>0, <2>3, PendingFields DEF CommitTransitionObjection, TypeOK, Objection
    <2> QED
      BY <2>1, <2>2, <2>3
  <1>2. Finish(r) /\ UNCHANGED <<role, decision, proposal, session, ballots, lock, outbox>>
    BY DEF CommitCreateObjection, CommitUpdateObjection, CommitTransitionObjection
  <1> QED
    BY <1>0, <1>1, <1>2, ContentCommitOK DEF TypeOK

--------------------------------------------------------------------------------
(* Commits to a session: what was opened keeps its snapshot, and what was  *)
(* not has no ballots.                                                     *)
LEMMA SessionRowOK ==
    ASSUME IInv, pending' \in [Requests -> Pending],
           UNCHANGED <<role, decision, proposal, objection, ballots, lock>>,
           outbox \subseteq outbox',
           NEW s \in Sessions, NEW new \in Session,
           session' = [session EXCEPT ![s] = new],
           SessionOK(s)',
           session[s].opened =>
                /\ new.opened
                /\ new.eligible = session[s].eligible
                /\ new.choices = session[s].choices
                /\ new.eligibleCount = session[s].eligibleCount
                /\ new.quorum = session[s].quorum
                /\ session[s].status = "CLOSED" => new.status = "CLOSED",
           session[s].cancelled => new.cancelled,
           Unfinished(new.status) => Unfinished(session[s].status) \/ UnfinishedIndex,
           ~session[s].opened => \A p \in new.choices : proposal[p].status \notin Gone
    PROVE  TypeOK' /\ RowsOK' /\ Kept
  <1>0. TypeOK /\ RowsOK
    BY DEF IInv
  <1>1. session \in [Sessions -> Session] /\ session'[s] = new
    BY <1>0 DEF TypeOK
  <1>2. \A t \in Sessions : t # s => session'[t] = session[t]
    BY <1>1
  <1>3. TypeOK'
    BY <1>0 DEF TypeOK
  <1>4. Kept
    BY <1>1, <1>2 DEF Kept
  <1>5. \A t \in Sessions : SessionOK(t)'
    BY <1>0, <1>2 DEF RowsOK, SessionOK
  <1>6. BallotsAreLegitimate'
    <2>1. ASSUME NEW b \in ballots
          PROVE  /\ session[b.session].opened
                 /\ b.session \in Sessions
                 /\ b.voter \in session[b.session].eligible
                 /\ b.choice \in session[b.session].choices
      BY <1>0 DEF TypeOK, Ballot, RowsOK, SessionOK, BallotsAreLegitimate
    <2> QED
      BY <1>0, <1>4, <2>1 DEF RowsOK, BallotsAreLegitimate, Kept
  <1>7. ChoicesExist'
    BY <1>0, <1>1, <1>2 DEF RowsOK, ChoicesExist
  <1>8. OutcomeOK'
    <2>1. CASE lock = NoLock
      BY <2>1 DEF OutcomeOK
    <2>2. CASE lock # NoLock
      <3>1. lock.session \in Sessions
        BY <1>0, <2>2 DEF TypeOK, Lock
      <3>2. Decided(lock.session)
        BY <1>0, <2>2 DEF RowsOK, OutcomeOK, Decided
      <3>3. Decided(lock.session)'
        BY <1>0, <1>4, <3>1, <3>2, DecidedKept DEF RowsOK
      <3>4. session'[lock.session].choices = session[lock.session].choices
        BY <1>0, <1>4, <3>1, <3>2 DEF Kept, RowsOK, SessionOK, Decided
      <3> QED
        BY <1>0, <2>2, <3>3, <3>4 DEF RowsOK, OutcomeOK, Decided
    <2> QED
      BY <2>1, <2>2
  <1>9. OneUnfinishedSession'
    BY <1>0, <1>1, <1>2 DEF RowsOK, OneUnfinishedSession, Unfinished, UnfinishedIndex
  <1> QED
    BY <1>0, <1>3, <1>4, <1>5, <1>6, <1>7, <1>8, <1>9
       DEF RowsOK, DecisionCheck, LockedIffApproved

LEMMA CreateSessionOK ==
    ASSUME IInv, NEW r \in Requests, CommitCreateSession(r)
    PROVE  IInv' /\ Kept
  <1>0. TypeOK /\ pending[r] \in Pending
    BY DEF IInv, TypeOK
  <1>1. PICK s \in Sessions :
            /\ session[s].status = "NONE"
            /\ session' = [session EXCEPT ![s].status = "DRAFT", ![s].quorum = pending[r].quorum]
    BY DEF CommitCreateSession
  <1> DEFINE new == [session[s] EXCEPT !.status = "DRAFT", !.quorum = pending[r].quorum]
  <1>2. pending[r].quorum \in 0..100
    BY <1>0, PendingFields, QuorumAssumption DEF CommitCreateSession
  <1>3. new \in Session
    <2>1. ASSUME NEW v \in Session
          PROVE  [v EXCEPT !.status = "DRAFT"] \in Session
      BY DEF Session, SessionStatuses
    <2>2. ASSUME NEW v \in Session, NEW quorum \in 0..100
          PROVE  [v EXCEPT !.quorum = quorum] \in Session
      BY DEF Session
    <2> QED
      BY <1>0, <1>2, <2>1, <2>2 DEF TypeOK
  <1>4. session' = [session EXCEPT ![s] = new]
    BY <1>0, <1>1 DEF TypeOK
  <1>5. ~session[s].opened /\ SessionOK(s)
    BY <1>1 DEF IInv, RowsOK, SessionOK
  <1>6. /\ session'[s].status = "DRAFT"
        /\ session'[s].opened = session[s].opened
        /\ session'[s].cancelled = session[s].cancelled
        /\ session'[s].eligible = session[s].eligible
        /\ session'[s].choices = session[s].choices
        /\ new.choices = session[s].choices
        /\ new.cancelled = session[s].cancelled
    BY <1>0, <1>4 DEF TypeOK, Session
  <1>7. SessionOK(s)' /\ new.choices = {}
    BY <1>1, <1>5, <1>6 DEF SessionOK
  <1>8. /\ Finish(r) /\ UnfinishedIndex
        /\ UNCHANGED <<role, decision, proposal, objection, ballots, lock, outbox>>
    BY DEF CommitCreateSession
  <1>9. pending' \in [Requests -> Pending]
    BY <1>0, <1>8 DEF TypeOK, Finish, Pending
  <1>10. TypeOK' /\ RowsOK' /\ Kept
    <2> HIDE DEF new
    <2> QED
      BY <1>3, <1>4, <1>5, <1>6, <1>7, <1>8, <1>9, SessionRowOK
  <1> QED
    BY <1>8, <1>10, FinishStep

LEMMA OpenSessionOK ==
    ASSUME IInv, NEW r \in Requests, CommitOpenSession(r)
    PROVE  IInv' /\ Kept
  <1>0. TypeOK /\ RowsOK /\ pending[r] \in Pending /\ TxnOK(pending[r])
    BY DEF IInv, TypeOK
  <1>a. PICK t : t = pending[r]
    OBVIOUS
  <1>b. PICK s : s = t.session
    OBVIOUS
  <1> DEFINE new == [session[s] EXCEPT
                        !.status = "OPEN", !.opened = TRUE,
                        !.eligible = @ \cup t.eligible, !.choices = @ \cup t.choices,
                        !.eligibleCount = Cardinality(t.eligible)]
  <1>1. /\ s \in Sessions /\ t.eligible \in SUBSET Users /\ t.choices \in SUBSET Proposals
        /\ t.choices # {}
    BY <1>0, <1>a, <1>b, PendingFields DEF CommitOpenSession, TxnOK
  <1>2. Cardinality(t.eligible) \in Nat
    BY <1>1, FiniteAssumption, FS_Subset, FS_CardinalityType
  <1>3. session[s] \in Session
    BY <1>0, <1>1 DEF TypeOK
  <1>4. ~session[s].opened /\ session[s].choices = {}
    BY <1>0, <1>a, <1>b, <1>1 DEF CommitOpenSession, Fresh, RowsOK, SessionOK
  <1>5. /\ new.status = "OPEN"
        /\ new.opened = TRUE
        /\ new.closed = session[s].closed
        /\ new.cancelled = session[s].cancelled
        /\ new.expired = session[s].expired
        /\ new.quorum = session[s].quorum
        /\ new.eligible = session[s].eligible \cup t.eligible
        /\ new.choices = session[s].choices \cup t.choices
        /\ new.eligibleCount = Cardinality(t.eligible)
    BY <1>3 DEF Session
  <1>6. new \in Session
    <2>1. ASSUME NEW v \in Session
          PROVE  [v EXCEPT !.status = "OPEN", !.opened = TRUE] \in Session
      BY DEF Session, SessionStatuses
    <2>2. ASSUME NEW v \in Session, NEW voters \in SUBSET Users, NEW choices \in SUBSET Proposals
          PROVE  [v EXCEPT !.eligible = @ \cup voters, !.choices = @ \cup choices] \in Session
      BY DEF Session
    <2>3. ASSUME NEW v \in Session, NEW n \in Nat
          PROVE  [v EXCEPT !.eligibleCount = n] \in Session
      BY DEF Session
    <2>4. new = [[[session[s] EXCEPT !.status = "OPEN", !.opened = TRUE]
                     EXCEPT !.eligible = @ \cup t.eligible, !.choices = @ \cup t.choices]
                     EXCEPT !.eligibleCount = Cardinality(t.eligible)]
      BY <1>3 DEF Session
    <2> QED
      BY <1>1, <1>2, <1>3, <2>1, <2>2, <2>3, <2>4
  <1>7. /\ session' = [session EXCEPT ![s] = new]
        /\ session[s].status \notin Gone
        /\ SessionCheck(new)
        /\ outbox' = outbox \cup {Event("VOTING_OPENED", s)}
        /\ \A p \in t.choices : proposal[p].status \notin Gone
        /\ Finish(r)
        /\ UNCHANGED <<role, decision, proposal, objection, ballots, lock>>
    BY <1>a, <1>b DEF CommitOpenSession
  <1> HIDE DEF new
  <1>8. session'[s] = new
    BY <1>0, <1>1, <1>7 DEF TypeOK
  <1>9. ~new.closed /\ ~new.cancelled
    BY <1>5, <1>7 DEF SessionCheck
  <1>10. SessionOK(s)'
    <2>1. session[s].eligible = {}
      BY <1>0, <1>1, <1>4 DEF RowsOK, SessionOK
    <2>2. new.eligible = t.eligible
      BY <1>5, <2>1
    <2>3. new.eligibleCount = Cardinality(new.eligible)
      BY <1>5, <2>2
    <2> QED
      BY <1>1, <1>4, <1>5, <1>7, <1>8, <1>9, <2>3 DEF SessionOK
  <1>11. pending' \in [Requests -> Pending]
    BY <1>0, <1>7 DEF TypeOK, Finish, Pending
  <1>12. \A p \in new.choices : proposal[p].status \notin Gone
    BY <1>4, <1>5, <1>7
  <1>13. ~session[s].cancelled /\ Unfinished(session[s].status)
    BY <1>0, <1>1, <1>3, <1>5, <1>7, <1>9
       DEF RowsOK, SessionOK, Session, SessionStatuses, Unfinished
  <1>14. TypeOK' /\ RowsOK' /\ Kept
    BY <1>1, <1>4, <1>6, <1>7, <1>10, <1>11, <1>12, <1>13, SessionRowOK
  <1> QED
    BY <1>7, <1>14, FinishStep

(* Closing and cancelling keep the snapshot; ck_voting_sessions_status_    *)
(* timestamps refuses a session that was not opened or already finished.   *)
LEMMA EndSessionOK ==
    ASSUME IInv, NEW r \in Requests,
           CommitCloseSession(r) \/ CommitCancelSession(r)
    PROVE  IInv' /\ Kept
  <1>0. TypeOK /\ RowsOK /\ pending[r] \in Pending
    BY DEF IInv, TypeOK
  <1>a. PICK s : s = pending[r].session
    OBVIOUS
  <1>1. s \in Sessions
    BY <1>0, <1>a, PendingFields DEF CommitCloseSession, CommitCancelSession
  <1>2. PICK new :
            /\ \/ new = [session[s] EXCEPT !.status = "CLOSED", !.closed = TRUE]
               \/ new = [session[s] EXCEPT !.status = "CANCELLED", !.cancelled = TRUE]
            /\ session[s].status \notin Gone
            /\ SessionCheck(new)
            /\ session' = [session EXCEPT ![s] = new]
    BY <1>a DEF CommitCloseSession, CommitCancelSession
  <1>3. outbox \subseteq outbox' /\ Finish(r)
        /\ UNCHANGED <<role, decision, proposal, objection, ballots, lock>>
    BY DEF CommitCloseSession, CommitCancelSession
  <1>4. session[s] \in Session
    BY <1>0, <1>1 DEF TypeOK
  <1>5. new \in Session
    <2>1. ASSUME NEW v \in Session
          PROVE  /\ [v EXCEPT !.status = "CLOSED", !.closed = TRUE] \in Session
                 /\ [v EXCEPT !.status = "CANCELLED", !.cancelled = TRUE] \in Session
      BY DEF Session, SessionStatuses
    <2> QED
      BY <1>2, <1>4, <2>1
  <1>6. /\ \/ new.status = "CLOSED" /\ new.closed = TRUE /\ new.cancelled = session[s].cancelled
           \/ /\ new.status = "CANCELLED"
              /\ new.cancelled = TRUE
              /\ new.closed = session[s].closed
        /\ new.opened = session[s].opened
        /\ new.eligible = session[s].eligible
        /\ new.choices = session[s].choices
        /\ new.eligibleCount = session[s].eligibleCount
        /\ new.quorum = session[s].quorum
    BY <1>2, <1>4 DEF Session
  <1>7. session'[s] = new
    BY <1>0, <1>1, <1>2 DEF TypeOK
  <1>8. SessionOK(s)
    BY <1>0, <1>1 DEF RowsOK
  <1>9. SessionOK(s)' /\ (session[s].status = "CLOSED" => new.status = "CLOSED")
    BY <1>2, <1>3, <1>6, <1>7, <1>8 DEF SessionOK, SessionCheck
  <1>10. pending' \in [Requests -> Pending]
    BY <1>0, <1>3 DEF TypeOK, Finish, Pending
  <1>11. ~session[s].opened => new.choices = {}
    BY <1>6, <1>8 DEF SessionOK
  <1>12. ~Unfinished(new.status) /\ (session[s].cancelled => new.cancelled)
    BY <1>6 DEF Unfinished
  <1>13. TypeOK' /\ RowsOK' /\ Kept
    BY <1>1, <1>2, <1>3, <1>5, <1>6, <1>9, <1>10, <1>11, <1>12, SessionRowOK
  <1> QED
    BY <1>3, <1>13, FinishStep

--------------------------------------------------------------------------------
(* A ballot is a fresh one of its voter, and the snapshot it was checked   *)
(* against has not changed.                                                *)
LEMMA CastVoteOK ==
    ASSUME IInv, NEW r \in Requests, CommitCastVote(r)
    PROVE  IInv' /\ Kept
  <1>0. TypeOK /\ RowsOK /\ pending[r] \in Pending /\ TxnOK(pending[r])
    BY DEF IInv, TypeOK
  <1>1. PICK ballot : ballot = pending[r].ballot
    OBVIOUS
  <1>2. /\ ballot \in Ballot
        /\ ballot.voter \in session[ballot.session].eligible
        /\ ballot.choice \in session[ballot.session].choices
    BY <1>0, <1>1, PendingFields DEF CommitCastVote, TxnOK
  <1>3. /\ ~HasVoted(ballot)
        /\ ballots' = ballots \cup {ballot}
        /\ Finish(r)
        /\ UNCHANGED <<role, decision, proposal, objection, session, lock, outbox>>
    BY <1>1 DEF CommitCastVote
  <1>4. TypeOK'
    BY <1>0, <1>2, <1>3 DEF TypeOK, Finish, Pending
  <1>5. BallotsAreLegitimate'
    BY <1>0, <1>2, <1>3 DEF RowsOK, BallotsAreLegitimate, HasVoted
  <1>6. IsFiniteSet(ballots')
    BY <1>0, <1>3, FS_AddElement DEF RowsOK
  <1>7. Kept
    BY <1>3 DEF Kept
  <1>8. OutcomeOK'
    <2>1. CASE lock = NoLock
      BY <1>3, <2>1 DEF OutcomeOK
    <2>2. CASE lock # NoLock
      <3>1. PICK s \in Sessions : s = lock.session
        BY <1>0, <2>2 DEF TypeOK, Lock
      <3>2. Decided(s)'
        BY <1>0, <1>6, <1>7, <2>2, <3>1, DecidedKept
           DEF RowsOK, OutcomeOK, Decided
      <3>3. /\ lock.winner \in session[s].choices
            /\ proposal[lock.winner].status \notin Gone
        BY <1>0, <2>2, <3>1 DEF RowsOK, OutcomeOK
      <3> QED
        BY <1>3, <3>1, <3>2, <3>3 DEF OutcomeOK, Decided
    <2> QED
      BY <2>1, <2>2
  <1>9. RowsOK'
    BY <1>0, <1>3, <1>5, <1>6, <1>8
       DEF RowsOK, DecisionCheck, LockedIffApproved, SessionOK, ChoicesExist,
           OneUnfinishedSession
  <1> QED
    BY <1>3, <1>4, <1>7, <1>9, FinishStep

(* The outcome the lock handler read is the one it commits. *)
LEMMA LockDecisionOK ==
    ASSUME IInv, NEW r \in Requests, CommitLockDecision(r)
    PROVE  IInv' /\ Kept
  <1>0. TypeOK /\ RowsOK /\ pending[r] \in Pending /\ TxnOK(pending[r])
    BY DEF IInv, TypeOK
  <1>1. PICK approved : approved = pending[r].lock
    OBVIOUS
  <1>2. approved \in Lock /\ approved.session \in Sessions
    BY <1>0, <1>1, PendingFields DEF CommitLockDecision, Lock
  <1>3. /\ lock = NoLock /\ lock' = approved
        /\ decision' = [decision EXCEPT !.status = "LOCKED", !.locked = TRUE]
        /\ proposal[approved.winner].status \notin Gone
        /\ Finish(r)
        /\ UNCHANGED <<role, proposal, objection, session, ballots>>
        /\ outbox \subseteq outbox'
    BY <1>1 DEF CommitLockDecision
  <1>4. decision' \in Decision /\ decision'.status = "LOCKED" /\ decision'.locked
    BY <1>0, <1>3 DEF TypeOK, Decision, DecisionStatuses
  <1>5. TypeOK'
    BY <1>0, <1>2, <1>3, <1>4 DEF TypeOK, Finish, Pending
  <1>6. approved # NoLock
    BY <1>2 DEF Lock, NoLock
  <1>7. Decided(approved.session) /\ approved.winner \in session[approved.session].choices
    BY <1>0, <1>1 DEF CommitLockDecision, TxnOK
  <1>8. OutcomeOK'
    BY <1>3, <1>7 DEF OutcomeOK, Decided, QuorumReached, VotesIn
  <1>9. RowsOK'
    BY <1>0, <1>3, <1>4, <1>6, <1>8
       DEF RowsOK, DecisionCheck, LockedIffApproved, SessionOK, BallotsAreLegitimate,
           ChoicesExist, OneUnfinishedSession
  <1>10. Kept
    BY <1>3 DEF Kept
  <1> QED
    BY <1>3, <1>5, <1>9, <1>10, FinishStep

(* Steps that no request in flight takes. *)
LEMMA QuietStep ==
    ASSUME IInv, UNCHANGED pending, TypeOK', RowsOK', Kept
    PROVE  IInv'
  <1>1. ASSUME NEW q \in Requests
        PROVE  TxnOK(pending[q])'
    <2>1. TxnOK(pending[q]) /\ pending[q] \in Pending /\ pending'[q] = pending[q]
      BY DEF IInv, TypeOK
    <2> QED
      BY <2>1, TxnKept DEF IInv, RowsOK, TxnOK
  <1> QED
    BY <1>1 DEF IInv

LEMMA CreateDecisionOK ==
    ASSUME IInv, NEW u \in Users, NEW c \in Contents, CreateDecision(u, c)
    PROVE  IInv' /\ Kept
  <1>0. TypeOK /\ RowsOK
    BY DEF IInv
  <1>1. /\ decision.status = "NONE"
        /\ decision' = [status |-> "DRAFT", locked |-> FALSE, content |-> c]
        /\ UNCHANGED <<role, proposal, objection, session, ballots, lock, outbox, pending>>
    BY DEF CreateDecision
  <1>2. TypeOK'
    BY <1>0, <1>1 DEF TypeOK, Decision, DecisionStatuses
  <1>3. RowsOK' /\ Kept
    BY <1>0, <1>1
       DEF RowsOK, DecisionCheck, LockedIffApproved, SessionOK, BallotsAreLegitimate,
           ChoicesExist, OneUnfinishedSession, OutcomeOK, QuorumReached,
           VotesIn, Kept
  <1> QED
    BY <1>1, <1>2, <1>3, QuietStep

LEMMA ChangeMembershipOK ==
    ASSUME IInv, NEW u \in Users, NEW new \in Roles, ChangeMembership(u, new)
    PROVE  IInv' /\ Kept
  <1>0. TypeOK /\ RowsOK
    BY DEF IInv
  <1>1. /\ role' = [role EXCEPT ![u] = new]
        /\ UNCHANGED <<decision, proposal, objection, session, ballots, lock, outbox, pending>>
    BY DEF ChangeMembership
  <1>2. TypeOK'
    BY <1>0, <1>1 DEF TypeOK
  <1>3. RowsOK' /\ Kept
    BY <1>0, <1>1
       DEF RowsOK, DecisionCheck, LockedIffApproved, SessionOK, BallotsAreLegitimate,
           ChoicesExist, OneUnfinishedSession, OutcomeOK, QuorumReached,
           VotesIn, Kept
  <1> QED
    BY <1>1, <1>2, <1>3, QuietStep

LEMMA DeadlineOK ==
    ASSUME IInv, NEW s \in Sessions, Deadline(s)
    PROVE  IInv' /\ Kept
  <1>0. TypeOK /\ RowsOK /\ session[s] \in Session /\ SessionOK(s)
    BY DEF IInv, TypeOK, RowsOK
  <1> DEFINE new == [session[s] EXCEPT !.expired = TRUE]
  <1>1. new \in Session
    BY <1>0 DEF Session
  <1>2. /\ session' = [session EXCEPT ![s] = new]
        /\ UNCHANGED <<role, decision, proposal, objection, ballots, lock, outbox, pending>>
    BY <1>0 DEF Deadline, TypeOK
  <1>3. /\ new.status = session[s].status
        /\ new.opened = session[s].opened
        /\ new.closed = session[s].closed
        /\ new.cancelled = session[s].cancelled
        /\ new.eligible = session[s].eligible
        /\ new.choices = session[s].choices
        /\ new.eligibleCount = session[s].eligibleCount
        /\ new.quorum = session[s].quorum
    BY <1>0 DEF Session
  <1> HIDE DEF new
  <1>4. session'[s] = new
    BY <1>0, <1>2 DEF TypeOK
  <1>5. SessionOK(s)' /\ (~session[s].opened => new.choices = {})
    BY <1>0, <1>2, <1>3, <1>4 DEF SessionOK
  <1>6. pending' \in [Requests -> Pending]
    BY <1>0, <1>2 DEF TypeOK
  <1>7. TypeOK' /\ RowsOK' /\ Kept
    BY <1>1, <1>2, <1>3, <1>5, <1>6, SessionRowOK
  <1> QED
    BY <1>2, <1>7, QuietStep

--------------------------------------------------------------------------------
LEMMA InitOK ==
    ASSUME Init
    PROVE  IInv
  <1>1. TypeOK
    BY OwnerAssumption
       DEF Init, TypeOK, Roles, MemberRoles, Managers, Decision, Proposal, Objection, Session,
           Severities, Gone, Pending
  <1>2. RowsOK
    BY FS_EmptySet
       DEF Init, RowsOK, DecisionCheck, LockedIffApproved, SessionOK, BallotsAreLegitimate,
           ChoicesExist, OneUnfinishedSession, OutcomeOK, NoLock
  <1>3. \A r \in Requests : TxnOK(pending[r])
    BY DEF Init, Idle, TxnOK
  <1> QED
    BY <1>1, <1>2, <1>3 DEF IInv

LEMMA RollbackOK ==
    ASSUME IInv, NEW r \in Requests, Rollback(r)
    PROVE  IInv' /\ Kept
  <1>1. Idle \in Pending /\ TxnOK(Idle)
    BY DEF Pending, Idle, TxnOK
  <1> QED
    BY <1>1, HoldStep DEF Rollback, Finish

LEMMA StutterOK ==
    ASSUME IInv, UNCHANGED vars
    PROVE  IInv' /\ Kept
  <1>1. TypeOK'
    BY DEF IInv, TypeOK, vars
  <1>2. RowsOK' /\ Kept
    BY DEF IInv, RowsOK, vars, DecisionCheck, LockedIffApproved, SessionOK,
           BallotsAreLegitimate, ChoicesExist, OneUnfinishedSession, OutcomeOK,
           QuorumReached, VotesIn, Kept
  <1> QED
    BY <1>1, <1>2, QuietStep DEF vars

(* Every step preserves the invariant and undoes nothing that is Kept. *)
LEMMA StepOK ==
    ASSUME IInv, [Next]_vars
    PROVE  IInv' /\ Kept
  <1>1. ASSUME NEW u \in Users, NEW c \in Contents, CreateDecision(u, c)
        PROVE  IInv' /\ Kept
    BY <1>1, CreateDecisionOK
  <1>2. ASSUME NEW u \in Users, NEW new \in Roles, ChangeMembership(u, new)
        PROVE  IInv' /\ Kept
    BY <1>2, ChangeMembershipOK
  <1>3. ASSUME NEW s \in Sessions, Deadline(s)
        PROVE  IInv' /\ Kept
    BY <1>3, DeadlineOK
  <1>4. ASSUME NEW r \in Requests, ReadStep(r) \/ LockStep(r) \/ Rollback(r)
        PROVE  IInv' /\ Kept
    BY <1>4, ReadStepOK, LockStepOK, RollbackOK
  <1>5. ASSUME NEW r \in Requests, CommitStep(r)
        PROVE  IInv' /\ Kept
    BY <1>5, DecisionCommitOK, ProposalCommitOK, ObjectionCommitOK, CreateSessionOK,
       OpenSessionOK, EndSessionOK, CastVoteOK, LockDecisionOK
       DEF CommitStep
  <1> QED
    BY <1>1, <1>2, <1>3, <1>4, <1>5, StutterOK DEF Next

(* The invariant is inductive, hence holds of every reachable state. *)
THEOREM Invariant == Spec => []IInv
  <1>1. Init => IInv
    BY InitOK
  <1>2. IInv /\ [Next]_vars => IInv'
    BY StepOK
  <1> QED
    BY <1>1, <1>2, PTL DEF Spec

(* Every row, and every write a request is about to make, is well formed   *)
(* however requests interleave.                                            *)
THEOREM TypeCorrect == Spec => []TypeOK
  <1>1. IInv => TypeOK
    BY DEF IInv
  <1> QED
    BY <1>1, Invariant, PTL

(* The decision is LOCKED exactly while its decision_locks row exists:     *)
(* ck_decisions_locked_state stops a transition that read the decision     *)
(* before DecisionLockService.create committed, and nothing deletes a      *)
(* decision whose proposals were put to a vote.                            *)
THEOREM LockAndStatusAgree == Spec => []LockedIffApproved
  <1>1. IInv => LockedIffApproved
    BY DEF IInv, RowsOK
  <1> QED
    BY <1>1, Invariant, PTL

(* What a lock approved stays approved: its session is closed and its      *)
(* winner is an existing choice of it, although the lock handler read both *)
(* before it wrote.                                                        *)
THEOREM OutcomeStands == Spec => []ApprovedOutcomeStands
  <1>1. IInv => ApprovedOutcomeStands
    BY DEF IInv, RowsOK, OutcomeOK, ApprovedOutcomeStands
  <1> QED
    BY <1>1, Invariant, PTL

(* No decision is locked below the quorum of the voters its session was    *)
(* opened to: VotingService.get_result rounds the required votes up, and   *)
(* ballots are never deleted.                                              *)
THEOREM QuorumStands == Spec => []LockedWithQuorum
  <1>1. IInv => LockedWithQuorum
    BY DEF IInv, RowsOK, OutcomeOK, LockedWithQuorum
  <1> QED
    BY <1>1, Invariant, PTL

(* Ballots come from the snapshot of voters, are for the snapshot of       *)
(* proposals, and each voter has at most one, although cast_vote checks in *)
(* one statement and inserts in another.                                   *)
THEOREM LegitimateBallots == Spec => []BallotsAreLegitimate
  <1>1. IInv => BallotsAreLegitimate
    BY DEF IInv, RowsOK
  <1> QED
    BY <1>1, Invariant, PTL

(* A proposal that was put to a vote is never deleted. *)
THEOREM ChoicesAreKept == Spec => []ChoicesExist
  <1>1. IInv => ChoicesExist
    BY DEF IInv, RowsOK
  <1> QED
    BY <1>1, Invariant, PTL

(* Sessions that race to be created leave at most one unfinished. *)
THEOREM OneSessionAtATime == Spec => []OneUnfinishedSession
  <1>1. IInv => OneUnfinishedSession
    BY DEF IInv, RowsOK
  <1> QED
    BY <1>1, Invariant, PTL

--------------------------------------------------------------------------------
(* Once locked, the decision stays locked and its lock row never changes,  *)
(* whichever requests were in flight when the lock committed.              *)
THEOREM LockStays == Spec => LockIsPermanent
  <1>1. ASSUME IInv, IInv', [Next]_vars
        PROVE  [lock # NoLock => lock' = lock /\ decision'.status = "LOCKED"]_vars
    <2>1. Kept
      BY <1>1, StepOK
    <2> QED
      BY <1>1, <2>1 DEF Kept, IInv, RowsOK, LockedIffApproved
  <1> QED
    BY <1>1, Invariant, PTL DEF Spec, LockIsPermanent

(* Opening a session fixes its electorate, choices and quorum for good. *)
THEOREM SnapshotStays == Spec => SnapshotIsFrozen
  <1>1. ASSUME IInv, [Next]_vars
        PROVE  [\A s \in Sessions : session[s].opened =>
                  /\ session'[s].eligible = session[s].eligible
                  /\ session'[s].choices = session[s].choices
                  /\ session'[s].eligibleCount = session[s].eligibleCount
                  /\ session'[s].quorum = session[s].quorum]_vars
    BY <1>1, StepOK DEF Kept
  <1> QED
    BY <1>1, Invariant, PTL DEF Spec, SnapshotIsFrozen

(* A session that was closed or cancelled is never opened, closed or       *)
(* cancelled again.                                                        *)
THEOREM FinishedStays == Spec => FinishedSessionsAreFinal
  <1>1. ASSUME IInv, IInv', [Next]_vars
        PROVE  [\A s \in Sessions :
                  /\ session[s].status = "CLOSED" => session'[s].status = "CLOSED"
                  /\ session[s].status = "CANCELLED" =>
                       session'[s].status \in {"CANCELLED", "DELETED"}]_vars
    <2>1. Kept
      BY <1>1, StepOK
    <2> QED
      BY <1>1, <2>1 DEF Kept, IInv, RowsOK, SessionOK
  <1> QED
    BY <1>1, Invariant, PTL DEF Spec, FinishedSessionsAreFinal

================================================================================
