------------------------------ MODULE MCGovernance ------------------------------
(***************************************************************************)
(* Instances of Governance for TLC.  Besides the initial state of the      *)
(* specification, runs start from two states that requests reach one after *)
(* the other, so that the bound on requests is spent on what follows.      *)
(***************************************************************************)
EXTENDS Governance, TLC

AllOperations ==
    {"ChangeMembership", "Deadline", "CreateDecision", "UpdateDecision", "TransitionDecision",
     "DeleteDecision", "CreateProposal", "UpdateProposal", "TransitionProposal",
     "DeleteProposal", "CreateObjection", "UpdateObjection", "TransitionObjection",
     "CreateSession", "OpenSession", "CastVote", "CloseSession", "CancelSession",
     "LockDecision"}

(* An objection raised while a decision is being locked. *)
ConcernOperations == {"CreateObjection", "CastVote", "CloseSession", "LockDecision"}

(* A ballot that was allowed when the session was read. *)
BallotOperations == {"CastVote", "CloseSession", "LockDecision"}

(* Transitions of a decision that read it before one of them archives it. *)
TransitionOperations == {"TransitionDecision"}

Symmetry == Permutations(Requests)

Fresh0(s) ==
    [status |-> "NONE", opened |-> FALSE, closed |-> FALSE, cancelled |-> FALSE,
     expired |-> FALSE, quorum |-> 0, eligible |-> {}, choices |-> {}, eligibleCount |-> 0]

(* An active decision whose proposals, all written by the owner, have been *)
(* submitted; every other user has joined as a member.                     *)
ActiveInit ==
    /\ role = [u \in Users |-> IF u = Owner THEN "OWNER" ELSE "MEMBER"]
    /\ LET text == CHOOSE c \in Contents : TRUE IN
        /\ decision = [status |-> "ACTIVE", locked |-> FALSE, content |-> text]
        /\ proposal = [p \in Proposals |->
              [status |-> "SUBMITTED", author |-> Owner, content |-> text]]
    /\ \E p \in Proposals : objection = [o \in Objections |->
          [status |-> "NONE", severity |-> "MAJOR", author |-> Owner, on |-> p]]
    /\ session = [s \in Sessions |-> Fresh0(s)]
    /\ ballots = {}
    /\ lock = NoLock
    /\ outbox = {Event("DECISION_ACTIVATED", "decision")}
    /\ pending = [r \in Requests |-> Idle]

ActiveSpec == ActiveInit /\ [][Next]_vars

(* The same decision with its first session opened to all users. *)
OpenInit ==
    /\ role = [u \in Users |-> IF u = Owner THEN "OWNER" ELSE "MEMBER"]
    /\ \E c \in Contents :
        /\ decision = [status |-> "ACTIVE", locked |-> FALSE, content |-> c]
        /\ proposal = [p \in Proposals |->
              [status |-> "SUBMITTED", author |-> Owner, content |-> c]]
    /\ \E p \in Proposals : objection = [o \in Objections |->
          [status |-> "NONE", severity |-> "MAJOR", author |-> Owner, on |-> p]]
    /\ \E s \in Sessions, quorum \in Quorums :
        /\ session = [t \in Sessions |-> IF t # s THEN Fresh0(t) ELSE
              [Fresh0(t) EXCEPT !.status = "OPEN", !.opened = TRUE, !.quorum = quorum,
                                !.eligible = Users, !.choices = Proposals,
                                !.eligibleCount = Cardinality(Users)]]
        /\ outbox = {Event("DECISION_ACTIVATED", "decision"), Event("VOTING_OPENED", s)}
    /\ ballots = {}
    /\ lock = NoLock
    /\ pending = [r \in Requests |-> Idle]

OpenSpec == OpenInit /\ [][Next]_vars

(* What races for the lock of a decision whose voting is open. *)
LockNext ==
    \E r \in Requests :
        \/ \E u \in Users :
            \/ \E target \in DecisionStatuses : TransitionDecision(r, u, target)
            \/ \E p \in Proposals :
                \/ \E target \in ProposalStatuses : TransitionProposal(r, u, p, target)
                \/ \E s \in Sessions : CastVote(r, u, s, p)
            \/ \E s \in Sessions :
                \/ CloseSession(r, u, s)
                \/ CancelSession(r, u, s)
                \/ LockDecision(r, u, s)
        \/ LockStep(r)
        \/ CommitTransitionDecision(r)
        \/ CommitTransitionProposal(r)
        \/ CommitCastVote(r)
        \/ CommitCloseSession(r)
        \/ CommitCancelSession(r)
        \/ CommitLockDecision(r)
        \/ Rollback(r)

LockSpec == OpenInit /\ [][LockNext]_vars

================================================================================
