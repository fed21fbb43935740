-------------------------- MODULE MCGovernanceScenarios --------------------------
(***************************************************************************)
(* Two scenarios of Governance in one run.  In the first, the owner makes  *)
(* one request after the other, of every operation, from an empty          *)
(* workspace.  In the second, two requests race over an active decision.   *)
(***************************************************************************)
EXTENDS MCGovernance

VARIABLE scenario

FirstSession == CHOOSE s \in Sessions : TRUE

Used == {r \in Requests : pending'[r] # Idle}

(* The bounds of the first scenario: one request and one session. *)
Alone(A) ==
    /\ scenario = "one after the other" /\ A
    /\ Cardinality(Used) <= 1
    /\ \A s \in Sessions : session'[s].status \notin Gone => s = FirstSession
    /\ UNCHANGED scenario

(* The second: what may race is what RacingStep lists. *)
Racing(A) ==
    /\ scenario = "racing over voting" /\ A
    /\ UNCHANGED scenario

ScenariosInit ==
    \/ scenario = "one after the other" /\ Init
    \/ scenario = "racing over voting" /\ ActiveInit

OwnerReads(r) ==
    \/ \E c \in Contents :
        \/ Alone(UpdateDecision(r, Owner, c))
        \/ Alone(CreateProposal(r, Owner, c))
        \/ \E p \in Proposals : Alone(UpdateProposal(r, Owner, p, c))
    \/ \E target \in DecisionStatuses : Alone(TransitionDecision(r, Owner, target))
    \/ Alone(DeleteDecision(r, Owner))
    \/ \E p \in Proposals :
        \/ \E target \in ProposalStatuses : Alone(TransitionProposal(r, Owner, p, target))
        \/ Alone(DeleteProposal(r, Owner, p))
        \/ \E severity \in Severities : Alone(CreateObjection(r, Owner, p, severity))
    \/ \E o \in Objections :
        \/ \E severity \in Severities : Alone(UpdateObjection(r, Owner, o, severity))
        \/ \E target \in ObjectionStatuses : Alone(TransitionObjection(r, Owner, o, target))
    \/ \E quorum \in Quorums : Alone(CreateSession(r, Owner, quorum))
    \/ \E s \in Sessions :
        \/ Alone(OpenSession(r, Owner, s))
        \/ \E p \in Proposals : Alone(CastVote(r, Owner, s, p))
        \/ Alone(CloseSession(r, Owner, s))
        \/ Alone(CancelSession(r, Owner, s))
        \/ Alone(LockDecision(r, Owner, s))

OwnerCommits(r) ==
    \/ Alone(CommitUpdateDecision(r))
    \/ Alone(CommitTransitionDecision(r))
    \/ Alone(CommitDeleteDecision(r))
    \/ Alone(CommitCreateProposal(r))
    \/ Alone(CommitUpdateProposal(r))
    \/ Alone(CommitTransitionProposal(r))
    \/ Alone(CommitDeleteProposal(r))
    \/ Alone(CommitCreateObjection(r))
    \/ Alone(CommitUpdateObjection(r))
    \/ Alone(CommitTransitionObjection(r))
    \/ Alone(CommitCreateSession(r))
    \/ Alone(CommitOpenSession(r))
    \/ Alone(CommitCastVote(r))
    \/ Alone(CommitCloseSession(r))
    \/ Alone(CommitCancelSession(r))
    \/ Alone(LockCountVotes(r))
    \/ Alone(LockTallyVotes(r))
    \/ Alone(CommitLockDecision(r))
    \/ Alone(Rollback(r))

RacingStep(r) ==
    \/ \E u \in Users :
        \/ \E p \in Proposals :
            \/ \E target \in ProposalStatuses : Racing(TransitionProposal(r, u, p, target))
            \/ Racing(DeleteProposal(r, u, p))
        \/ \E quorum \in Quorums : Racing(CreateSession(r, u, quorum))
        \/ \E s \in Sessions :
            \/ Racing(OpenSession(r, u, s))
            \/ Racing(CloseSession(r, u, s))
            \/ Racing(CancelSession(r, u, s))
    \/ Racing(CommitTransitionProposal(r))
    \/ Racing(CommitDeleteProposal(r))
    \/ Racing(CommitCreateSession(r))
    \/ Racing(CommitOpenSession(r))
    \/ Racing(CommitCloseSession(r))
    \/ Racing(CommitCancelSession(r))
    \/ Racing(Rollback(r))

ScenariosNext ==
    \/ \E c \in Contents : Alone(CreateDecision(Owner, c))
    \/ \E s \in Sessions : Alone(Deadline(s))
    \/ \E r \in Requests : OwnerReads(r) \/ OwnerCommits(r) \/ RacingStep(r)
    \/ \E u \in Users, new \in Roles : Racing(ChangeMembership(u, new))

ScenariosSpec == ScenariosInit /\ [][ScenariosNext]_<<vars, scenario>>

================================================================================
