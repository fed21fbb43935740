------------------------------- MODULE Governance -------------------------------
(***************************************************************************)
(* The governance of one decision: its lifecycle, its proposals, the       *)
(* objections to them, its voting sessions and ballots, and the lock that  *)
(* approves an outcome (services decision, proposal, objection, voting and *)
(* decision_lock with their repositories and table constraints).           *)
(*                                                                         *)
(* A request is one HTTP call with its own database session.  Its handler  *)
(* reads committed rows and checks its guards; later it flushes and        *)
(* commits.  PostgreSQL runs at READ COMMITTED and no row is locked by the *)
(* reads, so other requests commit in between: pending[r] is what request  *)
(* r read and decided, and the step that follows writes it to the rows as  *)
(* they are THEN.  SQLAlchemy writes only the columns the handler changed. *)
(* All that protects a commit is the CHECK, UNIQUE and foreign key         *)
(* constraints, which are guards of the commit steps; a request that fails *)
(* one, or whose process dies, is rolled back by Rollback.                 *)
(***************************************************************************)
EXTENDS Naturals, FiniteSets, Permissions

CONSTANTS
    Users,
    Owner,        \* the user who created the workspace
    Requests,     \* the requests that may be in flight together
    Proposals,    \* identities of proposals; a bound on how many are created
    Objections,   \* the same for objections
    Sessions,     \* the same for voting sessions
    Contents,     \* what a decision or a proposal may say
    Quorums,      \* the quorum percentages callers ask for
    Operations    \* the operations callers use

ASSUME OwnerAssumption == Owner \in Users
ASSUME FiniteAssumption ==
    IsFiniteSet(Users) /\ IsFiniteSet(Proposals) /\ IsFiniteSet(Sessions)
ASSUME QuorumAssumption == Quorums \subseteq 1..100

VARIABLES
    role,         \* workspace_members: the role of each user
    decision,     \* the row of decisions
    proposal,     \* the rows of proposals
    objection,    \* the rows of objections
    session,      \* voting_sessions with their eligible voters and choices
    ballots,      \* the rows of votes
    lock,         \* the row of decision_locks
    outbox,       \* integration events staged in the same transactions
    pending       \* what each request in flight is about to write

tables == <<role, decision, proposal, objection, session, ballots, lock, outbox>>

vars == <<role, decision, proposal, objection, session, ballots, lock, outbox,
          pending>>

--------------------------------------------------------------------------------
(* Rows.  An identity is NONE until its row is inserted and DELETED once   *)
(* the row is gone.                                                        *)

Gone == {"NONE", "DELETED"}

DecisionStatuses == {"DRAFT", "ACTIVE", "CLOSED", "LOCKED", "ARCHIVED"}
ProposalStatuses == {"DRAFT", "SUBMITTED", "WITHDRAWN"}
ObjectionStatuses == {"OPEN", "RESOLVED", "DISMISSED"}
Severities == {"INFORMATIONAL", "MAJOR", "BLOCKING"}
SessionStatuses == {"DRAFT", "OPEN", "CLOSED", "CANCELLED"}

(* locked says whether locked_at is set. *)
Decision == [status: DecisionStatuses \cup Gone, locked: BOOLEAN, content: Contents]

Proposal == [status: ProposalStatuses \cup Gone, author: Users, content: Contents]

Objection == [status: ObjectionStatuses \cup Gone, severity: Severities,
              author: Users, on: Proposals]

(* opened, closed and cancelled say whether the timestamp is set; expired  *)
(* says that closes_at has passed.                                         *)
Session == [status: SessionStatuses \cup Gone,
            opened: BOOLEAN, closed: BOOLEAN, cancelled: BOOLEAN, expired: BOOLEAN,
            quorum: 0..100, eligible: SUBSET Users, choices: SUBSET Proposals,
            eligibleCount: Nat]

Ballot == [session: Sessions, voter: Users, choice: Proposals]

NoLock == [session |-> "NONE"]

Lock == [session: Sessions, winner: Proposals, decisionContent: Contents,
         winnerContent: Contents]

Event(type, id) == <<type, id>>

Idle == [op |-> "IDLE"]

OpenBlocking ==
    \E o \in Objections : objection[o].status = "OPEN" /\ objection[o].severity = "BLOCKING"

Eligible == {u \in Users : IsVotingRole(role[u])}

Submitted == {p \in Proposals : proposal[p].status = "SUBMITTED"}

VotesIn(s) == {b \in ballots : b.session = s}

Tally(s, p) == Cardinality({b \in VotesIn(s) : b.choice = p})

(* Seeded fault: the number of votes required is rounded down. *)
RequiredRoundedDown(s) == (session[s].eligibleCount * session[s].quorum) \div 100

(* ceil(eligible_voter_count * quorum_percentage / 100) *)
Required(s) == (session[s].eligibleCount * session[s].quorum + 99) \div 100

QuorumMet(s) == Cardinality(VotesIn(s)) >= Required(s)

Wins(s, p) ==
    /\ p \in session[s].choices
    /\ \A q \in session[s].choices \ {p} : Tally(s, q) < Tally(s, p)

--------------------------------------------------------------------------------
(* Table constraints that interleavings can run into.                      *)

(* Seeded fault: the migration never created the constraint. *)
DecisionCheckMissing(d) == TRUE

(* ck_decisions_locked_state *)
DecisionCheck(d) == d.locked <=> d.status = "LOCKED"

(* Seeded fault: a cancelled session may have been closed. *)
SessionCheckLax(v) ==
    \/ v.status = "DRAFT" /\ ~v.opened /\ ~v.closed /\ ~v.cancelled
    \/ v.status = "OPEN" /\ v.opened /\ ~v.closed /\ ~v.cancelled
    \/ v.status = "CLOSED" /\ v.opened /\ v.closed /\ ~v.cancelled
    \/ v.status = "CANCELLED" /\ v.cancelled

(* ck_voting_sessions_status_timestamps *)
SessionCheck(v) ==
    \/ v.status = "DRAFT" /\ ~v.opened /\ ~v.closed /\ ~v.cancelled
    \/ v.status = "OPEN" /\ v.opened /\ ~v.closed /\ ~v.cancelled
    \/ v.status = "CLOSED" /\ v.opened /\ v.closed /\ ~v.cancelled
    \/ v.status = "CANCELLED" /\ ~v.closed /\ v.cancelled

(* Seeded fault: the partial index covers drafts only. *)
UnfinishedIndexOnDrafts == \A s \in Sessions : session[s].status # "DRAFT"

(* uq_voting_sessions_one_unfinished_per_decision, when a draft is inserted *)
UnfinishedIndex == \A s \in Sessions : session[s].status \notin {"DRAFT", "OPEN"}

(* Seeded fault: one ballot per voter and proposal. *)
HasVotedForChoice(ballot) == ballot \in ballots

(* uq_votes_session_voter *)
HasVoted(ballot) ==
    \E b \in ballots : b.session = ballot.session /\ b.voter = ballot.voter

(* Seeded fault: voting_session_proposals rows CASCADE. *)
ReferencedByBallot(p) == \E b \in ballots : b.choice = p

(* Rows of voting_session_proposals, votes and decision_locks RESTRICT the *)
(* deletion of the proposals they refer to.                                *)
Referenced(p) == \E s \in Sessions : p \in session[s].choices

(* uq_integration_outbox_events_type_id *)
Fresh(events) == events \cap outbox = {}

--------------------------------------------------------------------------------
Init ==
    /\ role = [u \in Users |-> IF u = Owner THEN "OWNER" ELSE "NONE"]
    /\ \E c \in Contents :
        /\ decision = [status |-> "NONE", locked |-> FALSE, content |-> c]
        /\ proposal = [p \in Proposals |->
              [status |-> "NONE", author |-> Owner, content |-> c]]
    /\ \E p \in Proposals : objection = [o \in Objections |->
          [status |-> "NONE", severity |-> "MAJOR", author |-> Owner, on |-> p]]
    /\ session = [s \in Sessions |->
          [status |-> "NONE", opened |-> FALSE, closed |-> FALSE, cancelled |-> FALSE,
           expired |-> FALSE, quorum |-> 0, eligible |-> {}, choices |-> {},
           eligibleCount |-> 0]]
    /\ ballots = {}
    /\ lock = NoLock
    /\ outbox = {}
    /\ pending = [r \in Requests |-> Idle]

(* A handler that passed its guards holds what it will write. *)
Hold(r, txn) ==
    /\ txn.op \in Operations
    /\ pending[r] = Idle
    /\ pending' = [pending EXCEPT ![r] = txn]
    /\ UNCHANGED tables

Finish(r) == pending' = [pending EXCEPT ![r] = Idle]

(* A violated constraint, an UPDATE of a deleted row, a lost connection or *)
(* a crash before the commit: nothing is written.                          *)
Rollback(r) ==
    /\ pending[r] # Idle
    /\ Finish(r)
    /\ UNCHANGED tables

--------------------------------------------------------------------------------
(* Membership and time, which the handlers read.                           *)

(* Seeded fault: a member who leaves is struck from open electorates. *)
ChangeMembershipStriking(u, new) ==
    /\ "ChangeMembership" \in Operations
    /\ role[u] # "OWNER"
    /\ new \in Roles \ {"OWNER", role[u]}
    /\ role' = [role EXCEPT ![u] = new]
    /\ session' = [s \in Sessions |->
          IF new = "NONE" THEN [session[s] EXCEPT !.eligible = @ \ {u}] ELSE session[s]]
    /\ UNCHANGED <<decision, proposal, objection, ballots, lock, outbox, pending>>

(* WorkspaceService adds, promotes, demotes or removes anyone but the owner. *)
ChangeMembership(u, new) ==
    /\ "ChangeMembership" \in Operations
    /\ role[u] # "OWNER"
    /\ new \in Roles \ {"OWNER", role[u]}
    /\ role' = [role EXCEPT ![u] = new]
    /\ UNCHANGED <<decision, proposal, objection, session, ballots, lock, outbox, pending>>

Deadline(s) ==
    /\ "Deadline" \in Operations
    /\ session[s].status \in {"DRAFT", "OPEN"}
    /\ ~session[s].expired
    /\ session' = [session EXCEPT ![s].expired = TRUE]
    /\ UNCHANGED <<role, decision, proposal, objection, ballots, lock, outbox, pending>>

--------------------------------------------------------------------------------
(* DecisionService                                                         *)

AllowedTransitions ==
    [DRAFT |-> {"ACTIVE", "ARCHIVED"},
     ACTIVE |-> {"CLOSED", "ARCHIVED"},
     CLOSED |-> {"ACTIVE", "ARCHIVED"},
     LOCKED |-> {},
     ARCHIVED |-> {}]

(* EDITABLE_STATUSES and MUTABLE_DECISION_STATUSES *)
Mutable == decision.status \in {"DRAFT", "ACTIVE"}

(* One insert that depends on nothing but the caller's role. *)
CreateDecision(u, c) ==
    /\ "CreateDecision" \in Operations
    /\ CanWriteDecisions(role[u])
    /\ decision.status = "NONE"
    /\ decision' = [status |-> "DRAFT", locked |-> FALSE, content |-> c]
    /\ UNCHANGED <<role, proposal, objection, session, ballots, lock, outbox, pending>>

UpdateDecision(r, u, c) ==
    /\ CanWriteDecisions(role[u])
    /\ Mutable
    /\ c # decision.content
    /\ Hold(r, [op |-> "UpdateDecision", content |-> c])

CommitUpdateDecision(r) ==
    /\ pending[r].op = "UpdateDecision"
    /\ decision.status \notin Gone
    /\ decision' = [decision EXCEPT !.content = pending[r].content]
    /\ Finish(r)
    /\ UNCHANGED <<role, proposal, objection, session, ballots, lock, outbox>>

TransitionDecision(r, u, target) ==
    /\ CanWriteDecisions(role[u])
    /\ decision.status \in DecisionStatuses
    /\ target \in AllowedTransitions[decision.status]
    /\ Hold(r, [op |-> "TransitionDecision", target |-> target,
                events |-> IF decision.status = "DRAFT" /\ target = "ACTIVE"
                           THEN {Event("DECISION_ACTIVATED", "decision")} ELSE {}])

CommitTransitionDecision(r) ==
    LET new == [decision EXCEPT !.status = pending[r].target] IN
    /\ pending[r].op = "TransitionDecision"
    /\ decision.status \notin Gone
    /\ DecisionCheck(new)
    /\ Fresh(pending[r].events)
    /\ decision' = new
    /\ outbox' = outbox \cup pending[r].events
    /\ Finish(r)
    /\ UNCHANGED <<role, proposal, objection, session, ballots, lock>>

DeleteDecision(r, u) ==
    /\ CanDeleteDecisions(role[u])
    /\ decision.status = "DRAFT"
    /\ Hold(r, [op |-> "DeleteDecision"])

(* Proposals, objections and sessions CASCADE; locks and the references to *)
(* proposals RESTRICT.                                                     *)
CommitDeleteDecision(r) ==
    /\ pending[r].op = "DeleteDecision"
    /\ decision.status \notin Gone
    /\ lock = NoLock
    /\ \A p \in Proposals : ~Referenced(p)
    /\ decision' = [decision EXCEPT !.status = "DELETED"]
    /\ proposal' = [p \in Proposals |-> [proposal[p] EXCEPT !.status = "DELETED"]]
    /\ objection' = [o \in Objections |-> [objection[o] EXCEPT !.status = "DELETED"]]
    /\ session' = [s \in Sessions |-> [session[s] EXCEPT !.status = "DELETED"]]
    /\ Finish(r)
    /\ UNCHANGED <<role, ballots, lock, outbox>>

--------------------------------------------------------------------------------
(* ProposalService                                                         *)

ProposalTransitions ==
    [DRAFT |-> {"SUBMITTED", "WITHDRAWN"},
     SUBMITTED |-> {"DRAFT", "WITHDRAWN"},
     WITHDRAWN |-> {}]

CreateProposal(r, u, c) ==
    /\ Mutable
    /\ CanCreateProposals(role[u])
    /\ Hold(r, [op |-> "CreateProposal", user |-> u, content |-> c])

CommitCreateProposal(r) ==
    /\ pending[r].op = "CreateProposal"
    /\ decision.status \notin Gone
    /\ \E p \in Proposals :
        /\ proposal[p].status = "NONE"
        /\ proposal' = [proposal EXCEPT ![p] =
              [status |-> "DRAFT", author |-> pending[r].user, content |-> pending[r].content]]
    /\ Finish(r)
    /\ UNCHANGED <<role, decision, objection, session, ballots, lock, outbox>>

UpdateProposal(r, u, p, c) ==
    /\ Mutable
    /\ CanManageProposal(role[u], proposal[p].author, u)
    /\ proposal[p].status = "DRAFT"
    /\ c # proposal[p].content
    /\ Hold(r, [op |-> "UpdateProposal", proposal |-> p, content |-> c])

CommitUpdateProposal(r) ==
    LET p == pending[r].proposal IN
    /\ pending[r].op = "UpdateProposal"
    /\ proposal[p].status \notin Gone
    /\ proposal' = [proposal EXCEPT ![p].content = pending[r].content]
    /\ Finish(r)
    /\ UNCHANGED <<role, decision, objection, session, ballots, lock, outbox>>

TransitionProposal(r, u, p, target) ==
    /\ Mutable
    /\ CanManageProposal(role[u], proposal[p].author, u)
    /\ proposal[p].status \in ProposalStatuses
    /\ target \in ProposalTransitions[proposal[p].status]
    /\ Hold(r, [op |-> "TransitionProposal", proposal |-> p, target |-> target])

CommitTransitionProposal(r) ==
    LET p == pending[r].proposal IN
    /\ pending[r].op = "TransitionProposal"
    /\ proposal[p].status \notin Gone
    /\ proposal' = [proposal EXCEPT ![p].status = pending[r].target]
    /\ Finish(r)
    /\ UNCHANGED <<role, decision, objection, session, ballots, lock, outbox>>

DeleteProposal(r, u, p) ==
    /\ Mutable
    /\ CanManageProposal(role[u], proposal[p].author, u)
    /\ proposal[p].status = "DRAFT"
    /\ Hold(r, [op |-> "DeleteProposal", proposal |-> p])

(* Seeded fault: the foreign key is set to NULL. *)
OrphanObjection(o, p) ==
    IF objection[o].on = p /\ objection[o].status # "NONE"
    THEN [objection[o] EXCEPT !.on = "NULL"] ELSE objection[o]

(* The objections to a deleted proposal CASCADE. *)
CascadeObjection(o, p) ==
    IF objection[o].on = p /\ objection[o].status # "NONE"
    THEN [objection[o] EXCEPT !.status = "DELETED"] ELSE objection[o]

CommitDeleteProposal(r) ==
    LET p == pending[r].proposal IN
    /\ pending[r].op = "DeleteProposal"
    /\ proposal[p].status \notin Gone
    /\ ~Referenced(p)
    /\ proposal' = [proposal EXCEPT ![p].status = "DELETED"]
    /\ objection' = [o \in Objections |-> CascadeObjection(o, p)]
    /\ Finish(r)
    /\ UNCHANGED <<role, decision, session, ballots, lock, outbox>>

--------------------------------------------------------------------------------
(* ObjectionService                                                        *)

ObjectionTransitions ==
    [OPEN |-> {"RESOLVED", "DISMISSED"},
     RESOLVED |-> {"OPEN"},
     DISMISSED |-> {"OPEN"}]

CreateObjection(r, u, p, severity) ==
    /\ Mutable
    /\ CanCreateObjections(role[u])
    /\ proposal[p].status = "SUBMITTED"
    /\ Hold(r, [op |-> "CreateObjection", user |-> u, on |-> p, severity |-> severity])

CommitCreateObjection(r) ==
    /\ pending[r].op = "CreateObjection"
    /\ proposal[pending[r].on].status \notin Gone
    /\ \E o \in Objections :
        /\ objection[o].status = "NONE"
        /\ objection' = [objection EXCEPT ![o] =
              [status |-> "OPEN", severity |-> pending[r].severity,
               author |-> pending[r].user, on |-> pending[r].on]]
    /\ Finish(r)
    /\ UNCHANGED <<role, decision, proposal, session, ballots, lock, outbox>>

UpdateObjection(r, u, o, severity) ==
    /\ Mutable
    /\ CanEditObjection(role[u], objection[o].author, u)
    /\ objection[o].status = "OPEN"
    /\ severity # objection[o].severity
    /\ Hold(r, [op |-> "UpdateObjection", objection |-> o, severity |-> severity])

CommitUpdateObjection(r) ==
    LET o == pending[r].objection IN
    /\ pending[r].op = "UpdateObjection"
    /\ objection[o].status \notin Gone
    /\ objection' = [objection EXCEPT ![o].severity = pending[r].severity]
    /\ Finish(r)
    /\ UNCHANGED <<role, decision, proposal, session, ballots, lock, outbox>>

TransitionObjection(r, u, o, target) ==
    /\ Mutable
    /\ objection[o].status \in ObjectionStatuses
    /\ target \in ObjectionTransitions[objection[o].status]
    /\ CanTransitionObjection(role[u], objection[o].author, u, target)
    /\ Hold(r, [op |-> "TransitionObjection", objection |-> o, target |-> target])

CommitTransitionObjection(r) ==
    LET o == pending[r].objection IN
    /\ pending[r].op = "TransitionObjection"
    /\ objection[o].status \notin Gone
    /\ objection' = [objection EXCEPT ![o].status = pending[r].target]
    /\ Finish(r)
    /\ UNCHANGED <<role, decision, proposal, session, ballots, lock, outbox>>

--------------------------------------------------------------------------------
(* VotingService                                                           *)

CreateSession(r, u, quorum) ==
    /\ decision.status = "ACTIVE"
    /\ CanManageVoting(role[u])
    /\ \A s \in Sessions : session[s].status \notin {"DRAFT", "OPEN"}
    /\ Hold(r, [op |-> "CreateSession", quorum |-> quorum])

CommitCreateSession(r) ==
    /\ pending[r].op = "CreateSession"
    /\ decision.status \notin Gone
    /\ UnfinishedIndex
    /\ \E s \in Sessions :
        /\ session[s].status = "NONE"
        /\ session' = [session EXCEPT ![s].status = "DRAFT", ![s].quorum = pending[r].quorum]
    /\ Finish(r)
    /\ UNCHANGED <<role, decision, proposal, objection, ballots, lock, outbox>>

OpenSession(r, u, s) ==
    /\ decision.status = "ACTIVE"
    /\ CanManageVoting(role[u])
    /\ session[s].status = "DRAFT"
    /\ ~session[s].expired
    /\ ~OpenBlocking
    /\ Cardinality(Submitted) >= 2
    /\ Eligible # {}
    /\ Hold(r, [op |-> "OpenSession", session |-> s, eligible |-> Eligible,
                choices |-> Submitted])

(* The snapshot rows are unique per voter and per proposal, and a deleted  *)
(* proposal cannot be referred to.                                         *)
CommitOpenSession(r) ==
    LET t == pending[r]
        new == [session[t.session] EXCEPT
                    !.status = "OPEN", !.opened = TRUE,
                    !.eligible = @ \cup t.eligible, !.choices = @ \cup t.choices,
                    !.eligibleCount = Cardinality(t.eligible)]
    IN
    /\ t.op = "OpenSession"
    /\ session[t.session].status \notin Gone
    /\ SessionCheck(new)
    /\ session[t.session].eligible \cap t.eligible = {}
    /\ session[t.session].choices \cap t.choices = {}
    /\ \A p \in t.choices : proposal[p].status \notin Gone
    /\ Fresh({Event("VOTING_OPENED", t.session)})
    /\ session' = [session EXCEPT ![t.session] = new]
    /\ outbox' = outbox \cup {Event("VOTING_OPENED", t.session)}
    /\ Finish(r)
    /\ UNCHANGED <<role, decision, proposal, objection, ballots, lock>>

WithinWindow(s) == session[s].status = "OPEN" /\ ~session[s].expired

CastVote(r, u, s, p) ==
    /\ role[u] \in MemberRoles
    /\ WithinWindow(s)
    /\ u \in session[s].eligible
    /\ p \in session[s].choices
    /\ Hold(r, [op |-> "CastVote", ballot |-> [session |-> s, voter |-> u, choice |-> p]])

CommitCastVote(r) ==
    LET ballot == pending[r].ballot IN
    /\ pending[r].op = "CastVote"
    /\ ~HasVoted(ballot)
    /\ ballots' = ballots \cup {ballot}
    /\ Finish(r)
    /\ UNCHANGED <<role, decision, proposal, objection, session, lock, outbox>>

CloseSession(r, u, s) ==
    /\ CanManageVoting(role[u])
    /\ session[s].status = "OPEN"
    /\ Hold(r, [op |-> "CloseSession", session |-> s])

CommitCloseSession(r) ==
    LET s == pending[r].session
        new == [session[s] EXCEPT !.status = "CLOSED", !.closed = TRUE]
    IN
    /\ pending[r].op = "CloseSession"
    /\ session[s].status \notin Gone
    /\ SessionCheck(new)
    /\ Fresh({Event("VOTING_CLOSED", s)})
    /\ session' = [session EXCEPT ![s] = new]
    /\ outbox' = outbox \cup {Event("VOTING_CLOSED", s)}
    /\ Finish(r)
    /\ UNCHANGED <<role, decision, proposal, objection, ballots, lock>>

CancelSession(r, u, s) ==
    /\ CanManageVoting(role[u])
    /\ session[s].status \in {"DRAFT", "OPEN"}
    /\ Hold(r, [op |-> "CancelSession", session |-> s])

CommitCancelSession(r) ==
    LET s == pending[r].session
        new == [session[s] EXCEPT !.status = "CANCELLED", !.cancelled = TRUE]
    IN
    /\ pending[r].op = "CancelSession"
    /\ session[s].status \notin Gone
    /\ SessionCheck(new)
    /\ session' = [session EXCEPT ![s] = new]
    /\ Finish(r)
    /\ UNCHANGED <<role, decision, proposal, objection, ballots, lock, outbox>>

--------------------------------------------------------------------------------
(* DecisionLockService.create reads in several statements: the decision,   *)
(* its lock and its objections; the session and the number of its votes;   *)
(* the tallies and the winning proposal.  Its commit writes the decision,  *)
(* the lock and the event.                                                 *)

LockDecision(r, u, s) ==
    /\ CanLockDecisions(role[u])
    /\ decision.status = "ACTIVE"
    /\ lock = NoLock
    /\ ~OpenBlocking
    /\ Hold(r, [op |-> "LockDecision", session |-> s, decisionContent |-> decision.content])

Advance(r, txn) ==
    /\ pending' = [pending EXCEPT ![r] = txn]
    /\ UNCHANGED tables

(* Seeded fault: results are shown while voting is open. *)
ResultAvailableEarly(s) == session[s].status \in {"OPEN", "CLOSED"}

ResultAvailable(s) == session[s].status = "CLOSED"

(* VotingService.get_result: the session must be closed, and the result    *)
(* is valid when the votes counted here reach the quorum.                  *)
LockCountVotes(r) ==
    LET t == pending[r] IN
    /\ t.op = "LockDecision"
    /\ ResultAvailable(t.session)
    /\ QuorumMet(t.session)
    /\ Advance(r, [op |-> "LockTally", session |-> t.session,
                   decisionContent |-> t.decisionContent])

(* The winner leads the tallies alone and is still submitted; the snapshot *)
(* copies its content.                                                     *)
LockTallyVotes(r) ==
    LET t == pending[r] IN
    /\ t.op = "LockTally"
    /\ \E p \in Proposals :
        /\ Wins(t.session, p)
        /\ proposal[p].status = "SUBMITTED"
        /\ Advance(r, [op |-> "LockCommit",
                       lock |-> [session |-> t.session, winner |-> p,
                                 decisionContent |-> t.decisionContent,
                                 winnerContent |-> proposal[p].content]])

CommitLockDecision(r) ==
    LET t == pending[r]
        new == [decision EXCEPT !.status = "LOCKED", !.locked = TRUE]
    IN
    /\ t.op = "LockCommit"
    /\ decision.status \notin Gone
    /\ DecisionCheck(new)
    /\ lock = NoLock
    /\ proposal[t.lock.winner].status \notin Gone
    /\ decision' = new
    /\ lock' = t.lock
    /\ outbox' = outbox \cup {Event("DECISION_LOCKED", "decision")}
    /\ Finish(r)
    /\ UNCHANGED <<role, proposal, objection, session, ballots>>

--------------------------------------------------------------------------------
ReadStep(r) ==
    \E u \in Users :
        \/ \E c \in Contents : UpdateDecision(r, u, c) \/ CreateProposal(r, u, c)
        \/ \E target \in DecisionStatuses : TransitionDecision(r, u, target)
        \/ DeleteDecision(r, u)
        \/ \E p \in Proposals :
            \/ \E c \in Contents : UpdateProposal(r, u, p, c)
            \/ \E target \in ProposalStatuses : TransitionProposal(r, u, p, target)
            \/ DeleteProposal(r, u, p)
            \/ \E severity \in Severities : CreateObjection(r, u, p, severity)
        \/ \E o \in Objections :
            \/ \E severity \in Severities : UpdateObjection(r, u, o, severity)
            \/ \E target \in ObjectionStatuses : TransitionObjection(r, u, o, target)
        \/ \E quorum \in Quorums : CreateSession(r, u, quorum)
        \/ \E s \in Sessions :
            \/ OpenSession(r, u, s)
            \/ \E p \in Proposals : CastVote(r, u, s, p)
            \/ CloseSession(r, u, s)
            \/ CancelSession(r, u, s)
            \/ LockDecision(r, u, s)

LockStep(r) == LockCountVotes(r) \/ LockTallyVotes(r)

CommitStep(r) ==
    \/ CommitUpdateDecision(r)
    \/ CommitTransitionDecision(r)
    \/ CommitDeleteDecision(r)
    \/ CommitCreateProposal(r)
    \/ CommitUpdateProposal(r)
    \/ CommitTransitionProposal(r)
    \/ CommitDeleteProposal(r)
    \/ CommitCreateObjection(r)
    \/ CommitUpdateObjection(r)
    \/ CommitTransitionObjection(r)
    \/ CommitCreateSession(r)
    \/ CommitOpenSession(r)
    \/ CommitCastVote(r)
    \/ CommitCloseSession(r)
    \/ CommitCancelSession(r)
    \/ CommitLockDecision(r)

Next ==
    \/ \E u \in Users, c \in Contents : CreateDecision(u, c)
    \/ \E u \in Users, new \in Roles : ChangeMembership(u, new)
    \/ \E s \in Sessions : Deadline(s)
    \/ \E r \in Requests : ReadStep(r) \/ LockStep(r) \/ CommitStep(r) \/ Rollback(r)

Spec == Init /\ [][Next]_vars

--------------------------------------------------------------------------------
(* What the rows and the requests in flight are.                           *)

OpeningTxn == [op: {"OpenSession"}, session: Sessions, eligible: SUBSET Users,
               choices: SUBSET Proposals]
BallotTxn == [op: {"CastVote"}, ballot: Ballot]
LockTxn == [op: {"LockDecision", "LockTally"}, session: Sessions, decisionContent: Contents]
LockCommitTxn == [op: {"LockCommit"}, lock: Lock]
TransitionTxn == [op: {"TransitionDecision"}, target: DecisionStatuses,
                  events: SUBSET {Event("DECISION_ACTIVATED", "decision")}]
ProposalTxn == [op: {"CreateProposal"}, user: Users, content: Contents]
               \cup [op: {"UpdateProposal"}, proposal: Proposals, content: Contents]
               \cup [op: {"TransitionProposal"}, proposal: Proposals, target: ProposalStatuses]
               \cup [op: {"DeleteProposal"}, proposal: Proposals]
ObjectionTxn == [op: {"CreateObjection"}, user: Users, on: Proposals, severity: Severities]
                \cup [op: {"UpdateObjection"}, objection: Objections, severity: Severities]
                \cup [op: {"TransitionObjection"}, objection: Objections,
                      target: ObjectionStatuses]
SessionTxn == [op: {"CloseSession", "CancelSession"}, session: Sessions]
              \cup [op: {"CreateSession"}, quorum: Quorums]
DecisionTxn == [op: {"UpdateDecision"}, content: Contents] \cup [op: {"DeleteDecision"}]

Pending == {Idle} \cup DecisionTxn \cup TransitionTxn \cup ProposalTxn \cup ObjectionTxn
           \cup SessionTxn \cup OpeningTxn \cup BallotTxn \cup LockTxn \cup LockCommitTxn

(* Every row and every request in flight is well formed. *)
TypeOK ==
    /\ role \in [Users -> Roles]
    /\ decision \in Decision
    /\ proposal \in [Proposals -> Proposal]
    /\ objection \in [Objections -> Objection]
    /\ session \in [Sessions -> Session]
    /\ ballots \subseteq Ballot
    /\ lock \in Lock \cup {NoLock}
    /\ pending \in [Requests -> Pending]

--------------------------------------------------------------------------------
(* What interleaved requests may never break.                              *)

(* The lock row and the terminal state come and go together: whatever      *)
(* requests were in flight when the lock committed (decision_lock.py       *)
(* create), no transition or deletion separates them.                      *)
LockedIffApproved == decision.status = "LOCKED" <=> lock # NoLock

(* The lock is immutable and the decision stays locked: a transition that  *)
(* read the decision before the lock committed cannot move it on.          *)
LockIsPermanent ==
    [][lock # NoLock => lock' = lock /\ decision'.status = "LOCKED"]_vars

(* A lock rests on a closed session, and its winner is one of the choices  *)
(* put to the vote and still exists, although the lock handler read both   *)
(* before it wrote (decision_lock.py create).                              *)
ApprovedOutcomeStands ==
    lock # NoLock =>
        /\ session[lock.session].status = "CLOSED"
        /\ lock.winner \in session[lock.session].choices
        /\ proposal[lock.winner].status \notin Gone

(* The percentage asked for of the voters the session was opened to, with  *)
(* no rounding, has voted.                                                 *)
QuorumReached(s) ==
    100 * Cardinality(VotesIn(s)) >= session[s].quorum * Cardinality(session[s].eligible)

(* No outcome is approved below its quorum, although get_result compares a *)
(* rounded number and counts the ballots before the lock is written.       *)
LockedWithQuorum == lock # NoLock => QuorumReached(lock.session)

(* Every ballot is cast by a voter of the snapshot for a choice of the     *)
(* snapshot, and no voter has two, although cast_vote checks eligibility   *)
(* in one statement and inserts in another.                                *)
BallotsAreLegitimate ==
    /\ \A b \in ballots :
        /\ b.voter \in session[b.session].eligible
        /\ b.choice \in session[b.session].choices
    /\ \A b, c \in ballots : b.session = c.session /\ b.voter = c.voter => b = c

(* The electorate, the choices and the quorum of a session never change    *)
(* once it was opened, whatever happens to members and proposals.          *)
SnapshotIsFrozen ==
    [][\A s \in Sessions : session[s].opened =>
        /\ session'[s].eligible = session[s].eligible
        /\ session'[s].choices = session[s].choices
        /\ session'[s].eligibleCount = session[s].eligibleCount
        /\ session'[s].quorum = session[s].quorum]_vars

(* A closed session stays closed; a cancelled one stays cancelled unless   *)
(* its decision is deleted.  close, cancel and open race for the same row. *)
FinishedSessionsAreFinal ==
    [][\A s \in Sessions :
        /\ session[s].status = "CLOSED" => session'[s].status = "CLOSED"
        /\ session[s].status = "CANCELLED" => session'[s].status \in {"CANCELLED", "DELETED"}]_vars

(* At most one draft or open session per decision, although create_session *)
(* looks for one and inserts in different statements.                      *)
OneUnfinishedSession ==
    \A s, t \in Sessions :
        session[s].status \in {"DRAFT", "OPEN"} /\ session[t].status \in {"DRAFT", "OPEN"}
        => s = t

(* A proposal that was put to a vote is never deleted, although delete     *)
(* looked at it while it was a draft.                                      *)
ChoicesExist ==
    \A s \in Sessions : \A p \in session[s].choices : proposal[p].status \notin Gone

--------------------------------------------------------------------------------
(* What the documentation says and interleaved requests do break.          *)

(* README: "`archived` is terminal".  A transition that read the decision  *)
(* before it was archived writes its own status afterwards.                *)
ArchivedIsTerminal ==
    [][decision.status = "ARCHIVED" => decision'.status = "ARCHIVED"]_vars

(* README: "checks again for unresolved blocking objections immediately    *)
(* before locking so a concern raised after voting opened cannot be        *)
(* skipped".                                                               *)
NoConcernIsSkipped == [][lock = NoLock /\ lock' # NoLock => ~OpenBlocking]_vars

(* README: a result has "a winner only when quorum was met and one         *)
(* proposal has the highest tally".                                        *)
ApprovedWinnerLeads == lock # NoLock => Wins(lock.session, lock.winner)

================================================================================
