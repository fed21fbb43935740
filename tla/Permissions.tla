------------------------------ MODULE Permissions ------------------------------
(***************************************************************************)
(* What each workspace role may do (app/permissions).  A role is the       *)
(* caller's workspace membership row; "NONE" stands for a user without one,*)
(* for whom every handler stops at WorkspaceNotFoundError.                 *)
(***************************************************************************)

MemberRoles == {"OWNER", "ADMIN", "MEMBER", "VIEWER"}

Roles == MemberRoles \cup {"NONE"}

Managers == {"OWNER", "ADMIN"}

Writers == Managers \cup {"MEMBER"}

CanWriteDecisions(role) == role \in Writers

CanDeleteDecisions(role) == role \in Managers

CanLockDecisions(role) == role \in Managers

CanManageVoting(role) == role \in Managers

IsVotingRole(role) == role \in Writers

CanCreateProposals(role) == role \in Writers

CanManageProposal(role, author, user) ==
    role \in Managers \/ (role = "MEMBER" /\ author = user)

CanCreateObjections(role) == role \in Writers

CanEditObjection(role, author, user) ==
    role \in Managers \/ (role = "MEMBER" /\ author = user)

(* An author may resolve or reopen an objection, never dismiss it. *)
CanTransitionObjection(role, author, user, target) ==
    \/ role \in Managers
    \/ role = "MEMBER" /\ author = user /\ target \in {"OPEN", "RESOLVED"}

================================================================================
