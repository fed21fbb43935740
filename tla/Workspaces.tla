------------------------------- MODULE Workspaces -------------------------------
(***************************************************************************)
(* A workspace and its members (services, repositories, models and         *)
(* permissions workspace).  A request reads the roles and checks them in   *)
(* one step and writes the row it read in a later one.                     *)
(***************************************************************************)
EXTENDS Permissions

CONSTANTS
    Users,
    Rows,       \* identities of membership rows, never used twice
    Requests

VARIABLES
    owner,      \* owner_id of the workspace, or a status when it has none
    members,    \* workspace_members
    errands     \* what each request in progress has read

workspaceVars == <<owner, members, errands>>

--------------------------------------------------------------------------------
Owner == Users \cup {"none", "deleted"}

Member == [user: Users, role: MemberRoles]

Unused == [role |-> "NONE"]

Removed == [role |-> "REMOVED"]

(* AssignableWorkspaceRole *)
Assignable == {"ADMIN", "MEMBER", "VIEWER"}

Current(m) == members[m].role \in MemberRoles

Exists == owner \in Users

CanRemove(actor, target) ==
    \/ actor = "OWNER" /\ target # "OWNER"
    \/ actor = "ADMIN" /\ target \in {"MEMBER", "VIEWER"}

CanChangeRole(actor, target) == actor = "OWNER" /\ target # "OWNER"

Nothing == [op |-> "None"]

Begin(r, errand) == errands[r] = Nothing /\ errands' = [errands EXCEPT ![r] = errand]

End(r) == errands' = [errands EXCEPT ![r] = Nothing]

Init ==
    /\ owner = "none"
    /\ members = [m \in Rows |-> Unused]
    /\ errands = [r \in Requests |-> Nothing]

--------------------------------------------------------------------------------
(* The workspace and its owner's membership in one commit. *)
CreateWorkspace(u, m) ==
    /\ owner = "none"
    /\ owner' = u
    /\ members' = [members EXCEPT ![m] = [user |-> u, role |-> "OWNER"]]
    /\ UNCHANGED errands

(* Only the owner, who cannot lose the role: nothing to race. *)
DeleteWorkspace ==
    /\ Exists
    /\ owner' = "deleted"
    /\ members' = [m \in Rows |-> IF Current(m) THEN Removed ELSE members[m]]
    /\ UNCHANGED errands

AddMember(r, actor, u, role) ==
    /\ Exists
    /\ Current(actor) /\ members[actor].role \in Managers
    /\ Begin(r, [op |-> "Add", user |-> u, role |-> role])
    /\ UNCHANGED <<owner, members>>

(* Seeded fault: the membership was looked up before, not by a constraint. *)
AddableAnyway(u) == Exists

(* The foreign key to the workspace and                                    *)
(* uq_workspace_members_workspace_user.                                    *)
Addable(u) == Exists /\ ~\E m \in Rows : Current(m) /\ members[m].user = u

InsertMember(r, m) ==
    LET q == errands[r] IN
    /\ q.op = "Add"
    /\ Addable(q.user)
    /\ members[m] = Unused
    /\ members' = [members EXCEPT ![m] = [user |-> q.user, role |-> q.role]]
    /\ End(r)
    /\ UNCHANGED owner

(* Any constraint is reported as a member that already exists. *)
InsertConflict(r) ==
    /\ errands[r].op = "Add"
    /\ ~Addable(errands[r].user)
    /\ End(r)
    /\ UNCHANGED <<owner, members>>

UpdateMemberRole(r, actor, m, role) ==
    /\ Current(actor) /\ Current(m)
    /\ CanChangeRole(members[actor].role, members[m].role)
    /\ Begin(r, [op |-> "Update", row |-> m, role |-> role])
    /\ UNCHANGED <<owner, members>>

(* Nothing is left to update once the row is gone: StaleDataError. *)
WriteRole(r) ==
    LET m == errands[r].row IN
    /\ errands[r].op = "Update"
    /\ members' = IF Current(m) THEN [members EXCEPT ![m].role = errands[r].role] ELSE members
    /\ End(r)
    /\ UNCHANGED owner

RemoveMember(r, actor, m) ==
    /\ Current(actor) /\ Current(m)
    /\ CanRemove(members[actor].role, members[m].role)
    /\ Begin(r, [op |-> "Remove", row |-> m])
    /\ UNCHANGED <<owner, members>>

DeleteRow(r) ==
    /\ errands[r].op = "Remove"
    /\ members' = [members EXCEPT ![errands[r].row] = Removed]
    /\ End(r)
    /\ UNCHANGED owner

ErrandStep(r) ==
    \/ \E actor \in Rows, u \in Users, role \in Assignable : AddMember(r, actor, u, role)
    \/ \E actor, m \in Rows, role \in Assignable : UpdateMemberRole(r, actor, m, role)
    \/ \E actor, m \in Rows : RemoveMember(r, actor, m)
    \/ \E m \in Rows : InsertMember(r, m)
    \/ InsertConflict(r) \/ WriteRole(r) \/ DeleteRow(r)

Next ==
    \/ \E u \in Users, m \in Rows : CreateWorkspace(u, m)
    \/ DeleteWorkspace
    \/ \E r \in Requests : ErrandStep(r)

Spec == Init /\ [][Next]_workspaceVars

--------------------------------------------------------------------------------
(* Every row and every request in progress is well formed. *)
TypeOK ==
    /\ owner \in Owner
    /\ members \in [Rows -> Member \cup {Unused, Removed}]
    /\ errands \in [Requests ->
          {Nothing}
          \cup [op: {"Add"}, user: Users, role: Assignable]
          \cup [op: {"Update"}, row: Rows, role: Assignable]
          \cup [op: {"Remove"}, row: Rows]]

(* As long as the workspace exists its owner has the one OWNER membership, *)
(* and nobody has two: additions, promotions and removals by several       *)
(* managers that read the same rows cannot take it or give it away         *)
(* (add_member, update_member_role, remove_member).                        *)
OwnerStays ==
    /\ \A m, n \in Rows : Current(m) /\ Current(n) /\ members[m].user = members[n].user => m = n
    /\ \A m \in Rows : members[m].role = "OWNER" => members[m].user = owner
    /\ Exists <=> \E m \in Rows : members[m].role = "OWNER"
    /\ ~Exists => ~\E m \in Rows : Current(m)

================================================================================
