---------------------------- MODULE WorkspacesProofs ----------------------------
(***************************************************************************)
(* Proofs about Workspaces for any users, rows and requests: the owner     *)
(* keeps the one OWNER membership although managers write rows that they   *)
(* read and checked some time before.                                      *)
(***************************************************************************)
EXTENDS Workspaces, TLAPS

(* A user is neither of the marks of a workspace without an owner. *)
UsersAreUsers == "none" \notin Users /\ "deleted" \notin Users

Row == Member \cup {Unused, Removed}

Errand ==
    {Nothing}
    \cup [op: {"Add"}, user: Users, role: Assignable]
    \cup [op: {"Update"}, row: Rows, role: Assignable]
    \cup [op: {"Remove"}, row: Rows]

(* No request has ever read the owner's row as one that it may change, and *)
(* none has begun before the workspace was there.                          *)
TargetsAreNotOwners ==
    \A r \in Requests :
        errands[r].op \in {"Update", "Remove"} =>
            owner # "none" /\ members[errands[r].row].role # "OWNER"

IInv == TypeOK /\ OwnerStays /\ TargetsAreNotOwners

--------------------------------------------------------------------------------
LEMMA RowFields ==
    ASSUME NEW m \in Row
    PROVE  /\ m.role \in MemberRoles => m \in Member
           /\ m.role = "OWNER" => m \in Member
           /\ m \notin Member => m.role \in {"NONE", "REMOVED"}
  BY DEF Row, Member, Unused, Removed, MemberRoles

LEMMA ErrandFields ==
    ASSUME NEW e \in Errand
    PROVE  /\ e.op \in {"None", "Add", "Update", "Remove"}
           /\ e.op = "Add" => e.user \in Users /\ e.role \in Assignable
           /\ e.op = "Update" => e.row \in Rows /\ e.role \in Assignable
           /\ e.op = "Remove" => e.row \in Rows
  BY DEF Errand, Nothing

LEMMA Begins ==
    ASSUME TypeOK, NEW r \in Requests, NEW e \in Errand, Begin(r, e)
    PROVE  /\ errands' \in [Requests -> Errand] /\ errands'[r] = e
           /\ \A q \in Requests \ {r} : errands'[q] = errands[q]
  BY DEF TypeOK, Begin, Errand

LEMMA Ends ==
    ASSUME TypeOK, NEW r \in Requests, End(r)
    PROVE  /\ errands' \in [Requests -> Errand] /\ errands'[r].op = "None"
           /\ \A q \in Requests \ {r} : errands'[q] = errands[q]
  BY DEF TypeOK, End, Errand, Nothing

--------------------------------------------------------------------------------
(* What an errand that begins reads stands until it writes. *)
LEMMA BeginKeeps ==
    ASSUME UsersAreUsers, IInv, NEW r \in Requests, NEW e \in Errand, Begin(r, e),
           UNCHANGED <<owner, members>>,
           e.op \in {"Update", "Remove"} =>
               owner # "none" /\ members[e.row].role # "OWNER"
    PROVE  IInv'
  <1>1. /\ errands' \in [Requests -> Errand] /\ errands'[r] = e
        /\ \A q \in Requests \ {r} : errands'[q] = errands[q]
    BY Begins DEF IInv
  <1>2. TypeOK'
    BY <1>1 DEF IInv, TypeOK, Errand
  <1>3. TargetsAreNotOwners'
    BY <1>1 DEF IInv, TargetsAreNotOwners
  <1>4. OwnerStays'
    BY DEF IInv, OwnerStays, Current, Exists
  <1> QED
    BY <1>2, <1>3, <1>4 DEF IInv

LEMMA AddBegins ==
    ASSUME UsersAreUsers, IInv, NEW r \in Requests,
           NEW actor \in Rows, NEW u \in Users, NEW role \in Assignable,
           AddMember(r, actor, u, role)
    PROVE  IInv'
  <1> DEFINE e == [op |-> "Add", user |-> u, role |-> role]
  <1>1. e \in Errand /\ e.op = "Add"
    BY DEF Errand
  <1>2. Begin(r, e) /\ UNCHANGED <<owner, members>>
    BY DEF AddMember
  <1> QED
    BY <1>1, <1>2, BeginKeeps

LEMMA UpdateBegins ==
    ASSUME UsersAreUsers, IInv, NEW r \in Requests,
           NEW actor \in Rows, NEW m \in Rows, NEW role \in Assignable,
           UpdateMemberRole(r, actor, m, role)
    PROVE  IInv'
  <1> DEFINE e == [op |-> "Update", row |-> m, role |-> role]
  <1>1. e \in Errand /\ e.row = m
    BY DEF Errand
  <1>2. Begin(r, e) /\ UNCHANGED <<owner, members>>
    BY DEF UpdateMemberRole
  <1>3. owner # "none" /\ members[m].role # "OWNER"
    BY DEF UpdateMemberRole, CanChangeRole, IInv, OwnerStays, Exists, UsersAreUsers
  <1> QED
    BY <1>1, <1>2, <1>3, BeginKeeps

LEMMA RemoveBegins ==
    ASSUME UsersAreUsers, IInv, NEW r \in Requests, NEW actor \in Rows, NEW m \in Rows,
           RemoveMember(r, actor, m)
    PROVE  IInv'
  <1> DEFINE e == [op |-> "Remove", row |-> m]
  <1>1. e \in Errand /\ e.row = m
    BY DEF Errand
  <1>2. Begin(r, e) /\ UNCHANGED <<owner, members>>
    BY DEF RemoveMember
  <1>3. owner # "none" /\ members[m].role # "OWNER"
    BY DEF RemoveMember, CanRemove, IInv, OwnerStays, Exists, UsersAreUsers
  <1> QED
    BY <1>1, <1>2, <1>3, BeginKeeps

--------------------------------------------------------------------------------
(* The unique constraint and the foreign key decide about an addition. *)
LEMMA InsertKeeps ==
    ASSUME UsersAreUsers, IInv, NEW r \in Requests, NEW m \in Rows, InsertMember(r, m)
    PROVE  IInv'
  <1> DEFINE q == errands[r]
             row == [user |-> q.user, role |-> q.role]
  <1>1. q.user \in Users /\ q.role \in Assignable
    BY ErrandFields DEF InsertMember, IInv, TypeOK, Errand
  <1>2. row \in Member /\ row.role \in MemberRoles /\ row.role # "OWNER"
    BY <1>1 DEF Member, MemberRoles, Assignable
  <1>3. /\ errands' \in [Requests -> Errand] /\ errands'[r].op = "None"
        /\ \A p \in Requests \ {r} : errands'[p] = errands[p]
    BY Ends DEF IInv, InsertMember
  <1>4. /\ members' \in [Rows -> Row] /\ members'[m] = row /\ owner' = owner
        /\ \A n \in Rows \ {m} : members'[n] = members[n]
    BY <1>2 DEF InsertMember, IInv, TypeOK, Row
  <1>5. /\ Exists /\ members[m].role = "NONE"
        /\ \A n \in Rows : Current(n) => members[n].user # q.user
    BY DEF InsertMember, Addable, Unused
  <1>6. TypeOK'
    BY <1>3, <1>4 DEF IInv, TypeOK, Errand, Row
  <1>7. TargetsAreNotOwners'
    <2>1. \A p \in Requests : errands[p].op \in {"Update", "Remove"} => errands[p].row \in Rows
      BY ErrandFields DEF IInv, TypeOK, Errand
    <2> QED
      BY <1>2, <1>3, <1>4, <2>1 DEF IInv, TargetsAreNotOwners
  <1>8. OwnerStays'
    <2>1. \A n \in Rows : Current(n)' => n = m \/ Current(n)
      BY <1>4 DEF Current
    <2>2. \A n, k \in Rows :
             Current(n)' /\ Current(k)' /\ members'[n].user = members'[k].user => n = k
      BY <1>4, <1>5, <2>1 DEF IInv, OwnerStays
    <2>3. \A n \in Rows : members'[n].role = "OWNER" <=> members[n].role = "OWNER"
      BY <1>2, <1>4, <1>5
    <2>4. Exists' /\ \A n \in Rows : members'[n].role = "OWNER" => members'[n].user = owner'
      BY <1>2, <1>4, <1>5 DEF IInv, OwnerStays, Exists
    <2> QED
      BY <1>5, <2>2, <2>3, <2>4 DEF IInv, OwnerStays
  <1> QED
    BY <1>6, <1>7, <1>8 DEF IInv

LEMMA ConflictKeeps ==
    ASSUME UsersAreUsers, IInv, NEW r \in Requests, InsertConflict(r)
    PROVE  IInv'
  <1>1. /\ errands' \in [Requests -> Errand] /\ errands'[r].op = "None"
        /\ \A p \in Requests \ {r} : errands'[p] = errands[p]
        /\ UNCHANGED <<owner, members>>
    BY Ends DEF IInv, InsertConflict
  <1>2. TypeOK' /\ TargetsAreNotOwners'
    BY <1>1 DEF IInv, TypeOK, Errand, TargetsAreNotOwners
  <1>3. OwnerStays'
    BY <1>1 DEF IInv, OwnerStays, Current, Exists
  <1> QED
    BY <1>2, <1>3 DEF IInv

(* The row is as the request read it, has another role, or is gone. *)
LEMMA WriteKeeps ==
    ASSUME UsersAreUsers, IInv, NEW r \in Requests, WriteRole(r)
    PROVE  IInv'
  <1> DEFINE m == errands[r].row
             role == errands[r].role
  <1>1. m \in Rows /\ role \in Assignable /\ members[m].role # "OWNER" /\ owner # "none"
    BY ErrandFields DEF WriteRole, IInv, TypeOK, Errand, TargetsAreNotOwners
  <1>2. /\ errands' \in [Requests -> Errand] /\ errands'[r].op = "None"
        /\ \A p \in Requests \ {r} : errands'[p] = errands[p]
    BY Ends DEF IInv, WriteRole
  <1>3. /\ owner' = owner /\ members' \in [Rows -> Row]
        /\ \A n \in Rows \ {m} : members'[n] = members[n]
        /\ ~Current(m) => members'[m] = members[m]
        /\ Current(m) => members'[m] = [user |-> members[m].user, role |-> role]
    <2>1. members \in [Rows -> Row]
      BY DEF IInv, TypeOK, Row
    <2>2. CASE Current(m)
      <3>1. members[m] \in Member
        BY <1>1, <2>1, <2>2, RowFields DEF Current
      <3>2. PICK new : new = [members[m] EXCEPT !.role = role]
        OBVIOUS
      <3>3. new = [user |-> members[m].user, role |-> role]
        BY <3>1, <3>2 DEF Member
      <3>4. new \in Row
        BY <1>1, <3>1, <3>3 DEF Row, Member, MemberRoles, Assignable
      <3>5. members' = [members EXCEPT ![m] = new] /\ owner' = owner
        BY <2>1, <2>2, <3>2 DEF WriteRole
      <3> QED
        BY <1>1, <2>1, <2>2, <3>3, <3>4, <3>5
    <2>3. CASE ~Current(m)
      BY <2>1, <2>3 DEF WriteRole
    <2> QED
      BY <2>2, <2>3
  <1>4. \A n \in Rows : /\ Current(n)' <=> Current(n)
                        /\ Current(n) => members'[n].user = members[n].user
                        /\ members'[n].role = "OWNER" <=> members[n].role = "OWNER"
    BY <1>1, <1>3 DEF Current, Assignable, MemberRoles
  <1>5. TypeOK'
    BY <1>2, <1>3 DEF IInv, TypeOK, Errand, Row
  <1>6. TargetsAreNotOwners'
    <2>1. \A p \in Requests : errands[p].op \in {"Update", "Remove"} => errands[p].row \in Rows
      BY ErrandFields DEF IInv, TypeOK, Errand
    <2> QED
      BY <1>2, <1>3, <1>4, <2>1 DEF IInv, TargetsAreNotOwners
  <1>7. OwnerStays'
    <2>1. \A n \in Rows : members[n].role = "OWNER" => Current(n)
      BY DEF Current, MemberRoles
    <2> QED
      BY <1>3, <1>4, <2>1 DEF IInv, OwnerStays, Exists
  <1> QED
    BY <1>5, <1>6, <1>7 DEF IInv

LEMMA DeleteKeeps ==
    ASSUME UsersAreUsers, IInv, NEW r \in Requests, DeleteRow(r)
    PROVE  IInv'
  <1> DEFINE m == errands[r].row
  <1>1. m \in Rows /\ members[m].role # "OWNER" /\ owner # "none"
    BY ErrandFields DEF DeleteRow, IInv, TypeOK, Errand, TargetsAreNotOwners
  <1>2. /\ errands' \in [Requests -> Errand] /\ errands'[r].op = "None"
        /\ \A p \in Requests \ {r} : errands'[p] = errands[p]
    BY Ends DEF IInv, DeleteRow
  <1>3. /\ owner' = owner /\ members' \in [Rows -> Row] /\ members'[m].role = "REMOVED"
        /\ \A n \in Rows \ {m} : members'[n] = members[n]
    BY <1>1 DEF DeleteRow, IInv, TypeOK, Row, Removed
  <1>4. \A n \in Rows : /\ Current(n)' => n # m /\ Current(n)
                        /\ members'[n].role = "OWNER" <=> members[n].role = "OWNER"
                        /\ members'[n].role = "OWNER" => n # m
    BY <1>1, <1>3 DEF Current, MemberRoles
  <1>5. TypeOK'
    BY <1>2, <1>3 DEF IInv, TypeOK, Errand, Row
  <1>6. TargetsAreNotOwners'
    <2>1. \A p \in Requests : errands[p].op \in {"Update", "Remove"} => errands[p].row \in Rows
      BY ErrandFields DEF IInv, TypeOK, Errand
    <2> QED
      BY <1>2, <1>3, <1>4, <2>1 DEF IInv, TargetsAreNotOwners
  <1>7. OwnerStays'
    BY <1>3, <1>4 DEF IInv, OwnerStays, Exists
  <1> QED
    BY <1>5, <1>6, <1>7 DEF IInv

--------------------------------------------------------------------------------
LEMMA CreateKeeps ==
    ASSUME UsersAreUsers, IInv, NEW u \in Users, NEW m \in Rows, CreateWorkspace(u, m)
    PROVE  IInv'
  <1> DEFINE row == [user |-> u, role |-> "OWNER"]
  <1>1. row \in Member /\ row.user = u /\ row.role = "OWNER"
    BY DEF Member, MemberRoles
  <1>2. /\ owner = "none" /\ owner' = u /\ errands' = errands
        /\ members' \in [Rows -> Row] /\ members'[m] = row
        /\ \A n \in Rows \ {m} : members'[n] = members[n]
    BY <1>1 DEF CreateWorkspace, IInv, TypeOK, Row
  <1>3. \A n \in Rows : ~Current(n)
    BY <1>2 DEF IInv, OwnerStays, Exists, UsersAreUsers
  <1>4. \A n \in Rows : Current(n)' \/ members'[n].role = "OWNER" => n = m
    BY <1>2, <1>3 DEF Current, MemberRoles
  <1>5. TypeOK'
    BY <1>2 DEF IInv, TypeOK, Row, Owner
  <1>6. TargetsAreNotOwners'
    BY <1>2 DEF IInv, TargetsAreNotOwners
  <1>7. OwnerStays'
    BY <1>1, <1>2, <1>4 DEF OwnerStays, Exists
  <1> QED
    BY <1>5, <1>6, <1>7 DEF IInv

LEMMA DeleteWorkspaceKeeps ==
    ASSUME UsersAreUsers, IInv, DeleteWorkspace
    PROVE  IInv'
  <1>1. /\ owner' = "deleted" /\ errands' = errands
        /\ members' = [m \in Rows |-> IF Current(m) THEN Removed ELSE members[m]]
    BY DEF DeleteWorkspace
  <1>2. \A m \in Rows : ~Current(m)' /\ members'[m].role # "OWNER"
    BY <1>1 DEF Current, MemberRoles, Removed
  <1>3. TypeOK'
    BY <1>1 DEF IInv, TypeOK, Owner
  <1>4. TargetsAreNotOwners'
    <2>1. \A p \in Requests : errands[p].op \in {"Update", "Remove"} => errands[p].row \in Rows
      BY ErrandFields DEF IInv, TypeOK, Errand
    <2> QED
      BY <1>1, <1>2, <2>1 DEF TargetsAreNotOwners
  <1>5. OwnerStays'
    BY <1>1, <1>2 DEF OwnerStays, Exists, UsersAreUsers
  <1> QED
    BY <1>3, <1>4, <1>5 DEF IInv

--------------------------------------------------------------------------------
(* Rows and requests stay well formed, and no request in progress holds    *)
(* the owner's row, whoever adds, promotes and removes members together.   *)
THEOREM Invariant == UsersAreUsers => (Spec => []IInv)
  <1> SUFFICES ASSUME UsersAreUsers PROVE Spec => []IInv
    OBVIOUS
  <1>1. Init => IInv
    BY DEF UsersAreUsers, Init, IInv, TypeOK, OwnerStays, TargetsAreNotOwners, Owner, Exists,
           Current, Unused, Nothing, MemberRoles
  <1>2. IInv /\ [Next]_workspaceVars => IInv'
    <2> SUFFICES ASSUME IInv, [Next]_workspaceVars PROVE IInv'
      OBVIOUS
    <2>1. CASE UNCHANGED workspaceVars
      BY <2>1 DEF workspaceVars, IInv, TypeOK, OwnerStays, TargetsAreNotOwners, Exists, Current
    <2>2. ASSUME NEW r \in Requests, ErrandStep(r) PROVE IInv'
      BY <2>2, AddBegins, UpdateBegins, RemoveBegins, InsertKeeps, ConflictKeeps, WriteKeeps,
         DeleteKeeps DEF ErrandStep
    <2> QED
      BY <2>1, <2>2, CreateKeeps, DeleteWorkspaceKeeps DEF Next
  <1> QED
    BY <1>1, <1>2, PTL DEF Spec

(* As long as a workspace exists its owner has the one OWNER membership,   *)
(* and nobody has two (add_member, update_member_role, remove_member).     *)
THEOREM OwnerIsKept == UsersAreUsers => (Spec => []OwnerStays)
  <1> SUFFICES ASSUME UsersAreUsers PROVE Spec => []OwnerStays
    OBVIOUS
  <1>1. IInv => OwnerStays
    BY DEF IInv
  <1> QED
    BY <1>1, Invariant, PTL

================================================================================
