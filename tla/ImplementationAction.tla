-------------------------- MODULE ImplementationAction --------------------------
(***************************************************************************)
(* Implementation actions of a locked decision (the action half of         *)
(* services, repositories and models action_review).                       *)
(*                                                                         *)
(* A request reads the action and checks it in one step and commits in a   *)
(* later one; the commit writes the attributes that differ from what it    *)
(* read over whatever the row has become, and the two checks of the table  *)
(* are what refuses it.  Titles, descriptions and dates are left out: they *)
(* are written like the assignee and nothing depends on them.              *)
(***************************************************************************)
CONSTANTS
    Members,    \* users of the workspace
    Role,       \* their roles
    Actions,
    Requests

VARIABLES
    actions,    \* implementation_actions
    changes     \* what each request in progress has read

actionVars == <<actions, changes>>

--------------------------------------------------------------------------------
Active == {"TODO", "IN_PROGRESS", "BLOCKED"}
Finished == {"COMPLETED", "CANCELLED"}

(* ACTION_TRANSITIONS: any other active status, or an end. *)
Transitions(from) == IF from \in Active THEN (Active \ {from}) \cup Finished ELSE {}

(* completed and cancelled say whether the timestamps are set. *)
ActionRow == [status: Active \cup Finished, assignee: Members, completed: BOOLEAN,
              cancelled: BOOLEAN]

Absent == [status |-> "NONE"]

CanManage(user) == Role[user] \in {"OWNER", "ADMIN"}

CanTransition(user, assignee) == CanManage(user) \/ user = assignee

Eligible(user) == Role[user] # "VIEWER"

(* Seeded fault: the checks were left out of the migration. *)
ActionCheckMissing(row) == TRUE

(* ck_implementation_actions_completed_state and _cancelled_state *)
ActionCheck(row) ==
    /\ row.completed <=> row.status = "COMPLETED"
    /\ row.cancelled <=> row.status = "CANCELLED"

NoChange == [op |-> "None"]

Begin(r, change) == changes[r] = NoChange /\ changes' = [changes EXCEPT ![r] = change]

End(r) == changes' = [changes EXCEPT ![r] = NoChange]

Init ==
    /\ actions = [a \in Actions |-> Absent]
    /\ changes = [r \in Requests |-> NoChange]

--------------------------------------------------------------------------------
(* The decision is locked and stays so, so a creation has nothing to race. *)
CreateAction(user, a, assignee) ==
    /\ actions[a] = Absent
    /\ CanManage(user)
    /\ Eligible(assignee)
    /\ actions' = [actions EXCEPT ![a] = [status |-> "TODO", assignee |-> assignee,
                                          completed |-> FALSE, cancelled |-> FALSE]]
    /\ UNCHANGED changes

UpdateAction(r, user, a, assignee) ==
    /\ CanManage(user)
    /\ actions[a].status \in Active
    /\ Eligible(assignee)
    /\ assignee # actions[a].assignee
    /\ Begin(r, [op |-> "Update", action |-> a, assignee |-> assignee])
    /\ UNCHANGED actions

(* No check looks at the status: a finished action can be reassigned late. *)
WriteUpdate(r) ==
    /\ changes[r].op = "Update"
    /\ actions' = [actions EXCEPT ![changes[r].action].assignee = changes[r].assignee]
    /\ End(r)

TransitionAction(r, user, a, target) ==
    /\ target \in Transitions(actions[a].status)
    /\ CanTransition(user, actions[a].assignee)
    /\ Begin(r, [op |-> "Transition", action |-> a, target |-> target])
    /\ UNCHANGED actions

(* A timestamp that was empty when read and stays empty is not written. *)
Moved(row, target) ==
    [row EXCEPT !.status = target, !.completed = @ \/ target = "COMPLETED",
                !.cancelled = @ \/ target = "CANCELLED"]

WriteTransition(r) ==
    LET a == changes[r].action
        row == Moved(actions[a], changes[r].target)
    IN
    /\ changes[r].op = "Transition"
    /\ actions' = IF ActionCheck(row) THEN [actions EXCEPT ![a] = row] ELSE actions
    /\ End(r)

Next ==
    \/ \E u, v \in Members, a \in Actions : CreateAction(u, a, v)
    \/ \E r \in Requests, u, v \in Members, a \in Actions : UpdateAction(r, u, a, v)
    \/ \E r \in Requests, u \in Members, a \in Actions, t \in Active \cup Finished :
        TransitionAction(r, u, a, t)
    \/ \E r \in Requests : WriteUpdate(r) \/ WriteTransition(r)

Spec == Init /\ [][Next]_actionVars

--------------------------------------------------------------------------------
(* Every action and every change in progress is well formed. *)
TypeOK ==
    /\ actions \in [Actions -> ActionRow \cup {Absent}]
    /\ changes \in [Requests ->
          {NoChange}
          \cup [op: {"Update"}, action: Actions, assignee: Members]
          \cup [op: {"Transition"}, action: Actions, target: Active \cup Finished]]

(* README: "Completed and cancelled actions are terminal".  Requests that  *)
(* read the action before it was finished commit afterwards, and only the  *)
(* checks refuse them (transition_action).                                 *)
ActionEndsOnce ==
    [][\A a \in Actions :
        actions[a].status \in Finished => actions'[a].status = actions[a].status]_actionVars

================================================================================
