------------------------------- MODULE Evaluation -------------------------------
(***************************************************************************)
(* The criteria of a decision, their order and the scores of its           *)
(* proposals (the second half of services, repositories and models         *)
(* proposal).  A request reads in one step and commits in a later one; the *)
(* commit writes what differs from what was read, and the constraints of   *)
(* the tables, the order's deferred to the commit, refuse it.  Names,      *)
(* weights and the values of scores are left out: they are single          *)
(* attributes that nothing else depends on.  The decision is active and    *)
(* the proposals submitted; module Governance has what changes that.       *)
(***************************************************************************)
EXTENDS Naturals, FiniteSets

CONSTANTS
    Criteria,
    Proposals,
    Requests

VARIABLES
    criteria,   \* decision_criteria: the position of each
    scores,     \* proposal_scores
    forms       \* what each request in progress has read

evaluationVars == <<criteria, scores, forms>>

--------------------------------------------------------------------------------
Absent == [state |-> "absent"]

Deleted == [state |-> "deleted"]

Placed(n) == [state |-> "placed", position |-> n]

Listed == {c \in Criteria : criteria[c].state = "placed"}

Empty == [op |-> "None"]

Begin(r, form) == forms[r] = Empty /\ forms' = [forms EXCEPT ![r] = form]

Doing(r, op) == forms[r].op = op

End(r) == forms' = [forms EXCEPT ![r] = Empty]

Init ==
    /\ criteria = [c \in Criteria |-> Absent]
    /\ scores = {}
    /\ forms = [r \in Requests |-> Empty]

(* Seeded fault: the constraint was left out, as positions are computed. *)
DistinctAnyway(rows) == TRUE

(* uq_decision_criteria_decision_position *)
Distinct(rows) ==
    \A c, d \in Criteria :
        rows[c].state = "placed" /\ rows[d].state = "placed" /\ c # d
            => rows[c].position # rows[d].position

--------------------------------------------------------------------------------
(* next_criterion_position: the highest position + 1. *)
NextPosition(n) ==
    /\ \A c \in Listed : criteria[c].position < n
    /\ n = 0 \/ \E c \in Listed : criteria[c].position = n - 1

CreateCriterion(r) ==
    /\ \E n \in 0..Cardinality(Criteria) :
        NextPosition(n) /\ Begin(r, [op |-> "Create", position |-> n])
    /\ UNCHANGED <<criteria, scores>>

InsertCriterion(r, c) ==
    LET rows == [criteria EXCEPT ![c] = Placed(forms[r].position)] IN
    /\ Doing(r, "Create")
    /\ criteria[c] = Absent
    /\ Distinct(rows)
    /\ criteria' = rows
    /\ End(r)
    /\ UNCHANGED scores

(* Seeded fault: positions are counted from one. *)
OrdersFromOne(set) ==
    {o \in [set -> 1..Cardinality(set)] : \A c, d \in set : o[c] = o[d] => c = d}

Orders(set) == {o \in [set -> 0..Cardinality(set) - 1] : \A c, d \in set : o[c] = o[d] => c = d}

(* The request names every criterion once, or is refused. *)
ReorderCriteria(r) ==
    /\ Listed # {}
    /\ \E order \in Orders(Listed) :
        Begin(r, [op |-> "Reorder", order |-> order, read |-> criteria])
    /\ UNCHANGED <<criteria, scores>>

(* The criteria whose position differs from the one that was read. *)
Moved(form) == {c \in DOMAIN form.order : form.read[c].position # form.order[c]}

Reordered(form) ==
    [c \in Criteria |-> IF c \in Moved(form) THEN Placed(form.order[c]) ELSE criteria[c]]

(* Every row to be moved must still be there. *)
Movable(form) == Moved(form) \subseteq Listed /\ Distinct(Reordered(form))

WriteOrder(r) ==
    /\ Doing(r, "Reorder")
    /\ Movable(forms[r])
    /\ criteria' = Reordered(forms[r])
    /\ End(r)
    /\ UNCHANGED scores

(* A second deletion finds nothing to delete, so one step is enough; the   *)
(* scores go with the criterion.                                           *)
DeleteCriterion(c) ==
    /\ c \in Listed
    /\ criteria' = [criteria EXCEPT ![c] = Deleted]
    /\ scores' = {s \in scores : s.criterion # c}
    /\ UNCHANGED forms

--------------------------------------------------------------------------------
Score(p, c) == [proposal |-> p, criterion |-> c]

UpsertScore(r, p, c) ==
    /\ c \in Listed
    /\ Begin(r, [op |-> "Score", score |-> Score(p, c), update |-> Score(p, c) \in scores])
    /\ UNCHANGED <<criteria, scores>>

(* An update needs its row; an insertion needs the criterion and that      *)
(* nobody inserted the row meanwhile.                                      *)
Writable(form) ==
    IF form.update THEN form.score \in scores
    ELSE form.score.criterion \in Listed /\ form.score \notin scores

WriteScore(r) ==
    /\ Doing(r, "Score")
    /\ Writable(forms[r])
    /\ scores' = scores \cup {forms[r].score}
    /\ End(r)
    /\ UNCHANGED criteria

(* IntegrityError or StaleDataError, which no handler catches. *)
FormFails(r) ==
    /\ \/ Doing(r, "Create") /\ \E c \in Listed : criteria[c].position = forms[r].position
       \/ Doing(r, "Reorder") /\ ~Movable(forms[r])
       \/ Doing(r, "Score") /\ ~Writable(forms[r])
    /\ End(r)
    /\ UNCHANGED <<criteria, scores>>

FormStep(r) ==
    \/ CreateCriterion(r) \/ ReorderCriteria(r) \/ WriteOrder(r) \/ WriteScore(r) \/ FormFails(r)
    \/ \E c \in Criteria : InsertCriterion(r, c) \/ \E p \in Proposals : UpsertScore(r, p, c)

Next ==
    \/ \E r \in Requests : FormStep(r)
    \/ \E c \in Criteria : DeleteCriterion(c)

Spec == Init /\ [][Next]_evaluationVars

--------------------------------------------------------------------------------
Row == {Absent, Deleted} \cup {Placed(n) : n \in 0..Cardinality(Criteria) - 1}

(* Every row and every request in progress is well formed; positions never *)
(* reach the number of criteria that were ever created.                    *)
TypeOK ==
    /\ criteria \in [Criteria -> Row]
    /\ scores \subseteq {Score(p, c) : p \in Proposals, c \in Criteria}
    /\ \A r \in Requests : forms[r].op \in {"None", "Create", "Reorder", "Score"}

(* The comparison lists its criteria in one order and scores nothing but   *)
(* them: overlapping creations, reorders and deletions, which all compute  *)
(* positions from an earlier read, never leave two criteria in one place   *)
(* or a score of a criterion that is gone (create_criterion,               *)
(* reorder_criteria, upsert_score).                                        *)
CriteriaStayInOrder ==
    /\ \A c, d \in Listed : criteria[c].position = criteria[d].position => c = d
    /\ \A s \in scores : s.criterion \in Listed

================================================================================
