------------------------------- MODULE SearchIndex -------------------------------
(***************************************************************************)
(* The search documents of decisions, refreshed every minute (services and *)
(* repositories export_search, workers/tasks).                             *)
(*                                                                         *)
(* A document is a copy of a decision, its proposals and its lock.  What   *)
(* it holds is the number of the change it was made from; whether it is    *)
(* listed again depends on two times, indexed_at and the updated_at of     *)
(* what it copies, of which only the order matters.  updated_at is now(),  *)
(* which PostgreSQL takes when the transaction begins.                     *)
(***************************************************************************)
EXTENDS Naturals

CONSTANTS
    Decisions,
    Workers,
    MaxChanges,  \* a bound on changes to a decision
    MaxFaults    \* a bound on failing or lost tasks

VARIABLES
    changes,    \* how many changes of each decision were committed
    editing,    \* the transaction that changes it: whether updated_at is the later time
    documents,  \* decision_search_documents
    queue,      \* search.index
    workers,    \* where each index_decision task is
    faults,
    raced       \* history: decisions with a change that a time comparison can miss

searchVars == <<changes, editing, documents, queue, workers, faults, raced>>

--------------------------------------------------------------------------------
(* behind: some updated_at is later than indexed_at, or there is nothing. *)
Document == [made: Nat, behind: BOOLEAN]
Missing == [made |-> 0, behind |-> FALSE]

Idle == [at |-> "Idle"]

Indexing(d) == \E w \in Workers : workers[w] # Idle /\ workers[w].decision = d

Init ==
    /\ changes = [d \in Decisions |-> 0]
    /\ editing = [d \in Decisions |-> "no"]
    /\ documents = [d \in Decisions |-> Missing]
    /\ queue = {}
    /\ workers = [w \in Workers |-> Idle]
    /\ faults = 0
    /\ raced = {}

--------------------------------------------------------------------------------
(* Requests that create, edit, move or lock a decision or write a proposal. *)
BeginChange(d) ==
    /\ editing[d] = "no"
    /\ changes[d] < MaxChanges
    /\ editing' = [editing EXCEPT ![d] = "later"]
    /\ UNCHANGED <<changes, documents, queue, workers, faults, raced>>

CommitChange(d) ==
    /\ editing[d] # "no"
    /\ changes' = [changes EXCEPT ![d] = @ + 1]
    /\ documents' = [documents EXCEPT ![d].behind = @ \/ editing[d] = "later"]
    /\ editing' = [editing EXCEPT ![d] = "no"]
    /\ raced' = IF Indexing(d) \/ editing[d] = "earlier" THEN raced \cup {d} ELSE raced
    /\ UNCHANGED <<queue, workers, faults>>

(* A deleted proposal takes its updated_at with it. *)
DeleteProposal(d) ==
    /\ changes[d] \in 1..MaxChanges - 1
    /\ editing[d] = "no"
    /\ changes' = [changes EXCEPT ![d] = @ + 1]
    /\ raced' = raced \cup {d}
    /\ UNCHANGED <<editing, documents, queue, workers, faults>>

--------------------------------------------------------------------------------
(* Seeded fault: only decisions without a document are listed. *)
StaleIfMissing(d) == documents[d].behind /\ documents[d].made = 0

(* list_stale_decision_ids *)
Stale(d) == documents[d].behind

RefreshIndex ==
    /\ queue' = queue \cup {d \in Decisions : Stale(d)}
    /\ UNCHANGED <<changes, editing, documents, workers, faults, raced>>

(* get_index_source *)
ReadSource(w) ==
    /\ workers[w] = Idle
    /\ \E d \in queue :
        /\ queue' = queue \ {d}
        /\ workers' = [workers EXCEPT ![w] = [at |-> "Upsert", decision |-> d, read |-> changes[d]]]
    /\ UNCHANGED <<changes, editing, documents, faults, raced>>

(* The time is taken here, after everything that was read. *)
Upsert(w) ==
    LET d == workers[w].decision IN
    /\ workers[w].at = "Upsert"
    /\ documents' = [documents EXCEPT ![d] = [made |-> workers[w].read, behind |-> FALSE]]
    /\ editing' = [editing EXCEPT ![d] = IF @ = "later" THEN "earlier" ELSE @]
    /\ workers' = [workers EXCEPT ![w] = Idle]
    /\ UNCHANGED <<changes, queue, faults, raced>>

(* An error is retried four times and then given up; a lost worker's       *)
(* message comes again.                                                    *)
IndexFails(w) ==
    /\ workers[w] # Idle
    /\ faults < MaxFaults
    /\ faults' = faults + 1
    /\ \/ queue' = queue \cup {workers[w].decision}
       \/ UNCHANGED queue
    /\ workers' = [workers EXCEPT ![w] = Idle]
    /\ UNCHANGED <<changes, editing, documents, raced>>

--------------------------------------------------------------------------------
Next ==
    \/ \E d \in Decisions : BeginChange(d) \/ CommitChange(d) \/ DeleteProposal(d)
    \/ \E w \in Workers : ReadSource(w) \/ Upsert(w) \/ IndexFails(w)
    \/ RefreshIndex

Spec == Init /\ [][Next]_searchVars

(* Celery takes messages, transactions end, and Beat runs the refresh every *)
(* minute.                                                                  *)
Fairness ==
    /\ WF_searchVars(RefreshIndex)
    /\ \A d \in Decisions : WF_searchVars(CommitChange(d))
    /\ \A w \in Workers : WF_searchVars(ReadSource(w)) /\ WF_searchVars(Upsert(w))

FairSpec == Spec /\ Fairness

--------------------------------------------------------------------------------
(* Every document and task is well formed. *)
TypeOK ==
    /\ changes \in [Decisions -> 0..MaxChanges]
    /\ editing \in [Decisions -> {"no", "later", "earlier"}]
    /\ documents \in [Decisions -> Document]
    /\ queue \subseteq Decisions
    /\ workers \in [Workers ->
          {Idle} \cup [at: {"Upsert"}, decision: Decisions, read: 1..MaxChanges]]
    /\ faults \in 0..MaxFaults
    /\ raced \subseteq Decisions

(* A document catches up with its decision, whatever tasks fail or are     *)
(* lost, if no change was committed while it was being indexed, began      *)
(* before an indexing that it outlived, or deleted a proposal              *)
(* (refresh_search_index, index_decision).                                 *)
QuietChangesAreIndexed ==
    \A d \in Decisions : <>[](d \in raced \/ documents[d].made = changes[d])

(* README: "Celery Beat discovers decisions whose title, proposal content, *)
(* status, or lock snapshot changed after the last index time": every      *)
(* document catches up with its decision in the end.                       *)
EveryChangeIsIndexed ==
    \A d \in Decisions : <>[](documents[d].made = changes[d])

================================================================================
