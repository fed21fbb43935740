----------------------------- MODULE DecisionExports -----------------------------
(***************************************************************************)
(* PDF exports of locked decisions (services and repositories              *)
(* export_search, workers/tasks).                                          *)
(*                                                                         *)
(* There is one export for a lock.  A lock never changes (LockIsPermanent  *)
(* of module Governance), so the check of its hash is part of rendering.   *)
(* Members request exports; a viewer's request changes nothing.  Identical *)
(* messages count as one, because the recovery task may add any number of  *)
(* them.                                                                   *)
(***************************************************************************)
EXTENDS Naturals

CONSTANTS
    Exports,
    ExportRequests,
    Workers,
    MaxAttempts,  \* export_processing_max_attempts
    MaxFaults     \* a bound on lost workers and requests and on skipped rows

VARIABLES
    exports,      \* decision_exports
    exportCalls,  \* what each request in progress is about to do
    queue,        \* exports.generate
    workers,      \* where each generate_decision_export task is
    faults

exportVars == <<exports, exportCalls, queue, workers, faults>>

--------------------------------------------------------------------------------
Statuses == {"PENDING", "PROCESSING", "AVAILABLE", "FAILED"}

(* stale: started_at is fifteen minutes old.  Attempts are only compared   *)
(* with their limit, so they stop there.                                   *)
ExportRow == [status: {"NONE"} \cup Statuses, attempts: 0..MaxAttempts, stale: BOOLEAN,
              completed: BOOLEAN]

New == [status |-> "PENDING", attempts |-> 0, stale |-> FALSE, completed |-> FALSE]

Message == [export: Exports, retries: 0..MaxAttempts - 1]

Idle == [at |-> "Idle"]
NoCall == [at |-> "None"]

Go(w, step) == workers' = [workers EXCEPT ![w].at = step]

End(w) == workers' = [workers EXCEPT ![w] = Idle]

(* ck_decision_exports_available_state *)
AvailableCheck(row) == row.status = "AVAILABLE" <=> row.completed

Init ==
    /\ exports = [e \in Exports |-> [New EXCEPT !.status = "NONE"]]
    /\ exportCalls = [r \in ExportRequests |-> NoCall]
    /\ queue = {}
    /\ workers = [w \in Workers |-> Idle]
    /\ faults = 0

--------------------------------------------------------------------------------
(* Requests.                                                               *)

RequestExport(r, e) ==
    /\ exportCalls[r] = NoCall
    /\ exports[e].status \in {"NONE", "FAILED"}
    /\ exportCalls' = [exportCalls EXCEPT ![r] =
          [at |-> IF exports[e].status = "NONE" THEN "Create" ELSE "Reset", export |-> e]]
    /\ UNCHANGED <<exports, queue, workers, faults>>

(* uq_decision_exports_lock refuses a second one. *)
CreateExport(r) ==
    LET e == exportCalls[r].export IN
    /\ exportCalls[r].at = "Create"
    /\ IF exports[e].status = "NONE"
       THEN /\ exports' = [exports EXCEPT ![e] = New]
            /\ exportCalls' = [exportCalls EXCEPT ![r].at = "Enqueue"]
       ELSE /\ exportCalls' = [exportCalls EXCEPT ![r] = NoCall]
            /\ UNCHANGED exports
    /\ UNCHANGED <<queue, workers, faults>>

(* completed_at is not written. *)
ResetFailed(r) ==
    LET e == exportCalls[r].export
        row == [New EXCEPT !.completed = exports[e].completed]
    IN
    /\ exportCalls[r].at = "Reset"
    /\ IF AvailableCheck(row)
       THEN /\ exports' = [exports EXCEPT ![e] = row]
            /\ exportCalls' = [exportCalls EXCEPT ![r].at = "Enqueue"]
       ELSE /\ exportCalls' = [exportCalls EXCEPT ![r] = NoCall]
            /\ UNCHANGED exports
    /\ UNCHANGED <<queue, workers, faults>>

EnqueueExport(r) ==
    /\ exportCalls[r].at = "Enqueue"
    /\ queue' = queue \cup {[export |-> exportCalls[r].export, retries |-> 0]}
    /\ exportCalls' = [exportCalls EXCEPT ![r] = NoCall]
    /\ UNCHANGED <<exports, workers, faults>>

RequestFails(r) ==
    /\ exportCalls[r] # NoCall
    /\ faults < MaxFaults
    /\ faults' = faults + 1
    /\ exportCalls' = [exportCalls EXCEPT ![r] = NoCall]
    /\ UNCHANGED <<exports, queue, workers>>

--------------------------------------------------------------------------------
(* The task generate_decision_export.                                      *)

(* Seeded fault: a claim is never taken over. *)
ClaimableOnce(row) == row.status \in {"PENDING", "FAILED"}

Claimable(row) ==
    \/ row.status \in {"PENDING", "FAILED"}
    \/ row.status = "PROCESSING" /\ row.stale

Counted(n) == IF n < MaxAttempts THEN n + 1 ELSE n

ClaimExport(w) ==
    /\ workers[w] = Idle
    /\ \E m \in queue :
        LET row == exports[m.export] IN
        /\ queue' = queue \ {m}
        /\ IF Claimable(row)
           THEN /\ exports' = [exports EXCEPT ![m.export] =
                      [status |-> "PROCESSING", attempts |-> Counted(row.attempts),
                       stale |-> FALSE, completed |-> FALSE]]
                /\ workers' = [workers EXCEPT ![w] =
                      [at |-> "Render", msg |-> m, attempts |-> 0]]
           ELSE UNCHANGED <<exports, workers>>
    /\ UNCHANGED <<exportCalls, faults>>

(* Another transaction holds the row: SKIP LOCKED, and the message is gone. *)
SkipLocked(w) ==
    /\ workers[w] = Idle
    /\ faults < MaxFaults
    /\ faults' = faults + 1
    /\ \E m \in queue : queue' = queue \ {m}
    /\ UNCHANGED <<exports, exportCalls, workers>>

(* Rendering and the upload of the file succeed or raise an error. *)
Render(w) ==
    /\ workers[w].at = "Render"
    /\ Go(w, "Finish") \/ Go(w, "Fail")
    /\ UNCHANGED <<exports, exportCalls, queue, faults>>

MarkAvailable(w) ==
    /\ workers[w].at = "Finish"
    /\ exports' = [exports EXCEPT ![workers[w].msg.export].status = "AVAILABLE",
                                  ![workers[w].msg.export].completed = TRUE]
    /\ End(w)
    /\ UNCHANGED <<exportCalls, queue, faults>>

(* _fail_export reads the row, and writes it only if it is processing. *)
FailExport(w) ==
    LET row == exports[workers[w].msg.export] IN
    /\ workers[w].at = "Fail"
    /\ workers' = [workers EXCEPT ![w].attempts = row.attempts,
          ![w].at = IF row.status = "PROCESSING" THEN "WriteFailed" ELSE "Retry"]
    /\ UNCHANGED <<exports, exportCalls, queue, faults>>

(* A refused write is an error of the task that is not retried. *)
MarkFailed(w) ==
    LET e == workers[w].msg.export
        row == [exports[e] EXCEPT !.status = "FAILED"]
    IN
    /\ workers[w].at = "WriteFailed"
    /\ IF AvailableCheck(row)
       THEN exports' = [exports EXCEPT ![e] = row] /\ Go(w, "Retry")
       ELSE UNCHANGED exports /\ End(w)
    /\ UNCHANGED <<exportCalls, queue, faults>>

(* Seeded fault: max_retries is one too many. *)
OneRetryMore(m) == m.retries < MaxAttempts

RetriesLeft(m) == m.retries < MaxAttempts - 1

Retry(w) ==
    LET m == workers[w].msg IN
    /\ workers[w].at = "Retry"
    /\ queue' = IF workers[w].attempts < MaxAttempts /\ RetriesLeft(m)
                THEN queue \cup {[m EXCEPT !.retries = @ + 1]} ELSE queue
    /\ End(w)
    /\ UNCHANGED <<exports, exportCalls, faults>>

(* acks_late and reject_on_worker_lost: the message comes again. *)
LoseWorker(w) ==
    /\ workers[w] # Idle
    /\ faults < MaxFaults
    /\ faults' = faults + 1
    /\ queue' = queue \cup {workers[w].msg}
    /\ End(w)
    /\ UNCHANGED <<exports, exportCalls>>

BecomeStale(e) ==
    /\ exports[e].status = "PROCESSING"
    /\ ~exports[e].stale
    /\ exports' = [exports EXCEPT ![e].stale = TRUE]
    /\ UNCHANGED <<exportCalls, queue, workers, faults>>

RecoverExports ==
    /\ queue' = queue \cup
          [export: {e \in Exports : exports[e].status \in {"PENDING", "PROCESSING"}}, retries: {0}]
    /\ UNCHANGED <<exports, exportCalls, workers, faults>>

--------------------------------------------------------------------------------
Order(r) ==
    \/ \E e \in Exports : RequestExport(r, e)
    \/ CreateExport(r) \/ ResetFailed(r) \/ EnqueueExport(r) \/ RequestFails(r)

Work(w) ==
    \/ ClaimExport(w) \/ Render(w) \/ MarkAvailable(w) \/ FailExport(w) \/ MarkFailed(w)
    \/ Retry(w)

Next ==
    \/ \E r \in ExportRequests : Order(r)
    \/ \E w \in Workers : Work(w) \/ SkipLocked(w) \/ LoseWorker(w)
    \/ \E e \in Exports : BecomeStale(e)
    \/ RecoverExports

Spec == Init /\ [][Next]_exportVars

(* Celery takes messages, time passes, and Beat runs the recovery every    *)
(* five minutes.                                                           *)
Fairness ==
    /\ WF_exportVars(RecoverExports)
    /\ \A e \in Exports : WF_exportVars(BecomeStale(e))
    /\ \A w \in Workers : WF_exportVars(Work(w))

FairSpec == Spec /\ Fairness

--------------------------------------------------------------------------------
(* Every row, message, request and task is well formed. *)
TypeOK ==
    /\ exports \in [Exports -> ExportRow]
    /\ exportCalls \in [ExportRequests ->
          {NoCall} \cup [at: {"Create", "Reset", "Enqueue"}, export: Exports]]
    /\ queue \subseteq Message
    /\ workers \in [Workers ->
          {Idle} \cup [at: {"Render", "Finish", "Fail", "WriteFailed", "Retry"}, msg: Message,
                       attempts: 0..MaxAttempts]]
    /\ faults \in 0..MaxFaults

(* An available export stays available: late failures and resets of other  *)
(* tasks and requests decided on an older row, and the check of the table  *)
(* refuses them (mark_failed, reset_failed).                               *)
AvailableExportIsFinal ==
    [][\A e \in Exports :
        exports[e].status = "AVAILABLE" => exports'[e].status = "AVAILABLE"]_exportVars

(* Every requested export becomes available or fails, whatever worker,     *)
(* request or message is lost, and although a claim is only taken over     *)
(* when it is fifteen minutes old (claim, recover_decision_exports).       *)
EveryExportSettles ==
    \A e \in Exports :
        []<>(exports[e].status \in {"NONE", "AVAILABLE", "FAILED"})

================================================================================
