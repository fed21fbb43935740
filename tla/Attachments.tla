------------------------------- MODULE Attachments -------------------------------
(***************************************************************************)
(* Uploaded files: a row in PostgreSQL, an object in the bucket, and the   *)
(* task that checks the object (services and repositories attachment,      *)
(* workers/tasks).                                                         *)
(*                                                                         *)
(* Requests and tasks read in one step and commit in a later one, and no   *)
(* write repeats the check it was decided on.  Identical messages count as *)
(* one, because the recovery task may add any number of them.              *)
(***************************************************************************)
EXTENDS Naturals

CONSTANTS
    Files,
    FileRequests,
    Workers,
    MaxAttempts,  \* attachment_processing_max_attempts
    MaxFaults     \* a bound on lost workers and requests

VARIABLES
    files,      \* attachments
    objects,    \* what the bucket holds under the key of each
    fileCalls,  \* what each request in progress is about to do
    queue,      \* files.process
    workers,    \* where each process_attachment task is
    faults

fileVars == <<files, objects, fileCalls, queue, workers, faults>>

--------------------------------------------------------------------------------
Statuses == {"PENDING", "PROCESSING", "AVAILABLE", "REJECTED", "DELETED"}

(* Attempts are only compared with their limit, so they stop there. *)
FileRow == [status: {"NONE"} \cup Statuses, attempts: 0..MaxAttempts]

Message == [file: Files, retries: 0..MaxAttempts - 1]

Claimed == {"Claim", "Inspect", "Hash", "Finish", "Fail", "Reject", "WriteRejected"}

Idle == [at |-> "Idle"]
NoCall == [at |-> "None"]

Go(w, step) == workers' = [workers EXCEPT ![w].at = step]

End(w) == workers' = [workers EXCEPT ![w] = Idle]

Status(w) == files[workers[w].msg.file].status

SetStatus(f, status) == files' = [files EXCEPT ![f].status = status]

Init ==
    /\ files = [f \in Files |-> [status |-> "NONE", attempts |-> 0]]
    /\ objects = [f \in Files |-> "missing"]
    /\ fileCalls = [r \in FileRequests |-> NoCall]
    /\ queue = {}
    /\ workers = [w \in Workers |-> Idle]
    /\ faults = 0

--------------------------------------------------------------------------------
(* Requests.                                                               *)

CreateUpload(f) ==
    /\ files[f].status = "NONE"
    /\ SetStatus(f, "PENDING")
    /\ UNCHANGED <<objects, fileCalls, queue, workers, faults>>

(* The client's PUT, with or without the declared size: the presigned URL  *)
(* does not know what became of the row.                                   *)
Upload(f, object) ==
    /\ files[f].status # "NONE"
    /\ objects' = [objects EXCEPT ![f] = object]
    /\ UNCHANGED <<files, fileCalls, queue, workers, faults>>

BeginCall(r, f, step) ==
    /\ fileCalls[r] = NoCall
    /\ fileCalls' = [fileCalls EXCEPT ![r] = [at |-> step, file |-> f]]
    /\ UNCHANGED <<files, objects, queue, workers, faults>>

CompleteUpload(r, f) == files[f].status = "PENDING" /\ BeginCall(r, f, "WriteProcessing")

WriteProcessing(r) ==
    /\ fileCalls[r].at = "WriteProcessing"
    /\ SetStatus(fileCalls[r].file, "PROCESSING")
    /\ fileCalls' = [fileCalls EXCEPT ![r].at = "Enqueue"]
    /\ UNCHANGED <<objects, queue, workers, faults>>

EnqueueProcessing(r) ==
    /\ fileCalls[r].at = "Enqueue"
    /\ queue' = queue \cup {[file |-> fileCalls[r].file, retries |-> 0]}
    /\ fileCalls' = [fileCalls EXCEPT ![r] = NoCall]
    /\ UNCHANGED <<files, objects, workers, faults>>

DeleteFile(r, f) ==
    /\ files[f].status \notin {"NONE", "DELETED"}
    /\ BeginCall(r, f, "Remove")

RemoveObject(r) ==
    /\ fileCalls[r].at = "Remove"
    /\ objects' = [objects EXCEPT ![fileCalls[r].file] = "missing"]
    /\ fileCalls' = [fileCalls EXCEPT ![r].at = "WriteDeleted"]
    /\ UNCHANGED <<files, queue, workers, faults>>

WriteDeleted(r) ==
    /\ fileCalls[r].at = "WriteDeleted"
    /\ SetStatus(fileCalls[r].file, "DELETED")
    /\ fileCalls' = [fileCalls EXCEPT ![r] = NoCall]
    /\ UNCHANGED <<objects, queue, workers, faults>>

(* The API process dies, or the broker or the bucket refuses. *)
CallFails(r) ==
    /\ fileCalls[r] # NoCall
    /\ faults < MaxFaults
    /\ faults' = faults + 1
    /\ fileCalls' = [fileCalls EXCEPT ![r] = NoCall]
    /\ UNCHANGED <<files, objects, queue, workers>>

--------------------------------------------------------------------------------
(* The task process_attachment.                                            *)

(* claim_processing reads the row; any other status is ignored. *)
Receive(w) ==
    /\ workers[w] = Idle
    /\ \E m \in queue :
        /\ queue' = queue \ {m}
        /\ workers' = [workers EXCEPT ![w] =
              IF files[m.file].status = "PROCESSING"
              THEN [at |-> "Claim", msg |-> m, attempts |-> files[m.file].attempts, known |-> ""]
              ELSE Idle]
    /\ UNCHANGED <<files, objects, fileCalls, faults>>

Counted(n) == IF n < MaxAttempts THEN n + 1 ELSE n

Claim(w) ==
    /\ workers[w].at = "Claim"
    /\ files' = [files EXCEPT ![workers[w].msg.file].attempts = Counted(workers[w].attempts)]
    /\ Go(w, "Inspect")
    /\ UNCHANGED <<objects, fileCalls, queue, faults>>

(* The refresh after the commit, then the size of the object. *)
Inspect(w) ==
    /\ workers[w].at = "Inspect"
    /\ \E next \in {"Hash", "Reject", "Fail"} :
        /\ next = "Hash" => objects[workers[w].msg.file] = "declared size"
        /\ next = "Reject" => objects[workers[w].msg.file] = "other size"
        /\ workers' = [workers EXCEPT ![w].at = next, ![w].known = Status(w)]
    /\ UNCHANGED <<files, objects, fileCalls, queue, faults>>

HashObject(w) ==
    /\ workers[w].at = "Hash"
    /\ \/ objects[workers[w].msg.file] # "missing" /\ Go(w, "Finish")
       \/ Go(w, "Fail")
    /\ UNCHANGED <<files, objects, fileCalls, queue, faults>>

(* mark_available leaves out a status that already was AVAILABLE. *)
MarkAvailable(w) ==
    /\ workers[w].at = "Finish"
    /\ IF workers[w].known = "AVAILABLE"
       THEN UNCHANGED files
       ELSE SetStatus(workers[w].msg.file, "AVAILABLE")
    /\ End(w)
    /\ UNCHANGED <<objects, fileCalls, queue, faults>>

(* _attachment_attempt_limit_reached *)
LimitReached(f) == files[f].attempts = MaxAttempts

RetriesLeft(m) == m.retries < MaxAttempts - 1

Fail(w) ==
    LET m == workers[w].msg IN
    /\ workers[w].at = "Fail"
    /\ IF LimitReached(m.file)
       THEN Go(w, "Reject") /\ UNCHANGED queue
       ELSE /\ queue' = IF RetriesLeft(m) THEN queue \cup {[m EXCEPT !.retries = @ + 1]}
                        ELSE queue
            /\ End(w)
    /\ UNCHANGED <<files, objects, fileCalls, faults>>

RejectFile(w) ==
    /\ workers[w].at = "Reject"
    /\ IF Status(w) = "PROCESSING" THEN Go(w, "WriteRejected") ELSE End(w)
    /\ UNCHANGED <<files, objects, fileCalls, queue, faults>>

WriteRejected(w) ==
    /\ workers[w].at = "WriteRejected"
    /\ SetStatus(workers[w].msg.file, "REJECTED")
    /\ End(w)
    /\ UNCHANGED <<objects, fileCalls, queue, faults>>

(* acks_late and reject_on_worker_lost: the message comes again. *)
LoseWorker(w) ==
    /\ workers[w] # Idle
    /\ faults < MaxFaults
    /\ faults' = faults + 1
    /\ queue' = queue \cup {workers[w].msg}
    /\ End(w)
    /\ UNCHANGED <<files, objects, fileCalls>>

(* Seeded fault: uploads are recovered instead of their processing. *)
RecoverablePending(f) == files[f].status = "PENDING"

(* list_processing *)
Recoverable(f) == files[f].status = "PROCESSING"

RecoverFiles ==
    /\ queue' = queue \cup [file: {f \in Files : Recoverable(f)}, retries: {0}]
    /\ UNCHANGED <<files, objects, fileCalls, workers, faults>>

--------------------------------------------------------------------------------
CallStep(r) ==
    \/ \E f \in Files : CompleteUpload(r, f) \/ DeleteFile(r, f)
    \/ WriteProcessing(r) \/ EnqueueProcessing(r) \/ RemoveObject(r) \/ WriteDeleted(r)
    \/ CallFails(r)

Work(w) ==
    \/ Receive(w) \/ Claim(w) \/ Inspect(w) \/ HashObject(w) \/ MarkAvailable(w)
    \/ Fail(w) \/ RejectFile(w) \/ WriteRejected(w)

Next ==
    \/ \E f \in Files : CreateUpload(f) \/ Upload(f, "declared size") \/ Upload(f, "other size")
    \/ \E r \in FileRequests : CallStep(r)
    \/ \E w \in Workers : Work(w) \/ LoseWorker(w)
    \/ RecoverFiles

Spec == Init /\ [][Next]_fileVars

(* Celery takes messages, and Beat runs the recovery every five minutes.   *)
Fairness == WF_fileVars(RecoverFiles) /\ \A w \in Workers : WF_fileVars(Work(w))

FairSpec == Spec /\ Fairness

--------------------------------------------------------------------------------
(* Every row, message, request and task is well formed. *)
TypeOK ==
    /\ files \in [Files -> FileRow]
    /\ objects \in [Files -> {"missing", "declared size", "other size"}]
    /\ fileCalls \in [FileRequests ->
          {NoCall} \cup [at: {"WriteProcessing", "Enqueue", "Remove", "WriteDeleted"}, file: Files]]
    /\ queue \subseteq Message
    /\ workers \in [Workers ->
          {Idle} \cup [at: Claimed, msg: Message, attempts: 0..MaxAttempts,
                       known: {"", "NONE"} \cup Statuses]]
    /\ faults \in 0..MaxFaults

(* README: pending attachment processing is recovered.  A file does not    *)
(* stay in processing, whatever worker, request or message is lost,        *)
(* however often its checks fail, and although late writes can put it back *)
(* into processing (process_attachment, recover_attachment_processing).    *)
EveryFileSettles == \A f \in Files : <>[](files[f].status # "PROCESSING")

================================================================================
