-------------------------------- MODULE Background --------------------------------
(***************************************************************************)
(* The background work of one deployment under the fairness of Celery and  *)
(* Beat.  The systems share workers but no state, so each behaviour runs   *)
(* one of them and the others stand still.                                 *)
(***************************************************************************)
EXTENDS Naturals, FiniteSets

CONSTANTS
    Notifications, Events, Connections, Uploaded, Documents, Decisions,
    FileRequests, ExportRequests,
    Workers,                           \* of reminders, exports and the index
    OneWorker,                         \* of the outbox and of files
    ReminderAttempts, TaskAttempts,    \* the configured numbers of attempts
    ReminderFaults, OutboxFaults,      \* the faults that happen
    MaxFaults, MaxChanges              \* bounds

ASSUME AttemptsAssumption == ReminderAttempts \in Nat \ {0} /\ TaskAttempts \in Nat \ {0}
ASSUME LimitsAssumption == MaxFaults \in Nat /\ MaxChanges \in Nat

VARIABLES
    system,
    rows, rPublishing, rQueue, rWorkers, emails, reachable, waited, stalled, rFaults,
    outbox, deliveries, connected, oPublishing, oQueue, oWorkers, job, posts, overtaken, oFaults,
    files, objects, fileCalls, fQueue, fWorkers, fFaults,
    exports, exportCalls, eQueue, eWorkers, eFaults,
    changes, editing, documents, sQueue, sWorkers, sFaults, raced

rVars == <<rows, rPublishing, rQueue, rWorkers, emails, reachable, waited, stalled, rFaults>>
oVars == <<outbox, deliveries, connected, oPublishing, oQueue, oWorkers, job, posts, overtaken,
           oFaults>>
fVars == <<files, objects, fileCalls, fQueue, fWorkers, fFaults>>
eVars == <<exports, exportCalls, eQueue, eWorkers, eFaults>>
sVars == <<changes, editing, documents, sQueue, sWorkers, sFaults, raced>>

vars == <<system, rVars, oVars, fVars, eVars, sVars>>

Reminders == INSTANCE NotificationDelivery
    WITH MaxAttempts <- ReminderAttempts, Faults <- ReminderFaults, publishing <- rPublishing,
         queue <- rQueue, workers <- rWorkers, faults <- rFaults

Outbox == INSTANCE IntegrationOutbox
    WITH Workers <- OneWorker, MaxAttempts <- TaskAttempts, Faults <- OutboxFaults,
         publishing <- oPublishing, queue <- oQueue, workers <- oWorkers, faults <- oFaults

Uploads == INSTANCE Attachments
    WITH Files <- Uploaded, Workers <- OneWorker, MaxAttempts <- TaskAttempts, queue <- fQueue,
         workers <- fWorkers, faults <- fFaults

Reports == INSTANCE DecisionExports
    WITH Exports <- Documents, MaxAttempts <- TaskAttempts, queue <- eQueue,
         workers <- eWorkers, faults <- eFaults

Index == INSTANCE SearchIndex
    WITH queue <- sQueue, workers <- sWorkers, faults <- sFaults

--------------------------------------------------------------------------------
Systems == {"reminders", "outbox", "uploads", "reports", "index"}

Init ==
    /\ system \in Systems
    /\ Reminders!Init /\ (system # "reminders" => reachable = {})
    /\ Outbox!Init
    /\ Uploads!Init
    /\ Reports!Init
    /\ Index!Init

OnReminders(A) == system = "reminders" /\ A /\ UNCHANGED <<system, oVars, fVars, eVars, sVars>>
OnOutbox(A) == system = "outbox" /\ A /\ UNCHANGED <<system, rVars, fVars, eVars, sVars>>
OnUploads(A) == system = "uploads" /\ A /\ UNCHANGED <<system, rVars, oVars, eVars, sVars>>
OnReports(A) == system = "reports" /\ A /\ UNCHANGED <<system, rVars, oVars, fVars, sVars>>
OnIndex(A) == system = "index" /\ A /\ UNCHANGED <<system, rVars, oVars, fVars, eVars>>

UploadStep ==
    \/ \E f \in Uploaded :
        \/ OnUploads(Uploads!CreateUpload(f))
        \/ OnUploads(Uploads!Upload(f, "declared size"))
        \/ OnUploads(Uploads!Upload(f, "other size"))
    \/ \E r \in FileRequests :
        \/ \E f \in Uploaded : \/ OnUploads(Uploads!CompleteUpload(r, f))
                               \/ OnUploads(Uploads!DeleteFile(r, f))
        \/ OnUploads(Uploads!WriteProcessing(r))
        \/ OnUploads(Uploads!EnqueueProcessing(r))
        \/ OnUploads(Uploads!RemoveObject(r))
        \/ OnUploads(Uploads!WriteDeleted(r))
        \/ OnUploads(Uploads!CallFails(r))
    \/ \E w \in OneWorker :
        \/ OnUploads(Uploads!Receive(w))
        \/ OnUploads(Uploads!Claim(w))
        \/ OnUploads(Uploads!Inspect(w))
        \/ OnUploads(Uploads!HashObject(w))
        \/ OnUploads(Uploads!MarkAvailable(w))
        \/ OnUploads(Uploads!Fail(w))
        \/ OnUploads(Uploads!RejectFile(w))
        \/ OnUploads(Uploads!WriteRejected(w))
        \/ OnUploads(Uploads!LoseWorker(w))
    \/ OnUploads(Uploads!RecoverFiles)

ReportStep ==
    \/ \E r \in ExportRequests :
        \/ \E e \in Documents : OnReports(Reports!RequestExport(r, e))
        \/ OnReports(Reports!CreateExport(r))
        \/ OnReports(Reports!ResetFailed(r))
        \/ OnReports(Reports!EnqueueExport(r))
        \/ OnReports(Reports!RequestFails(r))
    \/ \E w \in Workers :
        \/ OnReports(Reports!ClaimExport(w))
        \/ OnReports(Reports!Render(w))
        \/ OnReports(Reports!MarkAvailable(w))
        \/ OnReports(Reports!FailExport(w))
        \/ OnReports(Reports!MarkFailed(w))
        \/ OnReports(Reports!Retry(w))
        \/ OnReports(Reports!SkipLocked(w))
        \/ OnReports(Reports!LoseWorker(w))
    \/ \E e \in Documents : OnReports(Reports!BecomeStale(e))
    \/ OnReports(Reports!RecoverExports)

IndexStep ==
    \/ \E d \in Decisions :
        \/ OnIndex(Index!BeginChange(d))
        \/ OnIndex(Index!CommitChange(d))
        \/ OnIndex(Index!DeleteProposal(d))
    \/ \E w \in Workers :
        \/ OnIndex(Index!ReadSource(w))
        \/ OnIndex(Index!Upsert(w))
        \/ OnIndex(Index!IndexFails(w))
    \/ OnIndex(Index!RefreshIndex)

Next ==
    \/ OnReminders(Reminders!Next)
    \/ OnOutbox(Outbox!Next)
    \/ UploadStep
    \/ ReportStep
    \/ IndexStep

ReminderFairness ==
    /\ \A w \in Workers : WF_vars(OnReminders(Reminders!TaskStep(w)))
    /\ \A n \in Notifications :
        /\ WF_vars(OnReminders(Reminders!Publish(n)))
        /\ WF_vars(OnReminders(Reminders!Stall(n)))
        /\ \A a \in Reminders!Attempts : WF_vars(OnReminders(Reminders!Wait(n, a)))
    /\ WF_vars(OnReminders(Reminders!Recover))

OutboxFairness ==
    /\ \A w \in OneWorker : WF_vars(OnOutbox(Outbox!TaskStep(w)))
    /\ \A i \in Events \cup Outbox!Deliveries :
        WF_vars(OnOutbox(Outbox!Elapse(i))) /\ WF_vars(OnOutbox(Outbox!Stall(i)))
    /\ WF_vars(OnOutbox(Outbox!Recover))

UploadFairness ==
    /\ \A w \in OneWorker : WF_vars(OnUploads(Uploads!Work(w)))
    /\ WF_vars(OnUploads(Uploads!RecoverFiles))

ReportFairness ==
    /\ \A w \in Workers : WF_vars(OnReports(Reports!Work(w)))
    /\ \A e \in Documents : WF_vars(OnReports(Reports!BecomeStale(e)))
    /\ WF_vars(OnReports(Reports!RecoverExports))

IndexFairness ==
    /\ \A d \in Decisions : WF_vars(OnIndex(Index!CommitChange(d)))
    /\ \A w \in Workers : WF_vars(OnIndex(Index!ReadSource(w))) /\ WF_vars(OnIndex(Index!Upsert(w)))
    /\ WF_vars(OnIndex(Index!RefreshIndex))

FairSpec ==
    /\ Init /\ [][Next]_vars
    /\ ReminderFairness /\ OutboxFairness /\ UploadFairness /\ ReportFairness /\ IndexFairness

--------------------------------------------------------------------------------
(* The rows of all three new systems are well formed. *)
TypeOK == Uploads!TypeOK /\ Reports!TypeOK /\ Index!TypeOK

(* Every discovered reminder is delivered or fails. *)
EveryReminderEnds == Reminders!EveryReminderEnds

(* Every staged event and every delivery settles for good. *)
EverythingSettles == Outbox!EverythingSettles

(* No uploaded file stays in processing. *)
EveryFileSettles == Uploads!EveryFileSettles

(* Every requested export becomes available or fails, and no late write    *)
(* takes back an available one.                                            *)
ExportsSettleForGood == Reports!EveryExportSettles /\ Reports!AvailableExportIsFinal

(* A search document catches up with every change made while it was quiet. *)
QuietChangesAreIndexed == Index!QuietChangesAreIndexed

================================================================================
