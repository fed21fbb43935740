---------------------------- MODULE BackgroundProofs ----------------------------
(***************************************************************************)
(* Proofs about Background, for any files, exports, decisions, requests    *)
(* and workers: the rows of files, exports and search documents stay well  *)
(* formed, and an available export stays available.                        *)
(***************************************************************************)
EXTENDS Background, TLAPS

--------------------------------------------------------------------------------
(* A step of the deployment is a step of each system.                      *)
LEMMA UploadsStepped ==
    ASSUME [Next]_vars PROVE [Uploads!Next]_(Uploads!fileVars)
  <1>1. CASE UploadStep
    BY <1>1 DEF UploadStep, OnUploads, Uploads!Next, Uploads!CallStep, Uploads!Work
  <1>2. CASE UNCHANGED fVars
    BY <1>2 DEF fVars, Uploads!fileVars
  <1>3. UploadStep \/ UNCHANGED fVars
    BY DEF Next, vars, OnReminders, OnOutbox, ReportStep, OnReports, IndexStep, OnIndex
  <1> QED
    BY <1>1, <1>2, <1>3

LEMMA ReportsStepped ==
    ASSUME [Next]_vars PROVE [Reports!Next]_(Reports!exportVars)
  <1>1. CASE ReportStep
    BY <1>1 DEF ReportStep, OnReports, Reports!Next, Reports!Order, Reports!Work
  <1>2. CASE UNCHANGED eVars
    BY <1>2 DEF eVars, Reports!exportVars
  <1>3. ReportStep \/ UNCHANGED eVars
    BY DEF Next, vars, OnReminders, OnOutbox, UploadStep, OnUploads, IndexStep, OnIndex
  <1> QED
    BY <1>1, <1>2, <1>3

LEMMA IndexStepped ==
    ASSUME [Next]_vars PROVE [Index!Next]_(Index!searchVars)
  <1>1. CASE IndexStep
    BY <1>1 DEF IndexStep, OnIndex, Index!Next
  <1>2. CASE UNCHANGED sVars
    BY <1>2 DEF sVars, Index!searchVars
  <1>3. IndexStep \/ UNCHANGED sVars
    BY DEF Next, vars, OnReminders, OnOutbox, UploadStep, OnUploads, ReportStep, OnReports
  <1> QED
    BY <1>1, <1>2, <1>3

(* Every behaviour of the deployment is one of each of the three systems.  *)
THEOREM SystemSpecs == FairSpec => Uploads!Spec /\ Reports!Spec /\ Index!Spec
  <1>1. Init => Uploads!Init /\ Reports!Init /\ Index!Init
    BY DEF Init
  <1>2. [Next]_vars => /\ [Uploads!Next]_(Uploads!fileVars)
                       /\ [Reports!Next]_(Reports!exportVars)
                       /\ [Index!Next]_(Index!searchVars)
    BY UploadsStepped, ReportsStepped, IndexStepped
  <1> QED
    BY <1>1, <1>2, PTL DEF FairSpec, Uploads!Spec, Reports!Spec, Index!Spec

--------------------------------------------------------------------------------
(* Files.                                                                  *)

(* A request in progress names a file. *)
LEMMA CallFields ==
    ASSUME Uploads!TypeOK, NEW r \in FileRequests, fileCalls[r].at # "None"
    PROVE  fileCalls[r] \in [at: {"WriteProcessing", "Enqueue", "Remove", "WriteDeleted"},
                             file: Uploaded]
  <1>1. Uploads!NoCall.at = "None"
    BY DEF Uploads!NoCall
  <1> QED
    BY <1>1 DEF Uploads!TypeOK

(* A task that is not idle has a message. *)
LEMMA TaskFields ==
    ASSUME Uploads!TypeOK, NEW w \in OneWorker, fWorkers[w].at # "Idle"
    PROVE  fWorkers[w] \in [at: Uploads!Claimed, msg: Uploads!Message,
                            attempts: 0..TaskAttempts,
                            known: {"", "NONE"} \cup Uploads!Statuses]
  <1>1. Uploads!Idle.at = "Idle"
    BY DEF Uploads!Idle
  <1> QED
    BY <1>1 DEF Uploads!TypeOK

(* A write of the status leaves well-formed rows. *)
LEMMA FileWritten ==
    ASSUME Uploads!TypeOK, NEW f \in Uploaded, NEW s \in Uploads!Statuses,
           Uploads!SetStatus(f, s)
    PROVE  files' \in [Uploaded -> Uploads!FileRow]
  <1>1. files[f] \in Uploads!FileRow
    BY DEF Uploads!TypeOK
  <1>2. PICK row : row = [files[f] EXCEPT !.status = s]
    OBVIOUS
  <1>3. row \in Uploads!FileRow
    BY <1>1, <1>2 DEF Uploads!FileRow
  <1>4. files' = [files EXCEPT ![f] = row]
    BY <1>2 DEF Uploads!SetStatus
  <1> QED
    BY <1>3, <1>4 DEF Uploads!TypeOK

(* A task that goes on, or ends, stays well formed. *)
LEMMA TaskGoes ==
    ASSUME Uploads!TypeOK, NEW w \in OneWorker, fWorkers[w].at # "Idle",
           \/ Uploads!End(w)
           \/ \E step \in Uploads!Claimed : Uploads!Go(w, step)
           \/ \E step \in Uploads!Claimed, known \in {"", "NONE"} \cup Uploads!Statuses :
                 fWorkers' = [fWorkers EXCEPT ![w].at = step, ![w].known = known]
    PROVE  fWorkers' \in [OneWorker -> {Uploads!Idle} \cup
               [at: Uploads!Claimed, msg: Uploads!Message, attempts: 0..TaskAttempts,
                known: {"", "NONE"} \cup Uploads!Statuses]]
  <1>1. CASE Uploads!End(w)
    BY <1>1 DEF Uploads!End, Uploads!TypeOK
  <1>2. ASSUME NEW step \in Uploads!Claimed, Uploads!Go(w, step)
        PROVE  fWorkers' \in [OneWorker -> {Uploads!Idle} \cup
               [at: Uploads!Claimed, msg: Uploads!Message, attempts: 0..TaskAttempts,
                known: {"", "NONE"} \cup Uploads!Statuses]]
    <2>1. PICK task : task = [fWorkers[w] EXCEPT !.at = step]
      OBVIOUS
    <2>2. task \in [at: Uploads!Claimed, msg: Uploads!Message, attempts: 0..TaskAttempts,
                    known: {"", "NONE"} \cup Uploads!Statuses]
      BY <2>1, TaskFields
    <2>3. fWorkers' = [fWorkers EXCEPT ![w] = task]
      BY <1>2, <2>1 DEF Uploads!Go
    <2> QED
      BY <2>2, <2>3 DEF Uploads!TypeOK
  <1>3. ASSUME NEW step \in Uploads!Claimed, NEW known \in {"", "NONE"} \cup Uploads!Statuses,
               fWorkers' = [fWorkers EXCEPT ![w].at = step, ![w].known = known]
        PROVE  fWorkers' \in [OneWorker -> {Uploads!Idle} \cup
               [at: Uploads!Claimed, msg: Uploads!Message, attempts: 0..TaskAttempts,
                known: {"", "NONE"} \cup Uploads!Statuses]]
    <2>1. PICK task : task = [fWorkers[w] EXCEPT !.at = step, !.known = known]
      OBVIOUS
    <2>2. task \in [at: Uploads!Claimed, msg: Uploads!Message, attempts: 0..TaskAttempts,
                    known: {"", "NONE"} \cup Uploads!Statuses]
      BY <2>1, TaskFields
    <2>3. fWorkers' = [fWorkers EXCEPT ![w] = task]
      BY <1>3, <2>1 DEF Uploads!TypeOK
    <2> QED
      BY <2>2, <2>3 DEF Uploads!TypeOK
  <1> QED
    BY <1>1, <1>2, <1>3

(* Requests keep rows, messages and requests well formed. *)
LEMMA CallKeepsTypes ==
    ASSUME Uploads!TypeOK, NEW r \in FileRequests, Uploads!CallStep(r)
    PROVE  Uploads!TypeOK'
  <1> USE AttemptsAssumption, LimitsAssumption
  <1> DEFINE Steps == {"WriteProcessing", "Enqueue", "Remove", "WriteDeleted"}
             Calls == {Uploads!NoCall} \cup [at: Steps, file: Uploaded]
  <1>1. ASSUME NEW f \in Uploaded, NEW step \in Steps, Uploads!BeginCall(r, f, step)
        PROVE  Uploads!TypeOK'
    <2>1. PICK call : call = [at |-> step, file |-> f]
      OBVIOUS
    <2>2. call \in [at: Steps, file: Uploaded]
      BY <2>1
    <2>3. fileCalls' = [fileCalls EXCEPT ![r] = call]
      BY <1>1, <2>1 DEF Uploads!BeginCall
    <2> QED
      BY <1>1, <2>2, <2>3 DEF Uploads!BeginCall, Uploads!TypeOK
  <1>2. CASE \E f \in Uploaded : Uploads!CompleteUpload(r, f) \/ Uploads!DeleteFile(r, f)
    BY <1>1, <1>2 DEF Uploads!CompleteUpload, Uploads!DeleteFile
  <1>3. ASSUME NEW step \in Steps, fileCalls[r].at # "None",
               fileCalls' = [fileCalls EXCEPT ![r].at = step]
        PROVE  fileCalls' \in [FileRequests -> Calls]
    <2>1. PICK call : call = [fileCalls[r] EXCEPT !.at = step]
      OBVIOUS
    <2>2. call \in [at: Steps, file: Uploaded]
      BY <1>3, <2>1, CallFields
    <2>3. fileCalls' = [fileCalls EXCEPT ![r] = call]
      BY <1>3, <2>1
    <2> QED
      BY <2>2, <2>3 DEF Uploads!TypeOK
  <1>4. CASE Uploads!WriteProcessing(r)
    <2>1. fileCalls[r].at # "None" /\ fileCalls[r].file \in Uploaded
      BY <1>4, CallFields DEF Uploads!WriteProcessing
    <2>2. fileCalls' \in [FileRequests -> Calls]
      BY <1>3, <1>4, <2>1 DEF Uploads!WriteProcessing
    <2>3. files' \in [Uploaded -> Uploads!FileRow]
      BY <1>4, <2>1, FileWritten DEF Uploads!WriteProcessing, Uploads!Statuses
    <2> QED
      BY <1>4, <2>2, <2>3 DEF Uploads!WriteProcessing, Uploads!TypeOK
  <1>5. CASE Uploads!EnqueueProcessing(r)
    <2>1. fileCalls[r].file \in Uploaded
      BY <1>5, CallFields DEF Uploads!EnqueueProcessing
    <2>2. [file |-> fileCalls[r].file, retries |-> 0] \in Uploads!Message
      BY <2>1 DEF Uploads!Message
    <2> QED
      BY <1>5, <2>2 DEF Uploads!EnqueueProcessing, Uploads!TypeOK
  <1>6. CASE Uploads!RemoveObject(r)
    <2>1. fileCalls[r].at # "None"
      BY <1>6 DEF Uploads!RemoveObject
    <2>2. fileCalls' \in [FileRequests -> Calls]
      BY <1>3, <1>6, <2>1 DEF Uploads!RemoveObject
    <2> QED
      BY <1>6, <2>2 DEF Uploads!RemoveObject, Uploads!TypeOK
  <1>7. CASE Uploads!WriteDeleted(r)
    <2>1. fileCalls[r].file \in Uploaded
      BY <1>7, CallFields DEF Uploads!WriteDeleted
    <2>2. files' \in [Uploaded -> Uploads!FileRow]
      BY <1>7, <2>1, FileWritten DEF Uploads!WriteDeleted, Uploads!Statuses
    <2> QED
      BY <1>7, <2>2 DEF Uploads!WriteDeleted, Uploads!TypeOK
  <1>8. CASE Uploads!CallFails(r)
    <2>1. fileCalls' \in [FileRequests -> Calls]
      BY <1>8 DEF Uploads!CallFails, Uploads!TypeOK
    <2>2. fFaults \in 0..MaxFaults /\ fFaults < MaxFaults /\ fFaults' = fFaults + 1
      BY <1>8 DEF Uploads!CallFails, Uploads!TypeOK
    <2>3. fFaults' \in 0..MaxFaults
      BY <2>2
    <2> QED
      BY <1>8, <2>1, <2>3 DEF Uploads!CallFails, Uploads!TypeOK
  <1> QED
    BY <1>2, <1>4, <1>5, <1>6, <1>7, <1>8 DEF Uploads!CallStep

(* A message that a task hands back, or hands on for a retry. *)
LEMMA FileRetry ==
    ASSUME NEW m \in Uploads!Message, Uploads!RetriesLeft(m)
    PROVE  [m EXCEPT !.retries = @ + 1] \in Uploads!Message
  <1> PICK n : n = m.retries + 1
    OBVIOUS
  <1>1. n \in 0..TaskAttempts - 1
    BY AttemptsAssumption DEF Uploads!RetriesLeft, Uploads!Message
  <1>2. PICK next : next = [m EXCEPT !.retries = n]
    OBVIOUS
  <1>3. next \in Uploads!Message
    BY <1>1, <1>2 DEF Uploads!Message
  <1> QED
    BY <1>2, <1>3

(* So do tasks. *)
LEMMA TaskKeepsTypes ==
    ASSUME Uploads!TypeOK, NEW w \in OneWorker, Uploads!Work(w) \/ Uploads!LoseWorker(w)
    PROVE  Uploads!TypeOK'
  <1> USE AttemptsAssumption, LimitsAssumption
  <1> DEFINE Tasks == {Uploads!Idle} \cup
                [at: Uploads!Claimed, msg: Uploads!Message, attempts: 0..TaskAttempts,
                 known: {"", "NONE"} \cup Uploads!Statuses]
             m == fWorkers[w].msg
  <1>1. CASE Uploads!Receive(w)
    <2>1. PICK msg \in fQueue :
             /\ fQueue' = fQueue \ {msg}
             /\ fWorkers' = [fWorkers EXCEPT ![w] =
                   IF files[msg.file].status = "PROCESSING"
                   THEN [at |-> "Claim", msg |-> msg, attempts |-> files[msg.file].attempts,
                         known |-> ""]
                   ELSE Uploads!Idle]
      BY <1>1 DEF Uploads!Receive
    <2>2. msg \in Uploads!Message /\ files[msg.file].attempts \in 0..TaskAttempts
      BY DEF Uploads!TypeOK, Uploads!Message, Uploads!FileRow
    <2>3. PICK task : task = [at |-> "Claim", msg |-> msg,
                              attempts |-> files[msg.file].attempts, known |-> ""]
      OBVIOUS
    <2>4. task \in [at: Uploads!Claimed, msg: Uploads!Message, attempts: 0..TaskAttempts,
                    known: {"", "NONE"} \cup Uploads!Statuses]
      BY <2>2, <2>3 DEF Uploads!Claimed
    <2>5. \/ fWorkers' = [fWorkers EXCEPT ![w] = task]
          \/ fWorkers' = [fWorkers EXCEPT ![w] = Uploads!Idle]
      BY <2>1, <2>3
    <2>6. fWorkers' \in [OneWorker -> Tasks]
      BY <2>4, <2>5 DEF Uploads!TypeOK
    <2> QED
      BY <1>1, <2>1, <2>6 DEF Uploads!Receive, Uploads!TypeOK
  <1>2. ASSUME fWorkers[w].at \in Uploads!Claimed
        PROVE  /\ fWorkers[w].at # "Idle"
               /\ m \in Uploads!Message /\ m.file \in Uploaded
               /\ fWorkers[w].attempts \in 0..TaskAttempts
               /\ Uploads!Status(w) \in {"", "NONE"} \cup Uploads!Statuses
    <2>1. fWorkers[w].at # "Idle"
      BY <1>2 DEF Uploads!Claimed
    <2>2. m \in Uploads!Message /\ fWorkers[w].attempts \in 0..TaskAttempts
      BY <2>1, TaskFields
    <2>3. m.file \in Uploaded
      BY <2>2 DEF Uploads!Message
    <2> QED
      BY <2>1, <2>2, <2>3 DEF Uploads!Status, Uploads!TypeOK, Uploads!FileRow
  <1>3. CASE Uploads!Claim(w)
    <2>1. fWorkers[w].at \in Uploads!Claimed /\ "Inspect" \in Uploads!Claimed
      BY <1>3 DEF Uploads!Claim, Uploads!Claimed
    <2>2. fWorkers' \in [OneWorker -> Tasks]
      BY <1>2, <1>3, <2>1, TaskGoes DEF Uploads!Claim
    <2>3. PICK n : n = Uploads!Counted(fWorkers[w].attempts)
      OBVIOUS
    <2>4. n \in 0..TaskAttempts
      <3>1. \A k \in 0..TaskAttempts : Uploads!Counted(k) \in 0..TaskAttempts
        BY DEF Uploads!Counted
      <3> QED
        BY <1>2, <2>1, <2>3, <3>1
    <2>5. PICK row : row = [files[m.file] EXCEPT !.attempts = n]
      OBVIOUS
    <2>6. row \in Uploads!FileRow
      BY <1>2, <2>1, <2>4, <2>5 DEF Uploads!TypeOK, Uploads!FileRow
    <2>7. files' = [files EXCEPT ![m.file] = row]
      BY <1>3, <2>3, <2>5 DEF Uploads!Claim
    <2>8. files' \in [Uploaded -> Uploads!FileRow]
      BY <2>6, <2>7 DEF Uploads!TypeOK
    <2> QED
      BY <1>3, <2>2, <2>8 DEF Uploads!Claim, Uploads!TypeOK
  <1>4. CASE Uploads!Inspect(w)
    <2>1. fWorkers[w].at \in Uploads!Claimed
      BY <1>4 DEF Uploads!Inspect, Uploads!Claimed
    <2>2. fWorkers' \in [OneWorker -> Tasks]
      BY <1>2, <1>4, <2>1, TaskGoes DEF Uploads!Inspect, Uploads!Claimed
    <2> QED
      BY <1>4, <2>2 DEF Uploads!Inspect, Uploads!TypeOK
  <1>5. CASE Uploads!HashObject(w)
    <2>1. fWorkers[w].at \in Uploads!Claimed
      BY <1>5 DEF Uploads!HashObject, Uploads!Claimed
    <2>2. fWorkers' \in [OneWorker -> Tasks]
      BY <1>2, <1>5, <2>1, TaskGoes DEF Uploads!HashObject, Uploads!Claimed
    <2> QED
      BY <1>5, <2>2 DEF Uploads!HashObject, Uploads!TypeOK
  <1>6. CASE Uploads!MarkAvailable(w)
    <2>1. fWorkers[w].at \in Uploads!Claimed
      BY <1>6 DEF Uploads!MarkAvailable, Uploads!Claimed
    <2>2. fWorkers' \in [OneWorker -> Tasks]
      BY <1>2, <1>6, <2>1, TaskGoes DEF Uploads!MarkAvailable
    <2>3. files' \in [Uploaded -> Uploads!FileRow]
      BY <1>2, <1>6, <2>1, FileWritten
         DEF Uploads!MarkAvailable, Uploads!Statuses, Uploads!TypeOK
    <2> QED
      BY <1>6, <2>2, <2>3 DEF Uploads!MarkAvailable, Uploads!TypeOK
  <1>7. CASE Uploads!Fail(w)
    <2>1. fWorkers[w].at \in Uploads!Claimed /\ "Reject" \in Uploads!Claimed
      BY <1>7 DEF Uploads!Fail, Uploads!Claimed
    <2>2. fWorkers' \in [OneWorker -> Tasks]
      BY <1>2, <1>7, <2>1, TaskGoes DEF Uploads!Fail
    <2>3. fQueue' \subseteq Uploads!Message
      BY <1>2, <1>7, <2>1, FileRetry DEF Uploads!Fail, Uploads!TypeOK
    <2> QED
      BY <1>7, <2>2, <2>3 DEF Uploads!Fail, Uploads!TypeOK
  <1>8. CASE Uploads!RejectFile(w)
    <2>1. fWorkers[w].at \in Uploads!Claimed /\ "WriteRejected" \in Uploads!Claimed
      BY <1>8 DEF Uploads!RejectFile, Uploads!Claimed
    <2>2. fWorkers' \in [OneWorker -> Tasks]
      BY <1>2, <1>8, <2>1, TaskGoes DEF Uploads!RejectFile
    <2> QED
      BY <1>8, <2>2 DEF Uploads!RejectFile, Uploads!TypeOK
  <1>9. CASE Uploads!WriteRejected(w)
    <2>1. fWorkers[w].at \in Uploads!Claimed
      BY <1>9 DEF Uploads!WriteRejected, Uploads!Claimed
    <2>2. fWorkers' \in [OneWorker -> Tasks]
      BY <1>2, <1>9, <2>1, TaskGoes DEF Uploads!WriteRejected
    <2>3. files' \in [Uploaded -> Uploads!FileRow]
      BY <1>2, <1>9, <2>1, FileWritten DEF Uploads!WriteRejected, Uploads!Statuses
    <2> QED
      BY <1>9, <2>2, <2>3 DEF Uploads!WriteRejected, Uploads!TypeOK
  <1>10. CASE Uploads!LoseWorker(w)
    <2>1. fWorkers[w].at \in Uploads!Claimed
      BY <1>10 DEF Uploads!LoseWorker, Uploads!TypeOK
    <2>2. fWorkers' \in [OneWorker -> Tasks]
      BY <1>2, <1>10, <2>1, TaskGoes DEF Uploads!LoseWorker
    <2>3. fFaults \in 0..MaxFaults /\ fFaults < MaxFaults /\ fFaults' = fFaults + 1
      BY <1>10 DEF Uploads!LoseWorker, Uploads!TypeOK
    <2>4. fFaults' \in 0..MaxFaults
      BY <2>3
    <2>5. fQueue' \subseteq Uploads!Message
      BY <1>2, <1>10, <2>1 DEF Uploads!LoseWorker, Uploads!TypeOK
    <2> QED
      BY <1>10, <2>2, <2>4, <2>5 DEF Uploads!LoseWorker, Uploads!TypeOK
  <1> QED
    BY <1>1, <1>3, <1>4, <1>5, <1>6, <1>7, <1>8, <1>9, <1>10 DEF Uploads!Work

(* Files are well formed in every behaviour. *)
LEMMA FilesWellFormed == Uploads!Spec => []Uploads!TypeOK
  <1> USE AttemptsAssumption, LimitsAssumption
  <1>1. Uploads!Init => Uploads!TypeOK
    <2> SUFFICES ASSUME Uploads!Init PROVE Uploads!TypeOK
      OBVIOUS
    <2>1. PICK row : row = [status |-> "NONE", attempts |-> 0]
      OBVIOUS
    <2>2. row \in Uploads!FileRow
      BY <2>1 DEF Uploads!FileRow
    <2>3. files = [f \in Uploaded |-> row]
      BY <2>1 DEF Uploads!Init
    <2> QED
      BY <2>2, <2>3 DEF Uploads!Init, Uploads!TypeOK
  <1>2. Uploads!TypeOK /\ [Uploads!Next]_(Uploads!fileVars) => Uploads!TypeOK'
    <2> SUFFICES ASSUME Uploads!TypeOK, [Uploads!Next]_(Uploads!fileVars)
                 PROVE  Uploads!TypeOK'
      OBVIOUS
    <2>1. CASE UNCHANGED Uploads!fileVars
      BY <2>1 DEF Uploads!fileVars, Uploads!TypeOK
    <2>2. ASSUME NEW f \in Uploaded, Uploads!CreateUpload(f)
          PROVE  Uploads!TypeOK'
      <3>1. files' \in [Uploaded -> Uploads!FileRow]
        BY <2>2, FileWritten DEF Uploads!CreateUpload, Uploads!Statuses
      <3> QED
        BY <2>2, <3>1 DEF Uploads!CreateUpload, Uploads!TypeOK
    <2>3. ASSUME NEW f \in Uploaded, NEW object \in {"declared size", "other size"},
                 Uploads!Upload(f, object)
          PROVE  Uploads!TypeOK'
      BY <2>3 DEF Uploads!Upload, Uploads!TypeOK
    <2>4. CASE Uploads!RecoverFiles
      <3>1. [file: {f \in Uploaded : Uploads!Recoverable(f)}, retries: {0}]
               \subseteq Uploads!Message
        BY DEF Uploads!Message
      <3> QED
        BY <2>4, <3>1 DEF Uploads!RecoverFiles, Uploads!TypeOK
    <2> QED
      BY <2>1, <2>2, <2>3, <2>4, CallKeepsTypes, TaskKeepsTypes DEF Uploads!Next
  <1> QED
    BY <1>1, <1>2, PTL DEF Uploads!Spec

--------------------------------------------------------------------------------
(* Exports: an available export stays available.                           *)

(* The rows that the checks of the tables admit. *)
ExportsChecked == \A e \in Documents : Reports!AvailableCheck(exports[e])

ExportInv == Reports!TypeOK /\ ExportsChecked

ExportCalls ==
    {Reports!NoCall} \cup [at: {"Create", "Reset", "Enqueue"}, export: Documents]

ExportTask == [at: {"Render", "Finish", "Fail", "WriteFailed", "Retry"}, msg: Reports!Message,
               attempts: 0..TaskAttempts]

(* A request in progress names an export. *)
LEMMA OrderFields ==
    ASSUME Reports!TypeOK, NEW r \in ExportRequests, exportCalls[r].at # "None"
    PROVE  exportCalls[r] \in [at: {"Create", "Reset", "Enqueue"}, export: Documents]
  <1>1. Reports!NoCall.at = "None"
    BY DEF Reports!NoCall
  <1> QED
    BY <1>1 DEF Reports!TypeOK

(* A task that is not idle has a message. *)
LEMMA ExportTaskFields ==
    ASSUME Reports!TypeOK, NEW w \in Workers, eWorkers[w].at # "Idle"
    PROVE  /\ eWorkers[w] \in ExportTask
           /\ eWorkers[w].msg \in Reports!Message
           /\ eWorkers[w].msg.export \in Documents
           /\ eWorkers[w].attempts \in 0..TaskAttempts
  <1>1. Reports!Idle.at = "Idle"
    BY DEF Reports!Idle
  <1>2. eWorkers[w] \in ExportTask
    BY <1>1 DEF Reports!TypeOK, ExportTask
  <1> QED
    BY <1>2 DEF ExportTask, Reports!Message

(* A write of one row that the check admits and that keeps an available    *)
(* row available keeps the table so.                                       *)
LEMMA ExportWritten ==
    ASSUME ExportInv, NEW e \in Documents, NEW row \in Reports!ExportRow,
           Reports!AvailableCheck(row),
           exports[e].status = "AVAILABLE" => row.status = "AVAILABLE",
           exports' = [exports EXCEPT ![e] = row]
    PROVE  /\ exports' \in [Documents -> Reports!ExportRow]
           /\ ExportsChecked'
           /\ \A x \in Documents :
                 exports[x].status = "AVAILABLE" => exports'[x].status = "AVAILABLE"
  <1>1. \A x \in Documents : exports'[x] = IF x = e THEN row ELSE exports[x]
    BY DEF ExportInv, Reports!TypeOK
  <1>2. exports' \in [Documents -> Reports!ExportRow]
    BY DEF ExportInv, Reports!TypeOK
  <1>3. ExportsChecked'
    BY <1>1 DEF ExportInv, ExportsChecked
  <1> QED
    BY <1>1, <1>2, <1>3

(* Rows that are left alone stay as they are. *)
LEMMA ExportsKept ==
    ASSUME ExportInv, UNCHANGED exports
    PROVE  /\ exports' \in [Documents -> Reports!ExportRow]
           /\ ExportsChecked'
           /\ \A x \in Documents :
                 exports[x].status = "AVAILABLE" => exports'[x].status = "AVAILABLE"
  BY DEF ExportInv, Reports!TypeOK, ExportsChecked

(* A task that goes on, or ends, stays well formed. *)
LEMMA ExportTaskGoes ==
    ASSUME Reports!TypeOK, NEW w \in Workers, eWorkers[w].at # "Idle",
           \/ Reports!End(w)
           \/ \E step \in {"Finish", "Fail", "Retry"} : Reports!Go(w, step)
    PROVE  eWorkers' \in [Workers -> {Reports!Idle} \cup ExportTask]
  <1>0. eWorkers \in [Workers -> {Reports!Idle} \cup ExportTask]
    BY DEF Reports!TypeOK, ExportTask
  <1>1. CASE Reports!End(w)
    BY <1>0, <1>1 DEF Reports!End
  <1>2. ASSUME NEW step \in {"Finish", "Fail", "Retry"}, Reports!Go(w, step)
        PROVE  eWorkers' \in [Workers -> {Reports!Idle} \cup ExportTask]
    <2>1. PICK task : task = [eWorkers[w] EXCEPT !.at = step]
      OBVIOUS
    <2>2. task \in ExportTask
      BY <2>1, ExportTaskFields DEF ExportTask
    <2>3. eWorkers' = [eWorkers EXCEPT ![w] = task]
      BY <1>2, <2>1 DEF Reports!Go
    <2> QED
      BY <1>0, <2>2, <2>3
  <1> QED
    BY <1>1, <1>2

(* A fault is counted up to the bound. *)
LEMMA ExportFaultCounted ==
    ASSUME Reports!TypeOK, eFaults < MaxFaults, eFaults' = eFaults + 1
    PROVE  eFaults' \in 0..MaxFaults
  BY LimitsAssumption DEF Reports!TypeOK

(* What a step of a request or of a task keeps.                            *)
ExportKept ==
    /\ ExportInv'
    /\ \A e \in Documents : exports[e].status = "AVAILABLE" => exports'[e].status = "AVAILABLE"

(* A request keeps an available export: a reset decided on an older row    *)
(* would leave completed_at on a pending row.                              *)
LEMMA OrderKeepsExports ==
    ASSUME ExportInv, NEW r \in ExportRequests, Reports!Order(r)
    PROVE  ExportKept
  <1> USE AttemptsAssumption, LimitsAssumption
  <1>1. Reports!TypeOK /\ exportCalls \in [ExportRequests -> ExportCalls]
    BY DEF ExportInv, Reports!TypeOK, ExportCalls
  <1>2. Reports!NoCall \in ExportCalls
    BY DEF ExportCalls
  <1>3. ASSUME NEW step \in {"Create", "Reset"}, NEW e \in Documents
        PROVE  [at |-> step, export |-> e] \in ExportCalls
    <2>1. PICK call : call = [at |-> step, export |-> e]
      OBVIOUS
    <2>2. call \in ExportCalls
      BY <2>1 DEF ExportCalls
    <2> QED
      BY <2>1, <2>2
  <1>4. ASSUME exportCalls[r].at # "None",
               exportCalls' = [exportCalls EXCEPT ![r].at = "Enqueue"]
        PROVE  exportCalls' \in [ExportRequests -> ExportCalls]
    <2>1. PICK call : call = [exportCalls[r] EXCEPT !.at = "Enqueue"]
      OBVIOUS
    <2>2. call \in ExportCalls
      BY <1>1, <1>4, <2>1, OrderFields DEF ExportCalls
    <2> QED
      BY <1>1, <1>4, <2>1, <2>2
  <1>5. CASE \E e \in Documents : Reports!RequestExport(r, e)
    <2>1. PICK e \in Documents : Reports!RequestExport(r, e)
      BY <1>5
    <2>2. exportCalls' \in [ExportRequests -> ExportCalls]
      BY <1>1, <1>3, <2>1 DEF Reports!RequestExport
    <2> QED
      BY <1>1, <2>1, <2>2, ExportsKept
         DEF Reports!RequestExport, Reports!TypeOK, ExportInv, ExportKept, ExportCalls
  <1>6. CASE Reports!CreateExport(r)
    <2>1. exportCalls[r].at # "None" /\ exportCalls[r].export \in Documents
      BY <1>1, <1>6, OrderFields DEF Reports!CreateExport
    <2>2. exportCalls' \in [ExportRequests -> ExportCalls]
      BY <1>1, <1>2, <1>4, <1>6, <2>1 DEF Reports!CreateExport
    <2>3. Reports!New \in Reports!ExportRow /\ Reports!AvailableCheck(Reports!New)
      <3>1. PICK row : row = Reports!New
        OBVIOUS
      <3>2. row \in Reports!ExportRow
        BY <3>1 DEF Reports!New, Reports!ExportRow, Reports!Statuses
      <3> QED
        BY <3>1, <3>2 DEF Reports!New, Reports!AvailableCheck
    <2>4. /\ exports' \in [Documents -> Reports!ExportRow]
          /\ ExportsChecked'
          /\ \A e \in Documents :
                exports[e].status = "AVAILABLE" => exports'[e].status = "AVAILABLE"
      BY <1>6, <2>1, <2>3, ExportWritten, ExportsKept DEF Reports!CreateExport
    <2> QED
      BY <1>1, <1>6, <2>2, <2>4
         DEF Reports!CreateExport, Reports!TypeOK, ExportInv, ExportKept, ExportCalls
  <1>7. CASE Reports!ResetFailed(r)
    <2>1. exportCalls[r].at # "None" /\ exportCalls[r].export \in Documents
      BY <1>1, <1>7, OrderFields DEF Reports!ResetFailed
    <2>2. exportCalls' \in [ExportRequests -> ExportCalls]
      BY <1>1, <1>2, <1>4, <1>7, <2>1 DEF Reports!ResetFailed
    <2>3. PICK e : e = exportCalls[r].export
      OBVIOUS
    <2>4. PICK row : row = [Reports!New EXCEPT !.completed = exports[e].completed]
      OBVIOUS
    <2>5. row \in Reports!ExportRow /\ row.status = "PENDING"
          /\ row.completed = exports[e].completed
      <3>1. exports[e] \in Reports!ExportRow
        BY <2>1, <2>3 DEF ExportInv, Reports!TypeOK
      <3>2. exports[e].completed \in BOOLEAN
        BY <3>1 DEF Reports!ExportRow
      <3>3. row = [status |-> "PENDING", attempts |-> 0, stale |-> FALSE,
                   completed |-> exports[e].completed]
        BY <2>4 DEF Reports!New
      <3>4. row.status = "PENDING" /\ row.completed = exports[e].completed
        BY <3>3
      <3>5. row \in Reports!ExportRow
        BY <3>2, <3>3 DEF Reports!ExportRow, Reports!Statuses
      <3> QED
        BY <3>4, <3>5
    <2>6. ASSUME Reports!AvailableCheck(row)
          PROVE  exports[e].status # "AVAILABLE"
      BY <2>1, <2>3, <2>5, <2>6 DEF Reports!AvailableCheck, ExportInv, ExportsChecked
    <2>7. /\ exports' \in [Documents -> Reports!ExportRow]
          /\ ExportsChecked'
          /\ \A x \in Documents :
                exports[x].status = "AVAILABLE" => exports'[x].status = "AVAILABLE"
      BY <1>7, <2>1, <2>3, <2>4, <2>5, <2>6, ExportWritten, ExportsKept DEF Reports!ResetFailed
    <2> QED
      BY <1>1, <1>7, <2>2, <2>7
         DEF Reports!ResetFailed, Reports!TypeOK, ExportInv, ExportKept, ExportCalls
  <1>8. CASE Reports!EnqueueExport(r)
    <2>1. exportCalls[r].export \in Documents
      BY <1>1, <1>8, OrderFields DEF Reports!EnqueueExport
    <2>2. [export |-> exportCalls[r].export, retries |-> 0] \in Reports!Message
      BY <2>1 DEF Reports!Message
    <2>3. exportCalls' \in [ExportRequests -> ExportCalls]
      BY <1>1, <1>2, <1>8 DEF Reports!EnqueueExport
    <2> QED
      BY <1>1, <1>8, <2>2, <2>3, ExportsKept
         DEF Reports!EnqueueExport, Reports!TypeOK, ExportInv, ExportKept, ExportCalls
  <1>9. CASE Reports!RequestFails(r)
    <2>1. exportCalls' \in [ExportRequests -> ExportCalls]
      BY <1>1, <1>2, <1>9 DEF Reports!RequestFails
    <2>2. eFaults' \in 0..MaxFaults
      BY <1>1, <1>9, ExportFaultCounted DEF Reports!RequestFails
    <2> QED
      BY <1>1, <1>9, <2>1, <2>2, ExportsKept
         DEF Reports!RequestFails, Reports!TypeOK, ExportInv, ExportKept, ExportCalls
  <1> QED
    BY <1>5, <1>6, <1>7, <1>8, <1>9 DEF Reports!Order

(* A message that a task hands on for a retry. *)
LEMMA ExportRetry ==
    ASSUME NEW m \in Reports!Message, Reports!RetriesLeft(m)
    PROVE  [m EXCEPT !.retries = @ + 1] \in Reports!Message
  <1> PICK n : n = m.retries + 1
    OBVIOUS
  <1>1. n \in 0..TaskAttempts - 1
    BY AttemptsAssumption DEF Reports!RetriesLeft, Reports!Message
  <1>2. PICK next : next = [m EXCEPT !.retries = n]
    OBVIOUS
  <1>3. next \in Reports!Message
    BY <1>1, <1>2 DEF Reports!Message
  <1> QED
    BY <1>2, <1>3

(* A task keeps an available export: the failure of a task whose claim was *)
(* taken over would leave completed_at on a failed row.                    *)
LEMMA WorkKeepsExports ==
    ASSUME ExportInv, NEW w \in Workers,
           Reports!Work(w) \/ Reports!SkipLocked(w) \/ Reports!LoseWorker(w)
    PROVE  ExportKept
  <1> USE AttemptsAssumption, LimitsAssumption
  <1>1. /\ Reports!TypeOK
        /\ eWorkers \in [Workers -> {Reports!Idle} \cup ExportTask]
        /\ eQueue \subseteq Reports!Message
        /\ eFaults \in 0..MaxFaults
    BY DEF ExportInv, Reports!TypeOK, ExportTask
  <1>2. ASSUME eWorkers' \in [Workers -> {Reports!Idle} \cup ExportTask],
               UNCHANGED exportCalls,
               eFaults' \in 0..MaxFaults,
               eQueue' \subseteq Reports!Message,
               exports' \in [Documents -> Reports!ExportRow],
               ExportsChecked',
               \A x \in Documents :
                  exports[x].status = "AVAILABLE" => exports'[x].status = "AVAILABLE"
        PROVE  ExportKept
    BY <1>1, <1>2 DEF Reports!TypeOK, ExportInv, ExportKept, ExportTask
  <1>3. CASE Reports!ClaimExport(w)
    <2>1. PICK m \in eQueue :
             /\ eQueue' = eQueue \ {m}
             /\ IF Reports!Claimable(exports[m.export])
                THEN /\ exports' = [exports EXCEPT ![m.export] =
                           [status |-> "PROCESSING",
                            attempts |-> Reports!Counted(exports[m.export].attempts),
                            stale |-> FALSE, completed |-> FALSE]]
                     /\ eWorkers' = [eWorkers EXCEPT ![w] =
                           [at |-> "Render", msg |-> m, attempts |-> 0]]
                ELSE UNCHANGED <<exports, eWorkers>>
      BY <1>3 DEF Reports!ClaimExport
    <2>2. m \in Reports!Message /\ m.export \in Documents
      BY <1>1 DEF Reports!Message
    <2>3. exports[m.export] \in Reports!ExportRow
      BY <1>1, <2>2 DEF Reports!TypeOK
    <2>4. Reports!Counted(exports[m.export].attempts) \in 0..TaskAttempts
      <3>1. \A k \in 0..TaskAttempts : Reports!Counted(k) \in 0..TaskAttempts
        BY DEF Reports!Counted
      <3> QED
        BY <2>3, <3>1 DEF Reports!ExportRow
    <2>5. PICK row : row = [status |-> "PROCESSING",
                            attempts |-> Reports!Counted(exports[m.export].attempts),
                            stale |-> FALSE, completed |-> FALSE]
      OBVIOUS
    <2>6. row \in Reports!ExportRow
      BY <2>4, <2>5 DEF Reports!ExportRow, Reports!Statuses
    <2>7. Reports!AvailableCheck(row)
      BY <2>5 DEF Reports!AvailableCheck
    <2>8. PICK task : task = [at |-> "Render", msg |-> m, attempts |-> 0]
      OBVIOUS
    <2>9. task \in ExportTask
      BY <2>2, <2>8 DEF ExportTask
    <2>10. CASE Reports!Claimable(exports[m.export])
      <3>1. exports[m.export].status # "AVAILABLE"
        BY <2>10 DEF Reports!Claimable
      <3>2. exports' = [exports EXCEPT ![m.export] = row]
        BY <2>1, <2>5, <2>10
      <3>3. eWorkers' = [eWorkers EXCEPT ![w] = task]
        BY <2>1, <2>8, <2>10
      <3>4. eWorkers' \in [Workers -> {Reports!Idle} \cup ExportTask]
        BY <1>1, <2>9, <3>3
      <3> QED
        BY <1>1, <1>2, <1>3, <2>1, <2>2, <2>6, <2>7, <3>1, <3>2, <3>4, ExportWritten
           DEF Reports!ClaimExport
    <2>11. CASE ~Reports!Claimable(exports[m.export])
      BY <1>1, <1>2, <1>3, <2>1, <2>11, ExportsKept DEF Reports!ClaimExport
    <2> QED
      BY <2>10, <2>11
  <1>4. CASE Reports!SkipLocked(w)
    BY <1>1, <1>2, <1>4, ExportsKept, ExportFaultCounted DEF Reports!SkipLocked
  <1>5. CASE Reports!Render(w)
    <2>1. eWorkers' \in [Workers -> {Reports!Idle} \cup ExportTask]
      BY <1>1, <1>5, ExportTaskGoes DEF Reports!Render
    <2> QED
      BY <1>1, <1>2, <1>5, <2>1, ExportsKept DEF Reports!Render
  <1>6. CASE Reports!MarkAvailable(w)
    <2>1. eWorkers' \in [Workers -> {Reports!Idle} \cup ExportTask]
      BY <1>1, <1>6, ExportTaskGoes DEF Reports!MarkAvailable
    <2>2. PICK e : e = eWorkers[w].msg.export
      OBVIOUS
    <2>3. e \in Documents
      BY <1>1, <1>6, <2>2, ExportTaskFields DEF Reports!MarkAvailable
    <2>4. exports[e] \in Reports!ExportRow
      BY <1>1, <2>3 DEF Reports!TypeOK
    <2>5. PICK row : row = [exports[e] EXCEPT !.status = "AVAILABLE", !.completed = TRUE]
      OBVIOUS
    <2>6. row \in Reports!ExportRow /\ Reports!AvailableCheck(row) /\ row.status = "AVAILABLE"
      BY <2>4, <2>5 DEF Reports!ExportRow, Reports!Statuses, Reports!AvailableCheck
    <2>7. exports' = [exports EXCEPT ![e] = row]
      BY <1>1, <1>6, <2>2, <2>3, <2>5 DEF Reports!MarkAvailable, Reports!TypeOK
    <2> QED
      BY <1>1, <1>2, <1>6, <2>1, <2>3, <2>6, <2>7, ExportWritten DEF Reports!MarkAvailable
  <1>7. CASE Reports!FailExport(w)
    <2>1. PICK e : e = eWorkers[w].msg.export
      OBVIOUS
    <2>2. e \in Documents /\ eWorkers[w] \in ExportTask
      BY <1>1, <1>7, <2>1, ExportTaskFields DEF Reports!FailExport
    <2>3. exports[e].attempts \in 0..TaskAttempts
      BY <1>1, <2>2 DEF Reports!TypeOK, Reports!ExportRow
    <2>4. PICK step \in {"WriteFailed", "Retry"} :
             eWorkers' = [eWorkers EXCEPT ![w].attempts = exports[e].attempts, ![w].at = step]
      BY <1>7, <2>1 DEF Reports!FailExport
    <2>5. PICK task : task = [eWorkers[w] EXCEPT !.attempts = exports[e].attempts, !.at = step]
      OBVIOUS
    <2>6. task \in ExportTask
      BY <2>2, <2>3, <2>5 DEF ExportTask
    <2>7. eWorkers' = [eWorkers EXCEPT ![w] = task]
      BY <1>1, <2>4, <2>5
    <2>8. eWorkers' \in [Workers -> {Reports!Idle} \cup ExportTask]
      BY <1>1, <2>6, <2>7
    <2> QED
      BY <1>1, <1>2, <1>7, <2>8, ExportsKept DEF Reports!FailExport
  <1>8. CASE Reports!MarkFailed(w)
    <2>1. eWorkers' \in [Workers -> {Reports!Idle} \cup ExportTask]
      BY <1>1, <1>8, ExportTaskGoes DEF Reports!MarkFailed
    <2>2. PICK e : e = eWorkers[w].msg.export
      OBVIOUS
    <2>3. e \in Documents
      BY <1>1, <1>8, <2>2, ExportTaskFields DEF Reports!MarkFailed
    <2>4. exports[e] \in Reports!ExportRow
      BY <1>1, <2>3 DEF Reports!TypeOK
    <2>5. PICK row : row = [exports[e] EXCEPT !.status = "FAILED"]
      OBVIOUS
    <2>6. row \in Reports!ExportRow /\ row.status = "FAILED"
          /\ row.completed = exports[e].completed
      BY <2>4, <2>5 DEF Reports!ExportRow, Reports!Statuses
    <2>7. ASSUME Reports!AvailableCheck(row)
          PROVE  exports[e].status # "AVAILABLE"
      BY <2>3, <2>6, <2>7 DEF Reports!AvailableCheck, ExportInv, ExportsChecked
    <2>8. /\ exports' \in [Documents -> Reports!ExportRow]
          /\ ExportsChecked'
          /\ \A x \in Documents :
                exports[x].status = "AVAILABLE" => exports'[x].status = "AVAILABLE"
      BY <1>8, <2>2, <2>3, <2>5, <2>6, <2>7, ExportWritten, ExportsKept DEF Reports!MarkFailed
    <2> QED
      BY <1>1, <1>2, <1>8, <2>1, <2>8 DEF Reports!MarkFailed
  <1>9. CASE Reports!Retry(w)
    <2>1. eWorkers' \in [Workers -> {Reports!Idle} \cup ExportTask]
      BY <1>1, <1>9, ExportTaskGoes DEF Reports!Retry
    <2>2. eWorkers[w].msg \in Reports!Message
      BY <1>1, <1>9, ExportTaskFields DEF Reports!Retry
    <2>3. eQueue' \subseteq Reports!Message
      BY <1>1, <1>9, <2>2, ExportRetry DEF Reports!Retry
    <2> QED
      BY <1>1, <1>2, <1>9, <2>1, <2>3, ExportsKept DEF Reports!Retry
  <1>10. CASE Reports!LoseWorker(w)
    <2>1. eWorkers[w].at # "Idle"
      BY <1>1, <1>10 DEF Reports!LoseWorker, ExportTask
    <2>2. eWorkers' \in [Workers -> {Reports!Idle} \cup ExportTask]
      BY <1>1, <1>10, <2>1, ExportTaskGoes DEF Reports!LoseWorker
    <2>3. eQueue' \subseteq Reports!Message
      BY <1>1, <1>10, <2>1, ExportTaskFields DEF Reports!LoseWorker
    <2> QED
      BY <1>1, <1>2, <1>10, <2>2, <2>3, ExportsKept, ExportFaultCounted DEF Reports!LoseWorker
  <1> QED
    BY <1>3, <1>4, <1>5, <1>6, <1>7, <1>8, <1>9, <1>10 DEF Reports!Work

(* Every step keeps an available export. *)
LEMMA ExportsStep ==
    ASSUME ExportInv, [Reports!Next]_(Reports!exportVars)
    PROVE  ExportKept
  <1> USE AttemptsAssumption, LimitsAssumption
  <1>1. CASE UNCHANGED Reports!exportVars
    BY <1>1, ExportsKept DEF Reports!exportVars, ExportInv, ExportKept, Reports!TypeOK
  <1>2. ASSUME NEW e \in Documents, Reports!BecomeStale(e) PROVE ExportKept
    <2>1. exports[e] \in Reports!ExportRow
      BY DEF ExportInv, Reports!TypeOK
    <2>2. PICK row : row = [exports[e] EXCEPT !.stale = TRUE]
      OBVIOUS
    <2>3. row \in Reports!ExportRow /\ row.status = exports[e].status
          /\ row.completed = exports[e].completed
      BY <2>1, <2>2 DEF Reports!ExportRow
    <2>4. Reports!AvailableCheck(row)
      BY <2>3 DEF Reports!AvailableCheck, ExportInv, ExportsChecked
    <2>5. exports' = [exports EXCEPT ![e] = row]
      BY <1>2, <2>2 DEF Reports!BecomeStale
    <2> QED
      BY <1>2, <2>3, <2>4, <2>5, ExportWritten
         DEF Reports!BecomeStale, ExportInv, ExportKept, Reports!TypeOK
  <1>3. CASE Reports!RecoverExports
    <2>1. [export: {e \in Documents : exports[e].status \in {"PENDING", "PROCESSING"}},
           retries: {0}] \subseteq Reports!Message
      BY DEF Reports!Message
    <2> QED
      BY <1>3, <2>1, ExportsKept
         DEF Reports!RecoverExports, ExportInv, ExportKept, Reports!TypeOK
  <1> QED
    BY <1>1, <1>2, <1>3, OrderKeepsExports, WorkKeepsExports DEF Reports!Next

(* The checks of the table hold of every row, and no step takes back an    *)
(* available one.                                                          *)
LEMMA ExportsHold == Reports!Spec => []ExportInv /\ Reports!AvailableExportIsFinal
  <1>1. Reports!Init => ExportInv
    <2> SUFFICES ASSUME Reports!Init PROVE ExportInv
      OBVIOUS
    <2>1. PICK row : row = [Reports!New EXCEPT !.status = "NONE"]
      OBVIOUS
    <2>2. row \in Reports!ExportRow
      <3>1. row = [status |-> "NONE", attempts |-> 0, stale |-> FALSE, completed |-> FALSE]
        BY <2>1 DEF Reports!New
      <3> QED
        BY <3>1, AttemptsAssumption DEF Reports!ExportRow
    <2>3. Reports!AvailableCheck(row)
      BY <2>1 DEF Reports!New, Reports!AvailableCheck
    <2>4. exports = [e \in Documents |-> row]
      BY <2>1 DEF Reports!Init
    <2> QED
      BY <2>2, <2>3, <2>4, LimitsAssumption
         DEF Reports!Init, ExportInv, ExportsChecked, Reports!TypeOK
  <1>2. ExportInv /\ [Reports!Next]_(Reports!exportVars) => ExportInv'
    BY ExportsStep DEF ExportKept
  <1>3. ExportInv /\ [Reports!Next]_(Reports!exportVars) =>
           [\A e \in Documents : exports[e].status = "AVAILABLE" =>
               exports'[e].status = "AVAILABLE"]_(Reports!exportVars)
    BY ExportsStep DEF ExportKept
  <1> QED
    BY <1>1, <1>2, <1>3, PTL DEF Reports!Spec, Reports!AvailableExportIsFinal

--------------------------------------------------------------------------------
(* Search documents: only a race hides a change from the index.            *)

(* Only a decision that was committed is listed or indexed, and there is   *)
(* room for the change that a transaction makes.                           *)
OnlyCommitted ==
    /\ \A d \in Decisions : editing[d] # "no" => changes[d] < MaxChanges
    /\ \A d \in Decisions : documents[d].behind => changes[d] > 0
    /\ \A d \in sQueue : changes[d] > 0
    /\ \A w \in Workers : sWorkers[w].at = "Upsert" => changes[sWorkers[w].decision] > 0

(* A document that is not up to date is listed as stale, if no change was  *)
(* missed by the comparison of times.                                      *)
QuietDocumentsListed ==
    \A d \in Decisions :
        d \in raced \/ documents[d].made = changes[d] \/ documents[d].behind

(* What a task read is up to date, if no change was committed meanwhile.   *)
QuietReadsCurrent ==
    \A w \in Workers :
        sWorkers[w].at = "Upsert" =>
            \/ sWorkers[w].decision \in raced
            \/ sWorkers[w].read = changes[sWorkers[w].decision]

IndexInv == Index!TypeOK /\ OnlyCommitted /\ QuietDocumentsListed /\ QuietReadsCurrent

IndexTask == [at: {"Upsert"}, decision: Decisions, read: 1..MaxChanges]

(* A task that is not idle is indexing a decision. *)
LEMMA IndexTaskFields ==
    ASSUME Index!TypeOK, NEW w \in Workers, sWorkers[w] # Index!Idle
    PROVE  /\ sWorkers[w].at = "Upsert"
           /\ sWorkers[w].decision \in Decisions
           /\ sWorkers[w].read \in 1..MaxChanges
  BY DEF Index!TypeOK

(* An idle task is doing nothing. *)
LEMMA IndexIdle == Index!Idle.at # "Upsert"
  BY DEF Index!Idle

(* The documents of well-formed rows. *)
LEMMA DocumentWritten ==
    ASSUME Index!TypeOK, NEW d \in Decisions, NEW row \in Index!Document,
           documents' = [documents EXCEPT ![d] = row]
    PROVE  /\ documents' \in [Decisions -> Index!Document]
           /\ \A x \in Decisions : documents'[x] = IF x = d THEN row ELSE documents[x]
  BY DEF Index!TypeOK

(* A change marks the document of its decision as stale, or the times miss *)
(* it; and it is missed by every task that is indexing the decision.       *)
LEMMA CommitKeepsIndex ==
    ASSUME IndexInv, NEW d \in Decisions, Index!CommitChange(d)
    PROVE  IndexInv'
  <1> USE LimitsAssumption
  <1>1. /\ editing[d] # "no" /\ changes[d] < MaxChanges
        /\ changes' = [changes EXCEPT ![d] = @ + 1]
        /\ editing' = [editing EXCEPT ![d] = "no"]
        /\ raced' = IF Index!Indexing(d) \/ editing[d] = "earlier" THEN raced \cup {d}
                    ELSE raced
        /\ sQueue' = sQueue /\ sWorkers' = sWorkers /\ sFaults' = sFaults
    BY DEF IndexInv, OnlyCommitted, Index!CommitChange
  <1>2. changes[d] \in 0..MaxChanges /\ changes' \in [Decisions -> 0..MaxChanges]
        /\ \A x \in Decisions : changes'[x] = IF x = d THEN changes[d] + 1 ELSE changes[x]
    <2>1. changes \in [Decisions -> 0..MaxChanges]
      BY DEF IndexInv, Index!TypeOK
    <2>2. changes[d] + 1 \in 0..MaxChanges
      BY <1>1, <2>1
    <2> QED
      BY <1>1, <2>1, <2>2
  <1>3. documents[d] \in Index!Document
    BY DEF IndexInv, Index!TypeOK
  <1>4. PICK row \in Index!Document :
           /\ documents' = [documents EXCEPT ![d] = row]
           /\ row.made = documents[d].made
           /\ editing[d] = "later" => row.behind
           /\ documents[d].behind => row.behind
    <2>1. CASE editing[d] = "later"
      <3>1. PICK row : row = [documents[d] EXCEPT !.behind = TRUE]
        OBVIOUS
      <3>2. row \in Index!Document /\ row.made = documents[d].made /\ row.behind
        BY <1>3, <3>1 DEF Index!Document
      <3>3. documents' = [documents EXCEPT ![d] = row]
        BY <2>1, <3>1 DEF Index!CommitChange
      <3> QED
        BY <3>2, <3>3
    <2>2. CASE editing[d] # "later"
      <3>1. documents' = [documents EXCEPT ![d].behind = (documents[d].behind \/ FALSE)]
        BY <2>2 DEF Index!CommitChange
      <3>2. PICK row : row = [documents[d] EXCEPT !.behind = (documents[d].behind \/ FALSE)]
        OBVIOUS
      <3>3. row.made = documents[d].made /\ (documents[d].behind => row.behind)
        BY <1>3, <3>2 DEF Index!Document
      <3>4. row \in Index!Document
        BY <1>3, <3>2 DEF Index!Document
      <3>5. documents' = [documents EXCEPT ![d] = row]
        BY <3>1, <3>2
      <3> QED
        BY <2>2, <3>3, <3>4, <3>5
    <2> QED
      BY <2>1, <2>2
  <1>5. /\ documents' \in [Decisions -> Index!Document]
        /\ \A x \in Decisions : documents'[x] = IF x = d THEN row ELSE documents[x]
    BY <1>4, DocumentWritten DEF IndexInv
  <1>6. Index!TypeOK'
    BY <1>1, <1>2, <1>5 DEF IndexInv, Index!TypeOK
  <1>7. OnlyCommitted'
    <2>1. \A x \in Decisions : editing'[x] # "no" => changes'[x] < MaxChanges
      BY <1>1, <1>2 DEF IndexInv, Index!TypeOK, OnlyCommitted
    <2>2. \A x \in Decisions : changes[x] > 0 => changes'[x] > 0
      BY <1>2
    <2>3. changes'[d] > 0
      BY <1>2
    <2>4. \A x \in Decisions : documents'[x].behind => changes'[x] > 0
      BY <1>5, <2>2, <2>3 DEF IndexInv, OnlyCommitted
    <2>5. \A x \in sQueue' : changes'[x] > 0
      BY <1>1, <2>2 DEF IndexInv, Index!TypeOK, OnlyCommitted
    <2>6. \A w \in Workers : sWorkers'[w].at = "Upsert" => changes'[sWorkers'[w].decision] > 0
      BY <1>1, <2>2, IndexTaskFields, IndexIdle DEF IndexInv, OnlyCommitted
    <2> QED
      BY <2>1, <2>4, <2>5, <2>6 DEF OnlyCommitted
  <1>8. QuietDocumentsListed'
    <2>1. ASSUME NEW x \in Decisions
          PROVE  x \in raced' \/ documents'[x].made = changes'[x] \/ documents'[x].behind
      <3>1. CASE x # d
        BY <1>1, <1>2, <1>5, <3>1 DEF IndexInv, QuietDocumentsListed
      <3>2. CASE x = d
        <4>1. editing[d] = "later" \/ d \in raced'
          BY <1>1 DEF IndexInv, Index!TypeOK
        <4> QED
          BY <1>4, <1>5, <3>2, <4>1
      <3> QED
        BY <3>1, <3>2
    <2> QED
      BY <2>1 DEF QuietDocumentsListed
  <1>9. QuietReadsCurrent'
    <2>1. ASSUME NEW w \in Workers, sWorkers[w].at = "Upsert"
          PROVE  \/ sWorkers[w].decision \in raced'
                 \/ sWorkers[w].read = changes'[sWorkers[w].decision]
      <3>1. sWorkers[w] # Index!Idle /\ sWorkers[w].decision \in Decisions
        BY <2>1, IndexIdle, IndexTaskFields DEF IndexInv
      <3>2. CASE sWorkers[w].decision = d
        BY <1>1, <3>1, <3>2 DEF Index!Indexing
      <3>3. CASE sWorkers[w].decision # d
        BY <1>1, <1>2, <2>1, <3>1, <3>3 DEF IndexInv, QuietReadsCurrent
      <3> QED
        BY <3>2, <3>3
    <2> QED
      BY <1>1, <2>1 DEF QuietReadsCurrent
  <1> QED
    BY <1>6, <1>7, <1>8, <1>9 DEF IndexInv

(* So is the deletion of a proposal, which no time shows. *)
LEMMA DeleteKeepsIndex ==
    ASSUME IndexInv, NEW d \in Decisions, Index!DeleteProposal(d)
    PROVE  IndexInv'
  <1> USE LimitsAssumption
  <1>1. /\ changes[d] \in 1..MaxChanges - 1 /\ editing[d] = "no"
        /\ changes' = [changes EXCEPT ![d] = @ + 1]
        /\ raced' = raced \cup {d}
        /\ editing' = editing /\ documents' = documents
        /\ sQueue' = sQueue /\ sWorkers' = sWorkers /\ sFaults' = sFaults
    BY DEF Index!DeleteProposal
  <1>2. changes' \in [Decisions -> 0..MaxChanges]
        /\ \A x \in Decisions : changes'[x] = IF x = d THEN changes[d] + 1 ELSE changes[x]
    <2>1. changes \in [Decisions -> 0..MaxChanges]
      BY DEF IndexInv, Index!TypeOK
    <2>2. changes[d] + 1 \in 0..MaxChanges
      BY <1>1
    <2> QED
      BY <1>1, <2>1, <2>2
  <1>3. \A x \in Decisions : changes[x] > 0 => changes'[x] > 0
    BY <1>1, <1>2
  <1>4. Index!TypeOK'
    BY <1>1, <1>2 DEF IndexInv, Index!TypeOK
  <1>5. OnlyCommitted'
    <2>1. \A x \in Decisions : editing'[x] # "no" => changes'[x] < MaxChanges
      BY <1>1, <1>2 DEF IndexInv, OnlyCommitted
    <2>2. \A x \in Decisions : documents'[x].behind => changes'[x] > 0
      BY <1>1, <1>3 DEF IndexInv, OnlyCommitted
    <2>3. \A x \in sQueue' : changes'[x] > 0
      BY <1>1, <1>3 DEF IndexInv, Index!TypeOK, OnlyCommitted
    <2>4. \A w \in Workers : sWorkers'[w].at = "Upsert" => changes'[sWorkers'[w].decision] > 0
      BY <1>1, <1>3, IndexTaskFields, IndexIdle DEF IndexInv, OnlyCommitted
    <2> QED
      BY <2>1, <2>2, <2>3, <2>4 DEF OnlyCommitted
  <1>6. QuietDocumentsListed'
    BY <1>1, <1>2 DEF IndexInv, QuietDocumentsListed
  <1>7. QuietReadsCurrent'
    <2>1. \A w \in Workers : sWorkers[w].at = "Upsert" => sWorkers[w].decision \in Decisions
      BY IndexIdle, IndexTaskFields DEF IndexInv
    <2> QED
      BY <1>1, <1>2, <2>1 DEF IndexInv, QuietReadsCurrent
  <1> QED
    BY <1>4, <1>5, <1>6, <1>7 DEF IndexInv

(* A task writes what it read, which is up to date unless the times missed *)
(* a change; and only one task more is indexing.                           *)
LEMMA TaskKeepsIndex ==
    ASSUME IndexInv, NEW w \in Workers,
           Index!ReadSource(w) \/ Index!Upsert(w) \/ Index!IndexFails(w)
    PROVE  IndexInv'
  <1> USE LimitsAssumption
  <1>1. /\ Index!TypeOK
        /\ sWorkers \in [Workers -> {Index!Idle} \cup IndexTask]
    BY DEF IndexInv, Index!TypeOK, IndexTask
  <1>2. \A v \in Workers : sWorkers[v].at = "Upsert" => sWorkers[v].decision \in Decisions
    BY IndexIdle, IndexTaskFields DEF IndexInv
  <1>3. CASE Index!ReadSource(w)
    <2>1. PICK d \in sQueue :
             /\ sQueue' = sQueue \ {d}
             /\ sWorkers' = [sWorkers EXCEPT ![w] =
                   [at |-> "Upsert", decision |-> d, read |-> changes[d]]]
      BY <1>3 DEF Index!ReadSource
    <2>2. /\ d \in Decisions /\ changes[d] \in 1..MaxChanges
          /\ UNCHANGED <<changes, editing, documents, sFaults, raced>>
      BY <1>3 DEF IndexInv, Index!TypeOK, OnlyCommitted, Index!ReadSource
    <2>3. PICK task : task = [at |-> "Upsert", decision |-> d, read |-> changes[d]]
      OBVIOUS
    <2>4. task \in IndexTask
      BY <2>2, <2>3 DEF IndexTask
    <2>5. /\ sWorkers' \in [Workers -> {Index!Idle} \cup IndexTask]
          /\ \A v \in Workers : sWorkers'[v] = IF v = w THEN task ELSE sWorkers[v]
      BY <1>1, <2>1, <2>3, <2>4
    <2>6. Index!TypeOK'
      BY <2>1, <2>2, <2>5 DEF IndexInv, Index!TypeOK, IndexTask
    <2>7. OnlyCommitted'
      BY <2>1, <2>2, <2>3, <2>5 DEF IndexInv, OnlyCommitted
    <2>8. QuietDocumentsListed'
      BY <2>2 DEF IndexInv, QuietDocumentsListed
    <2>9. QuietReadsCurrent'
      BY <2>2, <2>3, <2>5 DEF IndexInv, QuietReadsCurrent
    <2> QED
      BY <2>6, <2>7, <2>8, <2>9 DEF IndexInv
  <1>4. ASSUME sWorkers' = [sWorkers EXCEPT ![w] = Index!Idle]
        PROVE  /\ sWorkers' \in [Workers -> {Index!Idle} \cup IndexTask]
               /\ \A v \in Workers : sWorkers'[v].at = "Upsert" => sWorkers'[v] = sWorkers[v]
    BY <1>1, <1>4, IndexIdle
  <1>5. CASE Index!Upsert(w)
    <2>1. PICK d : d = sWorkers[w].decision
      OBVIOUS
    <2>2. PICK row : row = [made |-> sWorkers[w].read, behind |-> FALSE]
      OBVIOUS
    <2>3. /\ sWorkers[w].at = "Upsert"
          /\ documents' = [documents EXCEPT ![d] = row]
          /\ editing' = [editing EXCEPT ![d] = IF @ = "later" THEN "earlier" ELSE @]
          /\ sWorkers' = [sWorkers EXCEPT ![w] = Index!Idle]
          /\ UNCHANGED <<changes, sQueue, sFaults, raced>>
      BY <1>5, <2>1, <2>2 DEF Index!Upsert
    <2>4. d \in Decisions /\ sWorkers[w].read \in 1..MaxChanges
      BY <1>1, <2>1, <2>3, IndexIdle, IndexTaskFields
    <2>5. row \in Index!Document /\ row.made = sWorkers[w].read /\ ~row.behind
      BY <2>2, <2>4 DEF Index!Document
    <2>6. /\ documents' \in [Decisions -> Index!Document]
          /\ \A x \in Decisions : documents'[x] = IF x = d THEN row ELSE documents[x]
      BY <1>1, <2>3, <2>4, <2>5, DocumentWritten
    <2>7. /\ editing' \in [Decisions -> {"no", "later", "earlier"}]
          /\ \A x \in Decisions : editing'[x] # "no" => editing[x] # "no"
      BY <1>1, <2>3, <2>4 DEF Index!TypeOK
    <2>8. Index!TypeOK'
      BY <1>1, <1>4, <2>3, <2>6, <2>7 DEF Index!TypeOK, IndexTask
    <2>9. OnlyCommitted'
      BY <1>4, <2>3, <2>5, <2>6, <2>7 DEF IndexInv, OnlyCommitted
    <2>10. QuietDocumentsListed'
      BY <2>1, <2>3, <2>5, <2>6 DEF IndexInv, QuietDocumentsListed, QuietReadsCurrent
    <2>11. QuietReadsCurrent'
      BY <1>4, <2>3 DEF IndexInv, QuietReadsCurrent
    <2> QED
      BY <2>8, <2>9, <2>10, <2>11 DEF IndexInv
  <1>6. CASE Index!IndexFails(w)
    <2>1. /\ sWorkers[w] # Index!Idle /\ sFaults < MaxFaults /\ sFaults' = sFaults + 1
          /\ sQueue' = sQueue \cup {sWorkers[w].decision} \/ sQueue' = sQueue
          /\ sWorkers' = [sWorkers EXCEPT ![w] = Index!Idle]
          /\ UNCHANGED <<changes, editing, documents, raced>>
      BY <1>6 DEF Index!IndexFails
    <2>2. sWorkers[w].at = "Upsert" /\ sWorkers[w].decision \in Decisions
      BY <1>1, <2>1, IndexTaskFields
    <2>3. sFaults \in 0..MaxFaults
      BY <1>1 DEF Index!TypeOK
    <2>4. sFaults' \in 0..MaxFaults
      BY <2>1, <2>3
    <2>5. Index!TypeOK'
      BY <1>1, <1>4, <2>1, <2>2, <2>4 DEF Index!TypeOK, IndexTask
    <2>6. OnlyCommitted'
      BY <1>4, <2>1, <2>2 DEF IndexInv, OnlyCommitted
    <2>7. QuietDocumentsListed'
      BY <2>1 DEF IndexInv, QuietDocumentsListed
    <2>8. QuietReadsCurrent'
      BY <1>4, <2>1 DEF IndexInv, QuietReadsCurrent
    <2> QED
      BY <2>5, <2>6, <2>7, <2>8 DEF IndexInv
  <1> QED
    BY <1>3, <1>5, <1>6

(* The invariant of the index holds in every behaviour. *)
LEMMA IndexHolds == Index!Spec => []IndexInv
  <1> USE LimitsAssumption
  <1>1. Index!Init => IndexInv
    <2> SUFFICES ASSUME Index!Init PROVE IndexInv
      OBVIOUS
    <2>1. PICK row : row = Index!Missing
      OBVIOUS
    <2>2. row \in Index!Document /\ row.made = 0 /\ ~row.behind
      BY <2>1 DEF Index!Missing, Index!Document
    <2>3. documents = [d \in Decisions |-> row]
      BY <2>1 DEF Index!Init
    <2> QED
      BY <2>2, <2>3, IndexIdle
         DEF Index!Init, IndexInv, Index!TypeOK, OnlyCommitted, QuietDocumentsListed,
             QuietReadsCurrent
  <1>2. IndexInv /\ [Index!Next]_(Index!searchVars) => IndexInv'
    <2> SUFFICES ASSUME IndexInv, [Index!Next]_(Index!searchVars) PROVE IndexInv'
      OBVIOUS
    <2>1. CASE UNCHANGED Index!searchVars
      BY <2>1 DEF Index!searchVars, IndexInv, Index!TypeOK, OnlyCommitted,
         QuietDocumentsListed, QuietReadsCurrent
    <2>2. ASSUME NEW d \in Decisions, Index!BeginChange(d) PROVE IndexInv'
      BY <2>2 DEF Index!BeginChange, IndexInv, Index!TypeOK, OnlyCommitted,
         QuietDocumentsListed, QuietReadsCurrent
    <2>3. CASE Index!RefreshIndex
      BY <2>3 DEF Index!RefreshIndex, Index!Stale, IndexInv, Index!TypeOK, OnlyCommitted,
         QuietDocumentsListed, QuietReadsCurrent
    <2> QED
      BY <2>1, <2>2, <2>3, CommitKeepsIndex, DeleteKeepsIndex, TaskKeepsIndex DEF Index!Next
  <1> QED
    BY <1>1, <1>2, PTL DEF Index!Spec

--------------------------------------------------------------------------------
(* Every row, message, request and task of files, exports and search       *)
(* documents stays well formed.                                            *)
THEOREM BackgroundWellFormed == FairSpec => []TypeOK
  <1>1. ExportInv => Reports!TypeOK
    BY DEF ExportInv
  <1>2. IndexInv => Index!TypeOK
    BY DEF IndexInv
  <1> QED
    BY <1>1, <1>2, SystemSpecs, FilesWellFormed, ExportsHold, IndexHolds, PTL DEF TypeOK

(* No late failure or reset takes back an available export, whichever      *)
(* tasks and requests decided on an older row: the check of the table      *)
(* refuses each of them (mark_failed, reset_failed).                       *)
THEOREM AvailableExportsStay == FairSpec => Reports!AvailableExportIsFinal
  BY SystemSpecs, ExportsHold, PTL

(* A document that does not hold the last change of its decision is stale, *)
(* and so is indexed again, unless a change was committed while it was     *)
(* being indexed, began before an indexing that it outlived, or deleted a  *)
(* proposal (list_stale_decision_ids).                                     *)
THEOREM QuietChangesAreListed == FairSpec => []QuietDocumentsListed
  <1>1. IndexInv => QuietDocumentsListed
    BY DEF IndexInv
  <1> QED
    BY <1>1, SystemSpecs, IndexHolds, PTL

================================================================================
