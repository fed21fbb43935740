--------------------------- MODULE IntegrationProofs ---------------------------
(***************************************************************************)
(* Proofs about IntegrationOutbox for any events, connections and finite   *)
(* set of workers, any number of attempts and any faults.  The inductive   *)
(* invariant counts, for a delivery, the writes that may still be made     *)
(* over it: the claims that have not been posted, and the retries that are *)
(* about to be scheduled late (RowOK); and says of a worker that fans an   *)
(* event out which connections it may have missed (TargetsOK).             *)
(***************************************************************************)
EXTENDS IntegrationOutbox, FiniteSetTheorems, TLAPS

(* The workers at one of the steps, on one item. *)
Doing(ws, steps, i) == {w \in Workers : ws[w].at \in steps /\ ws[w].on = i}

(* A worker that holds a delivery, and one about to schedule a retry of it. *)
Holding == {"Claimed", "Posted", "Failing", "MarkFailed", "Postpone", "GiveUp"}
Late == {"MarkFailed", "Postpone"}

(* The recovery task is about to schedule a retry. *)
JobLate(j, d) == IF j.at = "Commit" THEN (IF d \in j.deliveries \ j.exhausted THEN 1 ELSE 0) ELSE 0

(* The next claim of the row needs no write before it. *)
Open(row) == IF row.status \in {"PENDING", "RETRY_SCHEDULED"} THEN 1 ELSE 0

(* A delivery d with its row and its posts, among the workers, the         *)
(* recovery task and the deliveries whose claim was freed.                 *)
RowOK(d, row, posted, ws, j, freed) ==
    /\ row.status = "NONE" => row.attempts = 0
    /\ posted + Cardinality(Doing(ws, {"Claimed"}, d)) <= row.attempts
    /\ row.attempts >= MaxAttempts =>
         row.attempts + Open(row) + Cardinality(Doing(ws, Late, d)) + JobLate(j, d)
            <= MaxAttempts + Cardinality(Workers)
    /\ d \notin freed => \A w \in Doing(ws, Holding, d) :
                            row.status = "DELIVERING" /\ Doing(ws, Holding, d) = {w}

RowsOK == \A d \in Deliveries : RowOK(d, deliveries[d], posts[d], workers, job, overtaken)

(* The tasks of events and of deliveries. *)
KindOK(x) ==
    /\ x.at \in {"FannedOut", "Publish"} => x.on \in Events
    /\ x.at \in {"Posted", "GiveUp"} => x.on \in Deliveries

(* Every active connection is a target or has its delivery already. *)
TargetsOK(x, active, rows) ==
    x.at = "FannedOut" =>
        \A c \in active : c \in x.targets \/ rows[<<x.on, c>>].status # "NONE"

(* The exhausted deliveries are among the stale ones. *)
JobOK(j) == j.at = "Commit" => j.exhausted \subseteq j.deliveries

IInv ==
    /\ TypeOK
    /\ \A w \in Workers : KindOK(workers[w])
    /\ \A w \in Workers : TargetsOK(workers[w], connected, deliveries)
    /\ JobOK(job)
    /\ SubscribersReached
    /\ RowsOK

--------------------------------------------------------------------------------
(* Types.                                                                  *)

EventRow == [status: OutboxStatuses \cup {"NONE"}, attempts: 0..MaxAttempts,
             waiting: BOOLEAN, stale: BOOLEAN]

DeliveryRow == [status: DeliveryStatuses \cup {"NONE"}, attempts: Nat,
                waiting: BOOLEAN, stale: BOOLEAN]

(* A worker that is not free has the fields of a task. *)
LEMMA TaskFields ==
    ASSUME NEW x \in Worker
    PROVE  /\ x.at \in Steps <=> x # Free
           /\ x.at \in Steps \cup {"Free"}
           /\ x # Free => /\ x.on \in Events \cup Deliveries
                          /\ x.retries \in 0..MaxAttempts - 1
                          /\ x.targets \in SUBSET Connections
                          /\ x.last \in BOOLEAN
  BY DEF Worker, Free, Steps

LEMMA TaskUpdate ==
    ASSUME NEW x \in Worker, x # Free, NEW step \in Steps
    PROVE  /\ [x EXCEPT !.at = step] \in Worker
           /\ [x EXCEPT !.at = step].at = step
           /\ [x EXCEPT !.at = step].on = x.on
           /\ [x EXCEPT !.at = step].targets = x.targets
  BY DEF Worker, Free

LEMMA ProceedType ==
    ASSUME TypeOK, NEW w \in Workers, workers[w] # Free, NEW step \in Steps, Proceed(w, step)
    PROVE  /\ workers' \in [Workers -> Worker]
           /\ workers'[w] = [workers[w] EXCEPT !.at = step]
           /\ workers'[w].at = step /\ workers'[w].on = workers[w].on
           /\ workers'[w].targets = workers[w].targets
           /\ \A v \in Workers \ {w} : workers'[v] = workers[v]
  <1>1. workers \in [Workers -> Worker]
    BY DEF TypeOK
  <1>2. workers' = [workers EXCEPT ![w] = [workers[w] EXCEPT !.at = step]]
    BY <1>1 DEF Proceed
  <1> QED
    BY <1>1, <1>2, TaskUpdate

LEMMA AcknowledgeType ==
    ASSUME TypeOK, NEW w \in Workers, Acknowledge(w)
    PROVE  /\ workers' \in [Workers -> Worker]
           /\ workers'[w] = Free
           /\ \A v \in Workers \ {w} : workers'[v] = workers[v]
  BY DEF Acknowledge, TypeOK, Worker

LEMMA FaultType == ASSUME NEW kind, Fault(kind), TypeOK PROVE faults' \in 0..MaxFaults
  BY FaultsAssumption DEF Fault, TypeOK

(* The updates of a row change what they name. *)
LEMMA SetEvent ==
    ASSUME NEW row \in EventRow, NEW status \in OutboxStatuses \cup {"NONE"},
           NEW waiting \in BOOLEAN
    PROVE  /\ Set(row, status, waiting) \in EventRow
           /\ Set(row, status, waiting).status = status
           /\ Set(row, status, waiting).attempts = row.attempts
  BY DEF Set, EventRow

LEMMA SetDelivery ==
    ASSUME NEW row \in DeliveryRow, NEW status \in DeliveryStatuses \cup {"NONE"},
           NEW waiting \in BOOLEAN
    PROVE  /\ Set(row, status, waiting) \in DeliveryRow
           /\ Set(row, status, waiting).status = status
           /\ Set(row, status, waiting).attempts = row.attempts
  BY DEF Set, DeliveryRow

LEMMA ClaimedEvent ==
    ASSUME NEW row \in EventRow, row.attempts < MaxAttempts
    PROVE  /\ Claimed(row, "PROCESSING") \in EventRow
           /\ Claimed(row, "PROCESSING").status = "PROCESSING"
  <1> DEFINE set == Set(row, "PROCESSING", FALSE)
  <1>1. set \in EventRow /\ set.status = "PROCESSING" /\ set.attempts = row.attempts
    BY SetEvent DEF OutboxStatuses
  <1>2. Claimed(row, "PROCESSING") = [set EXCEPT !.attempts = set.attempts + 1]
    BY <1>1 DEF Claimed, EventRow
  <1> HIDE DEF set
  <1> QED
    BY <1>1, <1>2, MaxAttemptsAssumption DEF EventRow

LEMMA ClaimedDelivery ==
    ASSUME NEW row \in DeliveryRow
    PROVE  /\ Claimed(row, "DELIVERING") \in DeliveryRow
           /\ Claimed(row, "DELIVERING").status = "DELIVERING"
           /\ Claimed(row, "DELIVERING").attempts = row.attempts + 1
  <1> DEFINE set == Set(row, "DELIVERING", FALSE)
  <1>1. set \in DeliveryRow /\ set.status = "DELIVERING" /\ set.attempts = row.attempts
    BY SetDelivery DEF DeliveryStatuses
  <1>2. Claimed(row, "DELIVERING") = [set EXCEPT !.attempts = set.attempts + 1]
    BY <1>1 DEF Claimed, DeliveryRow
  <1> HIDE DEF set
  <1> QED
    BY <1>1, <1>2 DEF DeliveryRow

LEMMA FirstType == \A i \in Events \cup Deliveries : First(i) \in Message
  BY MaxAttemptsAssumption DEF First, Message

LEMMA Tables ==
    ASSUME TypeOK
    PROVE  /\ outbox \in [Events -> EventRow]
           /\ deliveries \in [Deliveries -> DeliveryRow]
           /\ workers \in [Workers -> Worker]
  BY DEF TypeOK, EventRow, DeliveryRow

LEMMA InitInvariant == Init => IInv
  <1> SUFFICES ASSUME Init PROVE IInv
    OBVIOUS
  <1>1. TypeOK
    <2>1. New \in EventRow /\ New \in DeliveryRow
      BY MaxAttemptsAssumption DEF New, EventRow, DeliveryRow
    <2>2. outbox \in [Events -> EventRow] /\ deliveries \in [Deliveries -> DeliveryRow]
      BY <2>1 DEF Init
    <2>3. workers \in [Workers -> Worker] /\ job \in Job
      BY DEF Init, Worker, Job
    <2> QED
      BY <2>2, <2>3, FaultsAssumption DEF Init, TypeOK, EventRow, DeliveryRow
  <1>2. \A w \in Workers : KindOK(workers[w]) /\ TargetsOK(workers[w], connected, deliveries)
    BY DEF Init, KindOK, TargetsOK, Free
  <1>3. SubscribersReached
    BY DEF Init, SubscribersReached, New
  <1>4. RowsOK
    <2> SUFFICES ASSUME NEW d \in Deliveries
                 PROVE  RowOK(d, deliveries[d], posts[d], workers, job, overtaken)
      BY DEF RowsOK
    <2>1. \A steps : "Free" \notin steps => Doing(workers, steps, d) = {}
      BY DEF Init, Doing, Free
    <2>2. deliveries[d].attempts = 0 /\ posts[d] = 0
      BY DEF Init, New
    <2>3. Doing(workers, {"Claimed"}, d) = {} /\ Doing(workers, Holding, d) = {}
      BY <2>1 DEF Holding
    <2> QED
      BY <2>2, <2>3, FS_EmptySet, MaxAttemptsAssumption DEF RowOK
  <1>5. JobOK(job)
    BY DEF Init, JobOK, Idle
  <1> QED
    BY <1>1, <1>2, <1>3, <1>4, <1>5 DEF IInv

--------------------------------------------------------------------------------
(* Requests, time and the recovery task keep the types.                    *)

Request == \/ \E e \in Events : Stage(e) \/ Publish(e) \/ LosePublish(e)
           \/ \E c \in Connections : Revoke(c)

Time == \E i \in Events \cup Deliveries : Elapse(i) \/ Stall(i)

Beat == Recover \/ RecoverCrash

(* What requests, time and the recovery task keep of the workers. *)
LEMMA BeatIsQuiet ==
    ASSUME Request \/ Time \/ Beat
    PROVE  UNCHANGED <<workers, posts>> /\ connected' \subseteq connected
  BY DEF Request, Time, Beat, Stage, Publish, LosePublish, Revoke, Elapse, Stall, Recover,
         RecoverRead, RecoverCommit, RecoverPublish, RecoverCrash

LEMMA RequestType == ASSUME TypeOK, Request PROVE TypeOK'
  <1>1. ASSUME NEW e \in Events, Stage(e) PROVE TypeOK'
    <2>1. outbox' \in [Events -> EventRow]
      BY <1>1, Tables DEF Stage, EventRow, OutboxStatuses
    <2> QED
      BY <1>1, <2>1 DEF Stage, TypeOK, EventRow
  <1>2. ASSUME NEW e \in Events, Publish(e) PROVE TypeOK'
    BY <1>2, FirstType DEF Publish, TypeOK
  <1>3. ASSUME NEW e \in Events, LosePublish(e) PROVE TypeOK'
    BY <1>3, FaultType DEF LosePublish, TypeOK
  <1>4. ASSUME NEW c \in Connections, Revoke(c) PROVE TypeOK'
    BY <1>4 DEF Revoke, TypeOK
  <1> QED
    BY <1>1, <1>2, <1>3, <1>4 DEF Request

(* Time changes no status and no attempts. *)
LEMMA TimeRows ==
    ASSUME TypeOK, Time
    PROVE  /\ outbox' \in [Events -> EventRow]
           /\ deliveries' \in [Deliveries -> DeliveryRow]
           /\ \A e \in Events : outbox'[e].status = outbox[e].status
           /\ \A d \in Deliveries : /\ deliveries'[d].status = deliveries[d].status
                                    /\ deliveries'[d].attempts = deliveries[d].attempts
  <1>1. ASSUME NEW row \in EventRow, NEW new,
               \/ new = [row EXCEPT !.waiting = FALSE]
               \/ new = [row EXCEPT !.stale = TRUE]
        PROVE  new \in EventRow /\ new.status = row.status
    BY <1>1 DEF EventRow
  <1>2. ASSUME NEW row \in DeliveryRow, NEW new,
               \/ new = [row EXCEPT !.waiting = FALSE]
               \/ new = [row EXCEPT !.stale = TRUE]
        PROVE  new \in DeliveryRow /\ new.status = row.status /\ new.attempts = row.attempts
    BY <1>2 DEF DeliveryRow
  <1>3. PICK i \in Events \cup Deliveries : Elapse(i) \/ Stall(i)
    BY DEF Time
  <1>4. CASE UNCHANGED deliveries
    <2>1. \/ UNCHANGED outbox
          \/ /\ i \in Events
             /\ \/ outbox' = [outbox EXCEPT ![i] = [outbox[i] EXCEPT !.waiting = FALSE]]
                \/ outbox' = [outbox EXCEPT ![i] = [outbox[i] EXCEPT !.stale = TRUE]]
      BY <1>3, <1>4, Tables DEF Elapse, Stall
    <2> QED
      BY <1>1, <1>4, <2>1, Tables
  <1>5. CASE UNCHANGED outbox
    <2>1. \/ UNCHANGED deliveries
          \/ /\ i \in Deliveries
             /\ \/ deliveries' = [deliveries EXCEPT ![i] = [deliveries[i] EXCEPT !.waiting = FALSE]]
                \/ deliveries' = [deliveries EXCEPT ![i] = [deliveries[i] EXCEPT !.stale = TRUE]]
      BY <1>3, <1>5, Tables DEF Elapse, Stall
    <2> QED
      BY <1>2, <1>5, <2>1, Tables
  <1> QED
    BY <1>3, <1>4, <1>5 DEF Elapse, Stall

LEMMA TimeType == ASSUME TypeOK, Time PROVE TypeOK'
  BY TimeRows DEF Time, Elapse, Stall, TypeOK, EventRow, DeliveryRow

(* Recovery changes no row but those that it read as stale. *)
LEMMA CommitRows ==
    ASSUME TypeOK, RecoverCommit
    PROVE  /\ outbox' \in [Events -> EventRow]
           /\ \A e \in Events : outbox'[e] = outbox[e] \/ outbox'[e].status = "FAILED"
           /\ deliveries' \in [Deliveries -> DeliveryRow]
           /\ \A d \in Deliveries :
                /\ deliveries'[d].attempts = deliveries[d].attempts
                /\ d \in job.exhausted => deliveries'[d].status = "FAILED"
                /\ d \in job.deliveries \ job.exhausted =>
                     deliveries'[d].status = "RETRY_SCHEDULED"
                /\ d \notin job.deliveries \cup job.exhausted => deliveries'[d] = deliveries[d]
  <1>0. job \in Job /\ job.at = "Commit"
    BY DEF TypeOK, RecoverCommit
  <1>1. job.exhausted \subseteq Deliveries /\ job.deliveries \subseteq Deliveries
    BY <1>0 DEF Job, Idle
  <1>2. ASSUME NEW e \in Events
        PROVE  /\ Set(outbox[e], "FAILED", FALSE) \in EventRow
               /\ Set(outbox[e], "FAILED", FALSE).status = "FAILED"
    BY Tables, SetEvent DEF OutboxStatuses
  <1>3. ASSUME NEW d \in Deliveries, NEW status \in {"FAILED", "RETRY_SCHEDULED"}
        PROVE  /\ Set(deliveries[d], status, FALSE) \in DeliveryRow
               /\ Set(deliveries[d], status, FALSE).status = status
               /\ Set(deliveries[d], status, FALSE).attempts = deliveries[d].attempts
    BY Tables, SetDelivery DEF DeliveryStatuses
  <1>4. outbox' = [e \in Events |->
          IF e \in job.events THEN Set(outbox[e], "FAILED", FALSE) ELSE outbox[e]]
    BY DEF RecoverCommit
  <1>5. deliveries' = [d \in Deliveries |->
          IF d \in job.exhausted THEN Set(deliveries[d], "FAILED", FALSE)
          ELSE IF d \in job.deliveries THEN Set(deliveries[d], "RETRY_SCHEDULED", FALSE)
          ELSE deliveries[d]]
    BY DEF RecoverCommit
  <1>6. /\ outbox' \in [Events -> EventRow]
        /\ \A e \in Events : outbox'[e] = outbox[e] \/ outbox'[e].status = "FAILED"
    BY <1>2, <1>4, Tables
  <1>7. deliveries' \in [Deliveries -> DeliveryRow]
    BY <1>3, <1>5, Tables
  <1> QED
    BY <1>1, <1>3, <1>5, <1>6, <1>7

LEMMA BeatType == ASSUME TypeOK, Beat PROVE TypeOK'
  <1>1. CASE RecoverRead
    <2>1. StaleEvents \subseteq Events /\ StaleDeliveries \subseteq Deliveries
      BY DEF StaleEvents, StaleDeliveries
    <2>2. job' \in Job
      BY <1>1, <2>1 DEF RecoverRead, Job
    <2> QED
      BY <1>1, <2>2 DEF RecoverRead, TypeOK
  <1>2. CASE RecoverCommit
    <2>1. overtaken' \subseteq Deliveries /\ job' \in Job
      BY <1>2 DEF RecoverCommit, TypeOK, Job, Idle
    <2> QED
      BY <1>2, <2>1, CommitRows DEF RecoverCommit, TypeOK, EventRow, DeliveryRow
  <1>3. CASE RecoverPublish
    <2>1. Listed \subseteq Message
      BY FirstType DEF Listed
    <2> QED
      BY <1>3, <2>1, FaultType DEF RecoverPublish, TypeOK, Job
  <1>4. CASE RecoverCrash
    BY <1>4, FaultType DEF RecoverCrash, TypeOK, Job
  <1> QED
    BY <1>1, <1>2, <1>3, <1>4 DEF Beat, Recover

--------------------------------------------------------------------------------
(* The steps of a worker keep the types.                                   *)

BrokerStep(w) ==
    \/ \E m \in Message : Receive(w, m)
    \/ Ignore(w) \/ Retry(w) \/ LoseRetry(w) \/ RecordFails(w) \/ Crash(w) \/ Reconnect(w)
    \/ PublishDeliveries(w)

EventStep(w) ==
    \/ ClaimEvent(w) \/ FanOut(w) \/ CommitFanOut(w) \/ DispatchFails(w)
    \/ ReadEventError(w) \/ MarkOutboxFailed(w)

DeliveryStep(w) ==
    \/ ClaimDelivery(w) \/ Refuse(w) \/ Post(w) \/ MarkDelivered(w)
    \/ ReadDeliveryError(w) \/ ScheduleRetry(w) \/ GiveUp(w)

OthersWait(w) == \A v \in Workers \ {w} : workers'[v] = workers[v]

(* The broker hands messages out and takes them back. *)
LEMMA BrokerType ==
    ASSUME TypeOK, NEW w \in Workers, KindOK(workers[w]), BrokerStep(w)
    PROVE  /\ TypeOK'
           /\ workers'[w] \in {Free, workers[w]} \/ workers'[w].at = "Received"
           /\ OthersWait(w)
           /\ UNCHANGED <<outbox, deliveries, connected, posts, job, overtaken>>
  <1> DEFINE x == workers[w]
  <1>1. x \in Worker /\ (x.at \in Steps <=> x # Free)
    BY Tables, TaskFields
  <1>2. UNCHANGED <<outbox, deliveries, connected, publishing, posts, job, overtaken>>
    BY DEF BrokerStep, Receive, Ignore, Retry, LoseRetry, RecordFails, Crash, Reconnect,
           PublishDeliveries
  <1>3. CASE \E m \in Message : Receive(w, m)
    <2>1. PICK m \in Message : Receive(w, m)
      BY <1>3
    <2> DEFINE task == [at |-> "Received", on |-> m.on, retries |-> m.retries,
                        targets |-> {}, last |-> FALSE]
    <2>2. task \in Worker
      BY DEF Worker, Steps, Message
    <2>3. workers' = [workers EXCEPT ![w] = task]
      BY <2>1 DEF Receive
    <2>4. workers' \in [Workers -> Worker] /\ workers'[w].at = "Received" /\ OthersWait(w)
      BY <2>2, <2>3, Tables DEF OthersWait
    <2> QED
      BY <1>2, <2>1, <2>4 DEF Receive, TypeOK
  <1>4. CASE Ignore(w) \/ LoseRetry(w) \/ RecordFails(w)
    <2>1. Acknowledge(w) /\ UNCHANGED queue
      BY <1>4 DEF Ignore, LoseRetry, RecordFails
    <2>2. faults' \in 0..MaxFaults
      BY <1>4, FaultType DEF Ignore, LoseRetry, RecordFails, TypeOK
    <2> QED
      BY <1>2, <2>1, <2>2, AcknowledgeType DEF TypeOK, OthersWait
  <1>5. CASE Retry(w)
    <2>1. Acknowledge(w) /\ queue' \subseteq Message /\ UNCHANGED faults
      BY <1>5 DEF Retry, TypeOK
    <2> QED
      BY <1>2, <2>1, AcknowledgeType DEF TypeOK, OthersWait
  <1>6. CASE Crash(w) \/ Reconnect(w)
    <2>1. [on |-> x.on, retries |-> x.retries] \in Message
      BY <1>1, <1>6, TaskFields DEF Crash, Reconnect, Message
    <2>2. queue' \subseteq Message /\ faults' \in 0..MaxFaults
      BY <1>6, <2>1, FaultType DEF Crash, Reconnect, TypeOK
    <2>3. \/ workers' \in [Workers -> Worker] /\ workers'[w] = Free /\ OthersWait(w)
          \/ UNCHANGED workers
      BY <1>6, AcknowledgeType DEF Crash, Reconnect, OthersWait
    <2> QED
      BY <1>2, <2>2, <2>3 DEF TypeOK, OthersWait
  <1>7. CASE PublishDeliveries(w)
    <2>1. x # Free /\ x.on \in Events /\ x.targets \in SUBSET Connections
      BY <1>1, <1>7, TaskFields DEF PublishDeliveries, KindOK, Steps
    <2>2. \A c \in x.targets : First(<<x.on, c>>) \in Message
      BY <2>1, FirstType DEF Deliveries
    <2>3. queue' \subseteq Message /\ faults' \in 0..MaxFaults
      BY <1>7, <2>2, FaultType DEF PublishDeliveries, TypeOK
    <2> QED
      BY <1>2, <1>7, <2>3, AcknowledgeType DEF PublishDeliveries, TypeOK, OthersWait
  <1> QED
    BY <1>3, <1>4, <1>5, <1>6, <1>7 DEF BrokerStep

(* The dispatch of an event inserts deliveries, and writes no others. *)
LEMMA EventType ==
    ASSUME TypeOK, NEW w \in Workers, KindOK(workers[w]), EventStep(w)
    PROVE  /\ TypeOK'
           /\ workers[w].on \in Events
           /\ workers'[w] = Free \/ workers'[w].on = workers[w].on
           /\ workers'[w].at \in {"Free", "Claimed", "FannedOut", "Publish", "Failing",
                                  "MarkFailed", "Postpone", "Retry"}
           /\ workers'[w].at = "FannedOut" => FanOut(w)
           /\ OthersWait(w)
           /\ \A d \in Deliveries :
                \/ deliveries'[d] = deliveries[d]
                \/ /\ deliveries[d].status = "NONE" /\ deliveries'[d].status = "PENDING"
                   /\ deliveries'[d].attempts = deliveries[d].attempts
           /\ UNCHANGED <<connected, posts, job, overtaken>>
  <1> DEFINE x == workers[w]
             e == x.on
  <1>1. x \in Worker /\ (x.at \in Steps <=> x # Free)
    BY Tables, TaskFields
  <1>2. UNCHANGED <<connected, publishing, queue, posts, job, overtaken>>
    BY DEF EventStep, ClaimEvent, FanOut, CommitFanOut, DispatchFails, ReadEventError,
           MarkOutboxFailed
  <1>3. x # Free /\ e \in Events
    BY <1>1 DEF EventStep, ClaimEvent, FanOut, CommitFanOut, DispatchFails, ReadEventError,
                MarkOutboxFailed, KindOK, Steps
  <1>4. outbox[e] \in EventRow
    BY <1>3, Tables
  <1>5. CASE ClaimEvent(w)
    <2>1. outbox[e].attempts < MaxAttempts
      BY <1>5 DEF ClaimEvent, OutboxReady
    <2>2. outbox' = [outbox EXCEPT ![e] = Claimed(outbox[e], "PROCESSING")]
      BY <1>5 DEF ClaimEvent
    <2>3. outbox' \in [Events -> EventRow]
      BY <1>4, <2>1, <2>2, ClaimedEvent, Tables
    <2>4. Proceed(w, "Claimed") /\ "Claimed" \in Steps /\ UNCHANGED <<deliveries, faults>>
      BY <1>5 DEF ClaimEvent, Steps
    <2> QED
      BY <1>2, <1>3, <2>3, <2>4, ProceedType DEF TypeOK, EventRow, OthersWait
  <1>6. CASE FanOut(w)
    <2> DEFINE found == {c \in connected : deliveries[<<e, c>>].status = "NONE"}
               task == [x EXCEPT !.at = "FannedOut", !.targets = found]
    <2>1. found \in SUBSET Connections
      BY DEF TypeOK
    <2>2. task \in Worker /\ task.on = e /\ task.at = "FannedOut"
      <3> HIDE DEF found
      <3> QED
        BY <1>1, <1>3, <2>1 DEF Worker, Steps, Free
    <2>3. workers' = [workers EXCEPT ![w] = task]
      BY <1>1, <1>3, <1>6, Tables DEF FanOut
    <2> HIDE DEF task
    <2>4. workers' \in [Workers -> Worker] /\ workers'[w] = task /\ OthersWait(w)
      BY <2>2, <2>3, Tables DEF OthersWait
    <2>5. UNCHANGED <<outbox, deliveries, faults>>
      BY <1>6 DEF FanOut
    <2> QED
      BY <1>2, <1>3, <1>6, <2>2, <2>4, <2>5 DEF TypeOK
  <1>7. CASE CommitFanOut(w)
    <2> DEFINE new == {<<e, c>> : c \in x.targets}
    <2>1. /\ Proceed(w, "Failing") \/ Proceed(w, "Publish")
          /\ {"Failing", "Publish"} \subseteq Steps /\ UNCHANGED faults
      BY <1>7 DEF CommitFanOut, Steps
    <2>2. CASE UNCHANGED <<outbox, deliveries>>
      BY <1>2, <1>3, <2>1, <2>2, ProceedType DEF TypeOK, OthersWait
    <2>3. CASE ~UNCHANGED <<outbox, deliveries>>
      <3>1. /\ ~\E d \in new : deliveries[d].status # "NONE"
            /\ deliveries' = [d \in Deliveries |->
                  IF d \in new THEN [deliveries[d] EXCEPT !.status = "PENDING"]
                  ELSE deliveries[d]]
            /\ outbox' = [outbox EXCEPT ![e] =
                  Set(outbox[e], "PROCESSED", outbox[e].waiting)]
        BY <1>7, <2>3 DEF CommitFanOut
      <3>2. ASSUME NEW row \in DeliveryRow, NEW written, written = [row EXCEPT !.status = "PENDING"]
            PROVE  /\ written \in DeliveryRow /\ written.status = "PENDING"
                   /\ written.attempts = row.attempts
        BY <3>2 DEF DeliveryRow, DeliveryStatuses
      <3> HIDE DEF new
      <3>3. /\ deliveries' \in [Deliveries -> DeliveryRow]
            /\ \A d \in Deliveries :
                 \/ deliveries'[d] = deliveries[d]
                 \/ /\ deliveries[d].status = "NONE" /\ deliveries'[d].status = "PENDING"
                    /\ deliveries'[d].attempts = deliveries[d].attempts
        BY <3>1, <3>2, Tables
      <3>4. outbox[e].waiting \in BOOLEAN /\ "PROCESSED" \in OutboxStatuses \cup {"NONE"}
        BY <1>4 DEF EventRow, OutboxStatuses
      <3>5. outbox' \in [Events -> EventRow]
        BY <1>4, <3>1, <3>4, SetEvent, Tables
      <3>6. /\ workers' \in [Workers -> Worker] /\ OthersWait(w)
            /\ workers'[w].on = e /\ workers'[w].at \in {"Failing", "Publish"}
        BY <1>3, <2>1, ProceedType DEF OthersWait
      <3>7. TypeOK'
        BY <1>2, <2>1, <3>3, <3>5, <3>6 DEF TypeOK, EventRow, DeliveryRow
      <3> QED
        BY <1>2, <1>3, <3>3, <3>6, <3>7
    <2> QED
      BY <2>2, <2>3
  <1>8. CASE DispatchFails(w)
    <2>1. Proceed(w, "Failing") /\ "Failing" \in Steps /\ UNCHANGED <<outbox, deliveries>>
      BY <1>8 DEF DispatchFails, Steps
    <2> QED
      BY <1>2, <1>3, <1>8, <2>1, FaultType, ProceedType DEF DispatchFails, TypeOK, OthersWait
  <1>9. CASE ReadEventError(w)
    <2>1. UNCHANGED <<outbox, deliveries, faults>>
      BY <1>9 DEF ReadEventError
    <2>2. CASE Acknowledge(w)
      BY <1>2, <1>3, <2>1, <2>2, AcknowledgeType DEF TypeOK, OthersWait, Free
    <2>3. CASE ~Acknowledge(w)
      <3> DEFINE last == outbox[e].attempts >= MaxAttempts
      <3>1. PICK step \in {"Retry", "Postpone", "MarkFailed"} :
              workers' = [workers EXCEPT ![w].last = last, ![w].at = step]
        BY <1>9, <2>3 DEF ReadEventError
      <3>2. PICK task : task = [x EXCEPT !.last = last, !.at = step]
        OBVIOUS
      <3>3. workers' = [workers EXCEPT ![w] = task]
        BY <1>1, <1>3, <3>1, <3>2, Tables
      <3>4. last \in BOOLEAN /\ step \in Steps
        BY <3>1 DEF Steps
      <3> HIDE DEF last
      <3>5. task \in Worker /\ task.on = e /\ task.at = step
        BY <1>1, <1>3, <3>2, <3>4 DEF Worker, Free
      <3>6. workers' \in [Workers -> Worker] /\ workers'[w] = task /\ OthersWait(w)
        BY <3>3, <3>5, Tables DEF OthersWait
      <3> QED
        BY <1>2, <1>3, <2>1, <3>1, <3>5, <3>6 DEF TypeOK
    <2> QED
      BY <2>2, <2>3
  <1>10. CASE MarkOutboxFailed(w)
    <2> DEFINE status == IF x.at = "MarkFailed" THEN "FAILED" ELSE outbox[e].status
    <2>1. status \in OutboxStatuses \cup {"NONE"}
      BY <1>4 DEF EventRow, OutboxStatuses
    <2>2. outbox' = [outbox EXCEPT ![e] = Set(outbox[e], status, TRUE)]
      BY <1>3, <1>10, Tables DEF MarkOutboxFailed
    <2> HIDE DEF status
    <2>3. outbox' \in [Events -> EventRow]
      BY <1>4, <2>1, <2>2, SetEvent, Tables
    <2>4. /\ Acknowledge(w) \/ Proceed(w, "Retry")
          /\ "Retry" \in Steps /\ UNCHANGED <<deliveries, faults>>
      BY <1>10 DEF MarkOutboxFailed, Steps
    <2>5. /\ workers' \in [Workers -> Worker] /\ OthersWait(w)
          /\ workers'[w] = Free \/ workers'[w].on = e
          /\ workers'[w].at \in {"Free", "Retry"}
      <3>1. CASE Acknowledge(w)
        BY <3>1, AcknowledgeType DEF OthersWait, Free
      <3>2. CASE Proceed(w, "Retry")
        BY <1>3, <2>4, <3>2, ProceedType DEF OthersWait
      <3> QED
        BY <2>4, <3>1, <3>2
    <2>6. TypeOK'
      BY <1>2, <2>3, <2>4, <2>5 DEF TypeOK, EventRow
    <2> QED
      BY <1>2, <1>3, <2>4, <2>5, <2>6
  <1> QED
    BY <1>5, <1>6, <1>7, <1>8, <1>9, <1>10 DEF EventStep

(* The delivery d goes from row and posted to next and again, while the    *)
(* task that holds it goes from one step to another.                       *)
Moves(row, posted, from, next, again, to) ==
    \/ /\ from = "Received" /\ to = "Claimed"
       /\ row.status \in {"PENDING", "RETRY_SCHEDULED"} /\ next.status = "DELIVERING"
       /\ next.attempts = row.attempts + 1 /\ again = posted
    \/ /\ from = "Claimed" /\ to \in {"Posted", "Failing"}
       /\ next = row /\ again \in {posted, posted + 1}
    \/ /\ from = "Failing" /\ next = row /\ again = posted
       /\ to \in {"Free", "Retry", "GiveUp"} \/ (to \in Late /\ row.attempts < MaxAttempts)
    \/ /\ from \in Late /\ to = "Retry"
       /\ next.status = "RETRY_SCHEDULED" \/ next.status = row.status
       /\ next.attempts = row.attempts /\ again = posted
    \/ /\ from \in {"Posted", "GiveUp"} /\ to = "Free"
       /\ next.status = IF from = "Posted" THEN "DELIVERED" ELSE "FAILED"
       /\ next.attempts = row.attempts /\ again = posted

(* A step of a worker writes no delivery but its own. *)
LEMMA DeliveryType ==
    ASSUME TypeOK, NEW w \in Workers, KindOK(workers[w]), DeliveryStep(w)
    PROVE  /\ TypeOK'
           /\ workers[w].on \in Deliveries
           /\ workers'[w] = Free \/ workers'[w].on = workers[w].on
           /\ OthersWait(w)
           /\ \A k \in Deliveries \ {workers[w].on} :
                 deliveries'[k] = deliveries[k] /\ posts'[k] = posts[k]
           /\ Moves(deliveries[workers[w].on], posts[workers[w].on], workers[w].at,
                    deliveries'[workers[w].on], posts'[workers[w].on], workers'[w].at)
           /\ UNCHANGED <<outbox, connected, job, overtaken>>
  <1> DEFINE x == workers[w]
             d == x.on
  <1>1. x \in Worker /\ (x.at \in Steps <=> x # Free)
    BY Tables, TaskFields
  <1>2. UNCHANGED <<outbox, connected, publishing, queue, job, overtaken, faults>>
    BY DEF DeliveryStep, ClaimDelivery, Refuse, Post, MarkDelivered, ReadDeliveryError,
           ScheduleRetry, GiveUp
  <1>3. x # Free /\ d \in Deliveries
    BY <1>1 DEF DeliveryStep, ClaimDelivery, Refuse, Post, MarkDelivered, ReadDeliveryError,
                ScheduleRetry, GiveUp, KindOK, Steps
  <1>4. deliveries[d] \in DeliveryRow /\ posts[d] \in Nat
    BY <1>3, Tables DEF TypeOK
  <1>5. ASSUME NEW row \in DeliveryRow, deliveries' = [deliveries EXCEPT ![d] = row]
        PROVE  /\ deliveries' \in [Deliveries -> DeliveryRow] /\ deliveries'[d] = row
               /\ \A k \in Deliveries \ {d} : deliveries'[k] = deliveries[k]
    BY <1>3, <1>5, Tables
  <1>6. ASSUME NEW step \in Steps, Proceed(w, step)
        PROVE  /\ workers' \in [Workers -> Worker] /\ OthersWait(w)
               /\ workers'[w].on = d /\ workers'[w].at = step
    BY <1>3, <1>6, ProceedType DEF OthersWait
  <1>7. ASSUME Acknowledge(w)
        PROVE  /\ workers' \in [Workers -> Worker] /\ OthersWait(w)
               /\ workers'[w] = Free /\ workers'[w].at = "Free"
    BY <1>7, AcknowledgeType DEF OthersWait, Free
  <1>8. ASSUME deliveries' \in [Deliveries -> DeliveryRow], workers' \in [Workers -> Worker],
               posts' \in [Deliveries -> Nat]
        PROVE  TypeOK'
    BY <1>2, <1>8 DEF TypeOK, DeliveryRow
  <1>9. posts \in [Deliveries -> Nat] /\ deliveries \in [Deliveries -> DeliveryRow]
    BY Tables DEF TypeOK
  <1>10. CASE ClaimDelivery(w)
    <2>1. /\ deliveries' = [deliveries EXCEPT ![d] = Claimed(deliveries[d], "DELIVERING")]
          /\ Proceed(w, "Claimed") /\ "Claimed" \in Steps
          /\ x.at = "Received" /\ deliveries[d].status \in {"PENDING", "RETRY_SCHEDULED"}
          /\ UNCHANGED posts
      BY <1>10 DEF ClaimDelivery, Claimable, Steps
    <2>2. PICK row \in DeliveryRow : row = Claimed(deliveries[d], "DELIVERING")
      BY <1>4, ClaimedDelivery
    <2>3. row.status = "DELIVERING" /\ row.attempts = deliveries[d].attempts + 1
      BY <1>4, <2>2, ClaimedDelivery
    <2>4. /\ deliveries' \in [Deliveries -> DeliveryRow] /\ deliveries'[d] = row
          /\ \A k \in Deliveries \ {d} : deliveries'[k] = deliveries[k]
      BY <1>5, <2>1, <2>2
    <2> QED
      BY <1>2, <1>3, <1>6, <1>8, <1>9, <2>1, <2>3, <2>4 DEF Moves
  <1>11. CASE Refuse(w) \/ Post(w)
    <2>1. /\ x.at = "Claimed" /\ UNCHANGED deliveries
          /\ {"Posted", "Failing"} \subseteq Steps
          /\ Proceed(w, "Posted") \/ Proceed(w, "Failing")
      BY <1>11 DEF Refuse, Post, Steps
    <2>2. /\ posts' \in [Deliveries -> Nat] /\ posts'[d] \in {posts[d], posts[d] + 1}
          /\ \A k \in Deliveries \ {d} : posts'[k] = posts[k]
      <3>1. ASSUME NEW taken \in 0..1, posts' = [posts EXCEPT ![d] = posts[d] + taken]
            PROVE  /\ posts' \in [Deliveries -> Nat] /\ posts'[d] \in {posts[d], posts[d] + 1}
                   /\ \A k \in Deliveries \ {d} : posts'[k] = posts[k]
        BY <1>3, <1>4, <1>9, <3>1
      <3>2. \/ UNCHANGED posts
            \/ \E taken \in 0..1 : posts' = [posts EXCEPT ![d] = posts[d] + taken]
        BY <1>3, <1>9, <1>11 DEF Refuse, Post
      <3> QED
        BY <1>3, <1>9, <3>1, <3>2
    <2>3. /\ workers' \in [Workers -> Worker] /\ OthersWait(w)
          /\ workers'[w].on = d /\ workers'[w].at \in {"Posted", "Failing"}
      BY <1>6, <2>1
    <2> QED
      BY <1>2, <1>3, <1>8, <1>9, <2>1, <2>2, <2>3 DEF Moves
  <1>12. CASE MarkDelivered(w) \/ GiveUp(w)
    <2> DEFINE status == IF x.at = "Posted" THEN "DELIVERED" ELSE "FAILED"
    <2>1. /\ x.at \in {"Posted", "GiveUp"} /\ Acknowledge(w) /\ UNCHANGED posts
          /\ \E waiting \in BOOLEAN :
                deliveries' = [deliveries EXCEPT ![d] = Set(deliveries[d], status, waiting)]
      BY <1>3, <1>4, <1>9, <1>12 DEF MarkDelivered, GiveUp, DeliveryRow
    <2>2. status \in DeliveryStatuses \cup {"NONE"}
      BY DEF DeliveryStatuses
    <2>3. PICK waiting \in BOOLEAN :
             deliveries' = [deliveries EXCEPT ![d] = Set(deliveries[d], status, waiting)]
      BY <2>1
    <2>4. PICK row : row = Set(deliveries[d], status, waiting)
      OBVIOUS
    <2> HIDE DEF status
    <2>5. row \in DeliveryRow /\ row.status = status /\ row.attempts = deliveries[d].attempts
      BY <1>4, <2>2, <2>4, SetDelivery
    <2>6. /\ deliveries' \in [Deliveries -> DeliveryRow] /\ deliveries'[d] = row
          /\ \A k \in Deliveries \ {d} : deliveries'[k] = deliveries[k]
      BY <1>5, <2>3, <2>4, <2>5
    <2>7. Moves(deliveries[d], posts[d], x.at, row, posts[d], "Free")
      BY <2>1, <2>5 DEF Moves, status
    <2> QED
      BY <1>2, <1>3, <1>7, <1>8, <1>9, <2>1, <2>6, <2>7
  <1>13. CASE ReadDeliveryError(w)
    <2>1. /\ x.at = "Failing" /\ UNCHANGED <<deliveries, posts>>
          /\ {"Retry", "GiveUp", "MarkFailed", "Postpone"} \subseteq Steps
          /\ \/ Acknowledge(w) \/ Proceed(w, "Retry") \/ Proceed(w, "GiveUp")
             \/ /\ ~(deliveries[d].attempts >= MaxAttempts)
                /\ Proceed(w, "MarkFailed") \/ Proceed(w, "Postpone")
      BY <1>13 DEF ReadDeliveryError, Steps
    <2>2. /\ workers' \in [Workers -> Worker] /\ OthersWait(w)
          /\ workers'[w] = Free \/ workers'[w].on = d
          /\ \/ workers'[w].at \in {"Free", "Retry", "GiveUp"}
             \/ workers'[w].at \in Late /\ ~(deliveries[d].attempts >= MaxAttempts)
      BY <1>6, <1>7, <2>1 DEF Late
    <2>3. ~(deliveries[d].attempts >= MaxAttempts) => deliveries[d].attempts < MaxAttempts
      BY <1>4, MaxAttemptsAssumption DEF DeliveryRow
    <2> QED
      BY <1>2, <1>3, <1>8, <1>9, <2>1, <2>2, <2>3 DEF Moves
  <1>14. CASE ScheduleRetry(w)
    <2> DEFINE status == IF x.at = "MarkFailed" THEN "RETRY_SCHEDULED" ELSE deliveries[d].status
    <2>1. /\ x.at \in Late /\ Proceed(w, "Retry") /\ "Retry" \in Steps /\ UNCHANGED posts
          /\ deliveries' = [deliveries EXCEPT ![d] = Set(deliveries[d], status, TRUE)]
      BY <1>3, <1>9, <1>14 DEF ScheduleRetry, Steps, Late
    <2>2. /\ status \in DeliveryStatuses \cup {"NONE"}
          /\ status \in {"RETRY_SCHEDULED", deliveries[d].status}
      BY <1>4 DEF DeliveryRow, DeliveryStatuses
    <2>3. PICK row : row = Set(deliveries[d], status, TRUE)
      OBVIOUS
    <2> HIDE DEF status
    <2>4. row \in DeliveryRow /\ row.status = status /\ row.attempts = deliveries[d].attempts
      BY <1>4, <2>2, <2>3, SetDelivery
    <2>5. /\ deliveries' \in [Deliveries -> DeliveryRow] /\ deliveries'[d] = row
          /\ \A k \in Deliveries \ {d} : deliveries'[k] = deliveries[k]
      BY <1>5, <2>1, <2>3, <2>4
    <2>6. Moves(deliveries[d], posts[d], x.at, row, posts[d], "Retry")
      BY <2>1, <2>2, <2>4 DEF Moves
    <2> QED
      BY <1>2, <1>3, <1>6, <1>8, <1>9, <2>1, <2>5, <2>6
  <1> QED
    BY <1>10, <1>11, <1>12, <1>13, <1>14 DEF DeliveryStep

--------------------------------------------------------------------------------
(* Counting the workers that hold a delivery.                              *)

LEMMA Counts ==
    ASSUME NEW T \in SUBSET Workers, NEW S \in SUBSET T
    PROVE  /\ IsFiniteSet(S) /\ IsFiniteSet(T)
           /\ Cardinality(S) \in Nat /\ Cardinality(T) \in Nat /\ Cardinality(Workers) \in Nat
           /\ Cardinality(S) <= Cardinality(T) /\ Cardinality(T) <= Cardinality(Workers)
  <1>1. IsFiniteSet(T)
    BY WorkersAssumption, FS_Subset
  <1> QED
    BY <1>1, WorkersAssumption, FS_Subset, FS_CardinalityType

(* What one worker's change of step does to the count of a kind of steps.  *)
LEMMA DoingChanges ==
    ASSUME NEW ws, NEW new, NEW w \in Workers, NEW steps, NEW i,
           \A v \in Workers \ {w} : new[v] = ws[v]
    PROVE  LET before == Doing(ws, steps, i)
               after  == Doing(new, steps, i)
               gone   == new[w].at \notin steps \/ new[w].on # i
           IN  /\ before \in SUBSET Workers /\ after \in SUBSET Workers
               /\ gone => /\ after = before \ {w} /\ Cardinality(after) <= Cardinality(before)
                          /\ w \in before => Cardinality(after) + 1 = Cardinality(before)
               /\ Cardinality(after) <= Cardinality(before) + 1
               /\ w \notin after => Cardinality(after) + 1 <= Cardinality(Workers)
  <1> DEFINE before == Doing(ws, steps, i)
             after  == Doing(new, steps, i)
             gone   == new[w].at \notin steps \/ new[w].on # i
  <1>1. before \in SUBSET Workers /\ after \in SUBSET Workers
    BY DEF Doing
  <1>2. gone => after = before \ {w}
    BY DEF Doing
  <1>3. after \subseteq before \cup {w}
    BY DEF Doing
  <1> HIDE DEF before, after, gone
  <1>4. IsFiniteSet(before) /\ Cardinality(before) \in Nat /\ Cardinality(after) \in Nat
    BY <1>1, Counts
  <1>5. Cardinality(before \cup {w}) = IF w \in before THEN Cardinality(before)
                                       ELSE Cardinality(before) + 1
    BY <1>4, FS_AddElement
  <1>6. Cardinality(before \ {w}) = IF w \in before THEN Cardinality(before) - 1
                                    ELSE Cardinality(before)
    BY <1>4, FS_RemoveElement
  <1>7. Cardinality(after) <= Cardinality(before \cup {w}) /\ before \cup {w} \in SUBSET Workers
    BY <1>1, <1>3, Counts
  <1>8. ASSUME w \notin after PROVE Cardinality(after) + 1 <= Cardinality(Workers)
    <2>1. after \subseteq Workers \ {w} /\ Cardinality(Workers \ {w}) = Cardinality(Workers) - 1
      BY <1>1, <1>8, WorkersAssumption, FS_RemoveElement
    <2>2. Cardinality(after) <= Cardinality(Workers \ {w}) /\ Cardinality(Workers) \in Nat
      BY <2>1, Counts
    <2> QED
      BY <1>4, <2>1, <2>2
  <1> QED
    BY <1>1, <1>2, <1>4, <1>5, <1>6, <1>7, <1>8 DEF before, after, gone

(* A delivery that is not written keeps its counts when no task begins to  *)
(* hold it.                                                                *)
LEMMA RowKept ==
    ASSUME NEW d \in Deliveries, NEW row \in DeliveryRow, NEW next \in DeliveryRow,
           NEW posted \in Nat, NEW ws, NEW new, NEW j, NEW k, NEW freed, NEW more,
           RowOK(d, row, posted, ws, j, freed),
           next.attempts = row.attempts,
           next.status = row.status \/ (row.status = "NONE" /\ next.status = "PENDING"),
           Doing(new, {"Claimed"}, d) \subseteq Doing(ws, {"Claimed"}, d),
           Doing(new, Late, d) \subseteq Doing(ws, Late, d),
           Doing(new, Holding, d) \subseteq Doing(ws, Holding, d),
           JobLate(k, d) <= JobLate(j, d) \/ row.attempts < MaxAttempts,
           freed \subseteq more
    PROVE  RowOK(d, next, posted, new, k, more)
  <1>1. ASSUME NEW steps, Doing(new, steps, d) \subseteq Doing(ws, steps, d)
        PROVE  /\ Cardinality(Doing(new, steps, d)) <= Cardinality(Doing(ws, steps, d))
               /\ Cardinality(Doing(new, steps, d)) \in Nat
               /\ Cardinality(Doing(ws, steps, d)) \in Nat /\ Cardinality(Workers) \in Nat
    <2>1. Doing(ws, steps, d) \in SUBSET Workers
      BY DEF Doing
    <2> QED
      BY <1>1, <2>1, Counts
  <1>2. row.attempts \in Nat /\ JobLate(j, d) \in 0..1 /\ JobLate(k, d) \in 0..1
    BY DEF DeliveryRow, JobLate
  <1>3. next.status = "NONE" => next.attempts = 0
    BY DEF RowOK
  <1>4. posted + Cardinality(Doing(new, {"Claimed"}, d)) <= next.attempts
    <2>1. posted + Cardinality(Doing(ws, {"Claimed"}, d)) <= row.attempts
      BY DEF RowOK
    <2> QED
      BY <1>1, <1>2, <2>1
  <1>5. ASSUME next.attempts >= MaxAttempts
        PROVE  next.attempts + Open(next) + Cardinality(Doing(new, Late, d)) + JobLate(k, d)
                 <= MaxAttempts + Cardinality(Workers)
    <2>1. row.attempts + Open(row) + Cardinality(Doing(ws, Late, d)) + JobLate(j, d)
            <= MaxAttempts + Cardinality(Workers)
      BY <1>5 DEF RowOK
    <2>2. row.status # "NONE"
      BY <1>2, <1>5, MaxAttemptsAssumption DEF RowOK
    <2>3. Open(next) = Open(row) /\ Open(row) \in 0..1
      BY <2>2 DEF Open
    <2>4. JobLate(k, d) <= JobLate(j, d)
      BY <1>2, <1>5, MaxAttemptsAssumption
    <2> QED
      BY <1>1, <1>2, <2>1, <2>3, <2>4, MaxAttemptsAssumption
  <1>6. ASSUME d \notin more, NEW w \in Doing(new, Holding, d)
        PROVE  next.status = "DELIVERING" /\ Doing(new, Holding, d) = {w}
    <2>1. row.status = "DELIVERING" /\ Doing(ws, Holding, d) = {w}
      BY <1>6 DEF RowOK
    <2> QED
      BY <1>6, <2>1
  <1> QED
    BY <1>3, <1>4, <1>5, <1>6 DEF RowOK

LEMMA RowTypes ==
    ASSUME TypeOK, NEW d \in Deliveries
    PROVE  deliveries[d] \in DeliveryRow /\ posts[d] \in Nat
  BY Tables DEF TypeOK

(* No worker's step. *)
LEMMA BeatKeepsRows ==
    ASSUME IInv, TypeOK', Request \/ Time \/ Beat
    PROVE  RowsOK'
  <1> SUFFICES ASSUME NEW d \in Deliveries
               PROVE  RowOK(d, deliveries'[d], posts'[d], workers', job', overtaken')
    BY DEF RowsOK
  <1>1. /\ RowOK(d, deliveries[d], posts[d], workers, job, overtaken)
        /\ deliveries[d] \in DeliveryRow /\ deliveries'[d] \in DeliveryRow /\ posts[d] \in Nat
    BY RowTypes DEF IInv, RowsOK, TypeOK, DeliveryRow
  <1>2. UNCHANGED <<workers, posts>>
    BY BeatIsQuiet
  <1>3. JobLate(job, d) \in 0..1 /\ JobLate(job', d) \in 0..1
    BY DEF JobLate
  <1>4. ASSUME deliveries'[d].status = deliveries[d].status,
               deliveries'[d].attempts = deliveries[d].attempts, overtaken \subseteq overtaken',
               JobLate(job', d) <= JobLate(job, d) \/ deliveries[d].attempts < MaxAttempts
        PROVE  RowOK(d, deliveries'[d], posts'[d], workers', job', overtaken')
    BY <1>1, <1>2, <1>4, RowKept
  <1>5. CASE Request
    <2>1. UNCHANGED <<deliveries, job, overtaken>>
      BY <1>5 DEF Request, Stage, Publish, LosePublish, Revoke
    <2> QED
      BY <1>3, <1>4, <2>1
  <1>6. CASE Time
    <2>1. UNCHANGED <<job, overtaken>>
      BY <1>6 DEF Time, Elapse, Stall
    <2> QED
      BY <1>3, <1>4, <1>6, <2>1, TimeRows DEF IInv
  <1>7. CASE RecoverRead
    <2>1. UNCHANGED <<deliveries, overtaken>>
      BY <1>7 DEF RecoverRead
    <2>2. JobLate(job', d) = 0 \/ ~(deliveries[d].attempts >= MaxAttempts)
      BY <1>7 DEF RecoverRead, JobLate
    <2> QED
      BY <1>1, <1>3, <1>4, <2>1, <2>2, MaxAttemptsAssumption DEF DeliveryRow
  <1>8. CASE RecoverCommit
    <2>1. /\ job.at = "Commit" /\ job.exhausted \subseteq job.deliveries
          /\ overtaken' = overtaken \cup job.deliveries /\ JobLate(job', d) = 0
      BY <1>8 DEF RecoverCommit, IInv, JobOK, JobLate
    <2>2. CASE d \notin job.deliveries
      BY <1>3, <1>4, <1>8, <2>1, <2>2, CommitRows DEF IInv
    <2>3. CASE d \in job.deliveries
      <3>1. /\ deliveries'[d].attempts = deliveries[d].attempts
            /\ Open(deliveries'[d]) = JobLate(job, d) /\ deliveries'[d].status # "NONE"
        BY <1>8, <2>1, <2>3, CommitRows DEF IInv, Open, JobLate
      <3>2. Doing(workers, Late, d) \in SUBSET Workers /\ Open(deliveries[d]) \in 0..1
        BY DEF Doing, Open
      <3>3. Cardinality(Doing(workers, Late, d)) \in Nat /\ Cardinality(Workers) \in Nat
        BY <3>2, Counts
      <3>4. ASSUME deliveries[d].attempts >= MaxAttempts
            PROVE  deliveries[d].attempts + Open(deliveries'[d])
                     + Cardinality(Doing(workers, Late, d)) + 0
                     <= MaxAttempts + Cardinality(Workers)
        <4>1. deliveries[d].attempts + Open(deliveries[d])
                + Cardinality(Doing(workers, Late, d)) + JobLate(job, d)
                <= MaxAttempts + Cardinality(Workers)
          BY <1>1, <3>4 DEF RowOK
        <4>2. deliveries[d].attempts \in Nat
          BY <1>1 DEF DeliveryRow
        <4> QED
          BY <1>3, <3>1, <3>2, <3>3, <4>1, <4>2, MaxAttemptsAssumption
      <3> QED
        BY <1>1, <1>2, <2>1, <2>3, <3>1, <3>4 DEF RowOK
    <2> QED
      BY <2>2, <2>3
  <1>9. CASE RecoverPublish \/ RecoverCrash
    <2>1. UNCHANGED <<deliveries, overtaken>> /\ JobLate(job', d) = 0
      BY <1>9 DEF RecoverPublish, RecoverCrash, JobLate, Idle
    <2> QED
      BY <1>3, <1>4, <2>1
  <1> QED
    BY <1>5, <1>6, <1>7, <1>8, <1>9 DEF Beat, Recover

(* A task that begins to hold nothing adds to no count. *)
LEMMA TaskCounts ==
    ASSUME NEW w \in Workers, OthersWait(w), NEW d,
           workers'[w].at \in {"Free", "Received"} \/ workers'[w].on # d
           \/ UNCHANGED workers[w]
    PROVE  \A steps \in {{"Claimed"}, Late, Holding} :
              Doing(workers', steps, d) \subseteq Doing(workers, steps, d)
  BY DEF OthersWait, Doing, Late, Holding

LEMMA QuietTaskKeepsRows ==
    ASSUME IInv, TypeOK', NEW w \in Workers, BrokerStep(w) \/ EventStep(w)
    PROVE  RowsOK'
  <1> SUFFICES ASSUME NEW d \in Deliveries
               PROVE  RowOK(d, deliveries'[d], posts'[d], workers', job', overtaken')
    BY DEF RowsOK
  <1>1. /\ RowOK(d, deliveries[d], posts[d], workers, job, overtaken) /\ posts[d] \in Nat
        /\ deliveries[d] \in DeliveryRow /\ deliveries'[d] \in DeliveryRow
    BY RowTypes DEF IInv, RowsOK, TypeOK, DeliveryRow
  <1>2. JobLate(job, d) <= JobLate(job, d)
    BY DEF JobLate
  <1>3. CASE BrokerStep(w)
    <2>1. /\ workers'[w] \in {Free, workers[w]} \/ workers'[w].at = "Received"
          /\ OthersWait(w) /\ UNCHANGED <<deliveries, posts, job, overtaken>>
      BY <1>3, BrokerType DEF IInv
    <2>2. \A steps \in {{"Claimed"}, Late, Holding} :
              Doing(workers', steps, d) \subseteq Doing(workers, steps, d)
      BY <2>1, TaskCounts DEF Free
    <2> QED
      BY <1>1, <1>2, <2>1, <2>2, RowKept
  <1>4. CASE EventStep(w)
    <2>1. /\ workers'[w] = Free \/ workers'[w].on \in Events
          /\ OthersWait(w) /\ UNCHANGED <<posts, job, overtaken>>
          /\ deliveries'[d].attempts = deliveries[d].attempts
          /\ \/ deliveries'[d].status = deliveries[d].status
             \/ deliveries[d].status = "NONE" /\ deliveries'[d].status = "PENDING"
      BY <1>4, EventType DEF IInv
    <2>2. \A steps \in {{"Claimed"}, Late, Holding} :
              Doing(workers', steps, d) \subseteq Doing(workers, steps, d)
      BY <2>1, TaskCounts, EventsAssumption DEF Free
    <2> QED
      BY <1>1, <1>2, <2>1, <2>2, RowKept
  <1> QED
    BY <1>3, <1>4

(* A worker's step on the delivery d. *)
LEMMA MoveKeepsRow ==
    ASSUME IInv, TypeOK', NEW w \in Workers, OthersWait(w), NEW d \in Deliveries,
           workers[w].on = d, workers'[w] = Free \/ workers'[w].on = d,
           Moves(deliveries[d], posts[d], workers[w].at, deliveries'[d], posts'[d],
                 workers'[w].at),
           UNCHANGED <<job, overtaken>>
    PROVE  RowOK(d, deliveries'[d], posts'[d], workers', job', overtaken')
  <1> DEFINE row == deliveries[d]
             next == deliveries'[d]
             from == workers[w].at
             to == workers'[w].at
             claims(ws) == Cardinality(Doing(ws, {"Claimed"}, d))
             late(ws) == Cardinality(Doing(ws, Late, d))
  <1>1. /\ RowOK(d, row, posts[d], workers, job, overtaken)
        /\ posts[d] \in Nat /\ posts'[d] \in Nat /\ row \in DeliveryRow /\ next \in DeliveryRow
    BY RowTypes DEF IInv, RowsOK, TypeOK, DeliveryRow
  <1>2. row.attempts \in Nat /\ next.attempts \in Nat
    BY <1>1 DEF DeliveryRow
  <1>3. \A v \in Workers \ {w} : workers'[v] = workers[v]
    BY DEF OthersWait
  <1>4. \A steps : w \in Doing(workers, steps, d) <=> from \in steps
    BY DEF Doing
  <1>5. \A steps : "Free" \notin steps => (w \in Doing(workers', steps, d) <=> to \in steps)
    BY DEF Doing, Free
  <1>6. /\ claims(workers) \in Nat /\ claims(workers') \in Nat
        /\ late(workers) \in Nat /\ late(workers') \in Nat /\ Cardinality(Workers) \in Nat
    <2>1. \A ws, steps : Doing(ws, steps, d) \in SUBSET Workers
      BY DEF Doing
    <2> QED
      BY <2>1, Counts
  <1>7. /\ to # "Claimed" => claims(workers') <= claims(workers)
        /\ to # "Claimed" /\ from = "Claimed" => claims(workers') + 1 = claims(workers)
        /\ claims(workers') <= claims(workers) + 1
    <2> DEFINE S == {"Claimed"}
    <2>1. to # "Claimed" => to \notin S
      OBVIOUS
    <2> QED
      BY <1>3, <1>4, <2>1, DoingChanges
  <1>8. /\ to \notin Late => /\ late(workers') <= late(workers)
                             /\ late(workers') + 1 <= Cardinality(Workers)
        /\ to \notin Late /\ from \in Late => late(workers') + 1 = late(workers)
    BY <1>3, <1>4, <1>5, DoingChanges DEF Late
  <1>9. Open(row) \in 0..1 /\ Open(next) \in 0..1 /\ JobLate(job, d) \in 0..1
    BY DEF Open, JobLate
  <1>10. /\ row.status = "NONE" => row.attempts = 0
         /\ posts[d] + claims(workers) <= row.attempts
         /\ row.attempts >= MaxAttempts =>
              row.attempts + Open(row) + late(workers) + JobLate(job, d)
                <= MaxAttempts + Cardinality(Workers)
    BY <1>1 DEF RowOK
  <1>11. d \notin overtaken /\ from \in Holding =>
            row.status = "DELIVERING" /\ Doing(workers, Holding, d) = {w}
    BY <1>1, <1>4 DEF RowOK
  <1>12. \A S : Doing(workers', S, d) \subseteq Doing(workers, S, d) \cup {w}
    BY <1>3 DEF Doing
  <1>r. Moves(row, posts[d], from, next, posts'[d], to)
    OBVIOUS
  <1> HIDE DEF row, next, from, to, claims, late
  <1>13. next.status = "NONE" => next.attempts = 0
    BY <1>10, <1>r DEF Moves
  <1>14. posts'[d] + claims(workers') <= next.attempts
    <2>1. CASE from = "Received" /\ next.attempts = row.attempts + 1 /\ posts'[d] = posts[d]
      BY <1>1, <1>2, <1>6, <1>7, <1>10, <2>1
    <2>2. CASE from = "Claimed" /\ to # "Claimed" /\ next = row
               /\ posts'[d] \in {posts[d], posts[d] + 1}
      BY <1>1, <1>2, <1>6, <1>7, <1>10, <2>2
    <2>3. CASE to # "Claimed" /\ next.attempts = row.attempts /\ posts'[d] = posts[d]
      BY <1>1, <1>2, <1>6, <1>7, <1>10, <2>3
    <2> QED
      BY <1>r, <2>1, <2>2, <2>3 DEF Moves, Late
  <1>15. ASSUME next.attempts >= MaxAttempts
         PROVE  next.attempts + Open(next) + late(workers') + JobLate(job', d)
                  <= MaxAttempts + Cardinality(Workers)
    <2>1. CASE /\ to = "Claimed" /\ row.status \in {"PENDING", "RETRY_SCHEDULED"}
               /\ next.status = "DELIVERING" /\ next.attempts = row.attempts + 1
      <3>1. Open(row) = 1 /\ Open(next) = 0 /\ to \notin Late
        BY <2>1 DEF Open, Late
      <3> QED
        BY <1>2, <1>6, <1>8, <1>9, <1>10, <1>15, <2>1, <3>1, MaxAttemptsAssumption
    <2>2. CASE next = row /\ to \notin Late
      BY <1>2, <1>6, <1>8, <1>9, <1>10, <1>15, <2>2, MaxAttemptsAssumption
    <2>3. CASE next = row /\ row.attempts < MaxAttempts
      BY <1>2, <1>15, <2>3, MaxAttemptsAssumption
    <2>4. CASE from \in Late /\ to \notin Late /\ next.attempts = row.attempts
      BY <1>2, <1>6, <1>8, <1>9, <1>10, <1>15, <2>4, MaxAttemptsAssumption
    <2>5. CASE /\ to \notin Late /\ next.status \in {"DELIVERED", "FAILED"}
               /\ next.attempts = row.attempts
      <3>1. Open(next) = 0
        BY <2>5 DEF Open
      <3> QED
        BY <1>2, <1>6, <1>8, <1>9, <1>10, <1>15, <2>5, <3>1, MaxAttemptsAssumption
    <2> QED
      BY <1>r, <2>1, <2>2, <2>3, <2>4, <2>5 DEF Moves, Late
  <1>16. ASSUME d \notin overtaken', NEW v \in Doing(workers', Holding, d)
         PROVE  next.status = "DELIVERING" /\ Doing(workers', Holding, d) = {v}
    <2>1. CASE from = "Received"
      <3>1. next.status = "DELIVERING" /\ row.status # "DELIVERING"
        BY <1>r, <2>1 DEF Moves, Late
      <3>2. Doing(workers, Holding, d) = {}
        BY <1>1, <1>16, <3>1 DEF RowOK
      <3> QED
        BY <1>12, <1>16, <3>1, <3>2
    <2>2. CASE from # "Received"
      <3>1. from \in Holding
        BY <1>r, <2>2 DEF Moves, Late, Holding
      <3>2. row.status = "DELIVERING" /\ Doing(workers', Holding, d) \subseteq {w}
        BY <1>11, <1>12, <1>16, <3>1
      <3>3. to \in Holding /\ Doing(workers', Holding, d) = {v}
        BY <1>5, <1>16, <3>2 DEF Holding
      <3>4. next = row
        BY <1>r, <2>2, <3>3 DEF Moves, Late, Holding
      <3> QED
        BY <3>2, <3>3, <3>4
    <2> QED
      BY <2>1, <2>2
  <1> QED
    BY <1>13, <1>14, <1>15, <1>16 DEF RowOK, claims, late, next

LEMMA DeliveryStepKeepsRows ==
    ASSUME IInv, TypeOK', NEW w \in Workers, DeliveryStep(w)
    PROVE  RowsOK'
  <1> SUFFICES ASSUME NEW k \in Deliveries
               PROVE  RowOK(k, deliveries'[k], posts'[k], workers', job', overtaken')
    BY DEF RowsOK
  <1>n. PICK d : d = workers[w].on
    OBVIOUS
  <1>1. /\ d \in Deliveries /\ OthersWait(w) /\ UNCHANGED <<job, overtaken>>
        /\ workers'[w] = Free \/ workers'[w].on = d
        /\ \A i \in Deliveries \ {d} : deliveries'[i] = deliveries[i] /\ posts'[i] = posts[i]
        /\ Moves(deliveries[d], posts[d], workers[w].at, deliveries'[d], posts'[d],
                 workers'[w].at)
    BY <1>n, DeliveryType DEF IInv
  <1>2. CASE k = d
    BY <1>n, <1>1, <1>2, MoveKeepsRow
  <1>3. CASE k # d
    <2>1. /\ RowOK(k, deliveries[k], posts[k], workers, job, overtaken)
          /\ posts[k] \in Nat /\ deliveries[k] \in DeliveryRow
      BY RowTypes DEF IInv, RowsOK
    <2>2. \A steps \in {{"Claimed"}, Late, Holding} :
              Doing(workers', steps, k) \subseteq Doing(workers, steps, k)
      BY <1>1, <1>3, TaskCounts DEF Free
    <2>3. JobLate(job, k) <= JobLate(job, k)
      BY DEF JobLate
    <2> QED
      BY <1>1, <1>3, <2>1, <2>2, <2>3, RowKept
  <1> QED
    BY <1>2, <1>3

--------------------------------------------------------------------------------
(* The tasks, what they read of the connections, and the processed events. *)

(* No delivery is ever taken back, and no connection comes back. *)
Kept ==
    /\ \A d \in Deliveries : deliveries[d].status # "NONE" => deliveries'[d].status # "NONE"
    /\ connected' \subseteq connected

LEMMA TargetsKept ==
    ASSUME TypeOK, Kept, NEW x, x.at = "FannedOut" => x.on \in Events,
           TargetsOK(x, connected, deliveries)
    PROVE  TargetsOK(x, connected', deliveries')
  BY DEF TypeOK, Kept, TargetsOK, Deliveries

LEMMA SubscribersKept ==
    ASSUME TypeOK, Kept, SubscribersReached,
           \A e \in Events : outbox'[e].status = "PROCESSED" => outbox[e].status = "PROCESSED"
    PROVE  SubscribersReached'
  BY DEF TypeOK, Kept, SubscribersReached, Deliveries

TasksOK ==
    /\ \A w \in Workers : KindOK(workers[w])
    /\ \A w \in Workers : TargetsOK(workers[w], connected, deliveries)
    /\ JobOK(job)
    /\ SubscribersReached

LEMMA BeatKeepsTasks ==
    ASSUME IInv, TypeOK', Request \/ Time \/ Beat
    PROVE  TasksOK'
  <1>1. UNCHANGED workers /\ connected' \subseteq connected
    BY BeatIsQuiet
  <1>2. Kept /\ \A e \in Events : outbox'[e].status = "PROCESSED" => outbox[e].status = "PROCESSED"
    <2>1. CASE Request
      <3>1. UNCHANGED deliveries
        BY <2>1 DEF Request, Stage, Publish, LosePublish, Revoke
      <3>2. ASSUME NEW i \in Events, outbox'[i].status = "PROCESSED"
            PROVE  outbox[i].status = "PROCESSED"
        <4>1. outbox \in [Events -> EventRow]
          BY Tables DEF IInv
        <4>2. UNCHANGED outbox \/ \E e \in Events : Stage(e)
          BY <2>1 DEF Request, Publish, LosePublish, Revoke
        <4>3. ASSUME NEW e \in Events, Stage(e)
              PROVE  outbox'[i].status # "PROCESSED" \/ outbox'[i] = outbox[i]
          BY <4>1, <4>3 DEF Stage, EventRow
        <4> QED
          BY <3>2, <4>2, <4>3
      <3> QED
        BY <1>1, <3>1, <3>2 DEF Kept
    <2>2. CASE Time
      BY <1>1, <2>2, TimeRows DEF IInv, Kept
    <2>3. CASE RecoverCommit
      <3>1. \A e \in Events : outbox'[e] = outbox[e] \/ outbox'[e].status = "FAILED"
        BY <2>3, CommitRows DEF IInv
      <3>2. \A d \in Deliveries : \/ deliveries'[d] = deliveries[d]
                                  \/ deliveries'[d].status \in {"FAILED", "RETRY_SCHEDULED"}
        BY <2>3, CommitRows DEF IInv
      <3> QED
        BY <1>1, <3>1, <3>2 DEF Kept
    <2>4. CASE RecoverRead \/ RecoverPublish \/ RecoverCrash
      BY <1>1, <2>4 DEF RecoverRead, RecoverPublish, RecoverCrash, Kept
    <2> QED
      BY <2>1, <2>2, <2>3, <2>4 DEF Beat, Recover
  <1>3. JobOK(job)'
    <2>1. CASE RecoverRead
      BY <2>1 DEF RecoverRead, JobOK
    <2>2. CASE RecoverCommit \/ RecoverPublish \/ RecoverCrash
      <3>1. job' = [at |-> "List"] \/ job' = [at |-> "Idle"]
        BY <2>2 DEF RecoverCommit, RecoverPublish, RecoverCrash, Idle
      <3> QED
        BY <3>1 DEF JobOK
    <2>3. CASE Request \/ Time
      BY <2>3 DEF Request, Time, Stage, Publish, LosePublish, Revoke, Elapse, Stall, IInv, JobOK
    <2> QED
      BY <2>1, <2>2, <2>3 DEF Beat, Recover
  <1>4. \A w \in Workers : KindOK(workers'[w]) /\ TargetsOK(workers'[w], connected', deliveries')
    BY <1>1, <1>2, TargetsKept DEF IInv, KindOK
  <1>5. SubscribersReached'
    BY <1>2, SubscribersKept DEF IInv
  <1> QED
    BY <1>3, <1>4, <1>5 DEF TasksOK

(* The other tasks keep what they know; so does the recovery task. *)
LEMMA TaskKeepsTasks ==
    ASSUME IInv, Kept, NEW w \in Workers, OthersWait(w), UNCHANGED job,
           KindOK(workers'[w]), TargetsOK(workers'[w], connected', deliveries'),
           SubscribersReached'
    PROVE  TasksOK'
  <1>1. ASSUME NEW v \in Workers
        PROVE  KindOK(workers'[v]) /\ TargetsOK(workers'[v], connected', deliveries')
    <2>1. CASE v = w
      BY <2>1
    <2>2. CASE v # w
      BY <2>2, TargetsKept DEF IInv, OthersWait, KindOK
    <2> QED
      BY <2>1, <2>2
  <1> QED
    BY <1>1 DEF TasksOK, IInv

LEMMA BrokerKeepsTasks ==
    ASSUME IInv, NEW w \in Workers, BrokerStep(w)
    PROVE  TasksOK'
  <1>1. /\ workers'[w] \in {Free, workers[w]} \/ workers'[w].at = "Received"
        /\ OthersWait(w) /\ UNCHANGED <<outbox, deliveries, connected, job>>
    BY BrokerType DEF IInv
  <1>2. Kept /\ SubscribersReached'
    BY <1>1, SubscribersKept DEF Kept, IInv
  <1>3. KindOK(workers'[w]) /\ TargetsOK(workers'[w], connected', deliveries')
    BY <1>1 DEF IInv, KindOK, TargetsOK, Free
  <1> QED
    BY <1>1, <1>2, <1>3, TaskKeepsTasks

LEMMA DeliveryKeepsTasks ==
    ASSUME IInv, NEW w \in Workers, DeliveryStep(w)
    PROVE  TasksOK'
  <1>n. PICK d : d = workers[w].on
    OBVIOUS
  <1>1. /\ d \in Deliveries /\ OthersWait(w) /\ UNCHANGED <<outbox, connected, job>>
        /\ workers'[w] = Free \/ workers'[w].on = d
        /\ \A i \in Deliveries \ {d} : deliveries'[i] = deliveries[i]
        /\ Moves(deliveries[d], posts[d], workers[w].at, deliveries'[d], posts'[d],
                 workers'[w].at)
    BY <1>n, DeliveryType DEF IInv
  <1>2. Kept /\ SubscribersReached'
    <2>1. deliveries[d].status # "NONE" => deliveries'[d].status # "NONE"
      BY <1>1 DEF Moves
    <2> QED
      BY <1>1, <2>1, SubscribersKept DEF Kept, IInv
  <1>3. workers'[w].at \notin {"FannedOut", "Publish"}
    BY <1>1 DEF Moves, Late
  <1> QED
    BY <1>1, <1>2, <1>3, TaskKeepsTasks DEF KindOK, TargetsOK, Free

LEMMA EventKeepsTasks ==
    ASSUME IInv, NEW w \in Workers, EventStep(w)
    PROVE  TasksOK'
  <1>n. PICK e : e = workers[w].on
    OBVIOUS
  <1>1. /\ e \in Events /\ OthersWait(w) /\ UNCHANGED <<connected, job>>
        /\ workers'[w] = Free \/ workers'[w].on = e
        /\ workers'[w].at \in {"Free", "Claimed", "FannedOut", "Publish", "Failing", "MarkFailed",
                               "Postpone", "Retry"}
        /\ workers'[w].at = "FannedOut" => FanOut(w)
        /\ \A d \in Deliveries :
             \/ deliveries'[d] = deliveries[d]
             \/ deliveries[d].status = "NONE" /\ deliveries'[d].status = "PENDING"
        /\ workers \in [Workers -> Worker] /\ outbox \in [Events -> EventRow]
    BY <1>n, EventType, Tables DEF IInv
  <1>2. Kept
    BY <1>1 DEF Kept
  <1>3. KindOK(workers'[w])
    BY <1>1 DEF KindOK, Free
  <1>4. CASE FanOut(w)
    <2>1. UNCHANGED <<outbox, deliveries>>
      BY <1>4 DEF FanOut
    <2> DEFINE found == {c \in connected : deliveries[<<e, c>>].status = "NONE"}
    <2>2. workers'[w].targets = found /\ workers'[w].on = e
      <3>1. workers[w].at = "Claimed"
        BY <1>4 DEF FanOut
      <3>2. workers[w] \in Worker /\ workers[w] # Free
        BY <1>1, <3>1, TaskFields DEF Steps
      <3>3. workers' = [workers EXCEPT ![w] =
                          [workers[w] EXCEPT !.at = "FannedOut", !.targets = found]]
        BY <1>n, <1>1, <1>4, <3>2 DEF FanOut
      <3> HIDE DEF found
      <3> QED
        BY <1>n, <1>1, <3>2, <3>3 DEF Worker, Free
    <2>3. TargetsOK(workers'[w], connected', deliveries')
      BY <1>1, <2>1, <2>2 DEF TargetsOK
    <2> QED
      BY <1>1, <1>2, <1>3, <2>1, <2>3, SubscribersKept, TaskKeepsTasks DEF IInv
  <1>5. CASE CommitFanOut(w)
    <2>1. workers'[w].at # "FannedOut"
      BY <1>1, <1>5 DEF CommitFanOut, FanOut
    <2>2. SubscribersReached'
      <3>1. CASE UNCHANGED outbox
        BY <1>2, <3>1, SubscribersKept DEF IInv
      <3>2. CASE ~UNCHANGED outbox
        <4> DEFINE new == {<<e, c>> : c \in workers[w].targets}
        <4>1. /\ deliveries' = [d \in Deliveries |->
                   IF d \in new THEN [deliveries[d] EXCEPT !.status = "PENDING"]
                   ELSE deliveries[d]]
              /\ \A i \in Events \ {e} : outbox'[i] = outbox[i]
          BY <1>n, <1>1, <1>5, <3>2 DEF CommitFanOut
        <4>2. ASSUME NEW c \in connected PROVE deliveries'[<<e, c>>].status # "NONE"
          <5>1. <<e, c>> \in Deliveries /\ deliveries[<<e, c>>] \in DeliveryRow
            BY <1>1, Tables DEF IInv, TypeOK, Deliveries
          <5>2. c \in workers[w].targets \/ deliveries[<<e, c>>].status # "NONE"
            BY <1>n, <1>5 DEF IInv, TargetsOK, CommitFanOut
          <5>3. CASE c \in workers[w].targets
            <6>1. <<e, c>> \in new
              BY <5>3
            <6>2. deliveries'[<<e, c>>] = [deliveries[<<e, c>>] EXCEPT !.status = "PENDING"]
              BY <4>1, <5>1, <6>1
            <6> QED
              BY <5>1, <6>2 DEF DeliveryRow
          <5> QED
            BY <1>2, <5>1, <5>2, <5>3 DEF Kept
        <4>3. ASSUME NEW i \in Events \ {e}, NEW c \in connected,
                     outbox'[i].status = "PROCESSED"
              PROVE  deliveries'[<<i, c>>].status # "NONE"
          BY <1>2, <4>1, <4>3 DEF IInv, TypeOK, SubscribersReached, Kept, Deliveries
        <4> QED
          BY <1>1, <4>2, <4>3 DEF SubscribersReached
      <3> QED
        BY <3>1, <3>2
    <2> QED
      BY <1>1, <1>2, <1>3, <2>1, <2>2, TaskKeepsTasks DEF TargetsOK
  <1>6. CASE ClaimEvent(w) \/ DispatchFails(w) \/ ReadEventError(w) \/ MarkOutboxFailed(w)
    <2>2. workers'[w].at # "FannedOut"
      <3>1. faults \in Nat
        BY FaultsAssumption DEF IInv, TypeOK
      <3>2. workers[w].at = "Claimed" => DispatchFails(w)
        BY <1>6 DEF ClaimEvent, ReadEventError, MarkOutboxFailed
      <3> QED
        BY <1>1, <3>1, <3>2 DEF FanOut, DispatchFails, Fault
    <2>3. SubscribersReached'
      <3>1. ASSUME NEW i \in Events, outbox'[i].status = "PROCESSED"
            PROVE  outbox[i].status = "PROCESSED"
        <4>1. outbox[e] \in EventRow
          BY <1>1
        <4>2. CASE ClaimEvent(w)
          <5>1. /\ outbox' = [outbox EXCEPT ![e] = Claimed(outbox[e], "PROCESSING")]
                /\ outbox[e].attempts < MaxAttempts
            BY <1>n, <4>2 DEF ClaimEvent, OutboxReady
          <5> QED
            BY <1>1, <3>1, <4>1, <5>1, ClaimedEvent
        <4>3. CASE MarkOutboxFailed(w)
          <5>1. PICK status \in {"FAILED", outbox[e].status} :
                  outbox' = [outbox EXCEPT ![e] = Set(outbox[e], status, TRUE)]
            BY <1>n, <1>1, <4>3 DEF MarkOutboxFailed
          <5>2. status \in OutboxStatuses \cup {"NONE"}
            BY <4>1 DEF EventRow, OutboxStatuses
          <5>3. Set(outbox[e], status, TRUE).status = status
            BY <4>1, <5>2, SetEvent
          <5> QED
            BY <1>1, <3>1, <5>1, <5>3
        <4>4. CASE DispatchFails(w) \/ ReadEventError(w)
          BY <3>1, <4>4 DEF DispatchFails, ReadEventError
        <4> QED
          BY <1>6, <4>2, <4>3, <4>4
      <3> QED
        BY <1>2, <3>1, SubscribersKept DEF IInv
    <2> QED
      BY <1>1, <1>2, <1>3, <2>2, <2>3, TaskKeepsTasks DEF TargetsOK
  <1> QED
    BY <1>4, <1>5, <1>6 DEF EventStep

--------------------------------------------------------------------------------
(* The theorems.                                                           *)

LEMMA StepCases ==
    ASSUME Next
    PROVE  \/ Request \/ Time \/ Beat
           \/ \E w \in Workers : BrokerStep(w) \/ EventStep(w) \/ DeliveryStep(w)
  BY DEF Next, TaskStep, Request, Time, Beat, BrokerStep, EventStep, DeliveryStep

LEMMA StepInvariant == IInv /\ [Next]_vars => IInv'
  <1> SUFFICES ASSUME IInv, [Next]_vars PROVE IInv'
    OBVIOUS
  <1>1. CASE UNCHANGED vars
    BY <1>1 DEF vars, IInv, TypeOK, SubscribersReached, RowsOK
  <1>2. CASE Request \/ Time \/ Beat
    <2>1. TypeOK'
      BY <1>2, RequestType, TimeType, BeatType DEF IInv
    <2> QED
      BY <1>2, <2>1, BeatKeepsRows, BeatKeepsTasks DEF IInv, TasksOK
  <1>3. ASSUME NEW w \in Workers, BrokerStep(w) PROVE IInv'
    <2>1. TypeOK'
      BY <1>3, BrokerType DEF IInv
    <2> QED
      BY <1>3, <2>1, QuietTaskKeepsRows, BrokerKeepsTasks DEF IInv, TasksOK
  <1>4. ASSUME NEW w \in Workers, EventStep(w) PROVE IInv'
    <2>1. TypeOK'
      BY <1>4, EventType DEF IInv
    <2> QED
      BY <1>4, <2>1, QuietTaskKeepsRows, EventKeepsTasks DEF IInv, TasksOK
  <1>5. ASSUME NEW w \in Workers, DeliveryStep(w) PROVE IInv'
    <2>1. TypeOK'
      BY <1>5, DeliveryType DEF IInv
    <2> QED
      BY <1>5, <2>1, DeliveryStepKeepsRows, DeliveryKeepsTasks DEF IInv, TasksOK
  <1> QED
    BY <1>1, <1>2, <1>3, <1>4, <1>5, StepCases

(* Whatever is lost, redelivered or recovered, the writes that may still   *)
(* come over a delivery stay bounded by the workers and the recovery task. *)
THEOREM Invariant == Spec => []IInv
  <1> QED
    BY InitInvariant, StepInvariant, PTL DEF Spec

(* Rows, messages and tasks stay well formed, and the claim of an event    *)
(* (claim_outbox_event) keeps its attempts below the limit.                *)
THEOREM TypeCorrect == Spec => []TypeOK
  <1>1. IInv => TypeOK
    BY DEF IInv
  <1> QED
    BY <1>1, Invariant, PTL

(* claim_delivery does not look at the attempts, yet no delivery is        *)
(* claimed more than once per worker over the limit.                       *)
THEOREM AttemptsAreBounded == Spec => []AttemptsBounded
  <1>1. IInv => AttemptsBounded
    <2> SUFFICES ASSUME IInv, NEW d \in Deliveries
                 PROVE  deliveries[d].attempts <= MaxAttempts + Cardinality(Workers)
      BY DEF AttemptsBounded
    <2>1. /\ RowOK(d, deliveries[d], posts[d], workers, job, overtaken)
          /\ deliveries[d].attempts \in Nat
      BY RowTypes DEF IInv, RowsOK, DeliveryRow
    <2>2. Open(deliveries[d]) \in 0..1 /\ JobLate(job, d) \in 0..1
      BY DEF Open, JobLate
    <2>3. Cardinality(Doing(workers, Late, d)) \in Nat /\ Cardinality(Workers) \in Nat
      <3>1. Doing(workers, Late, d) \in SUBSET Workers
        BY DEF Doing
      <3> QED
        BY <3>1, Counts
    <2>4. deliveries[d].attempts >= MaxAttempts =>
            deliveries[d].attempts + Open(deliveries[d]) + Cardinality(Doing(workers, Late, d))
              + JobLate(job, d) <= MaxAttempts + Cardinality(Workers)
      BY <2>1 DEF RowOK
    <2> QED
      BY <2>1, <2>2, <2>3, <2>4, MaxAttemptsAssumption
  <1> QED
    BY <1>1, Invariant, PTL

(* Slack takes a message at most once per counted attempt, although a      *)
(* worker can be lost between send_message and the write of its result.    *)
THEOREM PostsAreBounded == Spec => []PostsBounded
  <1>1. IInv => PostsBounded
    <2> SUFFICES ASSUME IInv, NEW d \in Deliveries PROVE posts[d] <= deliveries[d].attempts
      BY DEF PostsBounded
    <2>1. /\ posts[d] + Cardinality(Doing(workers, {"Claimed"}, d)) <= deliveries[d].attempts
          /\ deliveries[d].attempts \in Nat /\ posts[d] \in Nat
      BY RowTypes DEF IInv, RowsOK, RowOK, DeliveryRow
    <2>2. Cardinality(Doing(workers, {"Claimed"}, d)) \in Nat
      <3>1. Doing(workers, {"Claimed"}, d) \in SUBSET Workers
        BY DEF Doing
      <3> QED
        BY <3>1, Counts
    <2> QED
      BY <2>1, <2>2
  <1> QED
    BY <1>1, Invariant, PTL

(* However many workers dispatch an event together (create_deliveries), it *)
(* is processed only with a delivery for every connection still active.    *)
THEOREM SubscribersAreReached == Spec => []SubscribersReached
  <1>1. IInv => SubscribersReached
    BY DEF IInv
  <1> QED
    BY <1>1, Invariant, PTL

(* Unless the recovery task freed its claim, a delivery has one worker,    *)
(* which finds it as it left it; so nothing is written over a delivered    *)
(* one (mark_delivery_delivered, record_delivery_error).                   *)
THEOREM DeliveriesStay == Spec => DeliveredStays
  <1> DEFINE Stays == \A d \in Deliveries \ overtaken' :
                        deliveries[d].status = "DELIVERED" => deliveries'[d].status = "DELIVERED"
  <1>1. IInv /\ IInv' /\ [Next]_vars => [Stays]_vars
    <2> SUFFICES ASSUME IInv, Next, NEW d \in Deliveries \ overtaken',
                        deliveries[d].status = "DELIVERED"
                 PROVE  deliveries'[d].status = "DELIVERED"
      OBVIOUS
    <2>1. CASE Request
      BY <2>1 DEF Request, Stage, Publish, LosePublish, Revoke
    <2>2. CASE Time
      BY <2>2, TimeRows DEF IInv
    <2>3. CASE Beat
      <3>1. CASE RecoverCommit
        <4>1. d \notin job.deliveries \cup job.exhausted
          BY <3>1 DEF RecoverCommit, IInv, JobOK
        <4> QED
          BY <3>1, <4>1, CommitRows DEF IInv
      <3>2. CASE RecoverRead \/ RecoverPublish \/ RecoverCrash
        BY <3>2 DEF RecoverRead, RecoverPublish, RecoverCrash
      <3> QED
        BY <2>3, <3>1, <3>2 DEF Beat, Recover
    <2>4. ASSUME NEW w \in Workers, BrokerStep(w) \/ EventStep(w)
          PROVE  deliveries'[d].status = "DELIVERED"
      BY <2>4, BrokerType, EventType DEF IInv
    <2>5. ASSUME NEW w \in Workers, DeliveryStep(w)
          PROVE  deliveries'[d].status = "DELIVERED"
      <3>1. CASE workers[w].on # d
        BY <2>5, <3>1, DeliveryType DEF IInv
      <3>2. CASE workers[w].on = d
        <4>1. /\ Moves(deliveries[d], posts[d], workers[w].at, deliveries'[d], posts'[d],
                       workers'[w].at)
              /\ UNCHANGED overtaken
          BY <2>5, <3>2, DeliveryType DEF IInv
        <4>2. workers[w].at \in Holding
          BY <4>1 DEF Moves, Late, Holding
        <4>3. w \in Doing(workers, Holding, d)
          BY <3>2, <4>2 DEF Doing
        <4>4. deliveries[d].status = "DELIVERING"
          BY <4>1, <4>3 DEF IInv, RowsOK, RowOK
        <4> QED
          BY <4>4
      <3> QED
        BY <3>1, <3>2
    <2> QED
      BY <2>1, <2>2, <2>3, <2>4, <2>5, StepCases
  <1> QED
    BY <1>1, Invariant, PTL DEF Spec, DeliveredStays

================================================================================
