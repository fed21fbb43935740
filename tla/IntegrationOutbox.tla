--------------------------- MODULE IntegrationOutbox ---------------------------
(***************************************************************************)
(* Slack messages about decisions: a request stages an event in its own    *)
(* transaction, a dispatch task fans it out into one delivery per active   *)
(* connection, and a deliver task posts each (services/                    *)
(* integration_delivery, repositories/integration, and the integration     *)
(* tasks of workers/tasks).                                                *)
(*                                                                         *)
(* Claims lock the row; every later write is by primary key, whatever the  *)
(* row has become.  An error is recorded in a session of its own, which    *)
(* decides on what it read.  Beat frees claims that are five minutes old   *)
(* and enqueues everything that is ready.                                  *)
(***************************************************************************)
EXTENDS Naturals, FiniteSets

CONSTANTS
    Events, Connections, Workers,
    MaxAttempts,    \* integration_max_retries
    Faults,         \* the faults that happen, out of FaultKinds
    MaxFaults       \* a bound on how many happen

FaultKinds == {"Crash", "Reconnect", "LostPublish", "SkipLocked", "Error"}

ASSUME MaxAttemptsAssumption == MaxAttempts \in Nat \ {0}
ASSUME WorkersAssumption == IsFiniteSet(Workers)
ASSUME FaultsAssumption == Faults \subseteq FaultKinds /\ MaxFaults \in Nat

(* A delivery is unique for its event and connection. *)
Deliveries == Events \X Connections

(* Events and deliveries are rows of different tables. *)
ASSUME EventsAssumption == Events \cap Deliveries = {}

VARIABLES
    outbox,      \* integration_outbox_events
    deliveries,  \* integration_deliveries
    connected,   \* the active connections
    publishing,  \* staged by a request that is about to enqueue them
    queue,       \* integrations.events
    workers,     \* what each worker is doing
    job,         \* what the recovery task is doing
    posts,       \* how often Slack took each delivery
    overtaken,   \* deliveries whose claim was freed by the recovery task
    faults       \* how many faults happened

vars == <<outbox, deliveries, connected, publishing, queue, workers, job, posts, overtaken,
          faults>>

--------------------------------------------------------------------------------
OutboxStatuses == {"PENDING", "PROCESSING", "PROCESSED", "FAILED"}

DeliveryStatuses == {"PENDING", "DELIVERING", "RETRY_SCHEDULED", "DELIVERED", "FAILED"}

(* waiting: available_at or next_retry_at has not come; stale: updated_at  *)
(* is more than five minutes ago.                                          *)
New == [status |-> "NONE", attempts |-> 0, waiting |-> FALSE, stale |-> FALSE]

(* The status, the wait and updated_at are written together. *)
Set(row, status, waiting) == [row EXCEPT !.status = status, !.waiting = waiting, !.stale = FALSE]

Claimed(row, status) == [Set(row, status, FALSE) EXCEPT !.attempts = @ + 1]

(* retries is Celery's request.retries.  Identical copies count as one:    *)
(* while a row is ready the recovery task adds others.                     *)
Message == [on: Events \cup Deliveries, retries: 0..MaxAttempts - 1]

First(item) == [on |-> item, retries |-> 0]

Steps == {"Received", "Claimed", "FannedOut", "Publish", "Posted", "Failing",
          "MarkFailed", "Postpone", "GiveUp", "Retry"}

Free == [at |-> "Free"]

(* targets are the connections without a delivery that the dispatch read;  *)
(* last says that the error path read a row without attempts left.         *)
Worker == {Free} \cup
          [at: Steps, on: Events \cup Deliveries, retries: 0..MaxAttempts - 1,
           targets: SUBSET Connections, last: BOOLEAN]

Idle == [at |-> "Idle"]

(* What the recovery task read: stale rows, and those without attempts left. *)
Job == {Idle, [at |-> "List"]} \cup
       [at: {"Commit"}, events: SUBSET Events, deliveries: SUBSET Deliveries,
        exhausted: SUBSET Deliveries]

(* Seeded fault: the claim of an event does not look at its attempts. *)
OutboxReadyUnbounded(row) == row.status \in {"PENDING", "FAILED"} /\ ~row.waiting

(* The WHERE clause of claim_outbox_event and list_ready_outbox_events. *)
OutboxReady(row) ==
    /\ row.status \in {"PENDING", "FAILED"}
    /\ ~row.waiting
    /\ row.attempts < MaxAttempts

(* Seeded fault: a delivery under way can be claimed. *)
ClaimableAnyway(row) ==
    row.status \in {"PENDING", "RETRY_SCHEDULED", "DELIVERING"} /\ ~row.waiting

(* The WHERE clause of claim_delivery, which does not look at attempts. *)
Claimable(row) == row.status \in {"PENDING", "RETRY_SCHEDULED"} /\ ~row.waiting

(* Seeded fault: the recovery lists only retries. *)
DeliveryReadyRetries(row) ==
    /\ row.status = "RETRY_SCHEDULED" /\ ~row.waiting
    /\ row.attempts < MaxAttempts

(* The WHERE clause of list_ready_deliveries. *)
DeliveryReady(row) == Claimable(row) /\ row.attempts < MaxAttempts

Init ==
    /\ outbox = [e \in Events |-> New]
    /\ deliveries = [d \in Deliveries |-> New]
    /\ connected = Connections
    /\ publishing = {}
    /\ queue = {}
    /\ workers = [w \in Workers |-> Free]
    /\ job = Idle
    /\ posts = [d \in Deliveries |-> 0]
    /\ overtaken = {}
    /\ faults = 0

Fault(kind) ==
    /\ kind \in Faults
    /\ faults < MaxFaults
    /\ faults' = faults + 1

Proceed(w, step) == workers' = [workers EXCEPT ![w].at = step]

(* The task ends and its message is acknowledged. *)
Acknowledge(w) == workers' = [workers EXCEPT ![w] = Free]

--------------------------------------------------------------------------------
(* Requests.                                                               *)

(* stage_outbox_event, in the transaction of the decision's change. *)
Stage(e) ==
    /\ outbox[e].status = "NONE"
    /\ outbox' = [outbox EXCEPT ![e].status = "PENDING"]
    /\ publishing' = publishing \cup {e}
    /\ UNCHANGED <<deliveries, connected, queue, workers, job, posts, overtaken, faults>>

Publish(e) ==
    /\ e \in publishing
    /\ publishing' = publishing \ {e}
    /\ queue' = queue \cup {First(e)}
    /\ UNCHANGED <<outbox, deliveries, connected, workers, job, posts, overtaken, faults>>

(* The broker refuses the message, which is logged, or the process dies. *)
LosePublish(e) ==
    /\ e \in publishing
    /\ Fault("LostPublish")
    /\ publishing' = publishing \ {e}
    /\ UNCHANGED <<outbox, deliveries, connected, queue, workers, job, posts, overtaken>>

(* mark_revoked *)
Revoke(c) ==
    /\ c \in connected
    /\ connected' = connected \ {c}
    /\ UNCHANGED <<outbox, deliveries, publishing, queue, workers, job, posts, overtaken, faults>>

--------------------------------------------------------------------------------
(* Time.                                                                   *)

Elapse(i) ==
    /\ \/ /\ i \in Events /\ outbox[i].waiting
          /\ outbox' = [outbox EXCEPT ![i].waiting = FALSE]
          /\ UNCHANGED deliveries
       \/ /\ i \in Deliveries /\ deliveries[i].waiting
          /\ deliveries' = [deliveries EXCEPT ![i].waiting = FALSE]
          /\ UNCHANGED outbox
    /\ UNCHANGED <<connected, publishing, queue, workers, job, posts, overtaken, faults>>

Stall(i) ==
    /\ \/ /\ i \in Events /\ outbox[i].status = "PROCESSING" /\ ~outbox[i].stale
          /\ outbox' = [outbox EXCEPT ![i].stale = TRUE]
          /\ UNCHANGED deliveries
       \/ /\ i \in Deliveries /\ deliveries[i].status = "DELIVERING" /\ ~deliveries[i].stale
          /\ deliveries' = [deliveries EXCEPT ![i].stale = TRUE]
          /\ UNCHANGED outbox
    /\ UNCHANGED <<connected, publishing, queue, workers, job, posts, overtaken, faults>>

--------------------------------------------------------------------------------
(* Workers: the broker.                                                    *)

Receive(w, m) ==
    /\ workers[w] = Free
    /\ m \in queue
    /\ queue' = queue \ {m}
    /\ workers' = [workers EXCEPT ![w] =
          [at |-> "Received", on |-> m.on, retries |-> m.retries, targets |-> {}, last |-> FALSE]]
    /\ UNCHANGED <<outbox, deliveries, connected, publishing, job, posts, overtaken, faults>>

Ready(item) == IF item \in Events THEN OutboxReady(outbox[item]) ELSE Claimable(deliveries[item])

(* The claim finds no row, or SKIP LOCKED passes over one that another     *)
(* transaction holds.                                                      *)
Ignore(w) ==
    /\ workers[w].at = "Received"
    /\ IF Ready(workers[w].on) THEN Fault("SkipLocked") ELSE UNCHANGED faults
    /\ Acknowledge(w)
    /\ UNCHANGED <<outbox, deliveries, connected, publishing, queue, job, posts, overtaken>>

(* self.retry publishes a copy while it may retry, and raises the error    *)
(* otherwise.                                                              *)
Retry(w) ==
    LET again == [on |-> workers[w].on, retries |-> workers[w].retries + 1] IN
    /\ workers[w].at = "Retry"
    /\ queue' = IF again \in Message THEN queue \cup {again} ELSE queue
    /\ Acknowledge(w)
    /\ UNCHANGED <<outbox, deliveries, connected, publishing, job, posts, overtaken, faults>>

LoseRetry(w) ==
    /\ workers[w].at = "Retry"
    /\ Fault("LostPublish")
    /\ Acknowledge(w)
    /\ UNCHANGED <<outbox, deliveries, connected, publishing, queue, job, posts, overtaken>>

(* The error cannot be recorded: the task ends with that second error. *)
RecordFails(w) ==
    /\ workers[w].at \in {"Failing", "MarkFailed", "Postpone", "GiveUp"}
    /\ Fault("Error")
    /\ Acknowledge(w)
    /\ UNCHANGED <<outbox, deliveries, connected, publishing, queue, job, posts, overtaken>>

(* The message of a lost worker, or of a lost connection, comes back. *)
Crash(w) ==
    /\ workers[w] # Free
    /\ Fault("Crash")
    /\ queue' = queue \cup {[on |-> workers[w].on, retries |-> workers[w].retries]}
    /\ Acknowledge(w)
    /\ UNCHANGED <<outbox, deliveries, connected, publishing, job, posts, overtaken>>

Reconnect(w) ==
    /\ workers[w] # Free
    /\ Fault("Reconnect")
    /\ queue' = queue \cup {[on |-> workers[w].on, retries |-> workers[w].retries]}
    /\ UNCHANGED <<outbox, deliveries, connected, publishing, workers, job, posts, overtaken>>

--------------------------------------------------------------------------------
(* Workers: the task dispatch_integration_event.                           *)

ClaimEvent(w) ==
    LET e == workers[w].on IN
    /\ workers[w].at = "Received" /\ e \in Events
    /\ OutboxReady(outbox[e])
    /\ outbox' = [outbox EXCEPT ![e] = Claimed(@, "PROCESSING")]
    /\ Proceed(w, "Claimed")
    /\ UNCHANGED <<deliveries, connected, publishing, queue, job, posts, overtaken, faults>>

(* create_deliveries reads the subscriptions of active connections and the *)
(* deliveries that exist.                                                  *)
FanOut(w) ==
    LET e == workers[w].on IN
    /\ workers[w].at = "Claimed" /\ e \in Events
    /\ workers' = [workers EXCEPT ![w].at = "FannedOut",
          ![w].targets = {c \in connected : deliveries[<<e, c>>].status = "NONE"}]
    /\ UNCHANGED <<outbox, deliveries, connected, publishing, queue, job, posts, overtaken,
                   faults>>

(* Seeded fault: the event is committed as processed before its deliveries. *)
CommitFanOutEarly(w) ==
    LET e == workers[w].on IN
    /\ workers[w].at = "FannedOut"
    /\ outbox' = [outbox EXCEPT ![e] = Set(@, "PROCESSED", @.waiting)]
    /\ Proceed(w, "Publish")
    /\ UNCHANGED <<deliveries, connected, publishing, queue, job, posts, overtaken, faults>>

(* The deliveries and the processed event are one commit, which the unique *)
(* constraint refuses when another worker was faster.                      *)
CommitFanOut(w) ==
    LET e == workers[w].on
        new == {<<e, c>> : c \in workers[w].targets}
    IN
    /\ workers[w].at = "FannedOut"
    /\ IF \E d \in new : deliveries[d].status # "NONE"
       THEN Proceed(w, "Failing") /\ UNCHANGED <<outbox, deliveries>>
       ELSE /\ deliveries' = [d \in Deliveries |->
                  IF d \in new THEN [deliveries[d] EXCEPT !.status = "PENDING"] ELSE deliveries[d]]
            /\ outbox' = [outbox EXCEPT ![e] = Set(@, "PROCESSED", @.waiting)]
            /\ Proceed(w, "Publish")
    /\ UNCHANGED <<connected, publishing, queue, job, posts, overtaken, faults>>

(* The database fails while the event is dispatched. *)
DispatchFails(w) ==
    /\ workers[w].at \in {"Claimed", "FannedOut"} /\ workers[w].on \in Events
    /\ Fault("Error")
    /\ Proceed(w, "Failing")
    /\ UNCHANGED <<outbox, deliveries, connected, publishing, queue, job, posts, overtaken>>

PublishDeliveries(w) ==
    /\ workers[w].at = "Publish"
    /\ \/ /\ queue' = queue \cup {First(<<workers[w].on, c>>) : c \in workers[w].targets}
          /\ UNCHANGED faults
       \/ UNCHANGED queue /\ Fault("LostPublish")
    /\ Acknowledge(w)
    /\ UNCHANGED <<outbox, deliveries, connected, publishing, job, posts, overtaken>>

(* record_outbox_error reads the event; one that it finds processed is not *)
(* written, and a status that it finds failed already is not.              *)
ReadEventError(w) ==
    LET e == workers[w].on
        last == outbox[e].attempts >= MaxAttempts
    IN
    /\ workers[w].at = "Failing" /\ e \in Events
    /\ IF outbox[e].status = "PROCESSED" /\ last THEN Acknowledge(w)
       ELSE workers' = [workers EXCEPT ![w].last = last,
              ![w].at = CASE outbox[e].status = "PROCESSED" -> "Retry"
                          [] outbox[e].status = "FAILED" -> "Postpone"
                          [] OTHER -> "MarkFailed"]
    /\ UNCHANGED <<outbox, deliveries, connected, publishing, queue, job, posts, overtaken,
                   faults>>

(* mark_outbox_failed; without attempts left the message is rejected. *)
MarkOutboxFailed(w) ==
    LET e == workers[w].on IN
    /\ workers[w].at \in {"MarkFailed", "Postpone"} /\ e \in Events
    /\ outbox' = [outbox EXCEPT ![e] =
          Set(@, IF workers[w].at = "MarkFailed" THEN "FAILED" ELSE @.status, TRUE)]
    /\ IF workers[w].last THEN Acknowledge(w) ELSE Proceed(w, "Retry")
    /\ UNCHANGED <<deliveries, connected, publishing, queue, job, posts, overtaken, faults>>

--------------------------------------------------------------------------------
(* Workers: the task deliver_integration_event.                            *)

ClaimDelivery(w) ==
    LET d == workers[w].on IN
    /\ workers[w].at = "Received" /\ d \in Deliveries
    /\ Claimable(deliveries[d])
    /\ deliveries' = [deliveries EXCEPT ![d] = Claimed(@, "DELIVERING")]
    /\ Proceed(w, "Claimed")
    /\ UNCHANGED <<outbox, connected, publishing, queue, job, posts, overtaken, faults>>

(* deliver raises an error when the connection is no longer active. *)
Refuse(w) ==
    LET d == workers[w].on IN
    /\ workers[w].at = "Claimed" /\ d \in Deliveries
    /\ d[2] \notin connected
    /\ Proceed(w, "Failing")
    /\ UNCHANGED <<outbox, deliveries, connected, publishing, queue, job, posts, overtaken,
                   faults>>

(* send_message; Slack may have taken the message before it failed. *)
Post(w) ==
    LET d == workers[w].on IN
    /\ workers[w].at = "Claimed" /\ d \in Deliveries
    /\ d[2] \in connected
    /\ \/ posts' = [posts EXCEPT ![d] = @ + 1] /\ Proceed(w, "Posted")
       \/ \E taken \in 0..1 : posts' = [posts EXCEPT ![d] = @ + taken] /\ Proceed(w, "Failing")
    /\ UNCHANGED <<outbox, deliveries, connected, publishing, queue, job, overtaken, faults>>

(* mark_delivery_delivered writes over whatever the row has become. *)
MarkDelivered(w) ==
    LET d == workers[w].on IN
    /\ workers[w].at = "Posted"
    /\ deliveries' = [deliveries EXCEPT ![d] = Set(@, "DELIVERED", @.waiting)]
    /\ Acknowledge(w)
    /\ UNCHANGED <<outbox, connected, publishing, queue, job, posts, overtaken, faults>>

(* Seeded fault: the error path retries for ever. *)
ReadDeliveryErrorUnbounded(w) ==
    LET d == workers[w].on IN
    /\ workers[w].at = "Failing" /\ d \in Deliveries
    /\ Proceed(w, "MarkFailed")
    /\ UNCHANGED <<outbox, deliveries, connected, publishing, queue, job, posts, overtaken,
                   faults>>

(* record_delivery_error reads the delivery; one that it finds delivered   *)
(* is not written, and a status that is already what it would write is not. *)
ReadDeliveryError(w) ==
    LET d == workers[w].on
        status == deliveries[d].status
    IN
    /\ workers[w].at = "Failing" /\ d \in Deliveries
    /\ IF deliveries[d].attempts >= MaxAttempts
       THEN IF status \in {"DELIVERED", "FAILED"} THEN Acknowledge(w) ELSE Proceed(w, "GiveUp")
       ELSE Proceed(w, CASE status = "DELIVERED" -> "Retry"
                         [] status = "RETRY_SCHEDULED" -> "Postpone"
                         [] OTHER -> "MarkFailed")
    /\ UNCHANGED <<outbox, deliveries, connected, publishing, queue, job, posts, overtaken,
                   faults>>

(* schedule_delivery_retry *)
ScheduleRetry(w) ==
    LET d == workers[w].on IN
    /\ workers[w].at \in {"MarkFailed", "Postpone"} /\ d \in Deliveries
    /\ deliveries' = [deliveries EXCEPT ![d] =
          Set(@, IF workers[w].at = "MarkFailed" THEN "RETRY_SCHEDULED" ELSE @.status, TRUE)]
    /\ Proceed(w, "Retry")
    /\ UNCHANGED <<outbox, connected, publishing, queue, job, posts, overtaken, faults>>

(* mark_delivery_failed, then the message is rejected. *)
GiveUp(w) ==
    /\ workers[w].at = "GiveUp"
    /\ deliveries' = [deliveries EXCEPT ![workers[w].on] = Set(@, "FAILED", FALSE)]
    /\ Acknowledge(w)
    /\ UNCHANGED <<outbox, connected, publishing, queue, job, posts, overtaken, faults>>

--------------------------------------------------------------------------------
(* Beat: the task recover_integration_events.                              *)

StaleEvents == {e \in Events : outbox[e].status = "PROCESSING" /\ outbox[e].stale}

StaleDeliveries == {d \in Deliveries : deliveries[d].status = "DELIVERING" /\ deliveries[d].stale}

Listed == {First(e) : e \in {x \in Events : OutboxReady(outbox[x])}} \cup
          {First(d) : d \in {x \in Deliveries : DeliveryReady(deliveries[x])}}

(* A run that would find nothing is left out.  Without stale claims        *)
(* nothing is committed.                                                   *)
RecoverRead ==
    /\ job = Idle
    /\ StaleEvents # {} \/ StaleDeliveries # {} \/ ~(Listed \subseteq queue)
    /\ job' = IF StaleEvents = {} /\ StaleDeliveries = {} THEN [at |-> "List"]
              ELSE [at |-> "Commit", events |-> StaleEvents, deliveries |-> StaleDeliveries,
                    exhausted |-> {d \in StaleDeliveries :
                                     deliveries[d].attempts >= MaxAttempts}]
    /\ UNCHANGED <<outbox, deliveries, connected, publishing, queue, workers, posts, overtaken,
                   faults>>

(* Seeded fault: a recovered delivery starts over. *)
RecoverCommitAfresh ==
    /\ job.at = "Commit"
    /\ outbox' = [e \in Events |->
          IF e \in job.events THEN Set(outbox[e], "FAILED", FALSE) ELSE outbox[e]]
    /\ deliveries' = [d \in Deliveries |->
          IF d \in job.deliveries THEN [New EXCEPT !.status = "RETRY_SCHEDULED"]
          ELSE deliveries[d]]
    /\ overtaken' = overtaken \cup job.deliveries
    /\ job' = [at |-> "List"]
    /\ UNCHANGED <<connected, publishing, queue, workers, posts, faults>>

(* recover_stale_claims writes what it read, whatever the rows have become. *)
RecoverCommit ==
    /\ job.at = "Commit"
    /\ outbox' = [e \in Events |->
          IF e \in job.events THEN Set(outbox[e], "FAILED", FALSE) ELSE outbox[e]]
    /\ deliveries' = [d \in Deliveries |->
          IF d \in job.exhausted THEN Set(deliveries[d], "FAILED", FALSE)
          ELSE IF d \in job.deliveries THEN Set(deliveries[d], "RETRY_SCHEDULED", FALSE)
          ELSE deliveries[d]]
    /\ overtaken' = overtaken \cup job.deliveries
    /\ job' = [at |-> "List"]
    /\ UNCHANGED <<connected, publishing, queue, workers, posts, faults>>

(* list_ready_outbox_events and list_ready_deliveries, each enqueued. *)
RecoverPublish ==
    /\ job.at = "List"
    /\ \/ queue' = queue \cup Listed /\ UNCHANGED faults
       \/ UNCHANGED queue /\ Fault("LostPublish")
    /\ job' = Idle
    /\ UNCHANGED <<outbox, deliveries, connected, publishing, workers, posts, overtaken>>

RecoverCrash ==
    /\ job # Idle
    /\ Fault("Crash")
    /\ job' = Idle
    /\ UNCHANGED <<outbox, deliveries, connected, publishing, queue, workers, posts, overtaken>>

--------------------------------------------------------------------------------
TaskStep(w) ==
    \/ \E m \in Message : Receive(w, m)
    \/ Ignore(w) \/ Retry(w)
    \/ ClaimEvent(w) \/ FanOut(w) \/ CommitFanOut(w) \/ PublishDeliveries(w)
    \/ ReadEventError(w) \/ MarkOutboxFailed(w)
    \/ ClaimDelivery(w) \/ Refuse(w) \/ Post(w) \/ MarkDelivered(w)
    \/ ReadDeliveryError(w) \/ ScheduleRetry(w) \/ GiveUp(w)

Recover == RecoverRead \/ RecoverCommit \/ RecoverPublish

Next ==
    \/ \E e \in Events : Stage(e) \/ Publish(e) \/ LosePublish(e)
    \/ \E c \in Connections : Revoke(c)
    \/ \E i \in Events \cup Deliveries : Elapse(i) \/ Stall(i)
    \/ \E w \in Workers :
        \/ TaskStep(w)
        \/ DispatchFails(w) \/ RecordFails(w) \/ LoseRetry(w) \/ Crash(w) \/ Reconnect(w)
    \/ Recover \/ RecoverCrash

Spec == Init /\ [][Next]_vars

(* Workers keep taking messages and finishing tasks, Beat keeps running    *)
(* the recovery every minute, and time passes.  Nothing is promised of     *)
(* requests, publications, faults and slow tasks.                          *)
Fairness ==
    /\ \A w \in Workers : WF_vars(TaskStep(w))
    /\ \A i \in Events \cup Deliveries : WF_vars(Elapse(i)) /\ WF_vars(Stall(i))
    /\ WF_vars(Recover)

FairSpec == Spec /\ Fairness

--------------------------------------------------------------------------------
(* Rows, messages and tasks are well formed; the claim of an event keeps   *)
(* its attempts below the limit.                                           *)
TypeOK ==
    /\ outbox \in [Events -> [status: OutboxStatuses \cup {"NONE"}, attempts: 0..MaxAttempts,
                             waiting: BOOLEAN, stale: BOOLEAN]]
    /\ deliveries \in [Deliveries -> [status: DeliveryStatuses \cup {"NONE"}, attempts: Nat,
                                     waiting: BOOLEAN, stale: BOOLEAN]]
    /\ connected \subseteq Connections
    /\ publishing \subseteq Events
    /\ queue \subseteq Message
    /\ workers \in [Workers -> Worker]
    /\ job \in Job
    /\ posts \in [Deliveries -> Nat]
    /\ overtaken \subseteq Deliveries
    /\ faults \in 0..MaxFaults

(* The claim of a delivery does not look at its attempts, and late errors  *)
(* schedule retries of exhausted deliveries; still each worker, and the    *)
(* recovery task, can add one attempt only.                                *)
AttemptsBounded ==
    \A d \in Deliveries : deliveries[d].attempts <= MaxAttempts + Cardinality(Workers)

(* Slack takes a message at most once per counted attempt. *)
PostsBounded == \A d \in Deliveries : posts[d] <= deliveries[d].attempts

(* A processed event has a delivery for every connection that was active   *)
(* throughout, although several workers may have fanned it out.            *)
SubscribersReached ==
    \A e \in Events, c \in connected :
        outbox[e].status = "PROCESSED" => deliveries[<<e, c>>].status # "NONE"

(* A delivered message is never sent again unless the recovery task freed  *)
(* a claim of it that was still being worked on.                           *)
DeliveredStays ==
    [][\A d \in Deliveries \ overtaken' :
        deliveries[d].status = "DELIVERED" => deliveries'[d].status = "DELIVERED"]_vars

(* Nothing is left to do for a row.  A retry scheduled when no attempts    *)
(* are left is not listed by the recovery task and may stay so.            *)
EventSettled(row) ==
    \/ row.status \in {"NONE", "PROCESSED"}
    \/ row.status = "FAILED" /\ row.attempts >= MaxAttempts

DeliverySettled(row) ==
    \/ row.status \in {"NONE", "DELIVERED", "FAILED"}
    \/ row.status = "RETRY_SCHEDULED" /\ row.attempts >= MaxAttempts

(* README: "Celery Beat recovers work left pending after broker or worker  *)
(* interruptions every minute": whatever was lost, everything settles.     *)
EverythingSettles ==
    <>[](/\ \A e \in Events : EventSettled(outbox[e])
         /\ \A d \in Deliveries : DeliverySettled(deliveries[d]))

================================================================================
