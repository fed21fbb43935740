-------------------------- MODULE NotificationDelivery --------------------------
(***************************************************************************)
(* Reminder emails: Celery Beat discovers what is due and inserts a row,   *)
(* RabbitMQ carries its identity, and Celery workers claim, send and       *)
(* record (services/notification, repositories/notification and the        *)
(* notification tasks of workers/tasks).                                   *)
(*                                                                         *)
(* A message is acknowledged when its task ends (acks_late), also when the *)
(* task fails, and goes back to the queue when its worker is lost.  Claims *)
(* are one transaction under SELECT FOR UPDATE SKIP LOCKED; every other    *)
(* write follows a read in an earlier statement.  Workers are external to  *)
(* each other: only the row and the queue relate them.                     *)
(***************************************************************************)
EXTENDS Naturals, FiniteSets

CONSTANTS
    Notifications,  \* reminders: kind, source, recipient and due time
    Workers,
    MaxAttempts,    \* notification_max_delivery_attempts
    Faults,         \* the faults that happen, out of FaultKinds
    MaxFaults       \* a bound on how many happen

FaultKinds == {"Crash", "Reconnect", "LostPublish", "SkipLocked"}

ASSUME MaxAttemptsAssumption == MaxAttempts \in Nat \ {0}
ASSUME WorkersAssumption == IsFiniteSet(Workers)
ASSUME FaultsAssumption == Faults \subseteq FaultKinds /\ MaxFaults \in Nat

VARIABLES
    rows,        \* notifications
    publishing,  \* committed by a scheduler task that is about to enqueue them
    queue,       \* notifications.email: how many copies of each message
    workers,     \* what each worker is doing
    emails,      \* how often the mail server took the reminder
    reachable,   \* reminders whose recipient is an active user
    waited,      \* attempts whose retry countdown has passed
    stalled,     \* attempts claimed more than ten minutes ago
    faults       \* how many faults happened

vars == <<rows, publishing, queue, workers, emails, reachable, waited, stalled, faults>>

--------------------------------------------------------------------------------
Attempts == 1..MaxAttempts

Statuses == {"PENDING", "DELIVERING", "RETRY_SCHEDULED", "DELIVERED", "FAILED"}

(* available_at is now for wait 0, and when the countdown of that attempt  *)
(* has passed otherwise.  delivered and failed say whether the timestamp   *)
(* is set; delivery_started_at is set exactly while the row is DELIVERING, *)
(* by the claim of the attempt it counts.                                  *)
Row == [status: Statuses \cup {"NONE"}, attempts: 0..MaxAttempts, wait: 0..MaxAttempts,
        delivered: BOOLEAN, failed: BOOLEAN]

(* retries is Celery's request.retries; wait is the countdown it was       *)
(* published with.                                                         *)
Message == [retries: 0..MaxAttempts - 1, wait: 0..MaxAttempts]

First == [retries |-> 0, wait |-> 0]

(* What a task does between two statements of deliver_notification. *)
Steps == {"Received", "Claimed", "Sent", "Failing", "Reschedule", "RescheduleAgain", "GiveUp",
          "Retry"}

Free == [at |-> "Free"]

Worker == {Free} \cup
          [at: Steps, on: Notifications, msg: Message, attempt: 0..MaxAttempts]

Passed(n) == waited[n] \cup {0}

(* Seeded fault: a delivery under way can be claimed. *)
ClaimableAnyway(row, passed) ==
    /\ row.status \in {"PENDING", "RETRY_SCHEDULED", "DELIVERING"}
    /\ row.wait \in passed
    /\ row.attempts < MaxAttempts

(* Seeded fault: the claim does not look at the count of attempts. *)
ClaimableUnbounded(row, passed) ==
    /\ row.status \in {"PENDING", "RETRY_SCHEDULED"}
    /\ row.wait \in passed

(* The WHERE clause of claim_for_delivery. *)
Claimable(row, passed) ==
    /\ row.status \in {"PENDING", "RETRY_SCHEDULED"}
    /\ row.wait \in passed
    /\ row.attempts < MaxAttempts

(* Seeded fault: the migration never created the constraint. *)
TerminalCheckMissing(row) == TRUE

(* ck_notifications_terminal_state *)
TerminalCheck(row) ==
    /\ row.delivered <=> row.status = "DELIVERED"
    /\ row.failed <=> row.status = "FAILED"

Init ==
    /\ rows = [n \in Notifications |->
          [status |-> "NONE", attempts |-> 0, wait |-> 0, delivered |-> FALSE,
           failed |-> FALSE]]
    /\ publishing = {}
    /\ queue = [n \in Notifications |-> [m \in Message |-> 0]]
    /\ workers = [w \in Workers |-> Free]
    /\ emails = [n \in Notifications |-> 0]
    /\ reachable \in SUBSET Notifications
    /\ waited = [n \in Notifications |-> {}]
    /\ stalled = [n \in Notifications |-> {}]
    /\ faults = 0

Fault(kind) ==
    /\ kind \in Faults
    /\ faults < MaxFaults
    /\ faults' = faults + 1

Enqueue(n, m) == queue' = [queue EXCEPT ![n][m] = @ + 1]

Proceed(w, step) == workers' = [workers EXCEPT ![w].at = step]

(* The task ends and its message is acknowledged. *)
Acknowledge(w) == workers' = [workers EXCEPT ![w] = Free]

--------------------------------------------------------------------------------
(* Beat: ReminderDiscoveryService.                                         *)

(* create_candidate inserts unless the idempotency key exists; only an     *)
(* inserted row is enqueued, after the commit.                             *)
Discover(n) ==
    /\ rows[n].status = "NONE"
    /\ rows' = [rows EXCEPT ![n].status = "PENDING"]
    /\ publishing' = publishing \cup {n}
    /\ UNCHANGED <<queue, workers, emails, reachable, waited, stalled, faults>>

Publish(n) ==
    /\ n \in publishing
    /\ publishing' = publishing \ {n}
    /\ Enqueue(n, First)
    /\ UNCHANGED <<rows, workers, emails, reachable, waited, stalled, faults>>

(* The broker refuses the message or the scheduler dies before it is sent. *)
LosePublish(n) ==
    /\ n \in publishing
    /\ Fault("LostPublish")
    /\ publishing' = publishing \ {n}
    /\ UNCHANGED <<rows, queue, workers, emails, reachable, waited, stalled>>

Stale(n) ==
    /\ rows[n].status = "DELIVERING"
    /\ rows[n].attempts \in stalled[n]
    /\ rows[n].attempts < MaxAttempts

(* Seeded fault: a recovered delivery starts over. *)
RecoverAfresh ==
    /\ \E n \in Notifications : Stale(n)
    /\ rows' = [n \in Notifications |->
          IF Stale(n) THEN [rows[n] EXCEPT !.status = "RETRY_SCHEDULED", !.wait = 0,
                                           !.attempts = 0] ELSE rows[n]]
    /\ publishing' = publishing \cup {n \in Notifications : Stale(n)}
    /\ UNCHANGED <<queue, workers, emails, reachable, waited, stalled, faults>>

(* recover_stale: one UPDATE frees every expired lease, then each row is   *)
(* enqueued.                                                               *)
Recover ==
    /\ \E n \in Notifications : Stale(n)
    /\ rows' = [n \in Notifications |->
          IF Stale(n) THEN [rows[n] EXCEPT !.status = "RETRY_SCHEDULED", !.wait = 0]
          ELSE rows[n]]
    /\ publishing' = publishing \cup {n \in Notifications : Stale(n)}
    /\ UNCHANGED <<queue, workers, emails, reachable, waited, stalled, faults>>

--------------------------------------------------------------------------------
(* Time.                                                                   *)

Wait(n, a) ==
    /\ a \notin Passed(n)
    /\ rows[n].wait = a \/ \E m \in Message : m.wait = a /\ queue[n][m] > 0
    /\ waited' = [waited EXCEPT ![n] = @ \cup {a}]
    /\ UNCHANGED <<rows, publishing, queue, workers, emails, reachable, stalled, faults>>

Stall(n) ==
    /\ rows[n].status = "DELIVERING"
    /\ rows[n].attempts \notin stalled[n]
    /\ stalled' = [stalled EXCEPT ![n] = @ \cup {rows[n].attempts}]
    /\ UNCHANGED <<rows, publishing, queue, workers, emails, reachable, waited, faults>>

--------------------------------------------------------------------------------
(* The task deliver_notification.                                          *)

Receive(w, n, m) ==
    /\ workers[w] = Free
    /\ queue[n][m] > 0
    /\ m.wait \in Passed(n)
    /\ queue' = [queue EXCEPT ![n][m] = @ - 1]
    /\ workers' = [workers EXCEPT ![w] =
          [at |-> "Received", on |-> n, msg |-> m, attempt |-> 0]]
    /\ UNCHANGED <<rows, publishing, emails, reachable, waited, stalled, faults>>

Claim(w) ==
    LET n == workers[w].on IN
    /\ workers[w].at = "Received"
    /\ Claimable(rows[n], Passed(n))
    /\ rows' = [rows EXCEPT ![n].status = "DELIVERING", ![n].attempts = @ + 1]
    /\ workers' = [workers EXCEPT ![w].at = "Claimed", ![w].attempt = rows[n].attempts + 1]
    /\ UNCHANGED <<publishing, queue, emails, reachable, waited, stalled, faults>>

Ignore(w) ==
    /\ workers[w].at = "Received"
    /\ ~Claimable(rows[workers[w].on], Passed(workers[w].on))
    /\ Acknowledge(w)
    /\ UNCHANGED <<rows, publishing, queue, emails, reachable, waited, stalled, faults>>

(* The row is being updated, say by mark_all_read: SKIP LOCKED passes over *)
(* it and the message is acknowledged.                                     *)
SkipLocked(w) ==
    /\ workers[w].at = "Received"
    /\ Claimable(rows[workers[w].on], Passed(workers[w].on))
    /\ Fault("SkipLocked")
    /\ Acknowledge(w)
    /\ UNCHANGED <<rows, publishing, queue, emails, reachable, waited, stalled>>

(* An UPDATE of the row by worker w, refused when it breaks the constraint. *)
Write(n, new) == rows' = IF TerminalCheck(new) THEN [rows EXCEPT ![n] = new] ELSE rows

Failed(n) == [rows[n] EXCEPT !.status = "FAILED", !.failed = TRUE]

(* Seeded fault: an unavailable recipient counts as delivered. *)
MarkUnavailableDelivered(w) ==
    /\ workers[w].at = "Claimed"
    /\ workers[w].on \notin reachable
    /\ Write(workers[w].on, [rows[workers[w].on] EXCEPT !.status = "DELIVERED",
                                                       !.delivered = TRUE])
    /\ Acknowledge(w)
    /\ UNCHANGED <<publishing, queue, emails, reachable, waited, stalled, faults>>

MarkUnavailable(w) ==
    /\ workers[w].at = "Claimed"
    /\ workers[w].on \notin reachable
    /\ Write(workers[w].on, Failed(workers[w].on))
    /\ Acknowledge(w)
    /\ UNCHANGED <<publishing, queue, emails, reachable, waited, stalled, faults>>

Send(w) ==
    /\ workers[w].at = "Claimed"
    /\ workers[w].on \in reachable
    /\ emails' = [emails EXCEPT ![workers[w].on] = @ + 1]
    /\ Proceed(w, "Sent")
    /\ UNCHANGED <<rows, publishing, queue, reachable, waited, stalled, faults>>

(* The mail server may have taken the email before the connection failed. *)
SendFails(w) ==
    /\ workers[w].at = "Claimed"
    /\ workers[w].on \in reachable
    /\ \E taken \in 0..1 : emails' = [emails EXCEPT ![workers[w].on] = @ + taken]
    /\ Proceed(w, "Failing")
    /\ UNCHANGED <<rows, publishing, queue, reachable, waited, stalled, faults>>

(* A refused UPDATE is an error of the send, which _record_retry handles. *)
MarkDelivered(w) ==
    LET new == [rows[workers[w].on] EXCEPT !.status = "DELIVERED", !.delivered = TRUE] IN
    /\ workers[w].at = "Sent"
    /\ Write(workers[w].on, new)
    /\ IF TerminalCheck(new) THEN Acknowledge(w) ELSE Proceed(w, "Failing")
    /\ UNCHANGED <<publishing, queue, emails, reachable, waited, stalled, faults>>

(* Seeded fault: the last attempt is not counted. *)
ReadForRetryEarly(w) ==
    /\ workers[w].at = "Failing"
    /\ Proceed(w, IF rows[workers[w].on].attempts + 1 >= MaxAttempts THEN "GiveUp"
                  ELSE IF rows[workers[w].on].status = "RETRY_SCHEDULED" THEN "RescheduleAgain"
                  ELSE "Reschedule")
    /\ UNCHANGED <<rows, publishing, queue, emails, reachable, waited, stalled, faults>>

(* _record_retry reads the row and decides; SQLAlchemy will not write a    *)
(* status that is already what it read.                                    *)
ReadForRetry(w) ==
    /\ workers[w].at = "Failing"
    /\ Proceed(w, IF rows[workers[w].on].attempts >= MaxAttempts THEN "GiveUp"
                  ELSE IF rows[workers[w].on].status = "RETRY_SCHEDULED" THEN "RescheduleAgain"
                  ELSE "Reschedule")
    /\ UNCHANGED <<rows, publishing, queue, emails, reachable, waited, stalled, faults>>

(* mark_failed, then the message is rejected to notifications.failed. *)
GiveUp(w) ==
    /\ workers[w].at = "GiveUp"
    /\ Write(workers[w].on, Failed(workers[w].on))
    /\ Acknowledge(w)
    /\ UNCHANGED <<publishing, queue, emails, reachable, waited, stalled, faults>>

(* schedule_retry; when it is refused the task ends with the error. *)
Reschedule(w) ==
    LET n == workers[w].on
        new == [rows[n] EXCEPT
                  !.status = IF workers[w].at = "Reschedule" THEN "RETRY_SCHEDULED" ELSE @,
                  !.wait = workers[w].attempt]
    IN
    /\ workers[w].at \in {"Reschedule", "RescheduleAgain"}
    /\ Write(n, new)
    /\ IF TerminalCheck(new) THEN Proceed(w, "Retry") ELSE Acknowledge(w)
    /\ UNCHANGED <<publishing, queue, emails, reachable, waited, stalled, faults>>

(* Seeded fault: max_retries is one short. *)
RetryOnceLess(w) ==
    LET m == workers[w].msg IN
    /\ workers[w].at = "Retry"
    /\ IF m.retries < MaxAttempts - 2
       THEN Enqueue(workers[w].on, [retries |-> m.retries + 1, wait |-> workers[w].attempt])
       ELSE UNCHANGED queue
    /\ Acknowledge(w)
    /\ UNCHANGED <<rows, publishing, emails, reachable, waited, stalled, faults>>

(* self.retry publishes a copy with a countdown while it may retry, and    *)
(* raises the error otherwise.                                             *)
Retry(w) ==
    LET m == workers[w].msg IN
    /\ workers[w].at = "Retry"
    /\ IF m.retries < MaxAttempts - 1
       THEN Enqueue(workers[w].on, [retries |-> m.retries + 1, wait |-> workers[w].attempt])
       ELSE UNCHANGED queue
    /\ Acknowledge(w)
    /\ UNCHANGED <<rows, publishing, emails, reachable, waited, stalled, faults>>

LoseRetry(w) ==
    /\ workers[w].at = "Retry"
    /\ Fault("LostPublish")
    /\ Acknowledge(w)
    /\ UNCHANGED <<rows, publishing, queue, emails, reachable, waited, stalled>>

(* The worker process is lost; the broker delivers its message again. *)
Crash(w) ==
    /\ workers[w] # Free
    /\ Fault("Crash")
    /\ Enqueue(workers[w].on, workers[w].msg)
    /\ Acknowledge(w)
    /\ UNCHANGED <<rows, publishing, emails, reachable, waited, stalled>>

(* The worker loses its connection to the broker but not its task. *)
Reconnect(w) ==
    /\ workers[w] # Free
    /\ Fault("Reconnect")
    /\ Enqueue(workers[w].on, workers[w].msg)
    /\ UNCHANGED <<rows, publishing, workers, emails, reachable, waited, stalled>>

--------------------------------------------------------------------------------
TaskStep(w) ==
    \/ \E n \in Notifications, m \in Message : Receive(w, n, m)
    \/ Claim(w) \/ Ignore(w) \/ MarkUnavailable(w)
    \/ Send(w) \/ SendFails(w) \/ MarkDelivered(w)
    \/ ReadForRetry(w) \/ GiveUp(w) \/ Reschedule(w) \/ Retry(w)

Next ==
    \/ \E n \in Notifications :
        \/ Discover(n) \/ Publish(n) \/ LosePublish(n) \/ Stall(n)
        \/ \E a \in Attempts : Wait(n, a)
    \/ Recover
    \/ \E w \in Workers :
        TaskStep(w) \/ SkipLocked(w) \/ LoseRetry(w) \/ Crash(w) \/ Reconnect(w)

Spec == Init /\ [][Next]_vars

(* Workers keep taking messages and finishing tasks, Beat keeps running    *)
(* the recovery every five minutes, committed tasks go on to publish, and  *)
(* time passes.  Discovery, faults and slow sends are not promised.        *)
Fairness ==
    /\ \A w \in Workers : WF_vars(TaskStep(w))
    /\ \A n \in Notifications : WF_vars(Publish(n))
    /\ \A n \in Notifications, a \in Attempts : WF_vars(Wait(n, a))
    /\ \A n \in Notifications : WF_vars(Stall(n))
    /\ WF_vars(Recover)

FairSpec == Spec /\ Fairness

--------------------------------------------------------------------------------
(* Every row, message and task is well formed. *)
TypeOK ==
    /\ rows \in [Notifications -> Row]
    /\ publishing \subseteq Notifications
    /\ queue \in [Notifications -> [Message -> Nat]]
    /\ workers \in [Workers -> Worker]
    /\ emails \in [Notifications -> Nat]
    /\ reachable \subseteq Notifications
    /\ waited \in [Notifications -> SUBSET Attempts]
    /\ stalled \in [Notifications -> SUBSET Attempts]
    /\ faults \in 0..MaxFaults

(* A reminder that was delivered or failed stays so: workers that outlived *)
(* their lease still write what they read, and only the constraint stops   *)
(* them (mark_delivered, mark_failed, schedule_retry).                     *)
TerminalIsFinal ==
    [][\A n \in Notifications :
        rows[n].status \in {"DELIVERED", "FAILED"} => rows'[n].status = rows[n].status]_vars

(* Whatever is redelivered, retried or recovered, a recipient gets at most *)
(* one email per counted attempt.                                          *)
EmailsBounded == \A n \in Notifications : emails[n] <= rows[n].attempts

(* A reminder is given up only after its last attempt, although the row    *)
(* may have been claimed again since the failing worker read it.           *)
FailedMeansExhausted ==
    \A n \in reachable : rows[n].status = "FAILED" => rows[n].attempts = MaxAttempts

Outcome(n) == IF rows[n].status \in {"PENDING", "DELIVERING", "RETRY_SCHEDULED"}
              THEN "OPEN" ELSE rows[n].status

Promise == INSTANCE Reminder WITH outcome <- [n \in Notifications |-> Outcome(n)]

(* Rows, queue and workers keep the promise of module Reminder: a reminder *)
(* ends once, is delivered only after an email was sent, and is emailed at *)
(* most MaxAttempts times, whoever claims, outlives or repeats it.         *)
KeepsPromise == Promise!Spec

Sending(w, n) == workers[w] # Free /\ workers[w].on = n
                 /\ workers[w].at \in {"Claimed", "Sent", "Failing"}

(* README: "A worker claims a delivery with a database lease before        *)
(* sending, preventing two workers from sending the same attempt": never   *)
(* two at once while no lease has expired.                                 *)
OneSender ==
    \A n \in Notifications, v, w \in Workers :
        Sending(v, n) /\ Sending(w, n) /\ v # w =>
            stalled[n] # {} /\ workers[v].attempt # workers[w].attempt

(* Celery's count of retries never forbids a retry that the row's count of *)
(* attempts has announced.                                                 *)
RetriesAgree ==
    \A w \in Workers : workers[w].at = "Retry" => workers[w].msg.retries < MaxAttempts - 1

(* Every reminder that was discovered is delivered or fails. *)
EveryReminderEnds ==
    \A n \in Notifications :
        []<>(rows[n].status \in {"NONE", "DELIVERED", "FAILED"})

(* README: "Every five minutes it recovers delivery leases left behind by  *)
(* interrupted notification workers".                                      *)
AbandonedLeasesAreRecovered ==
    \A n \in Notifications :
        rows[n].status = "DELIVERING" ~> rows[n].status # "DELIVERING"

================================================================================
