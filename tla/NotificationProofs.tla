--------------------------- MODULE NotificationProofs ---------------------------
(***************************************************************************)
(* Proofs about NotificationDelivery for any reminders, any finite set of  *)
(* workers, any number of attempts and any faults.  The inductive          *)
(* invariant says, of a row, that its emails and the claims still to be    *)
(* sent fit in its attempts, and, of a worker, what it read that no other  *)
(* step undoes (Kept).                                                     *)
(***************************************************************************)
EXTENDS NotificationDelivery, FiniteSetTheorems, TLAPS

(* The workers about to send reminder n. *)
Claims(n) == {w \in Workers : workers[w].at = "Claimed" /\ workers[w].on = n}

(* Nothing is known of a reminder before it is discovered. *)
Unknown(n) ==
    /\ n \notin publishing
    /\ \A m \in Message : queue[n][m] = 0

RowOK(n) ==
    /\ TerminalCheck(rows[n])
    /\ rows[n].status = "FAILED" /\ n \in reachable => rows[n].attempts = MaxAttempts
    /\ rows[n].status = "NONE" => Unknown(n)
    /\ rows[n].status = "DELIVERING" => rows[n].attempts > 0
    /\ emails[n] + Cardinality(Claims(n)) <= rows[n].attempts

WorkerOK(w) ==
    workers[w] # Free =>
        /\ rows[workers[w].on].status # "NONE"
        /\ workers[w].at = "Sent" => emails[workers[w].on] > 0
        /\ workers[w].at = "GiveUp" => rows[workers[w].on].attempts = MaxAttempts

IInv ==
    /\ TypeOK
    /\ \A n \in Notifications : RowOK(n)
    /\ \A w \in Workers : WorkerOK(w)

(* What no step undoes. *)
Kept ==
    \A n \in Notifications :
        /\ rows[n].attempts <= rows'[n].attempts
        /\ rows[n].status # "NONE" => rows'[n].status # "NONE"
        /\ emails[n] <= emails'[n]
        /\ rows[n].status \in {"DELIVERED", "FAILED"} => rows'[n].status = rows[n].status

--------------------------------------------------------------------------------
(* Types.                                                                  *)

(* A worker that is not free has the fields of a task. *)
LEMMA TaskFields ==
    ASSUME NEW x \in Worker
    PROVE  /\ x = Free => x.at = "Free"
           /\ x.at # "Free" <=> x # Free
           /\ x # Free => x \in [at: Steps, on: Notifications, msg: Message,
                                 attempt: 0..MaxAttempts]
  BY DEF Worker, Free, Steps

LEMMA InitType == Init => TypeOK
  <1> SUFFICES ASSUME Init PROVE TypeOK
    OBVIOUS
  <1>1. rows \in [Notifications -> Row]
    BY MaxAttemptsAssumption DEF Init, Row
  <1>2. workers \in [Workers -> Worker]
    BY DEF Init, Worker
  <1> QED
    BY <1>1, <1>2, FaultsAssumption DEF Init, TypeOK

LEMMA EnqueueType ==
    ASSUME TypeOK, NEW n \in Notifications, NEW m \in Message, Enqueue(n, m)
    PROVE  queue' \in [Notifications -> [Message -> Nat]]
  <1> DEFINE q == [queue[n] EXCEPT ![m] = queue[n][m] + 1]
  <1>1. queue[n] \in [Message -> Nat]
    BY DEF TypeOK
  <1>2. q \in [Message -> Nat]
    BY <1>1
  <1>3. queue' = [queue EXCEPT ![n] = q]
    BY <1>1 DEF Enqueue
  <1> HIDE DEF q
  <1> QED
    BY <1>2, <1>3 DEF TypeOK

(* The updates of a row are rows. *)
LEMMA RowUpdates ==
    ASSUME NEW row \in Row, NEW status \in Statuses, NEW wait \in 0..MaxAttempts
    PROVE  /\ [row EXCEPT !.status = status, !.wait = wait] \in Row
           /\ [row EXCEPT !.wait = wait] \in Row
           /\ [row EXCEPT !.status = status, !.delivered = TRUE] \in Row
           /\ [row EXCEPT !.status = status, !.failed = TRUE] \in Row
           /\ row.attempts < MaxAttempts =>
                [row EXCEPT !.status = status, !.attempts = row.attempts + 1] \in Row
  <1>1. ASSUME NEW v \in Row PROVE [v EXCEPT !.status = status] \in Row
    BY DEF Row
  <1>2. ASSUME NEW v \in Row PROVE [v EXCEPT !.wait = wait] \in Row
    BY DEF Row
  <1>3. ASSUME NEW v \in Row PROVE [v EXCEPT !.delivered = TRUE] \in Row
    BY DEF Row
  <1>4. ASSUME NEW v \in Row PROVE [v EXCEPT !.failed = TRUE] \in Row
    BY DEF Row
  <1>5. ASSUME NEW v \in Row, v.attempts < MaxAttempts
        PROVE  [v EXCEPT !.attempts = v.attempts + 1] \in Row
    BY <1>5, MaxAttemptsAssumption DEF Row
  <1>6. row.attempts = [row EXCEPT !.status = status].attempts
    BY DEF Row
  <1> QED
    BY <1>1, <1>2, <1>3, <1>4, <1>5, <1>6

LEMMA BeatType ==
    ASSUME IInv, NEW n \in Notifications,
           Discover(n) \/ Publish(n) \/ LosePublish(n) \/ Stall(n)
           \/ (\E a \in Attempts : Wait(n, a)) \/ Recover
    PROVE  TypeOK'
  <1>0. TypeOK /\ RowOK(n)
    BY DEF IInv
  <1>1. CASE Discover(n)
    BY <1>0, <1>1 DEF Discover, TypeOK, Row, Statuses
  <1>2. CASE Publish(n)
    <2>1. First \in Message
      BY MaxAttemptsAssumption DEF First, Message
    <2> QED
      BY <1>0, <1>2, <2>1, EnqueueType DEF Publish, TypeOK
  <1>3. CASE LosePublish(n)
    BY <1>0, <1>3, FaultsAssumption DEF LosePublish, Fault, TypeOK
  <1>4. CASE Stall(n)
    <2>1. rows[n].attempts \in Attempts
      BY <1>0, <1>4, MaxAttemptsAssumption DEF RowOK, Stall, TypeOK, Row, Attempts
    <2> QED
      BY <1>0, <1>4, <2>1 DEF Stall, TypeOK
  <1>5. CASE \E a \in Attempts : Wait(n, a)
    BY <1>0, <1>5 DEF Wait, TypeOK
  <1>6. CASE Recover
    <2>0. "RETRY_SCHEDULED" \in Statuses /\ 0 \in 0..MaxAttempts
      BY MaxAttemptsAssumption DEF Statuses
    <2>1. ASSUME NEW k \in Notifications
          PROVE  [rows[k] EXCEPT !.status = "RETRY_SCHEDULED", !.wait = 0] \in Row
      BY <1>0, <2>0, RowUpdates DEF TypeOK
    <2>2. rows' \in [Notifications -> Row]
      <3>1. rows \in [Notifications -> Row]
        BY <1>0 DEF TypeOK
      <3> QED
        BY <1>6, <2>1, <3>1 DEF Recover
    <2> QED
      BY <1>0, <1>6, <2>2 DEF Recover, TypeOK
  <1> QED
    BY <1>1, <1>2, <1>3, <1>4, <1>5, <1>6

(* A worker's step keeps the types when the row, the messages and the task *)
(* it writes are well formed.                                              *)
LEMMA WriteType ==
    ASSUME TypeOK, NEW n \in Notifications, NEW new \in Row, Write(n, new)
    PROVE  rows' \in [Notifications -> Row]
  BY DEF Write, TypeOK

LEMMA ProceedType ==
    ASSUME TypeOK, NEW w \in Workers, workers[w] # Free, NEW step \in Steps, Proceed(w, step)
    PROVE  workers' \in [Workers -> Worker]
  <1>1. [workers[w] EXCEPT !.at = step] \in Worker
    BY DEF TypeOK, Worker
  <1> QED
    BY <1>1 DEF Proceed, TypeOK

LEMMA AcknowledgeType ==
    ASSUME TypeOK, NEW w \in Workers, Acknowledge(w)
    PROVE  workers' \in [Workers -> Worker]
  BY DEF Acknowledge, TypeOK, Worker

LEMMA FaultType == ASSUME NEW kind, Fault(kind), TypeOK PROVE faults' \in 0..MaxFaults
  BY FaultsAssumption DEF Fault, TypeOK

LEMMA TaskType ==
    ASSUME IInv, NEW w \in Workers,
           TaskStep(w) \/ SkipLocked(w) \/ LoseRetry(w) \/ Crash(w) \/ Reconnect(w)
    PROVE  TypeOK'
  <1> DEFINE x == workers[w]
             n == x.on
  <1>1. TypeOK /\ x \in Worker
    BY DEF IInv, TypeOK
  <1>2. x.at \in Steps => x # Free
    BY DEF Steps, Free
  <1>3. x # Free => /\ n \in Notifications /\ x.msg \in Message
                    /\ x.attempt \in 0..MaxAttempts /\ rows[n] \in Row
    BY <1>1 DEF Worker, TypeOK
  <1> HIDE DEF x, n
  <1>4. CASE \E k \in Notifications, m \in Message : Receive(w, k, m)
    <2>1. PICK k \in Notifications, m \in Message : Receive(w, k, m)
      BY <1>4
    <2> DEFINE task == [at |-> "Received", on |-> k, msg |-> m, attempt |-> 0]
    <2>2. task \in Worker
      BY MaxAttemptsAssumption DEF Worker, Steps
    <2>3. workers' \in [Workers -> Worker]
      BY <1>1, <2>1, <2>2 DEF Receive, TypeOK
    <2>4. queue' \in [Notifications -> [Message -> Nat]]
      <3> DEFINE q == [queue[k] EXCEPT ![m] = queue[k][m] - 1]
      <3>1. queue[k] \in [Message -> Nat] /\ queue[k][m] > 0
        BY <1>1, <2>1 DEF TypeOK, Receive
      <3>2. q \in [Message -> Nat]
        BY <3>1
      <3>3. queue' = [queue EXCEPT ![k] = q]
        BY <2>1 DEF Receive
      <3> HIDE DEF q
      <3> QED
        BY <1>1, <3>2, <3>3 DEF TypeOK
    <2> QED
      BY <1>1, <2>1, <2>3, <2>4 DEF Receive, TypeOK
  <1>5. CASE Claim(w)
    <2>1. x # Free /\ rows[n].status # "NONE" /\ rows[n].attempts < MaxAttempts
      BY <1>2, <1>5 DEF Claim, Claimable, Steps, x, n
    <2> DEFINE new == [rows[n] EXCEPT !.status = "DELIVERING", !.attempts = rows[n].attempts + 1]
               task == [x EXCEPT !.at = "Claimed", !.attempt = rows[n].attempts + 1]
    <2>2. new \in Row
      <3>1. "DELIVERING" \in Statuses /\ 0 \in 0..MaxAttempts
        BY MaxAttemptsAssumption DEF Statuses
      <3> QED
        BY <1>3, <2>1, <3>1, RowUpdates
    <2>3. rows[n].attempts + 1 \in 0..MaxAttempts
      BY <1>3, <2>1, MaxAttemptsAssumption DEF Row
    <2>4. task \in Worker
      BY <1>1, <2>1, <2>3 DEF Worker, Steps
    <2>5. rows' = [rows EXCEPT ![n] = new] /\ workers' = [workers EXCEPT ![w] = task]
      BY <1>1, <1>3, <2>1, <1>5 DEF Claim, TypeOK, x, n
    <2>6. UNCHANGED <<publishing, queue, emails, reachable, waited, stalled, faults>>
      BY <1>5 DEF Claim
    <2> HIDE DEF new, task
    <2> QED
      BY <1>1, <1>3, <2>1, <2>2, <2>4, <2>5, <2>6 DEF TypeOK
  <1>6. CASE Ignore(w) \/ SkipLocked(w)
    BY <1>1, <1>6, AcknowledgeType, FaultType DEF Ignore, SkipLocked, TypeOK
  <1>7. CASE MarkUnavailable(w) \/ GiveUp(w)
    <2>1. x # Free /\ Write(n, Failed(n)) /\ Acknowledge(w)
      BY <1>2, <1>7 DEF MarkUnavailable, GiveUp, Steps, x, n
    <2>2. Failed(n) \in Row
      <3>1. "FAILED" \in Statuses /\ 0 \in 0..MaxAttempts
        BY MaxAttemptsAssumption DEF Statuses
      <3> QED
        BY <1>3, <2>1, <3>1, RowUpdates DEF Failed
    <2> QED
      BY <1>1, <1>3, <1>7, <2>1, <2>2, WriteType, AcknowledgeType
      DEF MarkUnavailable, GiveUp, TypeOK
  <1>8. CASE Send(w) \/ SendFails(w)
    <2>1. x # Free /\ (Proceed(w, "Sent") \/ Proceed(w, "Failing"))
      BY <1>2, <1>8 DEF Send, SendFails, Steps, x
    <2>2. emails' \in [Notifications -> Nat]
      BY <1>1, <1>3, <1>8, <2>1 DEF Send, SendFails, TypeOK, n, x
    <2>3. workers' \in [Workers -> Worker]
      BY <1>1, <2>1, ProceedType DEF Steps, x
    <2> QED
      BY <1>1, <1>8, <2>2, <2>3 DEF Send, SendFails, TypeOK
  <1>9. CASE MarkDelivered(w)
    <2> DEFINE new == [rows[n] EXCEPT !.status = "DELIVERED", !.delivered = TRUE]
    <2>1. x # Free
      BY <1>2, <1>9 DEF MarkDelivered, Steps, x
    <2>2. Write(n, new) /\ (Acknowledge(w) \/ Proceed(w, "Failing"))
      BY <1>9 DEF MarkDelivered, x, n
    <2>3. new \in Row
      <3>1. "DELIVERED" \in Statuses /\ 0 \in 0..MaxAttempts
        BY MaxAttemptsAssumption DEF Statuses
      <3> QED
        BY <1>3, <2>1, <3>1, RowUpdates
    <2>4. workers' \in [Workers -> Worker]
      BY <1>1, <2>1, <2>2, ProceedType, AcknowledgeType DEF Steps, x
    <2> HIDE DEF new
    <2> QED
      BY <1>1, <1>3, <1>9, <2>1, <2>2, <2>3, <2>4, WriteType DEF MarkDelivered, TypeOK
  <1>10. CASE ReadForRetry(w)
    <2>1. /\ x # Free
          /\ \E step \in {"GiveUp", "RescheduleAgain", "Reschedule"} : Proceed(w, step)
      BY <1>2, <1>10 DEF ReadForRetry, Steps, x
    <2>2. workers' \in [Workers -> Worker]
      BY <1>1, <2>1, ProceedType DEF Steps, x
    <2> QED
      BY <1>1, <1>10, <2>2 DEF ReadForRetry, TypeOK
  <1>11. CASE Reschedule(w)
    <2> DEFINE status == IF x.at = "Reschedule" THEN "RETRY_SCHEDULED" ELSE rows[n].status
               new == [rows[n] EXCEPT !.status = status, !.wait = x.attempt]
    <2>1. x # Free
      BY <1>2, <1>11 DEF Reschedule, Steps, x
    <2>2. Write(n, new) /\ (Acknowledge(w) \/ Proceed(w, "Retry"))
      BY <1>11 DEF Reschedule, x, n
    <2>3. status \in Statuses
      BY <1>3, <2>1 DEF Row, Statuses, IInv, WorkerOK, x, n
    <2>4. new \in Row
      BY <1>3, <2>1, <2>3, RowUpdates
    <2>5. workers' \in [Workers -> Worker]
      BY <1>1, <2>1, <2>2, ProceedType, AcknowledgeType DEF Steps, x
    <2> HIDE DEF new
    <2> QED
      BY <1>1, <1>3, <1>11, <2>1, <2>2, <2>4, <2>5, WriteType DEF Reschedule, TypeOK
  <1>12. CASE Retry(w) \/ LoseRetry(w)
    <2>1. x # Free /\ Acknowledge(w)
      BY <1>2, <1>12 DEF Retry, LoseRetry, Steps, x
    <2>2. queue' \in [Notifications -> [Message -> Nat]]
      <3> DEFINE m == [retries |-> x.msg.retries + 1, wait |-> x.attempt]
      <3>1. ASSUME x.msg.retries < MaxAttempts - 1 PROVE m \in Message
        BY <1>3, <2>1, <3>1, MaxAttemptsAssumption DEF Message
      <3>2. (x.msg.retries < MaxAttempts - 1 /\ Enqueue(n, m)) \/ UNCHANGED queue
        BY <1>12 DEF Retry, LoseRetry, x, n
      <3> HIDE DEF m
      <3> QED
        BY <1>1, <1>3, <2>1, <3>1, <3>2, EnqueueType DEF TypeOK
    <2> QED
      BY <1>1, <1>12, <2>1, <2>2, AcknowledgeType, FaultType DEF Retry, LoseRetry, TypeOK
  <1>13. CASE Crash(w) \/ Reconnect(w)
    <2>1. x # Free /\ Enqueue(n, x.msg)
      BY <1>13 DEF Crash, Reconnect, x, n
    <2>2. queue' \in [Notifications -> [Message -> Nat]]
      BY <1>1, <1>3, <2>1, EnqueueType
    <2> QED
      BY <1>1, <1>13, <2>2, AcknowledgeType, FaultType DEF Crash, Reconnect, TypeOK
  <1> QED
    BY <1>4, <1>5, <1>6, <1>7, <1>8, <1>9, <1>10, <1>11, <1>12, <1>13 DEF TaskStep

--------------------------------------------------------------------------------
(* What a step of one worker leaves alone.                                 *)

LEMMA ClaimsShrink ==
    ASSUME NEW T \in SUBSET Workers, NEW S \in SUBSET T
    PROVE  /\ IsFiniteSet(S) /\ IsFiniteSet(T)
           /\ Cardinality(S) \in Nat /\ Cardinality(T) \in Nat
           /\ Cardinality(S) <= Cardinality(T)
  <1>1. IsFiniteSet(T)
    BY WorkersAssumption, FS_Subset
  <1> QED
    BY <1>1, FS_Subset, FS_CardinalityType

LEMMA RowStays ==
    ASSUME IInv, TypeOK', NEW k \in Notifications,
           rows'[k] = rows[k], emails'[k] = emails[k], reachable' = reachable,
           rows[k].status = "NONE" => Unknown(k)',
           Claims(k)' \subseteq Claims(k)
    PROVE  RowOK(k)'
  <1>1. /\ Cardinality(Claims(k)) \in Nat /\ Cardinality(Claims(k)') \in Nat
        /\ Cardinality(Claims(k)') <= Cardinality(Claims(k))
    BY ClaimsShrink DEF Claims
  <1>2. /\ emails[k] \in Nat /\ rows[k].attempts \in Nat
        /\ emails[k] + Cardinality(Claims(k)) <= rows[k].attempts
    BY MaxAttemptsAssumption DEF IInv, TypeOK, Row, RowOK
  <1>3. emails'[k] + Cardinality(Claims(k)') <= rows'[k].attempts
    BY <1>1, <1>2
  <1>4. RowOK(k)
    BY DEF IInv
  <1>5. TerminalCheck(rows[k])'
    BY <1>4 DEF RowOK, TerminalCheck
  <1> QED
    BY <1>3, <1>4, <1>5 DEF RowOK

LEMMA WorkerStays ==
    ASSUME IInv, TypeOK', Kept, NEW v \in Workers, workers'[v] = workers[v]
    PROVE  WorkerOK(v)'
  <1> SUFFICES ASSUME workers[v] # Free PROVE WorkerOK(v)'
    BY DEF WorkerOK
  <1> DEFINE n == workers[v].on
  <1>1. n \in Notifications /\ workers[v] \in Worker
    BY DEF IInv, TypeOK, Worker
  <1>2. /\ rows[n].attempts \in 0..MaxAttempts /\ rows'[n].attempts \in 0..MaxAttempts
        /\ emails[n] \in Nat /\ emails'[n] \in Nat
    BY <1>1 DEF IInv, TypeOK, Row
  <1>3. WorkerOK(v)
    BY DEF IInv
  <1> QED
    BY <1>1, <1>2, <1>3, MaxAttemptsAssumption DEF Kept, WorkerOK

(* The other workers claim what they claimed. *)
LEMMA OtherClaims ==
    ASSUME NEW w \in Workers, NEW k,
           \A v \in Workers \ {w} : workers'[v] = workers[v],
           workers'[w].at # "Claimed" \/ workers'[w].on # k
    PROVE  Claims(k)' = Claims(k) \ {w}
  BY DEF Claims

LEMMA KeptIfRowsStay ==
    ASSUME IInv, UNCHANGED <<rows, emails>>
    PROVE  Kept
  <1>1. \A k \in Notifications : rows[k].attempts \in Int /\ emails[k] \in Int
    BY MaxAttemptsAssumption DEF IInv, TypeOK, Row
  <1> QED
    BY <1>1 DEF Kept

(* Steps that write neither a row nor an email keep the invariant when the *)
(* messages and tasks they start are of discovered reminders.              *)
LEMMA QuietStep ==
    ASSUME IInv, TypeOK', UNCHANGED <<rows, emails, reachable>>,
           \A k \in Notifications : rows[k].status = "NONE" => Unknown(k)',
           \A k \in Notifications : Claims(k)' \subseteq Claims(k),
           \A v \in Workers : workers'[v] = workers[v] \/ WorkerOK(v)'
    PROVE  IInv'
  <1>1. \A k \in Notifications : RowOK(k)'
    BY RowStays
  <1>2. \A v \in Workers : WorkerOK(v)'
    BY WorkerStays, KeptIfRowsStay
  <1> QED
    BY <1>1, <1>2 DEF IInv

LEMMA EnqueueKnown ==
    ASSUME IInv, NEW n \in Notifications, rows[n].status # "NONE", NEW m, Enqueue(n, m),
           publishing' \subseteq publishing, NEW k \in Notifications, rows[k].status = "NONE"
    PROVE  Unknown(k)'
  <1>1. k # n /\ RowOK(k)
    BY DEF IInv
  <1>2. queue'[k] = queue[k]
    BY <1>1 DEF Enqueue, IInv, TypeOK
  <1> QED
    BY <1>1, <1>2 DEF Unknown, RowOK

--------------------------------------------------------------------------------
(* The scheduler and time keep the invariant.                              *)

LEMMA BeatKeeps ==
    ASSUME IInv, NEW n \in Notifications,
           Discover(n) \/ Publish(n) \/ LosePublish(n) \/ Stall(n)
           \/ (\E a \in Attempts : Wait(n, a)) \/ Recover
    PROVE  IInv' /\ Kept
  <1>0. TypeOK' /\ TypeOK /\ \A k \in Notifications : RowOK(k)
    BY BeatType DEF IInv
  <1>1. CASE Discover(n)
    <2>1. /\ rows'[n] = [rows[n] EXCEPT !.status = "PENDING"] /\ rows[n].status = "NONE"
          /\ \A k \in Notifications \ {n} : rows'[k] = rows[k]
          /\ rows[n] \in Row
      BY <1>0, <1>1 DEF Discover, TypeOK
    <2>2. /\ rows'[n].status = "PENDING" /\ rows'[n].attempts = rows[n].attempts
          /\ rows'[n].delivered = rows[n].delivered /\ rows'[n].failed = rows[n].failed
      BY <2>1 DEF Row
    <2>3. Kept
      <3>1. \A k \in Notifications : rows[k].attempts \in Int /\ emails[k] \in Int
        BY <1>0, MaxAttemptsAssumption DEF TypeOK, Row
      <3> QED
        BY <1>1, <2>1, <2>2, <3>1 DEF Discover, Kept
    <2>4. Claims(n)' = Claims(n)
      BY <1>1 DEF Discover, Claims
    <2>5. RowOK(n)'
      BY <1>0, <1>1, <2>1, <2>2, <2>4 DEF RowOK, TerminalCheck, Discover
    <2>6. ASSUME NEW k \in Notifications \ {n} PROVE RowOK(k)'
      <3>1. rows[k].status = "NONE" => Unknown(k)'
        BY <1>0, <1>1, <2>6 DEF Discover, RowOK, Unknown
      <3>2. Claims(k)' = Claims(k)
        BY <1>1 DEF Discover, Claims
      <3> QED
        BY <1>0, <1>1, <2>1, <3>1, <3>2, RowStays DEF Discover
    <2>7. \A v \in Workers : WorkerOK(v)'
      BY <1>0, <1>1, <2>3, WorkerStays DEF Discover
    <2> QED
      BY <1>0, <2>3, <2>5, <2>6, <2>7 DEF IInv
  <1>2. CASE Recover
    <2>1. ASSUME NEW k \in Notifications
          PROVE  /\ rows'[k].attempts = rows[k].attempts
                 /\ rows'[k].delivered = rows[k].delivered
                 /\ rows'[k].failed = rows[k].failed
                 /\ rows'[k].status = rows[k].status \/
                      (rows[k].status = "DELIVERING" /\ rows'[k].status = "RETRY_SCHEDULED")
                 /\ emails'[k] = emails[k] /\ reachable' = reachable
                 /\ Claims(k)' = Claims(k)
                 /\ rows[k].status = "NONE" => Unknown(k)'
      <3>1. rows[k] \in Row
        BY <1>0 DEF TypeOK
      <3>2. rows'[k] = IF Stale(k) THEN [rows[k] EXCEPT !.status = "RETRY_SCHEDULED", !.wait = 0]
                       ELSE rows[k]
        BY <1>2 DEF Recover
      <3>3. Claims(k)' = Claims(k)
        BY <1>2 DEF Recover, Claims
      <3>4. rows[k].status = "NONE" => Unknown(k)'
        BY <1>0, <1>2 DEF Recover, Stale, RowOK, Unknown
      <3> QED
        BY <1>2, <3>1, <3>2, <3>3, <3>4 DEF Recover, Stale, Row
    <2>2. Kept
      <3>1. \A k \in Notifications : rows[k].attempts \in Int /\ emails[k] \in Int
        BY <1>0, MaxAttemptsAssumption DEF TypeOK, Row
      <3> QED
        BY <2>1, <3>1 DEF Kept
    <2>3. ASSUME NEW k \in Notifications PROVE RowOK(k)'
      BY <1>0, <2>1, <2>3 DEF RowOK, TerminalCheck
    <2>4. \A v \in Workers : WorkerOK(v)'
      BY <1>0, <1>2, <2>2, WorkerStays DEF Recover
    <2> QED
      BY <1>0, <2>2, <2>3, <2>4 DEF IInv
  <1>3. CASE Publish(n)
    <2>1. rows[n].status # "NONE"
      BY <1>0, <1>3 DEF Publish, RowOK, Unknown
    <2>2. \A k \in Notifications : rows[k].status = "NONE" => Unknown(k)'
      BY <1>3, <2>1, EnqueueKnown DEF Publish
    <2>3. \A k \in Notifications : Claims(k)' = Claims(k)
      BY <1>3 DEF Publish, Claims
    <2> QED
      BY <1>0, <1>3, <2>2, <2>3, QuietStep, KeptIfRowsStay DEF Publish
  <1>4. CASE LosePublish(n) \/ Stall(n) \/ \E a \in Attempts : Wait(n, a)
    <2>1. UNCHANGED <<rows, emails, reachable, workers, queue>> /\ publishing' \subseteq publishing
      BY <1>4 DEF LosePublish, Stall, Wait
    <2>2. \A k \in Notifications : rows[k].status = "NONE" => Unknown(k)'
      BY <1>0, <2>1 DEF RowOK, Unknown
    <2>3. \A k \in Notifications : Claims(k)' = Claims(k)
      BY <2>1 DEF Claims
    <2> QED
      BY <1>0, <2>1, <2>2, <2>3, QuietStep, KeptIfRowsStay
  <1> QED
    BY <1>1, <1>2, <1>3, <1>4

--------------------------------------------------------------------------------
(* The workers keep the invariant.                                         *)

(* A step that changes one row and one worker. *)
LEMMA RowStep ==
    ASSUME IInv, TypeOK', Kept, NEW w \in Workers, NEW n \in Notifications,
           UNCHANGED <<publishing, queue, reachable>>,
           \A k \in Notifications \ {n} : rows'[k] = rows[k] /\ emails'[k] = emails[k],
           \A v \in Workers \ {w} : workers'[v] = workers[v],
           workers'[w].at # "Claimed" \/ workers'[w].on = n,
           RowOK(n)', WorkerOK(w)'
    PROVE  IInv'
  <1>1. ASSUME NEW k \in Notifications \ {n} PROVE RowOK(k)'
    <2>1. Claims(k)' \subseteq Claims(k)
      BY OtherClaims
    <2>2. rows[k].status = "NONE" => Unknown(k)'
      BY DEF IInv, RowOK, Unknown
    <2> QED
      BY <2>1, <2>2, RowStays
  <1>2. \A v \in Workers \ {w} : WorkerOK(v)'
    BY WorkerStays
  <1> QED
    BY <1>1, <1>2 DEF IInv

(* An UPDATE that the constraint accepts or refuses. *)
LEMMA WriteKeeps ==
    ASSUME IInv, TypeOK', NEW w \in Workers, NEW n \in Notifications, NEW new \in Row,
           Write(n, new), rows[n].status # "NONE", new.status # "NONE",
           new.attempts = rows[n].attempts,
           new.status = "DELIVERING" => rows[n].status = "DELIVERING",
           new.status = "FAILED" /\ n \in reachable => new.attempts = MaxAttempts,
           rows[n].delivered => new.delivered, rows[n].failed => new.failed,
           UNCHANGED <<publishing, queue, emails, reachable>>,
           \A v \in Workers \ {w} : workers'[v] = workers[v],
           workers'[w].at \notin {"Claimed", "Sent", "GiveUp"},
           workers'[w] # Free => workers'[w].on = n
    PROVE  IInv' /\ Kept
  <1>1. TypeOK /\ RowOK(n) /\ rows[n] \in Row
    BY DEF IInv, TypeOK
  <1>2. rows'[n] = rows[n] \/ (rows'[n] = new /\ TerminalCheck(new))
    BY <1>1 DEF Write, TypeOK
  <1>3. \A k \in Notifications \ {n} : rows'[k] = rows[k]
    BY <1>1 DEF Write, TypeOK
  <1>4. rows[n].status \in {"DELIVERED", "FAILED"} => rows'[n].status = rows[n].status
    BY <1>1, <1>2 DEF RowOK, TerminalCheck
  <1>5. Kept
    <2>1. \A k \in Notifications : rows[k].attempts \in Int /\ emails[k] \in Int
      BY <1>1, MaxAttemptsAssumption DEF TypeOK, Row
    <2> QED
      BY <1>2, <1>3, <1>4, <2>1 DEF Kept
  <1>6. RowOK(n)'
    <2>1. CASE rows'[n] = rows[n]
      <3>1. Claims(n)' \subseteq Claims(n)
        BY DEF Claims
      <3> QED
        BY <2>1, <3>1, RowStays
    <2>2. CASE rows'[n] = new /\ TerminalCheck(new)
      <3>1. Claims(n)' \subseteq Claims(n)
        BY DEF Claims
      <3>2. /\ Cardinality(Claims(n)) \in Nat /\ Cardinality(Claims(n)') \in Nat
            /\ Cardinality(Claims(n)') <= Cardinality(Claims(n))
        BY <3>1, ClaimsShrink DEF Claims
      <3>3. emails[n] \in Nat /\ rows[n].attempts \in Nat
        BY <1>1, MaxAttemptsAssumption DEF TypeOK, Row
      <3>4. emails'[n] + Cardinality(Claims(n)') <= rows'[n].attempts
        BY <1>1, <2>2, <3>2, <3>3 DEF RowOK
      <3>5. TerminalCheck(rows[n])'
        BY <2>2 DEF TerminalCheck
      <3> QED
        BY <1>1, <2>2, <3>4, <3>5 DEF RowOK
    <2> QED
      BY <1>2, <2>1, <2>2
  <1>7. WorkerOK(w)'
    BY <1>2 DEF WorkerOK
  <1> QED
    BY <1>3, <1>5, <1>6, <1>7, RowStep

LEMMA SendKeeps ==
    ASSUME IInv, TypeOK', NEW w \in Workers, Send(w) \/ SendFails(w)
    PROVE  IInv' /\ Kept
  <1>0. /\ TypeOK /\ workers[w].at = "Claimed" /\ workers[w] # Free
        /\ workers[w].on \in Notifications /\ workers[w] \in Worker
    BY DEF Send, SendFails, IInv, TypeOK, Worker, Free
  <1>n. PICK n \in Notifications : n = workers[w].on
    BY <1>0
  <1>1. /\ TypeOK /\ workers[w].at = "Claimed" /\ workers[w] # Free
        /\ workers[w].on = n /\ workers[w] \in Worker
    BY <1>0, <1>n
  <1>2. RowOK(n) /\ WorkerOK(w)
    BY <1>1 DEF IInv
  <1>3. /\ workers'[w].at \in {"Sent", "Failing"} /\ workers'[w].on = n
        /\ \A v \in Workers \ {w} : workers'[v] = workers[v]
    BY <1>1 DEF Send, SendFails, Proceed, TypeOK, Worker
  <1>4. /\ \A k \in Notifications \ {n} : emails'[k] = emails[k]
        /\ emails'[n] = emails[n] + 1 \/ (emails'[n] = emails[n] + 0 /\ SendFails(w))
    BY <1>1 DEF Send, SendFails, TypeOK
  <1>5. \A k \in Notifications : rows[k].attempts \in Nat /\ emails[k] \in Nat
    BY <1>1, MaxAttemptsAssumption DEF TypeOK, Row
  <1>6. UNCHANGED <<rows, publishing, queue, reachable>>
    BY DEF Send, SendFails
  <1>7. Kept
    BY <1>1, <1>4, <1>5, <1>6 DEF Kept
  <1>8. RowOK(n)'
    <2>1. Claims(n)' = Claims(n) \ {w} /\ w \in Claims(n)
      BY <1>1, <1>3, OtherClaims DEF Claims
    <2>2. Cardinality(Claims(n)) \in Nat /\ Cardinality(Claims(n)') = Cardinality(Claims(n)) - 1
      BY <2>1, ClaimsShrink, FS_RemoveElement DEF Claims
    <2>3. emails'[n] + Cardinality(Claims(n)') <= rows'[n].attempts
      BY <1>1, <1>2, <1>4, <1>5, <1>6, <2>2 DEF RowOK
    <2>4. TerminalCheck(rows[n])'
      BY <1>2, <1>6 DEF RowOK, TerminalCheck
    <2>5. Unknown(n) => Unknown(n)'
      BY <1>6 DEF Unknown
    <2> QED
      BY <1>2, <1>6, <2>3, <2>4, <2>5 DEF RowOK
  <1>9. WorkerOK(w)'
    <2>1. SendFails(w) => workers'[w].at = "Failing"
      BY <1>1 DEF SendFails, Proceed, TypeOK, Worker
    <2> QED
      BY <1>1, <1>2, <1>3, <1>4, <1>5, <1>6, <2>1 DEF WorkerOK
  <1>10. \A k \in Notifications \ {n} : rows'[k] = rows[k] /\ emails'[k] = emails[k]
    BY <1>4, <1>6
  <1>11. UNCHANGED <<publishing, queue, reachable>>
    BY <1>6
  <1> QED
    BY <1>1, <1>3, <1>7, <1>8, <1>9, <1>10, <1>11, RowStep

LEMMA ClaimKeeps ==
    ASSUME IInv, TypeOK', NEW w \in Workers, Claim(w)
    PROVE  IInv' /\ Kept
  <1>0. /\ TypeOK /\ workers[w].at = "Received" /\ workers[w] # Free
        /\ workers[w].on \in Notifications /\ workers[w] \in Worker
    BY DEF Claim, IInv, TypeOK, Worker, Free
  <1>n. PICK n \in Notifications : n = workers[w].on
    BY <1>0
  <1>1. RowOK(n) /\ rows[n] \in Row
    BY <1>0 DEF IInv, TypeOK
  <1>2. Claimable(rows[n], Passed(n))
    BY <1>n DEF Claim
  <1>3. rows' = [rows EXCEPT ![n].status = "DELIVERING", ![n].attempts = @ + 1]
    BY <1>n DEF Claim
  <1>4. UNCHANGED <<publishing, queue, emails, reachable>>
    BY DEF Claim
  <1>5. /\ workers'[w].at = "Claimed" /\ workers'[w].on = n
        /\ \A v \in Workers \ {w} : workers'[v] = workers[v]
    BY <1>0, <1>n DEF Claim, TypeOK, Worker
  <1>6. /\ rows'[n].status = "DELIVERING" /\ rows'[n].attempts = rows[n].attempts + 1
        /\ rows'[n].delivered = rows[n].delivered /\ rows'[n].failed = rows[n].failed
        /\ \A k \in Notifications \ {n} : rows'[k] = rows[k]
    BY <1>0, <1>1, <1>3 DEF TypeOK, Row
  <1>7. \A k \in Notifications : rows[k].attempts \in Nat /\ emails[k] \in Nat
    BY <1>0, MaxAttemptsAssumption DEF TypeOK, Row
  <1>8. Kept
    BY <1>2, <1>4, <1>6, <1>7 DEF Kept, Claimable
  <1>9. RowOK(n)'
    <2>1. Claims(n)' = Claims(n) \cup {w} /\ w \notin Claims(n)
      BY <1>0, <1>5 DEF Claims
    <2>2. /\ Cardinality(Claims(n)) \in Nat
          /\ Cardinality(Claims(n)') = Cardinality(Claims(n)) + 1
      BY <2>1, ClaimsShrink, FS_AddElement DEF Claims
    <2>3. emails'[n] + Cardinality(Claims(n)') <= rows'[n].attempts
      BY <1>1, <1>4, <1>6, <1>7, <2>2 DEF RowOK
    <2>4. TerminalCheck(rows[n])'
      BY <1>1, <1>2, <1>6 DEF RowOK, TerminalCheck, Claimable
    <2>5. rows'[n].attempts > 0
      BY <1>6, <1>7
    <2> QED
      BY <1>6, <2>3, <2>4, <2>5 DEF RowOK
  <1>10. WorkerOK(w)'
    BY <1>5, <1>6 DEF WorkerOK
  <1>11. \A k \in Notifications \ {n} : rows'[k] = rows[k] /\ emails'[k] = emails[k]
    BY <1>4, <1>6
  <1>12. UNCHANGED <<publishing, queue, reachable>>
    BY <1>4
  <1> QED
    BY <1>5, <1>8, <1>9, <1>10, <1>11, <1>12, RowStep

LEMMA UpdateKeeps ==
    ASSUME IInv, TypeOK', NEW w \in Workers,
           MarkUnavailable(w) \/ GiveUp(w) \/ MarkDelivered(w) \/ Reschedule(w)
    PROVE  IInv' /\ Kept
  <1>0. /\ TypeOK /\ workers[w] # Free
        /\ workers[w].on \in Notifications /\ workers[w] \in Worker
    BY DEF MarkUnavailable, GiveUp, MarkDelivered, Reschedule, IInv, TypeOK, Worker, Free
  <1>n. PICK n \in Notifications : n = workers[w].on
    BY <1>0
  <1>1. /\ RowOK(n) /\ rows[n] \in Row /\ rows[n].status # "NONE" /\ rows[n].status \in Statuses
        /\ workers[w].at = "GiveUp" => rows[n].attempts = MaxAttempts
        /\ workers[w].attempt \in 0..MaxAttempts
    BY <1>0, <1>n DEF IInv, TypeOK, WorkerOK, Row, Worker
  <1>2. "FAILED" \in Statuses /\ "DELIVERED" \in Statuses /\ "RETRY_SCHEDULED" \in Statuses
        /\ 0 \in 0..MaxAttempts
    BY MaxAttemptsAssumption DEF Statuses
  <1>3. UNCHANGED <<publishing, queue, emails, reachable>>
    BY DEF MarkUnavailable, GiveUp, MarkDelivered, Reschedule
  <1>4. CASE MarkUnavailable(w) \/ GiveUp(w)
    <2>n. PICK new \in Row : new = Failed(n)
      BY <1>1, <1>2, RowUpdates DEF Failed
    <2>1. /\ Write(n, new) /\ (n \in reachable => rows[n].attempts = MaxAttempts)
          /\ workers' = [workers EXCEPT ![w] = Free]
      BY <1>1, <1>4, <1>n, <2>n DEF MarkUnavailable, GiveUp, Acknowledge
    <2>2. /\ new.status = "FAILED" /\ new.attempts = rows[n].attempts
          /\ new.delivered = rows[n].delivered /\ new.failed = TRUE
      BY <1>1, <2>n DEF Failed, Row
    <2>3. /\ \A v \in Workers \ {w} : workers'[v] = workers[v]
          /\ workers'[w].at \notin {"Claimed", "Sent", "GiveUp"}
          /\ workers'[w] # Free => workers'[w].on = n
      BY <1>0, <2>1 DEF TypeOK, Free
    <2> QED
      BY <1>1, <1>3, <2>1, <2>2, <2>3, WriteKeeps
  <1>5. CASE MarkDelivered(w)
    <2>n. PICK new \in Row : new = [rows[n] EXCEPT !.status = "DELIVERED", !.delivered = TRUE]
      BY <1>1, <1>2, RowUpdates
    <2>1. Write(n, new)
          /\ (workers' = [workers EXCEPT ![w] = Free]
              \/ workers' = [workers EXCEPT ![w].at = "Failing"])
      BY <1>5, <1>n, <2>n DEF MarkDelivered, Acknowledge, Proceed
    <2>2. /\ new.status = "DELIVERED" /\ new.attempts = rows[n].attempts
          /\ new.delivered = TRUE /\ new.failed = rows[n].failed
      BY <1>1, <2>n DEF Row
    <2>3. /\ \A v \in Workers \ {w} : workers'[v] = workers[v]
          /\ workers'[w].at \notin {"Claimed", "Sent", "GiveUp"}
          /\ workers'[w] # Free => workers'[w].on = n
      BY <1>0, <1>n, <2>1 DEF TypeOK, Worker, Free
    <2> QED
      BY <1>1, <1>3, <2>1, <2>2, <2>3, WriteKeeps
  <1>6. CASE Reschedule(w)
    <2> DEFINE status == IF workers[w].at = "Reschedule" THEN "RETRY_SCHEDULED"
                         ELSE rows[n].status
    <2>n. PICK new \in Row : new = [rows[n] EXCEPT !.status = status, !.wait = workers[w].attempt]
      BY <1>1, <1>2, RowUpdates
    <2>1. Write(n, new)
          /\ (workers' = [workers EXCEPT ![w] = Free]
              \/ workers' = [workers EXCEPT ![w].at = "Retry"])
      BY <1>6, <1>n, <2>n DEF Reschedule, Acknowledge, Proceed
    <2>2. /\ new.status \in {"RETRY_SCHEDULED", rows[n].status}
          /\ new.attempts = rows[n].attempts
          /\ new.delivered = rows[n].delivered /\ new.failed = rows[n].failed
      BY <1>1, <2>n DEF Row
    <2>3. /\ \A v \in Workers \ {w} : workers'[v] = workers[v]
          /\ workers'[w].at \notin {"Claimed", "Sent", "GiveUp"}
          /\ workers'[w] # Free => workers'[w].on = n
      BY <1>0, <1>n, <2>1 DEF TypeOK, Worker, Free
    <2>4. new.status = "FAILED" /\ n \in reachable => new.attempts = MaxAttempts
      BY <1>1, <2>2 DEF RowOK
    <2> QED
      BY <1>1, <1>3, <2>1, <2>2, <2>3, <2>4, WriteKeeps
  <1> QED
    BY <1>4, <1>5, <1>6

(* The steps between the writes. *)
LEMMA QuietTaskKeeps ==
    ASSUME IInv, TypeOK', NEW w \in Workers,
           (\E k \in Notifications, m \in Message : Receive(w, k, m))
           \/ Ignore(w) \/ SkipLocked(w) \/ ReadForRetry(w) \/ Retry(w) \/ LoseRetry(w)
           \/ Crash(w) \/ Reconnect(w)
    PROVE  IInv' /\ Kept
  <1>0. TypeOK /\ workers[w] \in Worker /\ \A k \in Notifications : RowOK(k)
    BY DEF IInv, TypeOK
  <1>1. UNCHANGED <<rows, emails, reachable, publishing>>
    BY DEF Receive, Ignore, SkipLocked, ReadForRetry, Retry, LoseRetry, Crash, Reconnect
  <1>2. ASSUME \/ workers' = workers
               \/ \E x : workers' = [workers EXCEPT ![w] = x] /\ x.at # "Claimed",
               NEW k
        PROVE  Claims(k)' \subseteq Claims(k)
    BY <1>0, <1>2 DEF Claims, TypeOK
  <1>3. ASSUME queue' = queue, NEW k \in Notifications, rows[k].status = "NONE"
        PROVE  Unknown(k)'
    BY <1>0, <1>1, <1>3 DEF RowOK, Unknown
  <1>4. CASE \E k \in Notifications, m \in Message : Receive(w, k, m)
    <2>1. PICK n \in Notifications, m \in Message : Receive(w, n, m)
      BY <1>4
    <2>2. rows[n].status # "NONE"
      BY <1>0, <2>1 DEF RowOK, Unknown, Receive
    <2>3. /\ workers'[w].at = "Received" /\ workers'[w].on = n
          /\ \A v \in Workers \ {w} : workers'[v] = workers[v]
      BY <1>0, <2>1 DEF Receive, TypeOK
    <2>4. WorkerOK(w)'
      BY <1>1, <2>2, <2>3 DEF WorkerOK
    <2>5. \A k \in Notifications : Claims(k)' \subseteq Claims(k)
      BY <2>3 DEF Claims
    <2>6. ASSUME NEW k \in Notifications, rows[k].status = "NONE" PROVE Unknown(k)'
      <3>1. k # n
        BY <2>2, <2>6
      <3>2. queue'[k] = queue[k]
        BY <1>0, <2>1, <3>1 DEF Receive, TypeOK
      <3> QED
        BY <1>0, <1>1, <2>6, <3>2 DEF RowOK, Unknown
    <2> QED
      BY <1>1, <2>3, <2>4, <2>5, <2>6, QuietStep, KeptIfRowsStay
  <1>5. CASE Ignore(w) \/ SkipLocked(w)
    <2>1. queue' = queue /\ workers' = [workers EXCEPT ![w] = Free] /\ Free.at # "Claimed"
      BY <1>5 DEF Ignore, SkipLocked, Acknowledge, Free
    <2>2. \A k \in Notifications : Claims(k)' \subseteq Claims(k)
      BY <1>2, <2>1
    <2>3. \A v \in Workers : workers'[v] = workers[v] \/ WorkerOK(v)'
      BY <1>0, <2>1 DEF WorkerOK, TypeOK
    <2> QED
      BY <1>1, <1>3, <2>1, <2>2, <2>3, QuietStep, KeptIfRowsStay
  <1>6. CASE ReadForRetry(w)
    <2>1. PICK step \in {"GiveUp", "RescheduleAgain", "Reschedule"} :
            /\ workers' = [workers EXCEPT ![w].at = step]
            /\ step = "GiveUp" => rows[workers[w].on].attempts >= MaxAttempts
      BY <1>6 DEF ReadForRetry, Proceed
    <2>2. /\ workers[w] # Free /\ workers[w].on \in Notifications /\ queue' = queue
          /\ rows[workers[w].on] \in Row
      BY <1>0, <1>6 DEF ReadForRetry, Free, Worker, TypeOK
    <2>3. /\ workers'[w].at = step /\ workers'[w].on = workers[w].on
          /\ \A v \in Workers \ {w} : workers'[v] = workers[v]
      BY <1>0, <2>1, <2>2 DEF TypeOK, Worker
    <2>4. \A k \in Notifications : Claims(k)' \subseteq Claims(k)
      BY <2>3 DEF Claims
    <2>5. step = "GiveUp" => rows[workers[w].on].attempts = MaxAttempts
      BY <2>1, <2>2, MaxAttemptsAssumption DEF Row
    <2>6. WorkerOK(w)
      BY DEF IInv
    <2>7. WorkerOK(w)'
      BY <1>1, <2>2, <2>3, <2>5, <2>6 DEF WorkerOK
    <2> QED
      BY <1>1, <1>3, <2>2, <2>3, <2>4, <2>7, QuietStep, KeptIfRowsStay
  <1>7. CASE Retry(w) \/ LoseRetry(w) \/ Crash(w) \/ Reconnect(w)
    <2>1. workers' = workers \/ workers' = [workers EXCEPT ![w] = Free]
      BY <1>7 DEF Retry, LoseRetry, Crash, Reconnect, Acknowledge
    <2>2. workers[w] # Free
      BY <1>7 DEF Retry, LoseRetry, Crash, Reconnect, Free
    <2>3. workers[w].on \in Notifications /\ rows[workers[w].on].status # "NONE"
      BY <1>0, <2>2 DEF IInv, WorkerOK, Worker
    <2>4. queue' = queue \/ \E m : Enqueue(workers[w].on, m)
      BY <1>7 DEF Retry, LoseRetry, Crash, Reconnect
    <2>5. \A k \in Notifications : rows[k].status = "NONE" => Unknown(k)'
      BY <1>1, <1>3, <2>3, <2>4, EnqueueKnown
    <2>6. \A k \in Notifications : Claims(k)' \subseteq Claims(k)
      BY <1>2, <2>1 DEF Free
    <2>7. \A v \in Workers : workers'[v] = workers[v] \/ WorkerOK(v)'
      BY <1>0, <2>1 DEF WorkerOK, TypeOK
    <2> QED
      BY <1>1, <2>5, <2>6, <2>7, QuietStep, KeptIfRowsStay
  <1> QED
    BY <1>4, <1>5, <1>6, <1>7

LEMMA TaskKeeps ==
    ASSUME IInv, NEW w \in Workers,
           TaskStep(w) \/ SkipLocked(w) \/ LoseRetry(w) \/ Crash(w) \/ Reconnect(w)
    PROVE  IInv' /\ Kept
  BY TaskType, ClaimKeeps, SendKeeps, UpdateKeeps, QuietTaskKeeps DEF TaskStep

--------------------------------------------------------------------------------
(* The theorems.                                                           *)

LEMMA InitOK == Init => IInv
  <1> SUFFICES ASSUME Init PROVE IInv
    OBVIOUS
  <1>1. \A n \in Notifications : Claims(n) = {}
    BY DEF Init, Claims, Free
  <1>2. ASSUME NEW n \in Notifications PROVE RowOK(n)
    <2>1. emails[n] + Cardinality(Claims(n)) <= rows[n].attempts
      <3>1. Cardinality(Claims(n)) = 0
        BY <1>1, FS_EmptySet
      <3>2. emails[n] = 0 /\ rows[n].attempts = 0
        BY DEF Init
      <3> QED
        BY <3>1, <3>2
    <2>2. TerminalCheck(rows[n])
      BY DEF Init, TerminalCheck
    <2> QED
      BY <2>1, <2>2 DEF Init, RowOK, Unknown
  <1> QED
    BY <1>2, InitType DEF Init, IInv, WorkerOK

LEMMA NextKeeps == IInv /\ [Next]_vars => IInv' /\ (Kept \/ UNCHANGED vars)
  <1> SUFFICES ASSUME IInv, [Next]_vars PROVE IInv' /\ (Kept \/ UNCHANGED vars)
    OBVIOUS
  <1>1. CASE UNCHANGED vars
    <2>1. TypeOK'
      BY <1>1 DEF vars, IInv, TypeOK
    <2>2. \A k \in Notifications : Claims(k)' = Claims(k) /\ Unknown(k)' = Unknown(k)
      BY <1>1 DEF vars, Claims, Unknown
    <2>3. \A k \in Notifications : RowOK(k)
      BY DEF IInv
    <2>4. \A k \in Notifications : rows[k].status = "NONE" => Unknown(k)'
      BY <2>2, <2>3 DEF RowOK
    <2> QED
      BY <1>1, <2>1, <2>2, <2>4, QuietStep DEF vars
  <1>2. CASE Next
    <2>1. CASE \E n \in Notifications :
                 Discover(n) \/ Publish(n) \/ LosePublish(n) \/ Stall(n)
                 \/ \E a \in Attempts : Wait(n, a)
      BY <2>1, BeatKeeps
    <2>2. CASE Recover
      <3>1. PICK n \in Notifications : Stale(n)
        BY <2>2 DEF Recover
      <3> QED
        BY <2>2, <3>1, BeatKeeps
    <2>3. CASE \E w \in Workers :
                 TaskStep(w) \/ SkipLocked(w) \/ LoseRetry(w) \/ Crash(w) \/ Reconnect(w)
      BY <2>3, TaskKeeps
    <2> QED
      BY <1>2, <2>1, <2>2, <2>3 DEF Next
  <1> QED
    BY <1>1, <1>2

(* The inductive invariant of NotificationDelivery. *)
THEOREM Invariant == Spec => []IInv
  <1>1. IInv /\ [Next]_vars => IInv'
    BY NextKeeps
  <1> QED
    BY <1>1, InitOK, PTL DEF Spec

(* Every row, message and task is well formed, whatever fails. *)
THEOREM TypeCorrect == Spec => []TypeOK
  <1>1. IInv => TypeOK
    BY DEF IInv
  <1> QED
    BY <1>1, Invariant, PTL

(* A recipient gets at most one email per counted attempt, however often   *)
(* messages are delivered, leases recovered and workers outlive them.      *)
THEOREM OneEmailPerAttempt == Spec => []EmailsBounded
  <1>1. ASSUME IInv, NEW n \in Notifications PROVE emails[n] <= rows[n].attempts
    <2>1. Cardinality(Claims(n)) \in Nat
      BY ClaimsShrink DEF Claims
    <2>2. emails[n] \in Nat /\ rows[n].attempts \in Nat
      BY <1>1, MaxAttemptsAssumption DEF IInv, TypeOK, Row
    <2> QED
      BY <1>1, <2>1, <2>2 DEF IInv, RowOK
  <1>2. IInv => EmailsBounded
    BY <1>1 DEF EmailsBounded
  <1> QED
    BY <1>2, Invariant, PTL

(* A reminder of a reachable recipient fails only after its last attempt.  *)
THEOREM FailureIsExhaustion == Spec => []FailedMeansExhausted
  <1>1. IInv => FailedMeansExhausted
    BY DEF IInv, TypeOK, RowOK, FailedMeansExhausted
  <1> QED
    BY <1>1, Invariant, PTL

(* Delivered and failed are final, for every worker that outlives a lease. *)
THEOREM ResultsAreFinal == Spec => TerminalIsFinal
  <1>1. IInv /\ [Next]_vars =>
          [\A n \in Notifications :
             rows[n].status \in {"DELIVERED", "FAILED"} => rows'[n].status = rows[n].status]_vars
    BY NextKeeps DEF Kept
  <1> QED
    BY <1>1, Invariant, PTL DEF Spec, TerminalIsFinal

--------------------------------------------------------------------------------
(* NotificationDelivery implements Reminder.                               *)

(* A step that changes the outcome or the emails of one reminder. *)
LEMMA OutcomeStep ==
    ASSUME TypeOK, TypeOK', NEW n \in Notifications,
           \A k \in Notifications \ {n} : Outcome(k)' = Outcome(k) /\ emails'[k] = emails[k],
           \/ /\ Outcome(n) = "NONE" /\ Outcome(n)' = "OPEN" /\ emails'[n] = emails[n]
           \/ /\ Outcome(n) # "NONE" /\ Outcome(n)' = Outcome(n)
              /\ emails[n] < MaxAttempts /\ emails'[n] = emails[n] + 1
           \/ /\ Outcome(n) = "OPEN" /\ Outcome(n)' = "DELIVERED"
              /\ emails[n] > 0 /\ emails'[n] = emails[n]
           \/ /\ Outcome(n) = "OPEN" /\ Outcome(n)' = "FAILED" /\ emails'[n] = emails[n]
           \/ /\ Outcome(n)' = Outcome(n) /\ emails'[n] = emails[n]
    PROVE  [Promise!Next]_(Promise!vars)
  <1> DEFINE f == [k \in Notifications |-> Outcome(k)]
             g == [k \in Notifications |-> Outcome(k)']
  <1>0. f' = g
    OBVIOUS
  <1>1. g = [f EXCEPT ![n] = Outcome(n)'] /\ f[n] = Outcome(n)
    OBVIOUS
  <1>2. emails' = [emails EXCEPT ![n] = emails'[n]]
    BY DEF TypeOK
  <1>3. Outcome(n)' = Outcome(n) => g = f
    BY <1>1
  <1>4. emails'[n] = emails[n] => emails' = emails
    BY <1>2 DEF TypeOK
  <1> HIDE DEF f, g
  <1> QED
    BY <1>0, <1>1, <1>2, <1>3, <1>4
    DEF Promise!Next, Promise!vars, Promise!Announce, Promise!Email, Promise!Deliver,
        Promise!Fail, f

LEMMA OutcomeStays ==
    ASSUME UNCHANGED emails, \A k \in Notifications : Outcome(k)' = Outcome(k)
    PROVE  UNCHANGED Promise!vars
  BY DEF Promise!vars

(* An UPDATE changes one row at most. *)
LEMMA WriteOne ==
    ASSUME TypeOK, NEW n \in Notifications, NEW new, Write(n, new)
    PROVE  /\ \A k \in Notifications \ {n} : rows'[k] = rows[k]
           /\ rows'[n] = rows[n] \/ rows'[n] = new
  BY DEF Write, TypeOK

LEMMA BeatPromise ==
    ASSUME IInv, IInv', NEW n \in Notifications,
           Discover(n) \/ Publish(n) \/ LosePublish(n) \/ Stall(n)
           \/ (\E a \in Attempts : Wait(n, a)) \/ Recover
    PROVE  [Promise!Next]_(Promise!vars)
  <1>0. TypeOK /\ TypeOK' /\ \A k \in Notifications : rows[k] \in Row
    BY DEF IInv, TypeOK
  <1>1. CASE Discover(n)
    <2>1. Outcome(n) = "NONE" /\ Outcome(n)' = "OPEN"
      BY <1>0, <1>1 DEF Discover, Outcome, TypeOK, Row
    <2>2. \A k \in Notifications \ {n} : Outcome(k)' = Outcome(k)
      BY <1>0, <1>1 DEF Discover, Outcome, TypeOK
    <2> QED
      BY <1>0, <1>1, <2>1, <2>2, OutcomeStep DEF Discover
  <1>2. CASE Recover
    <2>1. ASSUME NEW k \in Notifications PROVE Outcome(k)' = Outcome(k)
      <3>1. rows'[k] = IF Stale(k) THEN [rows[k] EXCEPT !.status = "RETRY_SCHEDULED", !.wait = 0]
                       ELSE rows[k]
        BY <1>2 DEF Recover
      <3> QED
        BY <1>0, <3>1 DEF Stale, Outcome, Row
    <2> QED
      BY <1>2, <2>1, OutcomeStays DEF Recover
  <1>3. CASE Publish(n) \/ LosePublish(n) \/ Stall(n) \/ \E a \in Attempts : Wait(n, a)
    <2>1. UNCHANGED <<rows, emails>>
      BY <1>3 DEF Publish, LosePublish, Stall, Wait
    <2> QED
      BY <2>1, OutcomeStays DEF Outcome
  <1> QED
    BY <1>1, <1>2, <1>3

LEMMA TaskPromise ==
    ASSUME IInv, IInv', Kept, NEW w \in Workers,
           TaskStep(w) \/ SkipLocked(w) \/ LoseRetry(w) \/ Crash(w) \/ Reconnect(w)
    PROVE  [Promise!Next]_(Promise!vars)
  <1>0. TypeOK /\ TypeOK' /\ \A k \in Notifications : rows[k] \in Row /\ rows'[k] \in Row
    BY DEF IInv, TypeOK
  <1>1. CASE UNCHANGED <<rows, emails>>
    BY <1>1, OutcomeStays DEF Outcome
  <1> SUFFICES ASSUME Claim(w) \/ Send(w) \/ SendFails(w) \/ MarkUnavailable(w)
                      \/ GiveUp(w) \/ MarkDelivered(w) \/ Reschedule(w)
               PROVE  [Promise!Next]_(Promise!vars)
    BY <1>1 DEF TaskStep, Receive, Ignore, SkipLocked, ReadForRetry, Retry, LoseRetry, Crash,
                Reconnect
  <1>2. workers[w] # Free /\ workers[w].on \in Notifications
    BY <1>0 DEF Claim, Send, SendFails, MarkUnavailable, GiveUp, MarkDelivered, Reschedule,
                TypeOK, Worker, Free
  <1>n. PICK n \in Notifications : n = workers[w].on
    BY <1>2
  <1>3. /\ rows[n].status # "NONE"
        /\ workers[w].at = "Sent" => emails[n] > 0
        /\ rows[n].status \in {"DELIVERED", "FAILED"} => rows'[n].status = rows[n].status
    BY <1>2, <1>n DEF IInv, WorkerOK, Kept
  <1>4. Outcome(n) = "OPEN" \/ (Outcome(n) \in {"DELIVERED", "FAILED"} /\ Outcome(n)' = Outcome(n))
    BY <1>0, <1>3 DEF Outcome, Row, Statuses
  <1>5. CASE Claim(w)
    <2>1. /\ rows'[n].status = "DELIVERING" /\ Claimable(rows[n], Passed(n))
          /\ \A k \in Notifications \ {n} : rows'[k] = rows[k]
      BY <1>0, <1>5, <1>n DEF Claim, TypeOK, Row
    <2>2. \A k \in Notifications : Outcome(k)' = Outcome(k)
      BY <2>1 DEF Outcome, Claimable
    <2> QED
      BY <1>5, <2>2, OutcomeStays DEF Claim
  <1>6. CASE Send(w) \/ SendFails(w)
    <2>1. /\ \A k \in Notifications \ {n} : emails'[k] = emails[k]
          /\ emails'[n] = emails[n] + 1 \/ emails'[n] = emails[n] + 0
      BY <1>0, <1>6, <1>n DEF Send, SendFails, TypeOK
    <2>2. emails[n] < MaxAttempts
      <3>1. w \in Claims(n)
        BY <1>6, <1>n DEF Send, SendFails, Claims
      <3>2. {w} \subseteq Claims(n) /\ Cardinality({w}) = 1
        BY <3>1, FS_Singleton
      <3>3. Cardinality(Claims(n)) \in Nat /\ 1 <= Cardinality(Claims(n))
        BY <3>2, ClaimsShrink DEF Claims
      <3>4. /\ emails[n] \in Nat /\ rows[n].attempts \in 0..MaxAttempts
            /\ emails[n] + Cardinality(Claims(n)) <= rows[n].attempts
        BY <1>0 DEF IInv, RowOK, TypeOK, Row
      <3> QED
        BY <3>3, <3>4, MaxAttemptsAssumption
    <2>3. UNCHANGED rows
      BY <1>6 DEF Send, SendFails
    <2>4. \A k \in Notifications : Outcome(k)' = Outcome(k)
      BY <2>3 DEF Outcome
    <2>5. emails[n] \in Nat
      BY <1>0 DEF TypeOK
    <2> QED
      BY <1>0, <1>4, <2>1, <2>2, <2>4, <2>5, OutcomeStep
  <1>7. ASSUME UNCHANGED emails, NEW status, NEW new, new.status = status, Write(n, new),
               \/ status = "FAILED"
               \/ status = "DELIVERED" /\ emails[n] > 0
               \/ status \in {rows[n].status, "RETRY_SCHEDULED"}
        PROVE  [Promise!Next]_(Promise!vars)
    <2>1. /\ \A k \in Notifications \ {n} : rows'[k] = rows[k]
          /\ rows'[n].status \in {rows[n].status, status}
      BY <1>0, <1>7, WriteOne
    <2>2. \A k \in Notifications \ {n} : Outcome(k)' = Outcome(k) /\ emails'[k] = emails[k]
      BY <1>7, <2>1 DEF Outcome
    <2>3. \/ Outcome(n)' = Outcome(n)
          \/ Outcome(n) = "OPEN" /\ Outcome(n)' = "DELIVERED" /\ emails[n] > 0
          \/ Outcome(n) = "OPEN" /\ Outcome(n)' = "FAILED"
      BY <1>3, <1>4, <1>7, <2>1 DEF Outcome
    <2> QED
      BY <1>0, <1>7, <2>2, <2>3, OutcomeStep
  <1>8. CASE MarkUnavailable(w) \/ GiveUp(w)
    <2>n. PICK new : new = Failed(n)
      OBVIOUS
    <2>1. UNCHANGED emails /\ Write(n, new)
      BY <1>8, <1>n, <2>n DEF MarkUnavailable, GiveUp
    <2>2. new.status = "FAILED"
      BY <1>0, <2>n DEF Failed, Row
    <2> QED
      BY <1>7, <2>1, <2>2
  <1>9. CASE MarkDelivered(w)
    <2>n. PICK new : new = [rows[n] EXCEPT !.status = "DELIVERED", !.delivered = TRUE]
      OBVIOUS
    <2>1. UNCHANGED emails /\ Write(n, new) /\ emails[n] > 0
      BY <1>3, <1>9, <1>n, <2>n DEF MarkDelivered
    <2>2. new.status = "DELIVERED"
      BY <1>0, <2>n DEF Row
    <2> QED
      BY <1>7, <2>1, <2>2
  <1>10. CASE Reschedule(w)
    <2> DEFINE status == IF workers[w].at = "Reschedule" THEN "RETRY_SCHEDULED"
                         ELSE rows[n].status
    <2>n. PICK new : new = [rows[n] EXCEPT !.status = status, !.wait = workers[w].attempt]
      OBVIOUS
    <2>1. UNCHANGED emails /\ Write(n, new)
      BY <1>10, <1>n, <2>n DEF Reschedule
    <2>2. new.status \in {rows[n].status, "RETRY_SCHEDULED"}
      BY <1>0, <2>n DEF Row
    <2> QED
      BY <1>7, <2>1, <2>2
  <1> QED
    BY <1>5, <1>6, <1>8, <1>9, <1>10

(* Rows, queues, workers, leases and faults implement the promise made of  *)
(* a reminder: one result, no delivery without an email, and no more       *)
(* emails than attempts.                                                   *)
THEOREM PromiseKept == Spec => KeepsPromise
  <1>1. Init => Promise!Init
    BY DEF Init, Promise!Init, Outcome
  <1>2. IInv /\ IInv' /\ [Next]_vars => [Promise!Next]_(Promise!vars)
    <2> SUFFICES ASSUME IInv, IInv', [Next]_vars PROVE [Promise!Next]_(Promise!vars)
      OBVIOUS
    <2>1. CASE UNCHANGED vars
      BY <2>1, OutcomeStays DEF vars, Outcome
    <2>2. CASE \E n \in Notifications :
                 Discover(n) \/ Publish(n) \/ LosePublish(n) \/ Stall(n)
                 \/ \E a \in Attempts : Wait(n, a)
      BY <2>2, BeatPromise
    <2>3. CASE Recover
      <3>1. PICK n \in Notifications : Stale(n)
        BY <2>3 DEF Recover
      <3> QED
        BY <2>3, <3>1, BeatPromise
    <2>4. CASE \E w \in Workers :
                 TaskStep(w) \/ SkipLocked(w) \/ LoseRetry(w) \/ Crash(w) \/ Reconnect(w)
      BY <2>4, TaskKeeps, TaskPromise
    <2> QED
      BY <2>1, <2>2, <2>3, <2>4 DEF Next
  <1> QED
    BY <1>1, <1>2, Invariant, PTL DEF Spec, KeepsPromise, Promise!Spec

--------------------------------------------------------------------------------
(***************************************************************************)
(* Who may send a reminder while its lease has not expired, and how        *)
(* Celery's count of retries relates to the row's count of attempts.       *)
(***************************************************************************)

(* A task that claimed reminder n and has not written its result. *)
Holding == {"Claimed", "Sent", "Failing", "Reschedule", "RescheduleAgain", "GiveUp"}
Holds(x, n) == x.at \in Holding /\ x.on = n

(* The holders of a reminder hold different attempts of it, and are two    *)
(* only after a lease of it expired.                                       *)
LeaseOK(n, row, ws, expired) ==
    /\ \A w \in Workers : Holds(ws[w], n) => /\ ws[w].attempt <= row.attempts
                                             /\ expired = {} => row.status = "DELIVERING"
    /\ \A v, w \in Workers :
          Holds(ws[v], n) /\ Holds(ws[w], n) /\ v # w =>
             expired # {} /\ ws[v].attempt # ws[w].attempt

(* A message was retried once per counted attempt at most. *)
MessageOK(row, copies) == \A m \in Message : copies[m] > 0 => m.retries <= row.attempts

(* A claim counts one more attempt than its message has retries; a retry   *)
(* is decided while an attempt is left.                                    *)
RetryOK(x) ==
    x # Free =>
        /\ x.msg.retries <= rows[x.on].attempts
        /\ x.at # "Received" => x.msg.retries < rows[x.on].attempts
        /\ x.at \in {"Reschedule", "RescheduleAgain", "Retry"} => x.msg.retries < MaxAttempts - 1

LeaseInv ==
    /\ IInv
    /\ \A n \in Notifications : LeaseOK(n, rows[n], workers, stalled[n])
    /\ \A n \in Notifications : MessageOK(rows[n], queue[n])
    /\ \A w \in Workers : RetryOK(workers[w])

--------------------------------------------------------------------------------
(* Tasks.                                                                  *)

OthersWait(w) == \A v \in Workers \ {w} : workers'[v] = workers[v]

LEMMA Fields ==
    ASSUME TypeOK, NEW w \in Workers
    PROVE  /\ workers[w].at # "Free" <=> workers[w] # Free
           /\ workers[w] # Free => /\ workers[w].on \in Notifications
                                   /\ workers[w].msg \in Message
                                   /\ workers[w].msg.retries \in 0..MaxAttempts - 1
                                   /\ workers[w].attempt \in 0..MaxAttempts
                                   /\ rows[workers[w].on] \in Row
  BY TaskFields DEF TypeOK, Message

LEMMA Proceeds ==
    ASSUME TypeOK, NEW w \in Workers, workers[w] # Free, NEW step, Proceed(w, step)
    PROVE  /\ workers'[w].at = step /\ workers'[w].on = workers[w].on
           /\ workers'[w].msg = workers[w].msg /\ workers'[w].attempt = workers[w].attempt
           /\ OthersWait(w)
  <1>1. workers[w] \in [at: Steps, on: Notifications, msg: Message, attempt: 0..MaxAttempts]
    BY TaskFields DEF TypeOK
  <1>2. workers' = [workers EXCEPT ![w] = [workers[w] EXCEPT !.at = step]]
    BY DEF Proceed, TypeOK
  <1> QED
    BY <1>1, <1>2 DEF TypeOK, OthersWait

LEMMA Acknowledges ==
    ASSUME TypeOK, NEW w \in Workers, Acknowledge(w)
    PROVE  workers'[w] = Free /\ workers'[w].at = "Free" /\ OthersWait(w)
  BY DEF Acknowledge, TypeOK, OthersWait, Free

LEMMA Received ==
    ASSUME TypeOK, NEW w \in Workers, NEW n \in Notifications, NEW m \in Message,
           Receive(w, n, m)
    PROVE  /\ workers'[w].at = "Received" /\ workers'[w].on = n /\ workers'[w].msg = m
           /\ OthersWait(w)
  BY DEF Receive, TypeOK, OthersWait

LEMMA ClaimMoves ==
    ASSUME TypeOK, NEW w \in Workers, Claim(w)
    PROVE  LET n == workers[w].on IN
           /\ workers[w] # Free /\ n \in Notifications
           /\ workers'[w].at = "Claimed" /\ workers'[w].on = n
           /\ workers'[w].msg = workers[w].msg
           /\ workers'[w].attempt = rows[n].attempts + 1
           /\ rows'[n].status = "DELIVERING" /\ rows'[n].attempts = rows[n].attempts + 1
           /\ \A k \in Notifications \ {n} : rows'[k] = rows[k]
           /\ rows[n].status \in {"PENDING", "RETRY_SCHEDULED"}
           /\ OthersWait(w) /\ UNCHANGED <<queue, stalled>>
  <1> DEFINE x == workers[w]
             n == x.on
  <1>1. x # Free /\ n \in Notifications
    BY Fields DEF Claim
  <1>2. x \in [at: Steps, on: Notifications, msg: Message, attempt: 0..MaxAttempts]
    BY <1>1, TaskFields DEF TypeOK
  <1>3. /\ rows' = [rows EXCEPT ![n] =
              [rows[n] EXCEPT !.status = "DELIVERING", !.attempts = rows[n].attempts + 1]]
        /\ workers' = [workers EXCEPT ![w] =
              [x EXCEPT !.at = "Claimed", !.attempt = rows[n].attempts + 1]]
        /\ rows[n].status \in {"PENDING", "RETRY_SCHEDULED"}
        /\ UNCHANGED <<queue, stalled>>
    BY <1>1 DEF Claim, Claimable, TypeOK
  <1>4. PICK row, task :
          /\ row = [rows[n] EXCEPT !.status = "DELIVERING", !.attempts = rows[n].attempts + 1]
          /\ task = [x EXCEPT !.at = "Claimed", !.attempt = rows[n].attempts + 1]
    OBVIOUS
  <1>5. row.status = "DELIVERING" /\ row.attempts = rows[n].attempts + 1
    BY <1>1, <1>4 DEF TypeOK, Row
  <1>6. /\ task.at = "Claimed" /\ task.on = n /\ task.msg = x.msg
        /\ task.attempt = rows[n].attempts + 1
    BY <1>2, <1>4
  <1>7. workers'[w] = task /\ OthersWait(w)
    BY <1>3, <1>4 DEF TypeOK, OthersWait
  <1>8. rows'[n] = row /\ \A k \in Notifications \ {n} : rows'[k] = rows[k]
    BY <1>1, <1>3, <1>4 DEF TypeOK
  <1> QED
    BY <1>1, <1>3, <1>5, <1>6, <1>7, <1>8

(* The writes after a claim change one row, or are refused. *)
LEMMA Updates ==
    ASSUME TypeOK, NEW w \in Workers,
           MarkUnavailable(w) \/ GiveUp(w) \/ MarkDelivered(w) \/ Reschedule(w)
    PROVE  LET n == workers[w].on IN
           /\ workers[w] # Free /\ n \in Notifications
           /\ workers[w].at \in {"Claimed", "GiveUp", "Sent", "Reschedule", "RescheduleAgain"}
           /\ \A k \in Notifications \ {n} : rows'[k] = rows[k]
           /\ \/ workers'[w] = Free
              \/ /\ workers'[w].at = "Retry"
                 /\ workers[w].at \in {"Reschedule", "RescheduleAgain"}
              \/ workers'[w].at = "Failing" /\ UNCHANGED rows
           /\ workers'[w] # Free => /\ workers'[w].on = n /\ workers'[w].msg = workers[w].msg
                                    /\ workers'[w].attempt = workers[w].attempt
           /\ OthersWait(w) /\ UNCHANGED <<queue, stalled>>
  <1> DEFINE n == workers[w].on
  <1>1. workers[w] # Free /\ n \in Notifications
    BY Fields DEF MarkUnavailable, GiveUp, MarkDelivered, Reschedule
  <1>2. ASSUME NEW new, Write(n, new)
        PROVE  \A k \in Notifications \ {n} : rows'[k] = rows[k]
    BY <1>1, <1>2, WriteOne
  <1>3. UNCHANGED <<queue, stalled>> /\ \E new : Write(n, new)
    BY DEF MarkUnavailable, GiveUp, MarkDelivered, Reschedule
  <1>4. CASE MarkUnavailable(w) \/ GiveUp(w)
    <2>1. workers[w].at \in {"Claimed", "GiveUp"} /\ Acknowledge(w)
      BY <1>4 DEF MarkUnavailable, GiveUp
    <2> QED
      BY <1>1, <1>2, <1>3, <2>1, Acknowledges
  <1>5. CASE MarkDelivered(w)
    <2>1. /\ workers[w].at = "Sent"
          /\ Acknowledge(w) \/ (Proceed(w, "Failing") /\ UNCHANGED rows)
      BY <1>5 DEF MarkDelivered, Write
    <2> QED
      BY <1>1, <1>2, <1>3, <2>1, Acknowledges, Proceeds
  <1>6. CASE Reschedule(w)
    <2>1. /\ workers[w].at \in {"Reschedule", "RescheduleAgain"}
          /\ Acknowledge(w) \/ Proceed(w, "Retry")
      BY <1>6 DEF Reschedule
    <2> QED
      BY <1>1, <1>2, <1>3, <2>1, Acknowledges, Proceeds
  <1> QED
    BY <1>4, <1>5, <1>6

--------------------------------------------------------------------------------
(* Leases.                                                                 *)

LEMMA LeaseKept ==
    ASSUME NEW n, NEW row \in Row, NEW next \in Row, NEW ws, NEW new, NEW expired, NEW more,
           LeaseOK(n, row, ws, expired), expired \subseteq more, row.attempts <= next.attempts,
           \A w \in Workers : Holds(new[w], n) => /\ Holds(ws[w], n)
                                                  /\ new[w].attempt = ws[w].attempt
                                                  /\ ws[w].attempt \in Nat,
           next.status = row.status \/ more # {} \/ \A w \in Workers : ~Holds(new[w], n)
    PROVE  LeaseOK(n, next, new, more)
  <1>1. ASSUME NEW w \in Workers, Holds(new[w], n)
        PROVE  new[w].attempt <= next.attempts /\ (more = {} => next.status = "DELIVERING")
    <2>1. /\ new[w].attempt <= row.attempts /\ new[w].attempt \in Nat
          /\ expired = {} => row.status = "DELIVERING"
      BY <1>1 DEF LeaseOK
    <2>2. row.attempts \in Nat /\ next.attempts \in Nat
      BY MaxAttemptsAssumption DEF Row
    <2> QED
      BY <1>1, <2>1, <2>2
  <1>2. ASSUME NEW v \in Workers, NEW w \in Workers, Holds(new[v], n), Holds(new[w], n), v # w
        PROVE  more # {} /\ new[v].attempt # new[w].attempt
    BY <1>2 DEF LeaseOK
  <1> QED
    BY <1>1, <1>2 DEF LeaseOK

LEMMA HoldsFields ==
    ASSUME TypeOK
    PROVE  \A w \in Workers, n \in Notifications :
              Holds(workers[w], n) => workers[w] # Free /\ workers[w].attempt \in Nat
  BY Fields, MaxAttemptsAssumption DEF Holds, Holding

LEMMA BeatKeepsLease ==
    ASSUME LeaseInv, IInv', Kept, NEW n \in Notifications, NEW k \in Notifications,
           Discover(n) \/ Publish(n) \/ LosePublish(n) \/ Stall(n)
           \/ (\E a \in Attempts : Wait(n, a)) \/ Recover
    PROVE  LeaseOK(k, rows'[k], workers', stalled'[k])
  <1>1. /\ LeaseOK(k, rows[k], workers, stalled[k]) /\ TypeOK /\ TypeOK'
        /\ rows[k] \in Row /\ rows'[k] \in Row /\ rows[k].attempts <= rows'[k].attempts
    BY DEF LeaseInv, IInv, TypeOK, Kept
  <1>2. UNCHANGED workers
    BY DEF Discover, Publish, LosePublish, Stall, Wait, Recover
  <1>3. ASSUME stalled[k] \subseteq stalled'[k],
               \/ rows'[k].status = rows[k].status
               \/ stalled'[k] # {}
               \/ \A w \in Workers : ~Holds(workers[w], k)
        PROVE  LeaseOK(k, rows'[k], workers', stalled'[k])
    BY <1>1, <1>2, <1>3, HoldsFields, LeaseKept
  <1>4. CASE Discover(n)
    <2>1. /\ UNCHANGED stalled /\ rows[n].status = "NONE"
          /\ k # n => rows'[k] = rows[k]
      BY <1>1, <1>4 DEF Discover, TypeOK
    <2>2. ASSUME k = n, NEW w \in Workers PROVE ~Holds(workers[w], k)
      BY <1>1, <2>1, <2>2, HoldsFields DEF LeaseInv, IInv, WorkerOK, Holds
    <2> QED
      BY <1>3, <2>1, <2>2
  <1>5. CASE Publish(n) \/ LosePublish(n) \/ \E a \in Attempts : Wait(n, a)
    BY <1>3, <1>5 DEF Publish, LosePublish, Wait
  <1>6. CASE Stall(n)
    <2>1. UNCHANGED rows /\ stalled[k] \subseteq stalled'[k]
      BY <1>1, <1>6 DEF Stall, TypeOK
    <2> QED
      BY <1>3, <2>1
  <1>7. CASE Recover
    <2>1. UNCHANGED stalled /\ (rows'[k] = rows[k] \/ Stale(k))
      BY <1>7 DEF Recover
    <2> QED
      BY <1>3, <2>1 DEF Stale
  <1> QED
    BY <1>4, <1>5, <1>6, <1>7

LEMMA TaskKeepsLease ==
    ASSUME LeaseInv, IInv', Kept, NEW w \in Workers, NEW k \in Notifications,
           TaskStep(w) \/ SkipLocked(w) \/ LoseRetry(w) \/ Crash(w) \/ Reconnect(w)
    PROVE  LeaseOK(k, rows'[k], workers', stalled'[k])
  <1>1. /\ LeaseOK(k, rows[k], workers, stalled[k]) /\ TypeOK /\ TypeOK'
        /\ rows[k] \in Row /\ rows'[k] \in Row /\ rows[k].attempts <= rows'[k].attempts
    BY DEF LeaseInv, IInv, TypeOK, Kept
  <1>2. UNCHANGED stalled
    BY DEF TaskStep, Receive, Claim, Ignore, MarkUnavailable, Send, SendFails, MarkDelivered,
           ReadForRetry, GiveUp, Reschedule, Retry, SkipLocked, LoseRetry, Crash, Reconnect
  <1>3. ASSUME OthersWait(w), Holds(workers'[w], k) => /\ Holds(workers[w], k)
                                                       /\ workers'[w].attempt = workers[w].attempt,
               \/ rows'[k].status = rows[k].status
               \/ stalled[k] # {}
               \/ \A v \in Workers : ~Holds(workers'[v], k)
        PROVE  LeaseOK(k, rows'[k], workers', stalled'[k])
    <2>1. \A v \in Workers : Holds(workers'[v], k) => /\ Holds(workers[v], k)
                                                      /\ workers'[v].attempt = workers[v].attempt
                                                      /\ workers[v].attempt \in Nat
      BY <1>1, <1>3, HoldsFields DEF OthersWait
    <2> QED
      BY <1>1, <1>2, <1>3, <2>1, LeaseKept
  <1>4. CASE \E n \in Notifications, m \in Message : Receive(w, n, m)
    <2>1. /\ UNCHANGED rows /\ OthersWait(w) /\ workers'[w].at = "Received"
      BY <1>1, <1>4, Received DEF Receive
    <2> QED
      BY <1>3, <2>1 DEF Holds, Holding
  <1>5. CASE Ignore(w) \/ SkipLocked(w) \/ Retry(w) \/ LoseRetry(w) \/ Crash(w) \/ Reconnect(w)
    <2>1. UNCHANGED rows /\ (Acknowledge(w) \/ UNCHANGED workers)
      BY <1>5 DEF Ignore, SkipLocked, Retry, LoseRetry, Crash, Reconnect
    <2>2. OthersWait(w) /\ (workers'[w] = workers[w] \/ workers'[w].at = "Free")
      BY <1>1, <2>1, Acknowledges DEF OthersWait
    <2> QED
      BY <1>3, <2>1, <2>2 DEF Holds, Holding
  <1>6. CASE Send(w) \/ SendFails(w) \/ ReadForRetry(w)
    <2>1. /\ UNCHANGED rows /\ workers[w].at \in {"Claimed", "Failing"}
          /\ \E step : Proceed(w, step)
      BY <1>6 DEF Send, SendFails, ReadForRetry
    <2>2. /\ OthersWait(w) /\ workers'[w].on = workers[w].on
          /\ workers'[w].attempt = workers[w].attempt
      BY <1>1, <2>1, Fields, Proceeds
    <2> QED
      BY <1>3, <2>1, <2>2 DEF Holds, Holding
  <1>7. CASE MarkUnavailable(w) \/ GiveUp(w) \/ MarkDelivered(w) \/ Reschedule(w)
    <2>n. PICK n : n = workers[w].on
      OBVIOUS
    <2>1. /\ workers[w].at \in Holding /\ OthersWait(w)
          /\ k # n => rows'[k] = rows[k]
          /\ \/ workers'[w] = Free \/ workers'[w].at = "Retry"
             \/ UNCHANGED rows /\ workers'[w].on = n /\ workers'[w].attempt = workers[w].attempt
                /\ workers'[w].at = "Failing"
      BY <1>1, <1>7, <2>n, Updates DEF Holding, Free
    <2>2. Holds(workers'[w], k) => /\ Holds(workers[w], k) /\ UNCHANGED rows
                                   /\ workers'[w].attempt = workers[w].attempt
      BY <2>n, <2>1 DEF Holds, Holding, Free
    <2>3. ASSUME ~Holds(workers'[w], k), k = n, stalled[k] = {}, NEW v \in Workers
          PROVE  ~Holds(workers'[v], k)
      <3>1. Holds(workers[w], k)
        BY <2>n, <2>1, <2>3 DEF Holds
      <3> QED
        BY <1>1, <2>1, <2>3, <3>1 DEF LeaseOK, OthersWait
    <2> QED
      BY <1>3, <2>1, <2>2, <2>3
  <1>8. CASE Claim(w)
    <2>n. PICK n : n = workers[w].on
      OBVIOUS
    <2>1. /\ workers'[w].on = n /\ workers'[w].attempt = rows[n].attempts + 1
          /\ rows'[n].status = "DELIVERING" /\ rows'[n].attempts = rows[n].attempts + 1
          /\ k # n => rows'[k] = rows[k]
          /\ rows[n].status \in {"PENDING", "RETRY_SCHEDULED"} /\ OthersWait(w)
      BY <1>1, <1>8, <2>n, ClaimMoves
    <2>2. CASE k # n
      BY <1>3, <2>1, <2>2 DEF Holds
    <2>3. CASE k = n
      <3>1. rows[k].attempts \in Nat
        BY <1>1, MaxAttemptsAssumption DEF Row
      <3>2. ASSUME NEW v \in Workers \ {w}, Holds(workers'[v], k)
            PROVE  /\ workers'[v].attempt <= rows[k].attempts /\ workers'[v].attempt \in Nat
                   /\ stalled[k] # {}
        BY <1>1, <2>1, <2>3, <3>2, HoldsFields DEF LeaseOK, OthersWait
      <3>3. ASSUME NEW v \in Workers, Holds(workers'[v], k)
            PROVE  workers'[v].attempt <= rows'[k].attempts
        BY <2>1, <2>3, <3>1, <3>2, <3>3
      <3>4. ASSUME NEW u \in Workers, NEW v \in Workers, Holds(workers'[u], k),
                   Holds(workers'[v], k), u # v
            PROVE  stalled[k] # {} /\ workers'[u].attempt # workers'[v].attempt
        <4>1. CASE u = w \/ v = w
          BY <2>1, <2>3, <3>1, <3>2, <3>4, <4>1
        <4>2. CASE u # w /\ v # w
          BY <1>1, <2>1, <3>4, <4>2 DEF LeaseOK, OthersWait
        <4> QED
          BY <4>1, <4>2
      <3> QED
        BY <1>2, <2>1, <2>3, <3>3, <3>4 DEF LeaseOK
    <2> QED
      BY <2>2, <2>3
  <1> QED
    BY <1>4, <1>5, <1>6, <1>7, <1>8 DEF TaskStep

--------------------------------------------------------------------------------
(* Retries.                                                                *)

LEMMA EnqueueAdds ==
    ASSUME TypeOK, NEW n \in Notifications, NEW m \in Message, Enqueue(n, m),
           NEW k \in Notifications, NEW i \in Message, queue'[k][i] > 0
    PROVE  queue[k][i] > 0 \/ (k = n /\ i = m)
  <1>1. queue' = [queue EXCEPT ![n] = [queue[n] EXCEPT ![m] = queue[n][m] + 1]]
    BY DEF Enqueue, TypeOK
  <1>2. queue[n] \in [Message -> Nat] /\ queue \in [Notifications -> [Message -> Nat]]
    BY DEF TypeOK
  <1> QED
    BY <1>1, <1>2

(* What a step may add to the queue. *)
Publishes(n, m) == UNCHANGED queue \/ (n \in Notifications /\ m \in Message /\ Enqueue(n, m))

LEMMA MessagesKept ==
    ASSUME LeaseInv, TypeOK', Kept, NEW n, NEW m, Publishes(n, m),
           n \in Notifications /\ m \in Message => m.retries <= rows'[n].attempts
    PROVE  \A k \in Notifications : MessageOK(rows'[k], queue'[k])
  <1> SUFFICES ASSUME NEW k \in Notifications, NEW i \in Message, queue'[k][i] > 0
               PROVE  i.retries <= rows'[k].attempts
    BY DEF MessageOK
  <1>1. TypeOK /\ rows[k] \in Row /\ rows'[k] \in Row
    BY DEF LeaseInv, IInv, TypeOK
  <1>2. /\ i.retries \in Nat /\ rows[k].attempts \in Nat /\ rows'[k].attempts \in Nat
        /\ rows[k].attempts <= rows'[k].attempts
    BY <1>1, MaxAttemptsAssumption DEF Kept, Message, Row
  <1>3. CASE queue[k][i] > 0
    <2>1. i.retries <= rows[k].attempts
      BY <1>3 DEF LeaseInv, MessageOK
    <2> QED
      BY <1>2, <2>1
  <1>4. CASE ~(queue[k][i] > 0)
    BY <1>1, <1>4, EnqueueAdds DEF Publishes
  <1> QED
    BY <1>3, <1>4

(* A task that its worker leaves alone. *)
LEMMA RetryKept ==
    ASSUME LeaseInv, TypeOK', Kept, NEW v \in Workers, workers'[v] = workers[v]
    PROVE  RetryOK(workers[v])'
  <1>1. TypeOK /\ RetryOK(workers[v])
    BY DEF LeaseInv, IInv
  <1> SUFFICES ASSUME workers[v] # Free PROVE RetryOK(workers[v])'
    BY DEF RetryOK
  <1>2. PICK n \in Notifications : n = workers[v].on
    BY <1>1, Fields
  <1>3. /\ workers[v].msg.retries \in Nat
        /\ rows[n].attempts \in Nat /\ rows'[n].attempts \in Nat
        /\ rows[n].attempts <= rows'[n].attempts
    BY <1>1, <1>2, Fields, MaxAttemptsAssumption DEF Kept, TypeOK, Row
  <1> QED
    BY <1>1, <1>2, <1>3 DEF RetryOK

LEMMA BeatKeepsRetries ==
    ASSUME LeaseInv, IInv', Kept, NEW n \in Notifications,
           Discover(n) \/ Publish(n) \/ LosePublish(n) \/ Stall(n)
           \/ (\E a \in Attempts : Wait(n, a)) \/ Recover
    PROVE  /\ \A k \in Notifications : MessageOK(rows'[k], queue'[k])
           /\ \A w \in Workers : RetryOK(workers[w])'
  <1>1. TypeOK /\ TypeOK'
    BY DEF LeaseInv, IInv
  <1>2. UNCHANGED workers /\ (UNCHANGED queue \/ Enqueue(n, First))
    BY DEF Discover, Publish, LosePublish, Stall, Wait, Recover
  <1>3. First \in Message /\ First.retries = 0 /\ rows'[n].attempts \in Nat
    BY <1>1, MaxAttemptsAssumption DEF First, Message, TypeOK, Row
  <1>4. Publishes(n, First) /\ First.retries <= rows'[n].attempts
    BY <1>2, <1>3 DEF Publishes
  <1> QED
    BY <1>1, <1>2, <1>4, MessagesKept, RetryKept

LEMMA TaskKeepsRetries ==
    ASSUME LeaseInv, IInv', Kept, NEW w \in Workers,
           TaskStep(w) \/ SkipLocked(w) \/ LoseRetry(w) \/ Crash(w) \/ Reconnect(w)
    PROVE  /\ \A k \in Notifications : MessageOK(rows'[k], queue'[k])
           /\ \A v \in Workers : RetryOK(workers[v])'
  <1>1. TypeOK /\ TypeOK' /\ RetryOK(workers[w])
    BY DEF LeaseInv, IInv
  <1>2. ASSUME OthersWait(w), RetryOK(workers[w])'
        PROVE  \A v \in Workers : RetryOK(workers[v])'
    BY <1>1, <1>2, RetryKept DEF OthersWait
  <1>3. ASSUME UNCHANGED queue PROVE \A k \in Notifications : MessageOK(rows'[k], queue'[k])
    <2>1. PICK n : n \notin Notifications
      BY NoSetContainsEverything
    <2> QED
      BY <1>1, <1>3, <2>1, MessagesKept DEF Publishes
  <1>4. RetryOK(Free)'
    BY DEF RetryOK
  <1>5. \A k \in Notifications : /\ rows[k].attempts \in Nat /\ rows'[k].attempts \in Nat
                                 /\ rows[k].attempts <= rows'[k].attempts
    BY <1>1, MaxAttemptsAssumption DEF TypeOK, Row, Kept
  <1>n. PICK n : n = workers[w].on
    OBVIOUS
  <1>m. PICK m : m = workers[w].msg
    OBVIOUS
  <1>6. workers[w] # Free => /\ n \in Notifications /\ m \in Message
                             /\ m.retries \in Nat /\ m.retries <= rows[n].attempts
                             /\ workers[w].at # "Received" => m.retries < rows[n].attempts
                             /\ workers[w].at \in {"Reschedule", "RescheduleAgain", "Retry"} =>
                                   m.retries < MaxAttempts - 1
                             /\ workers[w].attempt \in 0..MaxAttempts
    BY <1>1, <1>n, <1>m, Fields, MaxAttemptsAssumption DEF RetryOK
  <1>7. CASE \E k \in Notifications, i \in Message : Receive(w, k, i)
    <2>1. PICK k \in Notifications, i \in Message : Receive(w, k, i)
      BY <1>7
    <2>2. /\ UNCHANGED rows /\ workers'[w].at = "Received" /\ workers'[w].on = k
          /\ workers'[w].msg = i /\ OthersWait(w) /\ queue[k][i] > 0
      BY <1>1, <2>1, Received DEF Receive
    <2>3. \A l \in Notifications, j \in Message : queue'[l][j] > 0 => queue[l][j] > 0
      <3>1. queue' = [queue EXCEPT ![k] = [queue[k] EXCEPT ![i] = queue[k][i] - 1]]
        BY <1>1, <2>1 DEF Receive, TypeOK
      <3>2. queue[k] \in [Message -> Nat] /\ queue \in [Notifications -> [Message -> Nat]]
        BY <1>1 DEF TypeOK
      <3> QED
        BY <2>2, <3>1, <3>2
    <2>4. \A l \in Notifications : MessageOK(rows'[l], queue'[l])
      BY <2>2, <2>3 DEF LeaseInv, MessageOK
    <2>5. RetryOK(workers[w])'
      BY <2>2 DEF LeaseInv, MessageOK, RetryOK
    <2> QED
      BY <1>2, <2>2, <2>4, <2>5
  <1>8. CASE Ignore(w) \/ SkipLocked(w) \/ LoseRetry(w)
    <2>1. UNCHANGED queue /\ Acknowledge(w)
      BY <1>8 DEF Ignore, SkipLocked, LoseRetry
    <2> QED
      BY <1>1, <1>2, <1>3, <1>4, <2>1, Acknowledges DEF RetryOK
  <1>9. CASE Crash(w) \/ Reconnect(w)
    <2>1. /\ workers[w] # Free /\ Enqueue(n, m)
          /\ Acknowledge(w) \/ UNCHANGED workers
      BY <1>9, <1>n, <1>m DEF Crash, Reconnect
    <2>2. Publishes(n, m) /\ m.retries <= rows'[n].attempts
      BY <1>5, <1>6, <2>1 DEF Publishes
    <2>3. OthersWait(w) /\ RetryOK(workers[w])'
      <3>1. CASE Acknowledge(w)
        BY <1>1, <3>1, Acknowledges DEF RetryOK
      <3>2. CASE UNCHANGED workers
        BY <1>1, <3>2, RetryKept DEF OthersWait
      <3> QED
        BY <2>1, <3>1, <3>2
    <2> QED
      BY <1>1, <1>2, <2>2, <2>3, MessagesKept
  <1>10. CASE Retry(w)
    <2> DEFINE again == [retries |-> m.retries + 1, wait |-> workers[w].attempt]
    <2>1. /\ workers[w].at = "Retry" /\ workers[w] # Free
          /\ UNCHANGED queue \/ Enqueue(n, again)
          /\ Acknowledge(w)
      BY <1>1, <1>10, <1>n, <1>m, Fields DEF Retry
    <2>2. again \in Message /\ again.retries <= rows'[n].attempts
      BY <1>5, <1>6, <2>1, MaxAttemptsAssumption DEF Message
    <2> HIDE DEF again
    <2>3. Publishes(n, again)
      BY <1>6, <2>1, <2>2 DEF Publishes
    <2> QED
      BY <1>1, <1>2, <2>1, <2>2, <2>3, Acknowledges, MessagesKept DEF RetryOK
  <1>11. CASE Claim(w)
    <2>1. /\ workers[w] # Free /\ workers'[w].at = "Claimed" /\ workers'[w].on = n
          /\ workers'[w].msg = m /\ rows'[n].attempts = rows[n].attempts + 1
          /\ OthersWait(w) /\ UNCHANGED queue
      BY <1>1, <1>11, <1>n, <1>m, ClaimMoves
    <2>2. m.retries <= rows'[n].attempts /\ m.retries < rows'[n].attempts
      BY <1>5, <1>6, <2>1
    <2>3. RetryOK(workers[w])'
      BY <2>1, <2>2 DEF RetryOK
    <2> QED
      BY <1>2, <1>3, <2>1, <2>3
  <1>12. CASE Send(w) \/ SendFails(w) \/ ReadForRetry(w)
    <2>1. /\ UNCHANGED <<rows, queue>> /\ workers[w].at \in {"Claimed", "Failing"}
          /\ \E step \in {"Sent", "Failing", "GiveUp", "Reschedule", "RescheduleAgain"} :
                /\ Proceed(w, step)
                /\ step \in {"Reschedule", "RescheduleAgain"} =>
                      ~(rows[n].attempts >= MaxAttempts)
      BY <1>12, <1>n DEF Send, SendFails, ReadForRetry
    <2>2. PICK step \in {"Sent", "Failing", "GiveUp", "Reschedule", "RescheduleAgain"} :
                /\ Proceed(w, step)
                /\ step \in {"Reschedule", "RescheduleAgain"} =>
                      ~(rows[n].attempts >= MaxAttempts)
      BY <2>1
    <2>3. workers[w] # Free
      BY <1>1, <2>1, Fields
    <2>4. /\ workers'[w].at = step /\ workers'[w].on = n /\ workers'[w].msg = m
          /\ OthersWait(w)
      BY <1>1, <1>n, <1>m, <2>2, <2>3, Proceeds
    <2>5. step \in {"Reschedule", "RescheduleAgain"} => m.retries < MaxAttempts - 1
      BY <1>5, <1>6, <2>1, <2>2, <2>3, MaxAttemptsAssumption
    <2>6. RetryOK(workers[w])'
      BY <1>6, <2>1, <2>2, <2>3, <2>4, <2>5 DEF RetryOK
    <2> QED
      BY <1>2, <1>3, <2>1, <2>4, <2>6
  <1>13. CASE MarkUnavailable(w) \/ GiveUp(w) \/ MarkDelivered(w) \/ Reschedule(w)
    <2>1. /\ workers[w] # Free /\ n \in Notifications
          /\ workers[w].at \in {"Claimed", "GiveUp", "Sent", "Reschedule", "RescheduleAgain"}
          /\ \/ workers'[w] = Free
             \/ workers'[w].at = "Retry" /\ workers[w].at \in {"Reschedule", "RescheduleAgain"}
             \/ workers'[w].at = "Failing"
          /\ workers'[w] # Free => workers'[w].on = n /\ workers'[w].msg = m
          /\ OthersWait(w) /\ UNCHANGED queue
      BY <1>1, <1>13, <1>n, <1>m, Updates
    <2>2. m.retries <= rows'[n].attempts /\ m.retries < rows'[n].attempts
      BY <1>5, <1>6, <2>1
    <2>3. RetryOK(workers[w])'
      BY <1>6, <2>1, <2>2 DEF RetryOK
    <2> QED
      BY <1>2, <1>3, <2>1, <2>3
  <1> QED
    BY <1>7, <1>8, <1>9, <1>10, <1>11, <1>12, <1>13 DEF TaskStep

--------------------------------------------------------------------------------
(* The theorems.                                                           *)

(* Leases, messages and tasks agree with the rows, whatever fails: an      *)
(* inductive invariant on top of IInv.                                     *)
THEOREM LeaseInvariant == Spec => []LeaseInv
  <1>1. Init => LeaseInv
    <2> SUFFICES ASSUME Init PROVE LeaseInv
      OBVIOUS
    <2>1. IInv
      BY InitOK
    <2>2. \A w \in Workers : workers[w] = Free /\ Free.at = "Free"
      BY DEF Init, Free
    <2>3. \A n \in Notifications : LeaseOK(n, rows[n], workers, stalled[n])
      BY <2>2 DEF LeaseOK, Holds, Holding
    <2>4. \A n \in Notifications : MessageOK(rows[n], queue[n])
      BY DEF Init, MessageOK
    <2> QED
      BY <2>1, <2>2, <2>3, <2>4 DEF LeaseInv, RetryOK
  <1>2. LeaseInv /\ [Next]_vars => LeaseInv'
    <2> SUFFICES ASSUME LeaseInv, [Next]_vars PROVE LeaseInv'
      OBVIOUS
    <2>1. CASE UNCHANGED vars
      <3>1. IInv'
        BY <2>1, NextKeeps DEF LeaseInv
      <3> QED
        BY <2>1, <3>1 DEF vars, LeaseInv, RetryOK
    <2>2. CASE \E n \in Notifications :
                 Discover(n) \/ Publish(n) \/ LosePublish(n) \/ Stall(n)
                 \/ \E a \in Attempts : Wait(n, a)
      <3>1. PICK n \in Notifications :
                 Discover(n) \/ Publish(n) \/ LosePublish(n) \/ Stall(n)
                 \/ \E a \in Attempts : Wait(n, a)
        BY <2>2
      <3>2. IInv' /\ Kept
        BY <3>1, BeatKeeps DEF LeaseInv
      <3> QED
        BY <3>1, <3>2, BeatKeepsLease, BeatKeepsRetries DEF LeaseInv
    <2>3. CASE Recover
      <3>1. PICK n \in Notifications : Stale(n)
        BY <2>3 DEF Recover
      <3>2. IInv' /\ Kept
        BY <2>3, <3>1, BeatKeeps DEF LeaseInv
      <3> QED
        BY <2>3, <3>1, <3>2, BeatKeepsLease, BeatKeepsRetries DEF LeaseInv
    <2>4. CASE \E w \in Workers :
                 TaskStep(w) \/ SkipLocked(w) \/ LoseRetry(w) \/ Crash(w) \/ Reconnect(w)
      <3>1. PICK w \in Workers :
                 TaskStep(w) \/ SkipLocked(w) \/ LoseRetry(w) \/ Crash(w) \/ Reconnect(w)
        BY <2>4
      <3>2. IInv' /\ Kept
        BY <3>1, TaskKeeps DEF LeaseInv
      <3> QED
        BY <3>1, <3>2, TaskKeepsLease, TaskKeepsRetries DEF LeaseInv
    <2> QED
      BY <2>1, <2>2, <2>3, <2>4 DEF Next
  <1> QED
    BY <1>1, <1>2, PTL DEF Spec

(* Two workers never send the same attempt (claim_for_delivery), and none  *)
(* sends a reminder that another is sending while no lease has expired.    *)
THEOREM OneSenderAtATime == Spec => []OneSender
  <1>1. LeaseInv => OneSender
    BY DEF LeaseInv, LeaseOK, OneSender, Sending, Holds, Holding
  <1> QED
    BY <1>1, LeaseInvariant, PTL

(* A retry that schedule_retry has committed is never refused by Celery's  *)
(* max_retries, although messages are counted apart from attempts.         *)
THEOREM RetriesAreAllowed == Spec => []RetriesAgree
  <1>1. LeaseInv => RetriesAgree
    BY DEF LeaseInv, RetryOK, RetriesAgree, Free
  <1> QED
    BY <1>1, LeaseInvariant, PTL

================================================================================
