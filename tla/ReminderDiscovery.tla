--------------------------- MODULE ReminderDiscovery ---------------------------
(***************************************************************************)
(* The scan that finds what is due and inserts its reminders               *)
(* (ReminderDiscoveryService and the four candidate queries of             *)
(* NotificationRepository).  Beat starts it every minute whether or not an *)
(* earlier one has ended, so several scans overlap; between a query and    *)
(* the insertions of what it found work is finished and rescheduled.       *)
(* NotificationDelivery takes a reminder from its insertion on.            *)
(***************************************************************************)
EXTENDS Naturals, Permissions

CONSTANTS
    Users,
    Role,       \* the role of each user in the workspace
    Items,      \* actions, reviews, decisions and voting sessions
    Kind,       \* the kind of each
    People,     \* the assignee of an action, the voters of a session
    Scans,
    Window,     \* reminder_window_minutes
    MaxTime     \* bound: the clock

VARIABLES
    now,
    items,      \* whether each item is open, and when it is due
    inserted,   \* idempotency keys of the reminders in the table
    published,  \* how often each key was put into the queue
    scans       \* what each scan has found and not yet inserted

discoveryVars == <<now, items, inserted, published, scans>>

--------------------------------------------------------------------------------
Times == 0..MaxTime

Kinds == {"ACTION_DUE", "DECISION_REVIEW", "DECISION_DEADLINE", "VOTING_CLOSE"}

(* idempotency_key of a candidate, whose kind is that of its source. *)
Key == [recipient: Users, source: Items, due: Times]

(* The order of the loaders in discover. *)
After(kind) ==
    CASE kind = "ACTION_DUE" -> "DECISION_REVIEW"
      [] kind = "DECISION_REVIEW" -> "DECISION_DEADLINE"
      [] kind = "DECISION_DEADLINE" -> "VOTING_CLOSE"
      [] kind = "VOTING_CLOSE" -> "end"

Asleep == [next |-> "none", at |-> 0, found |-> {}]

Init ==
    /\ now = 0
    /\ items \in [Items -> [open: {TRUE}, due: {1, MaxTime}]]
    /\ inserted = {}
    /\ published = [key \in Key |-> 0]
    /\ scans = [s \in Scans |-> Asleep]

--------------------------------------------------------------------------------
(* What the rest of the program does to the items. *)

Tick == now < MaxTime /\ now' = now + 1 /\ UNCHANGED <<items, inserted, published, scans>>

FinishItem(i) ==
    /\ items[i].open
    /\ items' = [items EXCEPT ![i].open = FALSE]
    /\ UNCHANGED <<now, inserted, published, scans>>

RescheduleItem(i, t) ==
    /\ items[i].open
    /\ t # items[i].due
    /\ items' = [items EXCEPT ![i].due = t]
    /\ UNCHANGED <<now, inserted, published, scans>>

--------------------------------------------------------------------------------
(* The queries: open items due after at and not after at + Window, with    *)
(* whom they concern.                                                      *)

Due(kind, at) ==
    {i \in Items : /\ Kind[i] = kind
                   /\ items[i].open
                   /\ items[i].due > at
                   /\ items[i].due <= at + Window}

Candidates(kind, at) ==
    {key \in Key : key.source \in Due(kind, at) /\ key.due = items[key.source].due}

DueActions(at) == {key \in Candidates("ACTION_DUE", at) : key.recipient \in People[key.source]}

DueReviews(at) == {key \in Candidates("DECISION_REVIEW", at) : Role[key.recipient] \in Managers}

DueDecisions(at) == {key \in Candidates("DECISION_DEADLINE", at) : Role[key.recipient] \in Writers}

DueVotings(at) == {key \in Candidates("VOTING_CLOSE", at) : key.recipient \in People[key.source]}

Loaded(kind, at) ==
    CASE kind = "ACTION_DUE" -> DueActions(at)
      [] kind = "DECISION_REVIEW" -> DueReviews(at)
      [] kind = "DECISION_DEADLINE" -> DueDecisions(at)
      [] kind = "VOTING_CLOSE" -> DueVotings(at)

--------------------------------------------------------------------------------
(* A scan.                                                                 *)

StartScan(s) ==
    /\ scans[s] = Asleep
    /\ scans' = [scans EXCEPT ![s] = [next |-> "ACTION_DUE", at |-> now, found |-> {}]]
    /\ UNCHANGED <<now, items, inserted, published>>

LoadCandidates(s) ==
    /\ scans[s].next \in Kinds
    /\ scans[s].found = {}
    /\ scans' = [scans EXCEPT ![s] =
          [next |-> After(@.next), at |-> @.at, found |-> Loaded(@.next, @.at)]]
    /\ UNCHANGED <<now, items, inserted, published>>

(* Seeded fault: the insertion does not say on_conflict_do_nothing on the  *)
(* key, and returns a row each time.                                       *)
InsertableAnyway(key) == TRUE

(* uq_notifications_idempotency_key *)
Insertable(key) == key \notin inserted

(* create_candidate commits each reminder by itself; only a row that was   *)
(* inserted is published.                                                  *)
CreateCandidate(s, key) ==
    /\ key \in scans[s].found
    /\ inserted' = inserted \cup {key}
    /\ published' = IF Insertable(key) THEN [published EXCEPT ![key] = @ + 1] ELSE published
    /\ scans' = [scans EXCEPT ![s].found = @ \ {key}]
    /\ UNCHANGED <<now, items>>

(* The worker is lost between the commit and the publication. *)
LoseAfterInsert(s, key) ==
    /\ key \in scans[s].found
    /\ Insertable(key)
    /\ inserted' = inserted \cup {key}
    /\ scans' = [scans EXCEPT ![s] = Asleep]
    /\ UNCHANGED <<now, items, published>>

EndScan(s) ==
    /\ scans[s].next = "end"
    /\ scans[s].found = {}
    /\ scans' = [scans EXCEPT ![s] = Asleep]
    /\ UNCHANGED <<now, items, inserted, published>>

ScanStep(s) ==
    \/ StartScan(s) \/ LoadCandidates(s) \/ EndScan(s)
    \/ \E key \in Key : CreateCandidate(s, key) \/ LoseAfterInsert(s, key)

Next ==
    \/ Tick
    \/ \E i \in Items : FinishItem(i) \/ \E t \in Times : RescheduleItem(i, t)
    \/ \E s \in Scans : ScanStep(s)

Spec == Init /\ [][Next]_discoveryVars

--------------------------------------------------------------------------------
(* Items, reminders and scans are well formed. *)
TypeOK ==
    /\ now \in Times
    /\ items \in [Items -> [open: BOOLEAN, due: Times]]
    /\ inserted \subseteq Key
    /\ published \in [Key -> Nat]
    /\ scans \in [Scans -> [next: Kinds \cup {"none", "end"}, at: Times, found: SUBSET Key]]

(* README: "Only a newly inserted row is published to RabbitMQ".  Whatever *)
(* scans overlap, and however often work is moved to another time and      *)
(* back, one occasion is published once, and only after its insertion      *)
(* (discover, create_candidate).                                           *)
PublishedOnce == \A key \in Key : published[key] <= (IF key \in inserted THEN 1 ELSE 0)

================================================================================
