# ForkRoom: specification and verification

This directory models the backend of ForkRoom, where teams write decisions,
argue about proposals, vote, lock an approved outcome, and review it later. TLA+
modules describe the parts whose correctness depends on what concurrent requests,
workers and crashes do to shared rows and keys; TLC checks them on small instances,
and TLAPS proves the central facts for every instance.

## The system

A FastAPI process serves requests. Each has its own SQLAlchemy session on
PostgreSQL at READ COMMITTED: a handler reads rows, checks its guards in Python
and commits at the end, mostly without locking what it read. At the commit
SQLAlchemy writes only the attributes that differ from what was read, and the
constraints of the tables are the only check made against the rows as they are then.
Celery workers and a Beat scheduler do the background work through RabbitMQ with
late acknowledgements; Redis holds single-use tokens, refresh families and meeting
rooms; a Node process relays collaborative drafts.

| Component | State | Operations | What is hard | What must hold |
|---|---|---|---|---|
| Decision lifecycle (`services/decision.py`) | `decisions` | create, update, transition, delete | a status read is stale when it is written over | terminal statuses, editing rules, a lock is permanent |
| Proposals (`services/proposal.py`) | `proposals`, criteria, scores | create, update, submit, withdraw, delete, order criteria, score, compare | deletion against opening; positions computed from an earlier read | choices of a session exist; criteria keep distinct positions |
| Objections (`services/objection.py`) | `objections` and their history | create, update, resolve, dismiss, reopen | raised while voting opens or a decision is locked | no unresolved blocking concern is skipped |
| Voting (`services/voting.py`) | `voting_sessions`, snapshots, `votes` | create, open, cast, close, cancel, result | two sessions, close against cancel, late ballots, deadlines, membership changes | one unfinished session, frozen snapshots, one legitimate ballot per voter |
| Decision locks (`services/decision_lock.py`) | `decision_locks` | lock, verify | reads in several statements, stale transitions over a lock | lock and status agree; the outcome it approved stands |
| Workspaces (`services/workspace.py`) | `workspaces`, `workspace_members` | create, delete, add, change role, remove | rows checked by one request and rewritten by another | the owner keeps the one OWNER membership |
| Reminders (`services/notification.py`, `workers/tasks.py`) | `notifications`, the queue | discover, claim, send, retry, fail, recover | overlapping scans, lost workers, duplicate and lost messages, leases that expire under a slow worker | one reminder per occasion, bounded emails, final results, every reminder ends |
| Integration outbox (`services/integration_delivery.py`) | outbox events, deliveries | stage, dispatch, deliver, retry, recover | stale overwrites, duplicated dispatch, exhausted attempts | one delivery per event and connection |
| Integration administration (`services/integration.py`) | OAuth states, connections, subscriptions | authorize, connect, test, subscribe, disconnect | a row held through calls to the provider | an active connection has credentials |
| Actions and reviews (`services/action_review.py`) | actions, reviews, revisions | edit, transition, schedule, cancel, complete, revise | competing transitions, revision numbers read before the commit | terminal statuses, one chain of revisions |
| Attachments (`services/attachment.py`) | `attachments`, objects | upload, complete, process, reject, delete, recover | lost workers and messages, late writes | no file stays in processing |
| Exports (`services/export_search.py`) | `decision_exports` | request, claim, render, fail, recover | claims taken over while the first worker renders | every export settles and an available one stays |
| Search (`services/export_search.py`) | search documents | refresh, index | an index time later than its source | the index catches up |
| Authentication (`services/auth.py`) | users, refresh families, emailed links in Redis | register, sign in, refresh, log out, verify, reset | one token presented twice, resets between check and issue | a refresh token is exchanged once |
| Google sign-in (`services/google_oauth.py`) | `oauth_accounts` | link, sign in | two first sign-ins, or one and a registration | one identity is one user |
| Meetings (`routes/v1/meetings.py`) | rooms in Redis | join, heartbeat, speak, time, leave | locks that expire, users with several connections, keys with a TTL | the participant limit, the speaking queue |
| Comments and mentions (`services/comment.py`) | comments, mentions, their notices | create, edit, delete, mark | overlapping edits and deletions | the inbox follows the mentions |
| Collaborative drafts (`services/collaboration.py`) | documents of the Node process | issue a token, store | a token outlives the permission | not modelled |

The components meet in a few places. Transitions, session openings, closes and
locks insert an outbox event in their own transaction. Voting reads
memberships, proposals and objections, and the lock reads voting. Reminders
read decisions, sessions, actions and reviews to find what is due. Reviews start
from locks and begin new decisions. Exports render the lock's snapshot, and search
documents copy decisions and proposals. Permissions are functions of the
workspace role.

## Modules

| Module | Models |
|---|---|
| `Permissions` | the role predicates of `permissions/` |
| `Governance` | one decision with its proposals, objections, sessions, ballots and lock, and the requests that race on them |
| `Evaluation` | the criteria of a decision, their order, and scores |
| `DecisionReview` | reviews of locked decisions and the revisions they start |
| `ImplementationAction` | actions of a locked decision |
| `Workspaces` | a workspace and its members |
| `Discussion` | comments, mentions and the two inboxes |
| `Sessions` | refresh token families and password resets |
| `Accounts` | registration, emailed links, Google identities |
| `MeetingRoom` | a live room in Redis |
| `IntegrationConnections` | OAuth states, connections, subscriptions |
| `ReminderDiscovery` | the scans that insert reminders |
| `NotificationDelivery` | reminder rows, their messages, the workers and the recovery job |
| `Reminder` | what is promised of a reminder, without rows, queues or workers |
| `IntegrationOutbox` | outbox events, deliveries, the two integration tasks and their recovery task |
| `Attachments`, `DecisionExports`, `SearchIndex` | the other background tasks, with the requests that start them |
| `Services`, `Background` | compositions of the services and of the background systems, with their properties |
| `GovernanceProofs`, `NotificationProofs`, `IntegrationProofs`, `MeetingProofs`, `SessionsProofs`, `WorkspacesProofs`, `ServicesProofs`, `BackgroundProofs` | theorems |
| `MCGovernance`, `MCGovernanceScenarios` | initial states and the operations that race, for TLC, and two scenarios in one run |
| `MCServices` | an instance of `Services` for TLC; `Background` needs none |
| `MCNotificationDelivery`, `MCIntegrationOutbox`, `MCMeetingPresence` | instances for TLC |

All modules of requests have one form. A handler's reads and guards are one action,
which leaves in the state of the request what it knows; its commit is another, which
writes the attributes the handler assigned over the rows as they have become, under
the constraints of the tables; a handler that awaits in between, or reads in several
statements that matter, has an action for each. A request that only reads is left
out, and so is one that is refused. Some operators are marked as seeded faults: a
plausible bug of the operator below it, which the properties are tested with and no
specification uses.

### Governance

State: `role` (workspace_members), `decision`, `proposal`, `objection`,
`session` (voting_sessions with eligible voters and choices), `ballots` (votes),
`lock` (decision_locks), `outbox` (staged events), and `pending`, what each
request in flight has read and is about to write.

Every operation of the services is an action that reads committed rows, checks
the handler's guards in its order, and puts the write in `pending`; a second
action, `Commit...`, applies the write to the rows as they are then. Only the
columns that the handler assigned change, as SQLAlchemy's UPDATE does. The table
constraints (`DecisionCheck`, `SessionCheck`, `UnfinishedIndex`, `HasVoted`,
`Referenced`, `Fresh`) are the guards of the commit; `Rollback` ends a request
that fails one of them or whose process dies. All reads of a handler are one
step, except those of the lock, whose objection check (with the session), vote
count and tally are three.

Abstractions: texts are members of `Contents`; timestamps are Booleans that say
whether they are set, and `closed_at` and `archived_at` of decisions are left
out; time is the action `Deadline`, which makes a session expire. The history
rows of objections are left out; criteria and scores are in `Evaluation`. An identity is inserted
once, and a bound on identities bounds the model. A decision that voting refers
to cannot be deleted, because a session's choices RESTRICT the deletion of its
proposals. The unique index of the outbox refuses a repeated activation, opening
or close; a lock's event has an identity of its own and is never refused.
Membership changes of `services/workspace.py` are one step here and the workspace
exists throughout; `Workspaces` has their two steps.

### NotificationDelivery

State: `rows` (notifications), `publishing` (committed by a scheduler task that
is about to enqueue them), `queue` (copies of each message), `workers` (between
which statements of `deliver_notification` each is), `emails` (what the mail
server took), and the environment: `reachable`, `waited`, `stalled`, `faults`.

A worker receives a message, claims the row in one transaction, sends, and
records the result; a failure is read and decided in one step and written in a
later one, then the retry is published. `MarkDelivered` reads and writes in one
step: the two orders of another worker's commit between them write the same row.
`TerminalCheck` is the constraint that refuses a write over a finished row, and
a refused write is an error of the task like any other. Messages carry Celery's
count of retries, rows the count of attempts.

`available_at` is the attempt whose countdown has to pass; a lease is the attempt
that took it, and `Stall` says that ten minutes have passed. Faults are a lost
worker (its message is delivered again), a lost connection (the message is
delivered again while the task runs on), a lost publication, and a claim that
passes over the row because another transaction holds it.

`Reminder` is the abstract specification: a reminder is announced, emailed at most
as often as attempts are allowed, and ends once, delivered only after an email.
`KeepsPromise` says that `NotificationDelivery` implements it, with the row's
status, seen as open or ended, for the outcome. Mentions are inserted
as delivered and never enter the queue. The queries that find what is due are in
`ReminderDiscovery`, and the inbox with its read state is in `Discussion`.

### IntegrationOutbox

State: `outbox` (integration_outbox_events), `deliveries` (integration_deliveries,
one for each event and connection), `connected` (active connections),
`publishing` (staged by a request that is about to enqueue them), `queue`,
`workers`, `job` (the recovery task), `posts` (what Slack took), and the history
`overtaken` (deliveries of which a claim was freed).

A worker's message is for an event or for a delivery. Claims are one transaction
under a row lock; the fan-out reads and commits in two steps; a post is followed
by its own commit. The error path is a session of its own that reads, decides and
writes in two steps, and then retries or rejects. The recovery task reads stale
claims, commits, and lists and enqueues what is ready. All writes but the claims are
by primary key, so each of these gaps lets a stale decision overwrite a row.
`CommitFanOut` is refused when a delivery exists already, by the unique constraint.

`waiting` says that `available_at` or `next_retry_at` has not come and `stale` that
`updated_at` is five minutes old. A retry's message may come at any time: an early one
is ignored, and the recovery task finds the row. Identical messages count as one,
because that task may add any number of copies while a row is ready. Connections are
active at first and may be revoked; a disabled subscription acts on dispatch like a
revoked connection, and connecting again is left out because an old event is not owed
to a new subscriber. Selection limits (100 rows) are left out.

### Requests around the decision

`DecisionReview`: `decisions` (their status), `reviews`, `revisions` and `requests`.
Completing a review reads it, then reads the root and the highest revision number, then
commits the review, the new decision and the revision together. The four unique
constraints of `decision_revisions`, the partial index of scheduled reviews and the
check of terminal reviews refuse commits. `BecomeDue` is the scheduled time.

`ImplementationAction`: an action's status, assignee and the two timestamps that its
check ties to the status. `Evaluation`: the position of each criterion, whose unique
constraint is deferred to the commit, and the scores, which go with their criterion;
names, weights and values are single attributes and are left out.

`Workspaces`: `owner`, membership rows, and `errands`, the rows that a request has read
and is about to change. A removed row keeps its identity, so a late role change finds
nothing to write (`StaleDataError`).

`Discussion`: comments, one mention row for each comment and user, and the notice that
is written with it. A deletion, and an edit that changes the comment, hold the row's
lock while the mentions are read and rewritten; an edit that changes nothing does not.
When a draft decision or a draft proposal is deleted, the foreign keys take its comments
and their mentions along (`CascadeComments`), once no request holds the row of one of
them; a request that then writes such a row fails (`Rollback`). Notifications name a
mention in `source_id` without a foreign key, so these notices stay in the inbox.

### Requests around the user

`Sessions`: a refresh token is known by its family and place. `Consume` is Redis' SET
NX, and reading the user, signing the next pair and revoking a family are steps of
their own. Token expiry is left out: nothing becomes possible by it.

`Accounts`: users by email, `links` (the token keys in Redis), `current` (the key that
names a user's last link), `sent`, `accounts` (`oauth_accounts`), and the history
`signedIn`. Issuing a link is four Redis commands.

`MeetingRoom`: the five Redis keys of a room and what each connection is doing; a step
is one command or one pipeline. `FallSilent` is a presence score that has passed,
`LockExpires` a join lock that outlives its holder's patience, `KeysExpire` the TTL
that a join gives the keys, `Die` a lost process. The order of the speaker queue is left
out: the key is the number of entries of each user, which is what the limits are about.

`IntegrationConnections`: OAuth states, connections (status and whether a token is
held), subscriptions, and `granted`, whether the provider accepts the token. A request
holds the row it read through its calls to the provider.

### Background tasks

`ReminderDiscovery`: a clock, the items that may be due, the idempotency keys in the
table, and what each overlapping scan has found and not yet inserted.

`Attachments` and `DecisionExports` have a row, the requests that start the work, the
queue, workers with their claims, retries and failures, and the recovery task; they
differ in the claim (a status for files; a status, a time and a row lock for exports).
An object in the bucket is missing or has the declared or another size.

`SearchIndex`: documents hold the number of the change they were made from, and
`behind`, the comparison of `indexed_at` with `updated_at`. `updated_at` is the time
at which the changing transaction began, so a change can commit after an indexing and
be older than it. `raced` remembers the decisions to which that, or the deletion of a
proposal, happened.

## Runs

| Run | Bounds | Shows |
|---|---|---|
| `governance_lock` | 3 requests, 2 users, 2 proposals, 1 open session, quorum 60, the operations that race for the lock | lock and status agree, the approved outcome stands with a quorum of its voters, ballots are legitimate, locks are permanent |
| `governance_voting` | racing over voting: 2 requests, 2 sessions, 2 users whose membership changes; one after the other: every operation from an empty workspace, 1 request at a time, 1 session, no membership change, 2 contents | one unfinished session, frozen snapshots, final sessions, existing choices, well-formed rows |
| `archived_reopened` (violation) | 2 requests that transition an active decision | an archived decision is closed by a transition that read it while it was active |
| `late_concern` (violation) | 2 requests | a blocking objection slips between the lock's check and its commit |
| `late_ballot` (violation) | 2 requests, quorum 50 | a ballot commits after the lock and ties the approved winner |
| `notification_faults` | 1 reminder, 2 workers, 3 attempts, 1 fault of any kind | emails bounded by attempts, failure only when exhausted, one sender per lease, retries never refused, results final, and `Reminder` implemented |
| `notification_abandoned` (violation) | 1 worker, 2 attempts, 1 crash | a worker lost during the last attempt leaves the row delivering for ever |
| `integration_faults` | 1 event, 1 connection, 2 workers, 2 attempts, 1 fault of any kind | attempts and posts bounded, subscribers reached, a delivered message reopened only after its claim was freed |
| `background` | reminders: 2 workers, 3 attempts, 1 duplicated message; outbox: 1 worker, 2 attempts, 1 fault; attachments: 1 file, 2 requests, 1 worker, 2 attempts, 1 fault; exports: 1 request, 2 workers, 2 attempts, 1 fault; search: 3 changes, 2 workers, 1 fault | reminders end, events and deliveries settle, files leave processing, exports settle and available ones stay, documents catch up |
| `services` | 2 requests, or 2 connections of a room; 3 decisions, 2 reviews, 2 users, 2 identities, 2 emails, 2 links, 2 refreshes of a family, 2 resets, 1 comment and 3 texts, 3 membership rows, 3 criteria, 1 provider account | the chain of revisions, terminal reviews and actions, the limits of a room, one live token per family, one user per Google identity, notices that follow mentions except of comments deleted with a draft, the owner's membership, credentials of active connections, one publication per occasion, order of criteria |
| `stale_search` (violation) | 1 decision, 3 changes, 2 workers, 1 fault | a change committed while its decision is indexed is never indexed |
| `meeting_presence` (violation) | 1 participant with 1 connection | the keys of a room expire under a participant who sends every heartbeat |

Three requests are what the lock needs: itself, one that invalidates what it
read, and one that the other enabled. Two sessions are what their index and the
revote need; two users make a quorum of 60 percent round up to both and a quorum
of 50 percent round to one. `governance_lock` and `governance_voting` begin in
states that sequential requests reach (`ActiveInit`, `OpenInit`). The second scenario of
`governance_voting` (`MCGovernanceScenarios`) begins with nothing and fires every
operation of the services that `Governance` models, one request after the other (members
change in the other scenario); it is there for the shape of the rows, and what
races is left to the other scenario and to the other runs. Three
attempts let one lease expire, be taken over, and expire again; the two workers
are the one whose lease expired and the one that replaced it. Reminders share
only the pool of workers, so one is enough. The same holds of events, and of the
deliveries of one event, which meet only in the fan-out. Two attempts are a stale one
and a last one, between which every late write falls. A single worker is enough for
the liveness of the outbox and of attachments, because the recovery task races with it;
exports need two, because a claim is taken over under the first.

In `services` and `background` every behaviour runs one service or system and the
others stand still, since they share no state: the run is the union of its parts.
`Services` and `Background` state what they assume of their constants (no member is one
of the marks `none` and `deleted`, a room starts within its limit, bounds are natural
numbers), which TLC evaluates in these runs and the proofs use. Two
requests are the race of a stale write with a fresh one, and three decisions are a
root with two revisions. Three criteria are a reorder with one created and one deleted.
A room is run twice: with two users and a third already in it for the limit, and with
two connections of one user for the queue. A room begins with its `Crowd`
in it, who joined before the run.

The three governance violations are one race: handlers check what they read and nothing
checks again at the commit unless a constraint does. So `archived`, which README line 313
calls terminal, is terminal only for requests that do not overlap: a transition that read
an active decision closes it after another archived it. A fourth case has no run of its
own: an edit that read an active decision commits after the decision was closed, although
closed decisions cannot be edited (README, line 315).

Deadlock is not checked: requests may all be idle, identities used up, and
reminders, events, files and exports finished.

## Fairness

`Governance` and the services have none, because clients promise nothing; their
properties are safety. The background systems assume weak fairness of each worker's
task steps (Celery keeps taking messages), of time, and of the job that Beat runs
(every minute for integrations and search, every five for reminders, files and
exports). `NotificationDelivery` also assumes it of publication after a commit, and
`SearchIndex` of transactions, which end. Nothing is assumed about discovery, about
faults, about requests, or about whether a send, a post or a check of a file succeeds.

Liveness of reminders is claimed for runs in which no worker and no message is lost,
because the code has no answer to three cases, which the hazards list: a lost first
publication, a worker lost between committing and publishing a retry, and a worker lost
in the last attempt, which is the violation run. The recovery tasks of the other systems
list every unfinished row, so `EverythingSettles`, `EveryFileSettles` and
`EveryExportSettles` hold although a message, worker or request is lost. One state is
beyond the outbox's: a retry written late over a delivery without attempts left is never
listed, and `DeliverySettled` counts it as settled. `EveryFileSettles` says that a file
leaves processing for good, not that a deleted one stays deleted: a worker that hashed
a file while it was deleted marks it available, which the hazards list.
`QuietChangesAreIndexed` excludes the changes that `stale_search` shows to be lost.

## Proofs

`GovernanceProofs` proves for every set of users, requests, proposals and
sessions and every quorum (`OwnerAssumption`, `FiniteAssumption`,
`QuorumAssumption`):

| Theorem | States |
|---|---|
| `Invariant` | `IInv` is inductive |
| `TypeCorrect`, `LockAndStatusAgree`, `OutcomeStands`, `QuorumStands`, `LegitimateBallots`, `ChoicesAreKept`, `OneSessionAtATime` | the invariants of the runs |
| `LockStays`, `SnapshotStays`, `FinishedStays` | the action properties of the runs |

The invariants are not inductive alone: a commit is right because of what its
request read earlier. `IInv` is `TypeOK`, `RowsOK` (the facts that relate rows:
snapshots of opened sessions, counts, ballots, the lock) and, for each request,
`TxnOK`: the facts its handler read that no other commit can undo. The proof has
two halves. For the request that moves, each action establishes its `TxnOK` or
uses it to keep `RowsOK`. For the others, `Kept` says what a step never undoes (a
closed session stays closed, snapshots of opened sessions stay, ballots and
locks stay), and from `Kept` the facts of every other request survive. What a
request reads and others may undo, such as an open objection or an active
status, is not in `TxnOK`, and the violation runs show why it cannot be.
The lock's guard compares votes with a rounded number (`Required`); `LockedWithQuorum`
compares percentages without rounding (`QuorumReached`), and `MetIsReached` proves that
the code's rounding never lets a lock pass below the quorum.

`NotificationProofs` proves for every set of reminders, every finite set of
workers, every number of attempts and any faults (`MaxAttemptsAssumption`,
`WorkersAssumption`, `FaultsAssumption`):

| Theorem | States |
|---|---|
| `Invariant` | `IInv` is inductive |
| `TypeCorrect`, `OneEmailPerAttempt`, `FailureIsExhaustion` | the invariants `TypeOK`, `EmailsBounded`, `FailedMeansExhausted` |
| `ResultsAreFinal` | the action property `TerminalIsFinal` |
| `PromiseKept` | `NotificationDelivery` implements `Reminder` |

`EmailsBounded` is not inductive: a claim counts the attempt before its email is
sent. `RowOK` therefore counts the workers that have claimed a row and not sent
yet together with its emails, and bounds the sum by the attempts; `WorkerOK` holds
what a worker may rely on later, that its row exists, that an email went out
before it marks the delivery, and that the attempts were used up when it gives
up. `Kept` (attempts and emails never fall, a row never disappears, a result never
changes) carries these facts over the steps of the other workers. Each step then
maps to one step of `Reminder` or to a stutter.

`LeaseInvariant` adds to `IInv` that the workers that hold a reminder hold different
attempts of it, and are two only after a lease expired; that no message has been retried
more often than its row counts attempts; and that a retry is decided while an attempt is
left. `OneSenderAtATime` (`OneSender`) and `RetriesAreAllowed` (`RetriesAgree`) follow.

`IntegrationProofs` proves for every set of events and connections, every finite set
of workers, every number of attempts and any faults:

| Theorem | States |
|---|---|
| `Invariant` | `IInv` is inductive |
| `TypeCorrect`, `AttemptsAreBounded`, `PostsAreBounded`, `SubscribersAreReached` | the invariants of the run |
| `DeliveriesStay` | the action property `DeliveredStays` |

The bound on attempts is not inductive, because a claim does not look at the attempts
and late writes reopen an exhausted row. `RowOK` counts what may still be written over
a delivery once its attempts are used up (an open row, workers about to schedule a
retry, the recovery task about to), and bounds the sum by the attempts plus the
workers: each worker can be late once. It also counts posts with the claims that have
not posted, and says that a delivery whose claim was not freed has one worker.
`TargetsOK` says that a fan-out about to commit misses no active connection but those
with a delivery already. `EventsAssumption` says that events and deliveries are
different things.

`MeetingProofs` proves that a room exceeds the participant limit by the lapses of the
join lock at most (`CapacityIsHeld`) and that a user waits at most once for each of its
connections (`SpeakersAreBounded`), for any limit and any finite sets. Neither is
inductive: a joiner counts the participants first and adds one in a later command.
`RoomInv` counts the participants with the one that the holder of the lock is about to
add and with the joiners that have lost the lock and not added yet, and bounds the sum by
the limit plus the lapses; each such joiner has cost a lapse. `QueueInv` adds a user's
entries in the queue to its connections that saw none and are about to push one, and
bounds the sum by its connections.

`SessionsProofs` proves for any users, families and requests that a family has at most
one token to exchange or request in exchange (`OneLiveToken`). The invariant adds that
two tokens of a family are never both unused, which holds because a request in exchange
has consumed the last one. `WorkspacesProofs` proves that the owner keeps the one
OWNER membership (`OwnerIsKept`): no request in progress has read the owner's row as
one that it may change, because ownership is never given to another row. These three
modules have hypotheses on their constants, which stand in the theorems;
`ServicesProofs` instantiates them, and the assumptions of `Services` discharge the
hypotheses.

`ServicesProofs` is about the composition `ServicesSpec`, for any users, rows and
requests. A step of one service leaves the variables of the others alone (the frame
lemmas), so every behaviour of the composition is a behaviour of each service
(`ComponentSpecs`), and what holds of a service holds of the composition. It proves all
twelve properties of the run `services`:

| Theorem | States | Rests on |
|---|---|---|
| `ServicesWellFormed` | `ServicesTypeOK` | all the invariants below |
| `ChainsHold`, `RevisionsAreKept` | `RevisionsFormAChain`, `RevisionsStand` | `ReviewInv`: what a request has read is stale when it commits, but (`Extending`) its root and number extend the chain of the decision, or that decision was revised meanwhile and the unique predecessor refuses the commit |
| `FinishedOnce` | `EndsOnce` | `ReviewsEnd`, and `ActionInv`: every action passes the checks of its table, which refuse a late transition over a finished one |
| `MeetingsKeepLimits` | `MeetingLimits` | `MeetingProofs` |
| `FamiliesAreLinear` | `OneLiveTokenPerFamily` | `SessionsProofs` |
| `OwnersStay` | `OwnerStays` | `WorkspacesProofs` |
| `ActiveConnectionsHaveTokens` | `ActiveHasToken` | `ConnectionInv`: a request that tests or disconnects has read usable credentials, and whoever has read a row finds it again |
| `IdentitiesAgree` | `SignInsAgree` | `AccountInv`: who signed in has a row of `oauth_accounts`, whose constraints keep identities and users one to one |
| `NoticesAndMentionsAgree` | `NoticesFollowMentions` | `DiscussionInv`: the property with well-formed rows; every commit writes a mention and its notice together, and only a cascade, which leaves its comment gone for good, separates them |
| `OccasionsArePublishedOnce` | `PublishedOnce` | `DiscoveryInv`: the property with well-formed scans |
| `OrdersStay` | `CriteriaStayInOrder` | `EvaluationInv`: positions are below the number of criteria created so far |

`BackgroundProofs` is about files, exports and search documents under `FairSpec`, for any
numbers of them, of workers, requests, attempts and faults. `SystemSpecs` is the
argument of `ComponentSpecs` again.

| Theorem | States |
|---|---|
| `BackgroundWellFormed` | `TypeOK` |
| `AvailableExportsStay` | `AvailableExportIsFinal`, the safety half of `ExportsSettleForGood` |
| `QuietChangesAreListed` | a document that is not up to date is stale, unless a change escaped the comparison of times |

`ExportInv` adds the check of `decision_exports` to well-formed rows: a reset or a failure
decided on an older row would leave `completed_at` on a row that is not available, so the
table refuses it. `IndexInv` carries the safety half of `QuietChangesAreIndexed`: a
change marks its document as stale unless its time is older than the last indexing, and
what a task is about to write is current unless a change was committed since it read.
From there only the fairness of the refresh and of the tasks is needed, and that part is
model-checked. `OnlyCommitted` is what the types need: a decision is listed, and a task
begins, only once it was created.

Only model-checked: all liveness, which is beyond the prover (the five properties of
`background`, whose safety halves are proved for exports and the index). The refinement
is proved for safety, which is all that `Reminder` states. The violation runs are
counterexamples and have nothing to prove.

## Not modelled

- Collaborative drafts: document convergence is the Yjs library's, and the server
  stores what it is handed. That a token keeps the write permission of the moment it was
  issued is listed as a hazard.
- Routes, controllers and schemas, health checks and metrics: parsing, layout and
  wrapping around the services.
- Objection history rows, edits of a criterion's name and weight, the computed
  comparison, the renaming of workspaces, listings and searches: they read, or write one
  attribute that nothing else depends on. The search document of a decision leaves out
  its objections, which README line 598 lists; the modules say nothing of what it copies.
- What should become of the notices of a comment deleted with its draft: no text says, so
  the property only excepts them, and a hazard lists them.
- Rate limits, token expiry, signatures, encryption, provider calls and their
  responses, the PDF layout, metrics and deployment: input and output around external
  services. Google's single-use state never reaches the tables.

## Plan

1. Attachments against deletion: state what the code should promise of a deleted file and
   give the race a run of its own in place of a weaker one.
2. Objection history with the transitions of `Governance`.
3. What a lost publication leaves of a reminder and of an event, as invariants that
   separate the rows the recovery jobs list from those they do not, and their proofs.
