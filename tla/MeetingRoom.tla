------------------------------- MODULE MeetingRoom -------------------------------
(***************************************************************************)
(* The live meeting of a decision: WebSocket connections of any API        *)
(* process share a room kept in Redis (routes/v1/meetings and              *)
(* repositories/meeting).                                                  *)
(*                                                                         *)
(* One step is one Redis command or one transactional pipeline.  A         *)
(* connection handles its own events one after the other; connections      *)
(* interleave freely, also those of one user.  Signals and relayed events  *)
(* change no state and are left out, and so is a refused connection that   *)
(* never had the join lock.  The speaker queue is known by how often it    *)
(* has each user: its order is shown to clients and nothing depends on it. *)
(***************************************************************************)
EXTENDS Naturals, FiniteSets

CONSTANTS
    Participants,     \* users with a meeting token
    Connections,
    UserOf,           \* whose token a connection brought
    Role,             \* their roles, as of the token
    Crowd,            \* who is in the room when the run starts
    MaxParticipants,  \* meeting_max_participants
    MaxLapses         \* a bound on how often a lock outlives its holder's patience

VARIABLES
    present,    \* hash :participants
    presence,   \* sorted set :presence, by whether the score has passed
    speakers,   \* list :speakers, by how often it has each user
    timer,      \* string :timer
    expiring,   \* which of the four keys expire three TTLs after the last join
    joinLock,   \* who holds :join-lock
    lapses,     \* locks that expired under a joiner still at work
    conns       \* what each connection is doing

meetingVars == <<present, presence, speakers, timer, expiring, joinLock, lapses, conns>>

--------------------------------------------------------------------------------
Keys == {"participants", "presence", "speakers", "timer"}

Nobody == "nobody"

(* The permission a token carries: facilitate, observe or participate. *)
Permission(u) ==
    CASE Role[u] \in {"OWNER", "ADMIN"} -> "FACILITATE"
      [] Role[u] = "VIEWER" -> "OBSERVE"
      [] OTHER -> "PARTICIPATE"

Joining == {"Prune", "Remove", "Check", "Add", "Release"}
Reading == {"PruneAgain", "RemoveAgain", "ReadTimer", "DropTimer"}
Steps == {"Off", "Open", "Push"} \cup Joining \cup Reading

Connection == [at: Steps, stale: SUBSET Participants, admitted: BOOLEAN]

Off == [at |-> "Off", stale |-> {}, admitted |-> FALSE]

Go(c, step) == conns' = [conns EXCEPT ![c].at = step]

(* lrem with count 0: every entry of the users goes. *)
Without(queue, gone) == [u \in Participants |-> IF u \in gone THEN 0 ELSE queue[u]]

NoSpeakers == [u \in Participants |-> 0]

Stale == {u \in Participants : presence[u] = "stale"}

(* Redis drops a key with its last member, and its expiry with it. *)
Kept(people, scores, queue, clock) ==
    (IF people = {} THEN {} ELSE {"participants"})
    \cup (IF \A u \in Participants : scores[u] = "none" THEN {} ELSE {"presence"})
    \cup (IF queue = NoSpeakers THEN {} ELSE {"speakers"})
    \cup (IF clock = "none" THEN {} ELSE {"timer"})

(* The room loses some users: hdel, zrem and lrem in one pipeline. *)
Remove(gone) ==
    LET scores == [u \in Participants |-> IF u \in gone THEN "none" ELSE presence[u]] IN
    /\ present' = present \ gone
    /\ presence' = scores
    /\ speakers' = Without(speakers, gone)
    /\ expiring' = expiring \cap Kept(present \ gone, scores, Without(speakers, gone), timer)

Init ==
    /\ present = Crowd
    /\ presence = [u \in Participants |-> IF u \in Crowd THEN "fresh" ELSE "none"]
    /\ speakers = NoSpeakers
    /\ timer = "none"
    /\ expiring = Kept(Crowd, presence, NoSpeakers, "none")
    /\ joinLock = Nobody
    /\ lapses = 0
    /\ conns = [c \in Connections |-> Off]

--------------------------------------------------------------------------------
(* Joining.                                                                *)

(* Seeded fault: the room is joined without the lock. *)
AcquireNothing(c) ==
    /\ conns[c].at = "Off"
    /\ Go(c, "Prune")
    /\ UNCHANGED <<present, presence, speakers, timer, expiring, joinLock, lapses>>

AcquireLock(c) ==
    /\ conns[c].at = "Off"
    /\ joinLock = Nobody
    /\ joinLock' = c
    /\ Go(c, "Prune")
    /\ UNCHANGED <<present, presence, speakers, timer, expiring, lapses>>

(* _prune_stale reads whose score has passed, for join and for snapshot.   *)
FindStale(c) ==
    /\ \/ conns[c].at = "Prune" /\ conns' = [conns EXCEPT ![c] =
              [@ EXCEPT !.at = IF Stale = {} THEN "Check" ELSE "Remove", !.stale = Stale]]
       \/ conns[c].at = "PruneAgain" /\ conns' = [conns EXCEPT ![c] =
              [@ EXCEPT !.at = IF Stale = {} THEN "ReadTimer" ELSE "RemoveAgain",
                        !.stale = Stale]]
    /\ UNCHANGED <<present, presence, speakers, timer, expiring, joinLock, lapses>>

RemoveStale(c) ==
    /\ conns[c].at \in {"Remove", "RemoveAgain"}
    /\ Remove(conns[c].stale)
    /\ conns' = [conns EXCEPT ![c] =
          [Off EXCEPT !.at = IF conns[c].at = "Remove" THEN "Check" ELSE "ReadTimer"]]
    /\ UNCHANGED <<timer, joinLock, lapses>>

(* hexists, then hlen; whoever is in the room already is let in again. *)
CheckCapacity(c) ==
    LET admitted == UserOf[c] \in present \/ Cardinality(present) < MaxParticipants IN
    /\ conns[c].at = "Check"
    /\ conns' = [conns EXCEPT ![c] =
          [Off EXCEPT !.at = IF admitted THEN "Add" ELSE "Release", !.admitted = admitted]]
    /\ UNCHANGED <<present, presence, speakers, timer, expiring, joinLock, lapses>>

(* One pipeline: the user, the score, and an expiry for each existing key. *)
AddParticipant(c) ==
    LET scores == [presence EXCEPT ![UserOf[c]] = "fresh"] IN
    /\ conns[c].at = "Add"
    /\ present' = present \cup {UserOf[c]}
    /\ presence' = scores
    /\ expiring' = Kept(present', scores, speakers, timer)
    /\ Go(c, "Release")
    /\ UNCHANGED <<speakers, timer, joinLock, lapses>>

(* Releasing a lock that has expired is an error: the connection ends, and *)
(* what it added stays.                                                    *)
ReleaseLock(c) ==
    /\ conns[c].at = "Release"
    /\ joinLock' = IF joinLock = c THEN Nobody ELSE joinLock
    /\ conns' = [conns EXCEPT ![c] =
          [Off EXCEPT !.at = IF joinLock = c /\ conns[c].admitted THEN "PruneAgain" ELSE "Off"]]
    /\ UNCHANGED <<present, presence, speakers, timer, expiring, lapses>>

(* The rest of snapshot, outside the lock: a timer read as ended is deleted. *)
ReadTimer(c) ==
    /\ conns[c].at = "ReadTimer"
    /\ Go(c, IF timer = "ended" THEN "DropTimer" ELSE "Open")
    /\ UNCHANGED <<present, presence, speakers, timer, expiring, joinLock, lapses>>

DropTimer(c) ==
    /\ conns[c].at = "DropTimer"
    /\ timer' = "none"
    /\ expiring' = expiring \ {"timer"}
    /\ Go(c, "Open")
    /\ UNCHANGED <<present, presence, speakers, joinLock, lapses>>

--------------------------------------------------------------------------------
(* Events of an open connection: _handle_client_event.                     *)

Heartbeat(c) ==
    /\ conns[c].at = "Open"
    /\ presence[UserOf[c]] # "fresh"
    /\ presence' = [presence EXCEPT ![UserOf[c]] = "fresh"]
    /\ UNCHANGED <<present, speakers, timer, expiring, joinLock, lapses, conns>>

(* LPOS finds nothing. *)
AskToSpeak(c) ==
    /\ conns[c].at = "Open"
    /\ Permission(UserOf[c]) # "OBSERVE"
    /\ speakers[UserOf[c]] = 0
    /\ Go(c, "Push")
    /\ UNCHANGED <<present, presence, speakers, timer, expiring, joinLock, lapses>>

QueueSpeaker(c) ==
    /\ conns[c].at = "Push"
    /\ speakers' = [speakers EXCEPT ![UserOf[c]] = @ + 1]
    /\ Go(c, "Open")
    /\ UNCHANGED <<present, presence, timer, expiring, joinLock, lapses>>

LeaveQueue(c) ==
    /\ conns[c].at = "Open"
    /\ speakers[UserOf[c]] > 0
    /\ speakers' = Without(speakers, {UserOf[c]})
    /\ expiring' = IF speakers' = NoSpeakers THEN expiring \ {"speakers"} ELSE expiring
    /\ UNCHANGED <<present, presence, timer, joinLock, lapses, conns>>

(* SET gives the key an expiry of its own. *)
StartTimer(c) ==
    /\ conns[c].at = "Open"
    /\ Permission(UserOf[c]) = "FACILITATE"
    /\ timer' = "running"
    /\ expiring' = expiring \ {"timer"}
    /\ UNCHANGED <<present, presence, speakers, joinLock, lapses, conns>>

CancelTimer(c) ==
    /\ conns[c].at = "Open"
    /\ Permission(UserOf[c]) = "FACILITATE"
    /\ timer # "none"
    /\ timer' = "none"
    /\ expiring' = expiring \ {"timer"}
    /\ UNCHANGED <<present, presence, speakers, joinLock, lapses, conns>>

(* The socket is closed, by its client or for a rate or size limit: the    *)
(* user leaves, whatever other connections they have.                      *)
Leave(c) ==
    /\ conns[c].at = "Open"
    /\ Remove({UserOf[c]})
    /\ conns' = [conns EXCEPT ![c] = Off]
    /\ UNCHANGED <<timer, joinLock, lapses>>

(* The API process is lost: nothing is cleaned up. *)
Die(c) ==
    /\ conns[c].at # "Off"
    /\ conns' = [conns EXCEPT ![c] = Off]
    /\ UNCHANGED <<present, presence, speakers, timer, expiring, joinLock, lapses>>

--------------------------------------------------------------------------------
(* Time.                                                                   *)

(* Five seconds: the lock of a dead or of a slow joiner is released. *)
LockExpires ==
    /\ joinLock # Nobody
    /\ joinLock' = Nobody
    /\ IF conns[joinLock].at \in Joining
       THEN lapses < MaxLapses /\ lapses' = lapses + 1
       ELSE UNCHANGED lapses
    /\ UNCHANGED <<present, presence, speakers, timer, expiring, conns>>

(* A presence TTL passes without a heartbeat. *)
FallSilent(u) ==
    /\ presence[u] = "fresh"
    /\ presence' = [presence EXCEPT ![u] = "stale"]
    /\ UNCHANGED <<present, speakers, timer, expiring, joinLock, lapses, conns>>

TimerEnds ==
    /\ timer = "running"
    /\ timer' = "ended"
    /\ UNCHANGED <<present, presence, speakers, expiring, joinLock, lapses, conns>>

(* Three TTLs after the last join Redis deletes what that join found:      *)
(* heartbeats do not extend it.                                            *)
KeysExpire ==
    /\ expiring # {}
    /\ present' = IF "participants" \in expiring THEN {} ELSE present
    /\ presence' = IF "presence" \in expiring THEN [u \in Participants |-> "none"] ELSE presence
    /\ speakers' = IF "speakers" \in expiring THEN NoSpeakers ELSE speakers
    /\ timer' = IF "timer" \in expiring THEN "none" ELSE timer
    /\ expiring' = {}
    /\ UNCHANGED <<joinLock, lapses, conns>>

--------------------------------------------------------------------------------
Next ==
    \/ \E c \in Connections :
        \/ AcquireLock(c) \/ FindStale(c) \/ RemoveStale(c) \/ CheckCapacity(c)
        \/ AddParticipant(c) \/ ReleaseLock(c) \/ ReadTimer(c) \/ DropTimer(c)
        \/ Heartbeat(c) \/ AskToSpeak(c) \/ QueueSpeaker(c) \/ LeaveQueue(c)
        \/ StartTimer(c) \/ CancelTimer(c) \/ Leave(c) \/ Die(c)
    \/ \E u \in Participants : FallSilent(u)
    \/ LockExpires \/ TimerEnds \/ KeysExpire

Spec == Init /\ [][Next]_meetingVars

--------------------------------------------------------------------------------
(* The room is well formed and only existing keys carry an expiry. *)
TypeOK ==
    /\ present \subseteq Participants
    /\ presence \in [Participants -> {"none", "fresh", "stale"}]
    /\ speakers \in [Participants -> Nat]
    /\ timer \in {"none", "running", "ended"}
    /\ expiring \subseteq Kept(present, presence, speakers, timer)
    /\ joinLock \in Connections \cup {Nobody}
    /\ lapses \in 0..MaxLapses
    /\ conns \in [Connections -> Connection]

(* README: "a four-participant peer-mesh limit".  Joins count and add in   *)
(* different commands; the lock keeps the room within the limit, but for   *)
(* one participant whenever it expires under a joiner.                     *)
CapacityHeld == Cardinality(present) <= MaxParticipants + lapses

(* LPOS and RPUSH are two commands, so a user with several connections can *)
(* wait to speak several times, but never more often than they have        *)
(* connections, whoever leaves, is pruned or dies in between.              *)
SpeakersBounded ==
    \A u \in Participants :
        speakers[u] <= Cardinality({c \in Connections : UserOf[c] = u})

(* README: "Send `heartbeat` before the configured presence TTL expires":  *)
(* who is connected and does so is in the room.                            *)
HeartbeatsKeepPresence ==
    \A c \in Connections :
        conns[c].at \in {"Open", "Push"} /\ presence[UserOf[c]] = "fresh"
        /\ (\A d \in Connections : UserOf[d] = UserOf[c] => d = c)
            => UserOf[c] \in present

================================================================================
