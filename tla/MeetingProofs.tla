------------------------------ MODULE MeetingProofs ------------------------------
(***************************************************************************)
(* Proofs about MeetingRoom for any users and connections: the limit of    *)
(* the room and of its speaker queue, although a join and a request to     *)
(* speak are several commands and the join lock expires.                   *)
(***************************************************************************)
EXTENDS MeetingRoom, FiniteSetTheorems, TLAPS

(* Who may connect, and the bounds of the instances. *)
RoomsAreFinite ==
    /\ UserOf \in [Connections -> Participants]
    /\ IsFiniteSet(Connections)
    /\ Nobody \notin Connections
    /\ Crowd \subseteq Participants
    /\ IsFiniteSet(Crowd)
    /\ MaxParticipants \in Nat
    /\ MaxLapses \in Nat
    /\ Cardinality(Crowd) <= MaxParticipants

(* A joiner before its addition, with the lock and without. *)
Early == {"Prune", "Remove", "Check", "Add"}

Orphans == {c \in Connections : conns[c].at \in Early /\ joinLock # c}

Adding == joinLock \in Connections /\ conns[joinLock].at = "Add"

(* The room, and who the holder of the lock is about to add. *)
Expected == IF Adding THEN present \cup {UserOf[joinLock]} ELSE present

(* Every joiner who has lost the lock may still add a participant, and has *)
(* cost a lapse.                                                           *)
RoomInv ==
    /\ IsFiniteSet(present)
    /\ Cardinality(Orphans) <= lapses
    /\ Cardinality(Expected) + Cardinality(Orphans) <= MaxParticipants + lapses

OwnedBy(u) == {c \in Connections : UserOf[c] = u}

(* The connections of a user that saw no entry in the queue and append one. *)
Pushing(u) == {c \in OwnedBy(u) : conns[c].at = "Push"}

QueueInv ==
    \A u \in Participants : speakers[u] + Cardinality(Pushing(u)) <= Cardinality(OwnedBy(u))

IInv == TypeOK /\ RoomInv /\ QueueInv

--------------------------------------------------------------------------------
LEMMA SubsetOfFinite ==
    ASSUME NEW S, IsFiniteSet(S), NEW T, T \subseteq S
    PROVE  /\ IsFiniteSet(T)
           /\ Cardinality(T) \in Nat /\ Cardinality(S) \in Nat
           /\ Cardinality(T) <= Cardinality(S)
  BY FS_Subset, FS_CardinalityType

LEMMA Counts ==
    ASSUME RoomsAreFinite, IsFiniteSet(present)
    PROVE  /\ IsFiniteSet(Orphans) /\ Cardinality(Orphans) \in Nat
           /\ IsFiniteSet(Expected) /\ Cardinality(Expected) \in Nat
           /\ present \subseteq Expected
  <1>1. Orphans \subseteq Connections
    BY DEF Orphans
  <1>2. IsFiniteSet(Expected) /\ present \subseteq Expected
    BY FS_AddElement DEF Expected
  <1> QED
    BY <1>1, <1>2, SubsetOfFinite, FS_CardinalityType DEF RoomsAreFinite

LEMMA QueueCounts ==
    ASSUME RoomsAreFinite, NEW u
    PROVE  /\ IsFiniteSet(OwnedBy(u)) /\ Cardinality(OwnedBy(u)) \in Nat
           /\ IsFiniteSet(Pushing(u)) /\ Cardinality(Pushing(u)) \in Nat
           /\ Cardinality(Pushing(u)) <= Cardinality(OwnedBy(u))
  <1>1. OwnedBy(u) \subseteq Connections /\ Pushing(u) \subseteq OwnedBy(u)
    BY DEF OwnedBy, Pushing
  <1> QED
    BY <1>1, SubsetOfFinite DEF RoomsAreFinite

(* A step that brings nobody nearer to the room. *)
LEMMA RoomShrinks ==
    ASSUME RoomsAreFinite, TypeOK, RoomInv, present' \subseteq present, UNCHANGED lapses,
           Orphans' \subseteq Orphans, Expected' \subseteq Expected
    PROVE  RoomInv'
  <1>1. IsFiniteSet(present)'
    BY SubsetOfFinite DEF RoomInv
  <1>2. Cardinality(Orphans') <= Cardinality(Orphans) /\ Cardinality(Orphans') \in Nat
    BY Counts, SubsetOfFinite DEF RoomInv
  <1>3. Cardinality(Expected') <= Cardinality(Expected) /\ Cardinality(Expected') \in Nat
    BY Counts, SubsetOfFinite DEF RoomInv
  <1>4. lapses \in Nat /\ MaxParticipants \in Nat
    BY DEF TypeOK, RoomsAreFinite
  <1> QED
    BY <1>1, <1>2, <1>3, <1>4, Counts DEF RoomInv

(* A step after which no connection is about to append that was not.       *)
LEMMA QueueShrinks ==
    ASSUME RoomsAreFinite, QueueInv, TypeOK, TypeOK',
           \A u \in Participants : speakers'[u] <= speakers[u],
           \A c \in Connections : conns'[c].at = "Push" => conns[c].at = "Push"
    PROVE  QueueInv'
  <1> SUFFICES ASSUME NEW u \in Participants
               PROVE  speakers'[u] + Cardinality(Pushing(u)') <= Cardinality(OwnedBy(u)')
    BY DEF QueueInv
  <1>1. OwnedBy(u)' = OwnedBy(u) /\ Pushing(u)' \subseteq Pushing(u)
    BY DEF OwnedBy, Pushing
  <1>2. Cardinality(Pushing(u)') \in Nat /\ Cardinality(Pushing(u)') <= Cardinality(Pushing(u))
    BY <1>1, QueueCounts, SubsetOfFinite
  <1>3. speakers[u] \in Nat /\ speakers'[u] \in Nat
    BY DEF TypeOK
  <1>4. speakers[u] + Cardinality(Pushing(u)) <= Cardinality(OwnedBy(u))
    BY DEF QueueInv
  <1> HIDE DEF Pushing, OwnedBy
  <1> QED
    BY <1>1, <1>2, <1>3, <1>4, QueueCounts

--------------------------------------------------------------------------------
(* One connection goes on and the others stand still. *)
Moves(c) ==
    /\ conns' \in [Connections -> Connection]
    /\ \A d \in Connections \ {c} : conns'[d] = conns[d]

LEMMA Going ==
    ASSUME TypeOK, NEW c \in Connections, NEW step \in Steps, Go(c, step)
    PROVE  Moves(c) /\ conns'[c].at = step
  BY DEF TypeOK, Go, Moves, Connection

LEMMA Ending ==
    ASSUME TypeOK, NEW c \in Connections, NEW old \in Connection,
           conns' = [conns EXCEPT ![c] = old]
    PROVE  Moves(c) /\ conns'[c] = old
  BY DEF TypeOK, Moves

LEMMA Standing ==
    ASSUME NEW c \in Connections, Moves(c), UNCHANGED joinLock, present' \subseteq present,
           conns'[c].at \in Early => conns[c].at \in Early,
           conns'[c].at = "Add" => conns[c].at = "Add"
    PROVE  Orphans' \subseteq Orphans /\ Expected' \subseteq Expected
  BY DEF Moves, Orphans, Expected, Adding

(* A step of one connection that neither acquires the lock nor is admitted *)
(* nor adds anybody.                                                       *)
LEMMA QuietSteps ==
    ASSUME RoomsAreFinite, IInv, NEW c \in Connections, Moves(c), TypeOK',
           UNCHANGED <<joinLock, lapses>>, present' \subseteq present,
           conns'[c].at \in Early => conns[c].at \in Early,
           conns'[c].at = "Add" => conns[c].at = "Add",
           conns'[c].at = "Push" => conns[c].at = "Push",
           \A u \in Participants : speakers'[u] <= speakers[u]
    PROVE  IInv'
  <1>1. Orphans' \subseteq Orphans /\ Expected' \subseteq Expected
    BY Standing
  <1>2. RoomInv'
    BY <1>1, RoomShrinks DEF IInv
  <1>3. QueueInv'
    BY QueueShrinks DEF IInv, Moves
  <1> QED
    BY <1>2, <1>3 DEF IInv

LEMMA Removes ==
    ASSUME TypeOK, NEW gone \in SUBSET Participants, Remove(gone), UNCHANGED timer
    PROVE  /\ present' \subseteq present /\ present' \subseteq Participants
           /\ presence' \in [Participants -> {"none", "fresh", "stale"}]
           /\ speakers' \in [Participants -> Nat]
           /\ \A u \in Participants : speakers'[u] <= speakers[u]
           /\ expiring' \subseteq Kept(present', presence', speakers', timer')
  <1>1. /\ present' = present \ gone
        /\ presence' = [u \in Participants |-> IF u \in gone THEN "none" ELSE presence[u]]
        /\ speakers' = [u \in Participants |-> IF u \in gone THEN 0 ELSE speakers[u]]
    BY DEF Remove, Without
  <1>2. expiring' \subseteq Kept(present', presence', speakers', timer')
    BY DEF Remove
  <1>3. speakers \in [Participants -> Nat] /\ speakers' \in [Participants -> Nat]
    BY <1>1 DEF TypeOK
  <1>4. \A u \in Participants : speakers[u] \in Nat /\ speakers'[u] \in {0, speakers[u]}
    BY <1>1, <1>3
  <1>5. \A u \in Participants : speakers'[u] <= speakers[u]
    BY <1>4
  <1>6. /\ present' \subseteq Participants
        /\ presence' \in [Participants -> {"none", "fresh", "stale"}]
    BY <1>1 DEF TypeOK
  <1> QED
    BY <1>1, <1>2, <1>3, <1>5, <1>6

--------------------------------------------------------------------------------
LEMMA AcquireKeeps ==
    ASSUME RoomsAreFinite, IInv, NEW c \in Connections, AcquireLock(c)
    PROVE  IInv'
  <1>1. /\ conns[c].at = "Off" /\ joinLock = Nobody /\ joinLock' = c
        /\ UNCHANGED <<present, presence, speakers, timer, expiring, lapses>>
        /\ Moves(c) /\ conns'[c].at = "Prune"
    BY Going DEF AcquireLock, IInv, Steps, Joining
  <1>2. TypeOK'
    BY <1>1 DEF IInv, TypeOK, Moves
  <1>3. Orphans' \subseteq Orphans
    BY <1>1 DEF Orphans, Moves, RoomsAreFinite
  <1>4. Expected' \subseteq Expected
    BY <1>1 DEF Expected, Adding
  <1>5. RoomInv'
    BY <1>1, <1>3, <1>4, RoomShrinks DEF IInv
  <1>6. QueueInv'
    BY <1>1, <1>2, QueueShrinks DEF IInv, Moves, TypeOK
  <1> QED
    BY <1>2, <1>5, <1>6 DEF IInv

LEMMA FindKeeps ==
    ASSUME RoomsAreFinite, IInv, NEW c \in Connections, FindStale(c)
    PROVE  IInv'
  <1>n. PICK new : new = [conns[c] EXCEPT !.at = conns'[c].at, !.stale = Stale]
    OBVIOUS
  <1>0. /\ conns \in [Connections -> Connection] /\ conns[c] \in Connection
        /\ Stale \subseteq Participants
    BY DEF IInv, TypeOK, Stale
  <1>1. /\ conns[c].at \in {"Prune", "PruneAgain"}
        /\ \E step \in {"Check", "Remove", "ReadTimer", "RemoveAgain"} :
              /\ conns' = [conns EXCEPT ![c] = [conns[c] EXCEPT !.at = step, !.stale = Stale]]
              /\ step \in Early => conns[c].at = "Prune"
        /\ UNCHANGED <<present, presence, speakers, timer, expiring, joinLock, lapses>>
    BY DEF FindStale, Early
  <1>2. PICK step \in {"Check", "Remove", "ReadTimer", "RemoveAgain"} :
              /\ conns' = [conns EXCEPT ![c] = [conns[c] EXCEPT !.at = step, !.stale = Stale]]
              /\ step \in Early => conns[c].at = "Prune"
    BY <1>1
  <1>3. PICK row : row = [conns[c] EXCEPT !.at = step, !.stale = Stale]
    OBVIOUS
  <1>4. row \in Connection /\ row.at = step
    BY <1>0, <1>3 DEF Connection, Steps, Joining, Reading
  <1>5. Moves(c) /\ conns'[c] = row
    BY <1>2, <1>3, <1>4, Ending DEF IInv
  <1>6. TypeOK'
    BY <1>1, <1>5 DEF IInv, TypeOK, Moves
  <1> QED
    BY <1>1, <1>2, <1>4, <1>5, <1>6, QuietSteps DEF Early, IInv, TypeOK

LEMMA RemoveKeeps ==
    ASSUME RoomsAreFinite, IInv, NEW c \in Connections, RemoveStale(c)
    PROVE  IInv'
  <1>1. /\ conns[c].at \in {"Remove", "RemoveAgain"} /\ Remove(conns[c].stale)
        /\ UNCHANGED <<timer, joinLock, lapses>>
    BY DEF RemoveStale
  <1>2. PICK row : row = [Off EXCEPT !.at = IF conns[c].at = "Remove" THEN "Check" ELSE "ReadTimer"]
    OBVIOUS
  <1>3. row \in Connection /\ row.at = (IF conns[c].at = "Remove" THEN "Check" ELSE "ReadTimer")
    BY <1>2 DEF Off, Connection, Steps, Joining, Reading
  <1>4. Moves(c) /\ conns'[c] = row
    BY <1>2, <1>3, Ending DEF IInv, RemoveStale
  <1>5. conns[c].stale \in SUBSET Participants
    BY DEF IInv, TypeOK, Connection
  <1>6. TypeOK'
    BY <1>1, <1>4, <1>5, Removes DEF IInv, TypeOK, Moves
  <1> QED
    BY <1>1, <1>3, <1>4, <1>5, <1>6, Removes, QuietSteps DEF Early, IInv

(* Whoever is admitted finds a place: those who could still take it have   *)
(* each cost a lapse.                                                      *)
LEMMA CheckKeeps ==
    ASSUME RoomsAreFinite, IInv, NEW c \in Connections, CheckCapacity(c)
    PROVE  IInv'
  <1> DEFINE admitted == UserOf[c] \in present \/ Cardinality(present) < MaxParticipants
  <1>1. /\ conns[c].at = "Check"
        /\ UNCHANGED <<present, presence, speakers, timer, expiring, joinLock, lapses>>
    BY DEF CheckCapacity
  <1>2. PICK row : row = [Off EXCEPT !.at = IF admitted THEN "Add" ELSE "Release",
                                     !.admitted = admitted]
    OBVIOUS
  <1>a. admitted \in BOOLEAN
    OBVIOUS
  <1> HIDE DEF admitted
  <1>3. row \in Connection /\ row.at = IF admitted THEN "Add" ELSE "Release"
    BY <1>2, <1>a DEF Off, Connection, Steps, Joining
  <1>4. Moves(c) /\ conns'[c] = row
    BY <1>2, <1>3, Ending DEF IInv, CheckCapacity, admitted
  <1>5. TypeOK'
    BY <1>1, <1>4 DEF IInv, TypeOK, Moves
  <1>6. Orphans' \subseteq Orphans
    BY <1>1, <1>4 DEF Orphans, Moves, Early
  <1>7. CASE admitted /\ joinLock = c
    <2>1. ~Adding /\ Expected = present /\ Expected' = present \cup {UserOf[c]}
      BY <1>1, <1>3, <1>4, <1>7 DEF Expected, Adding
    <2>2. \/ Cardinality(Expected') <= Cardinality(present)
          \/ Cardinality(Expected') <= MaxParticipants
      <3>1. CASE UserOf[c] \in present
        <4>1. Expected' = present
          BY <2>1, <3>1
        <4> QED
          BY <4>1, FS_CardinalityType DEF IInv, RoomInv
      <3>2. CASE Cardinality(present) < MaxParticipants
        <4>1. IsFiniteSet(present) /\ Cardinality(present) \in Nat /\ MaxParticipants \in Nat
          BY FS_CardinalityType DEF IInv, RoomInv, RoomsAreFinite
        <4>2. Cardinality(Expected') = IF UserOf[c] \in present THEN Cardinality(present)
                                       ELSE Cardinality(present) + 1
          BY <2>1, <4>1, FS_AddElement
        <4> QED
          BY <3>2, <4>1, <4>2
      <3> QED
        BY <3>1, <3>2, <1>7 DEF admitted
    <2>3. Cardinality(Expected') \in Nat /\ Cardinality(present) \in Nat
      BY <2>1, FS_AddElement, FS_CardinalityType DEF IInv, RoomInv
    <2>4. Cardinality(Orphans') \in Nat /\ Cardinality(Orphans') <= Cardinality(Orphans)
      BY <1>6, Counts, SubsetOfFinite DEF IInv, RoomInv
    <2>5. Cardinality(Orphans) \in Nat /\ lapses \in Nat /\ MaxParticipants \in Nat
      BY Counts DEF IInv, RoomInv, TypeOK, RoomsAreFinite
    <2>6. RoomInv'
      BY <1>1, <2>1, <2>2, <2>3, <2>4, <2>5 DEF IInv, RoomInv
    <2> QED
      BY <1>1, <1>3, <1>4, <1>5, <2>6, QueueShrinks DEF IInv, Moves, TypeOK
  <1>8. CASE ~(admitted /\ joinLock = c)
    <2>1. Expected' \subseteq Expected
      BY <1>1, <1>3, <1>4, <1>8 DEF Expected, Adding, Moves
    <2>2. RoomInv'
      BY <1>1, <1>6, <2>1, RoomShrinks DEF IInv
    <2> QED
      BY <1>1, <1>3, <1>4, <1>5, <2>2, QueueShrinks DEF IInv, Moves, TypeOK
  <1> QED
    BY <1>7, <1>8

(* The participant who is added was expected, or an orphan had a lapse.    *)
LEMMA AddKeeps ==
    ASSUME RoomsAreFinite, IInv, NEW c \in Connections, AddParticipant(c)
    PROVE  IInv'
  <1>1. /\ conns[c].at = "Add" /\ present' = present \cup {UserOf[c]}
        /\ presence' = [presence EXCEPT ![UserOf[c]] = "fresh"]
        /\ expiring' = Kept(present', presence', speakers, timer)
        /\ UNCHANGED <<speakers, timer, joinLock, lapses>>
        /\ Moves(c) /\ conns'[c].at = "Release"
    BY Going DEF AddParticipant, IInv, Steps, Joining
  <1>2. UserOf[c] \in Participants
    BY DEF RoomsAreFinite
  <1>3. TypeOK'
    BY <1>1, <1>2 DEF IInv, TypeOK, Moves
  <1>4. IsFiniteSet(present)'
    BY <1>1, FS_AddElement DEF IInv, RoomInv
  <1>5. Expected' \subseteq Expected \cup {UserOf[c]}
    BY <1>1 DEF Expected, Adding, Moves
  <1>6. /\ Cardinality(Orphans) \in Nat /\ Cardinality(Expected) \in Nat
        /\ IsFiniteSet(Orphans) /\ IsFiniteSet(Expected)
        /\ lapses \in Nat /\ MaxParticipants \in Nat
    BY Counts DEF IInv, RoomInv, TypeOK, RoomsAreFinite
  <1>a. Cardinality(Orphans') \in Nat /\ Cardinality(Expected') \in Nat
    <2>1. Orphans' \subseteq Connections /\ IsFiniteSet(Expected')
      BY <1>4, FS_AddElement DEF Orphans, Expected
    <2> QED
      BY <2>1, SubsetOfFinite, FS_CardinalityType DEF RoomsAreFinite
  <1>7. CASE joinLock = c
    <2>1. Orphans' \subseteq Orphans /\ Expected' \subseteq Expected
      BY <1>1, <1>5, <1>7 DEF Orphans, Expected, Adding, Moves, Early
    <2>2. /\ Cardinality(Orphans') <= Cardinality(Orphans)
          /\ Cardinality(Expected') <= Cardinality(Expected)
      BY <1>6, <2>1, SubsetOfFinite
    <2>3. RoomInv'
      BY <1>1, <1>4, <1>6, <1>a, <2>2 DEF IInv, RoomInv
    <2> QED
      BY <1>1, <1>3, <2>3, QueueShrinks DEF IInv, Moves, TypeOK
  <1>8. CASE joinLock # c
    <2>1. Orphans' \subseteq Orphans \ {c} /\ c \in Orphans
      BY <1>1, <1>8 DEF Orphans, Moves, Early
    <2>2. Cardinality(Orphans') <= Cardinality(Orphans) - 1
      <3>1. IsFiniteSet(Orphans \ {c}) /\ Cardinality(Orphans \ {c}) = Cardinality(Orphans) - 1
        BY <1>6, <2>1, FS_RemoveElement
      <3> QED
        BY <2>1, <3>1, SubsetOfFinite
    <2>3. Cardinality(Expected') <= Cardinality(Expected) + 1
      <3>1. /\ IsFiniteSet(Expected \cup {UserOf[c]})
            /\ Cardinality(Expected \cup {UserOf[c]})
                  \in {Cardinality(Expected), Cardinality(Expected) + 1}
        BY <1>6, FS_AddElement
      <3>2. Cardinality(Expected') <= Cardinality(Expected \cup {UserOf[c]})
        BY <1>5, <3>1, SubsetOfFinite
      <3> QED
        BY <1>6, <1>a, <3>1, <3>2
    <2>4. RoomInv'
      BY <1>1, <1>4, <1>6, <1>a, <2>2, <2>3 DEF IInv, RoomInv
    <2> QED
      BY <1>1, <1>3, <2>4, QueueShrinks DEF IInv, Moves, TypeOK
  <1> QED
    BY <1>7, <1>8

LEMMA ReleaseKeeps ==
    ASSUME RoomsAreFinite, IInv, NEW c \in Connections, ReleaseLock(c)
    PROVE  IInv'
  <1>1. /\ conns[c].at = "Release"
        /\ joinLock' = IF joinLock = c THEN Nobody ELSE joinLock
        /\ UNCHANGED <<present, presence, speakers, timer, expiring, lapses>>
    BY DEF ReleaseLock
  <1>2. PICK step \in {"PruneAgain", "Off"} :
          conns' = [conns EXCEPT ![c] = [Off EXCEPT !.at = step]]
    BY DEF ReleaseLock
  <1>3. PICK row : row = [Off EXCEPT !.at = step]
    OBVIOUS
  <1>4. row \in Connection /\ row.at = step
    BY <1>3 DEF Off, Connection, Steps, Reading
  <1>5. Moves(c) /\ conns'[c] = row
    BY <1>2, <1>3, <1>4, Ending DEF IInv
  <1>6. TypeOK'
    BY <1>1, <1>5 DEF IInv, TypeOK, Moves
  <1>7. Orphans' \subseteq Orphans
    BY <1>1, <1>4, <1>5 DEF Orphans, Moves, Early
  <1>8. Expected' \subseteq Expected
    BY <1>1, <1>4, <1>5 DEF Expected, Adding, Moves, RoomsAreFinite
  <1>9. RoomInv'
    BY <1>1, <1>7, <1>8, RoomShrinks DEF IInv
  <1> QED
    BY <1>1, <1>4, <1>5, <1>6, <1>9, QueueShrinks DEF IInv, Moves, TypeOK

LEMMA OpenKeeps ==
    ASSUME RoomsAreFinite, IInv, NEW c \in Connections,
           ReadTimer(c) \/ DropTimer(c) \/ StartTimer(c) \/ CancelTimer(c) \/ Heartbeat(c)
              \/ LeaveQueue(c) \/ Leave(c) \/ Die(c)
    PROVE  IInv'
  <1>0. /\ UserOf[c] \in Participants /\ Off \in Connection /\ Off.at = "Off"
        /\ conns \in [Connections -> Connection]
        /\ \A n \in Nat : n <= n
    BY DEF RoomsAreFinite, Off, Connection, Steps, IInv, TypeOK
  <1>s. \A u \in Participants : speakers[u] \in Nat
    BY DEF IInv, TypeOK
  <1>1. CASE ReadTimer(c)
    <2>1. PICK step \in {"DropTimer", "Open"} : Go(c, step)
      BY <1>1 DEF ReadTimer
    <2>2. /\ UNCHANGED <<present, presence, speakers, timer, expiring, joinLock, lapses>>
          /\ Moves(c) /\ conns'[c].at = step
      BY <1>1, <2>1, Going DEF ReadTimer, IInv, Steps, Reading
    <2>3. TypeOK'
      BY <2>2 DEF IInv, TypeOK, Moves
    <2> QED
      BY <1>0, <1>s, <2>2, <2>3, QuietSteps DEF Early
  <1>2. CASE DropTimer(c)
    <2>1. /\ timer' = "none" /\ expiring' = expiring \ {"timer"}
          /\ UNCHANGED <<present, presence, speakers, joinLock, lapses>>
          /\ Moves(c) /\ conns'[c].at = "Open"
      BY <1>2, Going DEF DropTimer, IInv, Steps
    <2>2. TypeOK'
      BY <2>1 DEF IInv, TypeOK, Moves, Kept
    <2> QED
      BY <1>0, <1>s, <2>1, <2>2, QuietSteps DEF Early
  <1>3. CASE StartTimer(c) \/ CancelTimer(c)
    <2>1. /\ timer' \in {"none", "running"} /\ expiring' = expiring \ {"timer"}
          /\ UNCHANGED <<present, presence, speakers, joinLock, lapses, conns>>
          /\ Moves(c) /\ conns'[c] = conns[c]
      BY <1>0, <1>3 DEF StartTimer, CancelTimer, Moves
    <2>2. TypeOK'
      BY <2>1 DEF IInv, TypeOK, Moves, Kept
    <2> QED
      BY <1>0, <1>s, <2>1, <2>2, QuietSteps
  <1>4. CASE Heartbeat(c)
    <2>1. /\ presence' = [presence EXCEPT ![UserOf[c]] = "fresh"]
          /\ UNCHANGED <<present, speakers, timer, expiring, joinLock, lapses, conns>>
          /\ Moves(c) /\ conns'[c] = conns[c]
      BY <1>0, <1>4 DEF Heartbeat, Moves
    <2>2. /\ presence' \in [Participants -> {"none", "fresh", "stale"}]
          /\ presence'[UserOf[c]] # "none"
      BY <1>0, <2>1 DEF IInv, TypeOK
    <2>3. TypeOK'
      BY <1>0, <2>1, <2>2 DEF IInv, TypeOK, Kept
    <2> QED
      BY <1>0, <1>s, <2>1, <2>3, QuietSteps
  <1>5. CASE LeaveQueue(c)
    <2>1. /\ speakers' = [u \in Participants |-> IF u \in {UserOf[c]} THEN 0 ELSE speakers[u]]
          /\ expiring' = IF speakers' = NoSpeakers THEN expiring \ {"speakers"} ELSE expiring
          /\ UNCHANGED <<present, presence, timer, joinLock, lapses, conns>>
          /\ Moves(c) /\ conns'[c] = conns[c]
      BY <1>0, <1>5 DEF LeaveQueue, Without, Moves
    <2>2. speakers' \in [Participants -> Nat] /\ \A u \in Participants : speakers'[u] <= speakers[u]
      BY <1>s, <2>1
    <2>3. expiring' \subseteq Kept(present', presence', speakers', timer')
      BY <2>1 DEF IInv, TypeOK, Kept
    <2>4. TypeOK'
      BY <2>1, <2>2, <2>3 DEF IInv, TypeOK
    <2> QED
      BY <2>1, <2>2, <2>4, QuietSteps
  <1>6. CASE Leave(c)
    <2>1. /\ Remove({UserOf[c]}) /\ UNCHANGED <<timer, joinLock, lapses>>
          /\ Moves(c) /\ conns'[c] = Off
      BY <1>0, <1>6, Ending DEF Leave, IInv
    <2>2. TypeOK'
      BY <1>0, <2>1, Removes DEF IInv, TypeOK, Moves
    <2> QED
      BY <1>0, <2>1, <2>2, Removes, QuietSteps DEF Early, IInv
  <1>7. CASE Die(c)
    <2>1. /\ UNCHANGED <<present, presence, speakers, timer, expiring, joinLock, lapses>>
          /\ Moves(c) /\ conns'[c] = Off
      BY <1>0, <1>7, Ending DEF Die, IInv
    <2>2. TypeOK'
      BY <2>1 DEF IInv, TypeOK, Moves
    <2> QED
      BY <1>0, <1>s, <2>1, <2>2, QuietSteps DEF Early
  <1> QED
    BY <1>1, <1>2, <1>3, <1>4, <1>5, <1>6, <1>7

(* Nothing in the queue was seen and the connection was not pushing: there *)
(* is a place for its entry.                                               *)
LEMMA AskKeeps ==
    ASSUME RoomsAreFinite, IInv, NEW c \in Connections, AskToSpeak(c)
    PROVE  IInv'
  <1>1. /\ conns[c].at = "Open" /\ speakers[UserOf[c]] = 0
        /\ UNCHANGED <<present, presence, speakers, timer, expiring, joinLock, lapses>>
        /\ Moves(c) /\ conns'[c].at = "Push"
    BY Going DEF AskToSpeak, IInv, Steps
  <1>2. TypeOK'
    BY <1>1 DEF IInv, TypeOK, Moves
  <1>3. Orphans' \subseteq Orphans /\ Expected' \subseteq Expected
    BY <1>1, Standing DEF Early
  <1>4. RoomInv'
    BY <1>1, <1>3, RoomShrinks DEF IInv
  <1>5. QueueInv'
    <2> SUFFICES ASSUME NEW u \in Participants
                 PROVE  speakers'[u] + Cardinality(Pushing(u)') <= Cardinality(OwnedBy(u)')
      BY DEF QueueInv
    <2>1. speakers'[u] = speakers[u] /\ OwnedBy(u)' = OwnedBy(u) /\ speakers[u] \in Nat
      BY <1>1 DEF OwnedBy, IInv, TypeOK
    <2>2. CASE u = UserOf[c]
      <3>1. Pushing(u)' \subseteq OwnedBy(u)
        BY DEF Pushing, OwnedBy
      <3>2. Cardinality(Pushing(u)') <= Cardinality(OwnedBy(u)) /\ Cardinality(Pushing(u)') \in Nat
        BY <3>1, QueueCounts, SubsetOfFinite
      <3>3. speakers'[u] = 0
        BY <1>1, <2>2
      <3> QED
        BY <2>1, <3>2, <3>3
    <2>3. CASE u # UserOf[c]
      <3>1. Pushing(u)' = Pushing(u)
        BY <1>1, <2>3 DEF Pushing, OwnedBy, Moves
      <3> QED
        BY <2>1, <3>1 DEF IInv, QueueInv
    <2> QED
      BY <2>2, <2>3
  <1> QED
    BY <1>2, <1>4, <1>5 DEF IInv

(* The entry takes the place of the connection that was about to append it. *)
LEMMA QueueKeeps ==
    ASSUME RoomsAreFinite, IInv, NEW c \in Connections, QueueSpeaker(c)
    PROVE  IInv'
  <1>1. /\ conns[c].at = "Push" /\ speakers' = [speakers EXCEPT ![UserOf[c]] = @ + 1]
        /\ UNCHANGED <<present, presence, timer, expiring, joinLock, lapses>>
        /\ Moves(c) /\ conns'[c].at = "Open"
    BY Going DEF QueueSpeaker, IInv, Steps
  <1>2. /\ UserOf[c] \in Participants /\ speakers \in [Participants -> Nat]
        /\ speakers' \in [Participants -> Nat] /\ speakers'[UserOf[c]] = speakers[UserOf[c]] + 1
        /\ \A u \in Participants \ {UserOf[c]} : speakers'[u] = speakers[u]
    BY <1>1 DEF RoomsAreFinite, IInv, TypeOK
  <1>3. speakers' # NoSpeakers
    BY <1>2 DEF NoSpeakers
  <1>4. TypeOK'
    BY <1>1, <1>2, <1>3 DEF IInv, TypeOK, Moves, Kept
  <1>5. Orphans' \subseteq Orphans /\ Expected' \subseteq Expected
    BY <1>1, Standing DEF Early
  <1>6. RoomInv'
    BY <1>1, <1>5, RoomShrinks DEF IInv
  <1>7. QueueInv'
    <2> SUFFICES ASSUME NEW u \in Participants
                 PROVE  speakers'[u] + Cardinality(Pushing(u)') <= Cardinality(OwnedBy(u)')
      BY DEF QueueInv
    <2>1. OwnedBy(u)' = OwnedBy(u) /\ speakers[u] \in Nat
      BY <1>2 DEF OwnedBy
    <2>2. speakers[u] + Cardinality(Pushing(u)) <= Cardinality(OwnedBy(u))
      BY DEF IInv, QueueInv
    <2>3. CASE u = UserOf[c]
      <3>1. Pushing(u)' = Pushing(u) \ {c} /\ c \in Pushing(u)
        BY <1>1, <2>3 DEF Pushing, OwnedBy, Moves
      <3>2. Cardinality(Pushing(u) \ {c}) = Cardinality(Pushing(u)) - 1
        BY <3>1, QueueCounts, FS_RemoveElement
      <3>3. Cardinality(Pushing(u)) \in Nat /\ Cardinality(OwnedBy(u)) \in Nat
        BY QueueCounts
      <3> QED
        BY <1>2, <2>1, <2>2, <2>3, <3>1, <3>2, <3>3
    <2>4. CASE u # UserOf[c]
      <3>1. Pushing(u)' = Pushing(u)
        BY <1>1, <2>4 DEF Pushing, OwnedBy, Moves
      <3> QED
        BY <1>2, <2>1, <2>2, <2>4, <3>1
    <2> QED
      BY <2>3, <2>4
  <1> QED
    BY <1>4, <1>6, <1>7 DEF IInv

(* The lock goes: a joiner before its addition becomes an orphan and costs *)
(* a lapse.                                                                *)
LEMMA ExpireKeeps ==
    ASSUME RoomsAreFinite, IInv, LockExpires
    PROVE  IInv'
  <1>1. /\ joinLock \in Connections /\ joinLock' = Nobody
        /\ UNCHANGED <<present, presence, speakers, timer, expiring, conns>>
        /\ IF conns[joinLock].at \in Joining
           THEN lapses < MaxLapses /\ lapses' = lapses + 1
           ELSE UNCHANGED lapses
    BY DEF LockExpires, IInv, TypeOK
  <1>2. lapses \in Nat /\ lapses' \in 0..MaxLapses /\ lapses' \in {lapses, lapses + 1}
    BY <1>1 DEF IInv, TypeOK, RoomsAreFinite
  <1>3. TypeOK'
    BY <1>1, <1>2 DEF IInv, TypeOK
  <1>4. QueueInv'
    BY <1>1, <1>3, QueueShrinks DEF IInv, TypeOK
  <1>5. Expected' = present /\ present \subseteq Expected
    BY <1>1, Counts DEF Expected, Adding, RoomsAreFinite, IInv, RoomInv
  <1>6. /\ IsFiniteSet(Orphans) /\ Cardinality(Orphans) \in Nat /\ MaxParticipants \in Nat
        /\ IsFiniteSet(Expected) /\ Cardinality(Expected) \in Nat
        /\ Cardinality(present) \in Nat /\ Cardinality(present) <= Cardinality(Expected)
    BY <1>5, Counts, SubsetOfFinite DEF IInv, RoomInv, RoomsAreFinite
  <1>7. CASE lapses' = lapses + 1
    <2>1. Orphans' \subseteq Orphans \cup {joinLock}
      BY <1>1 DEF Orphans
    <2>2. /\ IsFiniteSet(Orphans \cup {joinLock})
          /\ Cardinality(Orphans \cup {joinLock})
                \in {Cardinality(Orphans), Cardinality(Orphans) + 1}
      BY <1>6, FS_AddElement
    <2>3. Cardinality(Orphans') <= Cardinality(Orphans) + 1 /\ Cardinality(Orphans') \in Nat
      <3>1. /\ Cardinality(Orphans') <= Cardinality(Orphans \cup {joinLock})
            /\ Cardinality(Orphans') \in Nat
        BY <2>1, <2>2, SubsetOfFinite
      <3> QED
        BY <1>6, <2>2, <3>1
    <2>4. RoomInv'
      BY <1>1, <1>2, <1>5, <1>6, <1>7, <2>3 DEF IInv, RoomInv
    <2> QED
      BY <1>3, <1>4, <2>4 DEF IInv
  <1>8. CASE lapses' = lapses
    <2>1. Orphans' \subseteq Orphans
      BY <1>1, <1>2, <1>8 DEF Orphans, Early, Joining
    <2>2. RoomInv'
      BY <1>1, <1>5, <1>8, <2>1, RoomShrinks DEF IInv
    <2> QED
      BY <1>3, <1>4, <2>2 DEF IInv
  <1> QED
    BY <1>2, <1>7, <1>8

LEMMA TimeKeeps ==
    ASSUME RoomsAreFinite, IInv,
           TimerEnds \/ KeysExpire \/ \E u \in Participants : FallSilent(u)
    PROVE  IInv'
  <1>1. /\ UNCHANGED <<joinLock, lapses, conns>> /\ present' \in {present, {}}
        /\ speakers' \in {speakers, NoSpeakers}
    BY DEF TimerEnds, KeysExpire, FallSilent
  <1>3. TypeOK'
    <2>1. CASE TimerEnds
      BY <2>1 DEF TimerEnds, IInv, TypeOK, Kept
    <2>2. CASE KeysExpire
      BY <2>2 DEF KeysExpire, IInv, TypeOK, NoSpeakers
    <2>3. CASE \E u \in Participants : FallSilent(u)
      <3>1. PICK u \in Participants : FallSilent(u)
        BY <2>3
      <3>2. presence' \in [Participants -> {"none", "fresh", "stale"}] /\ presence'[u] = "stale"
        BY <3>1 DEF FallSilent, IInv, TypeOK
      <3> QED
        BY <3>1, <3>2 DEF FallSilent, IInv, TypeOK, Kept
    <2> QED
      BY <2>1, <2>2, <2>3
  <1>4. Orphans' \subseteq Orphans /\ Expected' \subseteq Expected /\ present' \subseteq present
    BY <1>1 DEF Orphans, Expected, Adding
  <1>5. RoomInv'
    BY <1>1, <1>4, RoomShrinks DEF IInv
  <1>6. \A u \in Participants : speakers'[u] <= speakers[u]
    <2>1. \A u \in Participants : speakers[u] \in Nat /\ NoSpeakers[u] = 0
      BY DEF IInv, TypeOK, NoSpeakers
    <2> QED
      BY <1>1, <2>1
  <1>7. QueueInv'
    BY <1>1, <1>3, <1>6, QueueShrinks DEF IInv
  <1> QED
    BY <1>3, <1>5, <1>7 DEF IInv

--------------------------------------------------------------------------------
LEMMA Start ==
    ASSUME RoomsAreFinite, Init
    PROVE  IInv
  <1>1. TypeOK
    BY DEF RoomsAreFinite, Init, TypeOK, NoSpeakers, Kept, Off, Connection, Steps
  <1>2. Orphans = {} /\ Expected = Crowd /\ \A u : Pushing(u) = {}
    BY DEF RoomsAreFinite, Init, Orphans, Expected, Adding, Pushing, OwnedBy, Off, Early
  <1>3. Cardinality({}) = 0
    BY FS_EmptySet
  <1>4. Cardinality(Crowd) \in Nat /\ \A u : Cardinality(OwnedBy(u)) \in Nat
    BY FS_CardinalityType, QueueCounts DEF RoomsAreFinite
  <1>5. RoomInv
    BY <1>2, <1>3, <1>4 DEF RoomInv, Init, RoomsAreFinite
  <1>6. QueueInv
    BY <1>2, <1>3, <1>4 DEF QueueInv, Init, NoSpeakers
  <1> QED
    BY <1>1, <1>5, <1>6 DEF IInv

LEMMA NextKeeps ==
    ASSUME RoomsAreFinite, IInv, [Next]_meetingVars
    PROVE  IInv'
  <1>1. CASE UNCHANGED meetingVars
    BY <1>1 DEF meetingVars, IInv, TypeOK, RoomInv, QueueInv, Orphans, Expected, Adding, Pushing,
       OwnedBy
  <1> QED
    BY <1>1, AcquireKeeps, FindKeeps, RemoveKeeps, CheckKeeps, AddKeeps, ReleaseKeeps, OpenKeeps,
       AskKeeps, QueueKeeps, ExpireKeeps, TimeKeeps DEF Next

(* Joiners without the lock never exceed the lapses, and whoever may still *)
(* be added finds room within the limit and the lapses.                    *)
THEOREM Invariant == RoomsAreFinite => (Spec => []IInv)
  <1> SUFFICES ASSUME RoomsAreFinite PROVE Spec => []IInv
    OBVIOUS
  <1>1. Init => IInv
    BY Start
  <1>2. IInv /\ [Next]_meetingVars => IInv'
    BY NextKeeps
  <1> QED
    BY <1>1, <1>2, PTL DEF Spec

(* The room is well formed and only existing keys carry an expiry. *)
THEOREM RoomWellFormed == RoomsAreFinite => (Spec => []TypeOK)
  <1>1. IInv => TypeOK
    BY DEF IInv
  <1> QED
    BY <1>1, Invariant, PTL

LEMMA LimitsHold ==
    ASSUME RoomsAreFinite, IInv
    PROVE  CapacityHeld /\ SpeakersBounded
  <1>1. CapacityHeld
    <2>1. /\ Cardinality(present) <= Cardinality(Expected) /\ Cardinality(present) \in Nat
          /\ Cardinality(Expected) \in Nat /\ Cardinality(Orphans) \in Nat
      BY Counts, SubsetOfFinite DEF IInv, RoomInv
    <2>2. lapses \in Nat /\ MaxParticipants \in Nat
      BY DEF IInv, TypeOK, RoomsAreFinite
    <2> QED
      BY <2>1, <2>2 DEF IInv, RoomInv, CapacityHeld
  <1>2. ASSUME NEW u \in Participants PROVE speakers[u] <= Cardinality(OwnedBy(u))
    <2>1. speakers[u] \in Nat
      BY DEF IInv, TypeOK
    <2> QED
      BY <2>1, QueueCounts DEF IInv, QueueInv
  <1> QED
    BY <1>1, <1>2 DEF SpeakersBounded, OwnedBy

(* The room exceeds the limit by the lapses of the join lock at most (join *)
(* counts and adds in different commands).                                 *)
THEOREM CapacityIsHeld == RoomsAreFinite => (Spec => []CapacityHeld)
  <1> SUFFICES ASSUME RoomsAreFinite PROVE Spec => []CapacityHeld
    OBVIOUS
  <1>1. IInv => CapacityHeld
    BY LimitsHold
  <1> QED
    BY <1>1, Invariant, PTL

(* A user waits to speak at most once for each connection (LPOS and RPUSH  *)
(* are two commands in join_speaking_queue).                               *)
THEOREM SpeakersAreBounded == RoomsAreFinite => (Spec => []SpeakersBounded)
  <1> SUFFICES ASSUME RoomsAreFinite PROVE Spec => []SpeakersBounded
    OBVIOUS
  <1>1. IInv => SpeakersBounded
    BY LimitsHold
  <1> QED
    BY <1>1, Invariant, PTL

================================================================================
