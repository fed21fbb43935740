------------------------------- MODULE MCServices -------------------------------
(***************************************************************************)
(* Services for TLC, with two or three of everything.                      *)
(***************************************************************************)
EXTENDS Services, TLC

CONSTANTS ann, bob, eve, phone, laptop

OwnerAnd == ann :> "OWNER" @@ bob :> "MEMBER"

(* Two viewers join a room in which a third user is, with place for two. *)
GuestOnDevice == phone :> ann @@ laptop :> bob
Viewers == [u \in {ann, bob, eve} |-> "VIEWER"]

(* One user has two connections in a room with another. *)
MemberOnDevice == phone :> ann @@ laptop :> ann

InText == "to one" :> {ann} @@ "to both" :> {ann, bob} @@ "to none" :> {}

KindOfItem == "an action" :> "ACTION_DUE" @@ "a decision" :> "DECISION_DEADLINE"
ConcernedBy == "an action" :> {ann} @@ "a decision" :> {}

Interchangeable == Permutations(Decisions) \cup Permutations(Requests)

================================================================================
