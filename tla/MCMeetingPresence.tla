--------------------------- MODULE MCMeetingPresence ---------------------------
(***************************************************************************)
(* One participant alone in a meeting, with one connection.                *)
(***************************************************************************)
EXTENDS MeetingRoom, TLC

CONSTANTS ann, laptop

UserOfLaptop == laptop :> ann
Facilitator == ann :> "OWNER"

================================================================================
