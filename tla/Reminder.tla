--------------------------------- MODULE Reminder ---------------------------------
(***************************************************************************)
(* What ForkRoom promises about a reminder: once announced it is open, it  *)
(* ends delivered or failed and stays so, it is delivered only if an email *)
(* went out, and no more emails go out than attempts are allowed.  A slow  *)
(* email may still go out after the end.  Rows, queues, workers, leases    *)
(* and faults are how NotificationDelivery keeps the promise.              *)
(***************************************************************************)
EXTENDS Naturals

CONSTANTS Notifications, MaxAttempts

VARIABLES
    outcome,  \* of each reminder
    emails    \* how many went out

vars == <<outcome, emails>>

Outcomes == {"NONE", "OPEN", "DELIVERED", "FAILED"}

Init ==
    /\ outcome = [n \in Notifications |-> "NONE"]
    /\ emails = [n \in Notifications |-> 0]

Announce(n) ==
    /\ outcome[n] = "NONE"
    /\ outcome' = [outcome EXCEPT ![n] = "OPEN"]
    /\ UNCHANGED emails

Email(n) ==
    /\ outcome[n] # "NONE"
    /\ emails[n] < MaxAttempts
    /\ emails' = [emails EXCEPT ![n] = @ + 1]
    /\ UNCHANGED outcome

Deliver(n) ==
    /\ outcome[n] = "OPEN"
    /\ emails[n] > 0
    /\ outcome' = [outcome EXCEPT ![n] = "DELIVERED"]
    /\ UNCHANGED emails

Fail(n) ==
    /\ outcome[n] = "OPEN"
    /\ outcome' = [outcome EXCEPT ![n] = "FAILED"]
    /\ UNCHANGED emails

Next == \E n \in Notifications : Announce(n) \/ Email(n) \/ Deliver(n) \/ Fail(n)

Spec == Init /\ [][Next]_vars

================================================================================
