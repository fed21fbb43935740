-------------------------------- MODULE Sessions --------------------------------
(***************************************************************************)
(* Sign-in sessions: families of refresh tokens of which each is used      *)
(* once (services/auth, repositories/refresh_token, core/security).       *)
(*                                                                         *)
(* A token is known by its family and its place in it.  Every Redis        *)
(* command and every read or commit of a user is one step.  Signatures are *)
(* taken to hold, tokens do not expire within a run, and no code           *)
(* deactivates or deletes a user.                                          *)
(***************************************************************************)
EXTENDS Naturals, FiniteSets

CONSTANTS
    Users,
    Families,    \* a bound on how many sessions are begun
    Requests,
    MaxUses,     \* a bound on refreshes per family
    MaxVersion   \* a bound on password resets

VARIABLES
    version,   \* users.auth_version
    tokens,    \* refresh tokens that were signed
    used,      \* auth:refresh:used:{jti}
    revoked,   \* auth:refresh:family:revoked:{family}
    calls      \* what each request in progress knows

sessionVars == <<version, tokens, used, revoked, calls>>

--------------------------------------------------------------------------------
Token == [family: Families, place: 0..MaxUses, user: Users, version: 0..MaxVersion]

NoCall == [at |-> "None"]

Steps == {"Consume", "ReadUser", "Sign", "Revoke"}

Step(r, step) == calls' = [calls EXCEPT ![r].at = step]

End(r) == calls' = [calls EXCEPT ![r] = NoCall]

Init ==
    /\ version = [u \in Users |-> 0]
    /\ tokens = {}
    /\ used = {}
    /\ revoked = {}
    /\ calls = [r \in Requests |-> NoCall]

--------------------------------------------------------------------------------
(* Password or Google: a pair in a new family, with the version just read. *)
SignIn(u, f) ==
    /\ \A t \in tokens : t.family # f
    /\ tokens' = tokens \cup {[family |-> f, place |-> 0, user |-> u, version |-> version[u]]}
    /\ UNCHANGED <<version, used, revoked, calls>>

(* A refresh of an unknown or revoked family ends here. *)
BeginRefresh(r, t) ==
    /\ calls[r] = NoCall
    /\ t \in tokens
    /\ t.family \notin revoked
    /\ t.place < MaxUses
    /\ calls' = [calls EXCEPT ![r] = [at |-> "Consume", token |-> t, version |-> 0]]
    /\ UNCHANGED <<version, tokens, used, revoked>>

(* Seeded fault: the mark is looked up in one command and set in another. *)
ConsumeTwice(r) ==
    /\ calls[r].at = "Consume"
    /\ \/ used' = used \cup {calls[r].token} /\ Step(r, "ReadUser")
       \/ used' = used /\ calls[r].token \in used /\ Step(r, "Revoke")
    /\ UNCHANGED <<version, tokens, revoked>>

(* SET NX: the first request to present the token goes on. *)
Consume(r) ==
    /\ calls[r].at = "Consume"
    /\ used' = used \cup {calls[r].token}
    /\ Step(r, IF calls[r].token \in used THEN "Revoke" ELSE "ReadUser")
    /\ UNCHANGED <<version, tokens, revoked>>

(* A token from before a password reset ends its family. *)
ReadUser(r) ==
    LET current == version[calls[r].token.user] IN
    /\ calls[r].at = "ReadUser"
    /\ calls' = [calls EXCEPT ![r].version = current,
                   ![r].at = IF calls[r].token.version = current THEN "Sign" ELSE "Revoke"]
    /\ UNCHANGED <<version, tokens, used, revoked>>

Sign(r) ==
    LET old == calls[r].token IN
    /\ calls[r].at = "Sign"
    /\ tokens' = tokens \cup {[old EXCEPT !.place = @ + 1, !.version = calls[r].version]}
    /\ End(r)
    /\ UNCHANGED <<version, used, revoked>>

Revoke(r) ==
    /\ calls[r].at = "Revoke"
    /\ revoked' = revoked \cup {calls[r].token.family}
    /\ End(r)
    /\ UNCHANGED <<version, tokens, used>>

Logout(t) ==
    /\ t \in tokens
    /\ t.family \notin revoked
    /\ revoked' = revoked \cup {t.family}
    /\ UNCHANGED <<version, tokens, used, calls>>

(* reset_password with a link that was just consumed: read the user, then  *)
(* write the version that was read plus one.                               *)
BeginReset(r, u) ==
    /\ calls[r] = NoCall
    /\ version[u] < MaxVersion
    /\ calls' = [calls EXCEPT ![r] = [at |-> "Reset", user |-> u, version |-> version[u] + 1]]
    /\ UNCHANGED <<version, tokens, used, revoked>>

UpdatePassword(r) ==
    /\ calls[r].at = "Reset"
    /\ version' = [version EXCEPT ![calls[r].user] = calls[r].version]
    /\ End(r)
    /\ UNCHANGED <<tokens, used, revoked>>

Next ==
    \/ \E u \in Users, f \in Families : SignIn(u, f)
    \/ \E t \in tokens : Logout(t)
    \/ \E r \in Requests :
        \/ \E t \in tokens : BeginRefresh(r, t)
        \/ Consume(r) \/ ReadUser(r) \/ Sign(r) \/ Revoke(r)
        \/ \E u \in Users : BeginReset(r, u)
        \/ UpdatePassword(r)

Spec == Init /\ [][Next]_sessionVars

--------------------------------------------------------------------------------
(* Every token and every request in progress is well formed. *)
TypeOK ==
    /\ version \in [Users -> 0..MaxVersion]
    /\ tokens \subseteq Token
    /\ used \subseteq tokens
    /\ revoked \subseteq Families
    /\ calls \in [Requests ->
          {NoCall} \cup [at: Steps, token: Token, version: 0..MaxVersion]
          \cup [at: {"Reset"}, user: Users, version: 0..MaxVersion]]

Rotating(f) == {r \in Requests : calls[r].at \in {"ReadUser", "Sign"} /\ calls[r].token.family = f}

(* README: refresh tokens rotate.  A family never holds two tokens that    *)
(* could still be exchanged, counting an exchange in progress, however     *)
(* many requests present the same token at once (refresh).                 *)
OneLiveTokenPerFamily ==
    \A f \in Families :
        Cardinality({t \in tokens : t.family = f /\ t \notin used})
            + Cardinality(Rotating(f)) <= 1

================================================================================
