------------------------- MODULE IntegrationConnections -------------------------
(***************************************************************************)
(* Connecting a workspace to a provider: OAuth states, connections and     *)
(* subscriptions (services integration, repositories integration and       *)
(* integration_oauth).                                                     *)
(*                                                                         *)
(* A request holds the row it read through its calls to the provider, and  *)
(* its commit writes the attributes that differ from what it read over     *)
(* whatever the row has become.  Owners and admins alone make the requests *)
(* that change something; a refused one changes nothing.                   *)
(***************************************************************************)
CONSTANTS
    States,     \* OAuth states
    Accounts,   \* accounts at the provider: a workspace has one connection to each
    EventTypes, \* events that can be subscribed to
    Requests

VARIABLES
    oauth,          \* the OAuth states in Redis
    connections,    \* integration_connections
    subscriptions,  \* integration_subscriptions
    granted,        \* accounts where the provider accepts the application's token
    talks           \* what each request in progress has read

connectionVars == <<oauth, connections, subscriptions, granted, talks>>

--------------------------------------------------------------------------------
(* An OAuth state is issued once and used once. *)
OAuthState == {"none", "issued", "gone"}

(* token: access_token_encrypted is set. *)
Connection == [status: {"ACTIVE", "REVOKED"}, token: BOOLEAN]

Absent == [status |-> "NONE", token |-> FALSE]

Subscription == {"NONE", "DISABLED", "ENABLED"}

Silent == [op |-> "None"]

Begin(r, talk) == talks[r] = Silent /\ talks' = [talks EXCEPT ![r] = talk]

Doing(r, op) == talks[r].op = op

Continue(r, talk) == talks' = [talks EXCEPT ![r] = talk]

End(r) == talks' = [talks EXCEPT ![r] = Silent]

Init ==
    /\ oauth = [s \in States |-> "none"]
    /\ connections = [a \in Accounts |-> Absent]
    /\ subscriptions = [a \in Accounts |-> [k \in EventTypes |-> "NONE"]]
    /\ granted = [a \in Accounts |-> FALSE]
    /\ talks = [r \in Requests |-> Silent]

(* Seeded fault: an UPDATE that sets the attribute whatever was read. *)
AlwaysWritten(now, seen, value) == value

(* The session writes an attribute only when it differs from what it read. *)
Rewritten(now, seen, value) == IF seen = value THEN now ELSE value

(* _access_token: credentials are used only while the connection is active. *)
Usable(row) == row.status = "ACTIVE" /\ row.token

--------------------------------------------------------------------------------
(* Authorization.                                                          *)

Authorize(s) ==
    /\ oauth[s] = "none"
    /\ oauth' = [oauth EXCEPT ![s] = "issued"]
    /\ UNCHANGED <<connections, subscriptions, granted, talks>>

(* The time to live of the state has passed, or the callback carries an    *)
(* error of the provider: the state is gone and nothing else happens.      *)
DropState(s) ==
    /\ oauth[s] = "issued"
    /\ oauth' = [oauth EXCEPT ![s] = "gone"]
    /\ UNCHANGED <<connections, subscriptions, granted, talks>>

(* The script gets and deletes the state at once. *)
Consume(s) ==
    /\ oauth[s] = "issued"
    /\ oauth' = [oauth EXCEPT ![s] = "gone"]

CompleteAuthorization(r, s) ==
    /\ Consume(s)
    /\ Begin(r, [op |-> "Exchange"])
    /\ UNCHANGED <<connections, subscriptions, granted>>

(* exchange_code: who approved the application chose the account. *)
ExchangeCode(r, a) ==
    /\ Doing(r, "Exchange")
    /\ granted' = [granted EXCEPT ![a] = TRUE]
    /\ Continue(r, [op |-> "ReadConnection", account |-> a])
    /\ UNCHANGED <<oauth, connections, subscriptions>>

ReadConnection(r) ==
    /\ Doing(r, "ReadConnection")
    /\ Continue(r, [op |-> "Upsert", account |-> talks[r].account,
                    seen |-> connections[talks[r].account]])
    /\ UNCHANGED <<oauth, connections, subscriptions, granted>>

(* uq_integration_connections: a row read as absent can only be inserted.  *)
Conflict(r) == talks[r].seen = Absent /\ connections[talks[r].account] # Absent

UpsertConnection(r) ==
    LET a == talks[r].account IN
    /\ Doing(r, "Upsert")
    /\ ~Conflict(r)
    /\ connections' = [connections EXCEPT
          ![a] = [status |-> Rewritten(@.status, talks[r].seen.status, "ACTIVE"), token |-> TRUE]]
    /\ Continue(r, [op |-> "ReadSubscriptions", account |-> a, set |-> "NONE",
                    kinds |-> EventTypes])
    /\ UNCHANGED <<oauth, subscriptions, granted>>

--------------------------------------------------------------------------------
(* Subscriptions.  Completing an authorization and listing insert those    *)
(* that are missing, disabled; an update sets those it names.              *)

ListSubscriptions(r, a) ==
    /\ connections[a] # Absent
    /\ Begin(r, [op |-> "ReadSubscriptions", account |-> a, set |-> "NONE", kinds |-> EventTypes])
    /\ UNCHANGED <<oauth, connections, subscriptions, granted>>

UpdateSubscriptions(r, a, k, setting) ==
    /\ connections[a] # Absent
    /\ Begin(r, [op |-> "ReadSubscriptions", account |-> a, set |-> setting, kinds |-> {k}])
    /\ UNCHANGED <<oauth, connections, subscriptions, granted>>

ReadSubscriptions(r) ==
    /\ Doing(r, "ReadSubscriptions")
    /\ Continue(r, [op |-> "WriteSubscriptions", account |-> talks[r].account,
                    set |-> talks[r].set, kinds |-> talks[r].kinds,
                    rows |-> subscriptions[talks[r].account]])
    /\ UNCHANGED <<oauth, connections, subscriptions, granted>>

(* ensure_subscriptions and update_subscriptions; the unique constraint    *)
(* refuses the commit when a row that was missing has been inserted.       *)
WriteSubscriptions(r) ==
    LET q == talks[r]
        missing == {k \in q.kinds : q.rows[k] = "NONE"}
        default == IF q.set = "NONE" THEN "DISABLED" ELSE q.set
        written == [k \in EventTypes |->
            CASE k \in missing -> default
              [] k \in q.kinds \ missing /\ q.set # "NONE" ->
                    Rewritten(subscriptions[q.account][k], q.rows[k], q.set)
              [] OTHER -> subscriptions[q.account][k]]
    IN
    /\ Doing(r, "WriteSubscriptions")
    /\ subscriptions' = IF \A k \in missing : subscriptions[q.account][k] = "NONE"
                        THEN [subscriptions EXCEPT ![q.account] = written]
                        ELSE subscriptions
    /\ End(r)
    /\ UNCHANGED <<oauth, connections, granted>>

--------------------------------------------------------------------------------
(* Tests and disconnection.                                                *)

SendTest(r, a) ==
    /\ Usable(connections[a])
    /\ Begin(r, [op |-> "Test", account |-> a, seen |-> connections[a]])
    /\ UNCHANGED <<oauth, connections, subscriptions, granted>>

(* The provider took the message. *)
MarkVerified(r) ==
    LET a == talks[r].account IN
    /\ Doing(r, "Test")
    /\ connections' = [connections EXCEPT
          ![a].status = Rewritten(@, talks[r].seen.status, "ACTIVE")]
    /\ End(r)
    /\ UNCHANGED <<oauth, subscriptions, granted>>

Disconnect(r, a) ==
    /\ Usable(connections[a])
    /\ Begin(r, [op |-> "Disconnect", account |-> a, seen |-> connections[a]])
    /\ UNCHANGED <<oauth, connections, subscriptions, granted>>

(* The provider refuses a token it no longer accepts. *)
Revoke(r) ==
    LET a == talks[r].account IN
    /\ Doing(r, "Disconnect")
    /\ granted[a]
    /\ granted' = [granted EXCEPT ![a] = FALSE]
    /\ Continue(r, [op |-> "MarkRevoked", account |-> a, seen |-> talks[r].seen])
    /\ UNCHANGED <<oauth, connections, subscriptions>>

MarkRevoked(r) ==
    LET a == talks[r].account
        seen == talks[r].seen
    IN
    /\ Doing(r, "MarkRevoked")
    /\ connections' = [connections EXCEPT
          ![a] = [status |-> Rewritten(@.status, seen.status, "REVOKED"),
                  token |-> Rewritten(@.token, seen.token, FALSE)]]
    /\ End(r)
    /\ UNCHANGED <<oauth, subscriptions, granted>>

(* The provider refuses, a constraint refuses the insertion of a second    *)
(* connection, or the process is lost: nothing more is written.            *)
TalkFails(r) ==
    /\ \/ talks[r].op \in {"Exchange", "ReadConnection", "ReadSubscriptions", "Test",
                           "Disconnect", "MarkRevoked"}
       \/ Doing(r, "Upsert") /\ Conflict(r)
    /\ End(r)
    /\ UNCHANGED <<oauth, connections, subscriptions, granted>>

TalkStep(r) ==
    \/ \E s \in States : CompleteAuthorization(r, s)
    \/ \E a \in Accounts :
        \/ ExchangeCode(r, a) \/ ListSubscriptions(r, a) \/ SendTest(r, a) \/ Disconnect(r, a)
        \/ \E k \in EventTypes, v \in {"DISABLED", "ENABLED"} : UpdateSubscriptions(r, a, k, v)
    \/ ReadConnection(r) \/ UpsertConnection(r)
    \/ ReadSubscriptions(r) \/ WriteSubscriptions(r)
    \/ MarkVerified(r) \/ Revoke(r) \/ MarkRevoked(r) \/ TalkFails(r)

Next ==
    \/ \E s \in States : Authorize(s) \/ DropState(s)
    \/ \E r \in Requests : TalkStep(r)

Spec == Init /\ [][Next]_connectionVars

--------------------------------------------------------------------------------
Talk ==
    {Silent}
    \cup [op: {"Exchange"}]
    \cup [op: {"ReadConnection"}, account: Accounts]
    \cup [op: {"Upsert", "Test", "Disconnect", "MarkRevoked"}, account: Accounts,
          seen: Connection \cup {Absent}]
    \cup [op: {"ReadSubscriptions"}, account: Accounts, set: Subscription, kinds: SUBSET EventTypes]
    \cup [op: {"WriteSubscriptions"}, account: Accounts, set: Subscription,
          kinds: SUBSET EventTypes, rows: [EventTypes -> Subscription]]

(* Every row and every request in progress is well formed. *)
TypeOK ==
    /\ oauth \in [States -> OAuthState]
    /\ connections \in [Accounts -> Connection \cup {Absent}]
    /\ subscriptions \in [Accounts -> [EventTypes -> Subscription]]
    /\ granted \in [Accounts -> BOOLEAN]
    /\ talks \in [Requests -> Talk]

(* An active connection holds credentials, although tests, reconnections   *)
(* and disconnections that read it before commit over one another: none of *)
(* them writes the status it read (mark_verified, upsert_connection).      *)
ActiveHasToken == \A a \in Accounts : connections[a].status = "ACTIVE" => connections[a].token

================================================================================
