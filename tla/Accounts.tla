-------------------------------- MODULE Accounts --------------------------------
(***************************************************************************)
(* User accounts: registration, emailed links that work once, and Google   *)
(* sign-in (services auth and google_oauth, repositories user,             *)
(* action_token, auth_oauth and oauth_account).                            *)
(*                                                                         *)
(* Emails are unique and never change, so a user is known by the email.    *)
(* Each Redis command, SELECT and commit is one step.  Two cases no code   *)
(* in the repository brings about are left out: an inactive user, and a    *)
(* deleted one.                                                            *)
(***************************************************************************)
EXTENDS FiniteSets

CONSTANTS
    Emails,
    Subjects,   \* Google identities
    Links,      \* tokens that issue draws at random
    Requests

VARIABLES
    users,      \* email -> unregistered, unverified or verified
    links,      \* auth:action:{purpose}:token:{digest}
    current,    \* auth:action:{purpose}:user:{id}
    sent,       \* links that were emailed
    accounts,   \* oauth_accounts
    signedIn,   \* <<subject, email>>: sign-ins that were completed
    tasks       \* what each request in progress knows

accountVars == <<users, links, current, sent, accounts, signedIn, tasks>>

--------------------------------------------------------------------------------
(* users, by what is known of the email; links in Redis; oauth_accounts. *)
User == {"unregistered", "unverified", "verified"}

Purposes == {"email-verification", "password-reset"}

Link == [link: Links, email: Emails, purpose: Purposes]

Account == [subject: Subjects, email: Emails]

NoLink == "no link"
NoTask == [at |-> "None"]

Go(r, step) == tasks' = [tasks EXCEPT ![r].at = step]

End(r) == tasks' = [tasks EXCEPT ![r] = NoTask]

Init ==
    /\ users = [e \in Emails |-> "unregistered"]
    /\ links = {}
    /\ current = [e \in Emails |-> [p \in Purposes |-> NoLink]]
    /\ sent = {}
    /\ accounts = {}
    /\ signedIn = {}
    /\ tasks = [r \in Requests |-> NoTask]

Registered(e) == users[e] # "unregistered"

--------------------------------------------------------------------------------
(* Registration and emailed links.                                         *)

BeginRegister(r, e) ==
    /\ tasks[r] = NoTask
    /\ ~Registered(e)
    /\ tasks' = [tasks EXCEPT ![r] = [at |-> "CreateUser", email |-> e]]
    /\ UNCHANGED <<users, links, current, sent, accounts, signedIn>>

(* The unique email decides; then the verification email is issued. *)
CreateUser(r) ==
    LET e == tasks[r].email IN
    /\ tasks[r].at = "CreateUser"
    /\ IF Registered(e)
       THEN End(r) /\ UNCHANGED users
       ELSE /\ users' = [users EXCEPT ![e] = "unverified"]
            /\ tasks' = [tasks EXCEPT ![r] =
                  [at |-> "GetPrevious", email |-> e, purpose |-> "email-verification"]]
    /\ UNCHANGED <<links, current, sent, accounts, signedIn>>

(* request_email_verification and forgot_password. *)
BeginIssue(r, e, p) ==
    /\ tasks[r] = NoTask
    /\ Registered(e)
    /\ p = "email-verification" => users[e] = "unverified"
    /\ tasks' = [tasks EXCEPT ![r] = [at |-> "GetPrevious", email |-> e, purpose |-> p]]
    /\ UNCHANGED <<users, links, current, sent, accounts, signedIn>>

Fresh(l) == /\ l \notin sent
            /\ \A r \in Requests : "link" \in DOMAIN tasks[r] => tasks[r].link # l

GetPrevious(r, l) ==
    LET t == tasks[r] IN
    /\ t.at = "GetPrevious"
    /\ Fresh(l)
    /\ tasks' = [tasks EXCEPT ![r] =
          [at |-> "DropPrevious", email |-> t.email, purpose |-> t.purpose, link |-> l,
           previous |-> current[t.email][t.purpose]]]
    /\ UNCHANGED <<users, links, current, sent, accounts, signedIn>>

DropPrevious(r) ==
    /\ tasks[r].at = "DropPrevious"
    /\ links' = {k \in links : k.link # tasks[r].previous}
    /\ Go(r, "SetToken")
    /\ UNCHANGED <<users, current, sent, accounts, signedIn>>

SetToken(r) ==
    LET t == tasks[r] IN
    /\ t.at = "SetToken"
    /\ links' = links \cup {[link |-> t.link, email |-> t.email, purpose |-> t.purpose]}
    /\ Go(r, "SetCurrent")
    /\ UNCHANGED <<users, current, sent, accounts, signedIn>>

SetCurrent(r) ==
    LET t == tasks[r] IN
    /\ t.at = "SetCurrent"
    /\ current' = [current EXCEPT ![t.email][t.purpose] = t.link]
    /\ sent' = sent \cup {t.link}
    /\ End(r)
    /\ UNCHANGED <<users, links, accounts, signedIn>>

(* The Lua script: a link is taken and, if it is still the current one,    *)
(* forgotten.  The request goes on to the user.                            *)
Confirm(r, k) ==
    /\ tasks[r] = NoTask
    /\ k \in links /\ k.link \in sent
    /\ links' = links \ {k}
    /\ current' = IF current[k.email][k.purpose] = k.link
                  THEN [current EXCEPT ![k.email][k.purpose] = NoLink] ELSE current
    /\ tasks' = [tasks EXCEPT ![r] =
          [at |-> IF k.purpose = "email-verification" THEN "MarkVerified" ELSE "ResetPassword",
           email |-> k.email]]
    /\ UNCHANGED <<users, sent, accounts, signedIn>>

MarkVerified(r) ==
    /\ tasks[r].at = "MarkVerified"
    /\ users' = [users EXCEPT ![tasks[r].email] = "verified"]
    /\ End(r)
    /\ UNCHANGED <<links, current, sent, accounts, signedIn>>

(* What the new password does to sessions is in module Sessions. *)
ResetPassword(r) ==
    /\ tasks[r].at = "ResetPassword"
    /\ End(r)
    /\ UNCHANGED <<users, links, current, sent, accounts, signedIn>>

(* The two keys of a link have the same lifetime. *)
LinkExpires(k) ==
    /\ k \in links
    /\ links' = links \ {k}
    /\ current' = IF current[k.email][k.purpose] = k.link
                  THEN [current EXCEPT ![k.email][k.purpose] = NoLink] ELSE current
    /\ UNCHANGED <<users, sent, accounts, signedIn, tasks>>

--------------------------------------------------------------------------------
(* Google sign-in, once its OAuth state was consumed and the code was      *)
(* exchanged for a profile: authenticate_google.                           *)

Linked(s) == {a \in accounts : a.subject = s}

ReturningUser(r, s) ==
    /\ tasks[r] = NoTask
    /\ \E a \in Linked(s) : signedIn' = signedIn \cup {<<s, a.email>>}
    /\ UNCHANGED <<users, links, current, sent, accounts, tasks>>

BeginGoogle(r, s, e) ==
    /\ tasks[r] = NoTask
    /\ Linked(s) = {}
    /\ tasks' = [tasks EXCEPT ![r] = [at |-> "ReadEmail", subject |-> s, email |-> e]]
    /\ UNCHANGED <<users, links, current, sent, accounts, signedIn>>

ReadEmail(r) ==
    /\ tasks[r].at = "ReadEmail"
    /\ Go(r, IF Registered(tasks[r].email) THEN "LinkUser" ELSE "InsertUser")
    /\ UNCHANGED <<users, links, current, sent, accounts, signedIn>>

(* Seeded fault: nothing keeps an identity to one account. *)
UnlinkedAnyway(s, e) == TRUE

(* uq_oauth_accounts_provider_subject and uq_oauth_accounts_user_provider *)
Unlinked(s, e) == \A a \in accounts : a.subject # s /\ a.email # e

(* The account, with a new user or a verified old one, in one commit. *)
LinkGoogle(r) ==
    LET s == tasks[r].subject
        e == tasks[r].email
    IN
    /\ \/ tasks[r].at = "LinkUser"
       \/ tasks[r].at = "InsertUser" /\ ~Registered(e)
    /\ Unlinked(s, e)
    /\ users' = [users EXCEPT ![e] = "verified"]
    /\ accounts' = accounts \cup {[subject |-> s, email |-> e]}
    /\ signedIn' = signedIn \cup {<<s, e>>}
    /\ End(r)
    /\ UNCHANGED <<links, current, sent>>

(* A constraint refuses the commit: someone else may have linked the same  *)
(* identity, otherwise the sign-in is a conflict.                          *)
LinkConflict(r) ==
    LET s == tasks[r].subject
        e == tasks[r].email
    IN
    /\ \/ tasks[r].at = "InsertUser" /\ Registered(e)
       \/ tasks[r].at \in {"LinkUser", "InsertUser"} /\ ~Unlinked(s, e)
    /\ signedIn' = signedIn \cup {<<s, a.email>> : a \in Linked(s)}
    /\ End(r)
    /\ UNCHANGED <<users, links, current, sent, accounts>>

--------------------------------------------------------------------------------
Next ==
    \/ \E k \in links : LinkExpires(k)
    \/ \E r \in Requests :
        \/ \E e \in Emails : BeginRegister(r, e)
        \/ CreateUser(r)
        \/ \E e \in Emails, p \in Purposes : BeginIssue(r, e, p)
        \/ \E l \in Links : GetPrevious(r, l)
        \/ DropPrevious(r) \/ SetToken(r) \/ SetCurrent(r)
        \/ \E k \in links : Confirm(r, k)
        \/ MarkVerified(r) \/ ResetPassword(r)
        \/ \E s \in Subjects : ReturningUser(r, s)
        \/ \E s \in Subjects, e \in Emails : BeginGoogle(r, s, e)
        \/ ReadEmail(r) \/ LinkGoogle(r) \/ LinkConflict(r)

Spec == Init /\ [][Next]_accountVars

--------------------------------------------------------------------------------
Task ==
    {NoTask}
    \cup [at: {"CreateUser", "MarkVerified", "ResetPassword"}, email: Emails]
    \cup [at: {"GetPrevious"}, email: Emails, purpose: Purposes]
    \cup [at: {"DropPrevious", "SetToken", "SetCurrent"}, email: Emails, purpose: Purposes,
          link: Links, previous: Links \cup {NoLink}]
    \cup [at: {"ReadEmail", "LinkUser", "InsertUser"}, subject: Subjects, email: Emails]

(* Every row, key and request in progress is well formed. *)
TypeOK ==
    /\ users \in [Emails -> User]
    /\ links \subseteq Link
    /\ current \in [Emails -> [Purposes -> Links \cup {NoLink}]]
    /\ sent \subseteq Links
    /\ accounts \subseteq Account
    /\ signedIn \subseteq Subjects \X Emails
    /\ tasks \in [Requests -> Task]

(* All completed sign-ins of one Google identity are the same user, and no *)
(* two identities sign in as one user, although the account was looked for *)
(* before a concurrent sign-in or registration committed                   *)
(* (authenticate_google).                                                  *)
SignInsAgree ==
    \A x, y \in signedIn : x[1] = y[1] <=> x[2] = y[2]

================================================================================
