-------------------------------- MODULE Services --------------------------------
(***************************************************************************)
(* The request handlers around the decision core.  They share no state, so *)
(* each behaviour runs one service and the others stand still.  The        *)
(* reviews of DecisionReview are extended, the other services instantiated.*)
(***************************************************************************)
EXTENDS DecisionReview

CONSTANTS
    Members, Role,                            \* users of the workspace and their roles
    Actions,
    Devices, MaxParticipants, MaxLapses,      \* connections to meetings, and bounds
    Guests, GuestOn, GuestRole, GuestCrowd,   \* who joins a room
    MemberOn, MemberCrowd,                    \* who speaks in one
    Holders, Families, MaxUses, MaxVersion,   \* users who sign in, and bounds
    Emails, Subjects, Links,
    Comments, Texts, Mentioned,
    Rows,
    States, ProviderAccounts, EventTypes,
    Recipients, Items, Kind, People, Scans, Window, MaxTime,
    Criteria, Proposals

(* Users are identified by UUIDs and not by the marks of a workspace that  *)
(* has no owner, nor connections by the mark of a free lock.               *)
ASSUME MembersAssumption == Members \cap {"none", "deleted"} = {}

ASSUME DevicesAssumption == IsFiniteSet(Devices) /\ "nobody" \notin Devices

(* Each connection brings a token; the room is not too full to start with. *)
ASSUME RoomsAssumption ==
    /\ GuestOn \in [Devices -> Guests] /\ MemberOn \in [Devices -> Members]
    /\ GuestCrowd \subseteq Guests /\ MemberCrowd \subseteq Members
    /\ \A crowd \in {GuestCrowd, MemberCrowd} :
          IsFiniteSet(crowd) /\ Cardinality(crowd) <= MaxParticipants

ASSUME BoundsAssumption ==
    /\ MaxParticipants \in Nat /\ MaxLapses \in Nat
    /\ MaxUses \in Nat /\ MaxVersion \in Nat
    /\ MaxTime \in Nat \ {0}

(* Only users of the workspace can be mentioned. *)
ASSUME MentionedAssumption == Mentioned \in [Texts -> SUBSET Members]

ASSUME CriteriaAssumption == IsFiniteSet(Criteria)

VARIABLES
    service,
    actions, changes,
    present, presence, speakers, timer, expiring, joinLock, lapses, conns,
    version, tokens, used, revoked, calls,
    users, links, current, sent, accounts, signedIn, tasks,
    comments, mentions, notices, pages,
    owner, members, errands,
    oauth, connections, subscriptions, granted, talks,
    now, items, inserted, published, scans,
    criteria, scores, forms

actionVars == <<actions, changes>>
meetingVars == <<present, presence, speakers, timer, expiring, joinLock, lapses, conns>>
sessionVars == <<version, tokens, used, revoked, calls>>
accountVars == <<users, links, current, sent, accounts, signedIn, tasks>>
discussionVars == <<comments, mentions, notices, pages>>
workspaceVars == <<owner, members, errands>>
connectionVars == <<oauth, connections, subscriptions, granted, talks>>
discoveryVars == <<now, items, inserted, published, scans>>
evaluationVars == <<criteria, scores, forms>>

servicesVars == <<service, reviewVars, actionVars, meetingVars, sessionVars, accountVars,
                  discussionVars, workspaceVars, connectionVars, discoveryVars, evaluationVars>>

--------------------------------------------------------------------------------
Implementation == INSTANCE ImplementationAction

(* A room that is joined, and one in which a queue forms: the instances    *)
(* for TLC give them different users and connections.                      *)
Room == INSTANCE MeetingRoom
    WITH Participants <- Guests, Connections <- Devices, UserOf <- GuestOn, Role <- GuestRole,
         Crowd <- GuestCrowd

Queue == INSTANCE MeetingRoom
    WITH Participants <- Members, Connections <- Devices, UserOf <- MemberOn, Crowd <- MemberCrowd

SignIn == INSTANCE Sessions WITH Users <- Holders

Registration == INSTANCE Accounts

Inbox == INSTANCE Discussion WITH Users <- Members

Membership == INSTANCE Workspaces WITH Users <- Members

Connect == INSTANCE IntegrationConnections WITH Accounts <- ProviderAccounts

Scan == INSTANCE ReminderDiscovery WITH Users <- Recipients

Scoring == INSTANCE Evaluation

--------------------------------------------------------------------------------
Names == {"reviews", "actions", "room", "queue", "sessions", "accounts", "discussion",
          "workspaces", "connections", "discovery", "evaluation"}

ServicesInit ==
    /\ service \in Names
    /\ Init
    /\ Implementation!Init
    /\ IF service = "room" THEN Room!Init ELSE Queue!Init
    /\ SignIn!Init
    /\ Registration!Init
    /\ Inbox!Init
    /\ Membership!Init
    /\ Connect!Init
    /\ Scan!Init
    /\ Scoring!Init

OnReviews(A) ==
    /\ service = "reviews" /\ A
    /\ UNCHANGED <<service, actionVars, meetingVars, sessionVars, accountVars, discussionVars,
                   workspaceVars, connectionVars, discoveryVars, evaluationVars>>
OnActions(A) ==
    /\ service = "actions" /\ A
    /\ UNCHANGED <<service, reviewVars, meetingVars, sessionVars, accountVars, discussionVars,
                   workspaceVars, connectionVars, discoveryVars, evaluationVars>>
OnMeetings(name, A) ==
    /\ service = name /\ A
    /\ UNCHANGED <<service, reviewVars, actionVars, sessionVars, accountVars, discussionVars,
                   workspaceVars, connectionVars, discoveryVars, evaluationVars>>
OnSessions(A) ==
    /\ service = "sessions" /\ A
    /\ UNCHANGED <<service, reviewVars, actionVars, meetingVars, accountVars, discussionVars,
                   workspaceVars, connectionVars, discoveryVars, evaluationVars>>
OnAccounts(A) ==
    /\ service = "accounts" /\ A
    /\ UNCHANGED <<service, reviewVars, actionVars, meetingVars, sessionVars, discussionVars,
                   workspaceVars, connectionVars, discoveryVars, evaluationVars>>
OnDiscussion(A) ==
    /\ service = "discussion" /\ A
    /\ UNCHANGED <<service, reviewVars, actionVars, meetingVars, sessionVars, accountVars,
                   workspaceVars, connectionVars, discoveryVars, evaluationVars>>
OnWorkspaces(A) ==
    /\ service = "workspaces" /\ A
    /\ UNCHANGED <<service, reviewVars, actionVars, meetingVars, sessionVars, accountVars,
                   discussionVars, connectionVars, discoveryVars, evaluationVars>>
OnConnections(A) ==
    /\ service = "connections" /\ A
    /\ UNCHANGED <<service, reviewVars, actionVars, meetingVars, sessionVars, accountVars,
                   discussionVars, workspaceVars, discoveryVars, evaluationVars>>
OnDiscovery(A) ==
    /\ service = "discovery" /\ A
    /\ UNCHANGED <<service, reviewVars, actionVars, meetingVars, sessionVars, accountVars,
                   discussionVars, workspaceVars, connectionVars, evaluationVars>>
OnEvaluation(A) ==
    /\ service = "evaluation" /\ A
    /\ UNCHANGED <<service, reviewVars, actionVars, meetingVars, sessionVars, accountVars,
                   discussionVars, workspaceVars, connectionVars, discoveryVars>>

ReviewServiceStep ==
    \/ \E d \in Decisions :
        \/ OnReviews(CreateDraft(d))
        \/ OnReviews(LockDecision(d))
        \/ OnReviews(DeleteDraft(d))
        \/ \E v \in Reviews : OnReviews(CreateReview(v, d))
    \/ \E v \in Reviews : OnReviews(BecomeDue(v))
    \/ \E r \in Requests :
        \/ \E v \in Reviews :
            \/ OnReviews(UpdateReview(r, v))
            \/ OnReviews(CancelReview(r, v))
            \/ \E o \in Outcomes : OnReviews(CompleteReview(r, v, o))
        \/ OnReviews(WriteReview(r))
        \/ OnReviews(WriteCancelled(r))
        \/ OnReviews(WriteConfirmed(r))
        \/ OnReviews(ReadRevisions(r))
        \/ OnReviews(ReviseConflict(r))
        \/ \E d \in Decisions : OnReviews(Revise(r, d))

ActionServiceStep ==
    \/ \E u, v \in Members, a \in Actions : OnActions(Implementation!CreateAction(u, a, v))
    \/ \E r \in Requests :
        \/ \E u, v \in Members, a \in Actions :
            OnActions(Implementation!UpdateAction(r, u, a, v))
        \/ \E u \in Members, a \in Actions :
            \E t \in Implementation!Active \cup Implementation!Finished :
                OnActions(Implementation!TransitionAction(r, u, a, t))
        \/ OnActions(Implementation!WriteUpdate(r))
        \/ OnActions(Implementation!WriteTransition(r))

MeetingStep ==
    \/ OnMeetings("room", Room!Next)
    \/ \E c \in Devices :
        \/ OnMeetings("queue", Queue!AcquireLock(c))
        \/ OnMeetings("queue", Queue!FindStale(c))
        \/ OnMeetings("queue", Queue!RemoveStale(c))
        \/ OnMeetings("queue", Queue!CheckCapacity(c))
        \/ OnMeetings("queue", Queue!AddParticipant(c))
        \/ OnMeetings("queue", Queue!ReleaseLock(c))
        \/ OnMeetings("queue", Queue!ReadTimer(c))
        \/ OnMeetings("queue", Queue!DropTimer(c))
        \/ OnMeetings("queue", Queue!Heartbeat(c))
        \/ OnMeetings("queue", Queue!AskToSpeak(c))
        \/ OnMeetings("queue", Queue!QueueSpeaker(c))
        \/ OnMeetings("queue", Queue!LeaveQueue(c))
        \/ OnMeetings("queue", Queue!StartTimer(c))
        \/ OnMeetings("queue", Queue!CancelTimer(c))
        \/ OnMeetings("queue", Queue!Leave(c))
        \/ OnMeetings("queue", Queue!Die(c))
    \/ \E u \in Members : OnMeetings("queue", Queue!FallSilent(u))
    \/ OnMeetings("queue", Queue!LockExpires)
    \/ OnMeetings("queue", Queue!TimerEnds)
    \/ OnMeetings("queue", Queue!KeysExpire)

SessionStep ==
    \/ \E u \in Holders, f \in Families : OnSessions(SignIn!SignIn(u, f))
    \/ \E t \in tokens : OnSessions(SignIn!Logout(t))
    \/ \E r \in Requests :
        \/ \E t \in tokens : OnSessions(SignIn!BeginRefresh(r, t))
        \/ OnSessions(SignIn!Consume(r))
        \/ OnSessions(SignIn!ReadUser(r))
        \/ OnSessions(SignIn!Sign(r))
        \/ OnSessions(SignIn!Revoke(r))
        \/ \E u \in Holders : OnSessions(SignIn!BeginReset(r, u))
        \/ OnSessions(SignIn!UpdatePassword(r))

AccountStep ==
    \/ \E k \in links : OnAccounts(Registration!LinkExpires(k))
    \/ \E r \in Requests :
        \/ \E e \in Emails : OnAccounts(Registration!BeginRegister(r, e))
        \/ OnAccounts(Registration!CreateUser(r))
        \/ \E e \in Emails, p \in Registration!Purposes :
            OnAccounts(Registration!BeginIssue(r, e, p))
        \/ \E l \in Links : OnAccounts(Registration!GetPrevious(r, l))
        \/ OnAccounts(Registration!DropPrevious(r))
        \/ OnAccounts(Registration!SetToken(r))
        \/ OnAccounts(Registration!SetCurrent(r))
        \/ \E k \in links : OnAccounts(Registration!Confirm(r, k))
        \/ OnAccounts(Registration!MarkVerified(r))
        \/ OnAccounts(Registration!ResetPassword(r))
        \/ \E s \in Subjects :
            \/ OnAccounts(Registration!ReturningUser(r, s))
            \/ \E e \in Emails : OnAccounts(Registration!BeginGoogle(r, s, e))
        \/ OnAccounts(Registration!ReadEmail(r))
        \/ OnAccounts(Registration!LinkGoogle(r))
        \/ OnAccounts(Registration!LinkConflict(r))

DiscussionStep ==
    \/ \E cs \in SUBSET Comments : OnDiscussion(Inbox!CascadeComments(cs))
    \/ \E c \in Comments, t \in Texts :
        \/ OnDiscussion(Inbox!CreateComment(c, t))
        \/ \E r \in Requests : OnDiscussion(Inbox!UpdateComment(r, c, t))
    \/ \E r \in Requests :
        \/ \E c \in Comments :
            \/ OnDiscussion(Inbox!DeleteComment(r, c))
            \/ \E u \in Members, read \in BOOLEAN : OnDiscussion(Inbox!MarkMention(r, c, u, read))
        \/ \E u \in Members : OnDiscussion(Inbox!MarkAllMentions(r, u))
        \/ OnDiscussion(Inbox!ReadMentions(r))
        \/ OnDiscussion(Inbox!CommitComment(r))
        \/ OnDiscussion(Inbox!Rollback(r))
        \/ OnDiscussion(Inbox!WriteMark(r))
        \/ OnDiscussion(Inbox!WriteAllRead(r))
    \/ \E u \in Members :
        \/ \E c \in Comments : OnDiscussion(Inbox!ReadNotice(c, u))
        \/ OnDiscussion(Inbox!ReadAllNotices(u))

WorkspaceStep ==
    \/ \E u \in Members, m \in Rows : OnWorkspaces(Membership!CreateWorkspace(u, m))
    \/ OnWorkspaces(Membership!DeleteWorkspace)
    \/ \E r \in Requests :
        \/ \E m \in Rows :
            \/ \E u \in Members, role \in Membership!Assignable :
                OnWorkspaces(Membership!AddMember(r, m, u, role))
            \/ \E n \in Rows :
                \/ \E role \in Membership!Assignable :
                    OnWorkspaces(Membership!UpdateMemberRole(r, m, n, role))
                \/ OnWorkspaces(Membership!RemoveMember(r, m, n))
            \/ OnWorkspaces(Membership!InsertMember(r, m))
        \/ OnWorkspaces(Membership!InsertConflict(r))
        \/ OnWorkspaces(Membership!WriteRole(r))
        \/ OnWorkspaces(Membership!DeleteRow(r))

ConnectionStep ==
    \/ \E s \in States :
        \/ OnConnections(Connect!Authorize(s))
        \/ OnConnections(Connect!DropState(s))
        \/ \E r \in Requests : OnConnections(Connect!CompleteAuthorization(r, s))
    \/ \E r \in Requests :
        \/ \E a \in ProviderAccounts :
            \/ OnConnections(Connect!ExchangeCode(r, a))
            \/ OnConnections(Connect!ListSubscriptions(r, a))
            \/ \E k \in EventTypes, v \in {"ENABLED", "DISABLED"} :
                OnConnections(Connect!UpdateSubscriptions(r, a, k, v))
            \/ OnConnections(Connect!SendTest(r, a))
            \/ OnConnections(Connect!Disconnect(r, a))
        \/ OnConnections(Connect!ReadConnection(r))
        \/ OnConnections(Connect!UpsertConnection(r))
        \/ OnConnections(Connect!ReadSubscriptions(r))
        \/ OnConnections(Connect!WriteSubscriptions(r))
        \/ OnConnections(Connect!MarkVerified(r))
        \/ OnConnections(Connect!Revoke(r))
        \/ OnConnections(Connect!MarkRevoked(r))
        \/ OnConnections(Connect!TalkFails(r))

DiscoveryStep ==
    \/ OnDiscovery(Scan!Tick)
    \/ \E i \in Items :
        \/ OnDiscovery(Scan!FinishItem(i))
        \/ \E t \in Scan!Times : OnDiscovery(Scan!RescheduleItem(i, t))
    \/ \E s \in Scans :
        \/ OnDiscovery(Scan!StartScan(s))
        \/ OnDiscovery(Scan!LoadCandidates(s))
        \/ \E key \in scans[s].found :
            \/ OnDiscovery(Scan!CreateCandidate(s, key))
            \/ OnDiscovery(Scan!LoseAfterInsert(s, key))
        \/ OnDiscovery(Scan!EndScan(s))

EvaluationStep ==
    \/ \E r \in Requests :
        \/ OnEvaluation(Scoring!CreateCriterion(r))
        \/ OnEvaluation(Scoring!ReorderCriteria(r))
        \/ OnEvaluation(Scoring!WriteOrder(r))
        \/ OnEvaluation(Scoring!WriteScore(r))
        \/ OnEvaluation(Scoring!FormFails(r))
        \/ \E c \in Criteria :
            \/ OnEvaluation(Scoring!InsertCriterion(r, c))
            \/ \E p \in Proposals : OnEvaluation(Scoring!UpsertScore(r, p, c))
    \/ \E c \in Criteria : OnEvaluation(Scoring!DeleteCriterion(c))

ServicesNext ==
    \/ ReviewServiceStep \/ ActionServiceStep \/ MeetingStep \/ SessionStep \/ AccountStep
    \/ DiscussionStep \/ WorkspaceStep \/ ConnectionStep \/ DiscoveryStep \/ EvaluationStep

ServicesSpec == ServicesInit /\ [][ServicesNext]_servicesVars

--------------------------------------------------------------------------------
(* The state of every service is well formed. *)
ServicesTypeOK ==
    /\ TypeOK /\ Implementation!TypeOK /\ SignIn!TypeOK /\ Registration!TypeOK
    /\ IF service = "room" THEN Room!TypeOK ELSE Queue!TypeOK
    /\ Inbox!TypeOK /\ Membership!TypeOK /\ Connect!TypeOK /\ Scan!TypeOK /\ Scoring!TypeOK

(* Reviews and actions end once, whatever late requests commit. *)
EndsOnce == ReviewEndsOnce /\ Implementation!ActionEndsOnce

(* Meetings keep to the participant limit and the speaker queue to one     *)
(* entry per connection.                                                   *)
MeetingLimits ==
    IF service = "room" THEN Room!CapacityHeld /\ Room!SpeakersBounded
    ELSE Queue!CapacityHeld /\ Queue!SpeakersBounded

(* A family of refresh tokens never has two that could be exchanged. *)
OneLiveTokenPerFamily == SignIn!OneLiveTokenPerFamily

(* One Google identity is one user. *)
SignInsAgree == Registration!SignInsAgree

(* The inbox shows the mentions that stand, and otherwise only notices of  *)
(* comments that went with a deleted draft.                                *)
NoticesFollowMentions == Inbox!NoticesFollowMentions

(* A workspace keeps its owner and nobody is a member twice. *)
OwnerStays == Membership!OwnerStays

(* An active connection holds credentials. *)
ActiveHasToken == Connect!ActiveHasToken

(* Overlapping scans publish one occasion once. *)
PublishedOnce == Scan!PublishedOnce

(* Criteria keep distinct positions and scores their criterion. *)
CriteriaStayInOrder == Scoring!CriteriaStayInOrder

================================================================================
