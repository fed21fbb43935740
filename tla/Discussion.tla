------------------------------- MODULE Discussion -------------------------------
(***************************************************************************)
(* Comments, the mentions in them and the notices of the mentions          *)
(* (services and repositories comment and mention, and the read state of   *)
(* the inbox in services and repositories notification).                   *)
(*                                                                         *)
(* A request reads in one step and writes in a later one.  A deletion, and *)
(* an edit that changes the row of the comment, hold the row's lock while  *)
(* they read and rewrite the mentions; an edit that changes nothing takes  *)
(* no lock.  Comments may be on drafts: when a draft decision or proposal  *)
(* is deleted its comments and their mentions go with it by foreign key,   *)
(* the notices, which refer to them by a bare source_id, do not.           *)
(***************************************************************************)
CONSTANTS
    Users,      \* members of the workspace who can be mentioned
    Comments,
    Texts,
    Mentioned,  \* who each text mentions
    Requests

VARIABLES
    comments,
    mentions,   \* one row per comment and user at most
    notices,    \* notifications of kind mention, by the idempotency key of the mention
    pages       \* what each request in progress has read

discussionVars == <<comments, mentions, notices, pages>>

--------------------------------------------------------------------------------
Comment == [text: Texts, deleted: BOOLEAN]
Mention == [read: BOOLEAN, removed: BOOLEAN]
Absent == [removed |-> TRUE]

(* A comment whose row went with its decision or proposal. *)
Gone == [gone |-> TRUE]

(* The mentions of a comment that are not removed. *)
Active(row) == {u \in Users : ~row[u].removed}

Blank == [op |-> "None"]

Open(r, page) == pages[r] = Blank /\ pages' = [pages EXCEPT ![r] = page]

Doing(r, op) == pages[r].op = op

Close(r) == pages' = [pages EXCEPT ![r] = Blank]

Init ==
    /\ comments = [c \in Comments |-> Absent]
    /\ mentions = [c \in Comments |-> [u \in Users |-> Absent]]
    /\ notices = [c \in Comments |-> [u \in Users |-> "none"]]
    /\ pages = [r \in Requests |-> Blank]

Exists(c) == comments[c] \notin {Absent, Gone}

(* get_record: the comment when it is not deleted. *)
Readable(c) == Exists(c) /\ ~comments[c].deleted

--------------------------------------------------------------------------------
(* sync_for_comment, the rows: mentions that left the text are removed,    *)
(* new ones are inserted, removed ones come back unread.                   *)
Synced(row, now, users) ==
    [u \in Users |->
        IF u \in Active(row) \ users THEN [read |-> TRUE, removed |-> TRUE]
        ELSE IF u \in users \ Active(row) THEN [read |-> FALSE, removed |-> FALSE]
        ELSE now[u]]

(* Seeded fault: the notice of a removed mention is left. *)
NoticedForGood(row, now, users) ==
    [u \in Users |-> IF u \in users \ Active(row) THEN "unread" ELSE now[u]]

(* sync_for_comment, the notices. *)
Noticed(row, now, users) ==
    [u \in Users |->
        IF u \in Active(row) \ users THEN "none"
        ELSE IF u \in users \ Active(row) THEN "unread"
        ELSE now[u]]

(* uq_mentions_comment_user and uq_notifications_idempotency_key: what the *)
(* synchronisation inserts is not there yet.                               *)
Insertable(c, row, users) ==
    \A u \in users \ Active(row) :
        /\ row[u] = Absent => mentions[c][u] = Absent
        /\ notices[c][u] = "none"

--------------------------------------------------------------------------------
(* Comments.  A member who left between the check and the commit is still  *)
(* mentioned: nothing ties a mention to the membership.                    *)

CreateComment(c, t) ==
    /\ comments[c] = Absent
    /\ comments' = [comments EXCEPT ![c] = [text |-> t, deleted |-> FALSE]]
    /\ mentions' = [mentions EXCEPT ![c] = Synced(@, @, Mentioned[t])]
    /\ notices' = [notices EXCEPT ![c] = Noticed(mentions[c], @, Mentioned[t])]
    /\ UNCHANGED pages

(* update and delete read the comment; the text alone says whether the row *)
(* will be written, and so locked.                                         *)
UpdateComment(r, c, t) ==
    /\ Readable(c)
    /\ Open(r, [op |-> "Edit", comment |-> c, locks |-> t # comments[c].text,
                edited |-> [text |-> t, deleted |-> FALSE], users |-> Mentioned[t]])
    /\ UNCHANGED <<comments, mentions, notices>>

DeleteComment(r, c) ==
    /\ Readable(c)
    /\ Open(r, [op |-> "Edit", comment |-> c, locks |-> TRUE,
                edited |-> [text |-> comments[c].text, deleted |-> TRUE], users |-> {}])
    /\ UNCHANGED <<comments, mentions, notices>>

Locked(c) == \E r \in Requests : Doing(r, "Write") /\ pages[r].comment = c /\ pages[r].locks

(* DecisionService.delete or ProposalService.delete of a draft: the rows   *)
(* of its comments and of their mentions are deleted by CASCADE, once no   *)
(* request holds a comment's row.                                          *)
CascadeComments(cs) ==
    /\ cs # {}
    /\ \A c \in cs : Exists(c) /\ ~Locked(c)
    /\ comments' = [c \in Comments |-> IF c \in cs THEN Gone ELSE comments[c]]
    /\ mentions' = [c \in Comments |->
          IF c \in cs THEN [u \in Users |-> Absent] ELSE mentions[c]]
    /\ UNCHANGED <<notices, pages>>

(* The rows of the mentions, read after the comment's row was written and  *)
(* before the commit.                                                      *)
ReadMentions(r) ==
    LET q == pages[r] IN
    /\ Doing(r, "Edit")
    /\ q.locks => Exists(q.comment) /\ ~Locked(q.comment)
    /\ pages' = [pages EXCEPT ![r] =
          [op |-> "Write", comment |-> q.comment, locks |-> q.locks, edited |-> q.edited,
           users |-> q.users, row |-> mentions[q.comment]]]
    /\ UNCHANGED <<comments, mentions, notices>>

(* Only what the request changed is written: the text of an edit, the mark *)
(* of a deletion, nothing of an edit to the text that was read.            *)
Edited(comment, q) ==
    CASE ~q.locks -> comment
      [] q.edited.deleted -> [comment EXCEPT !.deleted = TRUE]
      [] OTHER -> [comment EXCEPT !.text = q.edited.text]

CommitComment(r) ==
    LET q == pages[r] IN
    /\ Doing(r, "Write")
    /\ Exists(q.comment)
    /\ Insertable(q.comment, q.row, q.users)
    /\ comments' = [comments EXCEPT ![q.comment] = Edited(@, q)]
    /\ mentions' = [mentions EXCEPT ![q.comment] = Synced(q.row, @, q.users)]
    /\ notices' = [notices EXCEPT ![q.comment] = Noticed(q.row, @, q.users)]
    /\ Close(r)

(* A unique or foreign key refuses an insertion, an UPDATE finds no row, a *)
(* deadlock is broken, or the request dies: everything is rolled back.     *)
Rollback(r) ==
    /\ pages[r] # Blank
    /\ Close(r)
    /\ UNCHANGED <<comments, mentions, notices>>

--------------------------------------------------------------------------------
(* Reading.  The inbox writes notices in one statement; the mentions are   *)
(* read first, and the write keeps what it read and does not change.       *)

(* The notice of a mention, when there is one, follows it. *)
SetNotice(notice, read) == IF notice = "none" THEN "none" ELSE IF read THEN "read" ELSE "unread"

(* get_owned, for mark_read and mark_unread. *)
MarkMention(r, c, u, read) ==
    /\ u \in Active(mentions[c])
    /\ Open(r, [op |-> "Mark", comment |-> c, user |-> u, read |-> read,
                changed |-> read \/ mentions[c][u].read])
    /\ UNCHANGED <<comments, mentions, notices>>

(* set_read: a mark is a new time, so it always differs from what was read *)
(* unless both are unread; an UPDATE of a mention that is gone fails.      *)
WriteMark(r) ==
    LET q == pages[r] IN
    /\ Doing(r, "Mark")
    /\ q.changed => mentions[q.comment][q.user] # Absent
    /\ mentions' = IF q.changed THEN [mentions EXCEPT ![q.comment][q.user].read = q.read]
                   ELSE mentions
    /\ notices' = [notices EXCEPT ![q.comment][q.user] = SetNotice(@, q.read)]
    /\ Close(r)
    /\ UNCHANGED comments

(* mark_all_read of mentions: the unread ones are listed first. *)
MarkAllMentions(r, u) ==
    LET unread == {c \in Comments : u \in Active(mentions[c]) /\ ~mentions[c][u].read} IN
    /\ unread # {}
    /\ Open(r, [op |-> "MarkAll", user |-> u, comments |-> unread])
    /\ UNCHANGED <<comments, mentions, notices>>

(* Both are statements over the mentions listed, those that are gone too.  *)
WriteAllRead(r) ==
    LET q == pages[r] IN
    /\ Doing(r, "MarkAll")
    /\ mentions' = [c \in Comments |->
          IF c \in q.comments /\ mentions[c][q.user] # Absent
          THEN [mentions[c] EXCEPT ![q.user].read = TRUE] ELSE mentions[c]]
    /\ notices' = [c \in Comments |->
          IF c \in q.comments THEN [notices[c] EXCEPT ![q.user] = SetNotice(@, TRUE)]
          ELSE notices[c]]
    /\ Close(r)
    /\ UNCHANGED comments

ReadNotice(c, u) ==
    /\ notices[c][u] = "unread"
    /\ notices' = [notices EXCEPT ![c][u] = "read"]
    /\ UNCHANGED <<comments, mentions, pages>>

ReadAllNotices(u) ==
    /\ \E c \in Comments : notices[c][u] = "unread"
    /\ notices' = [c \in Comments |-> [notices[c] EXCEPT ![u] = SetNotice(@, TRUE)]]
    /\ UNCHANGED <<comments, mentions, pages>>

PageStep(r) ==
    \/ \E c \in Comments, t \in Texts : UpdateComment(r, c, t)
    \/ \E c \in Comments : DeleteComment(r, c)
    \/ \E c \in Comments, u \in Users, read \in BOOLEAN : MarkMention(r, c, u, read)
    \/ \E u \in Users : MarkAllMentions(r, u)
    \/ ReadMentions(r) \/ CommitComment(r) \/ Rollback(r) \/ WriteMark(r) \/ WriteAllRead(r)

Next ==
    \/ \E c \in Comments, t \in Texts : CreateComment(c, t)
    \/ \E cs \in SUBSET Comments : CascadeComments(cs)
    \/ \E r \in Requests : PageStep(r)
    \/ \E c \in Comments, u \in Users : ReadNotice(c, u)
    \/ \E u \in Users : ReadAllNotices(u)

Spec == Init /\ [][Next]_discussionVars

--------------------------------------------------------------------------------
Page ==
    {Blank}
    \cup [op: {"Edit"}, comment: Comments, locks: BOOLEAN, edited: Comment,
          users: SUBSET Users]
    \cup [op: {"Write"}, comment: Comments, locks: BOOLEAN, edited: Comment,
          users: SUBSET Users, row: [Users -> Mention \cup {Absent}]]
    \cup [op: {"Mark"}, comment: Comments, user: Users, read: BOOLEAN, changed: BOOLEAN]
    \cup [op: {"MarkAll"}, user: Users, comments: SUBSET Comments]

(* Every row and every request in progress is well formed. *)
TypeOK ==
    /\ comments \in [Comments -> Comment \cup {Absent, Gone}]
    /\ mentions \in [Comments -> [Users -> Mention \cup {Absent}]]
    /\ notices \in [Comments -> [Users -> {"none", "unread", "read"}]]
    /\ pages \in [Requests -> Page]

(* A mention that stands has its notice, and a notice has its mention,     *)
(* whatever edits, deletions and marks overlap: the two rows are written   *)
(* in one transaction and the unique keys refuse a second insertion        *)
(* (sync_for_comment, remove_all_for_comment).  The exception is a comment *)
(* that went with a deleted draft: its notices stay in the inbox, for no   *)
(* foreign key ties them to the mention (models/notification.py).          *)
NoticesFollowMentions ==
    \A c \in Comments, u \in Users :
        /\ u \in Active(mentions[c]) => notices[c][u] # "none"
        /\ notices[c][u] # "none" => u \in Active(mentions[c]) \/ comments[c] = Gone

================================================================================
