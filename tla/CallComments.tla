----------------------------- MODULE CallComments -----------------------------
(* The discussion of one call: root comments, one level of replies, edits  *)
(* and reactions (routes/callComments.ts).                                 *)
(*                                                                         *)
(* A reply, a reaction and a deletion lock the row they are about; what    *)
(* they read under the lock decides what they write. A deleted root that   *)
(* has replies stays as a tombstone; a leaf goes, and the database would   *)
(* take the replies of a row along. The notifications of mentions, which   *)
(* are written in the same transactions, are left out.                     *)
(***************************************************************************)
EXTENDS FiniteSets

CONSTANTS
    Roots, Replies,  \* comment ids
    CommentRequests, \* concurrent requests
    CommentKindSets, \* the sets of operations of which one behaviour has one
    NoComment

CommentKinds == {"reply", "edit", "delete", "react"}
Comments == Roots \cup Replies

VARIABLES
    commentKinds, \* the operations of this behaviour; never changes
    parent,       \* reply -> parentId, chosen for every id in advance
    comments,     \* the rows there are
    tombstones,   \* those with deletedAt
    edited,       \* those whose body was edited
    reacted,      \* those with a reaction
    commentWork   \* request -> what it is in the middle of

commentRows == <<comments, tombstones, edited, reacted>>
commentVars == <<commentKinds, parent, commentRows, commentWork>>

(* pc: the write to come. on: the row a request has locked, or for an edit *)
(* has read. adds: the reply. leaf: a deletion found no replies.           *)
CommentTask == [pc : {"idle"} \cup CommentKinds, on : Comments \cup {NoComment},
                adds : Replies \cup {NoComment}, leaf : BOOLEAN]
NoCommentTask == [pc |-> "idle", on |-> NoComment, adds |-> NoComment, leaf |-> FALSE]

CommentsInit ==
    /\ commentKinds \in CommentKindSets /\ parent \in [Replies -> Roots]
    /\ comments = Roots /\ tombstones = {} /\ edited = {} /\ reacted = {}
    /\ commentWork = [r \in CommentRequests |-> NoCommentTask]

RepliesTo(c) == {d \in Replies \cap comments : parent[d] = c}
Locks(r, c) == commentWork[r].pc # "edit" /\ commentWork[r].on = c
Free(r, c) == \A q \in CommentRequests \ {r} : ~Locks(q, c)

Begins(r, op, task) ==
    /\ op \in commentKinds /\ commentWork[r].pc = "idle"
    /\ commentWork' = [commentWork EXCEPT ![r] = task]
    /\ UNCHANGED <<commentKinds, parent, commentRows>>
Commits(r, pc) ==
    /\ commentWork[r].pc = pc
    /\ commentWork' = [commentWork EXCEPT ![r] = NoCommentTask]
    /\ UNCHANGED <<commentKinds, parent>>

-----------------------------------------------------------------------------
(* POST /:id/replies, under a root's lock, of a root that is not deleted.  *)
ReplyLock(r, c, d) ==
    /\ c \in (Roots \cap comments) \ tombstones /\ Free(r, c)
    /\ d \notin comments /\ parent[d] = c
    /\ \A q \in CommentRequests : commentWork[q].adds # d
    /\ Begins(r, "reply", [NoCommentTask EXCEPT !.pc = "reply", !.on = c, !.adds = d])

ReplyCommit(r) ==
    /\ Commits(r, "reply")
    /\ comments' = comments \cup {commentWork[r].adds}
    /\ UNCHANGED <<tombstones, edited, reacted>>

(* Mutant: the replies are looked up before anything is locked.            *)
DeleteLooks(r, c) ==
    /\ c \in comments \ tombstones
    /\ Begins(r, "delete", [NoCommentTask EXCEPT !.pc = "delete", !.on = c,
                                                 !.leaf = RepliesTo(c) = {}])

(* DELETE: what is found under the lock decides between tombstone and not. *)
DeleteLock(r, c) ==
    /\ c \in comments \ tombstones /\ Free(r, c)
    /\ Begins(r, "delete", [NoCommentTask EXCEPT !.pc = "delete", !.on = c,
                                                 !.leaf = RepliesTo(c) = {}])

(* A row that goes takes its replies and their reactions along.            *)
DeleteCommit(r) ==
    LET c == commentWork[r].on
        goes == IF commentWork[r].leaf THEN {c} \cup RepliesTo(c) ELSE {} IN
    /\ Commits(r, "delete") /\ Free(r, c)
    /\ comments' = comments \ goes /\ edited' = edited \ goes /\ reacted' = reacted \ goes
    /\ tombstones' = IF commentWork[r].leaf THEN tombstones \ goes ELSE tombstones \cup {c}

(* PATCH: a read, and a write of what is not deleted by then.              *)
EditRead(r, c) ==
    /\ c \in comments \ tombstones
    /\ Begins(r, "edit", [NoCommentTask EXCEPT !.pc = "edit", !.on = c])

EditCommit(r) ==
    LET c == commentWork[r].on IN
    /\ Commits(r, "edit") /\ Free(r, c)
    /\ edited' = IF c \in comments \ tombstones THEN edited \cup {c} ELSE edited
    /\ UNCHANGED <<comments, tombstones, reacted>>

(* PUT and DELETE of a reaction, under the lock of what is not deleted.    *)
ReactLock(r, c) ==
    /\ c \in comments \ tombstones /\ Free(r, c)
    /\ Begins(r, "react", [NoCommentTask EXCEPT !.pc = "react", !.on = c])

ReactCommit(r) ==
    /\ Commits(r, "react")
    /\ reacted' \in {reacted \cup {commentWork[r].on}, reacted \ {commentWork[r].on}}
    /\ UNCHANGED <<comments, tombstones, edited>>

CommentsNext ==
    \/ \E r \in CommentRequests, c \in Comments :
          \/ \E d \in Replies : ReplyLock(r, c, d)
          \/ DeleteLock(r, c) \/ EditRead(r, c) \/ ReactLock(r, c)
    \/ \E r \in CommentRequests :
          ReplyCommit(r) \/ DeleteCommit(r) \/ EditCommit(r) \/ ReactCommit(r)

CommentsSpec == CommentsInit /\ [][CommentsNext]_commentVars

-----------------------------------------------------------------------------
CommentsTypeOK ==
    /\ comments \subseteq Comments
    /\ tombstones \subseteq Roots \cap comments
    /\ edited \subseteq comments /\ reacted \subseteq comments
    /\ commentWork \in [CommentRequests -> CommentTask]

(* What the behaviours need of the constants: no row is the null.          *)
CommentConstants == NoComment \notin Comments

(* A reply goes by its own deletion only, never along with its root: no    *)
(* reply arrives between the look for replies and the deletion.            *)
NoReplyIsCascaded ==
    \A d \in Replies : d \in comments \ comments' =>
        \E r \in CommentRequests : commentWork[r].pc = "delete" /\ commentWork[r].on = d

(* A request that has locked a root finds it when it writes its reply: no  *)
(* foreign key is missed, and nothing answers a tombstone.                 *)
RootAwaitsReply ==
    \A r \in CommentRequests :
        commentWork[r].pc = "reply" => commentWork[r].on \in comments \ tombstones

(* A tombstone stays one, unedited and with the reactions it had.          *)
TombstonesRest ==
    \A c \in tombstones : c \in tombstones' /\ (c \in edited <=> c \in edited')
                          /\ (c \in reacted <=> c \in reacted')

(* The lock replies, reactions and deletions share keeps a discussion as   *)
(* it is (callComments.ts:290-292, 423-425).                               *)
KeepsThread == NoReplyIsCascaded /\ RootAwaitsReply' /\ TombstonesRest
ThreadStands == [][KeepsThread]_commentVars
=============================================================================
