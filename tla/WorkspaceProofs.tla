---------------------------- MODULE WorkspaceProofs ----------------------------
(* What members of an organization who work at the same rows leave of its  *)
(* saved views, of the discussion of a call, of an account's history and   *)
(* of the order of a list, how often their browsers tell them of a call,   *)
(* and that all this holds of the workspace as a whole.                    *)
EXTENDS Workspace, MembersProofs, RecordsProofs,
        FiniteSetTheorems, SequenceTheorems, TLAPS

(***************************************************************************)
(* Saved views: that the members who choose, delete and restore them leave *)
(* each audience one default at most.                                      *)
(***************************************************************************)

(* A choice of the default is alone between its two statements, and it has *)
(* cleared every default that its audience has until it commits.           *)
ChoiceIsAlone ==
    \A q, r \in ViewRequests : viewWork[q].pc = "set" /\ viewWork[r].pc = "set" => q = r
ChoiceHoldsDefaults ==
    \A r \in ViewRequests : viewWork[r].pc = "set" =>
        defaults \cap Audience(viewWork[r].view, viewWork[r].isShared) \subseteq viewWork[r].held
NobodyShares == \A r \in ViewRequests : viewWork[r].pc # "share"
OneEach == \A v, w \in defaults : SameAudience(v, w) => v = w

ViewsInv ==
    /\ ViewsTypeOK
    /\ "share" \notin viewKinds =>
          defaults \subseteq Live /\ OneEach /\ ChoiceIsAlone /\ ChoiceHoldsDefaults
          /\ NobodyShares

-----------------------------------------------------------------------------
(* The rows and the requests keep their shape.                             *)
LEMMA ViewsTypeStep ==
    ASSUME ViewsTypeOK, [ViewsNext]_viewVars PROVE ViewsTypeOK'
<1> USE DEF ViewsTypeOK, ViewTask, NoViewTask, Live
<1>1. CASE UNCHANGED viewVars
  BY <1>1 DEF viewVars, viewRows
<1>2. ASSUME NEW v \in Views, CreateView(v) PROVE ViewsTypeOK'
  BY <1>2 DEF CreateView
<1>3. ASSUME NEW r \in ViewRequests, NEW v \in Views, NEW isShared \in BOOLEAN, NEW op,
             NEW pc \in {"lock", "delete", "restore", "share"}, Reads(r, op, pc, v, isShared)
      PROVE  ViewsTypeOK'
  <2>1. viewWork' \in [ViewRequests -> ViewTask \cup {NoViewTask}]
    BY <1>3 DEF Reads
  <2>2. QED BY <1>3, <2>1 DEF Reads, viewRows
<1>4. ASSUME NEW r \in ViewRequests, NEW v \in Views,
             ReadForDefault(r, v) \/ ReadForDelete(r, v) \/ ReadForRestore(r, v)
      PROVE  ViewsTypeOK'
  <2>1. (v \in shared) \in BOOLEAN OBVIOUS
  <2>2. QED BY <1>3, <1>4, <2>1 DEF ReadForDefault, ReadForDelete, ReadForRestore
<1>5. ASSUME NEW r \in ViewRequests, NEW v \in Views, NEW isShared \in BOOLEAN,
             ReadForShare(r, v, isShared)
      PROVE  ViewsTypeOK'
  BY <1>3, <1>5 DEF ReadForShare
<1>6. ASSUME NEW r \in ViewRequests, viewWork[r].pc # "idle" PROVE viewWork[r] \in ViewTask
  BY <1>6
<1>7. ASSUME NEW r \in ViewRequests, LockAndClear(r) PROVE ViewsTypeOK'
  <2>1. viewWork[r] \in ViewTask BY <1>6, <1>7 DEF LockAndClear, Writes
  <2>2. Audience(viewWork[r].view, viewWork[r].isShared) \subseteq Views BY DEF Audience
  <2>3. viewWork' \in [ViewRequests -> ViewTask \cup {NoViewTask}]
    BY <1>7, <2>1, <2>2 DEF LockAndClear
  <2>4. QED BY <1>7, <2>3 DEF LockAndClear, Writes, viewRows
<1>8. ASSUME NEW r \in ViewRequests, NEW pc \in {"set", "delete", "restore", "share"},
             Writes(r, pc)
      PROVE  /\ viewWork[r] \in ViewTask
             /\ viewWork' \in [ViewRequests -> ViewTask \cup {NoViewTask}]
             /\ viewKinds' = viewKinds /\ viewOwner' = viewOwner
  BY <1>6, <1>8 DEF Writes
<1>9. ASSUME NEW r \in ViewRequests, SetDefault(r) PROVE ViewsTypeOK'
  BY <1>8, <1>9 DEF SetDefault
<1>10. ASSUME NEW r \in ViewRequests, DeleteView(r) PROVE ViewsTypeOK'
  BY <1>8, <1>10 DEF DeleteView
<1>11. ASSUME NEW r \in ViewRequests, RestoreView(r) PROVE ViewsTypeOK'
  BY <1>8, <1>11 DEF RestoreView
<1>12. ASSUME NEW r \in ViewRequests, ShareView(r) PROVE ViewsTypeOK'
  BY <1>8, <1>12 DEF ShareView
<1>13. QED
  BY <1>1, <1>2, <1>4, <1>5, <1>7, <1>9, <1>10, <1>11, <1>12 DEF ViewsNext

-----------------------------------------------------------------------------
(* A step that leaves the flags, the visibility and the choices under way  *)
(* as they are, and trashes no default, breaks nothing.                    *)
LEMMA FlagsUntouched ==
    ASSUME ViewsTypeOK, ViewsInv, "share" \notin viewKinds,
           viewKinds' = viewKinds, viewOwner' = viewOwner, shared' = shared,
           defaults' = defaults, Live \cap defaults \subseteq Live',
           \A q \in ViewRequests : viewWork'[q].pc = "set" => viewWork'[q] = viewWork[q],
           \A q \in ViewRequests : viewWork'[q].pc # "share"
    PROVE  ViewsInv' <=> ViewsTypeOK'
<1>1. defaults' \subseteq Live' BY DEF ViewsInv
<1>2. OneEach' BY DEF ViewsInv, OneEach, SameAudience
<1>3. ChoiceIsAlone' BY DEF ViewsInv, ChoiceIsAlone
<1>4. ASSUME NEW r \in ViewRequests, viewWork'[r].pc = "set"
      PROVE  (defaults \cap Audience(viewWork[r].view, viewWork[r].isShared))'
             \subseteq viewWork'[r].held
  <2>1. viewWork'[r] = viewWork[r] /\ viewWork[r].pc = "set" BY <1>4
  <2>2. defaults \cap Audience(viewWork[r].view, viewWork[r].isShared) \subseteq viewWork[r].held
    BY <2>1 DEF ViewsInv, ChoiceHoldsDefaults
  <2>3. defaults \subseteq Live BY DEF ViewsInv
  <2>4. QED BY <2>1, <2>2, <2>3 DEF Audience
<1>5. ChoiceHoldsDefaults' BY <1>4 DEF ChoiceHoldsDefaults
<1>6. NobodyShares' BY DEF NobodyShares
<1>7. QED BY <1>1, <1>2, <1>3, <1>5, <1>6 DEF ViewsInv

(* Reading starts no choice that is past its lock.                         *)
LEMMA ReadingKeeps ==
    ASSUME ViewsInv, ViewsTypeOK', "share" \notin viewKinds,
           NEW r \in ViewRequests, NEW v \in Views, NEW isShared \in BOOLEAN,
           NEW op \in {"default", "delete", "restore", "share"},
           NEW pc \in {"lock", "delete", "restore", "share"}, pc = "share" => op = "share",
           Reads(r, op, pc, v, isShared)
    PROVE  ViewsInv'
<1>1. pc # "share" BY DEF Reads
<1>2. ViewsTypeOK BY DEF ViewsInv
<1>3. viewWork' = [viewWork EXCEPT ![r] = [pc |-> pc, view |-> v, isShared |-> isShared,
                                           held |-> {}]]
  BY DEF Reads
<1>4. \A q \in ViewRequests : viewWork'[q].pc = "set" => viewWork'[q] = viewWork[q]
  BY <1>2, <1>3 DEF ViewsTypeOK
<1>5. \A q \in ViewRequests : viewWork'[q].pc # "share"
  BY <1>1, <1>2, <1>3 DEF ViewsTypeOK, ViewsInv, NobodyShares
<1>6. QED BY <1>2, <1>4, <1>5, FlagsUntouched DEF Reads, viewRows, Live

(* A request that has written is done.                                     *)
LEMMA WritingKeeps ==
    ASSUME ViewsInv, NEW r \in ViewRequests, NEW pc \in {"set", "delete", "restore"},
           Writes(r, pc), "share" \notin viewKinds
    PROVE  /\ viewWork'[r].pc = "idle"
           /\ \A q \in ViewRequests : q # r => viewWork'[q] = viewWork[q]
           /\ \A q \in ViewRequests : viewWork'[q].pc = "set" => viewWork'[q] = viewWork[q]
           /\ \A q \in ViewRequests : viewWork'[q].pc # "share"
<1>1. viewWork' = [viewWork EXCEPT ![r] = NoViewTask] BY DEF Writes
<1>2. QED BY <1>1 DEF ViewsInv, ViewsTypeOK, NoViewTask, NobodyShares

-----------------------------------------------------------------------------
(* The lock: nobody else is past it, and what is cleared is the audience.  *)
LEMMA LockKeeps ==
    ASSUME ViewsInv, ViewsTypeOK', "share" \notin viewKinds,
           NEW r \in ViewRequests, LockAndClear(r)
    PROVE  ViewsInv'
<1> DEFINE choice == viewWork[r]
           audience == Audience(choice.view, choice.isShared)
<1>1. /\ ViewsTypeOK /\ choice.pc = "lock" /\ choice \in ViewTask
      /\ viewWork' = [viewWork EXCEPT ![r].pc = "set", ![r].held = audience]
      /\ UNCHANGED <<viewKinds, viewOwner, views, trashed, shared, defaults>>
      /\ \A q \in ViewRequests : viewWork[q].pc # "set"
  BY DEF LockAndClear, Writes, ViewsInv, ViewsTypeOK, NoViewTask, viewRows
<1>2. /\ viewWork'[r].pc = "set" /\ viewWork'[r].held = audience
      /\ viewWork'[r].view = choice.view /\ viewWork'[r].isShared = choice.isShared
  BY <1>1 DEF ViewsTypeOK, ViewTask
<1>3. \A q \in ViewRequests : q # r => viewWork'[q] = viewWork[q]
  BY <1>1 DEF ViewsTypeOK
<1>4. ChoiceIsAlone' BY <1>1, <1>3 DEF ChoiceIsAlone
<1>5. (defaults \cap Audience(viewWork[r].view, viewWork[r].isShared))'
      \subseteq viewWork'[r].held
  BY <1>1, <1>2 DEF Audience, Live
<1>6. ChoiceHoldsDefaults' BY <1>1, <1>3, <1>5 DEF ChoiceHoldsDefaults
<1>7. NobodyShares' BY <1>2, <1>3 DEF NobodyShares, ViewsInv
<1>8. defaults' \subseteq Live' /\ OneEach'
  BY <1>1 DEF ViewsInv, OneEach, SameAudience, Live
<1>9. QED BY <1>4, <1>6, <1>7, <1>8 DEF ViewsInv

(* The choice: what remains of the flags is not of the view's audience.    *)
LEMMA ChoiceKeeps ==
    ASSUME ViewsInv, ViewsTypeOK', "share" \notin viewKinds,
           NEW r \in ViewRequests, SetDefault(r)
    PROVE  ViewsInv'
<1> DEFINE choice == viewWork[r]
<1>1. /\ choice.pc = "set" /\ viewWork' = [viewWork EXCEPT ![r] = NoViewTask]
      /\ UNCHANGED <<viewKinds, viewOwner, views, trashed, shared>>
      /\ ViewsTypeOK /\ choice \in ViewTask
  BY DEF SetDefault, Writes, ViewsInv, ViewsTypeOK, NoViewTask
<1>2. /\ \A q \in ViewRequests : viewWork'[q].pc = "set" => viewWork'[q] = viewWork[q]
      /\ \A q \in ViewRequests : viewWork'[q].pc # "share"
  BY WritingKeeps DEF SetDefault
<1>3. \A q \in ViewRequests : viewWork'[q].pc # "set"
  BY <1>1 DEF ViewsInv, ChoiceIsAlone, ViewsTypeOK, NoViewTask
<1>4. CASE choice.view \in Live /\ (choice.view \in shared <=> choice.isShared)
  <2>1. defaults' = (defaults \ choice.held) \cup {choice.view} BY <1>4 DEF SetDefault
  <2>2. defaults' \subseteq Live' BY <1>1, <1>4, <2>1 DEF ViewsInv, Live
  <2>3. ASSUME NEW d \in defaults \ choice.held PROVE ~SameAudience(d, choice.view)
    <3>1. d \in Live BY DEF ViewsInv
    <3>2. d \notin Audience(choice.view, choice.isShared)
      BY <1>1 DEF ViewsInv, ChoiceHoldsDefaults
    <3>3. QED BY <1>4, <3>1, <3>2 DEF Audience, SameAudience
  <2>4. ASSUME NEW d \in defaults \ choice.held PROVE ~SameAudience(choice.view, d)
    BY <2>3 DEF SameAudience
  <2>5. \A v, w \in defaults' : SameAudience(v, w) => v = w
    BY <2>1, <2>3, <2>4 DEF ViewsInv, OneEach
  <2>6. OneEach' BY <1>1, <2>5 DEF OneEach, SameAudience
  <2>7. ChoiceIsAlone' /\ ChoiceHoldsDefaults' /\ NobodyShares'
    BY <1>2, <1>3 DEF ChoiceIsAlone, ChoiceHoldsDefaults, NobodyShares
  <2>8. QED BY <2>2, <2>6, <2>7 DEF ViewsInv
<1>5. CASE ~(choice.view \in Live /\ (choice.view \in shared <=> choice.isShared))
  <2>1. defaults' = defaults BY <1>5 DEF SetDefault
  <2>2. QED BY <1>1, <1>2, <2>1, FlagsUntouched DEF Live
<1>6. QED BY <1>4, <1>5

-----------------------------------------------------------------------------
(* The invariant, for every step there is.                                 *)
LEMMA ViewsInvStep ==
    ASSUME ViewsInv, [ViewsNext]_viewVars PROVE ViewsInv'
<1>1. ViewsTypeOK /\ ViewsTypeOK' BY ViewsTypeStep DEF ViewsInv
<1>2. CASE UNCHANGED viewVars
  BY <1>1, <1>2 DEF viewVars, viewRows, ViewsInv, OneEach, SameAudience, ChoiceIsAlone,
                    ChoiceHoldsDefaults, NobodyShares, Live, Audience
<1>3. ASSUME ViewsNext PROVE viewKinds' = viewKinds
  BY <1>3 DEF ViewsNext, CreateView, ReadForDefault, ReadForDelete, ReadForRestore, ReadForShare,
              Reads, LockAndClear, SetDefault, DeleteView, RestoreView, ShareView, Writes
<1>4. CASE ViewsNext /\ "share" \in viewKinds
  BY <1>1, <1>3, <1>4 DEF ViewsInv
<1>5. ASSUME ViewsNext, "share" \notin viewKinds PROVE ViewsInv'
  <2>1. ASSUME NEW v \in Views, CreateView(v) PROVE ViewsInv'
    <3>1. Live \subseteq Live' BY <2>1 DEF CreateView, Live
    <3>2. \A q \in ViewRequests : viewWork'[q] = viewWork[q] BY <2>1 DEF CreateView
    <3>3. QED
      BY <1>1, <1>5, <2>1, <3>1, <3>2, FlagsUntouched DEF CreateView, ViewsInv, NobodyShares
  <2>2. ASSUME NEW r \in ViewRequests, NEW v \in Views,
               ReadForDefault(r, v) \/ ReadForDelete(r, v) \/ ReadForRestore(r, v)
        PROVE  ViewsInv'
    <3>1. (v \in shared) \in BOOLEAN OBVIOUS
    <3>2. QED
      BY <1>1, <1>5, <2>2, <3>1, ReadingKeeps DEF ReadForDefault, ReadForDelete, ReadForRestore
  <2>3. ASSUME NEW r \in ViewRequests, NEW v \in Views, NEW isShared \in BOOLEAN,
               ReadForShare(r, v, isShared)
        PROVE  ViewsInv'
    BY <1>5, <2>3 DEF ReadForShare, Reads
  <2>4. ASSUME NEW r \in ViewRequests, LockAndClear(r) PROVE ViewsInv'
    BY <1>1, <1>5, <2>4, LockKeeps
  <2>5. ASSUME NEW r \in ViewRequests, SetDefault(r) PROVE ViewsInv'
    BY <1>1, <1>5, <2>5, ChoiceKeeps
  <2>6. ASSUME NEW r \in ViewRequests, DeleteView(r) PROVE ViewsInv'
    <3>1. Live \cap defaults \subseteq Live' BY <2>6 DEF DeleteView, Live
    <3>2. Writes(r, "delete") BY <2>6 DEF DeleteView
    <3>3. QED
      BY <1>1, <1>5, <2>6, <3>1, <3>2, WritingKeeps, FlagsUntouched DEF DeleteView, Writes
  <2>7. ASSUME NEW r \in ViewRequests, RestoreView(r) PROVE ViewsInv'
    <3>1. Live \subseteq Live' BY <2>7 DEF RestoreView, Live
    <3>2. Writes(r, "restore") BY <2>7 DEF RestoreView
    <3>3. QED
      BY <1>1, <1>5, <2>7, <3>1, <3>2, WritingKeeps, FlagsUntouched DEF RestoreView, Writes
  <2>8. ASSUME NEW r \in ViewRequests, ShareView(r) PROVE ViewsInv'
    BY <1>5, <2>8 DEF ShareView, Writes, ViewsInv, NobodyShares
  <2>9. QED BY <1>5, <2>1, <2>2, <2>3, <2>4, <2>5, <2>6, <2>7, <2>8 DEF ViewsNext
<1>6. QED BY <1>2, <1>4, <1>5

(* It holds at the start: there is no default yet.                         *)
LEMMA ViewsInvInit == ViewsInit => ViewsInv
<1>1. SUFFICES ASSUME ViewsInit PROVE ViewsInv OBVIOUS
<1>2. ViewsTypeOK BY <1>1 DEF ViewsInit, ViewsTypeOK
<1>3. \A r \in ViewRequests : viewWork[r].pc = "idle" BY <1>1 DEF ViewsInit, NoViewTask
<1>4. QED
  BY <1>1, <1>2, <1>3 DEF ViewsInit, ViewsInv, OneEach, ChoiceIsAlone, ChoiceHoldsDefaults,
                          NobodyShares

(* The views of a list, their defaults and the requests on them keep their *)
(* types (routes/savedViews.ts).                                           *)
THEOREM ViewsTyped == ViewsSpec => []ViewsTypeOK
<1>1. ViewsInv => ViewsTypeOK BY DEF ViewsInv
<1>2. ViewsInv /\ [ViewsNext]_viewVars => ViewsInv' BY ViewsInvStep
<1>3. QED BY <1>1, <1>2, ViewsInvInit, PTL DEF ViewsSpec

(* However many members choose, delete and restore views at once, each     *)
(* audience opens with one view at most, which is not trashed: POST        *)
(* /:id/default of routes/savedViews.ts, as long as no visibility changes. *)
THEOREM EachAudienceHasOneDefault == ViewsSpec => []OneDefaultView
<1>1. ViewsInv => OneDefaultView BY DEF ViewsInv, OneDefaultView, OneEach
<1>2. ViewsInv /\ [ViewsNext]_viewVars => ViewsInv' BY ViewsInvStep
<1>3. QED BY <1>1, <1>2, ViewsInvInit, PTL DEF ViewsSpec

(***************************************************************************)
(* That the discussion of a call stays as it is, whatever the members who  *)
(* reply, edit, delete and react do at once.                               *)
(***************************************************************************)

(* Who deletes, reacts to or replies to a row has it to himself, and finds *)
(* it as it was: there, no tombstone, and without the replies it had not.  *)
AloneOn(c) == \A q, r \in CommentRequests : Locks(q, c) /\ Locks(r, c) => q = r
CommentTaskOK(t) ==
    /\ t.pc \in {"reply", "delete", "react"} => t.on \in comments \ tombstones
    /\ t.pc = "reply" => t.on \in Roots /\ t.adds \in Replies
    /\ t.pc = "delete" => IF t.leaf THEN RepliesTo(t.on) = {} ELSE t.on \in Roots
    /\ t.pc = "reply" => parent[t.adds] = t.on

CommentsInv ==
    /\ CommentsTypeOK /\ parent \in [Replies -> Roots]
    /\ \A c \in Comments : AloneOn(c)
    /\ \A r \in CommentRequests : CommentTaskOK(commentWork[r])

-----------------------------------------------------------------------------
LEMMA NoTaskIsOK ==
    /\ NoCommentTask \in CommentTask /\ CommentTaskOK(NoCommentTask)
    /\ CommentTaskOK(NoCommentTask)'
BY DEF NoCommentTask, CommentTask, CommentKinds, CommentTaskOK

(* A request begins with a row that is free, or with an edit, and leaves   *)
(* the rows as they are.                                                   *)
LEMMA BeginStep ==
    ASSUME CommentsInv, NEW r \in CommentRequests, NEW op, NEW x \in CommentTask,
           Begins(r, op, x), x.pc # "edit" => Free(r, x.on), CommentTaskOK(x)
    PROVE  CommentsInv' /\ UNCHANGED commentRows
<1>1. /\ commentWork[r].pc = "idle" /\ commentWork' = [commentWork EXCEPT ![r] = x]
      /\ UNCHANGED <<commentKinds, parent, comments, tombstones, edited, reacted>>
  BY DEF Begins, commentRows
<1>2. commentWork \in [CommentRequests -> CommentTask] BY DEF CommentsInv, CommentsTypeOK
<1>3. CommentsTypeOK' /\ parent' \in [Replies -> Roots]
  BY <1>1, <1>2 DEF CommentsInv, CommentsTypeOK
<1>4. (\A c \in Comments : AloneOn(c))'
  <2>1. SUFFICES ASSUME NEW c \in Comments, NEW q \in CommentRequests, NEW s \in CommentRequests,
                        Locks(q, c)', Locks(s, c)'
                 PROVE  q = s
    BY DEF AloneOn
  <2>2. ASSUME NEW o \in CommentRequests \ {r}, Locks(r, c)', Locks(o, c)' PROVE FALSE
    <3>1. x.pc # "edit" /\ x.on = c BY <1>1, <1>2, <2>2 DEF Locks
    <3>2. Locks(o, c) BY <1>1, <1>2, <2>2 DEF Locks
    <3>3. QED BY <3>1, <3>2 DEF Free
  <2>3. CASE q # r /\ s # r
    <3>1. Locks(q, c) /\ Locks(s, c) BY <1>1, <1>2, <2>1, <2>3 DEF Locks
    <3>2. QED BY <3>1 DEF CommentsInv, AloneOn
  <2>4. QED BY <2>1, <2>2, <2>3
<1>5. (\A q \in CommentRequests : CommentTaskOK(commentWork[q]))'
  BY <1>1, <1>2 DEF CommentsInv, CommentTaskOK, RepliesTo
<1>6. QED BY <1>1, <1>3, <1>4, <1>5 DEF CommentsInv, commentRows

(* A request commits: the rows of the others stay what they are.           *)
OthersRowsStay(r) ==
    \A q \in CommentRequests \ {r} : \A c \in Comments :
        commentWork[q].pc \in {"reply", "delete", "react"} /\ Locks(q, c) =>
            /\ c \in comments \ tombstones => c \in comments' /\ c \notin tombstones'
            /\ RepliesTo(c) = {} => RepliesTo(c)' = {}

LEMMA CommitStep ==
    ASSUME CommentConstants, CommentsInv, NEW r \in CommentRequests, NEW pc, Commits(r, pc),
           OthersRowsStay(r),
           comments' \subseteq Comments, tombstones' \subseteq Roots \cap comments',
           edited' \subseteq comments', reacted' \subseteq comments'
    PROVE  CommentsInv'
<1>1. /\ commentWork' = [commentWork EXCEPT ![r] = NoCommentTask]
      /\ UNCHANGED <<commentKinds, parent>>
  BY DEF Commits
<1>2. commentWork \in [CommentRequests -> CommentTask] BY DEF CommentsInv, CommentsTypeOK
<1>3. CommentsTypeOK' /\ parent' \in [Replies -> Roots]
  BY <1>1, <1>2, NoTaskIsOK DEF CommentsInv, CommentsTypeOK
<1>4. (\A c \in Comments : AloneOn(c))'
  <2>1. SUFFICES ASSUME NEW c \in Comments, NEW q \in CommentRequests, NEW s \in CommentRequests,
                        Locks(q, c)', Locks(s, c)'
                 PROVE  q = s
    BY DEF AloneOn
  <2>2. ~Locks(r, c)'
    BY <1>1, <1>2, NoTaskIsOK DEF Locks, NoCommentTask, CommentConstants
  <2>3. Locks(q, c) /\ Locks(s, c) BY <1>1, <1>2, <2>1, <2>2 DEF Locks
  <2>4. QED BY <2>3 DEF CommentsInv, AloneOn
<1>5. ASSUME NEW q \in CommentRequests PROVE CommentTaskOK(commentWork[q])'
  <2>1. CASE q = r
    BY <1>1, <1>2, <2>1, NoTaskIsOK DEF CommentTaskOK
  <2>2. CASE q # r
    <3>1. commentWork'[q] = commentWork[q] BY <1>1, <1>2, <2>2
    <3>2. PICK t : t = commentWork[q] OBVIOUS
    <3>3. t \in CommentTask /\ CommentTaskOK(t)
      BY <1>2, <3>2 DEF CommentsInv, CommentTaskOK
    <3>4. CASE t.pc \in {"reply", "delete", "react"}
      <4>1. t.on \in Comments /\ Locks(q, t.on)
        BY <3>2, <3>3, <3>4 DEF Locks, CommentTaskOK, CommentsInv, CommentsTypeOK
      <4>2. /\ t.on \in comments' \ tombstones'
            /\ RepliesTo(t.on) = {} => RepliesTo(t.on)' = {}
        BY <2>2, <3>2, <3>3, <3>4, <4>1 DEF OthersRowsStay, CommentTaskOK
      <4>3. CommentTaskOK(t)' BY <1>1, <3>3, <3>4, <4>2 DEF CommentTaskOK
      <4>4. QED BY <3>1, <3>2, <4>3 DEF CommentTaskOK
    <3>5. CASE t.pc \notin {"reply", "delete", "react"}
      BY <3>1, <3>2, <3>5 DEF CommentTaskOK
    <3>6. QED BY <3>4, <3>5
  <2>3. QED BY <2>1, <2>2
<1>6. QED BY <1>3, <1>4, <1>5 DEF CommentsInv

-----------------------------------------------------------------------------
(* What a request has, by its step, and that nobody else has locked it.    *)
LEMMA CommentTaskIs ==
    ASSUME CommentsInv, NEW r \in CommentRequests, NEW t, t = commentWork[r]
    PROVE  /\ t \in CommentTask /\ CommentTaskOK(t)
           /\ t.pc \in {"reply", "delete", "react"} =>
                 t.on \in Comments /\ \A q \in CommentRequests \ {r} : ~Locks(q, t.on)
<1>1. t \in CommentTask BY DEF CommentsInv, CommentsTypeOK
<1>2. CommentTaskOK(t) BY DEF CommentsInv, CommentTaskOK
<1>3. ASSUME t.pc \in {"reply", "delete", "react"}
      PROVE  t.on \in Comments /\ \A q \in CommentRequests \ {r} : ~Locks(q, t.on)
  <2>1. t.on \in Comments /\ Locks(r, t.on)
    BY <1>2, <1>3 DEF CommentTaskOK, CommentsInv, CommentsTypeOK, Locks
  <2>2. QED BY <2>1 DEF CommentsInv, AloneOn
<1>4. QED BY <1>1, <1>2, <1>3

CommentsKept == CommentsInv' /\ NoReplyIsCascaded /\ TombstonesRest

LEMMA ReplyKeeps ==
    ASSUME CommentConstants, CommentsInv, NEW r \in CommentRequests, ReplyCommit(r)
    PROVE  CommentsKept
<1>0. PICK t : t = commentWork[r] OBVIOUS
<1>1. /\ CommentTaskOK(t) /\ t.pc = "reply" /\ Commits(r, "reply")
      /\ t.on \in Comments /\ \A q \in CommentRequests \ {r} : ~Locks(q, t.on)
      /\ comments' = comments \cup {t.adds} /\ UNCHANGED <<tombstones, edited, reacted, parent>>
  BY <1>0, CommentTaskIs DEF ReplyCommit, Commits
<1>2. t.adds \in Replies /\ t.on \in Roots /\ parent[t.adds] = t.on
  BY <1>1 DEF CommentTaskOK
<1>3. OthersRowsStay(r)
  <2>1. \A c \in Comments \ {t.on} : RepliesTo(c)' \subseteq RepliesTo(c)
    BY <1>1, <1>2 DEF RepliesTo
  <2>2. QED BY <1>1, <2>1 DEF OthersRowsStay
<1>4. CommentsInv'
  BY <1>1, <1>2, <1>3, CommitStep DEF CommentsInv, CommentsTypeOK, Comments
<1>5. QED BY <1>1, <1>4 DEF CommentsKept, NoReplyIsCascaded, TombstonesRest

LEMMA DeleteKeeps ==
    ASSUME CommentConstants, CommentsInv, NEW r \in CommentRequests, DeleteCommit(r)
    PROVE  CommentsKept
<1>0. PICK t : t = commentWork[r] OBVIOUS
<1>1. /\ CommentTaskOK(t) /\ t.pc = "delete" /\ Commits(r, "delete")
      /\ t.on \in Comments /\ \A q \in CommentRequests \ {r} : ~Locks(q, t.on)
      /\ parent' = parent
  BY <1>0, CommentTaskIs DEF DeleteCommit, Commits
<1>2. t.on \in comments \ tombstones BY <1>1 DEF CommentTaskOK
<1>3. CASE t.leaf
  <2>1. RepliesTo(t.on) = {} BY <1>1, <1>3 DEF CommentTaskOK
  <2>2. /\ comments' = comments \ {t.on} /\ edited' = edited \ {t.on}
        /\ reacted' = reacted \ {t.on} /\ tombstones' = tombstones \ {t.on}
    BY <1>0, <1>3, <2>1 DEF DeleteCommit
  <2>3. \A c \in Comments : RepliesTo(c)' \subseteq RepliesTo(c)
    BY <1>1, <2>2 DEF RepliesTo
  <2>4. OthersRowsStay(r) BY <1>1, <2>2, <2>3 DEF OthersRowsStay
  <2>5. CommentsInv'
    BY <1>1, <2>2, <2>4, CommitStep DEF CommentsInv, CommentsTypeOK, Comments
  <2>6. NoReplyIsCascaded BY <1>0, <1>1, <2>2 DEF NoReplyIsCascaded
  <2>7. TombstonesRest BY <1>2, <2>2 DEF TombstonesRest
  <2>8. QED BY <2>5, <2>6, <2>7 DEF CommentsKept
<1>4. CASE ~t.leaf
  <2>1. t.on \in Roots BY <1>1, <1>4 DEF CommentTaskOK
  <2>2. /\ comments' = comments /\ edited' = edited /\ reacted' = reacted
        /\ tombstones' = tombstones \cup {t.on}
    BY <1>0, <1>4 DEF DeleteCommit
  <2>3. \A c \in Comments : RepliesTo(c)' = RepliesTo(c)
    BY <1>1, <2>2 DEF RepliesTo
  <2>4. OthersRowsStay(r) BY <1>1, <2>2, <2>3 DEF OthersRowsStay
  <2>5. CommentsInv'
    BY <1>1, <1>2, <2>1, <2>2, <2>4, CommitStep DEF CommentsInv, CommentsTypeOK, Comments
  <2>6. NoReplyIsCascaded /\ TombstonesRest BY <2>2 DEF NoReplyIsCascaded, TombstonesRest
  <2>7. QED BY <2>5, <2>6 DEF CommentsKept
<1>5. QED BY <1>3, <1>4

LEMMA EditKeeps ==
    ASSUME CommentConstants, CommentsInv, NEW r \in CommentRequests, EditCommit(r)
    PROVE  CommentsKept
<1>0. PICK c : c = commentWork[r].on OBVIOUS
<1>1. /\ Commits(r, "edit") /\ UNCHANGED <<comments, tombstones, reacted, parent>>
      /\ edited' = IF c \in comments \ tombstones THEN edited \cup {c} ELSE edited
  BY <1>0 DEF EditCommit, Commits
<1>2. OthersRowsStay(r) BY <1>1 DEF OthersRowsStay, RepliesTo
<1>3. CommentsInv'
  BY <1>1, <1>2, CommitStep DEF CommentsInv, CommentsTypeOK
<1>4. QED BY <1>1, <1>3 DEF CommentsKept, NoReplyIsCascaded, TombstonesRest

LEMMA ReactKeeps ==
    ASSUME CommentConstants, CommentsInv, NEW r \in CommentRequests, ReactCommit(r)
    PROVE  CommentsKept
<1>0. PICK t : t = commentWork[r] OBVIOUS
<1>1. /\ Commits(r, "react") /\ UNCHANGED <<comments, tombstones, edited, parent>>
      /\ reacted' \in {reacted \cup {t.on}, reacted \ {t.on}}
      /\ t.on \in comments \ tombstones
  BY <1>0, CommentTaskIs DEF ReactCommit, Commits, CommentTaskOK
<1>2. OthersRowsStay(r) BY <1>1 DEF OthersRowsStay, RepliesTo
<1>3. CommentsInv'
  BY <1>1, <1>2, CommitStep DEF CommentsInv, CommentsTypeOK
<1>4. QED BY <1>1, <1>3 DEF CommentsKept, NoReplyIsCascaded, TombstonesRest

LEMMA CommentsBegin ==
    ASSUME CommentsInv, NEW r \in CommentRequests, NEW c \in Comments,
           (\E d \in Replies : ReplyLock(r, c, d)) \/ DeleteLock(r, c) \/ EditRead(r, c)
           \/ ReactLock(r, c)
    PROVE  CommentsInv' /\ UNCHANGED commentRows
<1> USE DEF NoCommentTask, CommentTask, CommentKinds, CommentTaskOK
<1>1. ASSUME NEW d \in Replies, ReplyLock(r, c, d) PROVE CommentsInv' /\ UNCHANGED commentRows
  <2>1. PICK x : x = [NoCommentTask EXCEPT !.pc = "reply", !.on = c, !.adds = d] OBVIOUS
  <2>2. /\ x \in CommentTask /\ x.pc = "reply" /\ x.on = c /\ x.adds = d
    BY <2>1
  <2>3. Begins(r, "reply", x) /\ Free(r, x.on) /\ CommentTaskOK(x)
    BY <1>1, <2>1, <2>2 DEF ReplyLock
  <2>4. QED BY <2>2, <2>3, BeginStep
<1>2. CASE DeleteLock(r, c)
  <2>1. PICK x : x = [NoCommentTask EXCEPT !.pc = "delete", !.on = c, !.leaf = RepliesTo(c) = {}]
    OBVIOUS
  <2>2. /\ x \in CommentTask /\ x.pc = "delete" /\ x.on = c /\ x.leaf = (RepliesTo(c) = {})
    BY <2>1
  <2>3. RepliesTo(c) # {} => c \in Roots BY DEF RepliesTo, CommentsInv
  <2>4. Begins(r, "delete", x) /\ Free(r, x.on) /\ CommentTaskOK(x)
    BY <1>2, <2>1, <2>2, <2>3 DEF DeleteLock
  <2>5. QED BY <2>2, <2>4, BeginStep
<1>3. CASE EditRead(r, c)
  <2>1. PICK x : x = [NoCommentTask EXCEPT !.pc = "edit", !.on = c] OBVIOUS
  <2>2. x \in CommentTask /\ x.pc = "edit" BY <2>1
  <2>3. Begins(r, "edit", x) /\ CommentTaskOK(x) BY <1>3, <2>1, <2>2 DEF EditRead
  <2>4. QED BY <2>2, <2>3, BeginStep
<1>4. CASE ReactLock(r, c)
  <2>1. PICK x : x = [NoCommentTask EXCEPT !.pc = "react", !.on = c] OBVIOUS
  <2>2. x \in CommentTask /\ x.pc = "react" /\ x.on = c BY <2>1
  <2>3. Begins(r, "react", x) /\ Free(r, x.on) /\ CommentTaskOK(x)
    BY <1>4, <2>1, <2>2 DEF ReactLock
  <2>4. QED BY <2>2, <2>3, BeginStep
<1>5. QED BY <1>1, <1>2, <1>3, <1>4

LEMMA CommentsStart ==
    ASSUME CommentConstants, CommentsInit PROVE CommentsInv
<1>1. \A r \in CommentRequests : commentWork[r] = NoCommentTask BY DEF CommentsInit
<1>2. CommentsTypeOK
  BY NoTaskIsOK DEF CommentsInit, CommentsTypeOK, Comments
<1>3. \A c \in Comments : AloneOn(c)
  BY <1>1 DEF AloneOn, Locks, NoCommentTask, CommentConstants
<1>4. \A r \in CommentRequests : CommentTaskOK(commentWork[r]) BY <1>1, NoTaskIsOK
<1>5. QED BY <1>2, <1>3, <1>4 DEF CommentsInit, CommentsInv

LEMMA CommentsStep ==
    ASSUME CommentConstants, CommentsInv, [CommentsNext]_commentVars PROVE CommentsKept
<1>1. ASSUME CommentsInv', UNCHANGED commentRows PROVE CommentsKept
  BY <1>1 DEF CommentsKept, commentRows, NoReplyIsCascaded, TombstonesRest
<1>2. CASE UNCHANGED commentVars
  <2>1. CommentsInv'
    BY <1>2 DEF commentVars, commentRows, CommentsInv, CommentsTypeOK, AloneOn, Locks,
       CommentTaskOK, RepliesTo
  <2>2. QED BY <1>1, <1>2, <2>1 DEF commentVars
<1>3. QED
  BY <1>1, <1>2, CommentsBegin, ReplyKeeps, DeleteKeeps, EditKeeps, ReactKeeps DEF CommentsNext

(* Requests and rows of a discussion keep their shape: only roots become   *)
(* tombstones, and what was edited or reacted to is there.                 *)
THEOREM CommentsTyped == CommentConstants => (CommentsSpec => []CommentsTypeOK)
<1> SUFFICES ASSUME CommentConstants PROVE CommentsSpec => []CommentsTypeOK OBVIOUS
<1>1. CommentsInit => CommentsInv BY CommentsStart
<1>2. CommentsInv /\ [CommentsNext]_commentVars => CommentsInv'
  BY CommentsStep DEF CommentsKept
<1>3. CommentsInv => CommentsTypeOK BY DEF CommentsInv
<1>4. QED BY <1>1, <1>2, <1>3, PTL DEF CommentsSpec

(* With any number of members at once, no reply goes along with its root,  *)
(* none answers a tombstone, and a tombstone stays as it was               *)
(* (callComments.ts:290-292, 423-425).                                     *)
THEOREM DiscussionStands == CommentConstants => (CommentsSpec => ThreadStands)
<1> SUFFICES ASSUME CommentConstants PROVE CommentsSpec => ThreadStands OBVIOUS
<1>1. CommentsInit => CommentsInv BY CommentsStart
<1>2. CommentsInv /\ [CommentsNext]_commentVars => CommentsInv'
  BY CommentsStep DEF CommentsKept
<1>3. CommentsInv /\ [CommentsNext]_commentVars => [KeepsThread]_commentVars
  <2>1. CommentsInv' => RootAwaitsReply'
    BY DEF CommentsInv, RootAwaitsReply, CommentTaskOK
  <2>2. QED BY <2>1, CommentsStep DEF CommentsKept, KeepsThread
<1>4. QED BY <1>1, <1>2, <1>3, PTL DEF CommentsSpec, ThreadStands

(***************************************************************************)
(* That the history of an account says what the rows say it is about,      *)
(* whatever its members write at once.                                     *)
(***************************************************************************)

(* The rows, the lines and the requests have their fields.                 *)
Moves == Stages \X Stages
NoteLines == [text : Texts, links : SUBSET Accounts] \cup {NoLine}
FeedRows ==
    /\ note \in [state : {"none", "live", "trashed"}, text : Texts \cup {NoLine},
                 links : SUBSET Accounts]
    /\ note.state = "live" => note.text \in Texts
    /\ stamp \in 0..MaxStamp
    /\ task \in [live : BOOLEAN, done : BOOLEAN, doneAt : 0..stamp]
    /\ deal \in [live : BOOLEAN, stage : Stages, pipeline : Range(Pipeline), version : 0..MaxStamp]
    /\ moves \in Seq(Moves)
    /\ call \in [outcome : Outcomes \cup {NoLine}, steps : SUBSET Outcomes]
    /\ feed \in [note : NoteLines,
                 task : [subtype : {"created", "completed", "reopened"}, at : 0..MaxStamp],
                 moves : SUBSET (Stages \X Stages \X (0..MaxStamp)), tasks : SUBSET Outcomes]

Links == {{a} : a \in Accounts} \cup {Same}
NoteTask == [pc : {"note"}, text : Texts \cup {Same}, links : Links, said : Texts]
NoteTxTask == [pc : {"noteTx"}, text : Texts \cup {Same}, links : Links, said : Texts,
               stale : SUBSET Accounts]
DoneTask == [pc : {"task"}, done : BOOLEAN, was : BOOLEAN, at : 1..MaxStamp]
DealTask == [pc : {"deal"}, stage : Stages \cup {Same}, pipeline : Range(Pipeline) \cup {Same},
             from : Stages, version : 0..MaxStamp]
CallTask == [pc : {"callTx"}, outcome : Outcomes \cup {NoLine}, steps : SUBSET Outcomes,
             stale : SUBSET Outcomes]
FeedTask == {NoFeedWork} \cup NoteTask \cup NoteTxTask \cup DoneTask \cup DealTask \cup CallTask

(* Who updates the note has it to himself: it stays live, and with its     *)
(* links, unless others attach it.                                         *)
Edits(t) == t.pc = "noteTx" /\ t.text # Same
NoteTaskOK(t) ==
    /\ Edits(t) => note.state = "live"
    /\ "attach" \notin feedKinds =>
          /\ t.pc \in {"note", "noteTx"} => t.text # Same
          /\ t.pc = "noteTx" => t.stale = note.links
OneEdits == \A q, r \in FeedRequests : Edits(feedWork[q]) /\ Edits(feedWork[r]) => q = r

(* So has who saves the outcome of a call, unless others save its steps.   *)
Saves(t) == "steps" \notin feedKinds /\ t.pc = "callTx"
CallTaskOK(t) ==
    Saves(t) => t.outcome \in Outcomes /\ t.steps = {t.outcome} /\ t.stale = call.steps
OneSaves == \A q, r \in FeedRequests : Saves(feedWork[q]) /\ Saves(feedWork[r]) => q = r

(* No moment that a request goes by is still to come.                      *)
MomentsPassed ==
    \A q \in FeedRequests : feedWork[q].pc = "task" => feedWork[q].at <= stamp

FeedInv ==
    /\ FeedRows /\ MomentsPassed /\ feedWork \in [FeedRequests -> FeedTask]
    /\ OneEdits /\ OneSaves /\ FeedIsTrue
    /\ \A q \in FeedRequests : NoteTaskOK(feedWork[q]) /\ CallTaskOK(feedWork[q])

-----------------------------------------------------------------------------
(* What a request has, by its step.                                        *)
LEMMA FeedTaskIs ==
    ASSUME NEW t \in FeedTask
    PROVE  /\ t.pc = "note" => t \in NoteTask
           /\ t.pc = "noteTx" => t \in NoteTxTask
           /\ t.pc = "task" => t \in DoneTask
           /\ t.pc = "deal" => t \in DealTask
           /\ t.pc = "callTx" => t \in CallTask
BY DEF FeedTask, NoFeedWork, NoteTask, NoteTxTask, DoneTask, DealTask, CallTask

LEMMA FeedTaskHas ==
    ASSUME FeedInv, NEW q \in FeedRequests, NEW t, t = feedWork[q]
    PROVE  t \in FeedTask /\ NoteTaskOK(t) /\ CallTaskOK(t)
BY DEF FeedInv, NoteTaskOK, CallTaskOK, Edits, Saves

(* What a step leaves of the rows that other requests have locked.         *)
NoteKept(S) == \A o \in S :
    /\ Edits(feedWork[o]) => note'.state = "live"
    /\ "attach" \notin feedKinds /\ feedWork[o].pc = "noteTx" => note'.links = note.links
CallKept(S) == \A o \in S : Saves(feedWork[o]) => call'.steps = call.steps

LEMMA FeedTaskStays ==
    ASSUME FeedInv, UNCHANGED feedKinds, NEW S \in SUBSET FeedRequests,
           NoteKept(S), CallKept(S), NEW o \in S, NEW t, t = feedWork[o]
    PROVE  NoteTaskOK(t)' /\ CallTaskOK(t)'
<1>1. NoteTaskOK(t) /\ CallTaskOK(t) BY FeedTaskHas
<1>2. NoteTaskOK(t)' BY <1>1 DEF NoteTaskOK, NoteKept, Edits
<1>3. CallTaskOK(t)' BY <1>1 DEF CallTaskOK, CallKept, Saves
<1>4. QED BY <1>2, <1>3

(* A request goes on, the others wait.                                     *)
FeedTasksOK ==
    /\ feedWork \in [FeedRequests -> FeedTask] /\ OneEdits /\ OneSaves
    /\ \A q \in FeedRequests : NoteTaskOK(feedWork[q]) /\ CallTaskOK(feedWork[q])
    /\ MomentsPassed

LEMMA FeedTaskGoes ==
    ASSUME FeedInv, NEW q \in FeedRequests, NEW x \in FeedTask, FeedGoes(q, x),
           stamp' = stamp \/ stamp' \in stamp..MaxStamp, x.pc = "task" => x.at <= stamp',
           UNCHANGED feedKinds, NoteKept(FeedRequests \ {q}), CallKept(FeedRequests \ {q}),
           NoteTaskOK(x)', CallTaskOK(x)',
           Edits(x) => \A o \in FeedRequests \ {q} : ~Edits(feedWork[o]),
           Saves(x) => \A o \in FeedRequests \ {q} : ~Saves(feedWork[o])
    PROVE  FeedTasksOK'
<1>1. feedWork' \in [FeedRequests -> FeedTask] BY DEF FeedInv, FeedGoes
<1>2. feedWork'[q] = x /\ \A o \in FeedRequests \ {q} : feedWork'[o] = feedWork[o]
  BY DEF FeedInv, FeedGoes
<1>3. OneEdits'
  BY <1>2 DEF FeedInv, OneEdits, Edits
<1>4. OneSaves'
  BY <1>2 DEF FeedInv, OneSaves, Saves
<1>5. ASSUME NEW o \in FeedRequests
      PROVE  NoteTaskOK(feedWork[o])' /\ CallTaskOK(feedWork[o])'
  <2>1. CASE o = q
    BY <1>2, <2>1 DEF NoteTaskOK, CallTaskOK, Edits, Saves
  <2>2. CASE o # q
    <3>1. PICK t : t = feedWork[o] OBVIOUS
    <3>2. NoteTaskOK(t)' /\ CallTaskOK(t)' BY <2>2, <3>1, FeedTaskStays
    <3>3. feedWork'[o] = t BY <1>2, <2>2, <3>1
    <3>4. QED BY <3>2, <3>3 DEF NoteTaskOK, CallTaskOK, Edits, Saves
  <2>3. QED BY <2>1, <2>2
<1>6. MomentsPassed'
  <2>1. SUFFICES ASSUME NEW o \in FeedRequests, o # q, feedWork[o].pc = "task"
                 PROVE  feedWork[o].at <= stamp'
    BY <1>2 DEF MomentsPassed
  <2>2. feedWork[o].at <= stamp BY <2>1 DEF FeedInv, MomentsPassed
  <2>3. feedWork[o] \in DoneTask BY <2>1, FeedTaskIs DEF FeedInv
  <2>4. feedWork[o].at \in Int /\ stamp \in Int /\ stamp' >= stamp /\ stamp' \in Int
    BY <2>3 DEF DoneTask, FeedInv, FeedRows
  <2>5. QED BY <2>2, <2>4
<1>7. QED BY <1>1, <1>3, <1>4, <1>5, <1>6 DEF FeedTasksOK

LEMMA FeedTasksStay ==
    ASSUME FeedInv, UNCHANGED <<feedKinds, feedWork, stamp>>, NoteKept(FeedRequests),
           CallKept(FeedRequests)
    PROVE  FeedTasksOK'
<1>1. feedWork' \in [FeedRequests -> FeedTask] /\ OneEdits' /\ OneSaves'
  BY DEF FeedInv, OneEdits, OneSaves, Edits, Saves
<1>2. ASSUME NEW o \in FeedRequests
      PROVE  NoteTaskOK(feedWork[o])' /\ CallTaskOK(feedWork[o])'
  <2>1. PICK t : t = feedWork[o] OBVIOUS
  <2>2. NoteTaskOK(t)' /\ CallTaskOK(t)' BY <2>1, FeedTaskStays
  <2>3. feedWork'[o] = t BY <2>1
  <2>4. QED BY <2>2, <2>3 DEF NoteTaskOK, CallTaskOK, Edits, Saves
<1>3. MomentsPassed' BY DEF FeedInv, MomentsPassed
<1>4. QED BY <1>1, <1>2, <1>3 DEF FeedTasksOK

LEMMA RestingFeed ==
    NoFeedWork \in FeedTask /\ NoFeedWork.pc # "task" /\ ~Edits(NoFeedWork) /\ ~Saves(NoFeedWork)
    /\ NoteTaskOK(NoFeedWork) /\ CallTaskOK(NoFeedWork)
    /\ NoteTaskOK(NoFeedWork)' /\ CallTaskOK(NoFeedWork)'
BY DEF FeedTask, NoFeedWork, Edits, Saves, NoteTaskOK, CallTaskOK

-----------------------------------------------------------------------------
(* A step that reads; it may take the next moment.                         *)
LEMMA FeedReads ==
    ASSUME FeedInv, NEW q \in FeedRequests, NEW x \in FeedTask, FeedGoes(q, x),
           UNCHANGED <<feedKinds, note, task, deal, moves, call, feed>>,
           stamp' \in stamp..MaxStamp, x.pc = "task" => x.at <= stamp',
           NoteTaskOK(x), CallTaskOK(x),
           Edits(x) => \A o \in FeedRequests \ {q} : ~Edits(feedWork[o]),
           Saves(x) => \A o \in FeedRequests \ {q} : ~Saves(feedWork[o])
    PROVE  FeedInv'
<1>1. NoteTaskOK(x)' /\ CallTaskOK(x)' BY DEF NoteTaskOK, CallTaskOK, Saves
<1>2. NoteKept(FeedRequests \ {q}) /\ CallKept(FeedRequests \ {q})
  BY DEF NoteKept, CallKept, FeedInv, NoteTaskOK
<1>3. FeedTasksOK' BY <1>1, <1>2, FeedTaskGoes
<1>4. FeedRows'
  <2>1. stamp' \in 0..MaxStamp /\ 0..stamp \subseteq 0..stamp' BY DEF FeedInv, FeedRows
  <2>2. task' \in [live : BOOLEAN, done : BOOLEAN, doneAt : 0..stamp']
    BY <2>1 DEF FeedInv, FeedRows
  <2>3. QED BY <2>1, <2>2 DEF FeedInv, FeedRows
<1>5. FeedIsTrue'
  BY DEF FeedInv, FeedIsTrue, NoteLine, TaskLine, MoveLines, StepsOfOutcome
<1>6. QED BY <1>3, <1>4, <1>5 DEF FeedInv, FeedTasksOK

LEMMA FeedFailsKeeps ==
    ASSUME FeedInv, NEW q \in FeedRequests, FeedFails(q) PROVE FeedInv'
<1>1. stamp' \in stamp..MaxStamp BY DEF FeedFails, FeedInv, FeedRows
<1>2. QED BY <1>1, RestingFeed, FeedReads DEF FeedFails

LEMMA NoteReadKeeps ==
    ASSUME FeedInv, NEW q \in FeedRequests, NEW text \in Texts \cup {Same}, NEW links \in Links,
           NoteRead(q, text, links)
    PROVE  FeedInv'
<1>1. PICK x : x = [pc |-> "note", text |-> text, links |-> links, said |-> note.text] OBVIOUS
<1>2. note.text \in Texts BY DEF NoteRead, FeedInv, FeedRows
<1>3. x \in NoteTask /\ x.pc = "note" /\ x.text = text
  BY <1>1, <1>2 DEF NoteTask
<1>4. x \in FeedTask BY <1>3 DEF FeedTask
<1>5. FeedGoes(q, x) /\ UNCHANGED <<feedKinds, note, task, deal, moves, call, feed, stamp>>
      /\ (text = Same => "attach" \in feedKinds)
  BY <1>1 DEF NoteRead
<1>6. NoteTaskOK(x) /\ CallTaskOK(x) /\ ~Edits(x) /\ ~Saves(x)
  BY <1>3, <1>5 DEF NoteTaskOK, CallTaskOK, Edits, Saves
<1>7. stamp' \in stamp..MaxStamp BY <1>5 DEF FeedInv, FeedRows
<1>8. QED BY <1>3, <1>4, <1>5, <1>6, <1>7, FeedReads

LEMMA NoteBeginKeeps ==
    ASSUME FeedInv, NEW q \in FeedRequests, NoteBegin(q) PROVE FeedInv'
<1>0. PICK t : t = feedWork[q] OBVIOUS
<1>t. t \in NoteTask /\ NoteTaskOK(t) /\ t.pc = "note"
  BY <1>0, FeedTaskHas, FeedTaskIs DEF NoteBegin
<1>1. CASE FeedFails(q) BY <1>1, FeedFailsKeeps
<1>2. CASE ~FeedFails(q)
  <2>1. PICK x : x = NoteTx(t) OBVIOUS
  <2>2. /\ FeedGoes(q, x) /\ UNCHANGED <<feedKinds, note, task, deal, moves, call, feed, stamp>>
        /\ t.text # Same => note.state = "live" /\ NoteUnlocked
    BY <1>0, <1>2, <2>1 DEF NoteBegin
  <2>3. note.links \in SUBSET Accounts BY DEF FeedInv, FeedRows
  <2>4. x \in NoteTxTask /\ x.pc = "noteTx" /\ x.text = t.text /\ x.stale = note.links
    BY <1>t, <2>1, <2>3 DEF NoteTx, NoteTask, NoteTxTask
  <2>5. x \in FeedTask BY <2>4 DEF FeedTask
  <2>6. NoteTaskOK(x) /\ CallTaskOK(x) /\ ~Saves(x)
    BY <1>t, <2>2, <2>4 DEF NoteTaskOK, CallTaskOK, Edits, Saves
  <2>7. Edits(x) => \A o \in FeedRequests \ {q} : ~Edits(feedWork[o])
    BY <2>2, <2>4 DEF Edits, NoteUnlocked
  <2>8. stamp' \in stamp..MaxStamp BY <2>2 DEF FeedInv, FeedRows
  <2>9. QED BY <2>2, <2>4, <2>5, <2>6, <2>7, <2>8, FeedReads
<1>3. QED BY <1>1, <1>2

LEMMA TaskReadKeeps ==
    ASSUME FeedConstants, FeedInv, NEW q \in FeedRequests, NEW done \in BOOLEAN, TaskRead(q, done)
    PROVE  FeedInv'
<1>1. PICK x : x = [pc |-> "task", done |-> done, was |-> task.done, at |-> stamp'] OBVIOUS
<1>2. stamp' = stamp + 1 /\ stamp' \in 1..MaxStamp /\ stamp' \in stamp..MaxStamp
  BY DEF TaskRead, FeedInv, FeedRows, FeedConstants
<1>3. x \in DoneTask /\ x.pc = "task" /\ x.at <= stamp'
  BY <1>1, <1>2 DEF DoneTask, FeedInv, FeedRows
<1>4. x \in FeedTask BY <1>3 DEF FeedTask
<1>5. FeedGoes(q, x) /\ UNCHANGED <<feedKinds, note, task, deal, moves, call, feed>>
  BY <1>1 DEF TaskRead
<1>6. NoteTaskOK(x) /\ CallTaskOK(x) /\ ~Edits(x) /\ ~Saves(x)
  BY <1>3 DEF NoteTaskOK, CallTaskOK, Edits, Saves
<1>7. QED BY <1>2, <1>3, <1>4, <1>5, <1>6, FeedReads

LEMMA DealReadKeeps ==
    ASSUME FeedInv, NEW q \in FeedRequests, NEW s \in Stages \cup {Same},
           NEW p \in Range(Pipeline) \cup {Same}, DealRead(q, s, p)
    PROVE  FeedInv'
<1>1. PICK x : x = [pc |-> "deal", stage |-> s, pipeline |-> p, from |-> deal.stage,
                    version |-> deal.version]
  OBVIOUS
<1>2. x \in DealTask /\ x.pc = "deal"
  BY <1>1 DEF DealTask, FeedInv, FeedRows
<1>3. x \in FeedTask BY <1>2 DEF FeedTask
<1>4. FeedGoes(q, x) /\ UNCHANGED <<feedKinds, note, task, deal, moves, call, feed, stamp>>
  BY <1>1 DEF DealRead
<1>5. NoteTaskOK(x) /\ CallTaskOK(x) /\ ~Edits(x) /\ ~Saves(x)
  BY <1>2 DEF NoteTaskOK, CallTaskOK, Edits, Saves
<1>6. stamp' \in stamp..MaxStamp BY <1>4 DEF FeedInv, FeedRows
<1>7. QED BY <1>2, <1>3, <1>4, <1>5, <1>6, FeedReads

LEMMA SaveBeginKeeps ==
    ASSUME FeedConstants, FeedInv, NEW q \in FeedRequests, NEW o \in Outcomes \cup {NoLine},
           SaveBegin(q, o, IF o = NoLine THEN Outcomes ELSE {o})
    PROVE  FeedInv'
<1>0. PICK steps : steps = IF o = NoLine THEN Outcomes ELSE {o} OBVIOUS
<1>1. PICK x : x = [pc |-> "callTx", outcome |-> o, steps |-> steps, stale |-> call.steps]
  OBVIOUS
<1>2. x \in CallTask /\ x.pc = "callTx" /\ x.outcome = o /\ x.steps = steps /\ x.stale = call.steps
  BY <1>0, <1>1 DEF CallTask, FeedInv, FeedRows
<1>3. x \in FeedTask BY <1>2 DEF FeedTask
<1>4. /\ FeedGoes(q, x) /\ UNCHANGED <<feedKinds, note, task, deal, moves, call, feed, stamp>>
      /\ IF o = NoLine THEN "steps" \in feedKinds ELSE CallUnlocked
  BY <1>0, <1>1 DEF SaveBegin
<1>5. NoteTaskOK(x) /\ CallTaskOK(x) /\ ~Edits(x)
  BY <1>0, <1>2, <1>4 DEF NoteTaskOK, CallTaskOK, Edits, Saves
<1>6. Saves(x) => \A r \in FeedRequests \ {q} : ~Saves(feedWork[r])
  <2>1. SUFFICES ASSUME "steps" \notin feedKinds, NEW r \in FeedRequests, feedWork[r].pc = "callTx"
                 PROVE  FALSE
    BY DEF Saves
  <2>2. feedWork[r].outcome = NoLine BY <1>4, <2>1 DEF CallUnlocked
  <2>3. feedWork[r].outcome \in Outcomes BY <2>1 DEF FeedInv, CallTaskOK, Saves
  <2>4. QED BY <2>2, <2>3 DEF FeedConstants
<1>7. stamp' \in stamp..MaxStamp BY <1>4 DEF FeedInv, FeedRows
<1>8. QED BY <1>2, <1>3, <1>4, <1>5, <1>6, <1>7, FeedReads

-----------------------------------------------------------------------------
(* The note: its line goes with it.                                        *)
LEMMA NoteCreateKeeps ==
    ASSUME FeedInv, NEW text \in Texts, NEW a \in Accounts, NoteCreate(text, {a})
    PROVE  FeedInv'
<1>1. /\ note.state = "none" /\ note' = [state |-> "live", text |-> text, links |-> {a}]
      /\ UNCHANGED <<feedKinds, task, deal, moves, call, stamp, feedWork>>
      /\ feed' = [feed EXCEPT !.note = [text |-> text, links |-> {a}]]
  BY DEF NoteCreate, NoteIs
<1>2. \A o \in FeedRequests : ~Edits(feedWork[o]) BY <1>1 DEF FeedInv, NoteTaskOK
<1>3. NoteKept(FeedRequests) /\ CallKept(FeedRequests)
  BY <1>1, <1>2 DEF NoteKept, CallKept, FeedInv, NoteTaskOK, Edits
<1>4. FeedTasksOK' BY <1>1, <1>3, FeedTasksStay
<1>5. [text |-> text, links |-> {a}] \in NoteLines BY DEF NoteLines
<1>6. /\ feed'.note = [text |-> text, links |-> {a}] /\ feed'.task = feed.task
      /\ feed'.moves = feed.moves /\ feed'.tasks = feed.tasks
  BY <1>1 DEF FeedInv, FeedRows
<1>7. FeedRows' BY <1>1, <1>5 DEF FeedInv, FeedRows
<1>8. NoteLine' BY <1>1, <1>6 DEF NoteLine
<1>9. FeedIsTrue'
  BY <1>1, <1>6, <1>8 DEF FeedInv, FeedIsTrue, TaskLine, MoveLines, StepsOfOutcome
<1>10. QED BY <1>4, <1>7, <1>9 DEF FeedInv, FeedTasksOK

LEMMA NoteTrashKeeps ==
    ASSUME FeedInv, NoteTrash PROVE FeedInv'
<1>1. /\ note' = [state |-> "trashed", text |-> note.text, links |-> note.links]
      /\ UNCHANGED <<feedKinds, task, deal, moves, call, stamp, feedWork>>
      /\ feed' = [feed EXCEPT !.note = NoLine] /\ NoteUnlocked
  BY DEF NoteTrash, NoteIs
<1>2. \A o \in FeedRequests : ~Edits(feedWork[o]) BY <1>1 DEF NoteUnlocked, Edits
<1>3. NoteKept(FeedRequests) /\ CallKept(FeedRequests)
  BY <1>1, <1>2 DEF NoteKept, CallKept
<1>4. FeedTasksOK' BY <1>1, <1>3, FeedTasksStay
<1>5. /\ feed'.note = NoLine /\ feed'.task = feed.task
      /\ feed'.moves = feed.moves /\ feed'.tasks = feed.tasks
  BY <1>1 DEF FeedInv, FeedRows
<1>6. FeedRows' BY <1>1 DEF FeedInv, FeedRows, NoteLines
<1>7. NoteLine' BY <1>1, <1>5 DEF NoteLine
<1>8. FeedIsTrue'
  BY <1>1, <1>5, <1>7 DEF FeedInv, FeedIsTrue, TaskLine, MoveLines, StepsOfOutcome
<1>9. QED BY <1>4, <1>6, <1>8 DEF FeedInv, FeedTasksOK

LEMMA NoteCommitKeeps ==
    ASSUME FeedInv, NEW q \in FeedRequests, NoteCommit(q) PROVE FeedInv'
<1>0. PICK t : t = feedWork[q] OBVIOUS
<1>t. t \in NoteTxTask /\ NoteTaskOK(t) /\ t.pc = "noteTx"
  BY <1>0, FeedTaskHas, FeedTaskIs DEF NoteCommit
<1>1. PICK targets, text : /\ targets = (IF t.links = Same THEN t.stale ELSE t.links)
                           /\ text = (IF t.text = Same THEN t.said ELSE t.text)
  OBVIOUS
<1>2. text \in Texts /\ targets \in SUBSET Accounts
  BY <1>t, <1>1 DEF NoteTxTask, Links
<1>3. PICK links : links = IF t.links = Same THEN note.links
                           ELSE (note.links \ t.stale) \cup targets
  OBVIOUS
<1>4. /\ FeedGoes(q, NoFeedWork)
      /\ note' = [state |-> note.state, text |-> IF t.text = Same THEN note.text ELSE t.text,
                  links |-> links]
      /\ UNCHANGED <<feedKinds, task, deal, moves, call, stamp>>
      /\ feed' = [feed EXCEPT !.note = [text |-> text, links |-> targets]]
  BY <1>0, <1>1, <1>3 DEF NoteCommit, NoteIs
<1>5. links \in SUBSET Accounts BY <1>2, <1>3 DEF FeedInv, FeedRows
<1>6. "attach" \notin feedKinds =>
          /\ t.text # Same /\ t.stale = note.links /\ links = targets
          /\ \A o \in FeedRequests \ {q} : feedWork[o].pc # "noteTx"
  <2>1. SUFFICES ASSUME "attach" \notin feedKinds
                 PROVE  /\ t.text # Same /\ t.stale = note.links /\ links = targets
                        /\ \A o \in FeedRequests \ {q} : feedWork[o].pc # "noteTx"
    OBVIOUS
  <2>2. t.text # Same /\ t.stale = note.links BY <1>t, <2>1 DEF NoteTaskOK
  <2>3. links = targets BY <1>1, <1>3, <2>2
  <2>4. ASSUME NEW o \in FeedRequests \ {q}, feedWork[o].pc = "noteTx" PROVE FALSE
    <3>1. Edits(feedWork[o]) BY <2>1, <2>4 DEF FeedInv, NoteTaskOK, Edits
    <3>2. Edits(feedWork[q]) BY <1>0, <1>t, <2>2 DEF Edits
    <3>3. QED BY <3>1, <3>2 DEF FeedInv, OneEdits
  <2>5. QED BY <2>2, <2>3, <2>4
<1>7. NoteKept(FeedRequests \ {q}) /\ CallKept(FeedRequests \ {q})
  BY <1>4, <1>6 DEF NoteKept, CallKept, FeedInv, NoteTaskOK
<1>8. FeedTasksOK' BY <1>4, <1>7, RestingFeed, FeedTaskGoes
<1>9. [text |-> text, links |-> targets] \in NoteLines BY <1>2 DEF NoteLines
<1>10. /\ feed'.note = [text |-> text, links |-> targets] /\ feed'.task = feed.task
       /\ feed'.moves = feed.moves /\ feed'.tasks = feed.tasks
  BY <1>4 DEF FeedInv, FeedRows
<1>11. FeedRows'
  <2>1. /\ note' \in [state : {"none", "live", "trashed"}, text : Texts \cup {NoLine},
                      links : SUBSET Accounts]
        /\ note'.state = "live" => note'.text \in Texts
    BY <1>1, <1>2, <1>4, <1>5 DEF FeedInv, FeedRows
  <2>2. QED BY <1>4, <1>9, <2>1 DEF FeedInv, FeedRows
<1>12. "attach" \notin feedKinds => NoteLine'
  <2>1. SUFFICES ASSUME "attach" \notin feedKinds PROVE NoteLine' OBVIOUS
  <2>2. note.state = "live" BY <1>t, <1>6, <2>1 DEF NoteTaskOK, Edits
  <2>3. QED BY <1>1, <1>4, <1>6, <1>10, <2>1, <2>2 DEF NoteLine
<1>13. FeedIsTrue'
  BY <1>4, <1>10, <1>12 DEF FeedInv, FeedIsTrue, TaskLine, MoveLines, StepsOfOutcome
<1>14. QED BY <1>8, <1>11, <1>13 DEF FeedInv, FeedTasksOK

-----------------------------------------------------------------------------
(* The task: the flag, its moment and its line.                            *)
LEMMA TaskCommitKeeps ==
    ASSUME FeedInv, NEW q \in FeedRequests, TaskCommit(q) PROVE FeedInv'
<1>0. PICK t : t = feedWork[q] OBVIOUS
<1>t. t \in FeedTask /\ t \in DoneTask /\ t.pc = "task"
  BY <1>0, FeedTaskHas, FeedTaskIs DEF TaskCommit
<1>1. CASE FeedFails(q) BY <1>1, FeedFailsKeeps
<1>2. CASE ~FeedFails(q)
  <2>1. /\ task' = [task EXCEPT !.done = t.done, !.doneAt = IF t.done THEN t.at ELSE 0]
        /\ feed' = [feed EXCEPT !.task =
              [subtype |-> IF t.done THEN "completed" ELSE "reopened", at |-> t.at]]
        /\ FeedGoes(q, NoFeedWork) /\ UNCHANGED <<feedKinds, note, deal, moves, call, stamp>>
    BY <1>0, <1>2 DEF TaskCommit
  <2>2. t.done \in BOOLEAN /\ t.at \in 1..stamp BY <1>t, <1>0 DEF DoneTask, FeedInv, MomentsPassed
  <2>3. FeedTasksOK'
    <3>1. NoteKept(FeedRequests \ {q}) /\ CallKept(FeedRequests \ {q})
      BY <2>1 DEF NoteKept, CallKept, FeedInv, NoteTaskOK
    <3>2. QED BY <2>1, <3>1, RestingFeed, FeedTaskGoes
  <2>4. /\ feed'.note = feed.note /\ feed'.moves = feed.moves /\ feed'.tasks = feed.tasks
        /\ feed'.task = [subtype |-> IF t.done THEN "completed" ELSE "reopened", at |-> t.at]
    BY <2>1 DEF FeedInv, FeedRows
  <2>5. /\ task'.done = t.done /\ task'.doneAt = (IF t.done THEN t.at ELSE 0)
    BY <2>1 DEF FeedInv, FeedRows
  <2>6. FeedRows'
    <3>1. task' \in [live : BOOLEAN, done : BOOLEAN, doneAt : 0..stamp']
      <4>1. (IF t.done THEN t.at ELSE 0) \in 0..stamp
        BY <2>2 DEF FeedInv, FeedRows
      <4>2. QED BY <2>1, <2>2, <4>1 DEF FeedInv, FeedRows
    <3>2. [subtype |-> IF t.done THEN "completed" ELSE "reopened", at |-> t.at]
          \in [subtype : {"created", "completed", "reopened"}, at : 0..MaxStamp]
      BY <1>t DEF DoneTask
    <3>3. feed' \in [note : NoteLines,
                 task : [subtype : {"created", "completed", "reopened"}, at : 0..MaxStamp],
                 moves : SUBSET (Stages \X Stages \X (0..MaxStamp)), tasks : SUBSET Outcomes]
      BY <2>1, <3>2 DEF FeedInv, FeedRows
    <3>4. QED BY <2>1, <3>1, <3>3 DEF FeedInv, FeedRows
  <2>7. TaskLine' BY <2>2, <2>4, <2>5 DEF TaskLine
  <2>8. FeedIsTrue'
    BY <2>1, <2>4, <2>7 DEF FeedInv, FeedIsTrue, NoteLine, MoveLines, StepsOfOutcome
  <2>9. QED BY <2>3, <2>6, <2>8 DEF FeedInv, FeedTasksOK
<1>3. QED BY <1>1, <1>2

-----------------------------------------------------------------------------
(* The deal: each move is told by its history and by the feed.             *)
LEMMA MovesTold ==
    ASSUME FeedRows, NEW s \in Stages, NEW t \in Stages, NEW v \in 0..MaxStamp,
           {<<m[1], m[2]>> : m \in feed.moves} = ToSet(moves)
    PROVE  {<<m[1], m[2]>> : m \in feed.moves \cup {<<s, t, v>>}}
               = ToSet(Append(moves, <<s, t>>))
<1>1. moves \in Seq(Moves) /\ <<s, t>> \in Moves BY DEF FeedRows, Moves
<1>2. ToSet(Append(moves, <<s, t>>)) = ToSet(moves) \cup {<<s, t>>}
  <2>1. /\ Append(moves, <<s, t>>) \in Seq(Moves)
        /\ Len(Append(moves, <<s, t>>)) = Len(moves) + 1
        /\ \A i \in 1..Len(moves) : Append(moves, <<s, t>>)[i] = moves[i]
        /\ Append(moves, <<s, t>>)[Len(moves) + 1] = <<s, t>>
    BY <1>1, AppendProperties
  <2>2. /\ DOMAIN moves = 1..Len(moves) /\ Len(moves) \in Nat
        /\ DOMAIN Append(moves, <<s, t>>) = 1..Len(moves) \cup {Len(moves) + 1}
    BY <1>1, <2>1
  <2>3. QED BY <2>1, <2>2 DEF ToSet
<1>3. {<<m[1], m[2]>> : m \in feed.moves \cup {<<s, t, v>>}}
         = {<<m[1], m[2]>> : m \in feed.moves} \cup {<<s, t>>}
  <2>1. <<s, t, v>>[1] = s /\ <<s, t, v>>[2] = t OBVIOUS
  <2>2. PICK new : new = <<s, t, v>> OBVIOUS
  <2>3. <<new[1], new[2]>> = <<s, t>> BY <2>1, <2>2
  <2>4. {<<m[1], m[2]>> : m \in feed.moves \cup {new}}
           = {<<m[1], m[2]>> : m \in feed.moves} \cup {<<new[1], new[2]>>}
    BY Zenon
  <2>5. QED BY <2>2, <2>3, <2>4, Zenon
<1>4. QED BY <1>2, <1>3

LEMMA DealCommitKeeps ==
    ASSUME FeedConstants, FeedInv, NEW q \in FeedRequests, DealCommit(q) PROVE FeedInv'
<1>0. PICK t : t = feedWork[q] OBVIOUS
<1>t. t \in DealTask /\ t.pc = "deal"
  BY <1>0, FeedTaskHas, FeedTaskIs DEF DealCommit
<1>1. CASE FeedFails(q) BY <1>1, FeedFailsKeeps
<1>2. CASE ~FeedFails(q)
  <2>1. /\ DealUpdated(t) /\ Moved(t) /\ FeedGoes(q, NoFeedWork)
        /\ UNCHANGED <<feedKinds, note, task, call, stamp>> /\ deal.version < MaxStamp
    BY <1>0, <1>2 DEF DealCommit
  <2>2. FeedTasksOK'
    <3>1. NoteKept(FeedRequests \ {q}) /\ CallKept(FeedRequests \ {q})
      BY <2>1 DEF NoteKept, CallKept, FeedInv, NoteTaskOK
    <3>2. QED BY <2>1, <3>1, RestingFeed, FeedTaskGoes
  <2>3. /\ deal' \in [live : BOOLEAN, stage : Stages, pipeline : Range(Pipeline),
                      version : 0..MaxStamp]
        /\ deal'.version = deal.version + 1
    <3>1. deal \in [live : BOOLEAN, stage : Stages, pipeline : Range(Pipeline),
                    version : 0..MaxStamp]
      BY DEF FeedInv, FeedRows
    <3>2. /\ Given(t.stage, deal.stage) \in Stages
          /\ Given(t.pipeline, deal.pipeline) \in Range(Pipeline)
      BY <1>t, <3>1 DEF Given, DealTask
    <3>3. deal.version + 1 \in 0..MaxStamp BY <2>1, <3>1 DEF FeedConstants
    <3>4. deal' = [deal EXCEPT !.stage = Given(t.stage, deal.stage),
                   !.pipeline = Given(t.pipeline, deal.pipeline), !.version = deal.version + 1]
      BY <2>1 DEF DealUpdated
    <3>5. QED BY <3>1, <3>2, <3>3, <3>4
  <2>4. CASE t.stage \in {Same, t.from}
    <3>1. UNCHANGED <<moves, feed>> BY <2>1, <2>4 DEF Moved
    <3>2. FeedRows' BY <2>1, <2>3, <3>1 DEF FeedInv, FeedRows
    <3>3. MoveLines' BY <2>3, <3>1 DEF FeedInv, FeedIsTrue, FeedRows, MoveLines
    <3>4. FeedIsTrue'
      BY <2>1, <3>1, <3>3 DEF FeedInv, FeedIsTrue, NoteLine, TaskLine, StepsOfOutcome
    <3>5. QED BY <2>2, <3>2, <3>4 DEF FeedInv, FeedTasksOK
  <2>5. CASE t.stage \notin {Same, t.from}
    <3>1. t.stage \in Stages /\ t.from \in Stages /\ t.version \in 0..MaxStamp
      BY <1>t, <2>5 DEF DealTask
    <3>2. /\ moves' = Append(moves, <<t.from, t.stage>>)
          /\ feed' = [feed EXCEPT !.moves = @ \cup {<<t.from, t.stage, t.version>>}]
      BY <2>1, <2>5 DEF Moved
    <3>3. /\ feed'.note = feed.note /\ feed'.task = feed.task /\ feed'.tasks = feed.tasks
          /\ feed'.moves = feed.moves \cup {<<t.from, t.stage, t.version>>}
      BY <3>2 DEF FeedInv, FeedRows
    <3>4. moves' \in Seq(Moves) /\ Len(moves') = Len(moves) + 1
      <4>1. moves \in Seq(Moves) /\ <<t.from, t.stage>> \in Moves
        BY <3>1 DEF Moves, FeedInv, FeedRows
      <4>2. QED BY <3>2, <4>1, AppendProperties
    <3>5. FeedRows'
      <4>1. feed' \in [note : NoteLines,
                 task : [subtype : {"created", "completed", "reopened"}, at : 0..MaxStamp],
                 moves : SUBSET (Stages \X Stages \X (0..MaxStamp)), tasks : SUBSET Outcomes]
        <5>1. feed \in [note : NoteLines,
                 task : [subtype : {"created", "completed", "reopened"}, at : 0..MaxStamp],
                 moves : SUBSET (Stages \X Stages \X (0..MaxStamp)), tasks : SUBSET Outcomes]
          BY DEF FeedInv, FeedRows
        <5>2. PICK line : line = <<t.from, t.stage, t.version>> OBVIOUS
        <5>3. line \in Stages \X Stages \X (0..MaxStamp) BY <3>1, <5>2
        <5>4. feed.moves \cup {line} \in SUBSET (Stages \X Stages \X (0..MaxStamp))
          BY <5>1, <5>3
        <5>5. feed' = [feed EXCEPT !.moves = feed.moves \cup {line}] BY <3>2, <5>2
        <5>6. QED BY <5>1, <5>4, <5>5
      <4>2. QED BY <2>1, <2>3, <3>4, <4>1 DEF FeedInv, FeedRows
    <3>6. MoveLines'
      <4>1. {<<m[1], m[2]>> : m \in feed'.moves} = ToSet(moves')
        BY <3>1, <3>2, <3>3, MovesTold DEF FeedInv, FeedIsTrue, MoveLines
      <4>2. Len(moves') <= deal'.version
        BY <2>3, <3>4 DEF FeedInv, FeedRows, FeedIsTrue, MoveLines
      <4>3. QED BY <4>1, <4>2 DEF MoveLines
    <3>7. FeedIsTrue'
      BY <2>1, <3>3, <3>6 DEF FeedInv, FeedIsTrue, NoteLine, TaskLine, StepsOfOutcome
    <3>8. QED BY <2>2, <3>5, <3>7 DEF FeedInv, FeedTasksOK
  <2>6. QED BY <2>4, <2>5
<1>3. QED BY <1>1, <1>2

(* What is trashed keeps its lines.                                        *)
LEMMA TrashKeeps ==
    ASSUME FeedInv, TaskTrash \/ DealTrash PROVE FeedInv'
<1>1. UNCHANGED <<feedKinds, note, moves, call, feed, stamp, feedWork>>
  BY DEF TaskTrash, DealTrash
<1>2. FeedTasksOK'
  <2>1. NoteKept(FeedRequests) /\ CallKept(FeedRequests)
    BY <1>1 DEF NoteKept, CallKept, FeedInv, NoteTaskOK
  <2>2. QED BY <1>1, <2>1, FeedTasksStay
<1>3. CASE TaskTrash
  <2>1. task' = [task EXCEPT !.live = FALSE] /\ deal' = deal BY <1>3 DEF TaskTrash
  <2>2. FeedRows' BY <1>1, <2>1 DEF FeedInv, FeedRows
  <2>3. task'.done = task.done /\ task'.doneAt = task.doneAt
    BY <2>1 DEF FeedInv, FeedRows
  <2>4. FeedIsTrue'
    BY <1>1, <2>1, <2>3
    DEF FeedInv, FeedIsTrue, NoteLine, TaskLine, MoveLines, StepsOfOutcome
  <2>5. QED BY <1>2, <2>2, <2>4 DEF FeedInv, FeedTasksOK
<1>4. CASE DealTrash
  <2>1. deal' = [deal EXCEPT !.live = FALSE] /\ task' = task BY <1>4 DEF DealTrash
  <2>2. FeedRows' BY <1>1, <2>1 DEF FeedInv, FeedRows
  <2>3. deal'.version = deal.version BY <2>1 DEF FeedInv, FeedRows
  <2>4. FeedIsTrue'
    BY <1>1, <2>1, <2>3
    DEF FeedInv, FeedIsTrue, NoteLine, TaskLine, MoveLines, StepsOfOutcome
  <2>5. QED BY <1>2, <2>2, <2>4 DEF FeedInv, FeedTasksOK
<1>5. QED BY <1>3, <1>4

-----------------------------------------------------------------------------
(* The call: its next steps go with its outcome.                           *)
LEMMA SaveCommitKeeps ==
    ASSUME FeedConstants, FeedInv, NEW q \in FeedRequests, SaveCommit(q) PROVE FeedInv'
<1>0. PICK t : t = feedWork[q] OBVIOUS
<1>t. t \in CallTask /\ CallTaskOK(t) /\ t.pc = "callTx"
  BY <1>0, FeedTaskHas, FeedTaskIs DEF SaveCommit
<1>1. CASE FeedFails(q) BY <1>1, FeedFailsKeeps
<1>2. CASE ~FeedFails(q)
  <2>1. /\ call' = [outcome |-> IF t.outcome = NoLine THEN call.outcome ELSE t.outcome,
                    steps |-> (call.steps \ t.stale) \cup t.steps]
        /\ feed' = IF t.outcome = NoLine THEN feed
                   ELSE [feed EXCEPT !.tasks = @ \cup t.steps]
        /\ FeedGoes(q, NoFeedWork) /\ UNCHANGED <<feedKinds, note, task, deal, moves, stamp>>
    BY <1>0, <1>2 DEF SaveCommit
  <2>2. ASSUME Saves(t), NEW o \in FeedRequests \ {q} PROVE ~Saves(feedWork[o])
    BY <1>0, <2>2 DEF FeedInv, OneSaves
  <2>3. FeedTasksOK'
    <3>1. NoteKept(FeedRequests \ {q})
      BY <2>1 DEF NoteKept, FeedInv, NoteTaskOK
    <3>2. CallKept(FeedRequests \ {q})
      BY <1>t, <2>2 DEF CallKept, Saves
    <3>3. QED BY <2>1, <3>1, <3>2, RestingFeed, FeedTaskGoes
  <2>4. /\ feed'.note = feed.note /\ feed'.task = feed.task /\ feed'.moves = feed.moves
        /\ feed'.tasks = (IF t.outcome = NoLine THEN feed.tasks ELSE feed.tasks \cup t.steps)
    BY <2>1 DEF FeedInv, FeedRows
  <2>5. FeedRows'
    <3>1. call' \in [outcome : Outcomes \cup {NoLine}, steps : SUBSET Outcomes]
      BY <1>t, <2>1 DEF CallTask, FeedInv, FeedRows
    <3>2. feed' \in [note : NoteLines,
                 task : [subtype : {"created", "completed", "reopened"}, at : 0..MaxStamp],
                 moves : SUBSET (Stages \X Stages \X (0..MaxStamp)), tasks : SUBSET Outcomes]
      BY <1>t, <2>1 DEF CallTask, FeedInv, FeedRows
    <3>3. QED BY <2>1, <3>1, <3>2 DEF FeedInv, FeedRows
  <2>6. "steps" \notin feedKinds => StepsOfOutcome'
    <3>1. SUFFICES ASSUME "steps" \notin feedKinds PROVE StepsOfOutcome' OBVIOUS
    <3>2. t.outcome \in Outcomes /\ t.steps = {t.outcome} /\ t.stale = call.steps
      BY <1>t, <3>1 DEF CallTaskOK, Saves
    <3>3. call'.outcome = t.outcome /\ call'.steps = {t.outcome}
          /\ feed'.tasks = feed.tasks \cup {t.outcome}
      BY <2>1, <2>4, <3>2 DEF FeedConstants
    <3>4. QED BY <3>3 DEF StepsOfOutcome
  <2>7. FeedIsTrue'
    BY <2>1, <2>4, <2>6 DEF FeedInv, FeedIsTrue, NoteLine, TaskLine, MoveLines
  <2>8. QED BY <2>3, <2>5, <2>7 DEF FeedInv, FeedTasksOK
<1>3. QED BY <1>1, <1>2

-----------------------------------------------------------------------------
LEMMA FeedStarts ==
    ASSUME FeedConstants, FeedInit PROVE FeedInv
<1> USE DEF FeedConstants
<1>1. PICK s \in Stages : deal = [live |-> TRUE, stage |-> s, pipeline |-> Pipeline[s],
                                  version |-> 0]
  BY DEF FeedInit
<1>2. /\ note = [state |-> "none", text |-> NoLine, links |-> {}]
      /\ task = [live |-> TRUE, done |-> FALSE, doneAt |-> 0]
      /\ moves = <<>> /\ call = [outcome |-> NoLine, steps |-> {}] /\ stamp = 0
      /\ feed = [note |-> NoLine, task |-> [subtype |-> "created", at |-> 0], moves |-> {},
                 tasks |-> {}]
      /\ feedWork = [q \in FeedRequests |-> NoFeedWork]
  BY DEF FeedInit
<1>3. Pipeline[s] \in Range(Pipeline) BY <1>1 DEF Stages, Range
<1>4. moves \in Seq(Moves) /\ Len(moves) = 0 BY <1>2, EmptySeq
<1>5. FeedRows BY <1>1, <1>2, <1>3, <1>4 DEF FeedRows, NoteLines
<1>6. \A q \in FeedRequests : feedWork[q] = NoFeedWork BY <1>2
<1>7. /\ feedWork \in [FeedRequests -> FeedTask] /\ OneEdits /\ OneSaves /\ MomentsPassed
      /\ \A q \in FeedRequests : NoteTaskOK(feedWork[q]) /\ CallTaskOK(feedWork[q])
  BY <1>2, <1>6, RestingFeed DEF OneEdits, OneSaves, MomentsPassed
<1>8. MoveLines BY <1>1, <1>2, <1>4 DEF MoveLines, ToSet
<1>9. FeedIsTrue BY <1>2, <1>8 DEF FeedIsTrue, NoteLine, TaskLine, StepsOfOutcome
<1>10. QED BY <1>5, <1>7, <1>9 DEF FeedInv

LEMMA FeedStep ==
    ASSUME FeedConstants, FeedInv, [FeedNext]_feedVars PROVE FeedInv'
<1>1. CASE UNCHANGED feedVars
  <2>1. NoteKept(FeedRequests) /\ CallKept(FeedRequests)
    BY <1>1 DEF feedVars, NoteKept, CallKept, FeedInv, NoteTaskOK
  <2>2. FeedTasksOK' BY <1>1, <2>1, FeedTasksStay DEF feedVars
  <2>3. FeedRows' BY <1>1 DEF feedVars, FeedInv, FeedRows
  <2>4. FeedIsTrue'
    BY <1>1 DEF feedVars, FeedInv, FeedIsTrue, NoteLine, TaskLine, MoveLines, StepsOfOutcome
  <2>5. QED BY <2>2, <2>3, <2>4 DEF FeedInv, FeedTasksOK
<1>2. ASSUME NEW q \in FeedRequests,
             \/ \E text \in Texts \cup {Same}, links \in Links : NoteRead(q, text, links)
             \/ \E done \in BOOLEAN : TaskRead(q, done)
             \/ \E s \in Stages \cup {Same}, p \in Range(Pipeline) \cup {Same} : DealRead(q, s, p)
             \/ \E o \in Outcomes \cup {NoLine} :
                   SaveBegin(q, o, IF o = NoLine THEN Outcomes ELSE {o})
      PROVE  FeedInv'
  BY <1>2, NoteReadKeeps, TaskReadKeeps, DealReadKeeps, SaveBeginKeeps
<1>3. ASSUME NEW q \in FeedRequests,
             NoteBegin(q) \/ NoteCommit(q) \/ TaskCommit(q) \/ DealCommit(q) \/ SaveCommit(q)
             \/ FeedRollback(q)
      PROVE  FeedInv'
  BY <1>3, NoteBeginKeeps, NoteCommitKeeps, TaskCommitKeeps, DealCommitKeeps, SaveCommitKeeps,
     FeedFailsKeeps
  DEF FeedRollback
<1>4. QED
  BY <1>1, <1>2, <1>3, NoteCreateKeeps, NoteTrashKeeps, TrashKeeps DEF FeedNext, Links

LEMMA FeedHolds == FeedConstants => (FeedSpec => []FeedInv)
<1> SUFFICES ASSUME FeedConstants PROVE FeedSpec => []FeedInv OBVIOUS
<1>1. FeedInit => FeedInv BY FeedStarts
<1>2. FeedInv /\ [FeedNext]_feedVars => FeedInv' BY FeedStep
<1>3. QED BY <1>1, <1>2, PTL DEF FeedSpec

(* The rows of an account, the lines about them and the requests keep      *)
(* their shape, and no moment is later than the last.                      *)
THEOREM FeedTyped == FeedConstants => (FeedSpec => []FeedTypeOK)
<1>1. FeedInv => FeedTypeOK
  <2>1. ASSUME FeedInv, NEW q \in FeedRequests PROVE feedWork[q].pc \in FeedPcs
    BY <2>1 DEF FeedInv, FeedTask, NoFeedWork, NoteTask, NoteTxTask, DoneTask, DealTask,
       CallTask, FeedPcs
  <2>2. QED BY <2>1 DEF FeedInv, FeedRows, FeedTypeOK
<1>2. QED BY <1>1, FeedHolds, PTL

(* However many requests write the note, the task, the deal and the call   *)
(* of an account at once, its history says what they say (notes.ts:        *)
(* 400-441, tasks.ts:470-517, deals.ts:485-540, nextSteps.ts:372-408).     *)
THEOREM HistoryIsTrue == FeedConstants => (FeedSpec => []FeedIsTrue)
<1>1. FeedInv => FeedIsTrue BY DEF FeedInv
<1>2. QED BY <1>1, FeedHolds, PTL

(***************************************************************************)
(* That each browser shows the event of a call once, whatever callbacks    *)
(* are repeated and jobs delivered again, and none goes without it.        *)
(***************************************************************************)

(* The rows and the jobs have their fields.                                *)
PushTask ==
    [pc : PushPcs \ {"send", "mark", "undo", "forget"}, todo : SUBSET Devices, tries : Nat]
PushTaskTo == [pc : PushPcs, todo : SUBSET Devices, tries : Nat, to : Devices]
PushRows ==
    /\ subscribed \subseteq Devices /\ shownTimes \in [Devices -> Nat]
    /\ deliveries \in [Devices -> {"none", "claimed", "delivered"}]
    /\ pushWork \in [PushJobs -> PushTask \cup PushTaskTo]

(* A job that holds the claim of a browser, until it is marked or undone.  *)
Handles(j, d) == pushWork[j].pc \in {"send", "mark", "undo", "forget"} /\ pushWork[j].to = d
Unclaimed(d) == deliveries[d] = "none" /\ d \in subscribed

(* Without lost answers and faults: who was shown the event, or is being   *)
(* shown it, is claimed, by one job, which has not shown it before it asks.*)
ShownAtMostOnce ==
    \A d \in Devices :
       /\ shownTimes[d] <= 1
       /\ shownTimes[d] = 1 => ~Unclaimed(d)
       /\ \A j \in PushJobs : Handles(j, d) =>
             /\ ~Unclaimed(d)
             /\ pushWork[j].pc # "mark" => shownTimes[d] = 0
             /\ \A i \in PushJobs : Handles(i, d) => i = j

(* Without crashes and faults: one job runs, and what it has dealt with    *)
(* was shown; a claim that no job holds is one of a browser that was.      *)
ShownBefore(d) == shownTimes[d] >= 1
ShownAtLeastOnce ==
    /\ \A i, j \in PushJobs : Running(i) /\ Running(j) => i = j
    /\ \A j \in PushJobs, d \in subscribed :
          /\ pushWork[j].pc \in {"next", "send", "mark"} => d \in pushWork[j].todo \/ ShownBefore(d)
          /\ pushWork[j].pc = "done" => ShownBefore(d)
          /\ pushWork[j].pc = "mark" /\ Handles(j, d) => ShownBefore(d)
    /\ \A d \in subscribed : deliveries[d] # "none" =>
          ShownBefore(d) \/ \E j \in PushJobs : Handles(j, d)

MayRepeat == {"lost", "fault"} \cap pushKinds # {}
MayMiss == {"crash", "fault", "expire"} \cap pushKinds # {}
PushInv ==
    /\ PushRows
    /\ MayRepeat \/ ShownAtMostOnce
    /\ MayMiss \/ ShownAtLeastOnce

-----------------------------------------------------------------------------
Claiming == {"send", "mark", "undo", "forget"}

LEMMA PushTaskIs ==
    ASSUME PushRows, NEW j \in PushJobs
    PROVE  /\ pushWork[j].pc \in PushPcs /\ pushWork[j].todo \in SUBSET Devices
           /\ pushWork[j].tries \in Nat
           /\ pushWork[j].pc \in Claiming =>
                 pushWork[j] \in PushTaskTo /\ pushWork[j].to \in Devices
BY DEF PushRows, PushTask, PushTaskTo, Claiming

(* A job goes on, the others stay as they are.                             *)
LEMMA PushGoesOn ==
    ASSUME PushRows, NEW j \in PushJobs, NEW x \in PushTask \cup PushTaskTo, PushGoes(j, x)
    PROVE  /\ pushWork' \in [PushJobs -> PushTask \cup PushTaskTo]
           /\ pushWork'[j] = x /\ \A o \in PushJobs : o # j => pushWork'[o] = pushWork[o]
           /\ pushKinds' = pushKinds
BY DEF PushRows, PushGoes

LEMMA PushMoves ==
    ASSUME PushRows, NEW j \in PushJobs, NEW pc \in PushPcs, PushTo(j, pc),
           pc \in Claiming => pushWork[j].pc \in Claiming
    PROVE  /\ pushWork' \in [PushJobs -> PushTask \cup PushTaskTo]
           /\ pushWork'[j].pc = pc /\ pushWork'[j].todo = pushWork[j].todo
           /\ pushWork'[j].tries = pushWork[j].tries
           /\ pushWork[j].pc \in Claiming => pushWork'[j].to = pushWork[j].to
           /\ \A o \in PushJobs : o # j => pushWork'[o] = pushWork[o]
           /\ pushKinds' = pushKinds
<1>1. PICK t, x : t = pushWork[j] /\ x = [t EXCEPT !.pc = pc] OBVIOUS
<1>2. PushGoes(j, x) BY <1>1 DEF PushTo
<1>3. t \in PushTask \cup PushTaskTo BY <1>1 DEF PushRows
<1>4. /\ x \in PushTask \cup PushTaskTo /\ x.pc = pc /\ x.todo = t.todo /\ x.tries = t.tries
      /\ t \in PushTaskTo => x.to = t.to
  BY <1>1, <1>3, PushTaskIs DEF PushTask, PushTaskTo, Claiming
<1>5. QED BY <1>1, <1>2, <1>4, PushGoesOn, PushTaskIs

(* A job that goes on without a claim.                                     *)
LEMMA PushLeaves ==
    ASSUME PushInv, NEW j \in PushJobs, pushWork' \in [PushJobs -> PushTask \cup PushTaskTo],
           pushWork'[j].pc \in {"queued", "failed"},
           \A o \in PushJobs : o # j => pushWork'[o] = pushWork[o],
           UNCHANGED <<pushKinds, subscribed, deliveries, shownTimes>>,
           MayMiss \/ pushWork[j].pc \notin Claiming
    PROVE  PushInv'
<1>1. PushRows' BY DEF PushInv, PushRows
<1>2. MayRepeat' = MayRepeat /\ MayMiss' = MayMiss BY DEF MayRepeat, MayMiss
<1>3. ASSUME ShownAtMostOnce PROVE ShownAtMostOnce'
  BY <1>3 DEF ShownAtMostOnce, Handles, Unclaimed
<1>4. ASSUME ShownAtLeastOnce, pushWork[j].pc \notin Claiming PROVE ShownAtLeastOnce'
  <2>1. \A o \in PushJobs, d \in Devices : Handles(o, d) => Handles(o, d)'
    BY <1>4 DEF Handles, Claiming
  <2>2. \A o \in PushJobs : Running(o)' => Running(o) /\ o # j BY DEF Running
  <2>3. \A d \in subscribed' : d \in Devices /\ (ShownBefore(d)' <=> ShownBefore(d))
    BY DEF PushInv, PushRows, ShownBefore
  <2>4. \A i, o \in PushJobs : Running(i)' /\ Running(o)' => i = o
    BY <1>4, <2>2 DEF ShownAtLeastOnce
  <2>5. ASSUME NEW o \in PushJobs, NEW d \in subscribed'
        PROVE  /\ pushWork'[o].pc \in {"next", "send", "mark"} =>
                     d \in pushWork'[o].todo \/ ShownBefore(d)'
               /\ pushWork'[o].pc = "done" => ShownBefore(d)'
               /\ pushWork'[o].pc = "mark" /\ Handles(o, d)' => ShownBefore(d)'
    BY <1>4, <2>3 DEF ShownAtLeastOnce, Handles
  <2>6. ASSUME NEW d \in subscribed', deliveries'[d] # "none"
        PROVE  ShownBefore(d)' \/ \E o \in PushJobs : Handles(o, d)'
    BY <1>4, <2>1, <2>3, <2>6 DEF ShownAtLeastOnce
  <2>7. QED BY <2>4, <2>5, <2>6 DEF ShownAtLeastOnce
<1>5. QED BY <1>1, <1>2, <1>3, <1>4 DEF PushInv

LEMMA PushThrows ==
    ASSUME PushInv, NEW j \in PushJobs, Thrown(j),
           UNCHANGED <<subscribed, deliveries, shownTimes>>,
           MayMiss \/ pushWork[j].pc \notin Claiming
    PROVE  PushInv'
<1>1. PICK pc \in {"queued", "failed"} : PushTo(j, pc) BY DEF Thrown
<1>2. /\ pushWork' \in [PushJobs -> PushTask \cup PushTaskTo] /\ pushWork'[j].pc = pc
      /\ \A o \in PushJobs : o # j => pushWork'[o] = pushWork[o]
      /\ pushKinds' = pushKinds
  BY <1>1, PushMoves DEF PushInv, PushPcs, Claiming
<1>3. QED BY <1>1, <1>2, PushLeaves

LEMMA QueueKeeps ==
    ASSUME PushInv, NEW j \in PushJobs, PushQueue(j) PROVE PushInv'
<1>1. /\ pushWork' \in [PushJobs -> PushTask \cup PushTaskTo] /\ pushWork'[j].pc = "queued"
      /\ \A o \in PushJobs : o # j => pushWork'[o] = pushWork[o]
      /\ pushKinds' = pushKinds
  BY PushMoves DEF PushQueue, PushInv, PushPcs, Claiming
<1>2. QED BY <1>1, PushLeaves DEF PushQueue, Claiming

LEMMA CrashKeeps ==
    ASSUME PushInv, NEW j \in PushJobs, PushCrash(j) PROVE PushInv'
BY PushThrows DEF PushCrash, MayMiss

(* A job that starts finds all of its browsers to be told.                 *)
LEMMA StartKeeps ==
    ASSUME PushInv, NEW j \in PushJobs, PushStart(j) PROVE PushInv'
<1>1. PICK x : x = [pc |-> IF subscribed = {} THEN "done" ELSE "next", todo |-> subscribed,
                    tries |-> pushWork[j].tries + 1]
  OBVIOUS
<1>2. x \in PushTask /\ x.pc = (IF subscribed = {} THEN "done" ELSE "next")
      /\ x.todo = subscribed
  BY <1>1, PushTaskIs DEF PushInv, PushRows, PushTask, PushPcs
<1>3. /\ pushWork' \in [PushJobs -> PushTask \cup PushTaskTo]
      /\ pushWork'[j] = x /\ \A o \in PushJobs : o # j => pushWork'[o] = pushWork[o]
      /\ pushKinds' = pushKinds /\ pushWork[j].pc = "queued"
      /\ UNCHANGED <<subscribed, deliveries, shownTimes>>
      /\ "expire" \in pushKinds \/ \A i \in PushJobs : ~Running(i)
  BY <1>1, <1>2, PushGoesOn DEF PushStart, PushInv
<1>4. PushRows' BY <1>3 DEF PushInv, PushRows
<1>5. MayRepeat' = MayRepeat /\ MayMiss' = MayMiss BY <1>3 DEF MayRepeat, MayMiss
<1>6. ASSUME ShownAtMostOnce PROVE ShownAtMostOnce'
  BY <1>2, <1>3, <1>6 DEF ShownAtMostOnce, Handles, Unclaimed
<1>7. ASSUME ShownAtLeastOnce, ~MayMiss PROVE ShownAtLeastOnce'
  <2>1. \A o \in PushJobs, d \in Devices : Handles(o, d) <=> Handles(o, d)'
    BY <1>2, <1>3 DEF Handles
  <2>2. \A o \in PushJobs : Running(o)' => o = j BY <1>3, <1>7 DEF Running, MayMiss
  <2>3. \A d \in subscribed' : d \in Devices /\ (ShownBefore(d)' <=> ShownBefore(d))
    BY <1>3 DEF PushInv, PushRows, ShownBefore
  <2>4. ASSUME NEW o \in PushJobs, NEW d \in subscribed'
        PROVE  /\ pushWork'[o].pc \in {"next", "send", "mark"} =>
                     d \in pushWork'[o].todo \/ ShownBefore(d)'
               /\ pushWork'[o].pc = "done" => ShownBefore(d)'
               /\ pushWork'[o].pc = "mark" /\ Handles(o, d)' => ShownBefore(d)'
    <3>1. CASE o = j BY <1>2, <1>3, <3>1
    <3>2. CASE o # j BY <1>3, <1>7, <2>1, <2>3, <3>2 DEF ShownAtLeastOnce
    <3>3. QED BY <3>1, <3>2
  <2>5. ASSUME NEW d \in subscribed', deliveries'[d] # "none"
        PROVE  ShownBefore(d)' \/ \E o \in PushJobs : Handles(o, d)'
    BY <1>3, <1>7, <2>1, <2>3, <2>5 DEF ShownAtLeastOnce
  <2>6. QED BY <2>2, <2>4, <2>5 DEF ShownAtLeastOnce
<1>8. QED BY <1>4, <1>5, <1>6, <1>7 DEF PushInv

(* What is claimed was claimed by nobody, and so shown by nobody that it   *)
(* is known of.                                                            *)
LEMMA ShowClaimKeeps ==
    ASSUME PushInv, NEW j \in PushJobs, NEW d \in Devices, PushClaim(j, d) PROVE PushInv'
<1>p. pushWork[j].pc = "next" /\ d \in pushWork[j].todo /\ pushWork[j] \in PushTask \cup PushTaskTo
  BY DEF PushClaim, PushInv, PushRows
<1>1. CASE d \notin subscribed
  BY <1>p, <1>1, PushThrows DEF PushClaim, Claiming
<1>2. CASE d \in subscribed /\ deliveries[d] # "none"
  <2>1. PICK t, x : t = pushWork[j] /\ x = [t EXCEPT !.todo = @ \ {d}] OBVIOUS
  <2>2. PushGoes(j, x) /\ UNCHANGED <<subscribed, deliveries, shownTimes>>
    BY <1>2, <2>1 DEF PushClaim
  <2>3. x \in PushTask \cup PushTaskTo /\ x.pc = "next" /\ x.todo = t.todo \ {d}
    BY <1>p, <2>1 DEF PushTask, PushTaskTo
  <2>4. /\ pushWork' \in [PushJobs -> PushTask \cup PushTaskTo]
        /\ pushWork'[j] = x /\ \A o \in PushJobs : o # j => pushWork'[o] = pushWork[o]
        /\ pushKinds' = pushKinds
    BY <2>2, <2>3, PushGoesOn DEF PushInv
  <2>5. PushRows' BY <2>2, <2>4 DEF PushInv, PushRows
  <2>6. MayRepeat' = MayRepeat /\ MayMiss' = MayMiss BY <2>4 DEF MayRepeat, MayMiss
  <2>7. ASSUME ShownAtMostOnce PROVE ShownAtMostOnce'
    BY <2>2, <2>3, <2>4, <2>7 DEF ShownAtMostOnce, Handles, Unclaimed
  <2>8. ASSUME ShownAtLeastOnce PROVE ShownAtLeastOnce'
    <3>1. \A o \in PushJobs, c \in Devices : Handles(o, c) <=> Handles(o, c)'
      BY <1>p, <2>3, <2>4 DEF Handles
    <3>2. \A o \in PushJobs : Running(o)' <=> Running(o) BY <1>p, <2>3, <2>4 DEF Running
    <3>3. \A c \in subscribed' : c \in Devices /\ (ShownBefore(c)' <=> ShownBefore(c))
      BY <2>2 DEF PushInv, PushRows, ShownBefore
    <3>4. ShownBefore(d)
      <4>1. PICK o \in PushJobs : ShownBefore(d) \/ Handles(o, d)
        BY <1>2, <2>8 DEF ShownAtLeastOnce
      <4>2. Handles(o, d) => Running(o) /\ Running(j) /\ o # j BY <1>p DEF Handles, Running
      <4>3. QED BY <4>1, <4>2, <2>8 DEF ShownAtLeastOnce
    <3>5. ASSUME NEW o \in PushJobs, NEW c \in subscribed'
          PROVE  /\ pushWork'[o].pc \in {"next", "send", "mark"} =>
                       c \in pushWork'[o].todo \/ ShownBefore(c)'
                 /\ pushWork'[o].pc = "done" => ShownBefore(c)'
                 /\ pushWork'[o].pc = "mark" /\ Handles(o, c)' => ShownBefore(c)'
      <4>1. CASE o = j
        <5>1. c \in pushWork[j].todo \/ ShownBefore(c)
          BY <1>p, <2>2, <2>8 DEF ShownAtLeastOnce
        <5>2. QED BY <2>1, <2>3, <2>4, <3>3, <3>4, <4>1, <5>1
      <4>2. CASE o # j BY <2>2, <2>4, <2>8, <3>1, <3>3, <4>2 DEF ShownAtLeastOnce
      <4>3. QED BY <4>1, <4>2
    <3>6. ASSUME NEW c \in subscribed', deliveries'[c] # "none"
          PROVE  ShownBefore(c)' \/ \E o \in PushJobs : Handles(o, c)'
      BY <2>2, <2>8, <3>1, <3>3, <3>6 DEF ShownAtLeastOnce
    <3>7. QED BY <2>8, <3>2, <3>5, <3>6 DEF ShownAtLeastOnce
  <2>9. QED BY <2>5, <2>6, <2>7, <2>8 DEF PushInv
<1>3. CASE d \in subscribed /\ deliveries[d] = "none"
  <2>1. PICK x : x = [pc |-> "send", todo |-> pushWork[j].todo, tries |-> pushWork[j].tries,
                      to |-> d]
    OBVIOUS
  <2>2. /\ PushGoes(j, x) /\ UNCHANGED <<subscribed, shownTimes>>
        /\ deliveries' = [deliveries EXCEPT ![d] = "claimed"]
    BY <1>3, <2>1 DEF PushClaim
  <2>3. x \in PushTaskTo /\ x.pc = "send" /\ x.todo = pushWork[j].todo /\ x.to = d
    BY <2>1, PushTaskIs DEF PushTaskTo, PushPcs, PushInv
  <2>4. /\ pushWork' \in [PushJobs -> PushTask \cup PushTaskTo]
        /\ pushWork'[j] = x /\ \A o \in PushJobs : o # j => pushWork'[o] = pushWork[o]
        /\ pushKinds' = pushKinds
    BY <2>2, <2>3, PushGoesOn DEF PushInv
  <2>5. /\ deliveries' \in [Devices -> {"none", "claimed", "delivered"}]
        /\ deliveries'[d] = "claimed"
        /\ \A c \in Devices \ {d} : deliveries'[c] = deliveries[c]
    BY <2>2 DEF PushInv, PushRows
  <2>6. PushRows' BY <2>2, <2>4, <2>5 DEF PushInv, PushRows
  <2>7. MayRepeat' = MayRepeat /\ MayMiss' = MayMiss BY <2>4 DEF MayRepeat, MayMiss
  <2>h. /\ Handles(j, d)' /\ \A c \in Devices : Handles(j, c)' => c = d
        /\ \A o \in PushJobs, c \in Devices : o # j => (Handles(o, c) <=> Handles(o, c)')
        /\ \A c \in Devices : ~Handles(j, c)
    BY <1>p, <2>3, <2>4 DEF Handles
  <2>8. ASSUME ShownAtMostOnce PROVE ShownAtMostOnce'
    <3>1. shownTimes[d] = 0 /\ \A o \in PushJobs : ~Handles(o, d)
      <4>1. Unclaimed(d) BY <1>3 DEF Unclaimed
      <4>2. shownTimes[d] \in Nat /\ shownTimes[d] <= 1 /\ shownTimes[d] # 1
        BY <2>8, <4>1 DEF ShownAtMostOnce, PushInv, PushRows
      <4>3. QED BY <2>8, <4>1, <4>2 DEF ShownAtMostOnce
    <3>2. ASSUME NEW c \in Devices
          PROVE  /\ shownTimes'[c] <= 1
                 /\ shownTimes'[c] = 1 => ~Unclaimed(c)'
                 /\ \A o \in PushJobs : Handles(o, c)' =>
                       /\ ~Unclaimed(c)'
                       /\ pushWork'[o].pc # "mark" => shownTimes'[c] = 0
                       /\ \A i \in PushJobs : Handles(i, c)' => i = o
      <4>1. CASE c = d BY <2>2, <2>5, <2>8, <2>h, <3>1, <4>1 DEF ShownAtMostOnce, Unclaimed
      <4>2. CASE c # d
        <5>1. Unclaimed(c)' <=> Unclaimed(c) BY <2>2, <2>5, <4>2 DEF Unclaimed
        <5>2. QED BY <2>2, <2>4, <2>8, <2>h, <4>2, <5>1 DEF ShownAtMostOnce
      <4>3. QED BY <4>1, <4>2
    <3>3. QED BY <3>2 DEF ShownAtMostOnce
  <2>9. ASSUME ShownAtLeastOnce PROVE ShownAtLeastOnce'
    <3>1. \A o \in PushJobs : Running(o)' <=> Running(o) BY <1>p, <2>3, <2>4 DEF Running
    <3>2. \A c \in subscribed' : c \in Devices /\ (ShownBefore(c)' <=> ShownBefore(c))
      BY <2>2 DEF PushInv, PushRows, ShownBefore
    <3>3. ASSUME NEW o \in PushJobs, NEW c \in subscribed'
          PROVE  /\ pushWork'[o].pc \in {"next", "send", "mark"} =>
                       c \in pushWork'[o].todo \/ ShownBefore(c)'
                 /\ pushWork'[o].pc = "done" => ShownBefore(c)'
                 /\ pushWork'[o].pc = "mark" /\ Handles(o, c)' => ShownBefore(c)'
      <4>1. CASE o = j BY <1>p, <2>2, <2>3, <2>4, <2>9, <3>2, <4>1 DEF ShownAtLeastOnce
      <4>2. CASE o # j BY <2>2, <2>4, <2>9, <2>h, <3>2, <4>2 DEF ShownAtLeastOnce
      <4>3. QED BY <4>1, <4>2
    <3>4. ASSUME NEW c \in subscribed', deliveries'[c] # "none"
          PROVE  ShownBefore(c)' \/ \E o \in PushJobs : Handles(o, c)'
      <4>1. CASE c = d BY <2>h, <4>1
      <4>2. CASE c # d
        BY <2>2, <2>5, <2>9, <2>h, <3>2, <3>4, <4>2 DEF ShownAtLeastOnce
      <4>3. QED BY <4>1, <4>2
    <3>5. QED BY <2>9, <3>1, <3>3, <3>4 DEF ShownAtLeastOnce
  <2>10. QED BY <2>6, <2>7, <2>8, <2>9 DEF PushInv
<1>4. QED BY <1>1, <1>2, <1>3

(* The browser that is shown the event is one that was not before.         *)
LEMMA ShownKeeps ==
    ASSUME PushInv, NEW j \in PushJobs, PushShown(j) PROVE PushInv'
<1>1. PICK d : d = pushWork[j].to OBVIOUS
<1>2. pushWork[j].pc = "send" /\ d \in Devices
  BY <1>1, PushTaskIs DEF PushShown, PushInv, Claiming
<1>3. PICK pc \in {"mark", "undo"} : PushTo(j, pc) /\ (pc = "undo" => "lost" \in pushKinds)
  BY DEF PushShown
<1>4. /\ pushWork' \in [PushJobs -> PushTask \cup PushTaskTo]
      /\ pushWork'[j].pc = pc /\ pushWork'[j].todo = pushWork[j].todo /\ pushWork'[j].to = d
      /\ \A o \in PushJobs : o # j => pushWork'[o] = pushWork[o]
      /\ pushKinds' = pushKinds
  BY <1>1, <1>2, <1>3, PushMoves DEF PushPcs, Claiming, PushInv
<1>5. /\ UNCHANGED <<subscribed, deliveries>>
      /\ shownTimes' \in [Devices -> Nat] /\ shownTimes'[d] = shownTimes[d] + 1
      /\ \A c \in Devices \ {d} : shownTimes'[c] = shownTimes[c]
  BY <1>1, <1>2 DEF PushShown, PushInv, PushRows
<1>6. PushRows' BY <1>4, <1>5 DEF PushInv, PushRows
<1>7. MayRepeat' = MayRepeat /\ MayMiss' = MayMiss BY <1>4 DEF MayRepeat, MayMiss
<1>8. \A o \in PushJobs, c \in Devices : Handles(o, c) <=> Handles(o, c)'
  BY <1>1, <1>2, <1>4 DEF Handles
<1>9. ASSUME ShownAtMostOnce, ~MayRepeat PROVE ShownAtMostOnce'
  <2>1. pc = "mark" BY <1>3, <1>9 DEF MayRepeat
  <2>2. Handles(j, d) BY <1>1, <1>2 DEF Handles
  <2>3. shownTimes[d] = 0 /\ ~Unclaimed(d) /\ \A i \in PushJobs : Handles(i, d) => i = j
    BY <1>2, <1>9, <2>2 DEF ShownAtMostOnce
  <2>4. ASSUME NEW c \in Devices
        PROVE  /\ shownTimes'[c] <= 1
               /\ shownTimes'[c] = 1 => ~Unclaimed(c)'
               /\ \A o \in PushJobs : Handles(o, c)' =>
                     /\ ~Unclaimed(c)'
                     /\ pushWork'[o].pc # "mark" => shownTimes'[c] = 0
                     /\ \A i \in PushJobs : Handles(i, c)' => i = o
    <3>1. Unclaimed(c)' <=> Unclaimed(c) BY <1>5 DEF Unclaimed
    <3>2. CASE c = d BY <1>4, <1>5, <1>8, <2>1, <2>3, <3>1, <3>2
    <3>3. CASE c # d
      <4>1. ~Handles(j, c) BY <1>1, <3>3 DEF Handles
      <4>2. QED BY <1>4, <1>5, <1>8, <1>9, <3>1, <3>3, <4>1 DEF ShownAtMostOnce
    <3>4. QED BY <3>2, <3>3
  <2>5. QED BY <2>4 DEF ShownAtMostOnce
<1>10. ASSUME ShownAtLeastOnce PROVE ShownAtLeastOnce'
  <2>1. \A o \in PushJobs : Running(o)' <=> Running(o) BY <1>2, <1>4 DEF Running
  <2>2. \A c \in subscribed' : c \in Devices /\ (ShownBefore(c) => ShownBefore(c)')
    BY <1>5 DEF PushInv, PushRows, ShownBefore
  <2>3. ShownBefore(d)' BY <1>2, <1>5 DEF PushInv, PushRows, ShownBefore
  <2>4. ASSUME NEW o \in PushJobs, NEW c \in subscribed'
        PROVE  /\ pushWork'[o].pc \in {"next", "send", "mark"} =>
                     c \in pushWork'[o].todo \/ ShownBefore(c)'
               /\ pushWork'[o].pc = "done" => ShownBefore(c)'
               /\ pushWork'[o].pc = "mark" /\ Handles(o, c)' => ShownBefore(c)'
    <3>1. CASE o = j
      <4>1. Handles(j, c)' => c = d BY <1>4 DEF Handles
      <4>2. c \in pushWork[j].todo \/ ShownBefore(c)
        BY <1>2, <1>5, <1>10 DEF ShownAtLeastOnce
      <4>3. QED BY <1>3, <1>4, <2>2, <2>3, <3>1, <4>1, <4>2
    <3>2. CASE o # j BY <1>4, <1>5, <1>8, <1>10, <2>2, <3>2 DEF ShownAtLeastOnce
    <3>3. QED BY <3>1, <3>2
  <2>5. ASSUME NEW c \in subscribed', deliveries'[c] # "none"
        PROVE  ShownBefore(c)' \/ \E o \in PushJobs : Handles(o, c)'
    BY <1>5, <1>8, <1>10, <2>2, <2>5 DEF ShownAtLeastOnce
  <2>6. QED BY <1>10, <2>1, <2>4, <2>5 DEF ShownAtLeastOnce
<1>11. QED BY <1>6, <1>7, <1>9, <1>10 DEF PushInv

(* A step that keeps the rows, and the claims.                             *)
LEMMA RefusedKeeps ==
    ASSUME PushInv, NEW j \in PushJobs, NEW pc \in {"undo", "forget"},
           pushWork[j].pc \in {"send", "mark"}, PushTo(j, pc),
           pushWork[j].pc = "mark" => MayRepeat,
           UNCHANGED <<subscribed, deliveries, shownTimes>>
    PROVE  PushInv'
<1>1. /\ pushWork' \in [PushJobs -> PushTask \cup PushTaskTo]
      /\ pushWork'[j].pc = pc /\ pushWork'[j].todo = pushWork[j].todo
      /\ pushWork'[j].to = pushWork[j].to
      /\ \A o \in PushJobs : o # j => pushWork'[o] = pushWork[o]
      /\ pushKinds' = pushKinds
  BY PushMoves DEF PushPcs, Claiming, PushInv
<1>2. PushRows' BY <1>1 DEF PushInv, PushRows
<1>3. MayRepeat' = MayRepeat /\ MayMiss' = MayMiss BY <1>1 DEF MayRepeat, MayMiss
<1>4. \A o \in PushJobs, c \in Devices : Handles(o, c) <=> Handles(o, c)'
  BY <1>1 DEF Handles
<1>5. ASSUME ShownAtMostOnce, ~MayRepeat PROVE ShownAtMostOnce'
  <2>1. \A c \in Devices : Unclaimed(c)' <=> Unclaimed(c) BY DEF Unclaimed
  <2>2. \A o \in PushJobs : pushWork'[o].pc # "mark" => pushWork[o].pc # "mark"
    BY <1>1, <1>5
  <2>3. QED BY <1>4, <1>5, <2>1, <2>2 DEF ShownAtMostOnce
<1>6. ASSUME ShownAtLeastOnce PROVE ShownAtLeastOnce'
  <2>1. \A o \in PushJobs : Running(o)' <=> Running(o) BY <1>1 DEF Running
  <2>2. \A c \in subscribed' : c \in Devices /\ (ShownBefore(c) <=> ShownBefore(c)')
    BY DEF PushInv, PushRows, ShownBefore
  <2>3. ASSUME NEW o \in PushJobs, NEW c \in subscribed'
        PROVE  /\ pushWork'[o].pc \in {"next", "send", "mark"} =>
                     c \in pushWork'[o].todo \/ ShownBefore(c)'
               /\ pushWork'[o].pc = "done" => ShownBefore(c)'
               /\ pushWork'[o].pc = "mark" /\ Handles(o, c)' => ShownBefore(c)'
    <3>1. CASE o = j BY <1>1, <3>1
    <3>2. CASE o # j BY <1>1, <1>4, <1>6, <2>2, <3>2 DEF ShownAtLeastOnce
    <3>3. QED BY <3>1, <3>2
  <2>4. ASSUME NEW c \in subscribed', deliveries'[c] # "none"
        PROVE  ShownBefore(c)' \/ \E o \in PushJobs : Handles(o, c)'
    BY <1>4, <1>6, <2>2, <2>4 DEF ShownAtLeastOnce
  <2>5. QED BY <1>6, <2>1, <2>3, <2>4 DEF ShownAtLeastOnce
<1>7. QED BY <1>2, <1>3, <1>5, <1>6 DEF PushInv

LEMMA MarkKeeps ==
    ASSUME PushInv, NEW j \in PushJobs, PushMark(j) PROVE PushInv'
<1>1. PICK t, d : t = pushWork[j] /\ d = t.to OBVIOUS
<1>2. t.pc = "mark" /\ d \in Devices /\ t.todo \in SUBSET Devices /\ t.tries \in Nat
  BY <1>1, PushTaskIs DEF PushMark, PushInv, Claiming
<1>3. CASE "fault" \in pushKinds /\ PushTo(j, "undo") /\ UNCHANGED deliveries
  BY <1>1, <1>2, <1>3, RefusedKeeps DEF PushMark, MayRepeat
<1>4. CASE /\ PushGoes(j, [pc |-> "next", todo |-> t.todo \ {d}, tries |-> t.tries])
           /\ deliveries' = [deliveries EXCEPT ![d] = IF @ = "none" THEN @ ELSE "delivered"]
  <2>1. PICK x : x = [pc |-> "next", todo |-> t.todo \ {d}, tries |-> t.tries] OBVIOUS
  <2>2. x \in PushTask /\ x.pc = "next" /\ x.todo = t.todo \ {d}
    BY <1>2, <2>1 DEF PushTask, PushPcs
  <2>3. /\ pushWork' \in [PushJobs -> PushTask \cup PushTaskTo]
        /\ pushWork'[j] = x /\ \A o \in PushJobs : o # j => pushWork'[o] = pushWork[o]
        /\ pushKinds' = pushKinds
    BY <1>4, <2>1, <2>2, PushGoesOn DEF PushInv
  <2>4. /\ UNCHANGED <<subscribed, shownTimes>>
        /\ deliveries' \in [Devices -> {"none", "claimed", "delivered"}]
        /\ \A c \in Devices : deliveries'[c] = "none" <=> deliveries[c] = "none"
    BY <1>2, <1>4 DEF PushMark, PushInv, PushRows
  <2>5. PushRows' BY <2>3, <2>4 DEF PushInv, PushRows
  <2>6. MayRepeat' = MayRepeat /\ MayMiss' = MayMiss BY <2>3 DEF MayRepeat, MayMiss
  <2>7. /\ \A c \in Devices : ~Handles(j, c)' /\ (Handles(j, c) => c = d)
        /\ \A o \in PushJobs, c \in Devices : o # j => (Handles(o, c) <=> Handles(o, c)')
    BY <1>1, <2>2, <2>3 DEF Handles
  <2>8. ASSUME ShownAtMostOnce PROVE ShownAtMostOnce'
    <3>1. \A c \in Devices : Unclaimed(c)' <=> Unclaimed(c) BY <2>4 DEF Unclaimed
    <3>2. QED BY <2>3, <2>4, <2>7, <2>8, <3>1 DEF ShownAtMostOnce
  <2>9. ASSUME ShownAtLeastOnce PROVE ShownAtLeastOnce'
    <3>1. \A o \in PushJobs : Running(o)' <=> Running(o) BY <1>1, <1>2, <2>2, <2>3 DEF Running
    <3>2. \A c \in subscribed' : c \in Devices /\ (ShownBefore(c) <=> ShownBefore(c)')
      BY <2>4 DEF PushInv, PushRows, ShownBefore
    <3>3. d \in subscribed => ShownBefore(d)
      BY <1>1, <1>2, <2>9 DEF ShownAtLeastOnce, Handles
    <3>4. ASSUME NEW o \in PushJobs, NEW c \in subscribed'
          PROVE  /\ pushWork'[o].pc \in {"next", "send", "mark"} =>
                       c \in pushWork'[o].todo \/ ShownBefore(c)'
                 /\ pushWork'[o].pc = "done" => ShownBefore(c)'
                 /\ pushWork'[o].pc = "mark" /\ Handles(o, c)' => ShownBefore(c)'
      <4>1. CASE o = j
        <5>1. c \in t.todo \/ ShownBefore(c) BY <1>1, <1>2, <2>4, <2>9 DEF ShownAtLeastOnce
        <5>2. QED BY <2>2, <2>3, <2>4, <3>2, <3>3, <4>1, <5>1
      <4>2. CASE o # j BY <2>3, <2>4, <2>7, <2>9, <3>2, <4>2 DEF ShownAtLeastOnce
      <4>3. QED BY <4>1, <4>2
    <3>5. ASSUME NEW c \in subscribed', deliveries'[c] # "none"
          PROVE  ShownBefore(c)' \/ \E o \in PushJobs : Handles(o, c)'
      <4>1. CASE ShownBefore(c) BY <3>2, <4>1
      <4>2. CASE ~ShownBefore(c)
        <5>1. PICK o \in PushJobs : Handles(o, c)
          BY <2>4, <2>9, <3>2, <3>5, <4>2 DEF ShownAtLeastOnce
        <5>2. o # j BY <2>4, <2>7, <3>2, <3>3, <4>2, <5>1
        <5>3. QED BY <2>7, <3>2, <5>1, <5>2
      <4>3. QED BY <4>1, <4>2
    <3>6. QED BY <2>9, <3>1, <3>4, <3>5 DEF ShownAtLeastOnce
  <2>10. QED BY <2>5, <2>6, <2>8, <2>9 DEF PushInv
<1>5. QED BY <1>1, <1>3, <1>4 DEF PushMark

(* A job that gives its claim back, or loses it with the subscription.     *)
LEMMA GivesBackKeeps ==
    ASSUME PushInv, NEW j \in PushJobs, Thrown(j), NEW d \in Devices, Handles(j, d),
           pushWork[j].pc # "mark", UNCHANGED shownTimes, subscribed' \subseteq subscribed,
           deliveries' = [deliveries EXCEPT ![d] = "none"]
    PROVE  PushInv'
<1>1. PICK pc \in {"queued", "failed"} : PushTo(j, pc) BY DEF Thrown
<1>2. /\ pushWork' \in [PushJobs -> PushTask \cup PushTaskTo] /\ pushWork'[j].pc = pc
      /\ \A o \in PushJobs : o # j => pushWork'[o] = pushWork[o]
      /\ pushKinds' = pushKinds
  BY <1>1, PushMoves DEF PushInv, PushPcs, Claiming
<1>3. /\ deliveries' \in [Devices -> {"none", "claimed", "delivered"}]
      /\ deliveries'[d] = "none"
      /\ \A c \in Devices \ {d} : deliveries'[c] = deliveries[c]
  BY DEF PushInv, PushRows
<1>4. PushRows' BY <1>2, <1>3 DEF PushInv, PushRows
<1>5. MayRepeat' = MayRepeat /\ MayMiss' = MayMiss BY <1>2 DEF MayRepeat, MayMiss
<1>6. /\ \A c \in Devices : ~Handles(j, c)' /\ (Handles(j, c) => c = d)
      /\ \A o \in PushJobs, c \in Devices : o # j => (Handles(o, c) <=> Handles(o, c)')
  BY <1>2 DEF Handles
<1>7. ASSUME ShownAtMostOnce PROVE ShownAtMostOnce'
  <2>1. \A c \in Devices \ {d} : Unclaimed(c)' => Unclaimed(c) BY <1>3 DEF Unclaimed
  <2>2. shownTimes[d] = 0 /\ \A i \in PushJobs : Handles(i, d) => i = j
    BY <1>7 DEF ShownAtMostOnce
  <2>3. ASSUME NEW c \in Devices
        PROVE  /\ shownTimes'[c] <= 1
               /\ shownTimes'[c] = 1 => ~Unclaimed(c)'
               /\ \A o \in PushJobs : Handles(o, c)' =>
                     /\ ~Unclaimed(c)'
                     /\ pushWork'[o].pc # "mark" => shownTimes'[c] = 0
                     /\ \A i \in PushJobs : Handles(i, c)' => i = o
    <3>1. CASE c = d BY <1>6, <1>7, <2>2, <3>1
    <3>2. CASE c # d BY <1>2, <1>6, <1>7, <2>1, <3>2 DEF ShownAtMostOnce
    <3>3. QED BY <3>1, <3>2
  <2>4. QED BY <2>3 DEF ShownAtMostOnce
<1>8. ASSUME ShownAtLeastOnce PROVE ShownAtLeastOnce'
  <2>1. \A o \in PushJobs : Running(o)' => Running(o) BY <1>2 DEF Running
  <2>2. \A c \in subscribed' : c \in Devices /\ c \in subscribed
                               /\ (ShownBefore(c) <=> ShownBefore(c)')
    BY DEF PushInv, PushRows, ShownBefore
  <2>3. ASSUME NEW o \in PushJobs, NEW c \in subscribed'
        PROVE  /\ pushWork'[o].pc \in {"next", "send", "mark"} =>
                     c \in pushWork'[o].todo \/ ShownBefore(c)'
               /\ pushWork'[o].pc = "done" => ShownBefore(c)'
               /\ pushWork'[o].pc = "mark" /\ Handles(o, c)' => ShownBefore(c)'
    <3>1. CASE o = j BY <1>2, <3>1
    <3>2. CASE o # j BY <1>2, <1>6, <1>8, <2>2, <3>2 DEF ShownAtLeastOnce
    <3>3. QED BY <3>1, <3>2
  <2>4. ASSUME NEW c \in subscribed', deliveries'[c] # "none"
        PROVE  ShownBefore(c)' \/ \E o \in PushJobs : Handles(o, c)'
    <3>1. c # d /\ deliveries[c] # "none" BY <1>3, <2>2, <2>4
    <3>2. CASE ShownBefore(c) BY <2>2, <3>2
    <3>3. CASE ~ShownBefore(c)
      <4>1. PICK o \in PushJobs : Handles(o, c) BY <1>8, <2>2, <3>1, <3>3 DEF ShownAtLeastOnce
      <4>2. QED BY <1>6, <2>2, <3>1, <4>1
    <3>4. QED BY <3>2, <3>3
  <2>5. QED BY <1>8, <2>1, <2>3, <2>4 DEF ShownAtLeastOnce
<1>9. QED BY <1>4, <1>5, <1>7, <1>8 DEF PushInv

LEMMA UndoKeeps ==
    ASSUME PushInv, NEW j \in PushJobs, PushUndo(j) PROVE PushInv'
<1>1. CASE "fault" \in pushKinds /\ UNCHANGED deliveries
  BY <1>1, PushThrows DEF PushUndo, MayMiss
<1>2. CASE deliveries' = [deliveries EXCEPT ![pushWork[j].to] = "none"]
  <2>1. PICK d : d = pushWork[j].to OBVIOUS
  <2>2. d \in Devices /\ Handles(j, d) /\ pushWork[j].pc # "mark"
    BY <2>1, PushTaskIs DEF PushUndo, PushInv, Claiming, Handles
  <2>3. QED BY <1>2, <2>1, <2>2, GivesBackKeeps DEF PushUndo
<1>3. QED BY <1>1, <1>2 DEF PushUndo

LEMMA ForgetKeeps ==
    ASSUME PushInv, NEW j \in PushJobs, PushForget(j) PROVE PushInv'
<1>1. PICK d : d = pushWork[j].to OBVIOUS
<1>2. d \in Devices /\ Handles(j, d) /\ pushWork[j].pc # "mark"
  BY <1>1, PushTaskIs DEF PushForget, PushInv, Claiming, Handles
<1>3. QED BY <1>1, <1>2, GivesBackKeeps DEF PushForget, Withdrawn

LEMMA FinishKeeps ==
    ASSUME PushInv, NEW j \in PushJobs, PushFinish(j) PROVE PushInv'
<1>1. /\ pushWork[j].pc = "next" /\ pushWork[j].todo = {}
      /\ pushWork' \in [PushJobs -> PushTask \cup PushTaskTo]
      /\ pushWork'[j].pc = "done"
      /\ \A o \in PushJobs : o # j => pushWork'[o] = pushWork[o]
      /\ UNCHANGED <<pushKinds, subscribed, deliveries, shownTimes>>
  BY PushMoves DEF PushFinish, PushPcs, Claiming, PushInv
<1>2. PushRows' BY <1>1 DEF PushInv, PushRows
<1>3. MayRepeat' = MayRepeat /\ MayMiss' = MayMiss BY <1>1 DEF MayRepeat, MayMiss
<1>4. \A o \in PushJobs, c \in Devices : Handles(o, c) <=> Handles(o, c)'
  BY <1>1 DEF Handles
<1>5. ASSUME ShownAtMostOnce PROVE ShownAtMostOnce'
  <2>1. \A c \in Devices : Unclaimed(c)' <=> Unclaimed(c) BY <1>1 DEF Unclaimed
  <2>2. \A o \in PushJobs, c \in Devices : Handles(o, c) /\ pushWork'[o].pc # "mark"
           => pushWork[o].pc # "mark"
    BY <1>1
  <2>3. QED BY <1>1, <1>4, <1>5, <2>1, <2>2 DEF ShownAtMostOnce
<1>6. ASSUME ShownAtLeastOnce PROVE ShownAtLeastOnce'
  <2>1. \A o \in PushJobs : Running(o)' => Running(o) BY <1>1 DEF Running
  <2>2. \A c \in subscribed' : c \in Devices /\ (ShownBefore(c) <=> ShownBefore(c)')
    BY <1>1 DEF PushInv, PushRows, ShownBefore
  <2>3. ASSUME NEW o \in PushJobs, NEW c \in subscribed'
        PROVE  /\ pushWork'[o].pc \in {"next", "send", "mark"} =>
                     c \in pushWork'[o].todo \/ ShownBefore(c)'
               /\ pushWork'[o].pc = "done" => ShownBefore(c)'
               /\ pushWork'[o].pc = "mark" /\ Handles(o, c)' => ShownBefore(c)'
    <3>1. CASE o = j
      <4>1. ShownBefore(c) BY <1>1, <1>6 DEF ShownAtLeastOnce
      <4>2. QED BY <1>1, <2>2, <3>1, <4>1
    <3>2. CASE o # j BY <1>1, <1>4, <1>6, <2>2, <3>2 DEF ShownAtLeastOnce
    <3>3. QED BY <3>1, <3>2
  <2>4. ASSUME NEW c \in subscribed', deliveries'[c] # "none"
        PROVE  ShownBefore(c)' \/ \E o \in PushJobs : Handles(o, c)'
    BY <1>1, <1>4, <1>6, <2>2, <2>4 DEF ShownAtLeastOnce
  <2>5. QED BY <1>6, <2>1, <2>3, <2>4 DEF ShownAtLeastOnce
<1>7. QED BY <1>2, <1>3, <1>5, <1>6 DEF PushInv

(* The rep turns the alerts of a browser off; its claims go with it.       *)
LEMMA RevokeKeeps ==
    ASSUME PushInv, NEW d \in Devices, Unsubscribe(d) PROVE PushInv'
<1>1. /\ UNCHANGED <<pushKinds, shownTimes, pushWork>>
      /\ subscribed' = subscribed \ {d}
      /\ deliveries' \in [Devices -> {"none", "claimed", "delivered"}]
      /\ deliveries'[d] = "none"
      /\ \A c \in Devices \ {d} : deliveries'[c] = deliveries[c]
  BY DEF Unsubscribe, Withdrawn, PushInv, PushRows
<1>2. PushRows' BY <1>1 DEF PushInv, PushRows
<1>3. MayRepeat' = MayRepeat /\ MayMiss' = MayMiss BY <1>1 DEF MayRepeat, MayMiss
<1>4. /\ \A o \in PushJobs, c \in Devices : Handles(o, c) <=> Handles(o, c)'
      /\ \A o \in PushJobs : Running(o)' <=> Running(o)
  BY <1>1 DEF Handles, Running
<1>5. ASSUME ShownAtMostOnce PROVE ShownAtMostOnce'
  <2>1. \A c \in Devices : Unclaimed(c)' => Unclaimed(c) BY <1>1 DEF Unclaimed
  <2>2. QED BY <1>1, <1>4, <1>5, <2>1 DEF ShownAtMostOnce
<1>6. ASSUME ShownAtLeastOnce PROVE ShownAtLeastOnce'
  <2>1. \A c \in subscribed' : c \in subscribed /\ c \in Devices /\ c # d
                               /\ (ShownBefore(c) <=> ShownBefore(c)')
    BY <1>1 DEF PushInv, PushRows, ShownBefore
  <2>2. ASSUME NEW c \in subscribed', deliveries'[c] # "none"
        PROVE  ShownBefore(c)' \/ \E o \in PushJobs : Handles(o, c)'
    BY <1>1, <1>4, <1>6, <2>1, <2>2 DEF ShownAtLeastOnce
  <2>3. QED BY <1>1, <1>4, <1>6, <2>1, <2>2 DEF ShownAtLeastOnce
<1>7. QED BY <1>2, <1>3, <1>5, <1>6 DEF PushInv

-----------------------------------------------------------------------------
LEMMA PushStarts ==
    ASSUME PushInit PROVE PushInv
<1>1. /\ \A j \in PushJobs : pushWork[j].pc = "absent"
      /\ \A d \in Devices : deliveries[d] = "none" /\ shownTimes[d] = 0
      /\ subscribed = Devices
  BY DEF PushInit
<1>2. PushRows BY DEF PushInit, PushRows, PushTask, PushPcs
<1>3. QED
  BY <1>1, <1>2
  DEF PushInv, ShownAtMostOnce, ShownAtLeastOnce, Handles, Running, Unclaimed

LEMMA PushStep ==
    ASSUME PushInv, [PushNext]_pushVars PROVE PushInv'
<1>1. CASE UNCHANGED pushVars
  BY <1>1 DEF pushVars, PushInv, PushRows, MayRepeat, MayMiss, ShownAtMostOnce,
     ShownAtLeastOnce, Handles, Unclaimed, Running, ShownBefore
<1>2. ASSUME NEW j \in PushJobs, PushRefused(j) PROVE PushInv'
  BY <1>2, RefusedKeeps DEF PushRefused
<1>3. ASSUME NEW j \in PushJobs,
             \/ PushQueue(j) \/ PushStart(j) \/ PushShown(j) \/ PushRefused(j)
             \/ PushMark(j) \/ PushUndo(j) \/ PushForget(j) \/ PushFinish(j) \/ PushCrash(j)
             \/ \E d \in Devices : PushClaim(j, d)
      PROVE  PushInv'
  BY <1>2, <1>3, QueueKeeps, StartKeeps, ShownKeeps, MarkKeeps, UndoKeeps, ForgetKeeps,
     FinishKeeps, CrashKeeps, ShowClaimKeeps
<1>4. QED BY <1>1, <1>3, RevokeKeeps DEF PushNext

(* Whatever callbacks are repeated and whatever is delivered again, no     *)
(* browser shows the event of a call twice unless an answer is lost, and a *)
(* job that is done leaves none without it unless a claim outlived its     *)
(* worker (callWebPush.ts:24-39).                                          *)
THEOREM EachBrowserIsToldOnce == PushSpec => []PushedOnce
<1>1. PushInv => PushedOnce
  <2>1. ASSUME PushInv, NEW d \in Devices
        PROVE  /\ {"lost", "fault"} \cap pushKinds = {} => shownTimes[d] <= 1
               /\ {"crash", "fault", "expire"} \cap pushKinds = {} /\ d \in subscribed
                  /\ (\E j \in PushJobs : pushWork[j].pc = "done") => shownTimes[d] >= 1
    BY <2>1 DEF PushInv, MayRepeat, MayMiss, ShownAtMostOnce, ShownAtLeastOnce, ShownBefore
  <2>2. QED BY <2>1 DEF PushedOnce
<1>2. PushInv /\ [PushNext]_pushVars => PushInv' BY PushStep
<1>3. QED BY <1>1, <1>2, PushStarts, PTL DEF PushSpec

-----------------------------------------------------------------------------
(* How often an event may be shown: once by each delivery of each job.     *)

(* A delivery that has not shown the event to a browser yet, and may.      *)
MayShow(j, d) ==
    /\ d \in pushWork[j].todo
    /\ pushWork[j].pc \in {"next", "send"} \/ (pushWork[j].pc = "mark" /\ pushWork[j].to # d)
(* The deliveries that had their chance.                                   *)
Past(d) ==
    {r \in PushJobs \X (1..MaxDeliveries) :
        \/ r[2] < pushWork[r[1]].tries
        \/ r[2] = pushWork[r[1]].tries /\ ~MayShow(r[1], d)}
JobFits(tasks) ==
    /\ tasks.tries \in 0..MaxDeliveries
    /\ tasks.pc = "absent" => tasks.tries = 0
    /\ tasks.pc = "queued" => tasks.tries < MaxDeliveries
    /\ tasks.pc \in {"next", "send", "mark", "undo", "forget"} => tasks.tries >= 1
    /\ tasks.pc \in {"send", "mark"} => tasks.to \in tasks.todo
RoundsInv ==
    /\ PushInv
    /\ \A j \in PushJobs : JobFits(pushWork[j])
    /\ \A d \in Devices : shownTimes[d] <= Cardinality(Past(d))

LEMMA RoundsAreFinite ==
    ASSUME PushConstants, NEW S \in SUBSET (PushJobs \X (1..MaxDeliveries))
    PROVE  /\ IsFiniteSet(S) /\ Cardinality(S) \in Nat
           /\ Cardinality(S) \in 0..MaxDeliveries * Cardinality(PushJobs)
<1>1. /\ IsFiniteSet(1..MaxDeliveries) /\ Cardinality(1..MaxDeliveries) = MaxDeliveries
      /\ Cardinality(PushJobs) \in Nat /\ MaxDeliveries \in Nat
  <2>1. MaxDeliveries \in Nat /\ MaxDeliveries >= 1 BY DEF PushConstants
  <2>2. IsFiniteSet(1..MaxDeliveries) /\ Cardinality(1..MaxDeliveries) = MaxDeliveries
    BY <2>1, FS_Interval
  <2>3. QED BY <2>1, <2>2, FS_CardinalityType DEF PushConstants
<1>2. /\ IsFiniteSet(PushJobs \X (1..MaxDeliveries))
      /\ Cardinality(PushJobs \X (1..MaxDeliveries)) = Cardinality(PushJobs) * MaxDeliveries
  BY <1>1, FS_Product DEF PushConstants
<1>3. IsFiniteSet(S) /\ Cardinality(S) <= Cardinality(PushJobs \X (1..MaxDeliveries))
  BY <1>2, FS_Subset
<1>4. Cardinality(S) \in Nat BY <1>3, FS_CardinalityType
<1>5. /\ Cardinality(PushJobs) * MaxDeliveries = MaxDeliveries * Cardinality(PushJobs)
      /\ MaxDeliveries * Cardinality(PushJobs) \in Nat
  BY <1>1
<1>6. QED BY <1>2, <1>3, <1>4, <1>5

LEMMA PastIsOfRounds ==
    ASSUME NEW d
    PROVE  /\ Past(d) \in SUBSET (PushJobs \X (1..MaxDeliveries))
           /\ Past(d)' \in SUBSET (PushJobs \X (1..MaxDeliveries))
BY DEF Past

(* A job that goes on gets no chance back.                                 *)
LEMMA RoundsGoOn ==
    ASSUME PushConstants, RoundsInv, PushInv', NEW j \in PushJobs, JobFits(pushWork[j])',
           \A o \in PushJobs : o # j => pushWork'[o] = pushWork[o],
           \/ pushWork'[j].tries = pushWork[j].tries + 1
           \/ /\ pushWork'[j].tries = pushWork[j].tries
              /\ \A d \in Devices : MayShow(j, d)' => MayShow(j, d)
    PROVE  /\ \A o \in PushJobs : JobFits(pushWork[o])'
           /\ \A d \in Devices : Past(d) \subseteq Past(d)'
           /\ shownTimes' = shownTimes => RoundsInv'
<1>1. \A o \in PushJobs : JobFits(pushWork[o])'
  <2>1. ASSUME NEW o \in PushJobs, o # j PROVE JobFits(pushWork[o])'
    <3>1. JobFits(pushWork[o]) /\ pushWork'[o] = pushWork[o] BY <2>1 DEF RoundsInv
    <3>2. QED BY <3>1 DEF JobFits
  <2>2. QED BY <2>1
<1>2. ASSUME NEW d \in Devices, NEW r \in Past(d) PROVE r \in Past(d)'
  <2>1. /\ r \in PushJobs \X (1..MaxDeliveries) /\ r[1] \in PushJobs /\ r[2] \in Nat
        /\ r[2] < pushWork[r[1]].tries \/ (r[2] = pushWork[r[1]].tries /\ ~MayShow(r[1], d))
    BY <1>2 DEF Past, PushConstants
  <2>2. CASE r[1] # j
    <3>1. pushWork'[r[1]] = pushWork[r[1]] BY <2>1, <2>2
    <3>2. MayShow(r[1], d)' <=> MayShow(r[1], d) BY <3>1 DEF MayShow
    <3>3. QED BY <2>1, <3>1, <3>2 DEF Past
  <2>3. CASE r[1] = j
    <3>1. pushWork[j].tries \in Nat BY DEF RoundsInv, JobFits
    <3>2. CASE pushWork'[j].tries = pushWork[j].tries + 1
      <4>1. r[2] < pushWork'[r[1]].tries BY <2>1, <2>3, <3>1, <3>2
      <4>2. QED BY <2>1, <4>1 DEF Past
    <3>3. CASE /\ pushWork'[j].tries = pushWork[j].tries
               /\ \A c \in Devices : MayShow(j, c)' => MayShow(j, c)
      <4>1. r[2] < pushWork'[r[1]].tries \/ (r[2] = pushWork'[r[1]].tries /\ ~MayShow(r[1], d)')
        BY <2>1, <2>3, <3>3
      <4>2. QED BY <2>1, <4>1 DEF Past
    <3>4. QED BY <3>2, <3>3
  <2>4. QED BY <2>2, <2>3
<1>3. ASSUME shownTimes' = shownTimes, NEW d \in Devices
      PROVE  shownTimes'[d] <= Cardinality(Past(d)')
  <2>1. PICK old, new : old = Past(d) /\ new = Past(d)' OBVIOUS
  <2>2. /\ IsFiniteSet(new) /\ Cardinality(new) \in Nat /\ Cardinality(old) \in Nat
    BY <2>1, PastIsOfRounds, RoundsAreFinite
  <2>3. old \in SUBSET new BY <1>2, <2>1
  <2>4. Cardinality(old) <= Cardinality(new) BY <2>2, <2>3, FS_Subset
  <2>5. shownTimes[d] \in Nat /\ shownTimes[d] <= Cardinality(old)
    BY <2>1 DEF RoundsInv, PushInv, PushRows
  <2>6. QED BY <1>3, <2>1, <2>2, <2>4, <2>5
<1>4. QED BY <1>1, <1>2, <1>3 DEF RoundsInv

LEMMA ThrownRounds ==
    ASSUME PushConstants, RoundsInv, PushInv', NEW j \in PushJobs, Thrown(j), UNCHANGED shownTimes
    PROVE  RoundsInv'
<1>1. PICK pc \in {"queued", "failed"} :
         PushTo(j, pc) /\ (pc = "queued" => pushWork[j].tries < MaxDeliveries)
  BY DEF Thrown
<1>2. /\ pushWork'[j].pc = pc /\ pushWork'[j].tries = pushWork[j].tries
      /\ \A o \in PushJobs : o # j => pushWork'[o] = pushWork[o]
  BY <1>1, PushMoves DEF RoundsInv, PushInv, PushPcs, Claiming
<1>3. JobFits(pushWork[j])' BY <1>1, <1>2 DEF RoundsInv, JobFits
<1>4. \A d \in Devices : ~MayShow(j, d)' BY <1>2 DEF MayShow
<1>5. QED BY <1>2, <1>3, <1>4, RoundsGoOn

LEMMA MovedRounds ==
    ASSUME PushConstants, RoundsInv, PushInv', NEW j \in PushJobs,
           PushQueue(j) \/ PushRefused(j) \/ PushFinish(j) \/ (PushMark(j) /\ PushTo(j, "undo"))
    PROVE  RoundsInv'
<1>1. PICK pc \in {"queued", "undo", "forget", "done"} :
         /\ PushTo(j, pc) /\ UNCHANGED shownTimes
         /\ \/ pc = "queued" /\ pushWork[j].pc = "absent"
            \/ pc \in {"undo", "forget"} /\ pushWork[j].pc \in {"send", "mark"}
            \/ pc = "done"
  BY DEF PushQueue, PushRefused, PushFinish, PushMark
<1>2. /\ pushWork'[j].pc = pc /\ pushWork'[j].tries = pushWork[j].tries
      /\ \A o \in PushJobs : o # j => pushWork'[o] = pushWork[o]
  BY <1>1, PushMoves DEF RoundsInv, PushInv, PushPcs, Claiming
<1>3. JobFits(pushWork[j])' BY <1>1, <1>2 DEF RoundsInv, JobFits, PushConstants
<1>4. \A d \in Devices : ~MayShow(j, d)' BY <1>2 DEF MayShow
<1>5. QED BY <1>1, <1>2, <1>3, <1>4, RoundsGoOn

LEMMA StartedRounds ==
    ASSUME PushConstants, RoundsInv, PushInv', NEW j \in PushJobs, PushStart(j)
    PROVE  RoundsInv'
<1>1. /\ pushWork' = [pushWork EXCEPT ![j] =
             [pc |-> IF subscribed = {} THEN "done" ELSE "next", todo |-> subscribed,
              tries |-> pushWork[j].tries + 1]]
      /\ pushWork[j].pc = "queued" /\ UNCHANGED shownTimes
  BY DEF PushStart, PushGoes
<1>2. /\ pushWork'[j] = [pc |-> IF subscribed = {} THEN "done" ELSE "next", todo |-> subscribed,
                         tries |-> pushWork[j].tries + 1]
      /\ \A o \in PushJobs : o # j => pushWork'[o] = pushWork[o]
  BY <1>1 DEF RoundsInv, PushInv, PushRows
<1>3. pushWork[j].tries \in 0..MaxDeliveries /\ pushWork[j].tries < MaxDeliveries
  BY <1>1 DEF RoundsInv, JobFits
<1>4. JobFits(pushWork[j])' BY <1>2, <1>3 DEF JobFits, PushConstants
<1>5. QED BY <1>1, <1>2, <1>4, RoundsGoOn

LEMMA ClaimedRounds ==
    ASSUME PushConstants, RoundsInv, PushInv', NEW j \in PushJobs, NEW d \in Devices, PushClaim(j, d)
    PROVE  RoundsInv'
<1>1. /\ pushWork[j].pc = "next" /\ d \in pushWork[j].todo /\ UNCHANGED shownTimes
      /\ JobFits(pushWork[j]) /\ pushWork[j] \in PushTask \cup PushTaskTo
  BY DEF PushClaim, RoundsInv, PushInv, PushRows
<1>2. CASE Thrown(j) BY <1>1, <1>2, ThrownRounds
<1>3. CASE PushGoes(j, [pushWork[j] EXCEPT !.todo = @ \ {d}])
  <2>1. /\ pushWork'[j] = [pushWork[j] EXCEPT !.todo = @ \ {d}]
        /\ \A o \in PushJobs : o # j => pushWork'[o] = pushWork[o]
    BY <1>3 DEF PushGoes, RoundsInv, PushInv, PushRows
  <2>2. /\ pushWork'[j].pc = "next" /\ pushWork'[j].tries = pushWork[j].tries
        /\ pushWork'[j].todo \subseteq pushWork[j].todo
    BY <1>1, <2>1 DEF PushTask, PushTaskTo
  <2>3. JobFits(pushWork[j])' BY <1>1, <2>2 DEF JobFits
  <2>4. \A c \in Devices : MayShow(j, c)' => MayShow(j, c) BY <1>1, <2>2 DEF MayShow
  <2>5. QED BY <1>1, <2>1, <2>2, <2>3, <2>4, RoundsGoOn
<1>4. CASE PushGoes(j, [pc |-> "send", todo |-> pushWork[j].todo, tries |-> pushWork[j].tries,
                        to |-> d])
  <2>1. /\ pushWork'[j] = [pc |-> "send", todo |-> pushWork[j].todo,
                           tries |-> pushWork[j].tries, to |-> d]
        /\ \A o \in PushJobs : o # j => pushWork'[o] = pushWork[o]
    BY <1>4 DEF PushGoes, RoundsInv, PushInv, PushRows
  <2>2. JobFits(pushWork[j])' BY <1>1, <2>1 DEF JobFits
  <2>3. \A c \in Devices : MayShow(j, c)' => MayShow(j, c) BY <1>1, <2>1 DEF MayShow
  <2>4. QED BY <1>1, <2>1, <2>2, <2>3, RoundsGoOn
<1>5. QED BY <1>2, <1>3, <1>4 DEF PushClaim

LEMMA MarkedRounds ==
    ASSUME PushConstants, RoundsInv, PushInv', NEW j \in PushJobs, PushMark(j)
    PROVE  RoundsInv'
<1>1. /\ pushWork[j].pc = "mark" /\ UNCHANGED shownTimes /\ JobFits(pushWork[j])
  BY DEF PushMark, RoundsInv
<1>2. CASE PushGoes(j, [pc |-> "next", todo |-> pushWork[j].todo \ {pushWork[j].to},
                        tries |-> pushWork[j].tries])
  <2>1. /\ pushWork'[j] = [pc |-> "next", todo |-> pushWork[j].todo \ {pushWork[j].to},
                           tries |-> pushWork[j].tries]
        /\ \A o \in PushJobs : o # j => pushWork'[o] = pushWork[o]
    BY <1>2 DEF PushGoes, RoundsInv, PushInv, PushRows
  <2>2. JobFits(pushWork[j])' BY <1>1, <2>1 DEF JobFits
  <2>3. \A c \in Devices : MayShow(j, c)' => MayShow(j, c) BY <1>1, <2>1 DEF MayShow
  <2>4. QED BY <1>1, <2>1, <2>2, <2>3, RoundsGoOn
<1>3. CASE PushTo(j, "undo") BY <1>3, MovedRounds
<1>4. QED BY <1>2, <1>3 DEF PushMark

(* A browser is shown the event by a delivery that had the chance, and has *)
(* it no more.                                                             *)
LEMMA ShownRounds ==
    ASSUME PushConstants, RoundsInv, PushInv', NEW j \in PushJobs, PushShown(j)
    PROVE  RoundsInv'
<1>1. PICK pc \in {"mark", "undo"} : PushTo(j, pc) BY DEF PushShown
<1>2. PICK d, n : d = pushWork[j].to /\ n = pushWork[j].tries OBVIOUS
<1>3. /\ pushWork[j].pc = "send" /\ JobFits(pushWork[j]) /\ d \in Devices
      /\ d \in pushWork[j].todo /\ n \in 1..MaxDeliveries
  <2>1. pushWork[j].pc = "send" /\ JobFits(pushWork[j]) BY DEF PushShown, RoundsInv
  <2>2. d \in Devices BY <1>2, <2>1, PushTaskIs DEF RoundsInv, PushInv, Claiming
  <2>3. QED BY <1>2, <2>1, <2>2 DEF JobFits, PushConstants
<1>4. /\ pushWork'[j].pc = pc /\ pushWork'[j].tries = n
      /\ pushWork'[j].to = d /\ pushWork'[j].todo = pushWork[j].todo
      /\ \A o \in PushJobs : o # j => pushWork'[o] = pushWork[o]
  BY <1>1, <1>2, <1>3, PushMoves DEF RoundsInv, PushInv, PushPcs, Claiming
<1>5. JobFits(pushWork[j])' BY <1>2, <1>3, <1>4 DEF JobFits
<1>6. \A c \in Devices : MayShow(j, c)' => MayShow(j, c) BY <1>3, <1>4 DEF MayShow
<1>7. /\ \A o \in PushJobs : JobFits(pushWork[o])'
      /\ \A c \in Devices : Past(c) \subseteq Past(c)'
  BY <1>2, <1>4, <1>5, <1>6, RoundsGoOn
<1>8. <<j, n>> \in Past(d)' /\ <<j, n>> \notin Past(d)
  <2>1. MayShow(j, d) /\ ~MayShow(j, d)' BY <1>3, <1>4 DEF MayShow
  <2>2. QED BY <1>2, <1>3, <1>4, <2>1 DEF Past
<1>9. ASSUME NEW c \in Devices PROVE shownTimes'[c] <= Cardinality(Past(c)')
  <2>1. PICK old, new : old = Past(c) /\ new = Past(c)' OBVIOUS
  <2>2. /\ IsFiniteSet(new) /\ Cardinality(new) \in Nat
        /\ IsFiniteSet(old) /\ Cardinality(old) \in Nat
    BY <2>1, PastIsOfRounds, RoundsAreFinite
  <2>3. shownTimes[c] \in Nat /\ shownTimes[c] <= Cardinality(old)
    BY <2>1 DEF RoundsInv, PushInv, PushRows
  <2>4. CASE c # d
    <3>1. shownTimes'[c] = shownTimes[c] BY <1>2, <2>4 DEF PushShown, RoundsInv, PushInv, PushRows
    <3>2. old \in SUBSET new BY <1>7, <2>1
    <3>3. Cardinality(old) <= Cardinality(new) BY <2>2, <3>2, FS_Subset
    <3>4. QED BY <2>1, <2>2, <2>3, <3>1, <3>3
  <2>5. CASE c = d
    <3>1. shownTimes'[c] = shownTimes[c] + 1
      BY <1>2, <1>3, <2>5 DEF PushShown, RoundsInv, PushInv, PushRows
    <3>2. PICK x : x = <<j, n>> OBVIOUS
    <3>3. x \notin old /\ old \cup {x} \in SUBSET new BY <1>7, <1>8, <2>1, <2>5, <3>2
    <3>4. IsFiniteSet(old \cup {x}) /\ Cardinality(old \cup {x}) = Cardinality(old) + 1
      BY <2>2, <3>3, FS_AddElement
    <3>5. Cardinality(old \cup {x}) <= Cardinality(new) BY <2>2, <3>3, FS_Subset
    <3>6. QED BY <2>1, <2>2, <2>3, <3>1, <3>4, <3>5
  <2>6. QED BY <2>4, <2>5
<1>10. QED BY <1>7, <1>9 DEF RoundsInv

LEMMA RoundsStart == ASSUME PushConstants, PushInit PROVE RoundsInv
<1>1. PushInv BY PushStarts
<1>2. /\ \A j \in PushJobs : pushWork[j].pc = "absent" /\ pushWork[j].tries = 0
      /\ \A d \in Devices : shownTimes[d] = 0
  BY DEF PushInit
<1>3. \A j \in PushJobs : JobFits(pushWork[j]) BY <1>2 DEF JobFits, PushConstants
<1>4. \A d \in Devices : Cardinality(Past(d)) \in Nat BY PastIsOfRounds, RoundsAreFinite
<1>5. QED BY <1>1, <1>2, <1>3, <1>4 DEF RoundsInv

LEMMA RoundsStep ==
    ASSUME PushConstants, RoundsInv, [PushNext]_pushVars PROVE RoundsInv'
<1>1. PushInv' BY PushStep DEF RoundsInv
<1>2. CASE UNCHANGED pushVars \/ \E d \in Devices : Unsubscribe(d)
  <2>1. UNCHANGED <<pushWork, shownTimes>> BY <1>2 DEF pushVars, Unsubscribe
  <2>2. \A d \in Devices : Past(d)' = Past(d) BY <2>1 DEF Past, MayShow
  <2>3. \A j \in PushJobs : JobFits(pushWork[j])' BY <2>1 DEF RoundsInv, JobFits
  <2>4. QED BY <1>1, <2>1, <2>2, <2>3 DEF RoundsInv
<1>3. ASSUME NEW j \in PushJobs, PushUndo(j) \/ PushForget(j) \/ PushCrash(j) PROVE RoundsInv'
  BY <1>1, <1>3, ThrownRounds DEF PushUndo, PushForget, PushCrash
<1>4. ASSUME NEW j \in PushJobs,
             \/ PushQueue(j) \/ PushStart(j) \/ PushShown(j) \/ PushRefused(j)
             \/ PushMark(j) \/ PushUndo(j) \/ PushForget(j) \/ PushFinish(j) \/ PushCrash(j)
             \/ \E d \in Devices : PushClaim(j, d)
      PROVE  RoundsInv'
  BY <1>1, <1>3, <1>4, MovedRounds, StartedRounds, ShownRounds, MarkedRounds, ClaimedRounds
<1>5. QED BY <1>2, <1>4 DEF PushNext

(* What the job of an event knows has its type; and a browser is shown the *)
(* event once at most by each delivery of each job, whatever fails         *)
(* (callWebPush.ts:13-40).                                                 *)
THEOREM PushTyped == PushConstants => (PushSpec => []PushTypeOK)
<1> SUFFICES ASSUME PushConstants PROVE PushSpec => []PushTypeOK OBVIOUS
<1>1. PushInit => RoundsInv BY RoundsStart
<1>2. RoundsInv /\ [PushNext]_pushVars => RoundsInv' BY RoundsStep
<1>3. RoundsInv => PushTypeOK
  <2> SUFFICES ASSUME RoundsInv PROVE PushTypeOK OBVIOUS
  <2>1. PushRows /\ \A j \in PushJobs : JobFits(pushWork[j]) BY DEF RoundsInv, PushInv
  <2>2. ASSUME NEW d \in Devices
        PROVE  shownTimes[d] \in 0..MaxDeliveries * Cardinality(PushJobs)
    <3>1. PICK past, n : past = Past(d) /\ n = MaxDeliveries * Cardinality(PushJobs) OBVIOUS
    <3>2. Cardinality(past) \in 0..n BY <3>1, PastIsOfRounds, RoundsAreFinite
    <3>3. n \in Nat BY <3>1, FS_CardinalityType DEF PushConstants
    <3>4. shownTimes[d] \in Nat /\ shownTimes[d] <= Cardinality(past)
      BY <2>1, <3>1 DEF RoundsInv, PushRows
    <3>5. QED BY <3>1, <3>2, <3>3, <3>4
  <2>3. \A j \in PushJobs : pushWork[j].pc \in PushPcs BY <2>1, PushTaskIs
  <2>4. shownTimes \in [Devices -> 0..MaxDeliveries * Cardinality(PushJobs)]
    BY <2>1, <2>2 DEF PushRows
  <2>5. QED BY <2>1, <2>3, <2>4 DEF PushTypeOK, PushRows, JobFits
<1>4. QED BY <1>1, <1>2, <1>3, PTL DEF PushSpec

(***************************************************************************)
(* That an entry moved within a list ends where it was put, whatever is    *)
(* added, removed, ranked and reordered beside it.                         *)
(***************************************************************************)

(* What a planned move leaves of its neighbours: the ranks of what it      *)
(* writes are planned, the others are locked and stay.                     *)
Later(doing, u) == IF u \in DOMAIN doing.plan THEN doing.plan[u] ELSE position[u]
PlanPlaces(doing) ==
    doing.pc = "moveWrite" /\ doing.fits =>
        /\ doing.target \in DOMAIN doing.plan
        /\ doing.before # Unranked =>
              Later(doing, doing.before) # Unranked
              /\ Later(doing, doing.before) < doing.plan[doing.target]
        /\ doing.after # Unranked =>
              Later(doing, doing.after) # Unranked
              /\ doing.plan[doing.target] < Later(doing, doing.after)
HoldsTask(doing) ==
    doing.pc \in {"moveRead", "moveWrite"} =>
        /\ {doing.target, doing.before, doing.after} \ {Unranked} \subseteq doing.held
        /\ doing.before # doing.after /\ doing.target \notin {doing.before, doing.after}

LocksAreApart ==
    /\ \A r \in ListRequests : listWork[r].held \subseteq Present
    /\ \A q, r \in ListRequests : q # r => listWork[q].held \cap listWork[r].held = {}

ListInv ==
    /\ ListTypeOK /\ LocksAreApart
    /\ \A r \in ListRequests : HoldsTask(listWork[r]) /\ PlanPlaces(listWork[r])

-----------------------------------------------------------------------------
LEMMA ListTimes ==
    ASSUME NEW s \in Nat \ {0}, NEW a \in Int, NEW b \in Int
    PROVE  s * a \in Int /\ (a < b => s * a < s * b)
OBVIOUS

LEMMA RanksAreNumbers ==
    ASSUME ListConstants
    PROVE  Ranks \subseteq Int /\ PatchRanks \subseteq Int /\ Unranked \notin Int
BY DEF ListConstants, Ranks

LEMMA EntriesAre ==
    ASSUME ListTypeOK
    PROVE  /\ Present \subseteq Targets
           /\ \A t \in Present : \E i \in 1..Len(entries) : entries[i] = t
<1>1. entries \in Seq(Targets) BY DEF ListTypeOK
<1>2. DOMAIN entries = 1..Len(entries) /\ \A i \in 1..Len(entries) : entries[i] \in Targets
  BY <1>1
<1>3. Present = {entries[i] : i \in 1..Len(entries)} BY <1>2 DEF Present, ToSet
<1>4. QED BY <1>2, <1>3

(* The order of the entries is strict.                                     *)
LEMMA OrderIsStrict ==
    ASSUME ListConstants, ListTypeOK, NEW t \in Present, NEW u \in Present, NEW v \in Present
    PROVE  /\ ~Precedes(entries, position, t, t)
           /\ Precedes(entries, position, t, u) /\ Precedes(entries, position, u, v)
              => Precedes(entries, position, t, v)
<1> DEFINE born(w) == CHOOSE i \in DOMAIN entries : entries[i] = w
<1>1. \A w \in Present : born(w) \in Nat
  <2>1. ASSUME NEW w \in Present PROVE born(w) \in DOMAIN entries
    BY EntriesAre DEF ListTypeOK
  <2>2. DOMAIN entries \subseteq Nat BY DEF ListTypeOK
  <2>3. QED BY <2>1, <2>2
<1>2. \A w \in Present : position[w] \in Int \/ position[w] = Unranked
  BY RanksAreNumbers, EntriesAre DEF ListTypeOK
<1>3. \A w, x \in Present : Precedes(entries, position, w, x) <=>
          \/ position[w] # Unranked /\ position[x] = Unranked
          \/ position[w] # Unranked /\ position[x] # Unranked /\ position[w] < position[x]
          \/ position[w] = position[x] /\ born(w) < born(x)
  BY DEF Precedes
<1>4. Unranked \notin Int BY RanksAreNumbers
<1> HIDE DEF born
<1>5. ~Precedes(entries, position, t, t) BY <1>1, <1>2, <1>3
<1>6. ASSUME Precedes(entries, position, t, u), Precedes(entries, position, u, v)
      PROVE  Precedes(entries, position, t, v)
  <2>1. born(t) \in Nat /\ born(u) \in Nat /\ born(v) \in Nat BY <1>1
  <2>2. CASE position[t] = Unranked BY <1>2, <1>3, <1>6, <2>1, <2>2
  <2>3. CASE position[t] # Unranked /\ position[v] = Unranked BY <1>3, <2>3
  <2>4. CASE position[t] # Unranked /\ position[v] # Unranked
    <3>1. position[u] # Unranked BY <1>3, <1>6, <2>4
    <3>2. position[t] \in Int /\ position[u] \in Int /\ position[v] \in Int
      BY <1>2, <2>4, <3>1
    <3>3. QED BY <1>3, <1>6, <2>1, <2>4, <3>1, <3>2
  <2>5. QED BY <2>2, <2>3, <2>4
<1>7. QED BY <1>5, <1>6

(* Who comes before another has fewer before it.                           *)
LEMMA PlacesGrow ==
    ASSUME ListConstants, ListTypeOK, NEW S \in SUBSET Present, NEW t \in S, NEW u \in S
    PROVE  /\ PlaceIn(S, t) \in Nat
           /\ Precedes(entries, position, t, u) => PlaceIn(S, t) < PlaceIn(S, u)
<1> DEFINE before(w) == {v \in S : Precedes(entries, position, v, w)}
<1>1. IsFiniteSet(S) BY EntriesAre, FS_Subset DEF ListConstants
<1>2. \A w \in S : IsFiniteSet(before(w)) /\ Cardinality(before(w)) \in Nat
  BY <1>1, FS_Subset, FS_CardinalityType
<1>3. PlaceIn(S, t) = Cardinality(before(t)) /\ PlaceIn(S, u) = Cardinality(before(u))
  BY DEF PlaceIn
<1>4. ASSUME Precedes(entries, position, t, u)
      PROVE  Cardinality(before(t)) < Cardinality(before(u))
  <2>1. before(t) \subseteq before(u) BY <1>4, OrderIsStrict
  <2>2. t \in before(u) /\ t \notin before(t) BY <1>4, OrderIsStrict
  <2>3. before(t) # before(u) BY <2>2
  <2> HIDE DEF before
  <2>4. Cardinality(before(t)) <= Cardinality(before(u))
        /\ Cardinality(before(u)) # Cardinality(before(t))
    BY <1>2, <2>1, <2>3, FS_Subset
  <2>5. QED BY <1>2, <2>4
<1>5. QED BY <1>2, <1>3, <1>4

(* Spreading the list out puts the target beside its neighbour, and        *)
(* between two that were in order.                                         *)
LEMMA SpreadPlaces ==
    ASSUME ListConstants, ListTypeOK, NEW t \in Present, NEW before \in Neighbours,
           NEW after \in Neighbours, {before, after} \ {Unranked} \subseteq Present,
           t \notin {before, after}, before # after,
           Unranked \in {before, after} \/ Precedes(entries, position, before, after)
    PROVE  LET plan == Spread(t, before, after) IN
           /\ DOMAIN plan = Present
           /\ before # Unranked => plan[before] < plan[t]
           /\ after # Unranked => plan[t] < plan[after]
<1> DEFINE others == Present \ {t}
           place == IF after # Unranked THEN PlaceIn(others, after)
                    ELSE PlaceIn(others, before) + 1
           shifted(n) == IF n < place THEN n ELSE n + 1
           plan == Spread(t, before, after)
<1>1. plan = [u \in Present |->
                 PositionStep * IF u = t THEN place ELSE shifted(PlaceIn(others, u))]
  BY DEF Spread
<1>2. plan[t] = PositionStep * place BY <1>1
<1>3. \A u \in others : plan[u] = PositionStep * shifted(PlaceIn(others, u)) BY <1>1
<1>4. \A u \in others : PlaceIn(others, u) \in Nat BY PlacesGrow
<1>5. PositionStep \in Nat \ {0} BY DEF ListConstants
<1>6. (before # Unranked => before \in others) /\ (after # Unranked => after \in others)
  OBVIOUS
<1>7. place \in Nat BY <1>4, <1>6
<1>8. ASSUME before # Unranked PROVE plan[before] < plan[t]
  <2>1. PlaceIn(others, before) < place
    <3>1. CASE after = Unranked BY <1>4, <1>6, <1>8, <3>1
    <3>2. CASE after # Unranked BY <1>6, <1>8, <3>2, PlacesGrow
    <3>3. QED BY <3>1, <3>2
  <2>2. plan[before] = PositionStep * PlaceIn(others, before) BY <1>3, <1>6, <1>8, <2>1
  <2> HIDE DEF place, plan
  <2>3. QED BY <1>2, <1>4, <1>5, <1>6, <1>7, <1>8, <2>1, <2>2, ListTimes
<1>9. ASSUME after # Unranked PROVE plan[t] < plan[after]
  <2>1. place = PlaceIn(others, after) BY <1>9
  <2>2. plan[after] = PositionStep * (place + 1) BY <1>3, <1>4, <1>6, <1>9, <2>1
  <2> HIDE DEF place, plan
  <2>3. QED BY <1>2, <1>5, <1>7, <2>2, ListTimes
<1>10. QED BY <1>1, <1>8, <1>9

(* The rank between two neighbours is between them.                        *)
LEMMA NextRankPlaces ==
    ASSUME ListConstants, ListTypeOK, NEW before \in Neighbours, NEW after \in Neighbours,
           before # after, NextRank(before, after) # Unranked
    PROVE  LET next == NextRank(before, after) IN
           /\ next \in Int
           /\ before # Unranked => position[before] # Unranked /\ position[before] < next
           /\ after # Unranked => position[after] # Unranked /\ next < position[after]
<1> DEFINE low == RankOf(before)
           high == RankOf(after)
           next == NextRank(before, after)
<1>1. /\ before # Unranked => before \in Targets /\ low = position[before]
      /\ after # Unranked => after \in Targets /\ high = position[after]
      /\ before = Unranked => low = Unranked
      /\ after = Unranked => high = Unranked
  BY DEF Neighbours, RankOf
<1>2. (low # Unranked => low \in Int) /\ (high # Unranked => high \in Int)
  BY <1>1, RanksAreNumbers DEF ListTypeOK
<1>3. PositionStep \in Nat \ {0} BY DEF ListConstants
<1>4. \/ low # Unranked /\ high # Unranked /\ high - low > 1
         /\ next = low + (high - low) \div 2
      \/ low # Unranked /\ after = Unranked /\ next = low + PositionStep
      \/ high # Unranked /\ before = Unranked /\ next = high - PositionStep
  BY DEF NextRank
<1> HIDE DEF low, high, next
<1>5. CASE low # Unranked /\ high # Unranked /\ high - low > 1
           /\ next = low + (high - low) \div 2
  BY <1>1, <1>2, <1>5 DEF next, low, high
<1>6. CASE low # Unranked /\ after = Unranked /\ next = low + PositionStep
  BY <1>1, <1>2, <1>3, <1>6 DEF next
<1>7. CASE high # Unranked /\ before = Unranked /\ next = high - PositionStep
  BY <1>1, <1>2, <1>3, <1>7 DEF next
<1>8. QED BY <1>4, <1>5, <1>6, <1>7

-----------------------------------------------------------------------------
(* A plan outlives what others do, which leave the locked entries alone.   *)
LEMMA PlanStays ==
    ASSUME NEW doing \in ListTasks, HoldsTask(doing), PlanPlaces(doing),
           \A u \in doing.held : position'[u] = position[u]
    PROVE  PlanPlaces(doing)'
BY DEF ListTasks, HoldsTask, PlanPlaces, Later

(* One request goes on; the entries others hold stay as they are.          *)
LEMMA OneGoesOn ==
    ASSUME ListInv, NEW r \in ListRequests, NEW new \in ListTasks, ListGoes(r, new),
           ListTypeOK', Present \subseteq Present',
           new.held \subseteq Present, new.held = {} \/ Unheld(r, new.held),
           HoldsTask(new), PlanPlaces(new)',
           \A q \in ListRequests \ {r} : \A u \in listWork[q].held : position'[u] = position[u]
    PROVE  ListInv'
<1>1. listWork'[r] = new /\ \A q \in ListRequests \ {r} : listWork'[q] = listWork[q]
  BY DEF ListGoes, ListInv, ListTypeOK
<1>2. LocksAreApart' BY <1>1 DEF ListInv, LocksAreApart, Unheld
<1>3. ASSUME NEW q \in ListRequests PROVE HoldsTask(listWork'[q]) /\ PlanPlaces(listWork[q])'
  <2>1. CASE q = r BY <1>1, <2>1
  <2>2. CASE q # r
    <3>1. listWork[q] \in ListTasks BY DEF ListInv, ListTypeOK
    <3>2. listWork'[q] = listWork[q] BY <1>1, <2>2
    <3>3. PlanPlaces(listWork[q])'
      <4> DEFINE doing == listWork[q]
      <4>1. ASSUME NEW t, t = doing PROVE t = listWork'[q] => PlanPlaces(t)'
        BY <2>2, <3>1, <4>1, PlanStays DEF ListInv
      <4>2. QED BY <3>2, <4>1
    <3>4. QED BY <3>2, <3>3 DEF ListInv
  <2>3. QED BY <2>1, <2>2
<1>4. QED BY <1>2, <1>3 DEF ListInv, HoldsTask

LEMMA IdleTask == NoListTask \in ListTasks /\ NoListTask.held = {} /\ NoListTask.pc = "idle"
BY DEF NoListTask, ListTasks

LEMMA ListStart == ASSUME ListConstants, ListInit PROVE ListInv
<1>1. PICK i \in ListInstances : listKinds = i.kinds /\ entries = i.first BY DEF ListInit
<1>2. ListTypeOK BY <1>1, IdleTask DEF ListInit, ListTypeOK, ListConstants
<1>3. \A r \in ListRequests : listWork[r] = NoListTask BY DEF ListInit
<1>4. QED BY <1>2, <1>3, IdleTask DEF ListInv, LocksAreApart, HoldsTask, PlanPlaces

LEMMA AddKeeps ==
    ASSUME ListConstants, ListInv, NEW r \in ListRequests,
           (\E t \in Targets : AddRead(r, t)) \/ AddCreate(r) \/ AddReadBack(r)
    PROVE  ListInv'
<1> DEFINE doing == listWork[r]
<1>0. doing \in ListTasks /\ ListTypeOK BY DEF ListInv, ListTypeOK
<1>1. ASSUME NEW t \in Targets, AddRead(r, t) PROVE ListInv'
  <2> DEFINE new == [pc |-> "add", target |-> t, held |-> {}]
  <2>1. new \in ListTasks /\ new.held = {} /\ new.pc = "add" BY DEF ListTasks
  <2>2. ListGoes(r, new) /\ UNCHANGED <<listKinds, entries, position>>
    BY <1>1 DEF AddRead, ListStarts
  <2> HIDE DEF new
  <2>3. ListTypeOK' BY <1>0, <2>1, <2>2 DEF ListTypeOK, ListGoes
  <2>4. QED BY <2>1, <2>2, <2>3, OneGoesOn DEF HoldsTask, PlanPlaces, Present
<1>2. CASE AddCreate(r) \/ AddReadBack(r)
  <2>1. /\ doing.pc \in {"add", "readBack"}
        /\ \E pc \in {"readBack", "failed"} :
              ListGoes(r, NoListTask) \/ ListGoes(r, [doing EXCEPT !.pc = pc])
        /\ UNCHANGED listKinds
        /\ \/ UNCHANGED <<entries, position>>
           \/ /\ doing.target \notin Present /\ entries' = Append(entries, doing.target)
              /\ position' = [position EXCEPT ![doing.target] = Unranked]
    BY <1>2 DEF AddCreate, AddReadBack
  <2>2. PICK new : ListGoes(r, new)
            /\ \/ new = NoListTask
               \/ \E pc \in {"readBack", "failed"} : new = [doing EXCEPT !.pc = pc]
    BY <2>1
  <2>3. doing.target \in Targets /\ doing \in [pc : {"add", "readBack", "failed"},
                                             target : Targets, held : {{}}]
    BY <1>0, <2>1 DEF ListTasks
  <2>4. new \in ListTasks /\ new.held = {} /\ new.pc \in {"idle", "readBack", "failed"}
    BY <2>2, <2>3, IdleTask DEF ListTasks
  <2>5. ListTypeOK' /\ Present \subseteq Present'
    <3>1. listWork' \in [ListRequests -> ListTasks] BY <1>0, <2>2, <2>4 DEF ListTypeOK, ListGoes
    <3>2. CASE UNCHANGED <<entries, position>>
      BY <1>0, <2>1, <3>1, <3>2 DEF ListTypeOK, Present
    <3>3. CASE /\ doing.target \notin Present /\ entries' = Append(entries, doing.target)
               /\ position' = [position EXCEPT ![doing.target] = Unranked]
      <4>1. entries' \in Seq(Targets) /\ IsInjective(entries')
        BY <1>0, <2>3, <3>3 DEF ListTypeOK, IsInjective, Present, ToSet
      <4>2. Present \subseteq Present' BY <1>0, <2>3, <3>3 DEF ListTypeOK, Present, ToSet
      <4>3. position' \in [Targets -> Ranks \cup PatchRanks \cup {Unranked}]
        BY <1>0, <3>3 DEF ListTypeOK
      <4>4. QED BY <1>0, <2>1, <3>1, <4>1, <4>2, <4>3 DEF ListTypeOK
    <3>4. QED BY <2>1, <3>2, <3>3
  <2>6. \A q \in ListRequests \ {r} : \A u \in listWork[q].held : position'[u] = position[u]
    <3>1. \A q \in ListRequests : listWork[q].held \subseteq Present
      BY DEF ListInv, LocksAreApart
    <3>2. Present \subseteq Targets BY <1>0, EntriesAre
    <3>3. QED BY <1>0, <2>1, <3>1, <3>2 DEF ListTypeOK
  <2>7. HoldsTask(new) /\ PlanPlaces(new)' BY <2>4 DEF HoldsTask, PlanPlaces
  <2>8. QED BY <2>2, <2>4, <2>5, <2>6, <2>7, OneGoesOn
<1>3. QED BY <1>1, <1>2

(* Removing and ranking one entry wait for its lock.                       *)
LEMMA EntryEditKeeps ==
    ASSUME ListConstants, ListInv, NEW t \in Targets,
           RemoveEntry(t) \/ \E rank \in PatchRanks : RankEntry(t, rank)
    PROVE  ListInv'
<1>0. ListTypeOK /\ LocksAreApart BY DEF ListInv
<1>1. /\ t \in Present /\ \A q \in ListRequests : t \notin listWork[q].held
      /\ UNCHANGED <<listKinds, listWork>>
  BY DEF RemoveEntry, RankEntry
<1>2. ListTypeOK' /\ Present \ {t} \subseteq Present'
  <2>1. CASE RemoveEntry(t)
    <3>1. PICK i \in DOMAIN entries : entries[i] = t /\ entries' = RemoveAt(entries, i)
      BY <2>1 DEF RemoveEntry
    <3>2. entries \in Seq(Targets) /\ i \in 1..Len(entries) BY <1>0, <3>1 DEF ListTypeOK
    <3>3. /\ entries' \in Seq(Targets) /\ Len(entries') = Len(entries) - 1
          /\ \A k \in 1..(Len(entries) - 1) :
                entries'[k] = IF k < i THEN entries[k] ELSE entries[k + 1]
      <4> DEFINE head == SubSeq(entries, 1, i - 1)
                 tail == SubSeq(entries, i + 1, Len(entries))
      <4>1. /\ head \in Seq(Targets) /\ Len(head) = i - 1
            /\ \A k \in 1..(i - 1) : head[k] = entries[k]
        BY <3>2
      <4>2. /\ tail \in Seq(Targets) /\ Len(tail) = Len(entries) - i
            /\ \A k \in 1..(Len(entries) - i) : tail[k] = entries[i + k]
        BY <3>2
      <4>3. entries' = head \o tail BY <3>1 DEF RemoveAt
      <4> HIDE DEF head, tail
      <4>4. entries' \in Seq(Targets) /\ Len(entries') = Len(entries) - 1
        BY <3>2, <4>1, <4>2, <4>3
      <4>5. \A k \in 1..(Len(head) + Len(tail)) :
               entries'[k] = IF k <= Len(head) THEN head[k] ELSE tail[k - Len(head)]
        BY <4>1, <4>2, <4>3, ConcatProperties
      <4>6. ASSUME NEW k \in 1..(Len(entries) - 1)
            PROVE  entries'[k] = IF k < i THEN entries[k] ELSE entries[k + 1]
        <5>1. Len(entries) \in Nat /\ i \in 1..Len(entries) /\ k \in Nat BY <3>2
        <5>2. k \in 1..(Len(head) + Len(tail)) BY <4>1, <4>2, <5>1
        <5>3. CASE k < i
          <6>1. entries'[k] = head[k] BY <4>1, <4>5, <5>1, <5>2, <5>3
          <6>2. QED BY <4>1, <5>1, <5>3, <6>1
        <5>4. CASE ~(k < i)
          <6>1. entries'[k] = tail[k - Len(head)] BY <4>1, <4>5, <5>1, <5>2, <5>4
          <6>2. k - Len(head) \in 1..(Len(entries) - i) BY <4>1, <5>1, <5>4
          <6>3. i + (k - Len(head)) = k + 1 BY <4>1, <5>1
          <6>4. QED BY <4>2, <5>4, <6>1, <6>2, <6>3
        <5>5. QED BY <5>3, <5>4
      <4>7. QED BY <4>4, <4>6
    <3>4. IsInjective(entries')
      <4> DEFINE from(k) == IF k < i THEN k ELSE k + 1
      <4>1. \A k \in 1..(Len(entries) - 1) :
               from(k) \in 1..Len(entries) /\ entries'[k] = entries[from(k)]
        BY <3>2, <3>3
      <4>2. \A j, k \in 1..Len(entries) : entries[j] = entries[k] => j = k
        BY <1>0, <3>2 DEF ListTypeOK, IsInjective
      <4>3. \A j, k \in 1..(Len(entries) - 1) : from(j) = from(k) => j = k BY <3>2
      <4>4. DOMAIN entries' = 1..(Len(entries) - 1) BY <3>3
      <4> HIDE DEF from
      <4>5. QED BY <4>1, <4>2, <4>3, <4>4 DEF IsInjective
    <3>5. ASSUME NEW u \in Present \ {t} PROVE u \in Present'
      <4>1. PICK k \in 1..Len(entries) : entries[k] = u BY <1>0, EntriesAre
      <4>2. k # i BY <3>1, <4>1
      <4>3. CASE k < i
        <5>1. k \in DOMAIN entries' /\ entries'[k] = u BY <3>2, <3>3, <4>1, <4>3
        <5>2. QED BY <5>1 DEF Present, ToSet
      <4>4. CASE k > i
        <5>1. k - 1 \in DOMAIN entries' /\ entries'[k - 1] = u BY <3>2, <3>3, <4>1, <4>4
        <5>2. QED BY <5>1 DEF Present, ToSet
      <4>5. QED BY <3>2, <4>1, <4>2, <4>3, <4>4
    <3>6. QED BY <1>0, <1>1, <2>1, <3>3, <3>4, <3>5 DEF RemoveEntry, ListTypeOK
  <2>2. CASE \E rank \in PatchRanks : RankEntry(t, rank)
    BY <1>0, <1>1, <2>2 DEF RankEntry, ListTypeOK, Present
  <2>3. QED BY <2>1, <2>2
<1>3. \A q \in ListRequests : \A u \in listWork[q].held : position'[u] = position[u]
  BY <1>0, <1>1, EntriesAre DEF RemoveEntry, RankEntry, ListTypeOK, LocksAreApart
<1>4. LocksAreApart' BY <1>0, <1>1, <1>2 DEF LocksAreApart
<1>5. ASSUME NEW q \in ListRequests PROVE HoldsTask(listWork'[q]) /\ PlanPlaces(listWork[q])'
  <2>1. listWork[q] \in ListTasks /\ listWork'[q] = listWork[q] BY <1>0, <1>1 DEF ListTypeOK
  <2>2. ASSUME NEW doing, doing = listWork[q] PROVE doing = listWork'[q] => PlanPlaces(doing)'
    BY <1>3, <2>1, <2>2, PlanStays DEF ListInv
  <2>3. QED BY <2>1, <2>2 DEF ListInv
<1>6. QED BY <1>2, <1>4, <1>5 DEF ListInv, HoldsTask

LEMMA OrderLockKeeps ==
    ASSUME ListConstants, ListInv, NEW r \in ListRequests,
           \/ \E t \in Targets, before, after \in Neighbours : MoveLock(r, t, before, after)
           \/ \E order \in Orders : ReorderLock(r, order)
    PROVE  ListInv'
<1>0. ListTypeOK /\ Present \subseteq Targets BY EntriesAre DEF ListInv
<1>1. ASSUME NEW new \in ListTasks, ListGoes(r, new), new.held = Present, Unheld(r, Present),
             UNCHANGED <<listKinds, entries, position>>, HoldsTask(new), new.pc # "moveWrite"
      PROVE  ListInv'
  <2>1. ListTypeOK' BY <1>0, <1>1 DEF ListTypeOK, ListGoes
  <2>2. QED BY <1>1, <2>1, OneGoesOn DEF PlanPlaces, Present
<1>2. ASSUME NEW t \in Targets, NEW before \in Neighbours, NEW after \in Neighbours,
             MoveLock(r, t, before, after)
      PROVE  ListInv'
  <2> DEFINE new == [pc |-> "moveRead", target |-> t, before |-> before,
                     after |-> after, held |-> Present]
  <2>1. new \in ListTasks BY <1>0 DEF ListTasks
  <2>2. HoldsTask(new) /\ new.pc = "moveRead" /\ new.held = Present
    BY <1>2 DEF HoldsTask, MoveLock
  <2>3. ListGoes(r, new) /\ Unheld(r, Present) /\ UNCHANGED <<listKinds, entries, position>>
    BY <1>2 DEF MoveLock, ListStarts
  <2>4. QED BY <1>1, <2>1, <2>2, <2>3
<1>3. ASSUME NEW order \in Orders, ReorderLock(r, order) PROVE ListInv'
  <2> DEFINE plan == [u \in Present |-> (CHOOSE i \in DOMAIN order : order[i] = u) - 1]
             new == [pc |-> "reorderWrite", held |-> Present, plan |-> plan]
  <2>1. \A u \in Present : plan[u] \in Ranks
    <3>1. PICK n \in 1..Cardinality(Targets) : order \in [1..n -> Targets] BY DEF Orders
    <3>2. ASSUME NEW u \in Present PROVE (CHOOSE i \in DOMAIN order : order[i] = u) \in 1..n
      BY <1>3, <3>1 DEF ReorderLock, ToSet
    <3>3. Cardinality(Targets) \in Nat BY FS_CardinalityType DEF ListConstants
    <3>4. \A k \in 1..n : k - 1 \in Ranks BY <3>3 DEF Ranks, ListConstants
    <3>5. QED BY <3>2, <3>4
  <2>2. plan \in Plans BY <1>0, <2>1 DEF Plans
  <2> HIDE DEF plan
  <2>3. new \in ListTasks BY <1>0, <2>2 DEF ListTasks
  <2>4. HoldsTask(new) /\ new.pc = "reorderWrite" /\ new.held = Present BY DEF HoldsTask
  <2>5. ListGoes(r, new) /\ Unheld(r, Present) /\ UNCHANGED <<listKinds, entries, position>>
    BY <1>3 DEF ReorderLock, ListStarts, plan
  <2>6. QED BY <1>1, <2>3, <2>4, <2>5
<1>4. QED BY <1>2, <1>3

(* A move that has read the list plans a rank between its neighbours.      *)
LEMMA ReadKeeps ==
    ASSUME ListConstants, ListInv, NEW r \in ListRequests, MoveRead(r) PROVE ListInv'
<1> DEFINE doing == listWork[r]
           next == NextRank(doing.before, doing.after)
           plan == IF next # Unranked THEN [u \in {doing.target} |-> next]
                   ELSE Spread(doing.target, doing.before, doing.after)
           fits == \/ Unranked \in {doing.before, doing.after}
                   \/ Precedes(entries, position, doing.before, doing.after)
           new == [pc |-> "moveWrite", target |-> doing.target, before |-> doing.before,
                   after |-> doing.after, held |-> doing.held, plan |-> plan, fits |-> fits]
           there == {doing.target, doing.before, doing.after} \ {Unranked} \subseteq Present
<1>0. ListTypeOK /\ LocksAreApart /\ HoldsTask(doing) /\ doing \in ListTasks
  BY DEF ListInv, ListTypeOK
<1>1. doing.pc = "moveRead" /\ UNCHANGED <<listKinds, entries, position>> BY DEF MoveRead
<1>2. /\ doing.target \in Targets /\ doing.before \in Neighbours /\ doing.after \in Neighbours
      /\ doing.held \subseteq Targets
  BY <1>0, <1>1 DEF ListTasks
<1>3. doing.before # doing.after /\ doing.target \notin {doing.before, doing.after}
      /\ {doing.target, doing.before, doing.after} \ {Unranked} \subseteq doing.held
  BY <1>0, <1>1 DEF HoldsTask
<1>4. doing.target # Unranked BY <1>2 DEF ListConstants
<1>5. CASE ~there
  <2>1. ListGoes(r, NoListTask) BY <1>5 DEF MoveRead
  <2>2. ListTypeOK' BY <1>0, <1>1, <2>1, IdleTask DEF ListTypeOK, ListGoes
  <2>3. QED BY <1>1, <2>1, <2>2, IdleTask, OneGoesOn DEF HoldsTask, PlanPlaces, Present
<1>6. CASE there
  <2>1. (\A u \in DOMAIN plan : plan[u] \in Ranks) /\ ListGoes(r, new) BY <1>6 DEF MoveRead
  <2>2. doing.target \in Present /\ {doing.before, doing.after} \ {Unranked} \subseteq Present
    BY <1>4, <1>6
  <2>3. /\ plan \in [DOMAIN plan -> Int] /\ DOMAIN plan \subseteq Present
        /\ doing.target \in DOMAIN plan
    <3>1. CASE next # Unranked BY <1>0, <1>2, <1>3, <2>2, <3>1, NextRankPlaces
    <3>2. CASE next = Unranked
      <4>1. plan = [u \in Present |-> plan[u]] BY <3>2 DEF Spread
      <4>2. \A u \in Present : plan[u] \in Int BY <2>1, <4>1, RanksAreNumbers
      <4>3. QED BY <2>2, <4>1, <4>2
    <3>3. QED BY <3>1, <3>2
  <2>4. plan \in Plans
    <3>1. plan \in [DOMAIN plan -> Ranks] BY <2>1, <2>3
    <3>2. DOMAIN plan \in SUBSET Targets BY <1>0, <2>3, EntriesAre
    <3>3. QED BY <3>1, <3>2 DEF Plans
  <2>5. ASSUME fits
        PROVE  /\ doing.before # Unranked =>
                     Later(new, doing.before) # Unranked
                     /\ Later(new, doing.before) < plan[doing.target]
               /\ doing.after # Unranked =>
                     Later(new, doing.after) # Unranked
                     /\ plan[doing.target] < Later(new, doing.after)
    <3>1. CASE next # Unranked
      <4>1. DOMAIN plan = {doing.target} /\ plan[doing.target] = next BY <3>1
      <4>2. /\ doing.before # Unranked => Later(new, doing.before) = position[doing.before]
            /\ doing.after # Unranked => Later(new, doing.after) = position[doing.after]
        BY <1>3, <4>1 DEF Later
      <4>3. QED BY <1>0, <1>2, <1>3, <3>1, <4>1, <4>2, NextRankPlaces
    <3>2. CASE next = Unranked
      <4>1. /\ DOMAIN plan = Present
            /\ doing.before # Unranked => plan[doing.before] < plan[doing.target]
            /\ doing.after # Unranked => plan[doing.target] < plan[doing.after]
        BY <1>0, <1>2, <1>3, <2>2, <2>5, <3>2, SpreadPlaces
      <4>2. /\ doing.before # Unranked => Later(new, doing.before) = plan[doing.before]
            /\ doing.after # Unranked => Later(new, doing.after) = plan[doing.after]
        BY <2>2, <4>1 DEF Later
      <4>3. \A u \in Present : plan[u] # Unranked
        BY <2>1, <4>1, RanksAreNumbers
      <4>4. QED BY <2>2, <4>1, <4>2, <4>3
    <3>3. QED BY <3>1, <3>2
  <2> HIDE DEF plan, fits
  <2>6. fits \in BOOLEAN BY DEF fits, Precedes
  <2>7. new \in ListTasks BY <1>2, <2>4, <2>6 DEF ListTasks
  <2>8. HoldsTask(new) BY <1>3 DEF HoldsTask
  <2>9. PlanPlaces(new) BY <2>3, <2>5 DEF PlanPlaces
  <2>10. ListTypeOK' BY <1>0, <1>1, <2>1, <2>7 DEF ListTypeOK, ListGoes
  <2>11. new.held \subseteq Present /\ Unheld(r, new.held)
    BY <1>0 DEF LocksAreApart, Unheld
  <2> HIDE DEF new
  <2>12. ASSUME NEW t, t = new PROVE ListInv'
    <3>1. PlanPlaces(t)' BY <1>1, <2>9, <2>12 DEF PlanPlaces, Later
    <3>2. QED
      BY <1>1, <2>1, <2>7, <2>8, <2>10, <2>11, <2>12, <3>1, OneGoesOn DEF Present
  <2>13. QED BY <2>12
<1>7. QED BY <1>5, <1>6

(* A plan is written, to rows that nobody else has locked.                 *)
LEMMA OrderWriteKeeps ==
    ASSUME ListConstants, ListInv, NEW r \in ListRequests, MoveWrite(r) \/ ReorderWrite(r)
    PROVE  ListInv'
<1> DEFINE plan == listWork[r].plan
<1>0. ListTypeOK /\ listWork[r] \in ListTasks BY DEF ListInv, ListTypeOK
<1>1. /\ listWork[r].pc \in {"moveWrite", "reorderWrite"} /\ Unheld(r, DOMAIN plan)
      /\ ListGoes(r, NoListTask) /\ UNCHANGED <<listKinds, entries>>
      /\ \/ position' = position
         \/ position' = [t \in Targets |-> IF t \in DOMAIN plan THEN plan[t] ELSE position[t]]
  BY DEF MoveWrite, ReorderWrite, ListWrites
<1>2. plan \in Plans BY <1>0, <1>1 DEF ListTasks
<1>3. \A t \in DOMAIN plan : plan[t] \in Ranks BY <1>2 DEF Plans
<1>4. ListTypeOK' BY <1>0, <1>1, <1>3, IdleTask DEF ListTypeOK, ListGoes
<1>5. \A q \in ListRequests \ {r} : \A u \in listWork[q].held : position'[u] = position[u]
  <2>1. \A q \in ListRequests : listWork[q].held \subseteq Targets
    BY <1>0, EntriesAre DEF ListInv, LocksAreApart
  <2>2. QED BY <1>0, <1>1, <2>1 DEF Unheld, ListTypeOK
<1>6. HoldsTask(NoListTask) /\ PlanPlaces(NoListTask)'
  BY IdleTask DEF HoldsTask, PlanPlaces
<1>7. QED BY <1>1, <1>4, <1>5, <1>6, IdleTask, OneGoesOn DEF Present

LEMMA ListStep == ASSUME ListConstants, ListInv, [ListNext]_listVars PROVE ListInv'
<1>1. CASE UNCHANGED listVars
  BY <1>1
  DEF listVars, ListInv, ListTypeOK, LocksAreApart, HoldsTask, PlanPlaces, Later, Present
<1>2. CASE ListNext
  BY <1>2, AddKeeps, EntryEditKeeps, OrderLockKeeps, ReadKeeps, OrderWriteKeeps DEF ListNext
<1>3. QED BY <1>1, <1>2

(* What a move writes puts its entry where the plan says.                  *)
LEMMA MovePlaces ==
    ASSUME ListConstants, ListInv, [ListNext]_listVars PROVE PlacesMoved
<1> SUFFICES ASSUME NEW r \in ListRequests,
                    listWork[r].pc = "moveWrite", listWork'[r].pc = "idle",
                    listWork[r].fits, DOMAIN listWork[r].plan \subseteq Present
             PROVE  LET doing == listWork[r] IN
                    /\ doing.before # Unranked =>
                          Precedes(entries', position', doing.before, doing.target)
                    /\ doing.after # Unranked =>
                          Precedes(entries', position', doing.target, doing.after)
  BY DEF PlacesMoved
<1> DEFINE doing == listWork[r]
<1>0. ListTypeOK /\ doing \in ListTasks /\ PlanPlaces(doing) BY DEF ListInv, ListTypeOK
<1>1. MoveWrite(r)
  <2>1. ASSUME NEW q \in ListRequests, NEW new, ListGoes(q, new), q # r PROVE FALSE
    BY <1>0, <2>1 DEF ListGoes, ListTypeOK
  <2>2. ASSUME NEW q \in ListRequests, NEW new, ListGoes(q, new) PROVE q = r
    BY <2>1, <2>2
  <2>3. ListNext /\ listWork' # listWork
    BY DEF listVars
  <2>4. PICK q \in ListRequests :
           \/ \E t \in Targets : AddRead(q, t)
           \/ \E t \in Targets, before, after \in Neighbours : MoveLock(q, t, before, after)
           \/ AddCreate(q) \/ AddReadBack(q) \/ MoveRead(q) \/ MoveWrite(q) \/ ReorderWrite(q)
           \/ \E order \in Orders : ReorderLock(q, order)
    BY <2>3 DEF ListNext, RemoveEntry, RankEntry
  <2>5. \E new : ListGoes(q, new)
    BY <2>4
    DEF AddRead, MoveLock, AddCreate, AddReadBack, MoveRead, MoveWrite, ReorderWrite,
        ListWrites, ReorderLock, ListStarts
  <2>6. q = r BY <2>2, <2>5
  <2>7. QED
    BY <2>4, <2>6
    DEF AddRead, MoveLock, AddCreate, AddReadBack, MoveRead, ReorderWrite, ListWrites,
        ReorderLock, ListStarts
<1>2. position' = [t \in Targets |-> IF t \in DOMAIN doing.plan THEN doing.plan[t]
                                     ELSE position[t]]
  BY <1>1 DEF MoveWrite, ListWrites
<1>3. doing.target \in Targets /\ doing.before \in Neighbours /\ doing.after \in Neighbours
      /\ doing.plan \in Plans
  BY <1>0 DEF ListTasks
<1>4. /\ doing.before # Unranked => position'[doing.before] = Later(doing, doing.before)
      /\ doing.after # Unranked => position'[doing.after] = Later(doing, doing.after)
  BY <1>2, <1>3 DEF Later, Neighbours
<1>5. doing.target \in DOMAIN doing.plan /\ position'[doing.target] = doing.plan[doing.target]
  BY <1>0, <1>2, <1>3 DEF PlanPlaces
<1>6. doing.plan[doing.target] # Unranked
  BY <1>3, <1>5, RanksAreNumbers DEF Plans
<1>7. QED BY <1>0, <1>4, <1>5, <1>6 DEF PlanPlaces, Precedes

LEMMA ListHolds == ListConstants => (ListSpec => []ListInv)
<1> SUFFICES ASSUME ListConstants PROVE ListSpec => []ListInv OBVIOUS
<1>1. ListInit => ListInv BY ListStart
<1>2. ListInv /\ [ListNext]_listVars => ListInv' BY ListStep
<1>3. QED BY <1>1, <1>2, PTL DEF ListSpec

(* The entries, their ranks and the requests on a list keep their types.   *)
THEOREM ListTyped == ListConstants => (ListSpec => []ListTypeOK)
<1>1. ListInv => ListTypeOK BY DEF ListInv
<1>2. QED BY <1>1, ListHolds, PTL

(* A move ends between the neighbours it was asked to come between, where  *)
(* these were in that order, whatever the other requests on the list do    *)
(* (lists.ts).                                                             *)
THEOREM MovesArePlaced == ListConstants => (ListSpec => MovedIsPlaced)
<1> SUFFICES ASSUME ListConstants PROVE ListSpec => MovedIsPlaced OBVIOUS
<1>1. ListInv /\ [ListNext]_listVars => [PlacesMoved]_listVars BY MovePlaces
<1>2. QED BY <1>1, ListHolds, PTL DEF ListSpec, MovedIsPlaced

(***************************************************************************)
(* The workspace: what is shown of each part of it holds of the whole.     *)
(***************************************************************************)

LEMMA WorkspaceStarts ==
    WorkspaceInit =>
        /\ Init /\ ViewsInit /\ CommentsInit /\ ListInit /\ ContactsInit
        /\ RecordsInit /\ GridInit /\ NoticesInit /\ FeedInit /\ PushInit
BY DEF WorkspaceInit

LEMMA EachPartMoves ==
    [WorkspaceNext]_workspace =>
        /\ [Next]_vars /\ [ViewsNext]_viewVars /\ [CommentsNext]_commentVars
        /\ [ListNext]_listVars /\ [ContactsNext]_contactVars /\ [ObjectNext]_objectVars
        /\ [NoticesNext]_noticeVars /\ [FeedNext]_feedVars /\ [PushNext]_pushVars
BY DEF WorkspaceNext, workspace, records, news

(* Whatever a member does next, each part of the workspace goes on as it   *)
(* does alone.                                                             *)
LEMMA EachPartRuns ==
    WorkspaceSpec =>
        /\ Spec /\ ViewsSpec /\ CommentsSpec /\ ListSpec /\ ContactsSpec /\ ObjectSpec
        /\ NoticesSpec /\ FeedSpec /\ PushSpec
<1> USE DEF WorkspaceSpec
<1>1. WorkspaceSpec => Spec BY WorkspaceStarts, EachPartMoves, PTL DEF Spec
<1>2. WorkspaceSpec => ViewsSpec BY WorkspaceStarts, EachPartMoves, PTL DEF ViewsSpec
<1>3. WorkspaceSpec => CommentsSpec BY WorkspaceStarts, EachPartMoves, PTL DEF CommentsSpec
<1>4. WorkspaceSpec => ListSpec BY WorkspaceStarts, EachPartMoves, PTL DEF ListSpec
<1>5. WorkspaceSpec => ContactsSpec BY WorkspaceStarts, EachPartMoves, PTL DEF ContactsSpec
<1>6. WorkspaceSpec => ObjectSpec BY WorkspaceStarts, EachPartMoves, PTL DEF ObjectSpec
<1>7. WorkspaceSpec => NoticesSpec BY WorkspaceStarts, EachPartMoves, PTL DEF NoticesSpec
<1>8. WorkspaceSpec => FeedSpec BY WorkspaceStarts, EachPartMoves, PTL DEF FeedSpec
<1>9. WorkspaceSpec => PushSpec BY WorkspaceStarts, EachPartMoves, PTL DEF PushSpec
<1>10. QED BY <1>1, <1>2, <1>3, <1>4, <1>5, <1>6, <1>7, <1>8, <1>9, PTL

(* Whichever part of the workspace is at work keeps its types.             *)
THEOREM WorkspaceTyped == WorkspaceConstants => (WorkspaceSpec => []WorkspaceTypeOK)
<1> SUFFICES ASSUME WorkspaceConstants PROVE WorkspaceSpec => []WorkspaceTypeOK OBVIOUS
<1>1. /\ ListConstants /\ CommentConstants /\ FeedConstants /\ GridConstants
      /\ ContactConstants /\ NoticeConstants /\ PushConstants
  BY DEF WorkspaceConstants
<1>2. /\ Spec => []TypeOK
      /\ ViewsSpec => []ViewsTypeOK
      /\ CommentsSpec => []CommentsTypeOK
      /\ ListSpec => []ListTypeOK
      /\ ContactsSpec => []ContactsTypeOK
      /\ ObjectSpec => [](RecordsTypeOK /\ GridTypeOK)
      /\ NoticesSpec => []NoticesTypeOK
      /\ FeedSpec => []FeedTypeOK
      /\ PushSpec => []PushTypeOK
  BY <1>1, TypeCorrect, ViewsTyped, CommentsTyped, ListTyped, ContactsTyped, ObjectTyped,
     NoticesTyped, FeedTyped, PushTyped
<1>3. TypeOK /\ ViewsTypeOK /\ CommentsTypeOK /\ ListTypeOK /\ ContactsTypeOK
      /\ RecordsTypeOK /\ GridTypeOK /\ NoticesTypeOK /\ FeedTypeOK /\ PushTypeOK
      => WorkspaceTypeOK
  BY DEF WorkspaceTypeOK
<1>4. QED BY <1>2, <1>3, EachPartRuns, PTL

(* What the members of an organization rely on holds of the whole they     *)
(* share: somebody stays in charge and nobody joins uninvited, lists open  *)
(* with one view and keep the order of a move, the records and the history *)
(* say what is stored, a discussion keeps its replies, and everybody is    *)
(* told once (routes/members.ts, savedViews.ts, lists.ts, people.ts,       *)
(* crm/notifications.ts, notes.ts, callComments.ts, callWebPush.ts).       *)
THEOREM WorkspaceStands ==
    WorkspaceConstants =>
        (WorkspaceSpec =>
            /\ [](LeadersStay /\ OneDefaultView /\ RecordsStand /\ PushedOnce /\ FeedIsTrue)
            /\ JoinsOnce /\ ThreadStands /\ MovedIsPlaced)
<1> SUFFICES ASSUME WorkspaceConstants
             PROVE  WorkspaceSpec =>
                        /\ [](LeadersStay /\ OneDefaultView /\ RecordsStand /\ PushedOnce
                              /\ FeedIsTrue)
                        /\ JoinsOnce /\ ThreadStands /\ MovedIsPlaced
  OBVIOUS
<1>1. /\ ListConstants /\ CommentConstants /\ FeedConstants /\ GridConstants
      /\ ContactConstants /\ NoticeConstants
  BY DEF WorkspaceConstants
<1>2. /\ Spec => []LeadersStay
      /\ ViewsSpec => []OneDefaultView
      /\ ContactsSpec /\ ObjectSpec /\ NoticesSpec => []RecordsStand
      /\ PushSpec => []PushedOnce
      /\ FeedSpec => []FeedIsTrue
      /\ Spec => JoinsOnce
      /\ CommentsSpec => ThreadStands
      /\ ListSpec => MovedIsPlaced
  BY <1>1, LeadersRemain, EachAudienceHasOneDefault, RecordsGoOnStanding, EachBrowserIsToldOnce,
     HistoryIsTrue, JoinsByOpenInvitation, DiscussionStands, MovesArePlaced
<1>3. QED BY <1>2, EachPartRuns, PTL
=============================================================================
