------------------------------ MODULE SavedViews ------------------------------
(* The saved views of one object and which of them opens by default:       *)
(* every member may edit a shared view, only its owner a private one, and  *)
(* each audience has a default of its own.                                 *)
(*                                                                         *)
(* routes/savedViews.ts and SavedViewService run the same statements. A    *)
(* choice of the default locks the object's row, clears the audience it    *)
(* read and sets the view; every other write is one statement, which waits *)
(* for the rows a choice has cleared and decides on what they are then.    *)
(***************************************************************************)
EXTENDS FiniteSets

CONSTANTS
    Views,        \* view ids
    ViewUsers,    \* members who may own a view
    ViewRequests, \* concurrent requests
    ViewKindSets  \* the sets of operations of which one behaviour has one

ViewKinds == {"create", "default", "delete", "restore", "share"}

VARIABLES
    viewKinds,  \* the operations of this behaviour; never changes
    viewOwner,  \* view -> ownerUserId, chosen for every id in advance
    views,      \* the rows there are, trashed or not
    trashed,    \* those with deletedAt
    shared,     \* those with isShared
    defaults,   \* those with isDefault
    viewWork    \* request -> what it is in the middle of

viewRows == <<views, trashed, shared, defaults>>
viewVars == <<viewKinds, viewOwner, viewRows, viewWork>>

Live == views \ trashed

(* view, isShared: what findVisibleView read, or the visibility a PATCH    *)
(* writes; held: the rows a choice of the default has cleared and not      *)
(* committed.                                                              *)
ViewTask == [pc : {"lock", "set", "delete", "restore", "share"}, view : Views,
             isShared : BOOLEAN, held : SUBSET Views]
NoViewTask == [pc |-> "idle"]

ViewsInit ==
    /\ viewKinds \in ViewKindSets /\ viewOwner \in [Views -> ViewUsers]
    /\ views \in SUBSET Views /\ shared \in SUBSET views /\ trashed = {} /\ defaults = {}
    /\ viewWork = [r \in ViewRequests |-> NoViewTask]

canEditSavedView(u, v) == viewOwner[v] = u \/ v \in shared

(* The live views a choice for v clears: the shared ones, or the private   *)
(* ones of its owner.                                                      *)
Audience(v, isShared) ==
    {w \in Live : IF isShared THEN w \in shared
                  ELSE w \notin shared /\ viewOwner[w] = viewOwner[v]}

Unlocked(v) == \A q \in ViewRequests : viewWork[q].pc = "set" => v \notin viewWork[q].held

Reads(r, op, pc, v, isShared) ==
    /\ op \in viewKinds /\ viewWork[r].pc = "idle"
    /\ \E u \in ViewUsers : canEditSavedView(u, v)
    /\ viewWork' = [viewWork EXCEPT ![r] = [pc |-> pc, view |-> v, isShared |-> isShared,
                                            held |-> {}]]
    /\ UNCHANGED <<viewKinds, viewOwner, viewRows>>
Writes(r, pc) ==
    /\ viewWork[r].pc = pc
    /\ pc # "lock" => viewWork' = [viewWork EXCEPT ![r] = NoViewTask]
    /\ UNCHANGED <<viewKinds, viewOwner>>

-----------------------------------------------------------------------------
(* POST / and POST /:id/duplicate: a private row of the member's.          *)
CreateView(v) ==
    /\ "create" \in viewKinds /\ v \notin views
    /\ views' = views \cup {v}
    /\ UNCHANGED <<viewKinds, viewOwner, trashed, shared, defaults, viewWork>>

(* POST /:id/default.                                                      *)
ReadForDefault(r, v) == v \in Live /\ Reads(r, "default", "lock", v, v \in shared)

(* Mutant: without the object's row the clearing waits for the rows it     *)
(* finds, and there may be none.                                           *)
LockRowsAndClear(r) ==
    LET task == viewWork[r]
        audience == Audience(task.view, task.isShared) IN
    /\ Writes(r, "lock") /\ \A v \in audience : Unlocked(v)
    /\ viewWork' = [viewWork EXCEPT ![r].pc = "set", ![r].held = audience]
    /\ UNCHANGED viewRows

(* FOR UPDATE of the object's row, and the statement that clears.          *)
LockAndClear(r) ==
    LET task == viewWork[r] IN
    /\ Writes(r, "lock") /\ \A q \in ViewRequests : viewWork[q].pc # "set"
    /\ viewWork' = [viewWork EXCEPT ![r].pc = "set",
                                    ![r].held = Audience(task.view, task.isShared)]
    /\ UNCHANGED viewRows

(* The view must still be in that audience, or the choice is rolled back.  *)
SetDefault(r) ==
    LET task == viewWork[r] IN
    /\ Writes(r, "set")
    /\ IF task.view \in Live /\ (task.view \in shared <=> task.isShared)
       THEN defaults' = (defaults \ task.held) \cup {task.view}
       ELSE UNCHANGED defaults
    /\ UNCHANGED <<views, trashed, shared>>

(* DELETE /:id, of no default, and POST /:id/restore.                      *)
ReadForDelete(r, v) == v \in Live \ defaults /\ Reads(r, "delete", "delete", v, v \in shared)

DeleteView(r) ==
    LET v == viewWork[r].view IN
    /\ Writes(r, "delete") /\ Unlocked(v)
    /\ trashed' = IF v \in Live \ defaults THEN trashed \cup {v} ELSE trashed
    /\ UNCHANGED <<views, shared, defaults>>

ReadForRestore(r, v) ==
    v \in trashed /\ Reads(r, "restore", "restore", v, v \in shared)

RestoreView(r) ==
    /\ Writes(r, "restore")
    /\ trashed' = trashed \ {viewWork[r].view}
    /\ UNCHANGED <<views, shared, defaults>>

(* PATCH isShared: what the view was when it was read decides whether a    *)
(* default changes its audience.                                           *)
ReadForShare(r, v, isShared) ==
    /\ v \in Live /\ (v \in defaults => (isShared <=> v \in shared))
    /\ Reads(r, "share", "share", v, isShared)

ShareView(r) ==
    LET task == viewWork[r] IN
    /\ Writes(r, "share") /\ Unlocked(task.view)
    /\ shared' = IF task.view \notin Live THEN shared
                 ELSE IF task.isShared THEN shared \cup {task.view} ELSE shared \ {task.view}
    /\ UNCHANGED <<views, trashed, defaults>>

ViewsNext ==
    \/ \E v \in Views : CreateView(v)
    \/ \E r \in ViewRequests, v \in Views :
          \/ ReadForDefault(r, v) \/ ReadForDelete(r, v) \/ ReadForRestore(r, v)
          \/ \E isShared \in BOOLEAN : ReadForShare(r, v, isShared)
    \/ \E r \in ViewRequests :
          LockAndClear(r) \/ SetDefault(r) \/ DeleteView(r) \/ RestoreView(r) \/ ShareView(r)

ViewsSpec == ViewsInit /\ [][ViewsNext]_viewVars

-----------------------------------------------------------------------------
ViewsTypeOK ==
    /\ viewKinds \in ViewKindSets /\ viewOwner \in [Views -> ViewUsers]
    /\ views \subseteq Views /\ trashed \subseteq views /\ shared \subseteq views
    /\ defaults \subseteq views
    /\ viewWork \in [ViewRequests -> ViewTask \cup {NoViewTask}]

SameAudience(v, w) ==
    (v \in shared /\ w \in shared)
    \/ (v \notin shared /\ w \notin shared /\ viewOwner[v] = viewOwner[w])

(* An audience opens with one view at most, and never with a trashed one:  *)
(* the lock and the two statements of POST /:id/default, beside deletions  *)
(* and restores. Without changes of isShared, which check a stale read.    *)
OneDefaultView ==
    "share" \notin viewKinds =>
        /\ defaults \subseteq Live
        /\ \A v, w \in defaults : SameAudience(v, w) => v = w

(* Refuted with "share": "two set-default requests cannot both ... select  *)
(* themselves", but a view that becomes the default while its visibility   *)
(* changes takes the flag along.                                           *)
OneDefaultEvenShared == \A v, w \in defaults : SameAudience(v, w) => v = w
=============================================================================
