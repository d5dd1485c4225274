------------------------------- MODULE Workspace -------------------------------
(* What the members of one organization share and change at once: itself,  *)
(* the saved views, the discussion of a call, the order of a list, the     *)
(* phones of a person, the records of an object and the grid they are      *)
(* edited in, the history of an account, and what they are told of. They   *)
(* share no state: one behaviour is one of a single component, the others  *)
(* having nothing to do.                                                   *)
(***************************************************************************)
EXTENDS Members, SavedViews, ListEntries, CallComments, WorkspaceRecords, AccountFeed, CallPushes

CONSTANTS FeedKindSets, PushKindSets

(* What the theorems ask of the constants.                                 *)
WorkspaceConstants ==
    /\ ListConstants /\ CommentConstants /\ FeedConstants /\ GridConstants
    /\ ContactConstants /\ NoticeConstants /\ PushConstants

-----------------------------------------------------------------------------
records == <<listVars, contactVars, objectVars>>
news == <<noticeVars, feedVars, pushVars>>
workspace == <<vars, viewVars, commentVars, records, news>>

AtWork(which, component, kindSets) ==
    IF which = component THEN kindSets \ {{}} ELSE {{}}

(* What has nothing to do starts in one state, and keeps it. A grid edits  *)
(* one record that is there.                                               *)
WorkspaceInit ==
    /\ \E which \in {"members", "views", "discussion", "list", "person", "object",
                      "inbox", "account", "alerts"} :
          /\ kinds \in AtWork(which, "members", KindSets)
          /\ viewKinds \in AtWork(which, "views", ViewKindSets)
          /\ commentKinds \in AtWork(which, "discussion", CommentKindSets)
          /\ listKinds \in AtWork(which, "list", {l.kinds : l \in ListInstances})
          /\ contactKinds \in AtWork(which, "person", {p.kinds : p \in ContactInstances})
          /\ fieldKinds \in AtWork(which, "object", FieldKindSets)
          /\ noticeKinds \in AtWork(which, "inbox", {i.kinds : i \in NoticeInstances})
          /\ feedKinds \in AtWork(which, "account", FeedKindSets)
          /\ pushKinds \in AtWork(which, "alerts", PushKindSets)
    /\ gridKinds \in GridKindSets
    /\ viewKinds = {} => views = {} /\ viewOwner \in [Views -> {CHOOSE u \in ViewUsers : TRUE}]
    /\ commentKinds = {} => parent \in [Replies -> {CHOOSE c \in Roots : TRUE}]
    /\ Init /\ ViewsInit /\ CommentsInit /\ ListInit /\ ContactsInit
    /\ RecordsInit /\ GridInit /\ NoticesInit /\ FeedInit /\ PushInit
    /\ fieldKinds = {} => liveRecords = {}
    /\ gridKinds # {} => fieldKinds = {"patch", "trash"} /\ Cell \in liveRecords

WorkspaceNext ==
    \/ kinds # {} /\ Next /\ UNCHANGED <<viewVars, commentVars, records, news>>
    \/ viewKinds # {} /\ ViewsNext /\ UNCHANGED <<vars, commentVars, records, news>>
    \/ commentKinds # {} /\ CommentsNext /\ UNCHANGED <<vars, viewVars, records, news>>
    \/ listKinds # {} /\ ListNext
       /\ UNCHANGED <<vars, viewVars, commentVars, contactVars, objectVars, news>>
    \/ contactKinds # {} /\ ContactsNext
       /\ UNCHANGED <<vars, viewVars, commentVars, listVars, objectVars, news>>
    \/ fieldKinds # {} /\ ObjectNext
       /\ UNCHANGED <<vars, viewVars, commentVars, listVars, contactVars, news>>
    \/ noticeKinds # {} /\ NoticesNext
       /\ UNCHANGED <<vars, viewVars, commentVars, records, feedVars, pushVars>>
    \/ feedKinds # {} /\ FeedNext
       /\ UNCHANGED <<vars, viewVars, commentVars, records, noticeVars, pushVars>>
    \/ pushKinds # {} /\ PushNext
       /\ UNCHANGED <<vars, viewVars, commentVars, records, noticeVars, feedVars>>

WorkspaceSpec == WorkspaceInit /\ [][WorkspaceNext]_workspace

-----------------------------------------------------------------------------
(* Each component that has something to do keeps its types.                *)
WorkspaceTypeOK ==
    /\ kinds # {} => TypeOK
    /\ viewKinds # {} => ViewsTypeOK
    /\ commentKinds # {} => CommentsTypeOK
    /\ listKinds # {} => ListTypeOK
    /\ contactKinds # {} => ContactsTypeOK
    /\ fieldKinds # {} => RecordsTypeOK /\ GridTypeOK
    /\ noticeKinds # {} => NoticesTypeOK
    /\ feedKinds # {} => FeedTypeOK
    /\ pushKinds # {} => PushTypeOK
=============================================================================
