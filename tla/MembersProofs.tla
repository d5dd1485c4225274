---------------------------- MODULE MembersProofs ----------------------------
(* Theorems about Members, for any number of people, teams, invitations    *)
(* and requests: type correctness with the exclusion of the row locks,     *)
(* that demotions, removals and rosters leave somebody in charge, and that *)
(* nobody joins but by an invitation that was open.                        *)
EXTENDS Members, FiniteSetTheorems, TLAPS

(* What a request in the middle of something knows. A transaction that may *)
(* take an administrator away has counted two that nobody else can touch.  *)
TakesAdmin(task) ==
    \/ task.pc = "setRole" /\ task.next = "basic"
    \/ task.pc \in {"removeTeams", "remove"} /\ task.found = "admin"
HasCounted(task) == TakesAdmin(task) => \E u, v \in task.held \cap ActiveAdmins : u # v

(* A removal past its first lock holds the row it will take, unless that   *)
(* was gone already and nobody can come back.                              *)
Removes(task) ==
    \/ task.pc \in {"removeTeams", "remove"}
    \/ task.pc \in {"countSnapshot", "countLock"} /\ task.next = "none"
HoldsWhatItRemoves(task) ==
    "invite" \notin kinds /\ Removes(task) /\ isActive[task.user] => task.user \in task.held
RemovesNoLead(task) ==
    "invite" \notin kinds /\ task.pc = "remove" => \A t \in Teams : lead[t] # task.user

(* Without promotions and invitations a request only takes roles away, and *)
(* it still counts whom it has to count.                                   *)
RaisesNobody(task) ==
    kinds \cap {"promote", "invite"} = {} =>
        /\ task.pc = "setRole" => task.next = "basic"
        /\ task.pc = "removeLock" => task.next = "none"
        /\ task.pc \in {"countSnapshot", "countLock"} =>
              IF task.next = "none" THEN task.found = "admin" ELSE task.next = "basic"
        /\ task.pc \in {"removeLock", "removeTeams", "remove"} /\ task.found # "admin"
              => roles[task.user] \notin ADMIN_ROLES

(* A claim is about the invitation it found, whose invitee and role never  *)
(* change.                                                                 *)
ClaimsWhatIsOffered(task) ==
    task.pc = "claim" =>
        /\ "invite" \in kinds
        /\ task.id \in Invitations /\ invitation[task.id] # "none"
        /\ task.user = invitee[task.id] /\ task.next = offer[task.id]

NamesUser(task) == task.pc = "removeLock" \/ Removes(task) => task.user \in Users

Knows(task) ==
    /\ \A u \in task.held : isActive[u]
    /\ task.pc = "teamLock" /\ task.newLead # Nil => task.newLead \in task.members
    /\ NamesUser(task)
    /\ HasCounted(task) /\ HoldsWhatItRemoves(task) /\ RemovesNoLead(task)
    /\ RaisesNobody(task) /\ ClaimsWhatIsOffered(task)

MemberInv == TypeOK /\ LeadersStay /\ \A r \in Requests : Knows(work[r])

-----------------------------------------------------------------------------
(* Type correctness.                                                       *)

(* Who is to be removed is somebody.                                       *)
RemovalsNameUsers ==
    \A r \in Requests : work[r].pc = "removeLock" => work[r].user \in Users

(* A request that does nothing is one.                                     *)
LEMMA NoWorkType == NoWork \in Work
BY MemberConstants DEF NoWork, Work, Pcs, Roles

(* One request moves on, with locks that nobody else has.                  *)
LEMMA WorkGoes ==
    ASSUME TypeOK, NEW r \in Requests, NEW task \in Work, work' = [work EXCEPT ![r] = task],
           task.held \cap LockedForOther(r) = {}
    PROVE  work' \in [Requests -> Work] /\ LocksExclude'
<1>1. work \in [Requests -> Work] /\ LocksExclude BY DEF TypeOK
<1>2. work' \in [Requests -> Work] BY <1>1
<1>3. \A q \in Requests : work'[q] = IF q = r THEN task ELSE work[q] BY <1>1
<1>4. \A q \in Requests \ {r} : task.held \cap work[q].held = {} BY DEF LockedForOther
<1>5. LocksExclude' BY <1>1, <1>3, <1>4 DEF LocksExclude
<1>6. QED BY <1>2, <1>5

(* What it has locked already is its own.                                  *)
LEMMA HeldIsOwn ==
    ASSUME TypeOK, NEW r \in Requests PROVE work[r].held \cap LockedForOther(r) = {}
BY DEF TypeOK, LocksExclude, LockedForOther

(* It keeps its locks when it goes on, loses them when it ends, and begins *)
(* without any.                                                            *)
LEMMA GoType ==
    ASSUME TypeOK, NEW r \in Requests, NEW pc \in Pcs, Go(r, pc)
    PROVE  work' \in [Requests -> Work] /\ LocksExclude'
<1> DEFINE task == [work[r] EXCEPT !.pc = pc]
<1>1. work[r] \in Work BY DEF TypeOK
<1>2. task \in Work /\ task.held = work[r].held BY <1>1 DEF Work
<1>3. work' = [work EXCEPT ![r] = task] BY DEF Go, TypeOK
<1>4. QED BY <1>2, <1>3, HeldIsOwn, WorkGoes

LEMMA DoneType ==
    ASSUME TypeOK, NEW r \in Requests, Done(r)
    PROVE  work' \in [Requests -> Work] /\ LocksExclude'
<1>1. NoWork.held \cap LockedForOther(r) = {} BY DEF NoWork
<1>2. QED BY <1>1, NoWorkType, WorkGoes DEF Done

LEMMA BeginType ==
    ASSUME TypeOK, NEW r \in Requests, NEW kind, NEW task \in Work, task.held = {},
           Begin(r, kind, task)
    PROVE  work' \in [Requests -> Work] /\ LocksExclude'
BY WorkGoes DEF Begin

(* The rows a statement locks one by one.                                  *)
LEMMA LockType ==
    ASSUME TypeOK, NEW r \in Requests, NEW pc \in Pcs, NEW targets \in SUBSET Users,
           NEW held \in SUBSET Users, held \cap LockedForOther(r) = {},
           work' = [work EXCEPT ![r] = [@ EXCEPT !.pc = pc, !.targets = targets, !.held = held]]
    PROVE  work' \in [Requests -> Work] /\ LocksExclude'
<1> DEFINE task == [work[r] EXCEPT !.pc = pc, !.targets = targets, !.held = held]
<1>1. work[r] \in Work BY DEF TypeOK
<1>2. task \in Work /\ task.held = held BY <1>1 DEF Work
<1>3. work' = [work EXCEPT ![r] = task] BY DEF TypeOK
<1>4. QED BY <1>2, <1>3, WorkGoes

(* The step of a transaction keeps the types.                              *)
LEMMA TransactionType ==
    ASSUME TypeOK, RemovalsNameUsers, NEW r \in Requests, TransactionStep(r) PROVE TypeOK'
<1> DEFINE Goes == work' \in [Requests -> Work] /\ LocksExclude'
<1> USE DEF memberVars, teamVars, inviteVars
<1>1. work \in [Requests -> Work] /\ work[r] \in Work BY DEF TypeOK
<1>2. /\ work[r].user \in Users \cup {Nil} /\ work[r].next \in Roles
      /\ work[r].members \in SUBSET Users /\ work[r].newLead \in Users \cup {Nil}
      /\ work[r].targets \in SUBSET Users /\ work[r].held \in SUBSET Users
  BY <1>1 DEF Work
<1>3. ActiveAdmins \in SUBSET Users BY DEF ActiveAdmins
<1>4. ASSUME Goes, UNCHANGED <<kinds, memberVars, teamVars, inviteVars>> PROVE TypeOK'
  BY <1>4 DEF TypeOK, LocksExclude
<1>5. ASSUME Done(r) PROVE Goes BY <1>5, DoneType
<1>6. ASSUME NEW pc \in Pcs, Go(r, pc) PROVE Goes BY <1>6, GoType
<1>7. ASSUME CountSnapshot(r) PROVE TypeOK'
  <2>1. work' = [work EXCEPT ![r] = [@ EXCEPT !.pc = "countLock", !.targets = ActiveAdmins,
                                             !.held = work[r].held]]
    BY <1>1, <1>7 DEF CountSnapshot, Work
  <2>2. Goes BY <1>2, <1>3, <2>1, HeldIsOwn, LockType DEF Pcs
  <2>3. QED BY <1>4, <1>7, <2>2 DEF CountSnapshot
<1>8. ASSUME NEW u \in Users, CountLock(r, u) PROVE TypeOK'
  <2> DEFINE held == IF u \in ActiveAdmins THEN work[r].held \cup {u} ELSE work[r].held
  <2>1. work' = [work EXCEPT ![r] = [@ EXCEPT !.pc = "countLock", !.targets = work[r].targets \ {u},
                                             !.held = held]]
    BY ZenonT(40), <1>1, <1>8 DEF CountLock, Work
  <2>2. held \in SUBSET Users /\ held \cap LockedForOther(r) = {}
    BY <1>2, <1>8, HeldIsOwn DEF CountLock
  <2>3. Goes BY <1>2, <2>1, <2>2, LockType DEF Pcs
  <2>4. QED BY <1>4, <1>8, <2>3 DEF CountLock
<1>9. ASSUME CountDone(r) PROVE TypeOK'
  <2>1. Goes BY <1>5, <1>6, <1>9 DEF CountDone, Pcs
  <2>2. QED BY <1>4, <1>9, <2>1 DEF CountDone
<1>10. ASSUME DeadlockVictim(r) PROVE TypeOK' BY <1>4, <1>5, <1>10 DEF DeadlockVictim
<1>11. ASSUME SetRole(r) PROVE TypeOK'
  <2>1. roles' \in [Users -> Roles] BY <1>2, <1>11 DEF SetRole, TypeOK
  <2>2. QED BY <1>5, <1>11, <2>1 DEF SetRole, TypeOK, LocksExclude
<1>12. ASSUME RemoveLock(r) PROVE TypeOK'
  <2> DEFINE u == work[r].user
             held == IF isActive[u] THEN {u} ELSE {}
             pc == IF work[r].found = "admin" THEN "countSnapshot" ELSE "removeTeams"
  <2>1. work' = [work EXCEPT ![r] = [@ EXCEPT !.pc = pc, !.targets = work[r].targets,
                                             !.held = held]]
    BY <1>1, <1>12 DEF RemoveLock, Work
  <2>2. held \in SUBSET Users BY <1>12 DEF RemoveLock, RemovalsNameUsers
  <2>3. held \cap LockedForOther(r) = {} BY <1>12 DEF RemoveLock
  <2>4. Goes BY <1>2, <2>1, <2>2, <2>3, LockType DEF Pcs
  <2>5. QED BY <1>4, <1>12, <2>4 DEF RemoveLock
<1>13. ASSUME RemoveTeams(r) PROVE TypeOK'
  <2>1. Goes BY <1>5, <1>6, <1>13 DEF RemoveTeams, Pcs
  <2>2. QED BY <1>4, <1>13, <2>1 DEF RemoveTeams
<1>14. ASSUME RemoveUser(r) PROVE TypeOK'
  <2>1. isActive' \in [Users -> BOOLEAN] /\ currentOrg' \in [Users -> BOOLEAN]
    BY <1>14 DEF RemoveUser, TypeOK
  <2>2. QED BY <1>5, <1>14, <2>1 DEF RemoveUser, TypeOK, LocksExclude
<1>15. ASSUME NEW u \in Users, TeamLock(r, u) PROVE TypeOK'
  <2> DEFINE held == IF isActive[u] THEN work[r].held \cup {u} ELSE work[r].held
  <2>1. work' = [work EXCEPT ![r] = [@ EXCEPT !.pc = "teamLock", !.targets = work[r].targets \ {u},
                                             !.held = held]]
    BY ZenonT(40), <1>1, <1>15 DEF TeamLock, Work
  <2>2. held \in SUBSET Users /\ held \cap LockedForOther(r) = {}
    BY <1>2, <1>15, HeldIsOwn DEF TeamLock
  <2>3. Goes BY <1>2, <2>1, <2>2, LockType DEF Pcs
  <2>4. QED BY <1>4, <1>15, <2>3 DEF TeamLock
<1>16. ASSUME TeamWrite(r) PROVE TypeOK'
  <2>1. lead' \in [Teams -> Users \cup {Nil}] BY <1>2, <1>16 DEF TeamWrite, TypeOK
  <2>2. roster' \in [Teams -> SUBSET Users] BY <1>2, <1>16 DEF TeamWrite, TypeOK
  <2>3. archived' \in [Teams -> BOOLEAN] BY <1>16 DEF TeamWrite, TypeOK
  <2>4. QED BY <1>5, <1>16, <2>1, <2>2, <2>3 DEF TeamWrite, TypeOK, LocksExclude
<1>17. ASSUME InviteCheck(r) PROVE TypeOK'
  <2>1. Goes BY <1>5, <1>6, <1>17 DEF InviteCheck, Pcs
  <2>2. invitation' \in [Invitations -> InvitationStatuses]
    BY <1>17 DEF InviteCheck, ExpireStale, TypeOK, InvitationStatuses
  <2>3. QED BY <1>17, <2>1, <2>2 DEF InviteCheck, UnchangedByInvite, TypeOK, LocksExclude
<1>18. ASSUME NEW i \in Invitations, InviteCreate(r, i) PROVE TypeOK'
  <2>1. Goes BY <1>5, <1>18 DEF InviteCreate
  <2>2. /\ invitation' \in [Invitations -> InvitationStatuses]
        /\ invitee' \in [Invitations -> Users \cup {Nil}] /\ offer' \in [Invitations -> Roles]
    BY <1>2, <1>18 DEF InviteCreate, TypeOK, InvitationStatuses
  <2>3. QED BY <1>18, <2>1, <2>2 DEF InviteCreate, UnchangedByInvite, TypeOK, LocksExclude
<1>19. ASSUME Claim(r) PROVE TypeOK'
  <2>1. Goes BY <1>5, <1>19 DEF Claim
  <2>2. /\ invitation' \in [Invitations -> InvitationStatuses] /\ roles' \in [Users -> Roles]
        /\ isActive' \in [Users -> BOOLEAN] /\ currentOrg' \in [Users -> BOOLEAN]
    BY <1>2, <1>19 DEF Claim, TypeOK, InvitationStatuses
  <2>3. QED BY <1>19, <2>1, <2>2 DEF Claim, TypeOK, LocksExclude
<1>20. ASSUME Switch(r) PROVE TypeOK'
  <2>1. currentOrg' \in [Users -> BOOLEAN] BY <1>20 DEF Switch, TypeOK
  <2>2. QED BY <1>5, <1>20, <2>1 DEF Switch, TypeOK, LocksExclude
<1>21. QED
  BY <1>7, <1>8, <1>9, <1>10, <1>11, <1>12, <1>13, <1>14, <1>15, <1>16, <1>17, <1>18, <1>19,
     <1>20 DEF TransactionStep

(* A request that begins has read rows that are there.                     *)
LEMMA NewRequestType ==
    ASSUME TypeOK, NEW r \in Requests, NewRequest(r) PROVE TypeOK'
<1> DEFINE Goes == work' \in [Requests -> Work] /\ LocksExclude'
<1> USE DEF memberVars, teamVars, inviteVars
<1>1. ASSUME Goes, UNCHANGED <<kinds, memberVars, teamVars, inviteVars>> PROVE TypeOK'
  BY <1>1 DEF TypeOK, LocksExclude
<1>2. ASSUME NEW u \in Users, NEW next \in {"basic", "admin"}, RoleFind(r, u, next)
      PROVE  TypeOK'
  <2> DEFINE task == [NoWork EXCEPT !.user = u, !.found = roles[u], !.next = next,
                        !.pc = IF next = "basic" THEN "countSnapshot" ELSE "setRole"]
  <2>1. roles[u] \in Roles BY DEF TypeOK
  <2>2. task \in Work /\ task.held = {} BY ZenonT(40), <2>1, NoWorkType DEF NoWork, Work, Pcs, Roles
  <2>3. QED BY <1>1, <1>2, <2>2, BeginType DEF RoleFind
<1>3. ASSUME NEW u \in Users, NEW role \in {"basic", "admin"}, InviteMemberCheck(r, u, role)
      PROVE  TypeOK'
  <2> DEFINE task == [NoWork EXCEPT !.user = u, !.next = role, !.pc = "checkInvited"]
  <2>1. task \in Work /\ task.held = {} BY NoWorkType DEF NoWork, Work, Pcs, Roles
  <2>2. QED BY <1>1, <1>3, <2>1, BeginType DEF InviteMemberCheck, UnchangedByInvite
<1>4. ASSUME NEW u \in Users, RemoveFind(r, u) PROVE TypeOK'
  <2> DEFINE task == [NoWork EXCEPT !.user = u, !.found = roles[u], !.pc = "removeLock"]
  <2>1. roles[u] \in Roles BY DEF TypeOK
  <2>2. task \in Work /\ task.held = {} BY <2>1, NoWorkType DEF NoWork, Work, Pcs
  <2>3. QED BY <1>1, <1>4, <2>2, BeginType DEF RemoveFind
<1>5. ASSUME NEW u \in Users, SwitchFind(r, u) PROVE TypeOK'
  <2> DEFINE task == [NoWork EXCEPT !.user = u, !.pc = "switch"]
  <2>1. task \in Work /\ task.held = {} BY NoWorkType DEF NoWork, Work, Pcs
  <2>2. QED BY <1>1, <1>5, <2>1, BeginType DEF SwitchFind
<1>6. ASSUME NEW t \in Teams, NEW members \in Rosters, NEW u \in Users,
             TeamCreate(r, t, members, u)
      PROVE  TypeOK'
  <2> DEFINE task == [NoWork EXCEPT !.team = t, !.members = members, !.newLead = u,
                        !.rewrite = TRUE, !.targets = {v \in members : isActive[v]},
                        !.pc = "teamLock"]
  <2>1. members \in SUBSET Users BY MemberConstants
  <2>2. task \in Work /\ task.held = {} BY <2>1, NoWorkType DEF NoWork, Work, Pcs
  <2>3. QED BY <1>1, <1>6, <2>2, BeginType DEF TeamCreate
<1>7. ASSUME NEW t \in Teams, NEW members \in Rosters \cup {{}}, NEW u \in Users \cup {Nil},
             NEW shelf \in {"keep", "archive", "recover"}, TeamEdit(r, t, members, u, shelf)
      PROVE  TypeOK'
  <2> DEFINE whole == IF members = {} THEN roster[t] ELSE members
             task == [NoWork EXCEPT !.team = t, !.members = whole, !.newLead = u,
                        !.rewrite = members # {}, !.shelf = shelf,
                        !.targets = {v \in whole : isActive[v]}, !.pc = "teamLock"]
  <2>1. whole \in SUBSET Users /\ {v \in whole : isActive[v]} \in SUBSET Users
    BY MemberConstants DEF TypeOK
  <2>2. task \in Work /\ task.held = {}
    <3> DEFINE targets == {v \in whole : isActive[v]}
               rewrite == members # {}
    <3>1. targets \in SUBSET Users /\ whole \in SUBSET Users /\ rewrite \in BOOLEAN BY <2>1
    <3> HIDE DEF targets, whole, rewrite
    <3>2. [NoWork EXCEPT !.team = t, !.members = whole, !.newLead = u, !.rewrite = rewrite,
             !.shelf = shelf, !.targets = targets, !.pc = "teamLock"] \in Work
      BY <3>1, NoWorkType DEF NoWork, Work, Pcs
    <3>3. QED BY <3>2 DEF targets, whole, rewrite, NoWork
  <2>3. Begin(r, "team", task) BY <1>7 DEF TeamEdit
  <2>4. QED BY <1>1, <1>7, <2>2, <2>3, BeginType DEF TeamEdit
<1>8. ASSUME NEW i \in Invitations, AcceptFind(r, i) PROVE TypeOK'
  <2> DEFINE task == [NoWork EXCEPT !.user = invitee[i], !.next = offer[i], !.id = i,
                        !.seen = link[i], !.pc = "claim"]
  <2>1. CASE invitation[i] = "overdue"
    BY <1>8, <2>1 DEF AcceptFind, UnchangedByInvite, TypeOK, LocksExclude, InvitationStatuses
  <2>2. CASE invitation[i] # "overdue"
    <3>1. invitee[i] \in Users \cup {Nil} /\ offer[i] \in Roles /\ link[i] \in Nat
      BY MemberConstants DEF TypeOK
    <3>2. task \in Work /\ task.held = {} BY <3>1, NoWorkType DEF NoWork, Work, Pcs
    <3>3. QED BY <1>1, <1>8, <2>2, <3>2, BeginType DEF AcceptFind, UnchangedByInvite
  <2>3. QED BY <2>1, <2>2
<1>9. QED
  BY <1>2, <1>3, <1>4, <1>5, <1>6, <1>7, <1>8 DEF NewRequest

(* Only a removal that begins comes to its lock.                           *)
LEMMA NamesStep ==
    ASSUME TypeOK, RemovalsNameUsers, NEW r \in Requests, TransactionStep(r) \/ NewRequest(r)
    PROVE  RemovalsNameUsers'
<1>1. work \in [Requests -> Work] /\ work[r] \in Work BY DEF TypeOK
<1>2. ASSUME NEW task, work' = [work EXCEPT ![r] = task], task.pc # "removeLock"
      PROVE  RemovalsNameUsers'
  BY <1>1, <1>2 DEF RemovalsNameUsers
<1>3. ASSUME NEW task, work' = [work EXCEPT ![r] = task], task.pc = work[r].pc,
             task.user = work[r].user
      PROVE  RemovalsNameUsers'
  BY <1>1, <1>3 DEF RemovalsNameUsers
<1>4. ASSUME NEW pc, Go(r, pc), pc # "removeLock" PROVE RemovalsNameUsers'
  <2>1. work' = [work EXCEPT ![r] = [work[r] EXCEPT !.pc = pc]] BY <1>1, <1>4 DEF Go
  <2>2. [work[r] EXCEPT !.pc = pc].pc # "removeLock" BY <1>1, <1>4 DEF Work
  <2>3. QED BY <1>2, <2>1, <2>2
<1>5. ASSUME Done(r) PROVE RemovalsNameUsers'
  <2>1. NoWork.pc # "removeLock" BY DEF NoWork
  <2>2. QED BY <1>2, <1>5, <2>1 DEF Done
<1>6. ASSUME NEW kind, NEW task, Begin(r, kind, task), task.pc # "removeLock"
      PROVE  RemovalsNameUsers'
  BY <1>2, <1>6 DEF Begin
<1>7. CASE NewRequest(r)
  <2>1. ASSUME NEW u \in Users, NEW next \in {"basic", "admin"},
               RoleFind(r, u, next) \/ InviteMemberCheck(r, u, next)
        PROVE  RemovalsNameUsers'
    BY <1>6, <2>1 DEF RoleFind, InviteMemberCheck, NoWork
  <2>2. ASSUME NEW u \in Users, RemoveFind(r, u) PROVE RemovalsNameUsers'
    BY <1>1, <2>2 DEF RemoveFind, Begin, RemovalsNameUsers, NoWork
  <2>3. ASSUME NEW u \in Users, SwitchFind(r, u) PROVE RemovalsNameUsers'
    BY <1>6, <2>3 DEF SwitchFind, NoWork
  <2>4. ASSUME NEW t \in Teams, NEW members, NEW u, TeamCreate(r, t, members, u)
        PROVE  RemovalsNameUsers'
    BY <1>6, <2>4 DEF TeamCreate, NoWork
  <2>5. ASSUME NEW t \in Teams, NEW members, NEW u, NEW shelf, TeamEdit(r, t, members, u, shelf)
        PROVE  RemovalsNameUsers'
    BY <1>6, <2>5 DEF TeamEdit, NoWork
  <2>6. ASSUME NEW i \in Invitations, AcceptFind(r, i) PROVE RemovalsNameUsers'
    BY <1>6, <2>6 DEF AcceptFind, RemovalsNameUsers, NoWork
  <2>7. QED BY <1>7, <2>1, <2>2, <2>3, <2>4, <2>5, <2>6 DEF NewRequest
<1>8. CASE CountSnapshot(r)
  <2>1. work' = [work EXCEPT ![r] = [work[r] EXCEPT !.pc = "countLock", !.targets = ActiveAdmins]]
    BY <1>1, <1>8 DEF CountSnapshot
  <2>2. [work[r] EXCEPT !.pc = "countLock", !.targets = ActiveAdmins].pc # "removeLock"
    BY <1>1 DEF Work
  <2>3. QED BY <1>2, <2>1, <2>2
<1>9. ASSUME NEW u \in Users, CountLock(r, u) \/ TeamLock(r, u) PROVE RemovalsNameUsers'
  <2>1. PICK held : work' = [work EXCEPT ![r] = [work[r] EXCEPT !.targets = @ \ {u}, !.held = held]]
    BY <1>1, <1>9 DEF CountLock, TeamLock
  <2>2. QED BY <1>1, <1>3, <2>1 DEF Work
<1>10. CASE RemoveLock(r)
  <2> DEFINE held == IF isActive[work[r].user] THEN {work[r].user} ELSE {}
             pc == IF work[r].found = "admin" THEN "countSnapshot" ELSE "removeTeams"
  <2>1. work' = [work EXCEPT ![r] = [work[r] EXCEPT !.held = held, !.pc = pc]]
    BY <1>1, <1>10 DEF RemoveLock
  <2>2. [work[r] EXCEPT !.held = held, !.pc = pc].pc # "removeLock" BY <1>1 DEF Work
  <2>3. QED BY <1>2, <2>1, <2>2
<1>11. CASE \/ CountDone(r) \/ DeadlockVictim(r) \/ SetRole(r) \/ RemoveTeams(r) \/ RemoveUser(r)
            \/ TeamWrite(r) \/ InviteCheck(r) \/ Claim(r) \/ Switch(r)
            \/ \E i \in Invitations : InviteCreate(r, i)
  BY <1>4, <1>5, <1>11 DEF CountDone, DeadlockVictim, SetRole, RemoveTeams, RemoveUser, TeamWrite,
     InviteCheck, InviteCreate, Claim, Switch
<1>12. QED BY <1>7, <1>8, <1>9, <1>10, <1>11 DEF TransactionStep

(* Every step keeps the types and the exclusion.                           *)
LEMMA TypeStep ==
    ASSUME TypeOK, RemovalsNameUsers, [Next]_vars PROVE TypeOK' /\ RemovalsNameUsers'
<1> USE DEF memberVars, teamVars, inviteVars
<1>1. ASSUME NEW i \in Invitations, InvitationOverdue(i) \/ Regenerate(i) \/ Revoke(i)
      PROVE  TypeOK'
  <2>1. invitation' \in [Invitations -> InvitationStatuses]
    BY <1>1 DEF InvitationOverdue, Regenerate, Revoke, TypeOK, InvitationStatuses
  <2>2. link' \in [Invitations -> 0..MaxLinks]
    BY <1>1, MemberConstants DEF InvitationOverdue, Regenerate, Revoke, TypeOK
  <2>3. QED
    BY <1>1, <2>1, <2>2 DEF InvitationOverdue, Regenerate, Revoke, UnchangedByInvite, TypeOK,
       LocksExclude
<1>2. ASSUME ListInvitations PROVE TypeOK'
  BY <1>2 DEF ListInvitations, ExpireStale, UnchangedByInvite, TypeOK, InvitationStatuses,
     LocksExclude
<1>3. ASSUME NEW u \in Users, SwitchAway(u) PROVE TypeOK'
  BY <1>3 DEF SwitchAway, TypeOK, LocksExclude
<1>4. ASSUME UNCHANGED vars PROVE TypeOK' BY <1>4 DEF vars, TypeOK, LocksExclude
<1>5. TypeOK' BY <1>1, <1>2, <1>3, <1>4, TransactionType, NewRequestType DEF Next
<1>6. ASSUME NEW r \in Requests, TransactionStep(r) \/ NewRequest(r) PROVE RemovalsNameUsers'
  BY <1>6, NamesStep
<1>7. ASSUME work' = work PROVE RemovalsNameUsers' BY <1>7 DEF RemovalsNameUsers
<1>8. RemovalsNameUsers'
  BY <1>6, <1>7 DEF Next, vars, InvitationOverdue, Regenerate, Revoke, ListInvitations, SwitchAway
<1>9. QED BY <1>5, <1>8

(* The organisation begins with its founder's rows and no open request.    *)
LEMMA TypeInit == Init => TypeOK /\ RemovalsNameUsers
<1>1. SUFFICES ASSUME Init PROVE TypeOK /\ RemovalsNameUsers OBVIOUS
<1>2. work \in [Requests -> Work] BY <1>1, NoWorkType DEF Init
<1>3. LocksExclude BY <1>1 DEF Init, LocksExclude, NoWork
<1>4. TypeOK
  BY <1>1, <1>2, <1>3, MemberConstants DEF Init, TypeOK, Roles, InvitationStatuses
<1>5. QED BY <1>1, <1>4 DEF Init, RemovalsNameUsers, NoWork

(* Every variable keeps its type, and no two requests hold one membership  *)
(* row, for any number of people, teams, invitations and requests.         *)
THEOREM TypeCorrect == Spec => []TypeOK
<1>1. TypeOK /\ RemovalsNameUsers /\ [Next]_vars => (TypeOK /\ RemovalsNameUsers)'
  BY TypeStep
<1>2. QED BY <1>1, TypeInit, PTL DEF Spec

-----------------------------------------------------------------------------
(* Who is in charge.                                                       *)

(* What an invitation offers and to whom stands once it is sent, and what  *)
(* is finished stays so.                                                   *)
OfferStands(i) ==
    /\ invitation[i] # "none" =>
          invitation'[i] # "none" /\ invitee'[i] = invitee[i] /\ offer'[i] = offer[i]
    /\ invitation[i] \in {"expired", "accepted", "revoked"} => invitation'[i] = invitation[i]

(* Only InviteCreate writes them, for an id that was not used.             *)
LEMMA OffersStand ==
    ASSUME TypeOK, [Next]_vars, NEW i \in Invitations PROVE OfferStands(i)
<1>1. /\ invitation \in [Invitations -> InvitationStatuses]
      /\ invitee \in [Invitations -> Users \cup {Nil}] /\ offer \in [Invitations -> Roles]
  BY DEF TypeOK
<1>2. CASE UNCHANGED inviteVars BY <1>2 DEF inviteVars, OfferStands
<1>3. ASSUME ExpireStale, UNCHANGED <<invitee, offer>> PROVE OfferStands(i)
  BY <1>1, <1>3 DEF ExpireStale, OfferStands
<1>4. ASSUME NEW j \in Invitations, invitation[j] \in {"pending", "overdue"}, NEW status,
             status # "none", invitation' = [invitation EXCEPT ![j] = status],
             UNCHANGED <<invitee, offer>>
      PROVE  OfferStands(i)
  BY <1>1, <1>4 DEF OfferStands
<1>5. ASSUME NEW j \in Invitations, InvitationOverdue(j) \/ Regenerate(j) \/ Revoke(j)
      PROVE  OfferStands(i)
  BY <1>4, <1>5 DEF InvitationOverdue, Regenerate, Revoke, Open
<1>6. ASSUME NEW r \in Requests, NEW j \in Invitations, AcceptFind(r, j) PROVE OfferStands(i)
  BY <1>2, <1>4, <1>6 DEF AcceptFind, Open, inviteVars
<1>7. ASSUME NEW r \in Requests, InviteCheck(r) PROVE OfferStands(i)
  BY <1>3, <1>7 DEF InviteCheck
<1>8. ASSUME NEW r \in Requests, NEW j \in Invitations, InviteCreate(r, j) PROVE OfferStands(i)
  BY <1>1, <1>8 DEF InviteCreate, OfferStands
<1>9. ASSUME NEW r \in Requests, Claim(r) PROVE OfferStands(i)
  <2>1. CASE ~Open(work[r].id) BY <1>2, <1>9, <2>1 DEF Claim, inviteVars
  <2>2. CASE Open(work[r].id) BY <1>1, <1>9, <2>2 DEF Claim, Open, OfferStands
  <2>3. QED BY <2>1, <2>2
<1>10. ASSUME ListInvitations PROVE OfferStands(i) BY <1>3, <1>10 DEF ListInvitations
<1>11. ASSUME NEW r \in Requests, NewRequest(r) PROVE OfferStands(i)
  BY <1>2, <1>6, <1>11 DEF NewRequest, RoleFind, RemoveFind, SwitchFind, InviteMemberCheck,
     TeamCreate, TeamEdit
<1>12. ASSUME NEW r \in Requests, TransactionStep(r) PROVE OfferStands(i)
  BY <1>2, <1>7, <1>8, <1>9, <1>12 DEF TransactionStep, CountSnapshot, CountDone, DeadlockVictim,
     CountLock, TeamLock, SetRole, RemoveLock, RemoveTeams, RemoveUser, TeamWrite, Switch
<1>13. ASSUME NEW u \in Users, SwitchAway(u) PROVE OfferStands(i)
  BY <1>2, <1>13 DEF SwitchAway
<1>14. QED BY <1>2, <1>5, <1>10, <1>11, <1>12, <1>13 DEF Next, vars

(* What another request does leaves one knowing what it knew: the rows it  *)
(* holds do not change, and what it is about changes for the better only.  *)
LEMMA OthersKnow ==
    ASSUME TypeOK, NEW q \in Requests, Knows(work[q]), work'[q] = work[q], kinds' = kinds,
           \A i \in Invitations : OfferStands(i),
           \A u \in work[q].held : isActive'[u] = isActive[u] /\ roles'[u] = roles[u],
           "invite" \notin kinds => \A u \in Users : isActive'[u] => isActive[u],
           "invite" \notin kinds /\ work[q].pc = "remove" =>
               \A t \in Teams : lead'[t] # work[q].user,
           kinds \cap {"promote", "invite"} = {} =>
               \A u \in Users : roles[u] \notin ADMIN_ROLES => roles'[u] \notin ADMIN_ROLES
    PROVE  Knows(work[q])'
<1> DEFINE task == work[q]
<1>1. task \in Work /\ task.held \subseteq Users BY DEF TypeOK, Work
<1>2. \A u \in task.held : isActive'[u] BY DEF Knows
<1>3. NamesUser(task)' BY DEF Knows, NamesUser, Removes
<1>4. HasCounted(task)'
  <2>1. \A u \in task.held \cap ActiveAdmins : u \in ActiveAdmins' BY DEF ActiveAdmins
  <2>2. QED BY <2>1 DEF Knows, HasCounted, TakesAdmin
<1>5. HoldsWhatItRemoves(task)' BY DEF Knows, NamesUser, HoldsWhatItRemoves, Removes
<1>6. RemovesNoLead(task)' BY DEF RemovesNoLead
<1>7. RaisesNobody(task)' BY DEF Knows, NamesUser, RaisesNobody, Removes
<1>8. ClaimsWhatIsOffered(task)' BY DEF Knows, ClaimsWhatIsOffered, OfferStands
<1>9. QED BY <1>2, <1>3, <1>4, <1>5, <1>6, <1>7, <1>8 DEF Knows

(* A request that is done knows nothing.                                   *)
LEMMA IdleKnows ==
    ASSUME NEW r \in Requests, work'[r].pc = "idle", work'[r].held = {} PROVE Knows(work[r])'
BY DEF Knows, NamesUser, Removes, HasCounted, TakesAdmin, HoldsWhatItRemoves, RemovesNoLead,
   RaisesNobody, ClaimsWhatIsOffered

(* So does one that ends here, and the others go on as they were.          *)
LEMMA DoneKnows ==
    ASSUME TypeOK, NEW r \in Requests, Done(r)
    PROVE  Knows(work[r])' /\ \A q \in Requests \ {r} : work'[q] = work[q]
<1>1. work \in [Requests -> Work] BY DEF TypeOK
<1>2. work'[r] = NoWork /\ \A q \in Requests \ {r} : work'[q] = work[q] BY <1>1 DEF Done
<1>3. work'[r].pc = "idle" /\ work'[r].held = {} BY <1>2 DEF NoWork
<1>4. QED BY <1>2, <1>3, IdleKnows

(* A step that leaves the rows and the leads alone, of a request that      *)
(* knows what it has to.                                                   *)
LEMMA RowsUntouched ==
    ASSUME MemberInv, TypeOK', NEW r \in Requests, Knows(work[r])',
           \A q \in Requests \ {r} : work'[q] = work[q],
           \A i \in Invitations : OfferStands(i),
           UNCHANGED <<kinds, roles, isActive, lead>>
    PROVE  MemberInv'
<1>1. ASSUME NEW q \in Requests PROVE Knows(work[q])'
  <2>1. CASE q = r BY <2>1
  <2>2. CASE q # r
    <3>1. Knows(work[q]) /\ TypeOK BY DEF MemberInv
    <3>2. QED BY <2>2, <3>1, OthersKnow DEF Knows, RemovesNoLead
  <2>3. QED BY <2>1, <2>2
<1>2. LeadersStay'
  BY DEF MemberInv, LeadersStay, OrgKeepsAdmin, TeamLeadIsActive, ActiveAdmins
<1>3. QED BY <1>1, <1>2 DEF MemberInv

(* A request begins without a lock, and says what it found.                *)
LEMMA NewRequestKeeps ==
    ASSUME MemberInv, TypeOK', NEW r \in Requests, NewRequest(r),
           \A i \in Invitations : OfferStands(i)
    PROVE  MemberInv'
<1> DEFINE Others == \A q \in Requests \ {r} : work'[q] = work[q]
           Goal == Knows(work[r])' /\ Others
<1> USE DEF memberVars, teamVars
<1>1. TypeOK /\ work \in [Requests -> Work] BY DEF MemberInv, TypeOK
<1>2. ASSUME NEW kind, NEW task, Begin(r, kind, task)
      PROVE  work'[r] = task /\ Others /\ kind \in kinds
  BY <1>1, <1>2 DEF Begin
<1>3. UNCHANGED <<kinds, roles, isActive, lead>>
  BY DEF NewRequest, RoleFind, InviteMemberCheck, RemoveFind, SwitchFind, TeamCreate, TeamEdit,
     AcceptFind, UnchangedByInvite
<1>4. ASSUME NEW u \in Users, NEW next \in {"basic", "admin"}, RoleFind(r, u, next) PROVE Goal
  <2> DEFINE task == [NoWork EXCEPT !.user = u, !.found = roles[u], !.next = next,
                        !.pc = IF next = "basic" THEN "countSnapshot" ELSE "setRole"]
  <2>1. work'[r] = task /\ Others BY <1>2, <1>4 DEF RoleFind
  <2>2. next = "admin" => "promote" \in kinds BY <1>4 DEF RoleFind, Begin
  <2>3. /\ task.held = {} /\ task.next = next
        /\ task.pc = IF next = "basic" THEN "countSnapshot" ELSE "setRole"
    BY DEF NoWork
  <2>4. QED
    BY <1>3, <2>1, <2>2, <2>3 DEF Knows, NamesUser, Removes, HasCounted, TakesAdmin,
       HoldsWhatItRemoves, RemovesNoLead, RaisesNobody, ClaimsWhatIsOffered
<1>5. ASSUME NEW u \in Users, RemoveFind(r, u) PROVE Goal
  <2> DEFINE task == [NoWork EXCEPT !.user = u, !.found = roles[u], !.pc = "removeLock"]
  <2>1. work'[r] = task /\ Others BY <1>2, <1>5 DEF RemoveFind
  <2>2. /\ task.held = {} /\ task.pc = "removeLock" /\ task.user = u /\ task.found = roles[u]
        /\ task.next = "none"
    BY DEF NoWork
  <2>3. roles[u] # "admin" => roles[u] \notin ADMIN_ROLES
    BY <1>5 DEF RemoveFind, ADMIN_ROLES
  <2>4. QED
    BY <1>3, <2>1, <2>2, <2>3 DEF Knows, NamesUser, Removes, HasCounted, TakesAdmin,
       HoldsWhatItRemoves, RemovesNoLead, RaisesNobody, ClaimsWhatIsOffered
<1>6. ASSUME NEW task, work'[r] = task, task.held = {}, task.pc \in {"checkInvited", "switch"}
      PROVE  Knows(work[r])'
  BY <1>6 DEF Knows, NamesUser, Removes, HasCounted, TakesAdmin,
     HoldsWhatItRemoves, RemovesNoLead, RaisesNobody, ClaimsWhatIsOffered
<1>7. ASSUME NEW u \in Users, NEW role \in {"basic", "admin"}, InviteMemberCheck(r, u, role)
      PROVE  Goal
  <2> DEFINE task == [NoWork EXCEPT !.user = u, !.next = role, !.pc = "checkInvited"]
  <2>1. work'[r] = task /\ Others BY <1>2, <1>7 DEF InviteMemberCheck
  <2>2. task.held = {} /\ task.pc = "checkInvited" BY DEF NoWork
  <2>3. QED BY <1>6, <2>1, <2>2
<1>8. ASSUME NEW u \in Users, SwitchFind(r, u) PROVE Goal
  <2> DEFINE task == [NoWork EXCEPT !.user = u, !.pc = "switch"]
  <2>1. work'[r] = task /\ Others BY <1>2, <1>8 DEF SwitchFind
  <2>2. task.held = {} /\ task.pc = "switch" BY DEF NoWork
  <2>3. QED BY <1>6, <2>1, <2>2
<1>9. ASSUME NEW task, work'[r] = task, task.held = {}, task.pc = "teamLock",
             task.newLead # Nil => task.newLead \in task.members
      PROVE  Knows(work[r])'
  BY <1>9 DEF Knows, NamesUser, Removes, HasCounted, TakesAdmin,
     HoldsWhatItRemoves, RemovesNoLead, RaisesNobody, ClaimsWhatIsOffered
<1>10. ASSUME NEW t \in Teams, NEW members \in Rosters, NEW u \in Users,
              TeamCreate(r, t, members, u)
       PROVE  Goal
  <2> DEFINE task == [NoWork EXCEPT !.team = t, !.members = members, !.newLead = u,
                        !.rewrite = TRUE, !.targets = {v \in members : isActive[v]},
                        !.pc = "teamLock"]
  <2>1. work'[r] = task /\ Others /\ u \in members BY <1>2, <1>10 DEF TeamCreate
  <2>2. task.held = {} /\ task.pc = "teamLock" /\ task.newLead = u /\ task.members = members
    BY DEF NoWork
  <2>3. QED BY <1>9, <2>1, <2>2
<1>11. ASSUME NEW t \in Teams, NEW members \in Rosters \cup {{}}, NEW u \in Users \cup {Nil},
              NEW shelf \in {"keep", "archive", "recover"}, TeamEdit(r, t, members, u, shelf)
       PROVE  Goal
  <2> DEFINE whole == IF members = {} THEN roster[t] ELSE members
             task == [NoWork EXCEPT !.team = t, !.members = whole, !.newLead = u,
                        !.rewrite = members # {}, !.shelf = shelf,
                        !.targets = {v \in whole : isActive[v]}, !.pc = "teamLock"]
  <2>1. work'[r] = task /\ Others BY <1>2, <1>11 DEF TeamEdit
  <2>2. u # Nil => u \in whole BY <1>11 DEF TeamEdit
  <2>3. task.held = {} /\ task.pc = "teamLock" /\ task.newLead = u /\ task.members = whole
    BY DEF NoWork
  <2> HIDE DEF task
  <2>4. QED BY <1>9, <2>1, <2>2, <2>3
<1>12. ASSUME NEW i \in Invitations, AcceptFind(r, i) PROVE Goal
  <2>1. CASE invitation[i] = "overdue"
    <3>1. work' = work /\ Knows(work[r]) BY <1>12, <2>1 DEF AcceptFind, MemberInv
    <3>2. QED BY <1>1, <1>3, <3>1, OthersKnow DEF Knows, RemovesNoLead
  <2>2. CASE invitation[i] # "overdue"
    <3> DEFINE task == [NoWork EXCEPT !.user = invitee[i], !.next = offer[i], !.id = i,
                          !.seen = link[i], !.pc = "claim"]
    <3>1. work'[r] = task /\ Others /\ "invite" \in kinds BY <1>2, <1>12, <2>2 DEF AcceptFind
    <3>2. /\ task.held = {} /\ task.pc = "claim" /\ task.id = i
          /\ task.user = invitee[i] /\ task.next = offer[i]
      BY DEF NoWork
    <3>3. invitation'[i] # "none" /\ invitee' = invitee /\ offer' = offer
      BY <1>12, <2>2 DEF AcceptFind, Open
    <3>4. QED
      BY <1>3, <3>1, <3>2, <3>3 DEF Knows, NamesUser, Removes, HasCounted, TakesAdmin,
         HoldsWhatItRemoves, RemovesNoLead, RaisesNobody, ClaimsWhatIsOffered
  <2>3. QED BY <2>1, <2>2
<1>13. Goal BY <1>4, <1>5, <1>7, <1>8, <1>10, <1>11, <1>12 DEF NewRequest
<1>14. QED BY <1>3, <1>13, RowsUntouched

(* A count of more than one names two.                                     *)
LEMMA TwoCounted ==
    ASSUME NEW S, ~(Cardinality(S) <= 1) PROVE \E u, v \in S : u # v
<1>1. Cardinality({}) = 0 BY FS_EmptySet
<1>2. \A u : Cardinality({u}) = 1 BY FS_Singleton
<1>3. S # {} BY <1>1
<1>4. PICK u \in S : TRUE BY <1>3
<1>5. S # {u} BY <1>2
<1>6. PICK v \in S : v # u BY <1>4, <1>5
<1>7. QED BY <1>4, <1>6

(* The steps of a transaction that write no row: what is read is locked,   *)
(* and what is counted is held.                                            *)
LEMMA LockStepKeeps ==
    ASSUME MemberInv, TypeOK', NEW r \in Requests, \A i \in Invitations : OfferStands(i),
           \/ CountSnapshot(r) \/ CountDone(r) \/ DeadlockVictim(r) \/ RemoveLock(r)
           \/ RemoveTeams(r) \/ InviteCheck(r) \/ Switch(r)
           \/ \E u \in Users : CountLock(r, u) \/ TeamLock(r, u)
           \/ \E i \in Invitations : InviteCreate(r, i)
    PROVE  MemberInv'
<1> DEFINE Others == \A q \in Requests \ {r} : work'[q] = work[q]
           Goal == Knows(work[r])' /\ Others
           task == work[r]
<1> USE DEF memberVars, teamVars
<1>1. TypeOK /\ work \in [Requests -> Work] /\ work[r] \in Work /\ Knows(work[r])
  BY DEF MemberInv, TypeOK
<1>2. UNCHANGED <<kinds, roles, isActive, lead>>
  BY DEF CountSnapshot, CountDone, DeadlockVictim, RemoveLock, RemoveTeams, InviteCheck, Switch,
     CountLock, TeamLock, InviteCreate, UnchangedByInvite
<1>3. ASSUME Done(r) PROVE Goal BY <1>1, <1>3, DoneKnows
<1>4. ASSUME NEW pc, NEW targets, NEW held,
             work' = [work EXCEPT ![r] = [@ EXCEPT !.pc = pc, !.targets = targets, !.held = held]]
      PROVE  /\ Others /\ work'[r].pc = pc /\ work'[r].held = held
             /\ work'[r].user = task.user /\ work'[r].found = task.found
             /\ work'[r].next = task.next /\ work'[r].newLead = task.newLead
             /\ work'[r].members = task.members
  <2>1. Others /\ work'[r] = [task EXCEPT !.pc = pc, !.targets = targets, !.held = held]
    BY <1>1, <1>4
  <2>2. QED BY <1>1, <2>1 DEF Work
<1>5. ASSUME NEW pc, Go(r, pc)
      PROVE  /\ Others /\ work'[r].pc = pc /\ work'[r].held = task.held
             /\ work'[r].user = task.user /\ work'[r].found = task.found
             /\ work'[r].next = task.next
  <2>1. Others /\ work'[r] = [task EXCEPT !.pc = pc] BY <1>1, <1>5 DEF Go
  <2>2. QED BY <1>1, <2>1 DEF Work
<1>6. ASSUME CountSnapshot(r) PROVE Goal
  <2>1. work' = [work EXCEPT ![r] = [@ EXCEPT !.pc = "countLock", !.targets = ActiveAdmins,
                                             !.held = task.held]]
    BY <1>1, <1>6 DEF CountSnapshot, Work
  <2>2. task.pc = "countSnapshot" BY <1>6 DEF CountSnapshot
  <2>3. /\ Others /\ work'[r].pc = "countLock" /\ work'[r].held = task.held
        /\ work'[r].user = task.user /\ work'[r].found = task.found
        /\ work'[r].next = task.next /\ work'[r].newLead = task.newLead
        /\ work'[r].members = task.members
    BY <1>4, <2>1
  <2>4. (NamesUser(work[r]) /\ HasCounted(work[r]) /\ ClaimsWhatIsOffered(work[r]))'
    BY <1>1, <1>2, <2>2, <2>3 DEF Knows, NamesUser, Removes, HasCounted, TakesAdmin, ClaimsWhatIsOffered
  <2>5. (HoldsWhatItRemoves(work[r]) /\ RemovesNoLead(work[r]))'
    BY <1>1, <1>2, <2>2, <2>3 DEF Knows, HoldsWhatItRemoves, Removes, RemovesNoLead
  <2>6. RaisesNobody(work[r])' BY <1>1, <1>2, <2>2, <2>3 DEF Knows, RaisesNobody
  <2>7. QED BY <1>1, <1>2, <2>2, <2>3, <2>4, <2>5, <2>6 DEF Knows
<1>7. ASSUME NEW u \in Users, CountLock(r, u) PROVE Goal
  <2> DEFINE held == IF u \in ActiveAdmins THEN task.held \cup {u} ELSE task.held
  <2>1. work' = [work EXCEPT ![r] = [@ EXCEPT !.pc = "countLock", !.targets = task.targets \ {u},
                                             !.held = held]]
    BY ZenonT(40), <1>1, <1>7 DEF CountLock, Work
  <2>2. task.pc = "countLock" BY <1>7 DEF CountLock
  <2>3. task.held \subseteq held /\ \A v \in held : isActive[v]
    BY <1>1 DEF Knows, ActiveAdmins
  <2> HIDE DEF held
  <2>4. /\ Others /\ work'[r].pc = "countLock" /\ work'[r].held = held
        /\ work'[r].user = task.user /\ work'[r].found = task.found
        /\ work'[r].next = task.next /\ work'[r].newLead = task.newLead
        /\ work'[r].members = task.members
    BY <1>4, <2>1
  <2>5. (NamesUser(work[r]) /\ HasCounted(work[r]) /\ ClaimsWhatIsOffered(work[r]))'
    BY <1>1, <1>2, <2>2, <2>3, <2>4 DEF Knows, NamesUser, Removes, HasCounted, TakesAdmin, ClaimsWhatIsOffered
  <2>6. (HoldsWhatItRemoves(work[r]) /\ RemovesNoLead(work[r]))'
    BY <1>1, <1>2, <2>2, <2>3, <2>4 DEF Knows, HoldsWhatItRemoves, Removes, RemovesNoLead
  <2>7. RaisesNobody(work[r])' BY <1>1, <1>2, <2>2, <2>3, <2>4 DEF Knows, RaisesNobody
  <2>8. QED BY <1>1, <1>2, <2>2, <2>3, <2>4, <2>5, <2>6, <2>7 DEF Knows
<1>8. ASSUME NEW u \in Users, TeamLock(r, u) PROVE Goal
  <2> DEFINE held == IF isActive[u] THEN task.held \cup {u} ELSE task.held
  <2>1. work' = [work EXCEPT ![r] = [@ EXCEPT !.pc = "teamLock", !.targets = task.targets \ {u},
                                             !.held = held]]
    BY ZenonT(40), <1>1, <1>8 DEF TeamLock, Work
  <2>2. task.pc = "teamLock" BY <1>8 DEF TeamLock
  <2>3. \A v \in held : isActive[v] BY <1>1 DEF Knows
  <2> HIDE DEF held
  <2>4. /\ Others /\ work'[r].pc = "teamLock" /\ work'[r].held = held
        /\ work'[r].user = task.user /\ work'[r].found = task.found
        /\ work'[r].next = task.next /\ work'[r].newLead = task.newLead
        /\ work'[r].members = task.members
    BY <1>4, <2>1
  <2>5. (NamesUser(work[r]) /\ HasCounted(work[r]) /\ ClaimsWhatIsOffered(work[r]))'
    BY <1>1, <1>2, <2>2, <2>3, <2>4 DEF Knows, NamesUser, Removes, HasCounted, TakesAdmin, ClaimsWhatIsOffered
  <2>6. (HoldsWhatItRemoves(work[r]) /\ RemovesNoLead(work[r]))'
    BY <1>1, <1>2, <2>2, <2>3, <2>4 DEF Knows, HoldsWhatItRemoves, Removes, RemovesNoLead
  <2>7. RaisesNobody(work[r])' BY <1>1, <1>2, <2>2, <2>3, <2>4 DEF Knows, RaisesNobody
  <2>8. QED BY <1>1, <1>2, <2>2, <2>3, <2>4, <2>5, <2>6, <2>7 DEF Knows
<1>9. ASSUME CountDone(r) PROVE Goal
  <2> DEFINE pc == IF task.next = "none" THEN "removeTeams" ELSE "setRole"
  <2>1. CASE Cardinality(task.held \cap ActiveAdmins) <= 1 BY <1>3, <1>9, <2>1 DEF CountDone
  <2>2. CASE ~(Cardinality(task.held \cap ActiveAdmins) <= 1)
    <3>1. Go(r, pc) /\ task.pc = "countLock" BY <1>9, <2>2 DEF CountDone
    <3>2. \E u, v \in task.held \cap ActiveAdmins : u # v BY <2>2, TwoCounted
    <3>3. ActiveAdmins' = ActiveAdmins BY <1>2 DEF ActiveAdmins
    <3>4. HasCounted(work[r])' BY <1>5, <3>1, <3>2, <3>3 DEF HasCounted
    <3>5. RaisesNobody(work[r])'
      <4>1. CASE kinds \cap {"promote", "invite"} = {}
        <5>1. task.next = "none" => task.found = "admin"
          BY <1>1, <3>1, <4>1 DEF Knows, RaisesNobody
        <5>2. task.next # "none" => task.next = "basic" BY <1>1, <3>1, <4>1 DEF Knows, RaisesNobody
        <5>3. QED BY <1>2, <1>5, <3>1, <5>1, <5>2 DEF RaisesNobody
      <4>2. CASE kinds \cap {"promote", "invite"} # {} BY <1>2, <4>2 DEF RaisesNobody
      <4>3. QED BY <4>1, <4>2
    <3>6. QED
      BY <1>1, <1>2, <1>5, <3>1, <3>4, <3>5 DEF Knows, NamesUser, Removes,
         HoldsWhatItRemoves, RemovesNoLead, ClaimsWhatIsOffered
  <2>3. QED BY <2>1, <2>2
<1>10. ASSUME DeadlockVictim(r) PROVE Goal BY <1>3, <1>10 DEF DeadlockVictim
<1>11. ASSUME RemoveLock(r) PROVE Goal
  <2> DEFINE held == IF isActive[task.user] THEN {task.user} ELSE {}
             pc == IF task.found = "admin" THEN "countSnapshot" ELSE "removeTeams"
  <2>1. work' = [work EXCEPT ![r] = [@ EXCEPT !.pc = pc, !.targets = task.targets, !.held = held]]
    BY <1>1, <1>11 DEF RemoveLock, Work
  <2>2. task.pc = "removeLock" /\ task.user \in Users
    BY <1>1, <1>11 DEF RemoveLock, Knows, NamesUser
  <2>3. \A v \in held : isActive[v] OBVIOUS
  <2>4. isActive[task.user] => task.user \in held OBVIOUS
  <2>5. pc = IF task.found = "admin" THEN "countSnapshot" ELSE "removeTeams" OBVIOUS
  <2> HIDE DEF held, pc
  <2>6. /\ Others /\ work'[r].pc = pc /\ work'[r].held = held
        /\ work'[r].user = task.user /\ work'[r].found = task.found
        /\ work'[r].next = task.next /\ work'[r].newLead = task.newLead
        /\ work'[r].members = task.members
    BY <1>4, <2>1
  <2>7. (NamesUser(work[r]) /\ HasCounted(work[r]) /\ ClaimsWhatIsOffered(work[r]))'
    BY <1>1, <1>2, <2>2, <2>3, <2>4, <2>5, <2>6 DEF Knows, NamesUser, Removes, HasCounted, TakesAdmin, ClaimsWhatIsOffered
  <2>8. (HoldsWhatItRemoves(work[r]) /\ RemovesNoLead(work[r]))'
    BY <1>1, <1>2, <2>2, <2>3, <2>4, <2>5, <2>6 DEF Knows, HoldsWhatItRemoves, Removes, RemovesNoLead
  <2>9. RaisesNobody(work[r])'
    <3>1. RaisesNobody(task) BY <1>1 DEF Knows
    <3>2. CASE task.found = "admin" /\ kinds \cap {"promote", "invite"} = {}
      <4>1. pc = "countSnapshot" BY <2>5, <3>2
      <4>2. work'[r].pc = "countSnapshot" /\ work'[r].found = "admin" BY <2>6, <3>2, <4>1
      <4>3. task.next = "none" BY <2>2, <3>1, <3>2 DEF RaisesNobody
      <4>4. QED BY <2>6, <4>2, <4>3 DEF RaisesNobody
    <3>3. CASE ~(task.found = "admin" /\ kinds \cap {"promote", "invite"} = {})
      BY <1>2, <2>2, <2>5, <2>6, <3>1, <3>3 DEF RaisesNobody
    <3>4. QED BY <3>2, <3>3
  <2>10. QED BY <1>1, <1>2, <2>2, <2>3, <2>4, <2>5, <2>6, <2>7, <2>8, <2>9 DEF Knows
<1>12. ASSUME RemoveTeams(r) PROVE Goal
  <2>1. CASE \E t \in Teams : lead[t] = task.user BY <1>3, <1>12, <2>1 DEF RemoveTeams
  <2>2. CASE ~\E t \in Teams : lead[t] = task.user
    <3>1. Go(r, "remove") /\ task.pc = "removeTeams" BY <1>12, <2>2 DEF RemoveTeams
    <3>2. ActiveAdmins' = ActiveAdmins BY <1>2 DEF ActiveAdmins
    <3>3. QED
      BY <1>1, <1>2, <1>5, <2>2, <3>1, <3>2 DEF Knows, NamesUser, Removes, HasCounted, TakesAdmin,
         HoldsWhatItRemoves, RemovesNoLead, RaisesNobody, ClaimsWhatIsOffered
  <2>3. QED BY <2>1, <2>2
<1>13. ASSUME InviteCheck(r) PROVE Goal
  <2>1. ASSUME Go(r, "createInvite"), task.pc = "checkInvited" PROVE Goal
    BY <1>1, <1>2, <1>5, <2>1 DEF Knows, NamesUser, Removes, HasCounted, TakesAdmin,
         HoldsWhatItRemoves, RemovesNoLead, RaisesNobody, ClaimsWhatIsOffered
  <2>2. QED BY <1>3, <1>13, <2>1 DEF InviteCheck
<1>14. ASSUME Switch(r) PROVE Goal BY <1>3, <1>14 DEF Switch
<1>15. ASSUME NEW i \in Invitations, InviteCreate(r, i) PROVE Goal
  BY <1>3, <1>15 DEF InviteCreate
<1>16. Goal
  BY <1>6, <1>7, <1>8, <1>9, <1>10, <1>11, <1>12, <1>13, <1>14, <1>15
<1>17. QED BY <1>2, <1>16, RowsUntouched

(* A step that no request takes.                                           *)
LEMMA NoRequestKeeps ==
    ASSUME MemberInv, TypeOK', work' = work, \A i \in Invitations : OfferStands(i),
           UNCHANGED <<kinds, roles, isActive, lead>>
    PROVE  MemberInv'
<1>1. ASSUME NEW q \in Requests PROVE Knows(work[q])'
  <2>1. Knows(work[q]) /\ TypeOK BY DEF MemberInv
  <2>2. QED BY <2>1, OthersKnow DEF Knows, RemovesNoLead
<1>2. LeadersStay'
  BY DEF MemberInv, LeadersStay, OrgKeepsAdmin, TeamLeadIsActive, ActiveAdmins
<1>3. QED BY <1>1, <1>2 DEF MemberInv

(* A statement that writes rows and ends its request, and what the others  *)
(* need of it.                                                             *)
LEMMA WriteKeeps ==
    ASSUME MemberInv, TypeOK', LeadersStay', NEW r \in Requests, Done(r), kinds' = kinds,
           \A i \in Invitations : OfferStands(i),
           \A u \in LockedForOther(r) : isActive'[u] = isActive[u] /\ roles'[u] = roles[u],
           "invite" \notin kinds => \A u \in Users : isActive'[u] => isActive[u],
           "invite" \notin kinds => \A q \in Requests \ {r} :
               work[q].pc = "remove" => \A t \in Teams : lead'[t] # work[q].user,
           kinds \cap {"promote", "invite"} = {} =>
               \A u \in Users : roles[u] \notin ADMIN_ROLES => roles'[u] \notin ADMIN_ROLES
    PROVE  MemberInv'
<1>1. TypeOK BY DEF MemberInv
<1>2. Knows(work[r])' /\ \A q \in Requests \ {r} : work'[q] = work[q] BY <1>1, DoneKnows
<1>3. ASSUME NEW q \in Requests \ {r} PROVE Knows(work[q])'
  <2>1. Knows(work[q]) /\ work'[q] = work[q] BY <1>2 DEF MemberInv
  <2>2. \A u \in work[q].held : isActive'[u] = isActive[u] /\ roles'[u] = roles[u]
    BY DEF LockedForOther
  <2>3. QED BY <1>1, <2>1, <2>2, OthersKnow
<1>4. QED BY <1>2, <1>3 DEF MemberInv

(* The last administrator is not demoted: the count holds another.         *)
LEMMA SetRoleKeeps ==
    ASSUME MemberInv, TypeOK', NEW r \in Requests, SetRole(r),
           \A i \in Invitations : OfferStands(i)
    PROVE  MemberInv'
<1> DEFINE task == work[r]
           u == task.user
<1>1. TypeOK /\ LeadersStay /\ task \in Work /\ Knows(task) /\ task.pc = "setRole"
  BY DEF MemberInv, TypeOK, SetRole
<1>2. /\ u \notin LockedForOther(r) /\ Done(r)
      /\ UNCHANGED <<kinds, isActive, lead>>
      /\ roles' = IF isActive[u] THEN [roles EXCEPT ![u] = task.next] ELSE roles
  BY DEF SetRole, teamVars
<1>3. \A v \in Users \ {u} : roles'[v] = roles[v] BY <1>1, <1>2 DEF TypeOK
<1>4. \A v \in LockedForOther(r) : v \in Users \ {u}
  BY <1>1, <1>2 DEF LockedForOther, TypeOK, Work
<1>5. ASSUME kinds \cap {"promote", "invite"} = {}
      PROVE  /\ ActiveAdmins' # {}
             /\ \A v \in Users : roles[v] \notin ADMIN_ROLES => roles'[v] \notin ADMIN_ROLES
  <2>1. task.next = "basic" BY <1>1, <1>5 DEF Knows, RaisesNobody
  <2>2. PICK x, y \in task.held \cap ActiveAdmins : x # y
    BY <1>1, <2>1 DEF Knows, HasCounted, TakesAdmin
  <2>3. PICK z \in ActiveAdmins : z # u BY <2>2
  <2>4. z \in ActiveAdmins' BY <1>2, <1>3, <2>3 DEF ActiveAdmins
  <2>5. ASSUME NEW v \in Users, roles[v] \notin ADMIN_ROLES PROVE roles'[v] \notin ADMIN_ROLES
    <3>1. CASE v # u BY <1>3, <2>5, <3>1
    <3>2. CASE v = u BY <1>1, <1>2, <2>1, <2>5, <3>2 DEF ADMIN_ROLES, TypeOK
    <3>3. QED BY <3>1, <3>2
  <2>6. QED BY <2>4, <2>5
<1>6. LeadersStay'
  BY <1>1, <1>2, <1>5 DEF LeadersStay, OrgKeepsAdmin, TeamLeadIsActive
<1>7. ASSUME "invite" \notin kinds, NEW q \in Requests \ {r}, work[q].pc = "remove", NEW t \in Teams
      PROVE  lead'[t] # work[q].user
  BY <1>2, <1>7 DEF MemberInv, Knows, RemovesNoLead
<1>8. \A v \in LockedForOther(r) : isActive'[v] = isActive[v] /\ roles'[v] = roles[v]
  BY <1>2, <1>3, <1>4
<1>9. QED BY <1>2, <1>5, <1>6, <1>7, <1>8, WriteKeeps

(* Nor is the last administrator removed, nor who leads a team: a removal  *)
(* that takes an administrator has counted two, and one that passed the    *)
(* check of the teams holds the row that a roster would need.              *)
LEMMA RemoveKeeps ==
    ASSUME MemberInv, TypeOK', NEW r \in Requests, RemoveUser(r),
           \A i \in Invitations : OfferStands(i)
    PROVE  MemberInv'
<1> DEFINE task == work[r]
           u == task.user
<1>1. TypeOK /\ LeadersStay /\ task \in Work /\ Knows(task) /\ task.pc = "remove"
  BY DEF MemberInv, TypeOK, RemoveUser
<1>2. /\ u \notin LockedForOther(r) /\ Done(r) /\ UNCHANGED <<kinds, roles, lead>>
      /\ isActive' = isActive \/ isActive' = [isActive EXCEPT ![u] = FALSE]
  BY DEF RemoveUser, teamVars
<1>3. /\ \A v \in Users \ {u} : isActive'[v] = isActive[v]
      /\ \A v \in Users : isActive'[v] => isActive[v]
  BY <1>1, <1>2 DEF TypeOK
<1>4. \A v \in LockedForOther(r) : v \in Users \ {u}
  BY <1>1, <1>2 DEF LockedForOther, TypeOK, Work
<1>5. OrgKeepsAdmin'
  <2>1. SUFFICES ASSUME kinds \cap {"promote", "invite"} = {} PROVE ActiveAdmins' # {}
    BY <1>2 DEF OrgKeepsAdmin
  <2>2. CASE task.found = "admin"
    <3>1. PICK x, y \in task.held \cap ActiveAdmins : x # y
      BY <1>1, <2>2 DEF Knows, HasCounted, TakesAdmin
    <3>2. PICK z \in ActiveAdmins : z # u BY <3>1
    <3>3. z \in ActiveAdmins' BY <1>2, <1>3, <3>2 DEF ActiveAdmins
    <3>4. QED BY <3>3
  <2>3. CASE task.found # "admin"
    <3>1. roles[u] \notin ADMIN_ROLES BY <1>1, <2>1, <2>3 DEF Knows, RaisesNobody
    <3>2. PICK z \in ActiveAdmins : TRUE BY <1>1, <2>1 DEF LeadersStay, OrgKeepsAdmin
    <3>3. z \in Users \ {u} BY <3>1, <3>2 DEF ActiveAdmins
    <3>4. z \in ActiveAdmins' BY <1>2, <1>3, <3>2, <3>3 DEF ActiveAdmins
    <3>5. QED BY <3>4
  <2>4. QED BY <2>2, <2>3
<1>6. TeamLeadIsActive'
  <2>1. SUFFICES ASSUME "invite" \notin kinds, NEW t \in Teams, lead[t] # Nil
                 PROVE  isActive'[lead[t]]
    BY <1>2 DEF TeamLeadIsActive
  <2>2. lead[t] # u BY <1>1, <2>1 DEF Knows, RemovesNoLead
  <2>3. lead[t] \in Users /\ isActive[lead[t]]
    BY <1>1, <2>1 DEF TypeOK, LeadersStay, TeamLeadIsActive
  <2>4. QED BY <1>3, <2>2, <2>3
<1>7. ASSUME "invite" \notin kinds, NEW q \in Requests \ {r}, work[q].pc = "remove", NEW t \in Teams
      PROVE  lead'[t] # work[q].user
  BY <1>2, <1>7 DEF MemberInv, Knows, RemovesNoLead
<1>8. \A v \in LockedForOther(r) : isActive'[v] = isActive[v] /\ roles'[v] = roles[v]
  BY <1>2, <1>3, <1>4
<1>9. LeadersStay' BY <1>5, <1>6 DEF LeadersStay
<1>10. QED BY <1>2, <1>3, <1>7, <1>8, <1>9, WriteKeeps

(* A roster is written while its rows are locked and active, so its lead   *)
(* is nobody that a removal is about to take.                              *)
LEMMA TeamWriteKeeps ==
    ASSUME MemberInv, TypeOK', NEW r \in Requests, TeamWrite(r),
           \A i \in Invitations : OfferStands(i)
    PROVE  MemberInv'
<1> DEFINE task == work[r]
<1>1. TypeOK /\ LeadersStay /\ Knows(task) /\ task.pc = "teamLock"
  BY DEF MemberInv, TeamWrite
<1>2. Done(r) /\ UNCHANGED <<kinds, roles, isActive>> BY DEF TeamWrite, memberVars
<1>3. ASSUME NEW t \in Teams PROVE lead'[t] = lead[t] \/ lead'[t] \in task.held
  <2>1. CASE task.held = task.members /\ task.newLead # Nil
    <3>1. task.newLead \in task.held BY <1>1, <2>1 DEF Knows
    <3>2. lead' = [lead EXCEPT ![task.team] = task.newLead] BY <2>1 DEF TeamWrite
    <3>3. QED BY <1>1, <3>1, <3>2 DEF TypeOK
  <2>2. CASE ~(task.held = task.members /\ task.newLead # Nil)
    BY <2>2 DEF TeamWrite, teamVars
  <2>3. QED BY <2>1, <2>2
<1>4. \A u \in task.held : isActive[u] BY <1>1 DEF Knows
<1>5. TeamLeadIsActive' BY <1>1, <1>2, <1>3, <1>4 DEF LeadersStay, TeamLeadIsActive
<1>6. OrgKeepsAdmin' BY <1>1, <1>2 DEF LeadersStay, OrgKeepsAdmin, ActiveAdmins
<1>7. ASSUME "invite" \notin kinds, NEW q \in Requests \ {r}, work[q].pc = "remove", NEW t \in Teams
      PROVE  lead'[t] # work[q].user
  <2>1. Knows(work[q]) /\ work[q].held \cap task.held = {}
    BY <1>1, <1>7 DEF MemberInv, TypeOK, LocksExclude
  <2>2. lead[t] # work[q].user BY <1>7, <2>1 DEF Knows, RemovesNoLead
  <2>3. isActive[work[q].user] => work[q].user \in work[q].held
    BY <1>7, <2>1 DEF Knows, HoldsWhatItRemoves, Removes
  <2>4. work[q].user \notin task.held BY <1>4, <2>1, <2>3
  <2>5. QED BY <1>3, <2>2, <2>4
<1>8. LeadersStay' BY <1>5, <1>6 DEF LeadersStay
<1>9. QED BY <1>2, <1>7, <1>8, WriteKeeps

(* A claim waits for the row it gives back.                                *)
LEMMA ClaimKeeps ==
    ASSUME MemberInv, TypeOK', NEW r \in Requests, Claim(r),
           \A i \in Invitations : OfferStands(i)
    PROVE  MemberInv'
<1> DEFINE u == work[r].user
<1>1. TypeOK /\ Knows(work[r]) /\ work[r].pc = "claim" BY DEF MemberInv, Claim
<1>2. "invite" \in kinds BY <1>1 DEF Knows, ClaimsWhatIsOffered
<1>3. Done(r) /\ kinds' = kinds BY DEF Claim
<1>4. ASSUME NEW v \in LockedForOther(r)
      PROVE  isActive'[v] = isActive[v] /\ roles'[v] = roles[v]
  <2>1. CASE Open(work[r].id)
    <3>1. /\ v # u /\ roles' = [roles EXCEPT ![u] = work[r].next]
          /\ isActive' = [isActive EXCEPT ![u] = TRUE]
      BY <2>1 DEF Claim
    <3>2. v \in Users BY <1>1 DEF LockedForOther, TypeOK, Work
    <3>3. QED BY <1>1, <3>1, <3>2 DEF TypeOK
  <2>2. CASE ~Open(work[r].id) BY <2>2 DEF Claim, memberVars
  <2>3. QED BY <2>1, <2>2
<1>5. LeadersStay' BY <1>2, <1>3 DEF LeadersStay, OrgKeepsAdmin, TeamLeadIsActive
<1>6. QED BY <1>2, <1>3, <1>4, <1>5, WriteKeeps

(* Every step keeps what the requests know.                                *)
LEMMA MemberInvStep ==
    ASSUME MemberInv, TypeOK', [Next]_vars PROVE MemberInv'
<1>1. TypeOK /\ \A i \in Invitations : OfferStands(i) BY OffersStand DEF MemberInv
<1>2. ASSUME NEW r \in Requests, TransactionStep(r) PROVE MemberInv'
  BY <1>1, <1>2, LockStepKeeps, SetRoleKeeps, RemoveKeeps, TeamWriteKeeps, ClaimKeeps
     DEF TransactionStep
<1>3. ASSUME NEW r \in Requests, NewRequest(r) PROVE MemberInv'
  BY <1>1, <1>3, NewRequestKeeps
<1>4. CASE \/ \E i \in Invitations : InvitationOverdue(i) \/ Regenerate(i) \/ Revoke(i)
           \/ ListInvitations \/ UNCHANGED vars \/ \E u \in Users : SwitchAway(u)
  BY <1>1, <1>4, NoRequestKeeps DEF InvitationOverdue, Regenerate, Revoke, ListInvitations,
     SwitchAway, UnchangedByInvite, memberVars, teamVars, vars
<1>5. QED BY <1>2, <1>3, <1>4 DEF Next

(* The organisation begins with an administrator.                          *)
LEMMA MemberInvInit == Init => MemberInv
<1>1. SUFFICES ASSUME Init PROVE MemberInv OBVIOUS
<1>2. TypeOK BY <1>1, TypeInit
<1>3. PICK u \in Users : FirstRole[u] \in ADMIN_ROLES BY MemberConstants
<1>4. u \in ActiveAdmins BY <1>1, <1>3 DEF Init, ActiveAdmins, ADMIN_ROLES
<1>5. LeadersStay BY <1>1, <1>4 DEF Init, LeadersStay, OrgKeepsAdmin, TeamLeadIsActive
<1>6. ASSUME NEW r \in Requests PROVE Knows(work[r])
  <2>1. work[r].pc = "idle" /\ work[r].held = {} BY <1>1 DEF Init, NoWork
  <2>2. QED
    BY <2>1 DEF Knows, NamesUser, Removes, HasCounted, TakesAdmin, HoldsWhatItRemoves,
       RemovesNoLead, RaisesNobody, ClaimsWhatIsOffered
<1>7. QED BY <1>2, <1>5, <1>6 DEF MemberInv

(* Role changes, removals and rosters at once leave somebody in charge, of *)
(* the organisation and of every team that has a lead: what members.ts     *)
(* (lockAndCountActiveAdmins) and teams.ts (rosterIsActive) lock is enough,*)
(* for any number of requests.                                             *)
THEOREM LeadersRemain == Spec => []LeadersStay
<1>1. MemberInv /\ TypeOK' /\ [Next]_vars => MemberInv' BY MemberInvStep
<1>2. MemberInv => LeadersStay BY DEF MemberInv
<1>3. QED BY <1>1, <1>2, MemberInvInit, TypeCorrect, PTL DEF Spec

(* A step that makes somebody a member claims an invitation of theirs that *)
(* was open until then, with the role it offers.                           *)
LEMMA JoinsStep ==
    ASSUME MemberInv, [Next]_vars PROVE JoinsByInvitation /\ FinishedStaysFinished
<1> USE DEF memberVars, teamVars
<1>1. TypeOK BY DEF MemberInv
<1>2. FinishedStaysFinished
  <2>1. \A i \in Invitations : OfferStands(i) BY <1>1, OffersStand
  <2>2. QED BY <2>1 DEF FinishedStaysFinished, OfferStands
<1>3. ASSUME isActive' = isActive PROVE JoinsByInvitation
  <2>1. ~\E u \in Users : ~isActive[u] /\ isActive'[u] BY <1>3
  <2>2. QED BY <2>1 DEF JoinsByInvitation
<1>4. ASSUME NEW r \in Requests, RemoveUser(r) PROVE JoinsByInvitation
  BY <1>1, <1>4 DEF RemoveUser, JoinsByInvitation, TypeOK
<1>5. ASSUME NEW r \in Requests, Claim(r) PROVE JoinsByInvitation
  <2>1. CASE ~Open(work[r].id) BY <1>3, <1>5, <2>1 DEF Claim
  <2>2. CASE Open(work[r].id)
    <3> DEFINE u == work[r].user
               i == work[r].id
    <3>1. /\ i \in Invitations /\ u = invitee[i] /\ work[r].next = offer[i]
      BY <1>5 DEF MemberInv, Knows, ClaimsWhatIsOffered, Claim
    <3>2. /\ invitation' = [invitation EXCEPT ![i] = "accepted"]
          /\ roles' = [roles EXCEPT ![u] = work[r].next]
          /\ isActive' = [isActive EXCEPT ![u] = TRUE]
      BY <1>5, <2>2 DEF Claim
    <3>3. invitation'[i] = "accepted" BY <1>1, <3>1, <3>2 DEF TypeOK
    <3>4. ASSUME NEW v \in Users, ~isActive[v], isActive'[v]
          PROVE  v = u /\ roles'[v] = work[r].next
      BY <1>1, <3>2, <3>4 DEF TypeOK
    <3>5. QED BY <2>2, <3>1, <3>3, <3>4 DEF JoinsByInvitation
  <2>3. QED BY <2>1, <2>2
<1>6. ASSUME NEW r \in Requests, NewRequest(r) PROVE JoinsByInvitation
  BY <1>3, <1>6 DEF NewRequest, RoleFind, InviteMemberCheck, RemoveFind, SwitchFind, TeamCreate,
     TeamEdit, AcceptFind, UnchangedByInvite
<1>7. ASSUME NEW r \in Requests, TransactionStep(r) PROVE JoinsByInvitation
  BY <1>3, <1>4, <1>5, <1>7 DEF TransactionStep, CountSnapshot, CountDone, DeadlockVictim,
     CountLock, TeamLock, SetRole, RemoveLock, RemoveTeams, TeamWrite, InviteCheck, InviteCreate,
     Switch, UnchangedByInvite
<1>8. ASSUME \/ \E i \in Invitations : InvitationOverdue(i) \/ Regenerate(i) \/ Revoke(i)
             \/ ListInvitations \/ UNCHANGED vars \/ \E u \in Users : SwitchAway(u)
      PROVE  JoinsByInvitation
  <2>1. isActive' = isActive
    BY <1>8 DEF InvitationOverdue, Regenerate, Revoke, ListInvitations, SwitchAway,
       UnchangedByInvite, vars
  <2>2. QED BY <1>3, <2>1
<1>9. QED BY <1>2, <1>6, <1>7, <1>8 DEF Next

(* Nobody joins but by an invitation that was sent to them and is open,    *)
(* and one that was accepted, expired or revoked is never live again       *)
(* (routes/invitations.ts, routes/team.ts), however requests interleave.   *)
THEOREM JoinsByOpenInvitation == Spec => JoinsOnce
<1>1. MemberInv /\ TypeOK' /\ [Next]_vars => MemberInv' BY MemberInvStep
<1>2. MemberInv /\ [Next]_vars => [JoinsByInvitation /\ FinishedStaysFinished]_vars
  BY JoinsStep
<1>3. QED BY <1>1, <1>2, MemberInvInit, TypeCorrect, PTL DEF Spec, JoinsOnce
=============================================================================
