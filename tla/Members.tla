------------------------------- MODULE Members -------------------------------
(* Who belongs to an organisation: role changes and removals under row     *)
(* locks, team rosters that lock the same rows, and invitations, which     *)
(* turn a link into a membership.                                          *)
(*                                                                         *)
(* One organisation. A request holds what it read, and the rows it has     *)
(* locked, while other requests run between its statements. Transactions   *)
(* are read committed: a locking read fixes the rows it matched, waits for *)
(* each of them and keeps those that still match.                          *)
(***************************************************************************)
EXTENDS Naturals, FiniteSets

CONSTANTS
    Users,       \* people with an account
    FirstRole,   \* what each of them is at the start
    Teams,       \* team ids; a bound on the teams created
    Rosters,     \* the rosters they are given; a bound
    Invitations, \* invitation ids; a bound on the invitations sent
    MaxLinks,    \* how often an invitation's link is replaced; a bound
    Requests,    \* concurrent requests
    KindSets,    \* the sets of request kinds of which one behaviour has one
    Nil

Kinds == {"promote", "demote", "remove", "team", "invite", "switch"}
Roles == {"none", "basic", "admin", "owner"}
ADMIN_ROLES == {"owner", "admin"}
InvitationStatuses == {"none", "pending", "overdue", "expired", "accepted", "revoked"}

ASSUME MemberConstants ==
    /\ FirstRole \in [Users -> Roles]
    /\ \E u \in Users : FirstRole[u] \in ADMIN_ROLES
    /\ MaxLinks \in Nat
    /\ KindSets \subseteq SUBSET Kinds
    /\ Rosters \subseteq (SUBSET Users) \ {{}}
    /\ Nil \notin Users \cup Teams \cup Invitations

VARIABLES
    kinds,       \* the kinds of requests this behaviour has; never changes
    roles,       \* user -> the strongest role of the membership row
    isActive,    \* user -> the membership grants access
    currentOrg,  \* user -> the user's active organisation is this one
    lead,        \* team -> leadUserId, Nil before the team exists
    roster,      \* team -> the users of its TeamMember rows
    archived,    \* team -> archivedAt is set
    invitation,  \* id -> status; "overdue" is PENDING past its expiry
    invitee,     \* id -> whose address it is for
    offer,       \* id -> the role it grants
    link,        \* id -> how often its token was replaced
    work         \* request -> what it is in the middle of

memberVars == <<roles, isActive, currentOrg>>
teamVars == <<lead, roster, archived>>
inviteVars == <<invitation, invitee, offer, link>>
vars == <<kinds, memberVars, teamVars, inviteVars, work>>

-----------------------------------------------------------------------------
Pcs == {"idle", "removeLock", "countSnapshot", "countLock", "setRole", "removeTeams",
        "remove", "teamLock", "teamWrite", "checkInvited", "createInvite", "claim", "switch"}

(* targets: rows a locking read matched and has not locked yet. held: the  *)
(* membership rows this open transaction has locked. found: the role the   *)
(* target had when the request looked.                                     *)
Work == [pc : Pcs, user : Users \cup {Nil}, found : Roles, next : Roles,
         targets : SUBSET Users, held : SUBSET Users,
         team : Teams \cup {Nil}, members : SUBSET Users, newLead : Users \cup {Nil},
         rewrite : BOOLEAN, shelf : {"keep", "archive", "recover"},
         id : Invitations \cup {Nil}, seen : Nat]
NoWork == [pc |-> "idle", user |-> Nil, found |-> "none", next |-> "none",
           targets |-> {}, held |-> {}, team |-> Nil, members |-> {}, newLead |-> Nil,
           rewrite |-> FALSE, shelf |-> "keep", id |-> Nil, seen |-> 0]

ActiveAdmins == {u \in Users : isActive[u] /\ roles[u] \in ADMIN_ROLES}
LockedForOther(r) == UNION {work[q].held : q \in Requests \ {r}}
Open(i) == invitation[i] \in {"pending", "overdue"}    \* the row says PENDING

Init ==
    /\ kinds \in KindSets
    /\ roles = FirstRole
    /\ isActive = [u \in Users |-> FirstRole[u] # "none"]
    /\ currentOrg = isActive
    /\ lead = [t \in Teams |-> Nil]
    /\ roster = [t \in Teams |-> {}]
    /\ archived = [t \in Teams |-> FALSE]
    /\ invitation = [i \in Invitations |-> "none"]
    /\ invitee = [i \in Invitations |-> Nil]
    /\ offer = [i \in Invitations |-> "none"]
    /\ link = [i \in Invitations |-> 0]
    /\ work = [r \in Requests |-> NoWork]

(* requireMembership with admin: checked once, when the request begins.    *)
Begin(r, kind, task) ==
    /\ kind \in kinds /\ work[r].pc = "idle"
    /\ kind \in {"promote", "demote", "remove", "invite"} => ActiveAdmins # {}
    /\ work' = [work EXCEPT ![r] = task]
Go(r, pc) == work' = [work EXCEPT ![r].pc = pc]
Done(r) == work' = [work EXCEPT ![r] = NoWork]

-----------------------------------------------------------------------------
(* lockAndCountActiveAdmins, inside the transaction of a request that      *)
(* takes an administrator away.                                            *)

CountSnapshot(r) ==
    /\ work[r].pc = "countSnapshot"
    /\ work' = [work EXCEPT ![r].pc = "countLock", ![r].targets = ActiveAdmins]
    /\ UNCHANGED <<kinds, memberVars, teamVars, inviteVars>>

CountLock(r, u) ==
    /\ work[r].pc = "countLock" /\ u \in work[r].targets
    /\ u \notin LockedForOther(r)
    /\ work' = [work EXCEPT ![r].targets = @ \ {u},
                            ![r].held = IF u \in ActiveAdmins THEN @ \cup {u} ELSE @]
    /\ UNCHANGED <<kinds, memberVars, teamVars, inviteVars>>

(* Mutant: the count and the write are two transactions.                   *)
CountDoneCommits(r) ==
    /\ work[r].pc = "countLock" /\ work[r].targets = {}
    /\ IF Cardinality(work[r].held \cap ActiveAdmins) <= 1 THEN Done(r)
       ELSE work' = [work EXCEPT ![r].held = {},
                       ![r].pc = IF work[r].next = "none" THEN "removeTeams" ELSE "setRole"]
    /\ UNCHANGED <<kinds, memberVars, teamVars, inviteVars>>

(* Mutant: the refusal of the last administrator's removal is swallowed.   *)
CountDoneHangs(r) ==
    /\ work[r].pc = "countLock" /\ work[r].targets = {}
    /\ Cardinality(work[r].held \cap ActiveAdmins) > 1
    /\ Go(r, IF work[r].next = "none" THEN "removeTeams" ELSE "setRole")
    /\ UNCHANGED <<kinds, memberVars, teamVars, inviteVars>>

(* A held row cannot change, so what was counted is what is held.          *)
CountDone(r) ==
    /\ work[r].pc = "countLock" /\ work[r].targets = {}
    /\ IF Cardinality(work[r].held \cap ActiveAdmins) <= 1 THEN Done(r)
       ELSE Go(r, IF work[r].next = "none" THEN "removeTeams" ELSE "setRole")
    /\ UNCHANGED <<kinds, memberVars, teamVars, inviteVars>>

(* Two transactions that wait for each other's rows: one is rolled back.   *)
WaitsFor(r) ==
    IF work[r].pc \in {"countLock", "teamLock"} THEN work[r].targets
    ELSE IF work[r].pc \in {"removeLock", "setRole", "remove", "claim"} THEN {work[r].user}
    ELSE {}
DeadlockVictim(r) ==
    /\ \E q \in Requests \ {r} : /\ WaitsFor(r) \cap work[q].held # {}
                                 /\ WaitsFor(q) \cap work[r].held # {}
    /\ Done(r)
    /\ UNCHANGED <<kinds, memberVars, teamVars, inviteVars>>

-----------------------------------------------------------------------------
(* PATCH /members/:userId: change the role set. {"admin"} and {"admin",    *)
(* "basic"} are one role here, so an administrator may be given the other. *)

RoleFind(r, u, next) ==
    /\ isActive[u] /\ roles[u] # "owner"
    /\ next = "basic" => roles[u] # "basic"       \* the same set: answered
    /\ Begin(r, IF next = "admin" THEN "promote" ELSE "demote",
             [NoWork EXCEPT !.user = u, !.found = roles[u], !.next = next,
                !.pc = IF next = "basic" THEN "countSnapshot" ELSE "setRole"])
    /\ UNCHANGED <<kinds, memberVars, teamVars, inviteVars>>

SetRole(r) ==
    LET u == work[r].user IN
    /\ work[r].pc = "setRole"
    /\ u \notin LockedForOther(r)
    /\ roles' = IF isActive[u] THEN [roles EXCEPT ![u] = work[r].next] ELSE roles
    /\ Done(r)
    /\ UNCHANGED <<kinds, isActive, currentOrg, teamVars, inviteVars>>

-----------------------------------------------------------------------------
(* DELETE /members/:userId: offboard.                                      *)

RemoveFind(r, u) ==
    /\ isActive[u] /\ roles[u] # "owner"
    /\ Begin(r, "remove", [NoWork EXCEPT !.user = u, !.found = roles[u], !.pc = "removeLock"])
    /\ UNCHANGED <<kinds, memberVars, teamVars, inviteVars>>

(* Mutant: the row is read for the update and nobody waits for it.         *)
RemoveLockAtOnce(r) ==
    LET u == work[r].user IN
    /\ work[r].pc = "removeLock"
    /\ work' = [work EXCEPT
         ![r].held = IF isActive[u] THEN {u} ELSE {},
         ![r].pc = IF work[r].found = "admin" THEN "countSnapshot" ELSE "removeTeams"]
    /\ UNCHANGED <<kinds, memberVars, teamVars, inviteVars>>

(* The row is locked if it is active still. Whether an administrator goes  *)
(* is decided by the role it had when the request looked.                  *)
RemoveLock(r) ==
    LET u == work[r].user IN
    /\ work[r].pc = "removeLock"
    /\ u \notin LockedForOther(r)
    /\ work' = [work EXCEPT
         ![r].held = IF isActive[u] THEN {u} ELSE {},
         ![r].pc = IF work[r].found = "admin" THEN "countSnapshot" ELSE "removeTeams"]
    /\ UNCHANGED <<kinds, memberVars, teamVars, inviteVars>>

(* A member who leads a team is kept, archived teams included.             *)
RemoveTeams(r) ==
    /\ work[r].pc = "removeTeams"
    /\ IF \E t \in Teams : lead[t] = work[r].user THEN Done(r) ELSE Go(r, "remove")
    /\ UNCHANGED <<kinds, memberVars, teamVars, inviteVars>>

RemoveUser(r) ==
    LET u == work[r].user IN
    /\ work[r].pc = "remove"
    /\ u \notin LockedForOther(r)
    /\ IF isActive[u]
       THEN /\ isActive' = [isActive EXCEPT ![u] = FALSE]
            /\ currentOrg' = [currentOrg EXCEPT ![u] = FALSE]
       ELSE UNCHANGED <<isActive, currentOrg>>
    /\ Done(r)
    /\ UNCHANGED <<kinds, roles, teamVars, inviteVars>>

-----------------------------------------------------------------------------
(* POST and PATCH /teams.                                                  *)

(* A new team brings its roster and its lead with it.                      *)
TeamCreate(r, t, members, u) ==
    /\ lead[t] = Nil /\ u \in members
    /\ Begin(r, "team", [NoWork EXCEPT !.team = t, !.members = members, !.newLead = u,
                           !.rewrite = TRUE, !.targets = {v \in members : isActive[v]},
                           !.pc = "teamLock"])
    /\ UNCHANGED <<kinds, memberVars, teamVars, inviteVars>>

(* An edit reads the team; what the body does not give (a roster, a lead)  *)
(* is what it read. An archived team is only recovered (and to recover one *)
(* that is not archived changes nothing).                                  *)
TeamEdit(r, t, members, u, shelf) ==
    LET wholeRoster == IF members = {} THEN roster[t] ELSE members
        itsLead == IF u = Nil THEN lead[t] ELSE u IN
    /\ lead[t] # Nil /\ (archived[t] <=> shelf = "recover")
    /\ itsLead \in wholeRoster
    /\ Begin(r, "team", [NoWork EXCEPT !.team = t, !.members = wholeRoster, !.newLead = u,
                           !.rewrite = members # {}, !.shelf = shelf,
                           !.targets = {v \in wholeRoster : isActive[v]}, !.pc = "teamLock"])
    /\ UNCHANGED <<kinds, memberVars, teamVars, inviteVars>>

TeamLock(r, u) ==
    /\ work[r].pc = "teamLock" /\ u \in work[r].targets
    /\ u \notin LockedForOther(r)
    /\ work' = [work EXCEPT ![r].targets = @ \ {u},
                            ![r].held = IF isActive[u] THEN @ \cup {u} ELSE @]
    /\ UNCHANGED <<kinds, memberVars, teamVars, inviteVars>>

(* Someone on the roster is not active: nothing is written.                *)
TeamWrite(r) ==
    LET t == work[r].team
        task == work[r] IN
    /\ task.pc = "teamLock" /\ task.targets = {}
    /\ IF task.held = task.members
       THEN /\ lead' = IF task.newLead = Nil THEN lead ELSE [lead EXCEPT ![t] = task.newLead]
            /\ roster' = IF task.rewrite THEN [roster EXCEPT ![t] = task.members] ELSE roster
            /\ archived' = IF task.shelf = "keep" THEN archived
                           ELSE [archived EXCEPT ![t] = task.shelf = "archive"]
       ELSE UNCHANGED teamVars
    /\ Done(r)
    /\ UNCHANGED <<kinds, memberVars, inviteVars>>

-----------------------------------------------------------------------------
(* Invitations.                                                            *)

ExpireStale == invitation' = [i \in Invitations |->
    IF invitation[i] = "overdue" THEN "expired" ELSE invitation[i]]
UnchangedByInvite == UNCHANGED <<kinds, memberVars, teamVars>>

(* The bound on invitations: one id is left for each request under way.    *)
IdsLeft == Cardinality({i \in Invitations : invitation[i] = "none"})
             > Cardinality({q \in Requests : work[q].pc \in {"checkInvited", "createInvite"}})

InviteMemberCheck(r, u, role) ==
    /\ ~isActive[u] /\ IdsLeft
    /\ Begin(r, "invite", [NoWork EXCEPT !.user = u, !.next = role, !.pc = "checkInvited"])
    /\ UnchangedByInvite /\ UNCHANGED inviteVars

InviteCheck(r) ==
    /\ work[r].pc = "checkInvited"
    /\ ExpireStale
    /\ IF \E i \in Invitations : invitation[i] = "pending" /\ invitee[i] = work[r].user
       THEN Done(r) ELSE Go(r, "createInvite")
    /\ UnchangedByInvite /\ UNCHANGED <<invitee, offer, link>>

InviteCreate(r, i) ==
    /\ work[r].pc = "createInvite" /\ invitation[i] = "none"
    /\ invitation' = [invitation EXCEPT ![i] = "pending"]
    /\ invitee' = [invitee EXCEPT ![i] = work[r].user]
    /\ offer' = [offer EXCEPT ![i] = work[r].next]
    /\ Done(r)
    /\ UnchangedByInvite /\ UNCHANGED link

InvitationOverdue(i) ==
    /\ invitation[i] = "pending"
    /\ invitation' = [invitation EXCEPT ![i] = "overdue"]
    /\ UnchangedByInvite /\ UNCHANGED <<invitee, offer, link, work>>

(* GET lists the live ones, and expires the overdue ones first.            *)
ListInvitations ==
    /\ "invite" \in kinds /\ ActiveAdmins # {}
    /\ ExpireStale
    /\ UnchangedByInvite /\ UNCHANGED <<invitee, offer, link, work>>

(* One conditional update gives a new token and a new expiry.              *)
Regenerate(i) ==
    /\ Open(i) /\ ActiveAdmins # {} /\ link[i] < MaxLinks
    /\ invitation' = [invitation EXCEPT ![i] = "pending"]
    /\ link' = [link EXCEPT ![i] = @ + 1]
    /\ UnchangedByInvite /\ UNCHANGED <<invitee, offer, work>>

Revoke(i) ==
    /\ Open(i) /\ ActiveAdmins # {}
    /\ invitation' = [invitation EXCEPT ![i] = "revoked"]
    /\ UnchangedByInvite /\ UNCHANGED <<invitee, offer, link, work>>

(* The invitee, signed in, follows the link that is current now.           *)
AcceptFind(r, i) ==
    /\ Open(i)
    /\ IF invitation[i] = "overdue"
       THEN /\ invitation' = [invitation EXCEPT ![i] = "expired"]
            /\ UNCHANGED work
       ELSE /\ Begin(r, "invite", [NoWork EXCEPT !.user = invitee[i], !.next = offer[i],
                                     !.id = i, !.seen = link[i], !.pc = "claim"])
            /\ UNCHANGED invitation
    /\ UnchangedByInvite /\ UNCHANGED <<invitee, offer, link>>

(* Mutant: the claim trusts what the request found.                        *)
ClaimUnchecked(r) ==
    LET u == work[r].user IN
    /\ work[r].pc = "claim" /\ u \notin LockedForOther(r)
    /\ invitation' = [invitation EXCEPT ![work[r].id] = "accepted"]
    /\ roles' = [roles EXCEPT ![u] = work[r].next]
    /\ isActive' = [isActive EXCEPT ![u] = TRUE]
    /\ currentOrg' = [currentOrg EXCEPT ![u] = TRUE]
    /\ Done(r)
    /\ UNCHANGED <<kinds, teamVars, invitee, offer, link>>

(* The flip is conditional, the membership is written in its transaction;  *)
(* a second claim finds nothing and still answers that they joined.        *)
Claim(r) ==
    LET u == work[r].user
        i == work[r].id IN
    /\ work[r].pc = "claim"
    /\ IF Open(i)
       THEN /\ u \notin LockedForOther(r)
            /\ invitation' = [invitation EXCEPT ![i] = "accepted"]
            /\ roles' = [roles EXCEPT ![u] = work[r].next]
            /\ isActive' = [isActive EXCEPT ![u] = TRUE]
            /\ currentOrg' = [currentOrg EXCEPT ![u] = TRUE]
       ELSE UNCHANGED <<invitation, memberVars>>
    /\ Done(r)
    /\ UNCHANGED <<kinds, teamVars, invitee, offer, link>>

-----------------------------------------------------------------------------
(* POST /orgs/:orgId/switch: enter an organisation one belongs to.         *)
SwitchFind(r, u) ==
    /\ isActive[u] /\ ~currentOrg[u]
    /\ Begin(r, "switch", [NoWork EXCEPT !.user = u, !.pc = "switch"])
    /\ UNCHANGED <<kinds, memberVars, teamVars, inviteVars>>

Switch(r) ==
    /\ work[r].pc = "switch"
    /\ currentOrg' = [currentOrg EXCEPT ![work[r].user] = TRUE]
    /\ Done(r)
    /\ UNCHANGED <<kinds, roles, isActive, teamVars, inviteVars>>

(* The same route, on the way to another organisation.                     *)
SwitchAway(u) ==
    /\ "switch" \in kinds /\ currentOrg[u]
    /\ currentOrg' = [currentOrg EXCEPT ![u] = FALSE]
    /\ UNCHANGED <<kinds, roles, isActive, teamVars, inviteVars, work>>

-----------------------------------------------------------------------------
TransactionStep(r) ==
    \/ CountSnapshot(r) \/ CountDone(r) \/ DeadlockVictim(r)
    \/ \E u \in Users : CountLock(r, u) \/ TeamLock(r, u)
    \/ SetRole(r) \/ RemoveLock(r) \/ RemoveTeams(r) \/ RemoveUser(r)
    \/ TeamWrite(r) \/ InviteCheck(r) \/ Claim(r) \/ Switch(r)
    \/ \E i \in Invitations : InviteCreate(r, i)

NewRequest(r) ==
    \/ \E u \in Users, next \in {"basic", "admin"} :
          RoleFind(r, u, next) \/ InviteMemberCheck(r, u, next)
    \/ \E u \in Users : RemoveFind(r, u) \/ SwitchFind(r, u)
    \/ \E t \in Teams, members \in Rosters, u \in Users : TeamCreate(r, t, members, u)
    \/ \E t \in Teams, members \in Rosters \cup {{}}, u \in Users \cup {Nil},
          shelf \in {"keep", "archive", "recover"} : TeamEdit(r, t, members, u, shelf)
    \/ \E i \in Invitations : AcceptFind(r, i)

Next ==
    \/ \E r \in Requests : TransactionStep(r) \/ NewRequest(r)
    \/ \E i \in Invitations : InvitationOverdue(i) \/ Regenerate(i) \/ Revoke(i)
    \/ ListInvitations
    \/ \E u \in Users : SwitchAway(u)

Spec == Init /\ [][Next]_vars
(* A transaction goes on while its process runs; a row lock is granted in  *)
(* turn, so a request that waits for one gets it again and again.          *)
MemberFairness == \A r \in Requests : SF_vars(TransactionStep(r))

-----------------------------------------------------------------------------
LocksExclude == \A q, r \in Requests : q # r => work[q].held \cap work[r].held = {}

(* Each variable keeps its type; no two requests hold one membership row.  *)
TypeOK ==
    /\ kinds \in KindSets
    /\ roles \in [Users -> Roles]
    /\ isActive \in [Users -> BOOLEAN] /\ currentOrg \in [Users -> BOOLEAN]
    /\ lead \in [Teams -> Users \cup {Nil}] /\ roster \in [Teams -> SUBSET Users]
    /\ archived \in [Teams -> BOOLEAN]
    /\ invitation \in [Invitations -> InvitationStatuses]
    /\ invitee \in [Invitations -> Users \cup {Nil}] /\ offer \in [Invitations -> Roles]
    /\ link \in [Invitations -> 0..MaxLinks]
    /\ work \in [Requests -> Work]
    /\ LocksExclude

(* Demotions and removals that race leave the organisation an active       *)
(* administrator, as long as nobody's role is raised or granted meanwhile: *)
(* the row locks of lockAndCountActiveAdmins, members.ts.                  *)
OrgKeepsAdmin == kinds \cap {"promote", "invite"} = {} => ActiveAdmins # {}

(* Nobody leads a team, archived or not, whose membership was taken: the   *)
(* lock that rosterIsActive and the removal share. Without invitations: a  *)
(* person who is back before their removal ends is removed unlocked.       *)
TeamLeadIsActive ==
    "invite" \notin kinds => \A t \in Teams : lead[t] # Nil => isActive[lead[t]]

(* Removals, role changes and rosters at once leave someone in charge, of  *)
(* the organisation and of every team that has a lead.                     *)
LeadersStay == OrgKeepsAdmin /\ TeamLeadIsActive

(* A membership begins only with an invitation of that person that was     *)
(* open until this step, and with the role it offers.                      *)
JoinsByInvitation ==
    \A u \in Users : ~isActive[u] /\ isActive'[u] =>
        \E i \in Invitations : /\ Open(i) /\ invitation'[i] = "accepted"
                               /\ invitee[i] = u /\ roles'[u] = offer[i]

(* An accepted, expired or revoked invitation is never live again, however *)
(* requests that found it live go on.                                      *)
FinishedStaysFinished ==
    \A i \in Invitations : invitation[i] \in {"expired", "accepted", "revoked"} =>
        invitation'[i] = invitation[i]

(* However invitations are claimed, replaced, revoked and overdue at once. *)
JoinsOnce == [][JoinsByInvitation /\ FinishedStaysFinished]_vars

(* Requests that wait for each other's rows all end: what cannot be        *)
(* granted is rolled back.                                                 *)
RequestsEnd == \A r \in Requests : work[r].pc # "idle" ~> work[r].pc = "idle"

-----------------------------------------------------------------------------
(* What the code says and does not do; TLC refutes each, see the README.   *)

(* members.ts: "An org always keeps at least one admin".                   *)
AlwaysAnAdmin == ActiveAdmins # {}

(* schema.prisma: the lead of a team is one of its members.                *)
LeadOnRoster == \A t \in Teams : lead[t] # Nil => lead[t] \in roster[t]

(* team.ts: one live link per address.                                     *)
OneLiveLink ==
    \A i, j \in Invitations : i # j /\ invitation[i] = "pending" /\ invitation[j] = "pending"
        => invitee[i] # invitee[j]

(* team.ts: a link that was replaced stops working at once.                *)
OldLinksAreDead ==
    [][\A r \in Requests : work[r].pc = "claim" /\ invitation'[work[r].id] = "accepted"
          /\ invitation[work[r].id] # "accepted" /\ work'[r].pc = "idle"
          => work[r].seen = link[work[r].id]]_vars

(* invitations.ts: who finds the invitation claimed is a member.           *)
ClaimedIsMember ==
    [][\A r \in Requests : work[r].pc = "claim" /\ work'[r].pc = "idle"
          => isActive'[work[r].user]]_vars

(* members.ts: nobody is left in an organisation they cannot open.         *)
CurrentOrgIsOpen == \A u \in Users : currentOrg[u] => isActive[u]
=============================================================================
