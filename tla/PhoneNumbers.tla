---------------------------- MODULE PhoneNumbers ----------------------------
(***************************************************************************)
(* The life of one organisation's phone numbers: the PhoneNumber table,    *)
(* the four routes that write it (buy, activate, assign, release), the two *)
(* pg-boss jobs that spend and save money (provision-number and            *)
(* release-number), and Twilio, which sells and takes back numbers.        *)
(*                                                                         *)
(* Routes are sessions that stop between any two database statements.      *)
(* Postgres runs at READ COMMITTED: a statement sees what is committed     *)
(* when it starts, an UPDATE that meets a row locked by an uncommitted     *)
(* transaction waits, and re-checks its WHERE clause on the row it finds.  *)
(* A transaction's writes are kept in the session (`held`) until commit.   *)
(***************************************************************************)
EXTENDS Naturals, FiniteSets

CONSTANTS
    Rows,                \* PhoneNumber ids that may ever be created
    Numbers,             \* E.164 numbers Twilio has for sale
    Users,               \* members of the organisation
    Sessions,            \* concurrent requests
    AdminSessions,       \* the sessions whose caller is an admin
    UserOf,              \* the caller of each session
    JobIds,              \* pg-boss job slots; at most this many jobs live at once
    Sids,                \* Twilio SIDs; a bound on the purchases Twilio makes
    ProvisionRetryLimit, \* PROVISION_NUMBER_RETRY_LIMIT
    ReleaseRetryLimit,   \* RELEASE_NUMBER_RETRY_LIMIT
    Faults,              \* the failures this instance meets (FaultKinds)
    Nil                  \* null

(* "crash": a process dies between two steps of a request or of a job.     *)
(* "lostAnswer": Twilio does the work but its answer never arrives.        *)
(* "ambiguousSend": the enqueue throws although the job was stored.        *)
(* "expire": pg-boss gives a job that still runs to a second worker.       *)
(* "undoFails": the compensating write of a route fails as well.           *)
FaultKinds == {"crash", "lostAnswer", "ambiguousSend", "expire", "undoFails"}

ASSUME ConstantsAssumption ==
    /\ AdminSessions \subseteq Sessions
    /\ UserOf \in [Sessions -> Users]
    /\ ProvisionRetryLimit \in Nat
    /\ ReleaseRetryLimit \in Nat
    /\ Faults \subseteq FaultKinds
    /\ Nil \notin Rows \cup Numbers \cup Users \cup Sids

VARIABLES
    status,              \* row -> "none" before INSERT, "gone" after DELETE
    assignedUserId,
    isActiveForOutbound,
    twilioSid,
    e164,
    boughtFor,           \* SID -> the row whose purchase produced it
    rented,              \* the SIDs Twilio bills the organisation for
    jobs,                \* the jobs pg-boss holds and where their workers are
    req                  \* what each session is in the middle of

rowVars == <<status, assignedUserId, isActiveForOutbound, twilioSid, e164>>
twilioVars == <<boughtFor, rented>>
vars == <<rowVars, twilioVars, jobs, req>>

-----------------------------------------------------------------------------
Statuses == {"searching", "active", "releasing", "failed"}
RowStatuses == Statuses \cup {"none", "gone"}
OwnedStatuses == {"searching", "active", "releasing"}
JobKinds == {"provision", "release"}
RunningPcs == {"call", "record", "giveUp", "remove"}
OpenTxnPcs == {"snapshot", "clear", "set", "lockSnapshot", "lock", "read",
               "cas", "assign"}
RequestPcs == OpenTxnPcs \cup
    {"idle", "create", "queueProvision", "undoBuy", "queueRelease", "undoRelease"}

Job == [pc : {"free", "queued"} \cup RunningPcs, kind : JobKinds,
        row : Rows \cup {Nil}, retry : Nat, sid : Sids \cup {Nil},
        zombie : BOOLEAN]
FreeJob == [pc |-> "free", kind |-> "provision", row |-> Nil, retry |-> 0,
            sid |-> Nil, zombie |-> FALSE]

(* targets: the rows a statement's snapshot matched. held: the rows this   *)
(* open transaction has locked. found: the status the release route read.  *)
Request == [pc : RequestPcs, row : Rows \cup {Nil}, num : Numbers \cup {Nil},
            to : Users \cup {Nil}, found : RowStatuses,
            targets : SUBSET Rows, held : SUBSET Rows]
IdleRequest == [pc |-> "idle", row |-> Nil, num |-> Nil, to |-> Nil,
                found |-> "none", targets |-> {}, held |-> {}]

Exists(r) == status[r] \in Statuses
Mine(s) == {r \in Rows : Exists(r) /\ assignedUserId[r] = UserOf[s]}
LockedRows == UNION {req[s].held : s \in Sessions}
LockedForOther(s) == UNION {req[t].held : t \in Sessions \ {s}}

Init ==
    /\ status = [r \in Rows |-> "none"]
    /\ assignedUserId = [r \in Rows |-> Nil]
    /\ isActiveForOutbound = [r \in Rows |-> FALSE]
    /\ twilioSid = [r \in Rows |-> Nil]
    /\ e164 = [r \in Rows |-> Nil]
    /\ boughtFor = [x \in Sids |-> Nil]
    /\ rented = {}
    /\ jobs = [j \in JobIds |-> FreeJob]
    /\ req = [s \in Sessions |-> IdleRequest]

Continue(s, changes) == req' = [req EXCEPT ![s] = changes]
Answer(s) == Continue(s, IdleRequest)

-----------------------------------------------------------------------------
(* The queue.                                                              *)

Enqueue(kind, r) ==
    \E j \in JobIds :
        /\ jobs[j].pc = "free"
        /\ jobs' = [jobs EXCEPT ![j] =
                      [FreeJob EXCEPT !.pc = "queued", !.kind = kind, !.row = r]]

(* A route's enqueue: stored; or throws with nothing stored; or throws     *)
(* with the job stored. A throw leads to the route's undo step.            *)
SendOrThrow(s, kind, undoPc) ==
    \/ Enqueue(kind, req[s].row) /\ Answer(s)
    \/ UNCHANGED jobs /\ Continue(s, [req[s] EXCEPT !.pc = undoPc])
    \/ /\ "ambiguousSend" \in Faults
       /\ Enqueue(kind, req[s].row)
       /\ Continue(s, [req[s] EXCEPT !.pc = undoPc])

RetryLimit(kind) ==
    IF kind = "provision" THEN ProvisionRetryLimit ELSE ReleaseRetryLimit
RetriesLeft(j) == jobs[j].retry < RetryLimit(jobs[j].kind)

(* The handler threw or its worker died: pg-boss redelivers the job while  *)
(* the budget lasts. A delivery pg-boss already gave away is not its any   *)
(* more.                                                                   *)
Redelivered(j) ==
    jobs' = [jobs EXCEPT ![j] =
               IF RetriesLeft(j) /\ ~jobs[j].zombie
               THEN [jobs[j] EXCEPT !.pc = "queued", !.retry = @ + 1, !.sid = Nil]
               ELSE FreeJob]

(* The handler returned; a crash before the acknowledgement redelivers.    *)
Settled(j) ==
    \/ jobs' = [jobs EXCEPT ![j] = FreeJob]
    \/ "crash" \in Faults /\ Redelivered(j)

GoTo(j, pc) == jobs' = [jobs EXCEPT ![j].pc = pc]

-----------------------------------------------------------------------------
(* POST /phone-numbers: buy.                                               *)

BuyCheck(s, n) ==
    /\ req[s].pc = "idle"
    /\ \E r \in Rows : status[r] = "none"    \* the bound on rows
    /\ ~\E r \in Rows : e164[r] = n /\ status[r] \in OwnedStatuses
    /\ Continue(s, [IdleRequest EXCEPT !.pc = "create", !.num = n])
    /\ UNCHANGED <<rowVars, twilioVars, jobs>>

BuyCreate(s) ==
    /\ req[s].pc = "create"
    /\ \E r \in Rows :
        /\ status[r] = "none"
        /\ status' = [status EXCEPT ![r] = "searching"]
        /\ assignedUserId' = [assignedUserId EXCEPT ![r] = UserOf[s]]
        /\ e164' = [e164 EXCEPT ![r] = req[s].num]
        /\ Continue(s, [req[s] EXCEPT !.pc = "queueProvision", !.row = r])
    /\ UNCHANGED <<isActiveForOutbound, twilioSid, twilioVars, jobs>>

BuyEnqueue(s) ==
    /\ req[s].pc = "queueProvision"
    /\ SendOrThrow(s, "provision", "undoBuy")
    /\ UNCHANGED <<rowVars, twilioVars>>

(* Compare-and-set of one row's status, outside any transaction: it waits  *)
(* for a transaction that holds the row, and writes nothing if the row has *)
(* another status by then.                                                 *)
CompareAndSetStatus(r, from, to) ==
    /\ r \notin LockedRows
    /\ status' = IF status[r] = from THEN [status EXCEPT ![r] = to] ELSE status

(* Mutant: the cleanup of a failed enqueue is forgotten.                   *)
BuyUndoForgotten(s) ==
    /\ req[s].pc = "undoBuy"
    /\ Answer(s)
    /\ UNCHANGED <<rowVars, twilioVars, jobs>>

BuyUndo(s) ==
    /\ req[s].pc = "undoBuy"
    /\ \/ CompareAndSetStatus(req[s].row, "searching", "failed")
       \/ "undoFails" \in Faults /\ UNCHANGED status
    /\ Answer(s)
    /\ UNCHANGED <<assignedUserId, isActiveForOutbound, twilioSid, e164,
                   twilioVars, jobs>>

-----------------------------------------------------------------------------
(* PATCH /phone-numbers/:id: choose the outbound caller ID.                *)

ActivateFind(s, r) ==
    /\ req[s].pc = "idle"
    /\ r \in Mine(s)
    /\ status[r] = "active"
    /\ Continue(s, [IdleRequest EXCEPT !.pc = "snapshot", !.row = r])
    /\ UNCHANGED <<rowVars, twilioVars, jobs>>

ActivateSnapshot(s) ==
    /\ req[s].pc = "snapshot"
    /\ Continue(s, [req[s] EXCEPT !.pc = "clear",
                      !.targets = {q \in Mine(s) \ {req[s].row} : isActiveForOutbound[q]}])
    /\ UNCHANGED <<rowVars, twilioVars, jobs>>

(* The other numbers are switched off: the rows matched by the snapshot,   *)
(* once unlocked, and only those that match still.                         *)
ActivateClear(s) ==
    /\ req[s].pc = "clear"
    /\ req[s].targets \cap LockedForOther(s) = {}
    /\ Continue(s, [req[s] EXCEPT !.pc = "set",
                      !.held = {q \in req[s].targets \cap Mine(s) : isActiveForOutbound[q]}])
    /\ UNCHANGED <<rowVars, twilioVars, jobs>>

(* The chosen number is switched on, whatever its status is by now, and    *)
(* the transaction commits; or it is not hers any more and it rolls back.  *)
ActivateSet(s) ==
    /\ req[s].pc = "set"
    /\ IF req[s].row \in Mine(s)
       THEN /\ req[s].row \notin LockedForOther(s)
            /\ isActiveForOutbound' =
                 [q \in Rows |-> IF q = req[s].row THEN TRUE
                                 ELSE isActiveForOutbound[q] /\ q \notin req[s].held]
       ELSE UNCHANGED isActiveForOutbound
    /\ Answer(s)
    /\ UNCHANGED <<status, assignedUserId, twilioSid, e164, twilioVars, jobs>>

-----------------------------------------------------------------------------
(* PATCH /phone-numbers/:id/assignment: who holds it (admin only). Every   *)
(* user of the model holds an active seat; Nil is "nobody".                *)

AssignFind(s, r, u) ==
    /\ s \in AdminSessions
    /\ req[s].pc = "idle"
    /\ Exists(r)
    /\ assignedUserId[r] # u       \* already theirs: answered, nothing written
    /\ Continue(s, [IdleRequest EXCEPT !.pc = "assign", !.row = r, !.to = u])
    /\ UNCHANGED <<rowVars, twilioVars, jobs>>

(* Mutant: the caller-ID flag travels with the number.                     *)
AssignSetKeepsFlag(s) ==
    LET r == req[s].row IN
    /\ req[s].pc = "assign"
    /\ Exists(r) => r \notin LockedForOther(s)
    /\ assignedUserId' = IF Exists(r) THEN [assignedUserId EXCEPT ![r] = req[s].to]
                                      ELSE assignedUserId
    /\ Answer(s)
    /\ UNCHANGED <<status, isActiveForOutbound, twilioSid, e164, twilioVars, jobs>>

AssignSet(s) ==
    LET r == req[s].row IN
    /\ req[s].pc = "assign"
    /\ IF Exists(r)
       THEN /\ r \notin LockedForOther(s)
            /\ assignedUserId' = [assignedUserId EXCEPT ![r] = req[s].to]
            /\ isActiveForOutbound' = [isActiveForOutbound EXCEPT ![r] = FALSE]
       ELSE UNCHANGED <<assignedUserId, isActiveForOutbound>>
    /\ Answer(s)
    /\ UNCHANGED <<status, twilioSid, e164, twilioVars, jobs>>

-----------------------------------------------------------------------------
(* DELETE /phone-numbers/:id: give the number back.                        *)

ReleaseStart(s, r) ==
    /\ req[s].pc = "idle"
    /\ Exists(r)
    /\ Continue(s, [IdleRequest EXCEPT !.pc = "lockSnapshot", !.row = r])
    /\ UNCHANGED <<rowVars, twilioVars, jobs>>

ReleaseSnapshot(s) ==
    /\ req[s].pc = "lockSnapshot"
    /\ Continue(s, [req[s] EXCEPT !.pc = "lock", !.targets = Mine(s)])
    /\ UNCHANGED <<rowVars, twilioVars, jobs>>

(* SELECT ... FOR UPDATE over the caller's numbers.                        *)
ReleaseLock(s) ==
    /\ req[s].pc = "lock"
    /\ req[s].targets \cap LockedForOther(s) = {}
    /\ Continue(s, [req[s] EXCEPT !.pc = "read",
                      !.held = req[s].targets \cap Mine(s), !.targets = {}])
    /\ UNCHANGED <<rowVars, twilioVars, jobs>>

HasFallback(s, r) == \E q \in Mine(s) \ {r} : status[q] = "active"

(* Mutant: a release in flight is not refused.                             *)
RefusesAllButReleasing(s) ==
    LET r == req[s].row IN
    \/ r \notin Mine(s)
    \/ status[r] = "searching"
    \/ isActiveForOutbound[r] /\ HasFallback(s, r)

(* Not found, a purchase in flight, already releasing, and a caller ID     *)
(* with another number to switch to are all answered without a write.      *)
ReleaseRefused(s) ==
    LET r == req[s].row IN
    \/ r \notin Mine(s)
    \/ status[r] \in {"searching", "releasing"}
    \/ isActiveForOutbound[r] /\ HasFallback(s, r)

ReleaseRead(s) ==
    /\ req[s].pc = "read"
    /\ IF ReleaseRefused(s) THEN Answer(s)
       ELSE Continue(s, [req[s] EXCEPT !.pc = "cas", !.found = status[req[s].row]])
    /\ UNCHANGED <<rowVars, twilioVars, jobs>>

ReleaseCas(s) ==
    LET r == req[s].row IN
    /\ req[s].pc = "cas"
    /\ IF r \in Mine(s) /\ status[r] = req[s].found
       THEN /\ r \notin LockedForOther(s)
            /\ status' = [status EXCEPT ![r] = "releasing"]
            /\ isActiveForOutbound' = [isActiveForOutbound EXCEPT ![r] = FALSE]
            /\ Continue(s, [req[s] EXCEPT !.pc = "queueRelease", !.held = {}])
       ELSE UNCHANGED <<status, isActiveForOutbound>> /\ Answer(s)
    /\ UNCHANGED <<assignedUserId, twilioSid, e164, twilioVars, jobs>>

ReleaseEnqueue(s) ==
    /\ req[s].pc = "queueRelease"
    /\ SendOrThrow(s, "release", "undoRelease")
    /\ UNCHANGED <<rowVars, twilioVars>>

ReleaseUndo(s) ==
    /\ req[s].pc = "undoRelease"
    /\ \/ CompareAndSetStatus(req[s].row, "releasing", req[s].found)
       \/ "undoFails" \in Faults /\ UNCHANGED status
    /\ Answer(s)
    /\ UNCHANGED <<assignedUserId, isActiveForOutbound, twilioSid, e164,
                   twilioVars, jobs>>

(* An open transaction ends without a commit: a deadlock victim, Prisma's  *)
(* transaction timeout, a lost connection. Nothing was written.            *)
TxnRollback(s) ==
    /\ req[s].pc \in OpenTxnPcs \cup {"create"}
    /\ Answer(s)
    /\ UNCHANGED <<rowVars, twilioVars, jobs>>

(* The process dies after the row was committed and before the job was     *)
(* stored, or before the undo.                                             *)
ServerCrash(s) ==
    /\ "crash" \in Faults
    /\ req[s].pc \in {"queueProvision", "undoBuy", "queueRelease", "undoRelease"}
    /\ Answer(s)
    /\ UNCHANGED <<rowVars, twilioVars, jobs>>

-----------------------------------------------------------------------------
(* provisionNumberJob.                                                     *)

ProvisionPick(j) ==
    /\ jobs[j].pc = "queued" /\ jobs[j].kind = "provision"
    /\ IF status[jobs[j].row] = "searching"
       THEN \/ GoTo(j, "call")
            \/ GoTo(j, "giveUp")    \* PUBLIC_BASE_URL is not set
       ELSE Settled(j)              \* the row is gone or already settled
    /\ UNCHANGED <<rowVars, twilioVars, req>>

(* What Twilio does with a purchase: it sells a number nobody rents.       *)
ForSale(n) == \A x \in rented : e164[boughtFor[x]] # n
Sell(j, x) ==
    /\ ForSale(e164[jobs[j].row])
    /\ boughtFor[x] = Nil           \* a fresh SID; the bound on purchases
    /\ boughtFor' = [boughtFor EXCEPT ![x] = jobs[j].row]
    /\ rented' = rented \cup {x}

ProvisionCall(j) ==
    /\ jobs[j].pc = "call" /\ jobs[j].kind = "provision"
    /\ \E x \in Sids :
        /\ Sell(j, x)
        /\ jobs' = [jobs EXCEPT ![j].pc = "record", ![j].sid = x]
    /\ UNCHANGED <<rowVars, req>>

(* A transient failure (no status, 429, 5xx) is retried while the budget   *)
(* lasts; a rejection is not. The purchase may have happened all the same. *)
TransientOrRejected(j) ==
    \/ RetriesLeft(j) /\ Redelivered(j)
    \/ GoTo(j, "giveUp")

ProvisionCallFails(j) ==
    /\ jobs[j].pc = "call" /\ jobs[j].kind = "provision"
    /\ \/ UNCHANGED twilioVars /\ TransientOrRejected(j)
       \/ /\ "lostAnswer" \in Faults
          /\ \E x \in Sids : Sell(j, x)
          /\ IF RetriesLeft(j) THEN Redelivered(j) ELSE GoTo(j, "giveUp")
    /\ UNCHANGED <<rowVars, req>>

ProvisionGiveUp(j) ==
    /\ jobs[j].pc = "giveUp" /\ jobs[j].kind = "provision"
    /\ CompareAndSetStatus(jobs[j].row, "searching", "failed")
    /\ Settled(j)
    /\ UNCHANGED <<assignedUserId, isActiveForOutbound, twilioSid, e164,
                   twilioVars, req>>

ProvisionRecord(j) ==
    LET r == jobs[j].row IN
    /\ jobs[j].pc = "record"
    /\ CompareAndSetStatus(r, "searching", "active")
    /\ twilioSid' = IF status[r] = "searching"
                    THEN [twilioSid EXCEPT ![r] = jobs[j].sid] ELSE twilioSid
    /\ Settled(j)
    /\ UNCHANGED <<assignedUserId, isActiveForOutbound, e164, twilioVars, req>>

-----------------------------------------------------------------------------
(* releaseNumberJob.                                                       *)

(* Mutant: a row that was never bought is sent to Twilio like the others.  *)
ReleasePickIgnoresSid(j) ==
    /\ jobs[j].pc = "queued" /\ jobs[j].kind = "release"
    /\ IF status[jobs[j].row] # "releasing" THEN Settled(j)
       ELSE jobs' = [jobs EXCEPT ![j].pc = "call", ![j].sid = twilioSid[jobs[j].row]]
    /\ UNCHANGED <<rowVars, twilioVars, req>>

ReleasePick(j) ==
    /\ jobs[j].pc = "queued" /\ jobs[j].kind = "release"
    /\ IF status[jobs[j].row] # "releasing" THEN Settled(j)
       ELSE IF twilioSid[jobs[j].row] = Nil THEN GoTo(j, "remove")
       ELSE jobs' = [jobs EXCEPT ![j].pc = "call", ![j].sid = twilioSid[jobs[j].row]]
    /\ UNCHANGED <<rowVars, twilioVars, req>>

(* Twilio takes the number back, or answers 404 because it no longer has   *)
(* it: both lead to the delete.                                            *)
ReleaseCall(j) ==
    /\ jobs[j].pc = "call" /\ jobs[j].kind = "release"
    /\ rented' = rented \ {jobs[j].sid}
    /\ GoTo(j, "remove")
    /\ UNCHANGED <<rowVars, boughtFor, req>>

ReleaseCallFails(j) ==
    /\ jobs[j].pc = "call" /\ jobs[j].kind = "release"
    /\ \/ UNCHANGED rented /\ TransientOrRejected(j)
       \/ /\ "lostAnswer" \in Faults
          /\ jobs[j].sid \in rented
          /\ rented' = rented \ {jobs[j].sid}
          /\ IF RetriesLeft(j) THEN Redelivered(j) ELSE GoTo(j, "giveUp")
    /\ UNCHANGED <<rowVars, boughtFor, req>>

ReleaseGiveUp(j) ==
    /\ jobs[j].pc = "giveUp" /\ jobs[j].kind = "release"
    /\ CompareAndSetStatus(jobs[j].row, "releasing", "active")
    /\ Settled(j)
    /\ UNCHANGED <<assignedUserId, isActiveForOutbound, twilioSid, e164,
                   twilioVars, req>>

(* Mutant: the row gains a fifth status instead of going.                  *)
ReleaseRemoveMarksReleased(j) ==
    /\ jobs[j].pc = "remove"
    /\ CompareAndSetStatus(jobs[j].row, "releasing", "released")
    /\ Settled(j)
    /\ UNCHANGED <<assignedUserId, isActiveForOutbound, twilioSid, e164,
                   twilioVars, req>>

(* removeRow: DELETE ... WHERE status = 'releasing'.                       *)
ReleaseRemove(j) ==
    /\ jobs[j].pc = "remove"
    /\ CompareAndSetStatus(jobs[j].row, "releasing", "gone")
    /\ isActiveForOutbound' =
         [r \in Rows |-> isActiveForOutbound[r] /\ status'[r] # "gone"]
    /\ Settled(j)
    /\ UNCHANGED <<assignedUserId, twilioSid, e164, twilioVars, req>>

(* The worker dies inside the handler (or a database call throws there).   *)
WorkerCrash(j) ==
    /\ "crash" \in Faults
    /\ jobs[j].pc \in RunningPcs
    /\ Redelivered(j)
    /\ UNCHANGED <<rowVars, twilioVars, req>>

(* pg-boss takes a job for lost although its worker is only slow.          *)
JobExpires(j) ==
    /\ "expire" \in Faults
    /\ jobs[j].pc \in RunningPcs /\ ~jobs[j].zombie
    /\ RetriesLeft(j)
    /\ \E k \in JobIds :
        /\ jobs[k].pc = "free"
        /\ jobs' = [jobs EXCEPT ![j].zombie = TRUE,
                      ![k] = [jobs[j] EXCEPT !.pc = "queued", !.retry = @ + 1,
                                             !.sid = Nil]]
    /\ UNCHANGED <<rowVars, twilioVars, req>>

-----------------------------------------------------------------------------
SessionStep(s) ==
    \/ BuyCreate(s) \/ BuyEnqueue(s) \/ BuyUndo(s)
    \/ ActivateSnapshot(s) \/ ActivateClear(s) \/ ActivateSet(s)
    \/ AssignSet(s)
    \/ ReleaseSnapshot(s) \/ ReleaseLock(s) \/ ReleaseRead(s) \/ ReleaseCas(s)
    \/ ReleaseEnqueue(s) \/ ReleaseUndo(s)
    \/ TxnRollback(s)

NewRequest(s) ==
    \/ \E n \in Numbers : BuyCheck(s, n)
    \/ \E r \in Rows : ActivateFind(s, r)
    \/ \E r \in Rows, u \in Users \cup {Nil} : AssignFind(s, r, u)
    \/ \E r \in Rows : ReleaseStart(s, r)

JobStep(j) ==
    \/ ProvisionPick(j) \/ ProvisionCall(j) \/ ProvisionCallFails(j)
    \/ ProvisionGiveUp(j) \/ ProvisionRecord(j)
    \/ ReleasePick(j) \/ ReleaseCall(j) \/ ReleaseCallFails(j)
    \/ ReleaseGiveUp(j) \/ ReleaseRemove(j)

Next ==
    \/ \E s \in Sessions : NewRequest(s) \/ SessionStep(s) \/ ServerCrash(s)
    \/ \E j \in JobIds : JobStep(j) \/ WorkerCrash(j) \/ JobExpires(j)

Spec == Init /\ [][Next]_vars

(* Requests that have begun and jobs that are queued go on: Postgres hands *)
(* a contended row lock to its waiters in turn, so a step that keeps       *)
(* becoming possible is eventually taken. Nobody is obliged to start a     *)
(* request, and no fault is obliged to happen.                             *)
Fairness ==
    /\ \A s \in Sessions : SF_vars(SessionStep(s))
    /\ \A j \in JobIds : SF_vars(JobStep(j))
FairSpec == Spec /\ Fairness

-----------------------------------------------------------------------------
(* Every variable has its type.                                            *)
TypeOK ==
    /\ status \in [Rows -> RowStatuses]
    /\ assignedUserId \in [Rows -> Users \cup {Nil}]
    /\ isActiveForOutbound \in [Rows -> BOOLEAN]
    /\ twilioSid \in [Rows -> Sids \cup {Nil}]
    /\ e164 \in [Rows -> Numbers \cup {Nil}]
    /\ boughtFor \in [Sids -> Rows \cup {Nil}]
    /\ rented \subseteq Sids
    /\ jobs \in [JobIds -> Job]
    /\ req \in [Sessions -> Request]

(* A row is never active without a SID Twilio returned behind it, although *)
(* four different writers move rows to active or back to it: the purchase  *)
(* record, the release job's give-up and the release route's undo.         *)
ActiveHasSid == \A r \in Rows : status[r] = "active" => twilioSid[r] # Nil

(* schema.prisma: a number nobody holds is never anybody's caller ID.      *)
CallerIdHasHolder ==
    \A r \in Rows : isActiveForOutbound[r] => Exists(r) /\ assignedUserId[r] # Nil

(* Whoever wrote it last, a row that claims a number has what the claim    *)
(* needs: the SID behind "active", the holder behind the caller ID.        *)
RowsAreComplete == ActiveHasSid /\ CallerIdHasHolder

(* schema.prisma: at most one number per user is the outbound caller ID.   *)
AtMostOneCallerId ==
    \A q, r \in Rows :
        /\ isActiveForOutbound[q] /\ isActiveForOutbound[r]
        /\ assignedUserId[q] = assignedUserId[r]
        => q = r

(* Every number Twilio bills for is known: a row that still exists carries *)
(* its SID, or the job that bought it is about to record it.               *)
NoOrphanRental ==
    \A x \in rented :
        \/ \E r \in Rows : Exists(r) /\ twilioSid[r] = x
        \/ \E j \in JobIds : jobs[j].pc = "record" /\ jobs[j].sid = x

(* An active row is a number the organisation rents.                       *)
ActiveIsRented == \A r \in Rows : status[r] = "active" => twilioSid[r] \in rented

(* Two active rows are never the same number, although two buys of one     *)
(* number can both pass the ownership check.                               *)
OneActiveRowPerNumber ==
    \A q, r \in Rows :
        status[q] = "active" /\ status[r] = "active" /\ e164[q] = e164[r] => q = r

(* Twilio's books and the rows agree.                                      *)
BooksAgree == NoOrphanRental /\ ActiveIsRented /\ OneActiveRowPerNumber

(* Twilio is never asked to take back a number that its row says the       *)
(* organisation has decided to keep.                                       *)
KeptNumberIsNotReleased ==
    [][\A r \in Rows : twilioSid[r] \in rented /\ twilioSid[r] \notin rented'
                         => status[r] = "releasing"]_vars

(* A purchase and a release both come to an end.                           *)
PurchaseSettles == \A r \in Rows : status[r] = "searching" ~> status[r] # "searching"
ReleaseSettles == \A r \in Rows : status[r] = "releasing" ~> status[r] # "releasing"
NumbersSettle == PurchaseSettles /\ ReleaseSettles

(* What was decided about a number, no more and no less, is carried out.   *)
DecisionsAreCarriedOut == KeptNumberIsNotReleased /\ (Fairness => NumbersSettle)
-----------------------------------------------------------------------------
(* The inductive invariants behind the proofs of PhoneNumbersProofs.       *)

(* Whoever is in the middle of something knows which row it is about.      *)
WorkNamesRows ==
    /\ \A s \in Sessions : req[s].pc \notin {"idle", "create"} => req[s].row \in Rows
    /\ \A j \in JobIds : jobs[j].pc # "free" => jobs[j].row \in Rows

(* Everyone who may write "active" next has seen a SID: the release route  *)
(* that would restore it, the job that would give up, the purchase.        *)
SidBehindActive ==
    /\ ActiveHasSid
    /\ \A s \in Sessions : req[s].found = "active"
          => /\ req[s].pc \in {"cas", "queueRelease", "undoRelease"}
             /\ req[s].row \in Rows /\ twilioSid[req[s].row] # Nil
    /\ \A j \in JobIds : jobs[j].pc = "record" => jobs[j].sid # Nil
    /\ \A j \in JobIds : jobs[j].kind = "release" /\ jobs[j].pc \in {"call", "giveUp"}
                            => twilioSid[jobs[j].row] # Nil

(* No member has two requests open at once.                                *)
OneRequestPerUser == \A s, t \in Sessions : UserOf[s] = UserOf[t] => s = t

(* An activation about to switch its number on has every other caller ID   *)
(* of its user among the rows it switches off.                             *)
ActivationCoversOthers ==
    \A s \in Sessions, r \in Rows :
        /\ isActiveForOutbound[r] /\ assignedUserId[r] = UserOf[s] /\ r # req[s].row
        => /\ req[s].pc = "clear" => r \in req[s].targets
           /\ req[s].pc = "set" => r \in req[s].held

(* What the repository says and the code does not keep; no run checks     *)
(* these two, the README names an instance that refutes each.              *)

(* A number that spent time half released does not silently become         *)
(* somebody's caller ID: when the release is given up the flag is off.     *)
GivenUpReleaseIsSilent ==
    [][\A r \in Rows : status[r] = "releasing" /\ status'[r] = "active"
                         => ~isActiveForOutbound'[r]]_vars

(* phoneNumbers.ts: a failed row is a purchase that never happened.        *)
FailedWasNeverBought ==
    \A r \in Rows : status[r] = "failed" => \A x \in rented : boughtFor[x] # r
=============================================================================
