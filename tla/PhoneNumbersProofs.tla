------------------------- MODULE PhoneNumbersProofs -------------------------
(* Theorems about PhoneNumbers, for any number of rows, sessions, jobs and *)
(* members, any retry limits and any combination of faults: type           *)
(* correctness, that an active row has a SID and that a caller ID is the   *)
(* only one, each from an inductive invariant.                             *)
EXTENDS PhoneNumbers, TLAPS

(* A session between two requests is a well-typed session.                 *)
LEMMA IdleRequestType == IdleRequest \in Request
  BY DEF Request, IdleRequest, RequestPcs, RowStatuses, Statuses

(* A session that moves on to a well-typed record leaves `req` well typed. *)
LEMMA ContinueType ==
  ASSUME req \in [Sessions -> Request], NEW s \in Sessions,
         NEW x \in Request, Continue(s, x)
  PROVE  req' \in [Sessions -> Request]
  BY DEF Continue

(* Answering a request leaves `req` well typed.                            *)
LEMMA AnswerType ==
  ASSUME req \in [Sessions -> Request], NEW s \in Sessions, Answer(s)
  PROVE  req' \in [Sessions -> Request]
  BY IdleRequestType, ContinueType DEF Answer

(* Every request a member can start is recorded with its type.             *)
LEMMA NewRequestType ==
  ASSUME TypeOK, NEW s \in Sessions, NewRequest(s)
  PROVE  req' \in [Sessions -> Request]
<1>1. ASSUME NEW n \in Numbers, BuyCheck(s, n) PROVE req' \in [Sessions -> Request]
  <2>1. [IdleRequest EXCEPT !.pc = "create", !.num = n] \in Request
    BY IdleRequestType DEF Request, RequestPcs
  <2>2. QED
    BY <1>1, <2>1, ContinueType DEF BuyCheck, TypeOK
<1>2. ASSUME NEW r \in Rows, ActivateFind(s, r) PROVE req' \in [Sessions -> Request]
  <2>1. [IdleRequest EXCEPT !.pc = "snapshot", !.row = r] \in Request
    BY IdleRequestType DEF Request, RequestPcs, OpenTxnPcs
  <2>2. QED
    BY <1>2, <2>1, ContinueType DEF ActivateFind, TypeOK
<1>3. ASSUME NEW r \in Rows, NEW u \in Users \cup {Nil}, AssignFind(s, r, u)
      PROVE  req' \in [Sessions -> Request]
  <2>1. [IdleRequest EXCEPT !.pc = "assign", !.row = r, !.to = u] \in Request
    BY IdleRequestType DEF Request, RequestPcs, OpenTxnPcs
  <2>2. QED
    BY <1>3, <2>1, ContinueType DEF AssignFind, TypeOK
<1>4. ASSUME NEW r \in Rows, ReleaseStart(s, r) PROVE req' \in [Sessions -> Request]
  <2>1. [IdleRequest EXCEPT !.pc = "lockSnapshot", !.row = r] \in Request
    BY IdleRequestType DEF Request, RequestPcs, OpenTxnPcs
  <2>2. QED
    BY <1>4, <2>1, ContinueType DEF ReleaseStart, TypeOK
<1>5. QED
  BY <1>1, <1>2, <1>3, <1>4 DEF NewRequest

(* Every statement of a route leaves the session record well typed.        *)
LEMMA SessionStepType ==
  ASSUME TypeOK, NEW s \in Sessions, SessionStep(s)
  PROVE  req' \in [Sessions -> Request]
<1>1. /\ req \in [Sessions -> Request]
      /\ req[s] \in Request
  BY DEF TypeOK
<1>2. ASSUME NEW p \in RequestPcs PROVE [req[s] EXCEPT !.pc = p] \in Request
  BY <1>1 DEF Request
<1>3. CASE BuyCreate(s)
  <2>1. PICK r \in Rows : Continue(s, [req[s] EXCEPT !.pc = "queueProvision", !.row = r])
    BY <1>3 DEF BuyCreate
  <2>2. [req[s] EXCEPT !.pc = "queueProvision", !.row = r] \in Request
    BY <1>1 DEF Request, RequestPcs
  <2>3. QED
    BY <1>1, <2>1, <2>2, ContinueType
<1>4. CASE BuyEnqueue(s) \/ ReleaseEnqueue(s)
  <2>1. "undoBuy" \in RequestPcs /\ "undoRelease" \in RequestPcs
    BY DEF RequestPcs
  <2>2. QED
    BY <1>1, <1>2, <1>4, <2>1, ContinueType, AnswerType
       DEF BuyEnqueue, ReleaseEnqueue, SendOrThrow
<1>5. CASE BuyUndo(s) \/ ReleaseUndo(s) \/ ActivateSet(s) \/ AssignSet(s) \/ TxnRollback(s)
  BY <1>1, <1>5, AnswerType DEF BuyUndo, ReleaseUndo, ActivateSet, AssignSet, TxnRollback
<1>6. CASE ActivateSnapshot(s) \/ ReleaseSnapshot(s)
  <2>1. ASSUME NEW T \in SUBSET Rows, NEW p \in {"clear", "lock"}
        PROVE  [req[s] EXCEPT !.pc = p, !.targets = T] \in Request
    BY <1>1 DEF Request, RequestPcs, OpenTxnPcs
  <2>2. /\ Mine(s) \in SUBSET Rows
        /\ {q \in Mine(s) \ {req[s].row} : isActiveForOutbound[q]} \in SUBSET Rows
    BY DEF Mine
  <2>3. QED
    BY <1>1, <1>6, <2>1, <2>2, ContinueType DEF ActivateSnapshot, ReleaseSnapshot
<1>7. CASE ActivateClear(s)
  <2>1. {q \in req[s].targets \cap Mine(s) : isActiveForOutbound[q]} \in SUBSET Rows
    BY DEF Mine
  <2>2. [req[s] EXCEPT !.pc = "set",
           !.held = {q \in req[s].targets \cap Mine(s) : isActiveForOutbound[q]}] \in Request
    BY <1>1, <2>1 DEF Request, RequestPcs, OpenTxnPcs
  <2>3. QED
    BY <1>1, <1>7, <2>2, ContinueType DEF ActivateClear
<1>8. CASE ReleaseLock(s)
  <2>1. [req[s] EXCEPT !.pc = "read", !.held = req[s].targets \cap Mine(s),
           !.targets = {}] \in Request
    BY <1>1 DEF Request, RequestPcs, OpenTxnPcs, Mine
  <2>2. QED
    BY <1>1, <1>8, <2>1, ContinueType DEF ReleaseLock
<1>9. CASE ReleaseRead(s)
  <2>1. CASE ReleaseRefused(s)
    BY <1>1, <1>9, <2>1, AnswerType DEF ReleaseRead
  <2>2. CASE ~ReleaseRefused(s)
    <3>1. status[req[s].row] \in RowStatuses
      BY <2>2 DEF ReleaseRefused, Mine, TypeOK
    <3>2. [req[s] EXCEPT !.pc = "cas", !.found = status[req[s].row]] \in Request
      BY <1>1, <3>1 DEF Request, RequestPcs, OpenTxnPcs
    <3>3. QED
      BY <1>1, <1>9, <2>2, <3>2, ContinueType DEF ReleaseRead
  <2>3. QED
    BY <2>1, <2>2
<1>10. CASE ReleaseCas(s)
  <2>1. [req[s] EXCEPT !.pc = "queueRelease", !.held = {}] \in Request
    BY <1>1 DEF Request, RequestPcs
  <2>2. QED
    BY <1>1, <1>10, <2>1, ContinueType, AnswerType DEF ReleaseCas
<1>11. QED
  BY <1>3, <1>4, <1>5, <1>6, <1>7, <1>8, <1>9, <1>10 DEF SessionStep

(* An unused slot of the queue is a well-typed job.                        *)
LEMMA FreeJobType == FreeJob \in Job
  BY DEF FreeJob, Job, JobKinds, RunningPcs

(* pg-boss redelivering or dropping a job leaves the queue well typed.     *)
LEMMA RedeliveredType ==
  ASSUME jobs \in [JobIds -> Job], NEW j \in JobIds, Redelivered(j)
  PROVE  jobs' \in [JobIds -> Job]
<1>1. jobs[j].retry + 1 \in Nat
  BY DEF Job
<1>2. [jobs[j] EXCEPT !.pc = "queued", !.retry = @ + 1, !.sid = Nil] \in Job
  BY <1>1 DEF Job, RunningPcs
<1>3. QED
  BY <1>2, FreeJobType DEF Redelivered

(* A handler that returns leaves the queue well typed.                     *)
LEMMA SettledType ==
  ASSUME jobs \in [JobIds -> Job], NEW j \in JobIds, Settled(j)
  PROVE  jobs' \in [JobIds -> Job]
  BY FreeJobType, RedeliveredType DEF Settled

(* A handler that goes on to its next step leaves the queue well typed.    *)
LEMMA GoToType ==
  ASSUME jobs \in [JobIds -> Job], NEW j \in JobIds,
         NEW p \in {"call", "record", "giveUp", "remove"}, GoTo(j, p)
  PROVE  jobs' \in [JobIds -> Job]
  BY DEF GoTo, Job, RunningPcs

(* sendJob stores a well-typed job.                                        *)
LEMMA EnqueueType ==
  ASSUME jobs \in [JobIds -> Job], NEW k \in JobKinds, NEW r \in Rows \cup {Nil},
         Enqueue(k, r)
  PROVE  jobs' \in [JobIds -> Job]
<1>1. [FreeJob EXCEPT !.pc = "queued", !.kind = k, !.row = r] \in Job
  BY FreeJobType DEF Job
<1>2. QED
  BY <1>1 DEF Enqueue

(* The routes, which only ever add a job, leave the queue well typed.      *)
LEMMA SessionStepJobType ==
  ASSUME TypeOK, NEW s \in Sessions, SessionStep(s)
  PROVE  jobs' \in [JobIds -> Job]
<1>1. /\ jobs \in [JobIds -> Job]
      /\ req[s].row \in Rows \cup {Nil}
  BY DEF TypeOK, Request
<1>2. CASE BuyEnqueue(s) \/ ReleaseEnqueue(s)
  <2>1. "provision" \in JobKinds /\ "release" \in JobKinds
    BY DEF JobKinds
  <2>2. QED
    BY <1>1, <1>2, <2>1, EnqueueType DEF BuyEnqueue, ReleaseEnqueue, SendOrThrow
<1>3. CASE ~(BuyEnqueue(s) \/ ReleaseEnqueue(s))
  BY <1>1, <1>3 DEF SessionStep, BuyCreate, BuyUndo, ActivateSnapshot, ActivateClear,
     ActivateSet, AssignSet, ReleaseSnapshot, ReleaseLock, ReleaseRead, ReleaseCas,
     ReleaseUndo, TxnRollback
<1>4. QED
  BY <1>2, <1>3

(* Both job handlers and pg-boss itself leave the queue well typed.        *)
LEMMA JobStepJobType ==
  ASSUME TypeOK, WorkNamesRows, NEW j \in JobIds, JobStep(j) \/ WorkerCrash(j) \/ JobExpires(j)
  PROVE  jobs' \in [JobIds -> Job]
<1>1. /\ jobs \in [JobIds -> Job]
      /\ jobs[j] \in Job
  BY DEF TypeOK
<1>2. ASSUME TransientOrRejected(j) PROVE jobs' \in [JobIds -> Job]
  BY <1>1, <1>2, RedeliveredType, GoToType DEF TransientOrRejected
<1>3. CASE ProvisionPick(j) \/ ReleaseCall(j) \/ WorkerCrash(j)
  BY <1>1, <1>3, SettledType, RedeliveredType, GoToType DEF ProvisionPick, ReleaseCall, WorkerCrash
<1>4. CASE ProvisionCall(j)
  <2>1. PICK x \in Sids : jobs' = [jobs EXCEPT ![j].pc = "record", ![j].sid = x]
    BY <1>4 DEF ProvisionCall
  <2>2. QED
    BY <1>1, <2>1 DEF Job, RunningPcs
<1>5. CASE ProvisionCallFails(j) \/ ReleaseCallFails(j)
  BY <1>1, <1>2, <1>5, RedeliveredType, GoToType DEF ProvisionCallFails, ReleaseCallFails
<1>6. CASE ProvisionGiveUp(j) \/ ProvisionRecord(j) \/ ReleaseGiveUp(j) \/ ReleaseRemove(j)
  BY <1>1, <1>6, SettledType DEF ProvisionGiveUp, ProvisionRecord, ReleaseGiveUp, ReleaseRemove
<1>7. CASE ReleasePick(j)
  <2>1. CASE status[jobs[j].row] # "releasing"
    BY <1>1, <1>7, <2>1, SettledType DEF ReleasePick
  <2>2. CASE status[jobs[j].row] = "releasing" /\ twilioSid[jobs[j].row] = Nil
    BY <1>1, <1>7, <2>2, GoToType DEF ReleasePick
  <2>3. CASE status[jobs[j].row] = "releasing" /\ twilioSid[jobs[j].row] # Nil
    <3>1. jobs[j].row \in Rows
      BY <1>7 DEF WorkNamesRows, ReleasePick
    <3>2. twilioSid[jobs[j].row] \in Sids
      BY <2>3, <3>1 DEF TypeOK
    <3>3. QED
      BY <1>1, <1>7, <2>3, <3>2 DEF ReleasePick, Job, RunningPcs
  <2>4. QED
    BY <2>1, <2>2, <2>3
<1>8. CASE JobExpires(j)
  <2>1. jobs[j].retry + 1 \in Nat
    BY <1>1 DEF Job
  <2>2. [jobs[j] EXCEPT !.pc = "queued", !.retry = @ + 1, !.sid = Nil] \in Job
    BY <1>1, <2>1 DEF Job
  <2>3. [jobs[j] EXCEPT !.zombie = TRUE] \in Job
    BY <1>1 DEF Job
  <2>4. PICK k \in JobIds :
          jobs' = [jobs EXCEPT ![j].zombie = TRUE,
                     ![k] = [jobs[j] EXCEPT !.pc = "queued", !.retry = @ + 1, !.sid = Nil]]
    BY <1>8 DEF JobExpires
  <2>5. QED
    BY <1>1, <2>2, <2>3, <2>4
<1>9. QED
  BY <1>3, <1>4, <1>5, <1>6, <1>7, <1>8 DEF JobStep

(* The compare-and-set of a status writes a status.                        *)
LEMMA CompareAndSetType ==
  ASSUME status \in [Rows -> RowStatuses], NEW r, NEW from, NEW to \in RowStatuses,
         CompareAndSetStatus(r, from, to)
  PROVE  status' \in [Rows -> RowStatuses]
  BY DEF CompareAndSetStatus

(* The statements of the routes write values of the columns' types.        *)
LEMMA SessionStepRowTypes ==
  ASSUME TypeOK, NEW s \in Sessions, SessionStep(s)
  PROVE  (/\ status \in [Rows -> RowStatuses]
          /\ assignedUserId \in [Rows -> Users \cup {Nil}]
          /\ isActiveForOutbound \in [Rows -> BOOLEAN]
          /\ twilioSid \in [Rows -> Sids \cup {Nil}]
          /\ e164 \in [Rows -> Numbers \cup {Nil}])'
<1>1. /\ status \in [Rows -> RowStatuses]
      /\ assignedUserId \in [Rows -> Users \cup {Nil}]
      /\ isActiveForOutbound \in [Rows -> BOOLEAN]
      /\ twilioSid \in [Rows -> Sids \cup {Nil}]
      /\ e164 \in [Rows -> Numbers \cup {Nil}]
      /\ req[s] \in Request
      /\ UserOf[s] \in Users
  BY ConstantsAssumption DEF TypeOK
<1>2. /\ req[s].num \in Numbers \cup {Nil}
      /\ req[s].to \in Users \cup {Nil}
      /\ req[s].found \in RowStatuses
  BY <1>1 DEF Request
<1>3. {"searching", "failed", "releasing"} \subseteq RowStatuses
  BY DEF RowStatuses, Statuses
<1>4. CASE BuyCreate(s)
  <2>1. PICK r \in Rows :
          /\ status' = [status EXCEPT ![r] = "searching"]
          /\ assignedUserId' = [assignedUserId EXCEPT ![r] = UserOf[s]]
          /\ e164' = [e164 EXCEPT ![r] = req[s].num]
    BY <1>4 DEF BuyCreate
  <2>2. UNCHANGED <<isActiveForOutbound, twilioSid>>
    BY <1>4 DEF BuyCreate
  <2>3. QED
    BY <1>1, <1>2, <1>3, <2>1, <2>2
<1>5. CASE BuyUndo(s) \/ ReleaseUndo(s)
  BY <1>1, <1>2, <1>3, <1>5, CompareAndSetType DEF BuyUndo, ReleaseUndo
<1>6. CASE ActivateSet(s)
  BY <1>1, <1>6 DEF ActivateSet
<1>7. CASE AssignSet(s)
  BY <1>1, <1>2, <1>7 DEF AssignSet
<1>8. CASE ReleaseCas(s)
  BY <1>1, <1>3, <1>8 DEF ReleaseCas
<1>9. CASE UNCHANGED rowVars
  BY <1>1, <1>9 DEF rowVars
<1>10. QED
  BY <1>4, <1>5, <1>6, <1>7, <1>8, <1>9
     DEF SessionStep, BuyEnqueue, ActivateSnapshot, ActivateClear, ReleaseSnapshot,
         ReleaseLock, ReleaseRead, ReleaseEnqueue, TxnRollback

(* The job handlers and Twilio write values of their columns' types.       *)
LEMMA JobStepRowTypes ==
  ASSUME TypeOK, WorkNamesRows, NEW j \in JobIds,
         JobStep(j) \/ WorkerCrash(j) \/ JobExpires(j)
  PROVE  (/\ status \in [Rows -> RowStatuses]
          /\ assignedUserId \in [Rows -> Users \cup {Nil}]
          /\ isActiveForOutbound \in [Rows -> BOOLEAN]
          /\ twilioSid \in [Rows -> Sids \cup {Nil}]
          /\ e164 \in [Rows -> Numbers \cup {Nil}]
          /\ boughtFor \in [Sids -> Rows \cup {Nil}]
          /\ rented \subseteq Sids)'
<1>1. /\ status \in [Rows -> RowStatuses]
      /\ assignedUserId \in [Rows -> Users \cup {Nil}]
      /\ isActiveForOutbound \in [Rows -> BOOLEAN]
      /\ twilioSid \in [Rows -> Sids \cup {Nil}]
      /\ e164 \in [Rows -> Numbers \cup {Nil}]
      /\ boughtFor \in [Sids -> Rows \cup {Nil}]
      /\ rented \subseteq Sids
      /\ jobs[j].row \in Rows \cup {Nil}
      /\ jobs[j].sid \in Sids \cup {Nil}
  BY DEF TypeOK, Job
<1>2. {"active", "failed", "gone"} \subseteq RowStatuses
  BY DEF RowStatuses, Statuses
<1>3. CASE UNCHANGED <<rowVars, twilioVars>>
  BY <1>1, <1>3 DEF rowVars, twilioVars
<1>4. CASE ProvisionCall(j) \/ (ProvisionCallFails(j) /\ ~UNCHANGED twilioVars)
  <2>1. PICK x \in Sids : Sell(j, x)
    BY <1>4 DEF ProvisionCall, ProvisionCallFails
  <2>2. UNCHANGED rowVars
    BY <1>4 DEF ProvisionCall, ProvisionCallFails
  <2>3. QED
    BY <1>1, <2>1, <2>2 DEF Sell, rowVars
<1>5. CASE ProvisionGiveUp(j) \/ ReleaseGiveUp(j)
  BY <1>1, <1>2, <1>5, CompareAndSetType DEF ProvisionGiveUp, ReleaseGiveUp, twilioVars
<1>6. CASE ProvisionRecord(j)
  BY <1>1, <1>2, <1>6, CompareAndSetType DEF ProvisionRecord, twilioVars
<1>7. CASE ReleaseCall(j) \/ ReleaseCallFails(j)
  BY <1>1, <1>7 DEF ReleaseCall, ReleaseCallFails, rowVars
<1>8. CASE ReleaseRemove(j)
  BY <1>1, <1>2, <1>8, CompareAndSetType DEF ReleaseRemove, twilioVars
<1>9. QED
  BY <1>3, <1>4, <1>5, <1>6, <1>7, <1>8
     DEF JobStep, ProvisionPick, ProvisionCallFails, ReleasePick, WorkerCrash, JobExpires

(* A route past its first statement always knows which row it is about,    *)
(* and so does the job it stores.                                          *)
LEMMA SessionWorkNamesRows ==
  ASSUME TypeOK, WorkNamesRows, NEW s \in Sessions,
         NewRequest(s) \/ SessionStep(s) \/ ServerCrash(s)
  PROVE  WorkNamesRows'
<1>1. /\ req \in [Sessions -> Request]
      /\ req[s] \in Request
      /\ \A t \in Sessions : req[t].pc \notin {"idle", "create"} => req[t].row \in Rows
      /\ \A j \in JobIds : jobs[j].pc # "free" => jobs[j].row \in Rows
      /\ jobs \in [JobIds -> Job]
  BY DEF TypeOK, WorkNamesRows
<1>2. ASSUME NEW x, Continue(s, x), x.pc \notin {"idle", "create"} => x.row \in Rows,
             UNCHANGED jobs
      PROVE  WorkNamesRows'
  BY <1>1, <1>2 DEF Continue, WorkNamesRows
<1>3. ASSUME Answer(s), UNCHANGED jobs PROVE WorkNamesRows'
  BY <1>2, <1>3 DEF Answer, IdleRequest
<1>4. CASE NewRequest(s)
  <2>1. ASSUME NEW n \in Numbers, BuyCheck(s, n) PROVE WorkNamesRows'
    BY <1>2, <2>1 DEF BuyCheck, IdleRequest
  <2>2. ASSUME NEW r \in Rows, NEW u \in Users \cup {Nil},
               ActivateFind(s, r) \/ AssignFind(s, r, u) \/ ReleaseStart(s, r)
        PROVE  WorkNamesRows'
    BY <1>2, <2>2 DEF ActivateFind, AssignFind, ReleaseStart, IdleRequest
  <2>3. QED
    BY <1>4, <2>1, <2>2 DEF NewRequest
<1>5. CASE BuyCreate(s)
  BY <1>1, <1>2, <1>5 DEF BuyCreate, Request
<1>6. CASE BuyEnqueue(s) \/ ReleaseEnqueue(s)
  <2>1. req[s].row \in Rows
    BY <1>1, <1>6 DEF BuyEnqueue, ReleaseEnqueue
  <2>2. ASSUME NEW k \in JobKinds, Enqueue(k, req[s].row)
        PROVE  \A j \in JobIds : jobs'[j].pc # "free" => jobs'[j].row \in Rows
    BY <1>1, <2>1, <2>2 DEF Enqueue, FreeJob
  <2>3. ASSUME NEW p \in RequestPcs, Continue(s, [req[s] EXCEPT !.pc = p])
        PROVE  \A t \in Sessions : req'[t].pc \notin {"idle", "create"} => req'[t].row \in Rows
    BY <1>1, <2>1, <2>3 DEF Continue, Request
  <2>4. ASSUME Answer(s)
        PROVE  \A t \in Sessions : req'[t].pc \notin {"idle", "create"} => req'[t].row \in Rows
    BY <1>1, <2>4 DEF Continue, Answer, IdleRequest
  <2>5. {"provision", "release"} \subseteq JobKinds /\ {"undoBuy", "undoRelease"} \subseteq RequestPcs
    BY DEF JobKinds, RequestPcs
  <2>6. QED
    BY <1>1, <1>6, <2>2, <2>3, <2>4, <2>5
       DEF BuyEnqueue, ReleaseEnqueue, SendOrThrow, WorkNamesRows
<1>7. CASE BuyUndo(s) \/ ReleaseUndo(s) \/ ActivateSet(s) \/ AssignSet(s) \/ TxnRollback(s)
           \/ ServerCrash(s)
  BY <1>3, <1>7 DEF BuyUndo, ReleaseUndo, ActivateSet, AssignSet, TxnRollback, ServerCrash
<1>8. CASE ActivateSnapshot(s) \/ ReleaseSnapshot(s)
  BY <1>1, <1>2, <1>8 DEF ActivateSnapshot, ReleaseSnapshot, Request
<1>9. CASE ActivateClear(s) \/ ReleaseLock(s)
  BY <1>1, <1>2, <1>9 DEF ActivateClear, ReleaseLock, Request
<1>10. CASE ReleaseRead(s) \/ ReleaseCas(s)
  BY <1>1, <1>2, <1>3, <1>10 DEF ReleaseRead, ReleaseCas, Request
<1>11. QED
  BY <1>4, <1>5, <1>6, <1>7, <1>8, <1>9, <1>10 DEF SessionStep

(* What any step of a delivery does to the jobs: this delivery ends, or    *)
(* goes on for the same row, or a second delivery of it appears.           *)
LEMMA JobStepKeepsRow ==
  ASSUME TypeOK, NEW j \in JobIds, JobStep(j) \/ WorkerCrash(j) \/ JobExpires(j)
  PROVE  /\ jobs[j].pc # "free"
         /\ UNCHANGED req
         /\ \A i \in JobIds :
              \/ jobs'[i] = jobs[i]
              \/ jobs'[i] = FreeJob
              \/ jobs'[i].row = jobs[j].row
<1>1. jobs \in [JobIds -> Job] /\ jobs[j] \in Job
  BY DEF TypeOK
<1>2. ASSUME Redelivered(j)
      PROVE  \A i \in JobIds : jobs'[i] = jobs[i] \/ jobs'[i] = FreeJob \/ jobs'[i].row = jobs[j].row
  BY <1>1, <1>2 DEF Redelivered, Job
<1>3. ASSUME NEW p, GoTo(j, p)
      PROVE  \A i \in JobIds : jobs'[i] = jobs[i] \/ jobs'[i] = FreeJob \/ jobs'[i].row = jobs[j].row
  BY <1>1, <1>3 DEF GoTo, Job
<1>4. ASSUME Settled(j)
      PROVE  \A i \in JobIds : jobs'[i] = jobs[i] \/ jobs'[i] = FreeJob \/ jobs'[i].row = jobs[j].row
  BY <1>1, <1>2, <1>4 DEF Settled
<1>5. ASSUME NEW p, NEW x, jobs' = [jobs EXCEPT ![j].pc = p, ![j].sid = x]
      PROVE  \A i \in JobIds : jobs'[i] = jobs[i] \/ jobs'[i] = FreeJob \/ jobs'[i].row = jobs[j].row
  BY <1>1, <1>5 DEF Job
<1>6. CASE ProvisionPick(j)
  BY <1>3, <1>4, <1>6 DEF ProvisionPick
<1>7. CASE ReleasePick(j)
  BY <1>3, <1>4, <1>5, <1>7 DEF ReleasePick
<1>8. CASE ProvisionCall(j)
  <2>1. PICK x \in Sids : jobs' = [jobs EXCEPT ![j].pc = "record", ![j].sid = x]
    BY <1>8 DEF ProvisionCall
  <2>2. jobs[j].pc # "free" /\ UNCHANGED req
    BY <1>8 DEF ProvisionCall
  <2>3. QED
    BY <1>5, <2>1, <2>2
<1>9. CASE ReleaseCall(j)
  BY <1>3, <1>9 DEF ReleaseCall
<1>10. CASE ProvisionCallFails(j) \/ ReleaseCallFails(j)
  BY <1>2, <1>3, <1>10 DEF ProvisionCallFails, ReleaseCallFails, TransientOrRejected
<1>11. CASE ProvisionGiveUp(j) \/ ProvisionRecord(j) \/ ReleaseGiveUp(j) \/ ReleaseRemove(j)
  BY <1>4, <1>11 DEF ProvisionGiveUp, ProvisionRecord, ReleaseGiveUp, ReleaseRemove
<1>12. CASE WorkerCrash(j)
  BY <1>2, <1>12 DEF WorkerCrash, RunningPcs
<1>13. CASE JobExpires(j)
  <2>1. PICK k \in JobIds :
          jobs' = [jobs EXCEPT ![j].zombie = TRUE,
                     ![k] = [jobs[j] EXCEPT !.pc = "queued", !.retry = @ + 1, !.sid = Nil]]
    BY <1>13 DEF JobExpires
  <2>2. [jobs[j] EXCEPT !.pc = "queued", !.retry = @ + 1, !.sid = Nil].row = jobs[j].row
    BY <1>1 DEF Job
  <2>3. [jobs[j] EXCEPT !.zombie = TRUE].row = jobs[j].row
    BY <1>1 DEF Job
  <2>4. QED
    BY <1>1, <1>13, <2>1, <2>2, <2>3 DEF JobExpires, RunningPcs
<1>14. QED
  BY <1>6, <1>7, <1>8, <1>9, <1>10, <1>11, <1>12, <1>13 DEF JobStep

(* A job keeps naming its row for as long as it is delivered.              *)
LEMMA JobStepNamesRows ==
  ASSUME TypeOK, WorkNamesRows, NEW j \in JobIds, JobStep(j) \/ WorkerCrash(j) \/ JobExpires(j)
  PROVE  WorkNamesRows'
<1>1. jobs[j].row \in Rows
  BY JobStepKeepsRow DEF WorkNamesRows
<1>2. QED
  BY <1>1, JobStepKeepsRow DEF WorkNamesRows, FreeJob

(* Every variable keeps its type, and everyone in the middle of something  *)
(* knows its row, in every behaviour and under every combination of faults.*)
THEOREM TypeCorrect == Spec => [](TypeOK /\ WorkNamesRows)
<1>1. Init => TypeOK /\ WorkNamesRows
  BY IdleRequestType, FreeJobType, ConstantsAssumption
     DEF Init, TypeOK, WorkNamesRows, RowStatuses, Statuses, IdleRequest, FreeJob
<1>2. TypeOK /\ WorkNamesRows /\ [Next]_vars => (TypeOK /\ WorkNamesRows)'
  <2> SUFFICES ASSUME TypeOK, WorkNamesRows, [Next]_vars
               PROVE  (TypeOK /\ WorkNamesRows)'
    OBVIOUS
  <2>1. ASSUME NEW s \in Sessions, NewRequest(s)
        PROVE  (TypeOK /\ WorkNamesRows)'
    <3>1. UNCHANGED <<rowVars, twilioVars, jobs>>
      BY <2>1 DEF NewRequest, BuyCheck, ActivateFind, AssignFind, ReleaseStart
    <3>2. QED
      BY <2>1, <3>1, NewRequestType, SessionWorkNamesRows DEF TypeOK, rowVars, twilioVars
  <2>2. ASSUME NEW s \in Sessions, SessionStep(s)
        PROVE  (TypeOK /\ WorkNamesRows)'
    <3>1. UNCHANGED twilioVars
      BY <2>2 DEF SessionStep, BuyCreate, BuyEnqueue, BuyUndo, ActivateSnapshot,
         ActivateClear, ActivateSet, AssignSet, ReleaseSnapshot, ReleaseLock,
         ReleaseRead, ReleaseCas, ReleaseEnqueue, ReleaseUndo, TxnRollback
    <3>2. QED
      BY <2>2, <3>1, SessionStepType, SessionStepJobType, SessionStepRowTypes,
         SessionWorkNamesRows DEF TypeOK, twilioVars
  <2>3. ASSUME NEW s \in Sessions, ServerCrash(s)
        PROVE  (TypeOK /\ WorkNamesRows)'
    BY <2>3, AnswerType, SessionWorkNamesRows DEF ServerCrash, TypeOK, rowVars, twilioVars
  <2>4. ASSUME NEW j \in JobIds, JobStep(j) \/ WorkerCrash(j) \/ JobExpires(j)
        PROVE  (TypeOK /\ WorkNamesRows)'
    <3>1. TypeOK'
      BY <2>4, JobStepKeepsRow, JobStepJobType, JobStepRowTypes DEF TypeOK
    <3>2. QED
      BY <2>4, <3>1, JobStepNamesRows
  <2>5. CASE UNCHANGED vars
    BY <2>5 DEF vars, rowVars, twilioVars, TypeOK, WorkNamesRows
  <2>6. QED
    BY <2>1, <2>2, <2>3, <2>4, <2>5 DEF Next
<1>3. QED
  BY <1>1, <1>2, PTL DEF Spec

-----------------------------------------------------------------------------
(* An active row has a SID.                                                *)

(* The routes only add a job to a free slot.                               *)
LEMMA SessionStepAddsJob ==
  ASSUME TypeOK, NEW s \in Sessions, NewRequest(s) \/ SessionStep(s) \/ ServerCrash(s)
  PROVE  \A j \in JobIds : jobs'[j] = jobs[j] \/ jobs'[j].pc = "queued"
<1>1. jobs \in [JobIds -> Job]
  BY DEF TypeOK
<1>2. ASSUME NEW k, NEW r, Enqueue(k, r)
      PROVE  \A j \in JobIds : jobs'[j] = jobs[j] \/ jobs'[j].pc = "queued"
  BY <1>1, <1>2 DEF Enqueue, FreeJob
<1>3. CASE BuyEnqueue(s) \/ ReleaseEnqueue(s)
  BY <1>2, <1>3 DEF BuyEnqueue, ReleaseEnqueue, SendOrThrow
<1>4. CASE ~(BuyEnqueue(s) \/ ReleaseEnqueue(s))
  BY <1>1, <1>4 DEF NewRequest, BuyCheck, ActivateFind, AssignFind, ReleaseStart,
     ServerCrash, SessionStep, BuyCreate, BuyUndo, ActivateSnapshot, ActivateClear,
     ActivateSet, AssignSet, ReleaseSnapshot, ReleaseLock, ReleaseRead, ReleaseCas,
     ReleaseUndo, TxnRollback
<1>5. QED
  BY <1>3, <1>4

(* A release route that remembers "active" remembers a row with a SID.     *)
LEMMA FoundActiveHasSid ==
  ASSUME TypeOK, SidBehindActive, NEW s \in Sessions,
         NewRequest(s) \/ SessionStep(s) \/ ServerCrash(s)
  PROVE  \A t \in Sessions : req'[t].found = "active"
           => /\ req'[t].pc \in {"cas", "queueRelease", "undoRelease"}
              /\ req'[t].row \in Rows /\ twilioSid[req'[t].row] # Nil
<1>1. /\ req \in [Sessions -> Request]
      /\ req[s] \in Request
      /\ \A t \in Sessions : req[t].found = "active"
           => /\ req[t].pc \in {"cas", "queueRelease", "undoRelease"}
              /\ req[t].row \in Rows /\ twilioSid[req[t].row] # Nil
  BY DEF TypeOK, SidBehindActive
<1> DEFINE Good(x) == x.found = "active"
             => /\ x.pc \in {"cas", "queueRelease", "undoRelease"}
                /\ x.row \in Rows /\ twilioSid[x.row] # Nil
           Goal == \A t \in Sessions : Good(req'[t])
<1>2. ASSUME NEW x, Continue(s, x), Good(x)
      PROVE  Goal
  BY <1>1, <1>2 DEF Continue
<1>3. ASSUME Answer(s) PROVE Goal
  BY <1>2, <1>3 DEF Answer, IdleRequest
<1>4. ASSUME NEW p, Continue(s, [req[s] EXCEPT !.pc = p]),
             req[s].pc = "queueProvision" \/ p = "undoRelease"
      PROVE  Goal
  BY <1>1, <1>2, <1>4 DEF Request
<1>5. CASE NewRequest(s)
  BY <1>2, <1>5 DEF NewRequest, BuyCheck, ActivateFind, AssignFind, ReleaseStart, IdleRequest
<1>6. CASE BuyCreate(s)
  <2>1. PICK r \in Rows : /\ req[s].pc = "create"
                          /\ Continue(s, [req[s] EXCEPT !.pc = "queueProvision", !.row = r])
    BY <1>6 DEF BuyCreate
  <2>2. req[s].found # "active"
    BY <1>1, <2>1
  <2>3. QED
    BY <1>1, <1>2, <2>1, <2>2 DEF Request
<1>7. CASE BuyEnqueue(s) \/ ReleaseEnqueue(s)
  BY <1>3, <1>4, <1>7 DEF BuyEnqueue, ReleaseEnqueue, SendOrThrow
<1>8. CASE BuyUndo(s) \/ ReleaseUndo(s) \/ ActivateSet(s) \/ AssignSet(s) \/ TxnRollback(s)
           \/ ServerCrash(s)
  BY <1>3, <1>8 DEF BuyUndo, ReleaseUndo, ActivateSet, AssignSet, TxnRollback, ServerCrash
<1>9. CASE ActivateSnapshot(s) \/ ReleaseSnapshot(s)
  BY <1>1, <1>2, <1>9 DEF ActivateSnapshot, ReleaseSnapshot, Request
<1>10. CASE ActivateClear(s) \/ ReleaseLock(s)
  BY <1>1, <1>2, <1>10 DEF ActivateClear, ReleaseLock, Request
<1>11. CASE ReleaseRead(s)
  <2>1. CASE ReleaseRefused(s)
    BY <1>3, <1>11, <2>1 DEF ReleaseRead
  <2>2. CASE ~ReleaseRefused(s)
    <3>1. req[s].row \in Rows /\ (status[req[s].row] = "active" => twilioSid[req[s].row] # Nil)
      BY <2>2 DEF ReleaseRefused, Mine, SidBehindActive, ActiveHasSid
    <3>2. QED
      BY <1>1, <1>2, <1>11, <2>2, <3>1 DEF ReleaseRead, Request
  <2>3. QED
    BY <2>1, <2>2
<1>12. CASE ReleaseCas(s)
  BY <1>1, <1>2, <1>3, <1>12 DEF ReleaseCas, Request
<1>13. QED
  BY <1>5, <1>6, <1>7, <1>8, <1>9, <1>10, <1>11, <1>12 DEF SessionStep

(* A job of a delivery j changes only by ending, by waiting again, or by   *)
(* going on: to "record" with the SID just bought, to a release's call     *)
(* with a row that has a SID, or to a release's give-up from that call.    *)
LEMMA JobStepSid ==
  ASSUME TypeOK, WorkNamesRows, SidBehindActive, NEW j \in JobIds,
         JobStep(j) \/ WorkerCrash(j) \/ JobExpires(j)
  PROVE  \A i \in JobIds :
           /\ jobs'[i].pc = "record" => jobs'[i].sid # Nil
           /\ jobs'[i].kind = "release" /\ jobs'[i].pc \in {"call", "giveUp"}
                => twilioSid[jobs'[i].row] # Nil
<1> DEFINE Good(x) == /\ x.pc = "record" => x.sid # Nil
                      /\ x.kind = "release" /\ x.pc \in {"call", "giveUp"}
                           => twilioSid[x.row] # Nil
           Goal == \A i \in JobIds : Good(jobs'[i])
<1>1. /\ jobs \in [JobIds -> Job]
      /\ jobs[j] \in Job
      /\ \A i \in JobIds : Good(jobs[i])
      /\ Good(FreeJob)
  BY DEF TypeOK, SidBehindActive, FreeJob
<1>2. ASSUME Redelivered(j) PROVE Goal
  BY <1>1, <1>2 DEF Redelivered, Job
<1>3. ASSUME Settled(j) PROVE Goal
  BY <1>1, <1>2, <1>3 DEF Settled
<1>4. ASSUME NEW p, GoTo(j, p),
             \/ p = "remove"
             \/ jobs[j].kind = "provision" /\ p # "record"
             \/ jobs[j].pc = "call" /\ p # "record"
      PROVE  Goal
  BY <1>1, <1>4 DEF GoTo, Job
<1>5. CASE ProvisionPick(j)
  BY <1>3, <1>4, <1>5 DEF ProvisionPick
<1>6. CASE ProvisionCall(j)
  <2>1. PICK x \in Sids : jobs' = [jobs EXCEPT ![j].pc = "record", ![j].sid = x]
    BY <1>6 DEF ProvisionCall
  <2>2. x # Nil /\ jobs[j].kind = "provision"
    BY <1>6, ConstantsAssumption DEF ProvisionCall
  <2>3. QED
    BY <1>1, <2>1, <2>2 DEF Job
<1>7. CASE ReleasePick(j)
  <2>1. ASSUME twilioSid[jobs[j].row] # Nil,
               jobs' = [jobs EXCEPT ![j].pc = "call", ![j].sid = twilioSid[jobs[j].row]]
        PROVE  Goal
    BY <1>1, <2>1 DEF Job
  <2>2. QED
    BY <1>3, <1>4, <1>7, <2>1 DEF ReleasePick
<1>8. CASE ReleaseCall(j)
  BY <1>4, <1>8 DEF ReleaseCall
<1>9. CASE ProvisionCallFails(j) \/ ReleaseCallFails(j)
  BY <1>2, <1>4, <1>9 DEF ProvisionCallFails, ReleaseCallFails, TransientOrRejected
<1>10. CASE ProvisionGiveUp(j) \/ ProvisionRecord(j) \/ ReleaseGiveUp(j) \/ ReleaseRemove(j)
  BY <1>3, <1>10 DEF ProvisionGiveUp, ProvisionRecord, ReleaseGiveUp, ReleaseRemove
<1>11. CASE WorkerCrash(j)
  BY <1>2, <1>11 DEF WorkerCrash
<1>12. CASE JobExpires(j)
  <2>1. PICK k \in JobIds :
          jobs' = [jobs EXCEPT ![j].zombie = TRUE,
                     ![k] = [jobs[j] EXCEPT !.pc = "queued", !.retry = @ + 1, !.sid = Nil]]
    BY <1>12 DEF JobExpires
  <2>2. Good([jobs[j] EXCEPT !.pc = "queued", !.retry = @ + 1, !.sid = Nil])
    BY <1>1 DEF Job
  <2>3. Good([jobs[j] EXCEPT !.zombie = TRUE])
    BY <1>1 DEF Job
  <2>4. QED
    BY <1>1, <2>1, <2>2, <2>3
<1>13. QED
  BY <1>5, <1>6, <1>7, <1>8, <1>9, <1>10, <1>11, <1>12 DEF JobStep

(* Only the purchase writes a SID, and it never erases one.                *)
LEMMA SidsOnlyAppear ==
  ASSUME TypeOK, WorkNamesRows, SidBehindActive, NEW j \in JobIds,
         JobStep(j) \/ WorkerCrash(j) \/ JobExpires(j)
  PROVE  \A r \in Rows : twilioSid[r] # Nil => twilioSid'[r] # Nil
<1>1. CASE ProvisionRecord(j)
  <2>1. jobs[j].sid # Nil
    BY <1>1 DEF ProvisionRecord, SidBehindActive
  <2>2. QED
    BY <1>1, <2>1 DEF ProvisionRecord, TypeOK
<1>2. CASE ~ProvisionRecord(j)
  BY <1>2 DEF JobStep, ProvisionPick, ProvisionCall, ProvisionCallFails, ProvisionGiveUp,
     ReleasePick, ReleaseCall, ReleaseCallFails, ReleaseGiveUp, ReleaseRemove,
     WorkerCrash, JobExpires, rowVars
<1>3. QED
  BY <1>1, <1>2

(* No step of a job makes a row active that has no SID.                    *)
LEMMA JobStepActiveHasSid ==
  ASSUME TypeOK, WorkNamesRows, SidBehindActive, NEW j \in JobIds,
         JobStep(j) \/ WorkerCrash(j) \/ JobExpires(j)
  PROVE  ActiveHasSid'
<1>1. /\ ActiveHasSid
      /\ status \in [Rows -> RowStatuses]
      /\ twilioSid \in [Rows -> Sids \cup {Nil}]
      /\ \A r \in Rows : twilioSid[r] # Nil => twilioSid'[r] # Nil
  BY SidsOnlyAppear DEF SidBehindActive, TypeOK
<1>2. ASSUME \A r \in Rows : status'[r] = "active"
               => status[r] = "active" \/ twilioSid'[r] # Nil
      PROVE  ActiveHasSid'
  BY <1>1, <1>2 DEF ActiveHasSid
<1>3. CASE ProvisionRecord(j)
  <2>1. jobs[j].sid # Nil
    BY <1>3 DEF ProvisionRecord, SidBehindActive
  <2>2. QED
    BY <1>1, <1>2, <1>3, <2>1 DEF ProvisionRecord, CompareAndSetStatus
<1>4. CASE ReleaseGiveUp(j)
  <2>1. twilioSid[jobs[j].row] # Nil
    BY <1>4 DEF ReleaseGiveUp, SidBehindActive
  <2>2. QED
    BY <1>1, <1>2, <1>4, <2>1 DEF ReleaseGiveUp, CompareAndSetStatus
<1>5. CASE ProvisionGiveUp(j) \/ ReleaseRemove(j)
  BY <1>1, <1>2, <1>5 DEF ProvisionGiveUp, ReleaseRemove, CompareAndSetStatus
<1>6. CASE UNCHANGED status
  BY <1>1, <1>2, <1>6
<1>7. QED
  BY <1>3, <1>4, <1>5, <1>6
     DEF JobStep, ProvisionPick, ProvisionCall, ProvisionCallFails, ReleasePick,
         ReleaseCall, ReleaseCallFails, WorkerCrash, JobExpires, rowVars

(* No statement of a route makes a row active that has no SID.             *)
LEMMA SessionActiveHasSid ==
  ASSUME TypeOK, WorkNamesRows, SidBehindActive, NEW s \in Sessions,
         NewRequest(s) \/ SessionStep(s) \/ ServerCrash(s)
  PROVE  UNCHANGED twilioSid /\ ActiveHasSid'
<1>1. /\ ActiveHasSid
      /\ status \in [Rows -> RowStatuses]
      /\ UNCHANGED twilioSid
  BY DEF SidBehindActive, TypeOK, rowVars, NewRequest, BuyCheck, ActivateFind, AssignFind,
     ReleaseStart, ServerCrash, SessionStep, BuyCreate, BuyEnqueue, BuyUndo,
     ActivateSnapshot, ActivateClear, ActivateSet, AssignSet, ReleaseSnapshot,
     ReleaseLock, ReleaseRead, ReleaseCas, ReleaseEnqueue, ReleaseUndo, TxnRollback
<1>2. ASSUME \A r \in Rows : status'[r] = "active"
               => status[r] = "active" \/ twilioSid[r] # Nil
      PROVE  ActiveHasSid'
  BY <1>1, <1>2 DEF ActiveHasSid
<1>3. CASE ReleaseUndo(s)
  <2>1. req[s].found = "active" => twilioSid[req[s].row] # Nil
    BY DEF SidBehindActive
  <2>2. QED
    BY <1>1, <1>2, <1>3, <2>1 DEF ReleaseUndo, CompareAndSetStatus
<1>4. CASE BuyCreate(s) \/ BuyUndo(s) \/ ReleaseCas(s)
  BY <1>1, <1>2, <1>4 DEF BuyCreate, BuyUndo, ReleaseCas, CompareAndSetStatus
<1>5. CASE UNCHANGED status
  BY <1>1, <1>2, <1>5
<1>6. QED
  BY <1>3, <1>4, <1>5
     DEF NewRequest, BuyCheck, ActivateFind, AssignFind, ReleaseStart, ServerCrash,
         SessionStep, BuyEnqueue, ActivateSnapshot, ActivateClear, ActivateSet, AssignSet,
         ReleaseSnapshot, ReleaseLock, ReleaseRead, ReleaseEnqueue, TxnRollback, rowVars

(* A row is never active without the SID of a purchase behind it: whoever  *)
(* may write "active" next has seen that SID (SidBehindActive).            *)
THEOREM ActiveRowsHaveSid == Spec => []ActiveHasSid
<1>1. Init => SidBehindActive
  BY DEF Init, SidBehindActive, ActiveHasSid, IdleRequest, FreeJob
<1>2. TypeOK /\ WorkNamesRows /\ SidBehindActive /\ [Next]_vars => SidBehindActive'
  <2> SUFFICES ASSUME TypeOK, WorkNamesRows, SidBehindActive, [Next]_vars
               PROVE  SidBehindActive'
    OBVIOUS
  <2>1. ASSUME NEW s \in Sessions, NewRequest(s) \/ SessionStep(s) \/ ServerCrash(s)
        PROVE  SidBehindActive'
    <3>1. \A j \in JobIds : jobs'[j] = jobs[j] \/ jobs'[j].pc = "queued"
      BY <2>1, SessionStepAddsJob
    <3>2. UNCHANGED twilioSid /\ ActiveHasSid'
      BY <2>1, SessionActiveHasSid
    <3>3. \A t \in Sessions : req'[t].found = "active"
            => /\ req'[t].pc \in {"cas", "queueRelease", "undoRelease"}
               /\ req'[t].row \in Rows /\ twilioSid[req'[t].row] # Nil
      BY <2>1, FoundActiveHasSid
    <3>4. QED
      BY <3>1, <3>2, <3>3 DEF SidBehindActive
  <2>2. ASSUME NEW j \in JobIds, JobStep(j) \/ WorkerCrash(j) \/ JobExpires(j)
        PROVE  SidBehindActive'
    <3>1. WorkNamesRows'
      BY <2>2, JobStepNamesRows
    <3>2. UNCHANGED req
      BY <2>2, JobStepKeepsRow
    <3>3. \A r \in Rows : twilioSid[r] # Nil => twilioSid'[r] # Nil
      BY <2>2, SidsOnlyAppear
    <3>4. ActiveHasSid'
      BY <2>2, JobStepActiveHasSid
    <3>5. \A i \in JobIds :
            /\ jobs'[i].pc = "record" => jobs'[i].sid # Nil
            /\ jobs'[i].kind = "release" /\ jobs'[i].pc \in {"call", "giveUp"}
                 => twilioSid[jobs'[i].row] # Nil
      BY <2>2, JobStepSid
    <3>6. QED
      BY <3>1, <3>2, <3>3, <3>4, <3>5 DEF SidBehindActive, WorkNamesRows
  <2>3. CASE UNCHANGED vars
    BY <2>3 DEF vars, rowVars, SidBehindActive, ActiveHasSid
  <2>4. QED
    BY <2>1, <2>2, <2>3 DEF Next
<1>3. SidBehindActive => ActiveHasSid
  BY DEF SidBehindActive
<1>4. QED
  BY <1>1, <1>2, <1>3, TypeCorrect, PTL DEF Spec

-----------------------------------------------------------------------------
(* A caller ID has a holder, and a member has one caller ID.               *)

(* A release that was begun remembers a status a live row can have.        *)
FoundIsLive == \A s \in Sessions :
    req[s].pc \in {"cas", "queueRelease", "undoRelease"} => req[s].found \in Statuses

(* The release route remembers only what it read of a row that exists.     *)
LEMMA SessionFoundIsLive ==
  ASSUME TypeOK, FoundIsLive, NEW s \in Sessions,
         NewRequest(s) \/ SessionStep(s) \/ ServerCrash(s)
  PROVE  FoundIsLive'
<1>1. req \in [Sessions -> Request] /\ req[s] \in Request
  BY DEF TypeOK
<1> DEFINE Good(x) == x.pc \in {"cas", "queueRelease", "undoRelease"} => x.found \in Statuses
<1>2. ASSUME NEW x, Continue(s, x), Good(x) PROVE FoundIsLive'
  BY <1>1, <1>2 DEF Continue, FoundIsLive
<1>3. ASSUME Answer(s) PROVE FoundIsLive'
  BY <1>2, <1>3 DEF Answer, IdleRequest
<1>4. CASE NewRequest(s)
  BY <1>2, <1>4 DEF NewRequest, BuyCheck, ActivateFind, AssignFind, ReleaseStart, IdleRequest
<1>5. CASE BuyCreate(s)
  BY <1>1, <1>2, <1>5 DEF BuyCreate, Request
<1>6. CASE BuyEnqueue(s)
  <2>1. Good([req[s] EXCEPT !.pc = "undoBuy"])
    BY <1>1 DEF Request
  <2>2. QED
    BY <1>2, <1>3, <1>6, <2>1 DEF BuyEnqueue, SendOrThrow
<1>7. CASE ReleaseEnqueue(s)
  <2>1. Good([req[s] EXCEPT !.pc = "undoRelease"])
    BY <1>1, <1>7 DEF Request, FoundIsLive, ReleaseEnqueue
  <2>2. QED
    BY <1>2, <1>3, <1>7, <2>1 DEF ReleaseEnqueue, SendOrThrow
<1>8. CASE BuyUndo(s) \/ ReleaseUndo(s) \/ ActivateSet(s) \/ AssignSet(s) \/ TxnRollback(s)
           \/ ServerCrash(s)
  BY <1>3, <1>8 DEF BuyUndo, ReleaseUndo, ActivateSet, AssignSet, TxnRollback, ServerCrash
<1>9. CASE ActivateSnapshot(s) \/ ReleaseSnapshot(s)
  BY <1>1, <1>2, <1>9 DEF ActivateSnapshot, ReleaseSnapshot, Request
<1>10. CASE ActivateClear(s) \/ ReleaseLock(s)
  BY <1>1, <1>2, <1>10 DEF ActivateClear, ReleaseLock, Request
<1>11. CASE ReleaseRead(s)
  <2>1. CASE ReleaseRefused(s)
    BY <1>3, <1>11, <2>1 DEF ReleaseRead
  <2>2. CASE ~ReleaseRefused(s)
    <3>1. status[req[s].row] \in Statuses
      BY <2>2 DEF ReleaseRefused, Mine, Exists
    <3>2. QED
      BY <1>1, <1>2, <1>11, <2>2, <3>1 DEF ReleaseRead, Request
  <2>3. QED
    BY <2>1, <2>2
<1>12. CASE ReleaseCas(s)
  <2>1. Good([req[s] EXCEPT !.pc = "queueRelease", !.held = {}])
    BY <1>1, <1>12 DEF Request, FoundIsLive, ReleaseCas
  <2>2. QED
    BY <1>2, <1>3, <1>12, <2>1 DEF ReleaseCas
<1>13. QED
  BY <1>4, <1>5, <1>6, <1>7, <1>8, <1>9, <1>10, <1>11, <1>12 DEF SessionStep

(* The statements of the routes that write the caller-ID flag, the holder  *)
(* or the status keep "a caller ID has a holder".                          *)
LEMMA SessionCallerIdHasHolder ==
  ASSUME TypeOK, FoundIsLive, CallerIdHasHolder, NEW s \in Sessions,
         NewRequest(s) \/ SessionStep(s) \/ ServerCrash(s)
  PROVE  CallerIdHasHolder'
<1>1. /\ status \in [Rows -> RowStatuses]
      /\ assignedUserId \in [Rows -> Users \cup {Nil}]
      /\ isActiveForOutbound \in [Rows -> BOOLEAN]
      /\ UserOf[s] \in Users
      /\ UserOf[s] # Nil
  BY ConstantsAssumption DEF TypeOK
<1>2. CASE BuyCreate(s)
  BY <1>1, <1>2 DEF BuyCreate, CallerIdHasHolder, Exists, Statuses
<1>3. CASE BuyUndo(s)
  BY <1>1, <1>3 DEF BuyUndo, CompareAndSetStatus, CallerIdHasHolder, Exists, Statuses
<1>4. CASE ReleaseUndo(s)
  <2>1. req[s].found \in Statuses
    BY <1>4 DEF ReleaseUndo, FoundIsLive
  <2>2. QED
    BY <1>1, <1>4, <2>1 DEF ReleaseUndo, CompareAndSetStatus, CallerIdHasHolder, Exists
<1>5. CASE ActivateSet(s)
  BY <1>1, <1>5 DEF ActivateSet, Mine, CallerIdHasHolder, Exists
<1>6. CASE AssignSet(s)
  BY <1>1, <1>6 DEF AssignSet, CallerIdHasHolder, Exists
<1>7. CASE ReleaseCas(s)
  BY <1>1, <1>7 DEF ReleaseCas, CallerIdHasHolder, Exists, Statuses
<1>8. CASE UNCHANGED rowVars
  BY <1>8 DEF rowVars, CallerIdHasHolder, Exists
<1>9. QED
  BY <1>2, <1>3, <1>4, <1>5, <1>6, <1>7, <1>8
     DEF NewRequest, BuyCheck, ActivateFind, AssignFind, ReleaseStart, ServerCrash,
         SessionStep, BuyEnqueue, ActivateSnapshot, ActivateClear, ReleaseSnapshot,
         ReleaseLock, ReleaseRead, ReleaseEnqueue, TxnRollback

(* The jobs write no holder, switch no caller ID on, and switch one off    *)
(* with the row that goes.                                                 *)
LEMMA JobStepCallerId ==
  ASSUME TypeOK, NEW j \in JobIds, JobStep(j) \/ WorkerCrash(j) \/ JobExpires(j)
  PROVE  /\ UNCHANGED <<assignedUserId, req>>
         /\ \A r \in Rows : isActiveForOutbound'[r]
              => isActiveForOutbound[r] /\ (Exists(r) => Exists(r)')
<1>1. /\ status \in [Rows -> RowStatuses]
      /\ isActiveForOutbound \in [Rows -> BOOLEAN]
  BY DEF TypeOK
<1>2. CASE ProvisionGiveUp(j) \/ ProvisionRecord(j) \/ ReleaseGiveUp(j)
  BY <1>1, <1>2
     DEF ProvisionGiveUp, ProvisionRecord, ReleaseGiveUp, CompareAndSetStatus, Exists, Statuses
<1>3. CASE ReleaseRemove(j)
  BY <1>1, <1>3 DEF ReleaseRemove, CompareAndSetStatus, Exists
<1>4. CASE UNCHANGED <<rowVars, req>>
  BY <1>1, <1>4 DEF rowVars, Exists
<1>5. QED
  BY <1>2, <1>3, <1>4
     DEF JobStep, ProvisionPick, ProvisionCall, ProvisionCallFails, ReleasePick,
         ReleaseCall, ReleaseCallFails, WorkerCrash, JobExpires

(* A number nobody holds, and a row that is gone, is never a caller ID;    *)
(* with FoundIsLive it is inductive.                                       *)
THEOREM CallerIdsHaveHolders == Spec => [](CallerIdHasHolder /\ FoundIsLive)
<1>1. Init => CallerIdHasHolder /\ FoundIsLive
  BY DEF Init, CallerIdHasHolder, FoundIsLive, IdleRequest
<1>2. TypeOK /\ CallerIdHasHolder /\ FoundIsLive /\ [Next]_vars
        => (CallerIdHasHolder /\ FoundIsLive)'
  <2> SUFFICES ASSUME TypeOK, CallerIdHasHolder, FoundIsLive, [Next]_vars
               PROVE  (CallerIdHasHolder /\ FoundIsLive)'
    OBVIOUS
  <2>1. ASSUME NEW s \in Sessions, NewRequest(s) \/ SessionStep(s) \/ ServerCrash(s)
        PROVE  (CallerIdHasHolder /\ FoundIsLive)'
    BY <2>1, SessionCallerIdHasHolder, SessionFoundIsLive
  <2>2. ASSUME NEW j \in JobIds, JobStep(j) \/ WorkerCrash(j) \/ JobExpires(j)
        PROVE  (CallerIdHasHolder /\ FoundIsLive)'
    BY <2>2, JobStepCallerId DEF CallerIdHasHolder, FoundIsLive
  <2>3. CASE UNCHANGED vars
    BY <2>3 DEF vars, rowVars, CallerIdHasHolder, FoundIsLive, Exists
  <2>4. QED
    BY <2>1, <2>2, <2>3 DEF Next
<1>3. QED
  BY <1>1, <1>2, TypeCorrect, PTL DEF Spec

(* An activation switches on its own number and switches off every other   *)
(* number of its user that was on.                                         *)
LEMMA ActivateSetUnique ==
  ASSUME OneRequestPerUser, TypeOK, CallerIdHasHolder, AtMostOneCallerId,
         ActivationCoversOthers, NEW s \in Sessions, ActivateSet(s)
  PROVE  (AtMostOneCallerId /\ ActivationCoversOthers)'
<1>1. /\ isActiveForOutbound \in [Rows -> BOOLEAN]
      /\ req \in [Sessions -> Request]
      /\ req' = [req EXCEPT ![s] = IdleRequest]
      /\ req[s].pc = "set"
      /\ UNCHANGED assignedUserId
  BY DEF TypeOK, ActivateSet, Answer, Continue
<1>2. req'[s].pc = "idle"
  BY <1>1 DEF IdleRequest
<1>3. CASE req[s].row \notin Mine(s)
  <2>1. UNCHANGED isActiveForOutbound
    BY <1>3 DEF ActivateSet
  <2>2. QED
    BY <1>1, <1>2, <2>1 DEF AtMostOneCallerId, ActivationCoversOthers
<1>4. CASE req[s].row \in Mine(s)
  <2>1. \A r \in Rows : isActiveForOutbound'[r]
          <=> r = req[s].row \/ (isActiveForOutbound[r] /\ r \notin req[s].held)
    BY <1>1, <1>4 DEF ActivateSet
  <2>2. assignedUserId[req[s].row] = UserOf[s] /\ req[s].row \in Rows
    BY <1>4 DEF Mine
  <2>3. AtMostOneCallerId'
    BY <1>1, <2>1, <2>2 DEF AtMostOneCallerId, ActivationCoversOthers
  <2>4. ASSUME NEW t \in Sessions, t # s, NEW r \in Rows, isActiveForOutbound'[r],
               assignedUserId[r] = UserOf[t]
        PROVE  isActiveForOutbound[r]
    BY <2>1, <2>2, <2>4 DEF OneRequestPerUser
  <2>5. ActivationCoversOthers'
    BY <1>1, <1>2, <2>4 DEF ActivationCoversOthers
  <2>6. QED
    BY <2>3, <2>5
<1>5. QED
  BY <1>3, <1>4

(* A step that switches no caller ID on, moves no number that stays one,   *)
(* and leaves the activations alone keeps both.                            *)
LEMMA NoNewCallerId ==
  ASSUME AtMostOneCallerId, ActivationCoversOthers,
         \A r \in Rows : isActiveForOutbound'[r]
            => isActiveForOutbound[r] /\ assignedUserId'[r] = assignedUserId[r],
         \A t \in Sessions : req'[t] = req[t] \/ req'[t].pc \notin {"clear", "set"}
  PROVE  (AtMostOneCallerId /\ ActivationCoversOthers)'
<1>1. AtMostOneCallerId'
  BY DEF AtMostOneCallerId
<1>2. ActivationCoversOthers'
  BY DEF ActivationCoversOthers
<1>3. QED
  BY <1>1, <1>2

(* The other statements of the routes.                                     *)
LEMMA SessionUnique ==
  ASSUME OneRequestPerUser, TypeOK, CallerIdHasHolder, AtMostOneCallerId,
         ActivationCoversOthers, NEW s \in Sessions,
         NewRequest(s) \/ SessionStep(s) \/ ServerCrash(s)
  PROVE  (AtMostOneCallerId /\ ActivationCoversOthers)'
<1>1. /\ status \in [Rows -> RowStatuses]
      /\ assignedUserId \in [Rows -> Users \cup {Nil}]
      /\ isActiveForOutbound \in [Rows -> BOOLEAN]
      /\ req \in [Sessions -> Request]
      /\ req[s] \in Request
  BY DEF TypeOK
<1>2. ASSUME NEW x, Continue(s, x), x.pc \notin {"clear", "set"}
      PROVE  \A t \in Sessions : req'[t] = req[t] \/ req'[t].pc \notin {"clear", "set"}
  BY <1>1, <1>2 DEF Continue
<1>3. ASSUME Answer(s)
      PROVE  \A t \in Sessions : req'[t] = req[t] \/ req'[t].pc \notin {"clear", "set"}
  BY <1>2, <1>3 DEF Answer, IdleRequest
<1>4. ASSUME UNCHANGED <<isActiveForOutbound, assignedUserId>>,
             \A t \in Sessions : req'[t] = req[t] \/ req'[t].pc \notin {"clear", "set"}
      PROVE  (AtMostOneCallerId /\ ActivationCoversOthers)'
  BY <1>4, NoNewCallerId
<1>5. CASE NewRequest(s)
  <2>1. UNCHANGED <<isActiveForOutbound, assignedUserId>>
    BY <1>5 DEF NewRequest, BuyCheck, ActivateFind, AssignFind, ReleaseStart, rowVars
  <2>2. \A t \in Sessions : req'[t] = req[t] \/ req'[t].pc \notin {"clear", "set"}
    BY <1>2, <1>5 DEF NewRequest, BuyCheck, ActivateFind, AssignFind, ReleaseStart, IdleRequest
  <2>3. QED
    BY <1>4, <2>1, <2>2
<1>6. CASE BuyCreate(s)
  <2>1. PICK r \in Rows :
          /\ status[r] = "none"
          /\ assignedUserId' = [assignedUserId EXCEPT ![r] = UserOf[s]]
          /\ Continue(s, [req[s] EXCEPT !.pc = "queueProvision", !.row = r])
    BY <1>6 DEF BuyCreate
  <2>2. ~isActiveForOutbound[r]
    BY <2>1 DEF CallerIdHasHolder, Exists, Statuses
  <2>3. UNCHANGED isActiveForOutbound
    BY <1>6 DEF BuyCreate
  <2>4. \A t \in Sessions : req'[t] = req[t] \/ req'[t].pc \notin {"clear", "set"}
    BY <1>1, <1>2, <2>1 DEF Request
  <2>5. QED
    BY <1>1, <2>1, <2>2, <2>3, <2>4, NoNewCallerId
<1>7. CASE BuyEnqueue(s) \/ ReleaseEnqueue(s)
  <2>1. ASSUME NEW p \in {"undoBuy", "undoRelease"}, Continue(s, [req[s] EXCEPT !.pc = p])
        PROVE  \A t \in Sessions : req'[t] = req[t] \/ req'[t].pc \notin {"clear", "set"}
    BY <1>1, <1>2, <2>1 DEF Request
  <2>2. QED
    BY <1>3, <1>4, <1>7, <2>1 DEF BuyEnqueue, ReleaseEnqueue, SendOrThrow, rowVars
<1>8. CASE BuyUndo(s) \/ ReleaseUndo(s) \/ TxnRollback(s) \/ ServerCrash(s)
  BY <1>3, <1>4, <1>8 DEF BuyUndo, ReleaseUndo, TxnRollback, ServerCrash, rowVars
<1>9. CASE ActivateSnapshot(s)
  <2>1. /\ UNCHANGED <<isActiveForOutbound, assignedUserId>>
        /\ Continue(s, [req[s] EXCEPT !.pc = "clear",
             !.targets = {q \in Mine(s) \ {req[s].row} : isActiveForOutbound[q]}])
    BY <1>9 DEF ActivateSnapshot, rowVars
  <2>2. /\ req'[s].pc = "clear" /\ req'[s].row = req[s].row
        /\ req'[s].targets = {q \in Mine(s) \ {req[s].row} : isActiveForOutbound[q]}
        /\ \A t \in Sessions \ {s} : req'[t] = req[t]
    BY <1>1, <2>1 DEF Continue, Request
  <2>3. \A r \in Rows : /\ isActiveForOutbound[r] /\ assignedUserId[r] = UserOf[s]
                        /\ r # req[s].row
                        => r \in req'[s].targets
    BY <2>2 DEF CallerIdHasHolder, Mine
  <2>4. AtMostOneCallerId'
    BY <2>1 DEF AtMostOneCallerId
  <2>5. ActivationCoversOthers'
    BY <2>1, <2>2, <2>3 DEF ActivationCoversOthers
  <2>6. QED
    BY <2>4, <2>5
<1>10. CASE ActivateClear(s)
  <2>1. /\ UNCHANGED <<isActiveForOutbound, assignedUserId>>
        /\ req[s].pc = "clear"
        /\ Continue(s, [req[s] EXCEPT !.pc = "set",
             !.held = {q \in req[s].targets \cap Mine(s) : isActiveForOutbound[q]}])
    BY <1>10 DEF ActivateClear, rowVars
  <2>2. /\ req'[s].pc = "set" /\ req'[s].row = req[s].row
        /\ req'[s].held = {q \in req[s].targets \cap Mine(s) : isActiveForOutbound[q]}
        /\ \A t \in Sessions \ {s} : req'[t] = req[t]
    BY <1>1, <2>1 DEF Continue, Request
  <2>3. \A r \in Rows : /\ isActiveForOutbound[r] /\ assignedUserId[r] = UserOf[s]
                        /\ r # req[s].row
                        => r \in req'[s].held
    BY <2>1, <2>2 DEF CallerIdHasHolder, Mine, ActivationCoversOthers
  <2>4. AtMostOneCallerId'
    BY <2>1 DEF AtMostOneCallerId
  <2>5. ActivationCoversOthers'
    BY <2>1, <2>2, <2>3 DEF ActivationCoversOthers
  <2>6. QED
    BY <2>4, <2>5
<1>11. CASE ActivateSet(s)
  BY <1>11, ActivateSetUnique
<1>12. CASE AssignSet(s)
  <2>1. \A r \in Rows : isActiveForOutbound'[r]
           => isActiveForOutbound[r] /\ assignedUserId'[r] = assignedUserId[r]
    BY <1>1, <1>12 DEF AssignSet
  <2>2. QED
    BY <1>3, <1>12, <2>1, NoNewCallerId DEF AssignSet
<1>13. CASE ReleaseSnapshot(s) \/ ReleaseLock(s) \/ ReleaseRead(s)
  <2>1. \A t \in Sessions : req'[t] = req[t] \/ req'[t].pc \notin {"clear", "set"}
    BY <1>1, <1>2, <1>3, <1>13 DEF ReleaseSnapshot, ReleaseLock, ReleaseRead, Request
  <2>2. QED
    BY <1>4, <1>13, <2>1 DEF ReleaseSnapshot, ReleaseLock, ReleaseRead, rowVars
<1>14. CASE ReleaseCas(s)
  <2>1. \A r \in Rows : isActiveForOutbound'[r]
           => isActiveForOutbound[r] /\ assignedUserId'[r] = assignedUserId[r]
    BY <1>1, <1>14 DEF ReleaseCas
  <2>2. \A t \in Sessions : req'[t] = req[t] \/ req'[t].pc \notin {"clear", "set"}
    BY <1>1, <1>2, <1>3, <1>14 DEF ReleaseCas, Request
  <2>3. QED
    BY <2>1, <2>2, NoNewCallerId
<1>15. QED
  BY <1>5, <1>6, <1>7, <1>8, <1>9, <1>10, <1>11, <1>12, <1>13, <1>14 DEF SessionStep

(* While no member has two requests open at once, no member ever has two   *)
(* caller IDs: an activation has locked every other one before it commits  *)
(* (ActivationCoversOthers). PhoneNumbersTwoTabs shows that the assumption *)
(* is needed.                                                              *)
THEOREM CallerIdIsUnique ==
  ASSUME OneRequestPerUser
  PROVE  Spec => []AtMostOneCallerId
<1>1. Init => AtMostOneCallerId /\ ActivationCoversOthers
  BY DEF Init, AtMostOneCallerId, ActivationCoversOthers
<1>2. TypeOK /\ CallerIdHasHolder /\ AtMostOneCallerId /\ ActivationCoversOthers /\ [Next]_vars
        => (AtMostOneCallerId /\ ActivationCoversOthers)'
  <2> SUFFICES ASSUME TypeOK, CallerIdHasHolder, AtMostOneCallerId,
                      ActivationCoversOthers, [Next]_vars
               PROVE  (AtMostOneCallerId /\ ActivationCoversOthers)'
    OBVIOUS
  <2>1. ASSUME NEW s \in Sessions, NewRequest(s) \/ SessionStep(s) \/ ServerCrash(s)
        PROVE  (AtMostOneCallerId /\ ActivationCoversOthers)'
    BY <2>1, SessionUnique
  <2>2. ASSUME NEW j \in JobIds, JobStep(j) \/ WorkerCrash(j) \/ JobExpires(j)
        PROVE  (AtMostOneCallerId /\ ActivationCoversOthers)'
    BY <2>2, JobStepCallerId, NoNewCallerId
  <2>3. CASE UNCHANGED vars
    BY <2>3 DEF vars, rowVars, AtMostOneCallerId, ActivationCoversOthers
  <2>4. QED
    BY <2>1, <2>2, <2>3 DEF Next
<1>3. QED
  BY <1>1, <1>2, TypeCorrect, CallerIdsHaveHolders, PTL DEF Spec
(* So a row never claims more than it has: a SID behind "active", a holder *)
(* behind a caller ID, whatever fails half way (provisionNumber.ts,        *)
(* releaseNumber.ts and the undo of the release route).                    *)
THEOREM RowsStayComplete == Spec => []RowsAreComplete
<1>1. ActiveHasSid /\ CallerIdHasHolder => RowsAreComplete
  BY DEF RowsAreComplete
<1>2. QED
  BY <1>1, ActiveRowsHaveSid, CallerIdsHaveHolders, PTL

-----------------------------------------------------------------------------
(* Twilio's books and the rows agree, as long as no process dies, no       *)
(* answer is lost and no throwing enqueue has stored its job.              *)

(* A row is taken through a purchase or a release by one at a time: the    *)
(* route until it has handed it over, then the job.                        *)
HandsOver(s) == req[s].pc \in {"queueProvision", "undoBuy", "queueRelease", "undoRelease"}
AtWork(j) == jobs[j].pc # "free"
OneAtATime ==
    /\ \A s, t \in Sessions : HandsOver(s) /\ HandsOver(t) /\ req[s].row = req[t].row => s = t
    /\ \A i, j \in JobIds : AtWork(i) /\ AtWork(j) /\ jobs[i].row = jobs[j].row => i = j
    /\ \A s \in Sessions, j \in JobIds : HandsOver(s) /\ AtWork(j) => req[s].row # jobs[j].row

(* Until that is done the row says so, and a release goes back to what the *)
(* row was.                                                                *)
RouteWaits(s) ==
    /\ req[s].pc \in {"queueProvision", "undoBuy"} => status[req[s].row] = "searching"
    /\ req[s].pc \in {"queueRelease", "undoRelease"} => status[req[s].row] = "releasing"
    /\ req[s].pc \in {"cas", "queueRelease", "undoRelease"} => req[s].found \in {"active", "failed"}
JobWaits(j) ==
    AtWork(j) =>
        status[jobs[j].row] = IF jobs[j].kind = "provision" THEN "searching" ELSE "releasing"
OwnersInv ==
    /\ OneAtATime
    /\ \A s \in Sessions : RouteWaits(s)
    /\ \A j \in JobIds : JobWaits(j)

(* Twilio rents a number out once, for a row that was created.             *)
RentedOnce ==
    /\ \A x \in rented : boughtFor[x] \in Rows /\ status[boughtFor[x]] # "none"
    /\ \A x, y \in rented : e164[boughtFor[x]] = e164[boughtFor[y]] => x = y

(* What a row and a job know of a SID.                                     *)
RowKnowsSid(r) ==
    /\ twilioSid[r] # Nil => boughtFor[twilioSid[r]] = r
    /\ status[r] \in {"none", "searching"} => twilioSid[r] = Nil
    /\ twilioSid[r] # Nil /\ status[r] # "gone" =>
          twilioSid[r] \in rented \/ \E j \in JobIds : jobs[j].pc = "remove" /\ jobs[j].row = r
JobKnowsSid(j) ==
    /\ jobs[j].pc = "record" =>
          /\ jobs[j].kind = "provision" /\ jobs[j].sid \in rented
          /\ boughtFor[jobs[j].sid] = jobs[j].row
    /\ jobs[j].pc = "remove" => jobs[j].kind = "release" /\ twilioSid[jobs[j].row] \notin rented
    /\ jobs[j].pc = "call" /\ jobs[j].kind = "release" => jobs[j].sid = twilioSid[jobs[j].row]
BooksInv ==
    /\ RentedOnce /\ NoOrphanRental
    /\ \A r \in Rows : RowKnowsSid(r)
    /\ \A j \in JobIds : JobKnowsSid(j)

(* Nobody but the route takes the row through anything.                    *)
Alone(s, r) ==
    /\ \A t \in Sessions \ {s} : HandsOver(t) => req[t].row # r
    /\ \A j \in JobIds : AtWork(j) => jobs[j].row # r

(* A route that hands a row over is alone with it.                         *)
LEMMA AloneWhenOver ==
    ASSUME OwnersInv, NEW s \in Sessions, HandsOver(s) PROVE Alone(s, req[s].row)
BY DEF OwnersInv, OneAtATime, Alone

(* A row that says nothing of the kind is nobody's.                        *)
LEMMA AloneWhenSettled ==
    ASSUME OwnersInv, NEW s \in Sessions, NEW r \in Rows, status[r] \notin {"searching", "releasing"}
    PROVE  Alone(s, r)
BY DEF OwnersInv, Alone, RouteWaits, JobWaits, HandsOver

(* A route goes on, and writes the status of nobody else's row.            *)
LEMMA RouteOwns ==
    ASSUME TypeOK, WorkNamesRows, OwnersInv, NEW s \in Sessions, NEW x, Continue(s, x), jobs' = jobs,
           \A r \in Rows : status'[r] # status[r] => Alone(s, r),
           HandsOver(s)' => Alone(s, x.row),
           RouteWaits(s)'
    PROVE  OwnersInv'
<1>1. req \in [Sessions -> Request] BY DEF TypeOK
<1>2. req'[s] = x /\ \A t \in Sessions \ {s} : req'[t] = req[t] BY <1>1 DEF Continue
<1>3. OneAtATime' BY <1>2 DEF OwnersInv, OneAtATime, HandsOver, AtWork, Alone
<1>4. ASSUME NEW t \in Sessions PROVE RouteWaits(t)'
  <2>1. CASE t = s BY <2>1
  <2>2. CASE t # s
    <3>1. req'[t] = req[t] BY <1>2, <2>2
    <3>2. HandsOver(t) => req[t].row \in Rows BY DEF WorkNamesRows, HandsOver
    <3>3. HandsOver(t) => status'[req[t].row] = status[req[t].row] BY <2>2, <3>2 DEF Alone
    <3>4. RouteWaits(t) BY DEF OwnersInv
    <3>5. QED BY <3>1, <3>3, <3>4 DEF RouteWaits, HandsOver
  <2>3. QED BY <2>1, <2>2
<1>5. ASSUME NEW j \in JobIds PROVE JobWaits(j)'
  <2>1. AtWork(j) => jobs[j].row \in Rows BY DEF WorkNamesRows, AtWork
  <2>2. AtWork(j) => status'[jobs[j].row] = status[jobs[j].row] BY <2>1 DEF Alone
  <2>3. QED BY <2>2 DEF OwnersInv, JobWaits, AtWork
<1>6. QED BY <1>3, <1>4, <1>5 DEF OwnersInv

(* It hands its row over to a job.                                         *)
LEMMA JobOwns ==
    ASSUME TypeOK, WorkNamesRows, OwnersInv, NEW s \in Sessions, HandsOver(s), NEW kind \in JobKinds,
           Enqueue(kind, req[s].row), Answer(s), status' = status,
           status[req[s].row] = IF kind = "provision" THEN "searching" ELSE "releasing"
    PROVE  OwnersInv'
<1>1. req \in [Sessions -> Request] /\ jobs \in [JobIds -> Job] BY DEF TypeOK
<1>2. req'[s] = IdleRequest /\ \A t \in Sessions \ {s} : req'[t] = req[t]
  BY <1>1 DEF Answer, Continue
<1>3. ~HandsOver(s)' /\ RouteWaits(s)' BY <1>2 DEF HandsOver, RouteWaits, IdleRequest
<1>4. PICK k \in JobIds :
         /\ jobs[k].pc = "free"
         /\ jobs' = [jobs EXCEPT ![k] = [FreeJob EXCEPT !.pc = "queued", !.kind = kind, !.row = req[s].row]]
  BY DEF Enqueue
<1>5. /\ jobs'[k].row = req[s].row /\ jobs'[k].kind = kind
      /\ \A j \in JobIds \ {k} : jobs'[j] = jobs[j]
  BY <1>1, <1>4 DEF FreeJob
<1>6. Alone(s, req[s].row) BY AloneWhenOver
<1>7. OneAtATime'
  <2>1. \A t \in Sessions : HandsOver(t)' => t # s /\ HandsOver(t) /\ req'[t] = req[t]
    BY <1>2, <1>3 DEF HandsOver
  <2>2. \A j \in JobIds \ {k} : AtWork(j)' => AtWork(j) BY <1>5 DEF AtWork
  <2>3. QED BY <1>5, <1>6, <2>1, <2>2 DEF OwnersInv, OneAtATime, Alone
<1>8. \A t \in Sessions : RouteWaits(t)' BY <1>2, <1>3 DEF OwnersInv, RouteWaits
<1>9. \A j \in JobIds : JobWaits(j)' BY <1>5 DEF OwnersInv, JobWaits, AtWork
<1>10. QED BY <1>7, <1>8, <1>9 DEF OwnersInv

(* A job goes on about its row, or is done with it whatever it says now.   *)
LEMMA JobGoesOn ==
    ASSUME TypeOK, WorkNamesRows, OwnersInv, NEW j \in JobIds, AtWork(j), req' = req,
           NEW y, jobs' = [jobs EXCEPT ![j] = y],
           \A r \in Rows : r # jobs[j].row => status'[r] = status[r],
           \/ y.pc = "free"
           \/ /\ y.row = jobs[j].row /\ y.kind = jobs[j].kind
              /\ status'[jobs[j].row] = status[jobs[j].row]
    PROVE  OwnersInv'
<1>1. jobs \in [JobIds -> Job] BY DEF TypeOK
<1>2. jobs'[j] = y /\ \A i \in JobIds \ {j} : jobs'[i] = jobs[i] BY <1>1
<1>3. OneAtATime' BY <1>2 DEF OwnersInv, OneAtATime, HandsOver, AtWork
<1>4. ASSUME NEW t \in Sessions PROVE RouteWaits(t)'
  <2>1. HandsOver(t) => req[t].row \in Rows /\ req[t].row # jobs[j].row
    BY DEF WorkNamesRows, HandsOver, OwnersInv, OneAtATime
  <2>2. RouteWaits(t) BY DEF OwnersInv
  <2>3. QED BY <2>1, <2>2 DEF RouteWaits, HandsOver
<1>5. ASSUME NEW i \in JobIds PROVE JobWaits(i)'
  <2>1. JobWaits(i) /\ JobWaits(j) BY DEF OwnersInv
  <2>2. CASE i = j BY <1>2, <2>1, <2>2 DEF JobWaits, AtWork
  <2>3. CASE i # j
    <3>1. AtWork(i) => jobs[i].row \in Rows /\ jobs[i].row # jobs[j].row
      BY <2>3 DEF WorkNamesRows, AtWork, OwnersInv, OneAtATime
    <3>2. QED BY <1>2, <2>1, <2>3, <3>1 DEF JobWaits, AtWork
  <2>4. QED BY <2>2, <2>3
<1>6. QED BY <1>3, <1>4, <1>5 DEF OwnersInv

(* A row that lives goes on living with its number, and a job that neither *)
(* records a SID nor removes a row begins neither but for want of a SID.   *)
RowsLiveOn ==
    \A r \in Rows :
        /\ status[r] # "none" => status'[r] # "none" /\ e164'[r] = e164[r]
        /\ status'[r] \in {"none", "searching"} => status[r] \in {"none", "searching"}
        /\ status[r] = "gone" => status'[r] = "gone"
        /\ Exists(r) => Exists(r)'
JobStandsBy(j) ==
    \/ jobs'[j] = jobs[j]
    \/ /\ jobs[j].pc \notin {"record", "remove"} /\ jobs'[j].pc # "record"
       /\ jobs'[j].pc = "remove" => jobs'[j].kind = "release" /\ twilioSid[jobs'[j].row] = Nil
       /\ jobs'[j].pc = "call" /\ jobs'[j].kind = "release"
             => jobs'[j].sid = twilioSid[jobs'[j].row]

(* What nobody told Twilio leaves its books alone.                         *)
LEMMA BooksKept ==
    ASSUME TypeOK, BooksInv, UNCHANGED <<twilioSid, twilioVars>>, RowsLiveOn,
           \A j \in JobIds : JobStandsBy(j)
    PROVE  BooksInv'
<1> USE DEF twilioVars
<1>1. rented \subseteq Sids /\ Nil \notin rented BY ConstantsAssumption DEF TypeOK
<1>2. RentedOnce' BY DEF BooksInv, RentedOnce, RowsLiveOn
<1>3. NoOrphanRental' BY DEF BooksInv, NoOrphanRental, RowsLiveOn, JobStandsBy
<1>4. ASSUME NEW r \in Rows PROVE RowKnowsSid(r)'
  <2>1. RowKnowsSid(r) BY DEF BooksInv
  <2>2. \A j \in JobIds : jobs[j].pc = "remove" => jobs'[j] = jobs[j] BY DEF JobStandsBy
  <2>3. QED BY <2>1, <2>2 DEF RowKnowsSid, RowsLiveOn
<1>5. ASSUME NEW j \in JobIds PROVE JobKnowsSid(j)'
  BY <1>1 DEF BooksInv, JobKnowsSid, JobStandsBy
<1>6. QED BY <1>2, <1>3, <1>4, <1>5 DEF BooksInv

(* Every statement of a route keeps the books, if an enqueue that throws   *)
(* has stored nothing.                                                     *)
LEMMA SessionBooks ==
    ASSUME TypeOK, WorkNamesRows, OwnersInv, BooksInv, Faults \subseteq {"undoFails"},
           NEW s \in Sessions, NewRequest(s) \/ SessionStep(s) \/ ServerCrash(s)
    PROVE  OwnersInv' /\ BooksInv'
<1> DEFINE Goal == OwnersInv' /\ BooksInv'
           r == req[s].row
<1> USE DEF rowVars
<1>1. /\ req \in [Sessions -> Request] /\ req[s] \in Request /\ status \in [Rows -> RowStatuses]
      /\ assignedUserId \in [Rows -> Users \cup {Nil}] /\ e164 \in [Rows -> Numbers \cup {Nil}]
  BY DEF TypeOK
<1>2. HandsOver(s) => r \in Rows BY DEF WorkNamesRows, HandsOver
<1>3. ASSUME UNCHANGED <<status, e164>> PROVE RowsLiveOn BY <1>3 DEF RowsLiveOn, Exists
<1>4. ASSUME jobs' = jobs PROVE \A j \in JobIds : JobStandsBy(j) BY <1>4 DEF JobStandsBy
<1>5. ASSUME NEW x, Continue(s, x), UNCHANGED <<status, twilioSid, e164, twilioVars, jobs>>,
             x.pc \notin {"queueProvision", "undoBuy", "queueRelease", "undoRelease"},
             x.pc = "cas" => x.found \in {"active", "failed"}
      PROVE  Goal
  <2>1. req'[s] = x BY <1>1, <1>5 DEF Continue
  <2>2. ~HandsOver(s)' /\ RouteWaits(s)' BY <1>5, <2>1 DEF HandsOver, RouteWaits
  <2>3. OwnersInv' BY <1>5, <2>2, RouteOwns
  <2>4. QED BY <1>3, <1>4, <1>5, <2>3, BooksKept
<1>6. ASSUME Answer(s), UNCHANGED <<status, twilioSid, e164, twilioVars, jobs>> PROVE Goal
  BY <1>5, <1>6 DEF Answer, IdleRequest
<1>7. CASE NewRequest(s)
  <2>1. ASSUME NEW n \in Numbers, BuyCheck(s, n) PROVE Goal
    BY <1>5, <2>1 DEF BuyCheck, IdleRequest
  <2>2. ASSUME NEW q \in Rows, ActivateFind(s, q) PROVE Goal
    BY <1>5, <2>2 DEF ActivateFind, IdleRequest
  <2>3. ASSUME NEW q \in Rows, NEW u \in Users \cup {Nil}, AssignFind(s, q, u) PROVE Goal
    BY <1>5, <2>3 DEF AssignFind, IdleRequest
  <2>4. ASSUME NEW q \in Rows, ReleaseStart(s, q) PROVE Goal
    BY <1>5, <2>4 DEF ReleaseStart, IdleRequest
  <2>5. QED BY <1>7, <2>1, <2>2, <2>3, <2>4 DEF NewRequest
<1>8. CASE BuyCreate(s)
  <2>1. PICK q \in Rows :
           /\ status[q] = "none" /\ status' = [status EXCEPT ![q] = "searching"]
           /\ e164' = [e164 EXCEPT ![q] = req[s].num]
           /\ Continue(s, [req[s] EXCEPT !.pc = "queueProvision", !.row = q])
    BY <1>8 DEF BuyCreate
  <2> DEFINE x == [req[s] EXCEPT !.pc = "queueProvision", !.row = q]
  <2>2. x.pc = "queueProvision" /\ x.row = q BY <1>1 DEF Request
  <2>3. req'[s] = x BY <1>1, <2>1 DEF Continue
  <2>4. Alone(s, q) BY <2>1, AloneWhenSettled
  <2>5. status'[q] = "searching" /\ \A o \in Rows \ {q} : status'[o] = status[o] BY <1>1, <2>1
  <2> HIDE DEF x
  <2>6. RouteWaits(s)' BY <2>2, <2>3, <2>5 DEF RouteWaits
  <2>7. OwnersInv' BY <1>8, <2>1, <2>2, <2>4, <2>5, <2>6, RouteOwns DEF BuyCreate, x
  <2>8. RowsLiveOn BY <1>1, <2>1, <2>5 DEF RowsLiveOn, Exists, Statuses
  <2>9. QED BY <1>4, <1>8, <2>7, <2>8, BooksKept DEF BuyCreate
<1>9. ASSUME NEW kind \in JobKinds, NEW undoPc \in {"undoBuy", "undoRelease"}, HandsOver(s),
             SendOrThrow(s, kind, undoPc), UNCHANGED <<rowVars, twilioVars>>,
             kind = "provision" => req[s].pc = "queueProvision" /\ undoPc = "undoBuy",
             kind = "release" => req[s].pc = "queueRelease" /\ undoPc = "undoRelease"
      PROVE  Goal
  <2>1. RouteWaits(s) /\ Alone(s, r) BY <1>9, AloneWhenOver DEF OwnersInv
  <2>2. CASE Enqueue(kind, r) /\ Answer(s)
    <3>1. status[r] = IF kind = "provision" THEN "searching" ELSE "releasing"
      BY <1>9, <2>1 DEF RouteWaits, JobKinds
    <3>2. OwnersInv' BY <1>9, <2>2, <3>1, JobOwns
    <3>3. \A j \in JobIds : JobStandsBy(j)
      BY <2>2 DEF Enqueue, JobStandsBy, FreeJob, TypeOK
    <3>4. QED BY <1>3, <1>9, <3>2, <3>3, BooksKept
  <2>3. CASE UNCHANGED jobs /\ Continue(s, [req[s] EXCEPT !.pc = undoPc])
    <3> DEFINE x == [req[s] EXCEPT !.pc = undoPc]
    <3>1. x.pc = undoPc /\ x.row = r /\ x.found = req[s].found BY <1>1 DEF Request
    <3>2. req'[s] = x BY <1>1, <2>3 DEF Continue
    <3> HIDE DEF x
    <3>3. RouteWaits(s)' BY <1>9, <2>1, <3>1, <3>2 DEF RouteWaits, JobKinds
    <3>4. OwnersInv' BY <1>9, <2>1, <2>3, <3>1, <3>3, RouteOwns DEF x
    <3>5. QED BY <1>3, <1>4, <1>9, <2>3, <3>4, BooksKept
  <2>4. QED BY <1>9, <2>2, <2>3 DEF SendOrThrow
<1>10. CASE BuyEnqueue(s) BY <1>9, <1>10 DEF BuyEnqueue, HandsOver, JobKinds
<1>11. CASE ReleaseEnqueue(s) BY <1>9, <1>11 DEF ReleaseEnqueue, HandsOver, JobKinds
<1>12. ASSUME HandsOver(s), Answer(s), UNCHANGED <<twilioSid, e164, twilioVars, jobs>>,
              NEW from, NEW to \in {"active", "failed"},
              CompareAndSetStatus(r, from, to) \/ status' = status, status[r] \in {"searching", "releasing"}
       PROVE  Goal
  <2>1. Alone(s, r) /\ r \in Rows BY <1>2, <1>12, AloneWhenOver
  <2>2. /\ \A q \in Rows \ {r} : status'[q] = status[q]
        /\ status'[r] \in {status[r], "active", "failed"}
    BY <1>1, <1>12 DEF CompareAndSetStatus
  <2>3. req'[s] = IdleRequest BY <1>1, <1>12 DEF Answer, Continue
  <2>4. ~HandsOver(s)' /\ RouteWaits(s)' BY <2>3 DEF HandsOver, RouteWaits, IdleRequest
  <2>5. OwnersInv' BY <1>12, <2>1, <2>2, <2>4, RouteOwns DEF Answer
  <2>6. RowsLiveOn BY <1>12, <2>1, <2>2 DEF RowsLiveOn, Exists, Statuses
  <2>7. QED BY <1>4, <1>12, <2>5, <2>6, BooksKept
<1>13. CASE BuyUndo(s)
  <2>1. HandsOver(s) /\ status[r] = "searching"
    BY <1>13 DEF BuyUndo, HandsOver, OwnersInv, RouteWaits
  <2>2. QED BY <1>12, <1>13, <2>1 DEF BuyUndo
<1>14. CASE ReleaseUndo(s)
  <2>1. HandsOver(s) /\ status[r] = "releasing" /\ req[s].found \in {"active", "failed"}
    BY <1>14 DEF ReleaseUndo, HandsOver, OwnersInv, RouteWaits
  <2>2. QED BY <1>12, <1>14, <2>1 DEF ReleaseUndo
<1>15. ASSUME NEW x, Continue(s, x), UNCHANGED <<status, twilioSid, e164, twilioVars, jobs>>,
              NEW pc \in {"clear", "set", "lock", "read"}, x.pc = pc
       PROVE  Goal
  BY <1>5, <1>15
<1>16. CASE ActivateSnapshot(s)
  <2> DEFINE x == [req[s] EXCEPT !.pc = "clear",
                     !.targets = {q \in Mine(s) \ {req[s].row} : isActiveForOutbound[q]}]
  <2>1. x.pc = "clear" BY <1>1 DEF Request
  <2>2. QED BY <1>15, <1>16, <2>1 DEF ActivateSnapshot
<1>17. CASE ActivateClear(s)
  <2> DEFINE x == [req[s] EXCEPT !.pc = "set",
                     !.held = {q \in req[s].targets \cap Mine(s) : isActiveForOutbound[q]}]
  <2>1. x.pc = "set" BY <1>1 DEF Request
  <2>2. QED BY <1>15, <1>17, <2>1 DEF ActivateClear
<1>18. CASE ActivateSet(s) \/ AssignSet(s) \/ TxnRollback(s)
  BY <1>6, <1>18 DEF ActivateSet, AssignSet, TxnRollback
<1>19. CASE ReleaseSnapshot(s)
  <2>1. [req[s] EXCEPT !.pc = "lock", !.targets = Mine(s)].pc = "lock" BY <1>1 DEF Request
  <2>2. QED BY <1>15, <1>19, <2>1 DEF ReleaseSnapshot
<1>20. CASE ReleaseLock(s)
  <2>1. [req[s] EXCEPT !.pc = "read", !.held = req[s].targets \cap Mine(s), !.targets = {}].pc = "read"
    BY <1>1 DEF Request
  <2>2. QED BY <1>15, <1>20, <2>1 DEF ReleaseLock
<1>21. CASE ReleaseRead(s)
  <2>1. CASE ReleaseRefused(s) BY <1>6, <1>21, <2>1 DEF ReleaseRead
  <2>2. CASE ~ReleaseRefused(s)
    <3> DEFINE x == [req[s] EXCEPT !.pc = "cas", !.found = status[req[s].row]]
    <3>1. x.pc = "cas" /\ x.found = status[r] BY <1>1 DEF Request
    <3>2. status[r] \in {"active", "failed"}
      BY <1>1, <2>2 DEF ReleaseRefused, Mine, Exists, Statuses
    <3>3. Continue(s, x) BY <1>21, <2>2 DEF ReleaseRead
    <3> HIDE DEF x
    <3>4. QED BY <1>5, <1>21, <3>1, <3>2, <3>3 DEF ReleaseRead
  <2>3. QED BY <2>1, <2>2
<1>22. CASE ReleaseCas(s)
  <2>1. CASE ~(r \in Mine(s) /\ status[r] = req[s].found) BY <1>6, <1>22, <2>1 DEF ReleaseCas
  <2>2. CASE r \in Mine(s) /\ status[r] = req[s].found
    <3> DEFINE x == [req[s] EXCEPT !.pc = "queueRelease", !.held = {}]
    <3>1. x.pc = "queueRelease" /\ x.row = r /\ x.found = req[s].found BY <1>1 DEF Request
    <3>2. Continue(s, x) /\ status' = [status EXCEPT ![r] = "releasing"]
      BY <1>22, <2>2 DEF ReleaseCas
    <3>3. r \in Rows BY <2>2 DEF Mine
    <3>4. status[r] \in {"active", "failed"}
      BY <1>22, <2>2 DEF OwnersInv, RouteWaits, ReleaseCas
    <3>5. Alone(s, r) BY <3>3, <3>4, AloneWhenSettled
    <3>6. status'[r] = "releasing" /\ \A q \in Rows \ {r} : status'[q] = status[q]
      BY <1>1, <3>2, <3>3
    <3>7. req'[s] = x BY <1>1, <3>2 DEF Continue
    <3> HIDE DEF x
    <3>8. RouteWaits(s)' BY <2>2, <3>1, <3>4, <3>6, <3>7 DEF RouteWaits
    <3>9. OwnersInv' BY <1>22, <3>1, <3>2, <3>5, <3>6, <3>8, RouteOwns DEF ReleaseCas
    <3>10. RowsLiveOn BY <1>22, <3>3, <3>4, <3>6 DEF ReleaseCas, RowsLiveOn, Exists, Statuses
    <3>11. QED BY <1>4, <1>22, <3>9, <3>10, BooksKept DEF ReleaseCas
  <2>3. QED BY <2>1, <2>2
<1>23. CASE ServerCrash(s) BY <1>23 DEF ServerCrash
<1>24. QED
  BY <1>7, <1>8, <1>10, <1>11, <1>13, <1>14, <1>16, <1>17, <1>18, <1>19, <1>20, <1>21, <1>22,
     <1>23 DEF SessionStep

(* A purchase adds one SID to the books, of a number nobody rents, and the *)
(* job that will record it.                                                *)
LEMMA PurchaseBooks ==
    ASSUME TypeOK, WorkNamesRows, OwnersInv, BooksInv, NEW j \in JobIds, ProvisionCall(j)
    PROVE  BooksInv'
<1> DEFINE r == jobs[j].row
<1>1. /\ jobs \in [JobIds -> Job] /\ jobs[j] \in Job /\ boughtFor \in [Sids -> Rows \cup {Nil}]
      /\ rented \subseteq Sids /\ r \in Rows
  BY DEF TypeOK, WorkNamesRows, ProvisionCall
<1>2. /\ jobs[j].pc = "call" /\ jobs[j].kind = "provision"
      /\ UNCHANGED <<status, twilioSid, e164>>
  BY DEF ProvisionCall, rowVars
<1>3. PICK x \in Sids : Sell(j, x) /\ jobs' = [jobs EXCEPT ![j].pc = "record", ![j].sid = x]
  BY DEF ProvisionCall
<1>4. /\ boughtFor[x] = Nil /\ rented' = rented \cup {x} /\ boughtFor'[x] = r
      /\ \A z \in Sids \ {x} : boughtFor'[z] = boughtFor[z]
      /\ \A z \in rented : e164[boughtFor[z]] # e164[r]
  BY <1>1, <1>3 DEF Sell, ForSale
<1>5. x \notin rented /\ Nil \notin Rows /\ Nil \notin Sids
  BY <1>4, ConstantsAssumption DEF BooksInv, RentedOnce
<1>6. /\ jobs'[j].pc = "record" /\ jobs'[j].sid = x /\ jobs'[j].row = r
      /\ jobs'[j].kind = "provision" /\ \A i \in JobIds \ {j} : jobs'[i] = jobs[i]
  BY <1>1, <1>2, <1>3 DEF Job
<1>7. status[r] = "searching" BY <1>2 DEF OwnersInv, JobWaits, AtWork
<1>8. \A z \in rented : z \in Sids \ {x} /\ boughtFor'[z] = boughtFor[z] BY <1>1, <1>4, <1>5
<1>9. RentedOnce'
  <2>1. ASSUME NEW y \in rented' PROVE boughtFor'[y] \in Rows /\ status'[boughtFor'[y]] # "none"
    BY <1>1, <1>2, <1>4, <1>7, <1>8, <2>1 DEF BooksInv, RentedOnce
  <2>2. ASSUME NEW y \in rented', NEW z \in rented', e164[boughtFor'[y]] = e164[boughtFor'[z]]
        PROVE  y = z
    BY <1>4, <1>8, <2>2 DEF BooksInv, RentedOnce
  <2>3. QED BY <1>2, <2>1, <2>2 DEF RentedOnce
<1>10. NoOrphanRental'
  BY <1>2, <1>4, <1>6 DEF BooksInv, NoOrphanRental, Exists
<1>11. ASSUME NEW q \in Rows PROVE RowKnowsSid(q)'
  <2>1. RowKnowsSid(q) BY DEF BooksInv
  <2>2. twilioSid[q] # Nil => twilioSid[q] \in Sids /\ boughtFor[twilioSid[q]] # Nil
    BY <1>5, <2>1 DEF RowKnowsSid, TypeOK
  <2>3. \A i \in JobIds : jobs[i].pc = "remove" => jobs'[i] = jobs[i] BY <1>2, <1>6
  <2>4. QED BY <1>2, <1>4, <2>1, <2>2, <2>3 DEF RowKnowsSid
<1>12. ASSUME NEW i \in JobIds PROVE JobKnowsSid(i)'
  <2>1. CASE i = j BY <1>4, <1>6, <2>1 DEF JobKnowsSid
  <2>2. CASE i # j
    <3>1. JobKnowsSid(i) /\ jobs'[i] = jobs[i] BY <1>6, <2>2 DEF BooksInv
    <3>2. jobs[i].pc = "remove" => twilioSid[jobs[i].row] # x
      <4>1. SUFFICES ASSUME jobs[i].pc = "remove" PROVE twilioSid[jobs[i].row] # x OBVIOUS
      <4>2. jobs[i].row \in Rows BY <4>1 DEF WorkNamesRows
      <4>3. RowKnowsSid(jobs[i].row) BY <4>2 DEF BooksInv
      <4>4. QED BY <1>1, <1>4, <1>5, <4>2, <4>3 DEF RowKnowsSid
    <3>3. QED BY <1>2, <1>4, <1>8, <3>1, <3>2 DEF JobKnowsSid
  <2>3. QED BY <2>1, <2>2
<1>13. QED BY <1>9, <1>10, <1>11, <1>12 DEF BooksInv

(* The job writes the SID into the row that waits for it.                  *)
LEMMA RecordBooks ==
    ASSUME TypeOK, WorkNamesRows, OwnersInv, BooksInv, NEW j \in JobIds, ProvisionRecord(j),
           jobs' = [jobs EXCEPT ![j] = FreeJob]
    PROVE  OwnersInv' /\ BooksInv'
<1> DEFINE r == jobs[j].row
           x == jobs[j].sid
<1>1. /\ jobs \in [JobIds -> Job] /\ status \in [Rows -> RowStatuses]
      /\ twilioSid \in [Rows -> Sids \cup {Nil}] /\ r \in Rows /\ AtWork(j)
  BY DEF TypeOK, WorkNamesRows, ProvisionRecord, AtWork
<1>2. /\ jobs[j].pc = "record" /\ x \in rented /\ boughtFor[x] = r
      /\ status[r] = "searching" /\ twilioSid[r] = Nil
  <2>1. jobs[j].pc = "record" /\ JobKnowsSid(j) /\ JobWaits(j) /\ RowKnowsSid(r)
    BY <1>1 DEF ProvisionRecord, BooksInv, OwnersInv
  <2>2. QED BY <1>1, <2>1 DEF JobKnowsSid, JobWaits, RowKnowsSid
<1>3. /\ status' = [status EXCEPT ![r] = "active"] /\ twilioSid' = [twilioSid EXCEPT ![r] = x]
      /\ UNCHANGED <<e164, twilioVars, req>>
  BY <1>2 DEF ProvisionRecord, CompareAndSetStatus
<1>4. /\ status'[r] = "active" /\ twilioSid'[r] = x
      /\ \A q \in Rows \ {r} : status'[q] = status[q] /\ twilioSid'[q] = twilioSid[q]
  BY <1>1, <1>3
<1>5. jobs'[j].pc = "free" /\ \A i \in JobIds \ {j} : jobs'[i] = jobs[i] BY <1>1 DEF FreeJob
<1>6. OwnersInv' BY <1>1, <1>3, <1>4, JobGoesOn DEF FreeJob
<1>7. \A i \in JobIds \ {j} : AtWork(i) => jobs[i].row # r
  BY <1>1 DEF OwnersInv, OneAtATime
<1>8. RentedOnce' BY <1>3, <1>4 DEF BooksInv, RentedOnce, twilioVars
<1>9. NoOrphanRental'
  <2>1. SUFFICES ASSUME NEW z \in rented
                 PROVE  \/ \E q \in Rows : Exists(q)' /\ twilioSid'[q] = z
                        \/ \E i \in JobIds : jobs'[i].pc = "record" /\ jobs'[i].sid = z
    BY <1>3 DEF NoOrphanRental, twilioVars
  <2>2. z # Nil BY <2>1, ConstantsAssumption DEF TypeOK
  <2>3. CASE z = x BY <1>1, <1>4, <2>3 DEF Exists, Statuses
  <2>4. ASSUME NEW q \in Rows, Exists(q), twilioSid[q] = z PROVE Exists(q)' /\ twilioSid'[q] = z
    BY <1>2, <1>4, <2>2, <2>4 DEF Exists
  <2>5. ASSUME NEW i \in JobIds, jobs[i].pc = "record", jobs[i].sid = z, z # x
        PROVE  jobs'[i].pc = "record" /\ jobs'[i].sid = z
    BY <1>5, <2>5
  <2>6. QED BY <2>3, <2>4, <2>5 DEF BooksInv, NoOrphanRental
<1>10. ASSUME NEW q \in Rows PROVE RowKnowsSid(q)'
  <2>1. CASE q = r BY <1>2, <1>3, <1>4, <2>1 DEF RowKnowsSid, twilioVars
  <2>2. CASE q # r
    <3>1. RowKnowsSid(q) BY DEF BooksInv
    <3>2. \A i \in JobIds : jobs[i].pc = "remove" => jobs'[i] = jobs[i] BY <1>2, <1>5
    <3>3. QED BY <1>3, <1>4, <2>2, <3>1, <3>2 DEF RowKnowsSid, twilioVars
  <2>3. QED BY <2>1, <2>2
<1>11. ASSUME NEW i \in JobIds PROVE JobKnowsSid(i)'
  <2>1. CASE i = j BY <1>5, <2>1 DEF JobKnowsSid
  <2>2. CASE i # j
    <3>1. JobKnowsSid(i) /\ jobs'[i] = jobs[i] BY <1>5, <2>2 DEF BooksInv
    <3>2. AtWork(i) => jobs[i].row \in Rows \ {r} BY <1>7, <2>2 DEF WorkNamesRows, AtWork
    <3>3. QED BY <1>3, <1>4, <3>1, <3>2 DEF JobKnowsSid, AtWork, twilioVars
  <2>3. QED BY <2>1, <2>2
<1>12. QED BY <1>6, <1>8, <1>9, <1>10, <1>11 DEF BooksInv

(* Twilio takes a number back only while its row is on the way out.        *)
LEMMA GiveBackBooks ==
    ASSUME TypeOK, WorkNamesRows, OwnersInv, BooksInv, NEW j \in JobIds, ReleaseCall(j)
    PROVE  BooksInv'
<1> DEFINE r == jobs[j].row
           x == jobs[j].sid
<1>1. /\ jobs \in [JobIds -> Job] /\ jobs[j] \in Job /\ r \in Rows /\ AtWork(j)
      /\ jobs[j].pc = "call" /\ jobs[j].kind = "release"
  BY DEF TypeOK, WorkNamesRows, ReleaseCall, AtWork
<1>2. /\ rented' = rented \ {x} /\ UNCHANGED <<status, twilioSid, e164, boughtFor>>
      /\ jobs' = [jobs EXCEPT ![j].pc = "remove"]
  BY DEF ReleaseCall, GoTo, rowVars
<1>3. /\ jobs'[j].pc = "remove" /\ jobs'[j].row = r /\ jobs'[j].kind = "release"
      /\ \A i \in JobIds \ {j} : jobs'[i] = jobs[i]
  BY <1>1, <1>2 DEF Job
<1>4. x = twilioSid[r] BY <1>1 DEF BooksInv, JobKnowsSid
<1>5. \A q \in Rows \ {r} : twilioSid[q] # Nil => twilioSid[q] # x
  BY <1>1, <1>4 DEF BooksInv, RowKnowsSid
<1>6. ASSUME NEW i \in JobIds, jobs[i].pc = "record" PROVE jobs[i].sid # x
  <2>1. i # j /\ boughtFor[jobs[i].sid] = jobs[i].row BY <1>1, <1>6 DEF BooksInv, JobKnowsSid
  <2>2. jobs[i].row # r BY <1>1, <1>6, <2>1 DEF OwnersInv, OneAtATime, AtWork
  <2>3. jobs[i].sid # Nil
    BY <1>6, ConstantsAssumption DEF BooksInv, JobKnowsSid, TypeOK
  <2>4. QED BY <1>1, <1>4, <2>1, <2>2, <2>3 DEF BooksInv, RowKnowsSid
<1>7. RentedOnce' BY <1>2 DEF BooksInv, RentedOnce
<1>8. NoOrphanRental' BY <1>1, <1>2, <1>3 DEF BooksInv, NoOrphanRental, Exists
<1>9. ASSUME NEW q \in Rows PROVE RowKnowsSid(q)'
  <2>1. RowKnowsSid(q) BY DEF BooksInv
  <2>2. CASE q = r BY <1>2, <1>3, <2>1, <2>2 DEF RowKnowsSid
  <2>3. CASE q # r
    <3>1. \A i \in JobIds : jobs[i].pc = "remove" => jobs'[i] = jobs[i] BY <1>1, <1>3
    <3>2. QED BY <1>2, <1>5, <2>1, <2>3, <3>1 DEF RowKnowsSid
  <2>4. QED BY <2>2, <2>3
<1>10. ASSUME NEW i \in JobIds PROVE JobKnowsSid(i)'
  <2>1. JobKnowsSid(i) BY DEF BooksInv
  <2>2. CASE i = j BY <1>2, <1>3, <1>4, <2>2 DEF JobKnowsSid
  <2>3. CASE i # j BY <1>2, <1>3, <1>6, <2>1, <2>3 DEF JobKnowsSid
  <2>4. QED BY <2>2, <2>3
<1>11. QED BY <1>7, <1>8, <1>9, <1>10 DEF BooksInv

(* A row goes when Twilio does not bill for it.                            *)
LEMMA RemoveBooks ==
    ASSUME TypeOK, WorkNamesRows, OwnersInv, BooksInv, NEW j \in JobIds, ReleaseRemove(j),
           jobs' = [jobs EXCEPT ![j] = FreeJob]
    PROVE  OwnersInv' /\ BooksInv'
<1> DEFINE r == jobs[j].row
<1>1. /\ jobs \in [JobIds -> Job] /\ status \in [Rows -> RowStatuses] /\ r \in Rows
      /\ AtWork(j) /\ jobs[j].pc = "remove"
  BY DEF TypeOK, WorkNamesRows, ReleaseRemove, AtWork
<1>2. jobs[j].kind = "release" /\ twilioSid[r] \notin rented /\ status[r] = "releasing"
  <2>1. JobKnowsSid(j) /\ JobWaits(j) BY DEF BooksInv, OwnersInv
  <2>2. QED BY <1>1, <2>1 DEF JobKnowsSid, JobWaits
<1>3. status' = [status EXCEPT ![r] = "gone"] /\ UNCHANGED <<twilioSid, e164, twilioVars, req>>
  BY <1>2 DEF ReleaseRemove, CompareAndSetStatus
<1>4. status'[r] = "gone" /\ \A q \in Rows \ {r} : status'[q] = status[q] BY <1>1, <1>3
<1>5. jobs'[j].pc = "free" /\ \A i \in JobIds \ {j} : jobs'[i] = jobs[i] BY <1>1 DEF FreeJob
<1>6. OwnersInv' BY <1>1, <1>3, <1>4, JobGoesOn DEF FreeJob
<1>7. RentedOnce' BY <1>3, <1>4 DEF BooksInv, RentedOnce, twilioVars
<1>8. NoOrphanRental'
  BY <1>1, <1>2, <1>3, <1>4, <1>5 DEF BooksInv, NoOrphanRental, Exists, twilioVars
<1>9. ASSUME NEW q \in Rows PROVE RowKnowsSid(q)'
  <2>1. RowKnowsSid(q) BY DEF BooksInv
  <2>2. CASE q = r BY <1>3, <1>4, <2>1, <2>2 DEF RowKnowsSid, twilioVars
  <2>3. CASE q # r BY <1>1, <1>3, <1>4, <1>5, <2>1, <2>3 DEF RowKnowsSid, twilioVars
  <2>4. QED BY <2>2, <2>3
<1>10. ASSUME NEW i \in JobIds PROVE JobKnowsSid(i)'
  <2>1. JobKnowsSid(i) BY DEF BooksInv
  <2>2. CASE i = j BY <1>5, <2>2 DEF JobKnowsSid
  <2>3. CASE i # j BY <1>3, <1>5, <2>1, <2>3 DEF JobKnowsSid, twilioVars
  <2>4. QED BY <2>2, <2>3
<1>11. QED BY <1>6, <1>7, <1>8, <1>9, <1>10 DEF BooksInv

(* Every step of a job keeps the books, if workers finish what they begin  *)
(* and Twilio answers.                                                     *)
LEMMA JobBooks ==
    ASSUME TypeOK, WorkNamesRows, OwnersInv, BooksInv, Faults \subseteq {"undoFails"},
           NEW j \in JobIds, JobStep(j) \/ WorkerCrash(j) \/ JobExpires(j)
    PROVE  OwnersInv' /\ BooksInv'
<1> DEFINE Goal == OwnersInv' /\ BooksInv'
           r == jobs[j].row
<1> USE DEF rowVars
<1>1. /\ jobs \in [JobIds -> Job] /\ jobs[j] \in Job /\ status \in [Rows -> RowStatuses]
  BY DEF TypeOK
<1>2. AtWork(j) /\ r \in Rows BY JobStepKeepsRow DEF AtWork, WorkNamesRows
<1>3. ASSUME UNCHANGED <<status, e164>> PROVE RowsLiveOn BY <1>3 DEF RowsLiveOn, Exists
<1>4. ASSUME NEW y, jobs' = [jobs EXCEPT ![j] = y], jobs[j].pc \notin {"record", "remove"},
             y.pc # "record",
             y.pc = "remove" => y.kind = "release" /\ twilioSid[y.row] = Nil,
             y.pc = "call" /\ y.kind = "release" => y.sid = twilioSid[y.row]
      PROVE  \A i \in JobIds : JobStandsBy(i)
  <2>1. jobs'[j] = y /\ \A i \in JobIds \ {j} : jobs'[i] = jobs[i] BY <1>1, <1>4
  <2>2. QED BY <1>4, <2>1 DEF JobStandsBy
<1>5. ASSUME NEW y, jobs' = [jobs EXCEPT ![j] = y],
             UNCHANGED <<status, twilioSid, e164, twilioVars, req>>,
             jobs[j].pc \notin {"record", "remove"}, y.pc # "record",
             y.pc = "free" \/ (y.row = r /\ y.kind = jobs[j].kind),
             y.pc = "remove" => y.kind = "release" /\ twilioSid[y.row] = Nil,
             y.pc = "call" /\ y.kind = "release" => y.sid = twilioSid[y.row]
      PROVE  Goal
  <2>1. OwnersInv' BY <1>2, <1>5, JobGoesOn
  <2>2. QED BY <1>3, <1>4, <1>5, <2>1, BooksKept
<1>6. ASSUME Settled(j) PROVE jobs' = [jobs EXCEPT ![j] = FreeJob] BY <1>6 DEF Settled
<1>7. ASSUME Settled(j), UNCHANGED <<status, twilioSid, e164, twilioVars, req>>,
             jobs[j].pc \notin {"record", "remove"}
      PROVE  Goal
  BY <1>5, <1>6, <1>7 DEF FreeJob
<1>8. ASSUME NEW pc, GoTo(j, pc), UNCHANGED <<status, twilioSid, e164, twilioVars, req>>,
             jobs[j].pc \notin {"record", "remove"}, pc # "record",
             pc = "remove" => jobs[j].kind = "release" /\ twilioSid[r] = Nil,
             pc = "call" => jobs[j].kind = "provision"
      PROVE  Goal
  <2> DEFINE y == [jobs[j] EXCEPT !.pc = pc]
  <2>1. jobs' = [jobs EXCEPT ![j] = y] BY <1>1, <1>8 DEF GoTo
  <2>2. y.pc = pc /\ y.row = r /\ y.kind = jobs[j].kind BY <1>1 DEF Job
  <2> HIDE DEF y
  <2>3. QED BY <1>5, <1>8, <2>1, <2>2
<1>9. ASSUME Redelivered(j), UNCHANGED <<status, twilioSid, e164, twilioVars, req>>,
             jobs[j].pc \notin {"record", "remove"}
      PROVE  Goal
  <2> DEFINE again == [jobs[j] EXCEPT !.pc = "queued", !.retry = @ + 1, !.sid = Nil]
  <2>1. \/ jobs' = [jobs EXCEPT ![j] = again]
        \/ jobs' = [jobs EXCEPT ![j] = FreeJob]
    BY <1>9 DEF Redelivered
  <2>2. again.pc = "queued" /\ again.row = r /\ again.kind = jobs[j].kind BY <1>1 DEF Job
  <2>3. FreeJob.pc = "free" BY DEF FreeJob
  <2> HIDE DEF again
  <2>4. CASE jobs' = [jobs EXCEPT ![j] = again] BY <1>5, <1>9, <2>2, <2>4
  <2>5. CASE jobs' = [jobs EXCEPT ![j] = FreeJob] BY <1>5, <1>9, <2>3, <2>5
  <2>6. QED BY <2>1, <2>4, <2>5
<1>10. CASE ProvisionPick(j) BY <1>7, <1>8, <1>10 DEF ProvisionPick
<1>11. CASE ProvisionCall(j)
  <2>1. PICK x \in Sids : jobs' = [jobs EXCEPT ![j].pc = "record", ![j].sid = x]
    BY <1>11 DEF ProvisionCall
  <2> DEFINE y == [jobs[j] EXCEPT !.pc = "record", !.sid = x]
  <2>2. jobs' = [jobs EXCEPT ![j] = y] BY <1>1, <2>1
  <2>3. y.row = r /\ y.kind = jobs[j].kind BY <1>1 DEF Job
  <2> HIDE DEF y
  <2>4. OwnersInv' BY <1>2, <1>11, <2>2, <2>3, JobGoesOn DEF ProvisionCall
  <2>5. QED BY <1>11, <2>4, PurchaseBooks
<1>12. CASE ProvisionCallFails(j) \/ ReleaseCallFails(j)
  <2>1. /\ TransientOrRejected(j) /\ jobs[j].pc = "call"
        /\ UNCHANGED <<status, twilioSid, e164, twilioVars, req>>
    BY <1>12 DEF ProvisionCallFails, ReleaseCallFails, twilioVars
  <2>2. QED BY <1>8, <1>9, <2>1 DEF TransientOrRejected
<1>13. CASE ProvisionGiveUp(j) \/ ReleaseGiveUp(j)
  <2>1. /\ Settled(j) /\ jobs[j].pc = "giveUp" /\ JobWaits(j)
        /\ UNCHANGED <<twilioSid, e164, twilioVars, req>>
        /\ \/ jobs[j].kind = "provision" /\ CompareAndSetStatus(r, "searching", "failed")
           \/ jobs[j].kind = "release" /\ CompareAndSetStatus(r, "releasing", "active")
    BY <1>13 DEF ProvisionGiveUp, ReleaseGiveUp, OwnersInv
  <2>2. /\ \A q \in Rows \ {r} : status'[q] = status[q]
        /\ status'[r] \in {status[r], "failed", "active"} /\ status[r] \in {"searching", "releasing"}
    BY <1>1, <1>2, <2>1 DEF CompareAndSetStatus, JobWaits
  <2>3. OwnersInv' BY ZenonT(40), <1>2, <1>6, <2>1, <2>2, JobGoesOn DEF FreeJob
  <2>4. RowsLiveOn BY <1>2, <2>1, <2>2 DEF RowsLiveOn, Exists, Statuses
  <2>5. \A i \in JobIds : JobStandsBy(i) BY <1>4, <1>6, <2>1 DEF FreeJob
  <2>6. QED BY <2>1, <2>3, <2>4, <2>5, BooksKept
<1>14. CASE ProvisionRecord(j) BY <1>6, <1>14, RecordBooks DEF ProvisionRecord
<1>15. CASE ReleasePick(j)
  <2>1. ASSUME jobs' = [jobs EXCEPT ![j].pc = "call", ![j].sid = twilioSid[r]] PROVE Goal
    <3> DEFINE y == [jobs[j] EXCEPT !.pc = "call", !.sid = twilioSid[r]]
    <3>1. jobs' = [jobs EXCEPT ![j] = y] BY <1>1, <2>1
    <3>2. y.pc = "call" /\ y.row = r /\ y.kind = jobs[j].kind /\ y.sid = twilioSid[r]
      BY <1>1 DEF Job
    <3> HIDE DEF y
    <3>3. QED BY <1>5, <1>15, <3>1, <3>2 DEF ReleasePick
  <2>2. QED BY <1>7, <1>8, <1>15, <2>1 DEF ReleasePick
<1>16. CASE ReleaseCall(j)
  <2> DEFINE y == [jobs[j] EXCEPT !.pc = "remove"]
  <2>1. jobs' = [jobs EXCEPT ![j] = y] BY <1>1, <1>16 DEF ReleaseCall, GoTo
  <2>2. y.row = r /\ y.kind = jobs[j].kind BY <1>1 DEF Job
  <2> HIDE DEF y
  <2>3. OwnersInv' BY <1>2, <1>16, <2>1, <2>2, JobGoesOn DEF ReleaseCall
  <2>4. QED BY <1>16, <2>3, GiveBackBooks
<1>17. CASE ReleaseRemove(j) BY <1>6, <1>17, RemoveBooks DEF ReleaseRemove
<1>18. CASE WorkerCrash(j) \/ JobExpires(j) BY <1>18 DEF WorkerCrash, JobExpires
<1>19. QED
  BY <1>10, <1>11, <1>12, <1>13, <1>14, <1>15, <1>16, <1>17, <1>18 DEF JobStep

(* The rows that are active, each with its SID, are rented then, and no    *)
(* two of them are one number.                                             *)
LEMMA BooksFollow ==
    ASSUME WorkNamesRows, ActiveHasSid, OwnersInv, BooksInv PROVE BooksAgree
<1>1. ASSUME NEW r \in Rows, status[r] = "active"
      PROVE  twilioSid[r] \in rented /\ boughtFor[twilioSid[r]] = r
  <2>1. RowKnowsSid(r) /\ twilioSid[r] # Nil BY <1>1 DEF BooksInv, ActiveHasSid
  <2>2. ASSUME NEW j \in JobIds, jobs[j].pc = "remove", jobs[j].row = r PROVE FALSE
    BY <1>1, <2>2 DEF BooksInv, JobKnowsSid, OwnersInv, JobWaits, AtWork
  <2>3. QED BY <1>1, <2>1, <2>2 DEF RowKnowsSid
<1>2. ActiveIsRented BY <1>1 DEF ActiveIsRented
<1>3. OneActiveRowPerNumber BY <1>1 DEF OneActiveRowPerNumber, BooksInv, RentedOnce
<1>4. QED BY <1>2, <1>3 DEF BooksAgree, BooksInv

(* Every step keeps who owns which row, and the books.                     *)
LEMMA BooksStep ==
    ASSUME TypeOK, WorkNamesRows, OwnersInv, BooksInv, Faults \subseteq {"undoFails"}, [Next]_vars
    PROVE  OwnersInv' /\ BooksInv'
<1>1. CASE UNCHANGED vars
  <2>1. OwnersInv'
    BY <1>1 DEF vars, rowVars, OwnersInv, OneAtATime, RouteWaits, JobWaits, HandsOver, AtWork
  <2>2. RowsLiveOn /\ \A j \in JobIds : JobStandsBy(j)
    BY <1>1 DEF vars, rowVars, RowsLiveOn, JobStandsBy, Exists
  <2>3. QED BY <1>1, <2>1, <2>2, BooksKept DEF vars, rowVars
<1>2. QED BY <1>1, SessionBooks, JobBooks DEF Next

(* Nothing is rented and nobody is at work to begin with.                  *)
LEMMA BooksInit == Init => OwnersInv /\ BooksInv
BY DEF Init, OwnersInv, OneAtATime, RouteWaits, JobWaits, HandsOver, AtWork, BooksInv,
   RentedOnce, NoOrphanRental, RowKnowsSid, JobKnowsSid, IdleRequest, FreeJob

(* Twilio bills the organisation for nothing that no row and no job knows, *)
(* an active row is a number it rents, and no two are one: what the two    *)
(* jobs (jobs/provisionNumber.ts, jobs/releaseNumber.ts) and the routes'   *)
(* compare-and-sets achieve, even if a route fails to undo what it began.  *)
THEOREM BooksStand ==
    ASSUME Faults \subseteq {"undoFails"}
    PROVE  Spec => []BooksAgree
<1>1. TypeOK /\ WorkNamesRows /\ OwnersInv /\ BooksInv /\ [Next]_vars => (OwnersInv /\ BooksInv)'
  BY BooksStep
<1>2. WorkNamesRows /\ ActiveHasSid /\ OwnersInv /\ BooksInv => BooksAgree BY BooksFollow
<1>3. QED BY <1>1, <1>2, BooksInit, TypeCorrect, ActiveRowsHaveSid, PTL DEF Spec

(* Nothing but a release call gives a number back, and its row says so.    *)
LEMMA KeptStep ==
    ASSUME TypeOK, WorkNamesRows, OwnersInv, BooksInv, Faults \subseteq {"undoFails"}, [Next]_vars,
           NEW r \in Rows, twilioSid[r] \in rented, twilioSid[r] \notin rented'
    PROVE  status[r] = "releasing"
<1>1. ASSUME NEW s \in Sessions, NewRequest(s) \/ SessionStep(s) \/ ServerCrash(s)
      PROVE  rented' = rented
  BY <1>1 DEF NewRequest, BuyCheck, ActivateFind, AssignFind, ReleaseStart, SessionStep, BuyCreate,
     BuyEnqueue, BuyUndo, ActivateSnapshot, ActivateClear, ActivateSet, AssignSet, ReleaseSnapshot,
     ReleaseLock, ReleaseRead, ReleaseCas, ReleaseEnqueue, ReleaseUndo, TxnRollback, ServerCrash,
     twilioVars
<1>2. ASSUME NEW j \in JobIds, JobStep(j) \/ WorkerCrash(j) \/ JobExpires(j), ~ReleaseCall(j)
      PROVE  rented \subseteq rented'
  BY <1>2 DEF JobStep, ProvisionPick, ProvisionCall, ProvisionCallFails, ProvisionGiveUp,
     ProvisionRecord, ReleasePick, ReleaseCallFails, ReleaseGiveUp, ReleaseRemove, WorkerCrash,
     JobExpires, Sell, twilioVars
<1>3. PICK j \in JobIds : ReleaseCall(j) BY <1>1, <1>2 DEF Next, vars, twilioVars
<1>4. /\ AtWork(j) /\ jobs[j].kind = "release" /\ twilioSid[r] = jobs[j].sid
      /\ twilioSid[jobs[j].row] = jobs[j].sid /\ jobs[j].row \in Rows
  BY <1>3 DEF ReleaseCall, AtWork, BooksInv, JobKnowsSid, WorkNamesRows
<1>5. twilioSid[r] # Nil BY ConstantsAssumption DEF TypeOK
<1>6. r = jobs[j].row BY <1>4, <1>5 DEF BooksInv, RowKnowsSid
<1>7. QED BY <1>4, <1>6 DEF OwnersInv, JobWaits

(* Twilio is asked to take back a number only while its row says that the  *)
(* organisation gives it up (jobs/releaseNumber.ts).                       *)
THEOREM KeptNumbersStay ==
    ASSUME Faults \subseteq {"undoFails"}
    PROVE  Spec => KeptNumberIsNotReleased
<1> DEFINE Kept == \A r \in Rows : twilioSid[r] \in rented /\ twilioSid[r] \notin rented'
                                    => status[r] = "releasing"
<1>1. TypeOK /\ WorkNamesRows /\ OwnersInv /\ BooksInv /\ [Next]_vars => (OwnersInv /\ BooksInv)'
  BY BooksStep
<1>2. TypeOK /\ WorkNamesRows /\ OwnersInv /\ BooksInv /\ [Next]_vars => [Kept]_vars BY KeptStep
<1>3. QED BY <1>1, <1>2, BooksInit, TypeCorrect, PTL DEF Spec, KeptNumberIsNotReleased
=============================================================================
