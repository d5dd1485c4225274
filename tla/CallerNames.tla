----------------------------- MODULE CallerNames -----------------------------
(* The name a carrier shows for one rented number: the rep who asks for it *)
(* (PATCH /phone-numbers/:id/caller-name), the job that registers it with  *)
(* the carrier and polls the carrier's decision, and the other routes that *)
(* give the number to somebody else meanwhile. Every write of the job is a *)
(* compare-and-set on the request it has read.                             *)
(*                                                                         *)
(* The carrier is external: dependencies/callerNameRegistration.ts is a    *)
(* contract of four answers, and the adapter behind it today has only one  *)
(* of them, "unsupported". The job is written, and modelled, for all four. *)
(***************************************************************************)
EXTENDS Naturals, Sequences

CONSTANTS
    Null,
    Owners,              \* the reps who may own the number
    CallerNames,         \* the names they ask for
    Patches,             \* concurrent PATCH requests; one each, a bound
    NameWorkers,         \* workers of the queue
    NameRetryLimit,      \* CALLER_NAME_RETRY_LIMIT
    MaxRegistrations,    \* what the carrier registers, a bound
    MaxNameJobs,         \* jobs that are queued at once, a bound on "expire"
    NameKindSets         \* what may happen in one behaviour

(* "ask": reps ask for names. "reassign": the number changes hands.        *)
(* "carrierFails": a call of the carrier throws, maybe after it was        *)
(* served. "storeFails", "sendFails": the record of its answer, an enqueue *)
(* throws. "crash", "expire": a worker dies, or is taken for dead.         *)
NameKinds == {"ask", "reassign", "carrierFails", "storeFails", "sendFails", "crash", "expire"}

VARIABLES
    nameKinds,           \* what happens in this behaviour; never changes
    owner,               \* assignedUserId
    chosen,              \* isActiveForOutbound, of a number that stays rented
    requested,           \* isCallerNameRequested
    callerName,
    nameStatus,          \* callerNameStatus
    requestId,           \* callerNameRequestId: an index of registrations, 0: null
    registrations,       \* the carrier's: a sequence of names and verdicts
    patch,               \* request -> what it is in the middle of
    nameJobs,            \* retry count -> jobs queued with it
    registering          \* worker -> the job it is in the middle of

numberOf == <<owner, chosen>>
nameRow == <<requested, callerName, nameStatus, requestId>>
nameVars == <<nameKinds, numberOf, nameRow, registrations, patch, nameJobs, registering>>

NameStatuses == {"not_requested", "pending", "active", "failed", "unsupported"}
Verdicts == {"pending", "active", "failed"}
Registration == [name : CallerNames, verdict : Verdicts]
Ids == 0..MaxRegistrations
Retries == 0..NameRetryLimit

Patch == [pc : {"idle", "write", "queue", "over"}, by : Owners \cup {Null},
          name : CallerNames \cup {Null}]
NewPatch == [pc |-> "idle", by |-> Null, name |-> Null]
Answered == [NewPatch EXCEPT !.pc = "over"]
Attempt == [pc : {"idle", "refuse", "carrier", "record", "chain", "giveUp"},
            retry : Retries, name : CallerNames \cup {Null}, id : Ids,
            kind : NameStatuses, newId : Ids]
NoAttempt == [pc |-> "idle", retry |-> 0, name |-> Null, id |-> 0,
              kind |-> "not_requested", newId |-> 0]

NamesInit ==
    /\ nameKinds \in NameKindSets
    /\ owner = (CHOOSE p \in Owners : TRUE) /\ chosen = TRUE
    /\ requested = FALSE /\ callerName = Null
    /\ nameStatus = "not_requested" /\ requestId = 0
    /\ registrations = <<>>
    /\ patch = [r \in Patches |-> NewPatch]
    /\ nameJobs = [k \in Retries |-> 0]
    /\ registering = [w \in NameWorkers |-> NoAttempt]

Queue(k) == nameJobs' = [nameJobs EXCEPT ![k] = @ + 1]
Answers(r, step) == patch' = [patch EXCEPT ![r] = step]
Works(w, attempt) == registering' = [registering EXCEPT ![w] = attempt]

(* pendingRequestWhere: the row still is the request of the attempt.       *)
StillPending(w) ==
    /\ nameStatus = "pending" /\ requested
    /\ callerName = registering[w].name /\ requestId = registering[w].id

-----------------------------------------------------------------------------
(* The number, and the route.                                              *)

(* PATCH assignment hands the number over, and its caller-ID choice with   *)
(* it; the owner chooses it again, or another number.                      *)
Reassign(p) ==
    /\ "reassign" \in nameKinds /\ p \in (Owners \cup {Null}) \ {owner}
    /\ owner' = p
    /\ chosen' = FALSE
    /\ UNCHANGED <<nameKinds, nameRow, registrations, patch, nameJobs, registering>>

Choose ==
    /\ "reassign" \in nameKinds /\ owner # Null
    /\ chosen' = ~chosen
    /\ UNCHANGED <<nameKinds, owner, nameRow, registrations, patch, nameJobs, registering>>

(* A name, or Null: not any more. A number that is not the rep's outbound   *)
(* one is refused; the name that is already with the carrier is polled.    *)
PatchRead(r, p, n) ==
    /\ "ask" \in nameKinds /\ patch[r].pc = "idle" /\ owner = p
    /\ n # Null => chosen
    /\ LET known == n # Null /\ requested /\ nameStatus = "pending" /\ requestId # 0
                    /\ callerName = n IN
       Answers(r, IF known THEN [NewPatch EXCEPT !.pc = "queue"]
                  ELSE [pc |-> "write", by |-> p, name |-> n])
    /\ UNCHANGED <<nameKinds, numberOf, nameRow, registrations, nameJobs, registering>>

PatchWrite(r) ==
    LET step == patch[r] IN
    /\ step.pc = "write"
    /\ IF owner # step.by
       THEN Answers(r, Answered) /\ UNCHANGED nameRow
       ELSE /\ requested' = (step.name # Null)
            /\ callerName' = IF step.name = Null THEN callerName ELSE step.name
            /\ nameStatus' = IF step.name = Null THEN "not_requested" ELSE "pending"
            /\ requestId' = 0
            /\ Answers(r, IF step.name = Null THEN Answered ELSE [NewPatch EXCEPT !.pc = "queue"])
    /\ UNCHANGED <<nameKinds, numberOf, registrations, nameJobs, registering>>

PatchQueue(r) ==
    /\ patch[r].pc = "queue"
    /\ \/ Queue(0)
       \/ "sendFails" \in nameKinds /\ UNCHANGED nameJobs
    /\ Answers(r, Answered)
    /\ UNCHANGED <<nameKinds, numberOf, nameRow, registrations, registering>>

-----------------------------------------------------------------------------
(* reconcileCallerNameJob.                                                 *)

NamePick(w, k) ==
    /\ registering[w].pc = "idle" /\ nameJobs[k] > 0
    /\ nameJobs' = [nameJobs EXCEPT ![k] = @ - 1]
    /\ IF nameStatus # "pending" \/ ~requested
       THEN UNCHANGED registering
       ELSE Works(w, [NoAttempt EXCEPT
               !.pc = IF owner # Null /\ chosen /\ callerName # Null THEN "carrier" ELSE "refuse",
               !.retry = k, !.name = callerName, !.id = requestId])
    /\ UNCHANGED <<nameKinds, numberOf, nameRow, registrations, patch>>

(* The write of a refusal, and of the last attempt that failed.            *)
MarksFailed(w) ==
    /\ IF StillPending(w) THEN nameStatus' = "failed" ELSE UNCHANGED nameStatus
    /\ Works(w, NoAttempt)
    /\ UNCHANGED <<nameKinds, numberOf, requested, callerName, requestId, registrations,
                   patch, nameJobs>>

NameRefuse(w) == registering[w].pc = "refuse" /\ MarksFailed(w)
NameGiveUp(w) == registering[w].pc = "giveUp" /\ MarksFailed(w)

(* submitCallerNameRegistration or reconcileCallerNameRegistration.        *)
CarrierAnswers(w) ==
    LET a == registering[w]
        Says(kind, id) == Works(w, [a EXCEPT !.pc = "record", !.kind = kind, !.newId = id]) IN
    /\ a.pc = "carrier"
    /\ \/ a.id # 0 /\ Says(registrations[a.id].verdict, a.id) /\ UNCHANGED registrations
       \/ /\ a.id = 0 /\ Len(registrations) < MaxRegistrations
          /\ \E verdict \in {"pending", "active"} :
                /\ registrations' = Append(registrations, [name |-> a.name, verdict |-> verdict])
                /\ Says(verdict, Len(registrations) + 1)
       \/ \E kind \in {"failed", "unsupported"} :
                a.id = 0 /\ Says(kind, 0) /\ UNCHANGED registrations
    /\ UNCHANGED <<nameKinds, numberOf, nameRow, patch, nameJobs>>

(* The catch block: thrown on while the budget lasts.                      *)
Thrown(w) ==
    LET a == registering[w] IN
    IF a.retry < NameRetryLimit
    THEN Queue(a.retry + 1) /\ Works(w, NoAttempt)
    ELSE Works(w, [a EXCEPT !.pc = "giveUp"]) /\ UNCHANGED nameJobs

(* Mutant: the last failure is thrown like the ones before it.             *)
CarrierFailsForgotten(w) ==
    LET a == registering[w] IN
    /\ a.pc = "carrier" /\ "carrierFails" \in nameKinds
    /\ IF a.retry < NameRetryLimit THEN Queue(a.retry + 1) ELSE UNCHANGED nameJobs
    /\ Works(w, NoAttempt)
    /\ UNCHANGED <<nameKinds, numberOf, nameRow, registrations, patch>>

CarrierFails(w) ==
    LET a == registering[w] IN
    /\ a.pc = "carrier" /\ "carrierFails" \in nameKinds
    /\ \/ UNCHANGED registrations
       \/ /\ a.id = 0 /\ Len(registrations) < MaxRegistrations
          /\ registrations' = Append(registrations, [name |-> a.name, verdict |-> "pending"])
    /\ Thrown(w)
    /\ UNCHANGED <<nameKinds, numberOf, nameRow, patch>>

(* Mutant: the record looks for the row alone, not for the request.        *)
NameRecordUnchecked(w) ==
    LET a == registering[w] IN
    /\ a.pc = "record"
    /\ nameStatus' = a.kind
    /\ requestId' = IF a.kind = "pending" THEN a.newId ELSE requestId
    /\ Works(w, IF a.kind = "pending" THEN [a EXCEPT !.pc = "chain"] ELSE NoAttempt)
    /\ UNCHANGED <<nameKinds, numberOf, requested, callerName, registrations, patch, nameJobs>>

(* recordOutcome; what is not settled is polled, even if it was not        *)
(* recorded.                                                               *)
NameRecord(w) ==
    LET a == registering[w] IN
    /\ a.pc = "record"
    /\ \/ /\ IF StillPending(w)
             THEN /\ nameStatus' = a.kind
                  /\ requestId' = IF a.kind = "pending" THEN a.newId ELSE requestId
             ELSE UNCHANGED <<nameStatus, requestId>>
          /\ Works(w, IF a.kind = "pending" THEN [a EXCEPT !.pc = "chain"] ELSE NoAttempt)
          /\ UNCHANGED nameJobs
       \/ "storeFails" \in nameKinds /\ Thrown(w) /\ UNCHANGED <<nameStatus, requestId>>
    /\ UNCHANGED <<nameKinds, numberOf, requested, callerName, registrations, patch>>

(* sendJobAfter: five minutes later, with a budget of its own.             *)
NameChain(w) ==
    /\ registering[w].pc = "chain"
    /\ \/ Queue(0) /\ Works(w, NoAttempt)
       \/ "sendFails" \in nameKinds /\ Thrown(w)
    /\ UNCHANGED <<nameKinds, numberOf, nameRow, registrations, patch>>

-----------------------------------------------------------------------------
CarrierDecides ==
    /\ \E i \in DOMAIN registrations, verdict \in {"active", "failed"} :
          /\ registrations[i].verdict = "pending"
          /\ registrations' = [registrations EXCEPT ![i].verdict = verdict]
    /\ UNCHANGED <<nameKinds, numberOf, nameRow, patch, nameJobs, registering>>

(* The queue gives a job whose worker died, or seems to have, to another   *)
(* one, while its budget lasts.                                            *)
NameRedeliver(w) ==
    LET a == registering[w] IN
    /\ a.pc # "idle"
    /\ \/ /\ "crash" \in nameKinds
          /\ Works(w, NoAttempt)
          /\ IF a.retry < NameRetryLimit THEN Queue(a.retry + 1) ELSE UNCHANGED nameJobs
       \/ /\ "expire" \in nameKinds /\ a.retry < NameRetryLimit
          /\ \A k \in Retries : nameJobs[k] < MaxNameJobs
          /\ Queue(a.retry + 1) /\ UNCHANGED registering
    /\ UNCHANGED <<nameKinds, numberOf, nameRow, registrations, patch>>

NameStep(w) ==
    \/ \E k \in Retries : NamePick(w, k)
    \/ NameRefuse(w) \/ NameGiveUp(w) \/ CarrierAnswers(w) \/ CarrierFails(w)
    \/ NameRecord(w) \/ NameChain(w)

PatchStep(r) == PatchWrite(r) \/ PatchQueue(r)

NameNext ==
    \/ \E p \in Owners \cup {Null} : Reassign(p)
    \/ Choose
    \/ \E r \in Patches, p \in Owners, n \in CallerNames \cup {Null} : PatchRead(r, p, n)
    \/ \E r \in Patches : PatchStep(r)
    \/ \E w \in NameWorkers : NameStep(w) \/ NameRedeliver(w)
    \/ CarrierDecides

NamesSpec == NamesInit /\ [][NameNext]_nameVars

(* Workers and requests go on, and the carrier decides in the end.         *)
NameFairness ==
    /\ \A w \in NameWorkers : WF_nameVars(NameStep(w))
    /\ \A r \in Patches : WF_nameVars(PatchStep(r))
    /\ WF_nameVars(CarrierDecides)

-----------------------------------------------------------------------------
(* Every variable has its type.                                            *)
NamesTypeOK ==
    /\ nameKinds \in NameKindSets /\ nameKinds \subseteq NameKinds
    /\ owner \in Owners \cup {Null} /\ chosen \in BOOLEAN
    /\ requested \in BOOLEAN /\ callerName \in CallerNames \cup {Null}
    /\ nameStatus \in NameStatuses /\ requestId \in Ids
    /\ registrations \in Seq(Registration)
    /\ patch \in [Patches -> Patch]
    /\ nameJobs \in [Retries -> Nat]
    /\ registering \in [NameWorkers -> Attempt]

(* reconcileCallerName.ts: an older job cannot overwrite newer             *)
(* preferences: what is shown as registered is registered, the request the *)
(* row polls is for the name it shows, and an opt-out stands.              *)
ShownIsRegistered ==
    /\ nameStatus = "active" =>
          \E i \in DOMAIN registrations :
              registrations[i] = [name |-> callerName, verdict |-> "active"]
    /\ requestId # 0 => registrations[requestId].name = callerName
    /\ ~requested => nameStatus = "not_requested"

(* A name that is asked for is decided in the end, or taken back.          *)
NamesSettle == nameStatus = "pending" ~> nameStatus # "pending"

(* What the behaviours need of the constants: somebody who owns the number *)
(* at the start, and bounds that are numbers.                              *)
NameConstants ==
    /\ Owners # {} /\ NameRetryLimit \in Nat /\ MaxRegistrations \in Nat
    /\ NameKindSets \subseteq SUBSET NameKinds

(* What the repository says and the code does not keep.                    *)

(* callerNameRegistration.ts: jobs can run repeatedly without creating a   *)
(* second carrier registration.                                            *)
OneRegistrationPerName ==
    \A i, j \in DOMAIN registrations :
        registrations[i].name = registrations[j].name => i = j
=============================================================================
