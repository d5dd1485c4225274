-------------------------- MODULE CallServicesProofs --------------------------
(* What the services around a call promise. To the callee: that the name   *)
(* which is shown for a number is registered for it, and that callers hear *)
(* one greeting. To the rep: that one whose microphone is on a line is     *)
(* shown the call, and that the drops there are to leave can be played.    *)
(* And that this, and what is promised of the mail, holds of all of them   *)
(* together.                                                               *)
EXTENDS Services, MailProofs, FiniteSetTheorems, SequenceTheorems, TLAPS

(***************************************************************************)
(* The name of a number.                                                   *)
(***************************************************************************)

(* What an attempt goes by: the registration it polls is one of its name,  *)
(* and so is the answer it is about to record.                             *)
AttemptKnows(a) ==
    /\ a.id # 0 => a.id \in DOMAIN registrations /\ registrations[a.id].name = a.name
    /\ a.pc = "carrier" => a.name \in CallerNames
    /\ a.pc = "record" /\ a.kind = "active" =>
          \E i \in DOMAIN registrations :
              registrations[i] = [name |-> a.name, verdict |-> "active"]
    /\ a.pc = "record" /\ a.kind = "pending" =>
          a.newId \in DOMAIN registrations /\ registrations[a.newId].name = a.name

NamesInv ==
    /\ NamesTypeOK /\ ShownIsRegistered
    /\ requestId \in {0} \cup DOMAIN registrations
    /\ Len(registrations) \in Ids
    /\ \A w \in NameWorkers : AttemptKnows(registering[w])

-----------------------------------------------------------------------------
(* The carrier forgets no registration, nor its name, nor that it is       *)
(* active.                                                                 *)
RegistrationsGrow ==
    \A i \in DOMAIN registrations :
        /\ i \in DOMAIN registrations'
        /\ registrations'[i].name = registrations[i].name
        /\ registrations[i].verdict = "active" => registrations'[i].verdict = "active"

(* It makes one more, or decides about one.                                *)
LEMMA RegistrationMade ==
    ASSUME registrations \in Seq(Registration), NEW x \in Registration,
           registrations' = Append(registrations, x)
    PROVE  /\ registrations' \in Seq(Registration) /\ RegistrationsGrow
           /\ Len(registrations') = Len(registrations) + 1
           /\ Len(registrations) + 1 \in DOMAIN registrations'
           /\ registrations'[Len(registrations) + 1] = x
BY AppendProperties DEF RegistrationsGrow

LEMMA RegistrationDecided ==
    ASSUME registrations \in Seq(Registration), NEW i \in DOMAIN registrations,
           NEW verdict \in {"active", "failed"}, registrations[i].verdict = "pending",
           registrations' = [registrations EXCEPT ![i].verdict = verdict]
    PROVE  /\ registrations' \in Seq(Registration) /\ RegistrationsGrow
           /\ Len(registrations') = Len(registrations)
<1> DEFINE x == [registrations[i] EXCEPT !.verdict = verdict]
<1>1. registrations[i] \in Registration BY ElementOfSeq
<1>2. x \in Registration /\ x.name = registrations[i].name
  BY <1>1 DEF Registration, Verdicts
<1>3. registrations' = [registrations EXCEPT ![i] = x] OBVIOUS
<1> HIDE DEF x
<1>4. QED BY <1>2, <1>3, ExceptSeq DEF RegistrationsGrow

LEMMA RegistrationsSame ==
    ASSUME UNCHANGED registrations PROVE RegistrationsGrow
BY DEF RegistrationsGrow

(* What an attempt knows stays true as the registrations grow.             *)
LEMMA KnownStays ==
    ASSUME registrations' \in Seq(Registration), RegistrationsGrow, NEW a, AttemptKnows(a)
    PROVE  AttemptKnows(a)'
<1> USE DEF AttemptKnows, RegistrationsGrow
<1>1. ASSUME NEW i \in DOMAIN registrations,
             registrations[i] = [name |-> a.name, verdict |-> "active"]
      PROVE  \E j \in DOMAIN registrations' :
                 registrations'[j] = [name |-> a.name, verdict |-> "active"]
  <2>1. i \in DOMAIN registrations' /\ registrations'[i] \in Registration
    BY ElementOfSeq
  <2>2. registrations'[i] = [name |-> a.name, verdict |-> "active"]
    BY <1>1, <2>1 DEF Registration
  <2>3. QED BY <2>1, <2>2
<1>2. QED BY <1>1

LEMMA AttemptsGoOn ==
    ASSUME NamesTypeOK, NEW w \in NameWorkers, NEW x \in Attempt, Works(w, x),
           registrations' \in Seq(Registration), RegistrationsGrow,
           \A v \in NameWorkers : AttemptKnows(registering[v]), AttemptKnows(x)'
    PROVE  /\ registering' \in [NameWorkers -> Attempt]
           /\ (\A v \in NameWorkers : AttemptKnows(registering[v]))'
<1>1. registering' \in [NameWorkers -> Attempt] BY DEF NamesTypeOK, Works
<1>2. ASSUME NEW v \in NameWorkers PROVE AttemptKnows(registering[v])'
  <2>1. CASE v = w BY <2>1, <1>1 DEF Works, NamesTypeOK, AttemptKnows
  <2>2. CASE v # w
    <3>1. registering'[v] = registering[v] BY <2>2 DEF Works, NamesTypeOK
    <3>2. QED BY <3>1, KnownStays DEF AttemptKnows
  <2>3. QED BY <2>1, <2>2
<1>3. QED BY <1>1, <1>2

LEMMA AttemptsStay ==
    ASSUME registrations' \in Seq(Registration), RegistrationsGrow, UNCHANGED registering,
           \A v \in NameWorkers : AttemptKnows(registering[v])
    PROVE  (\A v \in NameWorkers : AttemptKnows(registering[v]))'
<1>1. ASSUME NEW v \in NameWorkers PROVE AttemptKnows(registering[v])'
  BY KnownStays DEF AttemptKnows
<1>2. QED BY <1>1

(* So does what the row shows.                                             *)
LEMMA RowStands ==
    ASSUME registrations' \in Seq(Registration), RegistrationsGrow, UNCHANGED nameRow,
           ShownIsRegistered, requestId \in {0} \cup DOMAIN registrations
    PROVE  ShownIsRegistered' /\ requestId' \in {0} \cup DOMAIN registrations'
<1> USE DEF RegistrationsGrow, nameRow
<1>1. ASSUME NEW i \in DOMAIN registrations,
             registrations[i] = [name |-> callerName, verdict |-> "active"]
      PROVE  \E j \in DOMAIN registrations' :
                 registrations'[j] = [name |-> callerName', verdict |-> "active"]
  <2>1. i \in DOMAIN registrations' /\ registrations'[i] \in Registration
    BY ElementOfSeq
  <2>2. registrations'[i] = [name |-> callerName', verdict |-> "active"]
    BY <1>1, <2>1 DEF Registration
  <2>3. QED BY <2>1, <2>2
<1>2. QED BY <1>1 DEF ShownIsRegistered

(* An attempt that is over, and one that was thrown on.                    *)
LEMMA NoAttemptKnows ==
    ASSUME NameConstants
    PROVE  NoAttempt \in Attempt /\ AttemptKnows(NoAttempt) /\ AttemptKnows(NoAttempt)'
BY DEF NameConstants, NoAttempt, Attempt, Retries, Ids, NameStatuses, AttemptKnows

LEMMA ThrownGoesOn ==
    ASSUME NameConstants, NamesTypeOK, NEW w \in NameWorkers, Thrown(w),
           registrations' \in Seq(Registration), RegistrationsGrow,
           \A v \in NameWorkers : AttemptKnows(registering[v])
    PROVE  /\ registering' \in [NameWorkers -> Attempt] /\ nameJobs' \in [Retries -> Nat]
           /\ (\A v \in NameWorkers : AttemptKnows(registering[v]))'
<1>0. PICK a : a = registering[w] OBVIOUS
<1>1. a \in Attempt /\ AttemptKnows(a) BY <1>0 DEF NamesTypeOK, AttemptKnows
<1>2. CASE a.retry < NameRetryLimit
  <2>1. a.retry + 1 \in Retries BY <1>1, <1>2 DEF Attempt, Retries, NameConstants
  <2>2. Works(w, NoAttempt) /\ Queue(a.retry + 1) BY <1>0, <1>2 DEF Thrown
  <2>3. nameJobs' \in [Retries -> Nat] BY <2>1, <2>2 DEF Queue, NamesTypeOK
  <2>4. QED BY <2>2, <2>3, NoAttemptKnows, AttemptsGoOn
<1>3. CASE ~(a.retry < NameRetryLimit)
  <2>0. PICK x : x = [a EXCEPT !.pc = "giveUp"] OBVIOUS
  <2>1. x \in Attempt /\ x.pc = "giveUp" /\ x.id = a.id /\ x.name = a.name
    BY <1>1, <2>0 DEF Attempt
  <2>2. Works(w, x) /\ UNCHANGED nameJobs BY <1>0, <1>3, <2>0 DEF Thrown
  <2>3. AttemptKnows(a)' BY <1>1, KnownStays
  <2>4. AttemptKnows(x)' BY <2>1, <2>3 DEF AttemptKnows
  <2>5. nameJobs' \in [Retries -> Nat] BY <2>2 DEF NamesTypeOK
  <2>6. QED BY <2>1, <2>2, <2>4, <2>5, AttemptsGoOn
<1>4. QED BY <1>2, <1>3

-----------------------------------------------------------------------------
(* The number and the route.                                               *)
LEMMA RowKept ==
    ASSUME NameConstants, NamesInv,
           UNCHANGED <<nameKinds, nameRow, registrations, registering>>,
           owner' \in Owners \cup {Null}, chosen' \in BOOLEAN,
           patch' \in [Patches -> Patch], nameJobs' \in [Retries -> Nat]
    PROVE  NamesInv'
<1> USE DEF NamesInv
<1>1. NamesTypeOK' BY DEF NamesTypeOK, nameRow
<1>2. ShownIsRegistered' /\ requestId' \in {0} \cup DOMAIN registrations'
  BY RowStands, RegistrationsSame DEF NamesTypeOK
<1>3. (\A w \in NameWorkers : AttemptKnows(registering[w]))'
  BY AttemptsStay, RegistrationsSame DEF NamesTypeOK
<1>4. QED BY <1>1, <1>2, <1>3

LEMMA RouteStep ==
    ASSUME NameConstants, NamesInv,
           \/ \E p \in Owners \cup {Null} : Reassign(p)
           \/ Choose
           \/ \E r \in Patches, p \in Owners, n \in CallerNames \cup {Null} : PatchRead(r, p, n)
           \/ \E r \in Patches : PatchStep(r)
    PROVE  NamesInv'
<1>t. NamesTypeOK BY DEF NamesInv
<1> USE DEF numberOf
<1>1. ASSUME NEW p \in Owners \cup {Null}, Reassign(p) PROVE NamesInv'
  BY <1>t, <1>1, RowKept DEF Reassign, NamesTypeOK
<1>2. CASE Choose
  BY <1>t, <1>2, RowKept DEF Choose, NamesTypeOK
<1>3. ASSUME NEW r \in Patches, NEW p \in Owners, NEW n \in CallerNames \cup {Null},
             PatchRead(r, p, n)
      PROVE  NamesInv'
  <2>1. patch' \in [Patches -> Patch]
    <3>1. [NewPatch EXCEPT !.pc = "queue"] \in Patch BY DEF NewPatch, Patch
    <3>2. [pc |-> "write", by |-> p, name |-> n] \in Patch BY DEF Patch
    <3>3. QED BY <1>t, <1>3, <3>1, <3>2 DEF PatchRead, Answers, NamesTypeOK
  <2>2. QED BY <1>t, <1>3, <2>1, RowKept DEF PatchRead, NamesTypeOK
<1>4. ASSUME NEW r \in Patches, PatchQueue(r) PROVE NamesInv'
  <2>1. patch' \in [Patches -> Patch]
    <3>1. Answered \in Patch BY DEF Answered, NewPatch, Patch
    <3>2. QED BY <1>t, <1>4, <3>1 DEF PatchQueue, Answers, NamesTypeOK
  <2>2. nameJobs' \in [Retries -> Nat]
    BY <1>t, <1>4 DEF PatchQueue, Queue, NamesTypeOK, Retries, NameConstants
  <2>3. QED BY <1>t, <1>4, <2>1, <2>2, RowKept DEF PatchQueue, NamesTypeOK
<1>5. ASSUME NEW r \in Patches, PatchWrite(r) PROVE NamesInv'
  <2>1. patch[r] \in Patch BY <1>t DEF NamesTypeOK
  <2>2. patch' \in [Patches -> Patch]
    <3>1. Answered \in Patch /\ [NewPatch EXCEPT !.pc = "queue"] \in Patch
      BY DEF Answered, NewPatch, Patch
    <3>2. QED BY <1>t, <1>5, <3>1 DEF PatchWrite, Answers, NamesTypeOK
  <2>3. CASE owner # patch[r].by
    BY <1>t, <1>5, <2>2, <2>3, RowKept DEF PatchWrite, NamesTypeOK, nameRow
  <2>4. CASE owner = patch[r].by
    <3>1. /\ requested' = (patch[r].name # Null)
          /\ callerName' \in CallerNames \cup {Null}
          /\ nameStatus' = (IF patch[r].name = Null THEN "not_requested" ELSE "pending")
          /\ requestId' = 0
          /\ UNCHANGED <<nameKinds, owner, chosen, registrations, nameJobs, registering>>
      BY <1>t, <1>5, <2>1, <2>4 DEF PatchWrite, NamesTypeOK, Patch
    <3>2. NamesTypeOK'
      BY <1>t, <2>2, <3>1 DEF NamesTypeOK, NameStatuses, Ids, NameConstants
    <3>3. ShownIsRegistered' BY <3>1 DEF ShownIsRegistered
    <3>4. (\A w \in NameWorkers : AttemptKnows(registering[w]))'
      BY <1>t, <3>1, AttemptsStay, RegistrationsSame DEF NamesInv, NamesTypeOK
    <3>5. QED BY <3>1, <3>2, <3>3, <3>4 DEF NamesInv
  <2>5. QED BY <2>3, <2>4
<1>6. QED BY <1>1, <1>2, <1>3, <1>4, <1>5 DEF PatchStep

-----------------------------------------------------------------------------
(* The job: what it leaves of the row and of the number.                   *)
LEMMA JobKeepsRow ==
    ASSUME NameConstants, NamesInv, UNCHANGED <<nameKinds, numberOf, nameRow, patch>>,
           registrations' \in Seq(Registration), RegistrationsGrow,
           Len(registrations') \in Ids, nameJobs' \in [Retries -> Nat],
           registering' \in [NameWorkers -> Attempt],
           (\A w \in NameWorkers : AttemptKnows(registering[w]))'
    PROVE  NamesInv'
<1>1. NamesTypeOK' BY DEF NamesInv, NamesTypeOK, numberOf, nameRow
<1>2. ShownIsRegistered' /\ requestId' \in {0} \cup DOMAIN registrations'
  BY RowStands DEF NamesInv
<1>3. QED BY <1>1, <1>2 DEF NamesInv

LEMMA PickStep ==
    ASSUME NameConstants, NamesInv, NEW w \in NameWorkers, NEW k \in Retries, NamePick(w, k)
    PROVE  NamesInv'
<1>t. NamesTypeOK BY DEF NamesInv
<1>1. UNCHANGED <<nameKinds, numberOf, nameRow, registrations, patch>>
      /\ nameJobs' \in [Retries -> Nat]
  BY <1>t DEF NamePick, NamesTypeOK
<1>2. registrations' \in Seq(Registration) /\ RegistrationsGrow /\ Len(registrations') \in Ids
  BY <1>1, RegistrationsSame DEF NamesInv, NamesTypeOK
<1>3. CASE UNCHANGED registering
  BY <1>t, <1>1, <1>2, <1>3, AttemptsStay, JobKeepsRow DEF NamesInv, NamesTypeOK
<1>4. CASE registering' # registering
  <2>0. PICK x : x = [NoAttempt EXCEPT
               !.pc = IF owner # Null /\ chosen /\ callerName # Null THEN "carrier" ELSE "refuse",
               !.retry = k, !.name = callerName, !.id = requestId]
    OBVIOUS
  <2>1. Works(w, x) BY <1>4, <2>0 DEF NamePick
  <2>2. /\ x \in Attempt /\ x.id = requestId /\ x.name = callerName
        /\ x.pc \in {"carrier", "refuse"} /\ (x.pc = "carrier" => callerName # Null)
    BY <1>t, <2>0, NoAttemptKnows DEF NamesTypeOK, NoAttempt, Attempt, NameStatuses, Ids, NameConstants
  <2>3. AttemptKnows(x)
    BY <1>t, <2>2 DEF NamesInv, ShownIsRegistered, AttemptKnows, NamesTypeOK
  <2>4. AttemptKnows(x)' BY <1>2, <2>3, KnownStays
  <2>5. QED BY <1>t, <1>1, <1>2, <2>1, <2>2, <2>4, AttemptsGoOn, JobKeepsRow DEF NamesInv
<1>5. QED BY <1>3, <1>4

(* The carrier is asked.                                                   *)
LEMMA CarrierStep ==
    ASSUME NameConstants, NamesInv, NEW w \in NameWorkers, CarrierAnswers(w)
    PROVE  NamesInv'
<1>t. NamesTypeOK BY DEF NamesInv
<1>0. PICK a : a = registering[w] OBVIOUS
<1>a. a \in Attempt /\ a.pc = "carrier" /\ AttemptKnows(a) /\ a.name \in CallerNames
  BY <1>t, <1>0 DEF CarrierAnswers, NamesTypeOK, NamesInv, AttemptKnows
<1>f. /\ UNCHANGED <<nameKinds, numberOf, nameRow, patch>>
      /\ nameJobs' \in [Retries -> Nat]
  BY <1>t DEF CarrierAnswers, NamesTypeOK
<1>r. registrations \in Seq(Registration) BY <1>t DEF NamesTypeOK
<1>g. ASSUME NEW kind \in NameStatuses, NEW id \in Ids,
             Works(w, [a EXCEPT !.pc = "record", !.kind = kind, !.newId = id]),
             registrations' \in Seq(Registration), RegistrationsGrow,
             Len(registrations') \in Ids,
             kind = "active" => \E i \in DOMAIN registrations' :
                 registrations'[i] = [name |-> a.name, verdict |-> "active"],
             kind = "pending" => id \in DOMAIN registrations'
                                 /\ registrations'[id].name = a.name
      PROVE  NamesInv'
  <2>0. PICK x : x = [a EXCEPT !.pc = "record", !.kind = kind, !.newId = id] OBVIOUS
  <2>1. /\ x \in Attempt /\ x.id = a.id /\ x.name = a.name
        /\ x.pc = "record" /\ x.kind = kind /\ x.newId = id
    BY <1>a, <2>0 DEF Attempt
  <2>2. AttemptKnows(a)' BY <1>a, <1>g, KnownStays
  <2>3. AttemptKnows(x)' BY <1>g, <2>1, <2>2 DEF AttemptKnows
  <2>4. Works(w, x) BY <1>g, <2>0
  <2>5. QED BY <1>t, <1>f, <1>g, <2>1, <2>3, <2>4, AttemptsGoOn, JobKeepsRow DEF NamesInv
<1>1. ASSUME a.id # 0, UNCHANGED registrations,
             Works(w, [a EXCEPT !.pc = "record", !.kind = registrations[a.id].verdict,
                                !.newId = a.id])
      PROVE  NamesInv'
  <2>1. a.id \in DOMAIN registrations /\ registrations[a.id].name = a.name
    BY <1>1, <1>a DEF AttemptKnows
  <2>2. registrations[a.id] \in Registration BY <1>r, <2>1, ElementOfSeq
  <2>3. registrations[a.id].verdict \in NameStatuses
    BY <2>2 DEF Registration, Verdicts, NameStatuses
  <2>4. registrations[a.id].verdict = "active"
        => registrations[a.id] = [name |-> a.name, verdict |-> "active"]
    BY <2>1, <2>2 DEF Registration
  <2>5. a.id \in Ids BY <1>a DEF Attempt
  <2>6. registrations' \in Seq(Registration) /\ RegistrationsGrow /\ Len(registrations') \in Ids
    BY <1>1, <1>r, RegistrationsSame DEF NamesInv
  <2>7. \A i \in DOMAIN registrations : i \in DOMAIN registrations' BY <1>1
  <2>8. PICK kind : kind = registrations[a.id].verdict OBVIOUS
  <2>9. QED BY <1>1, <1>g, <2>1, <2>3, <2>4, <2>5, <2>6, <2>8
<1>2. ASSUME a.id = 0, Len(registrations) < MaxRegistrations,
             NEW verdict \in {"pending", "active"},
             registrations' = Append(registrations, [name |-> a.name, verdict |-> verdict]),
             Works(w, [a EXCEPT !.pc = "record", !.kind = verdict,
                                !.newId = Len(registrations) + 1])
      PROVE  NamesInv'
  <2>0. PICK x : x = [name |-> a.name, verdict |-> verdict] OBVIOUS
  <2>1. x \in Registration /\ x.name = a.name BY <1>a, <2>0 DEF Registration, Verdicts
  <2>2. PICK id : id = Len(registrations) + 1 OBVIOUS
  <2>3. id \in Ids BY <1>2, <1>r, <2>2 DEF Ids, NameConstants
  <2>4. /\ registrations' \in Seq(Registration) /\ RegistrationsGrow
        /\ Len(registrations') = id /\ id \in DOMAIN registrations'
        /\ registrations'[id] = x
    BY <1>2, <1>r, <2>0, <2>1, <2>2, RegistrationMade
  <2>5. QED BY <1>2, <1>g, <2>0, <2>1, <2>2, <2>3, <2>4 DEF NameStatuses
<1>3. ASSUME NEW kind \in {"failed", "unsupported"}, UNCHANGED registrations,
             Works(w, [a EXCEPT !.pc = "record", !.kind = kind, !.newId = 0])
      PROVE  NamesInv'
  <2>1. registrations' \in Seq(Registration) /\ RegistrationsGrow /\ Len(registrations') \in Ids
    BY <1>3, <1>r, RegistrationsSame DEF NamesInv
  <2>2. 0 \in Ids /\ kind \in NameStatuses /\ kind # "active" /\ kind # "pending"
    BY DEF Ids, NameConstants, NameStatuses
  <2>3. QED BY <1>3, <1>g, <2>1, <2>2
<1>4. QED BY <1>0, <1>1, <1>2, <1>3 DEF CarrierAnswers

LEMMA CarrierFailsStep ==
    ASSUME NameConstants, NamesInv, NEW w \in NameWorkers, CarrierFails(w)
    PROVE  NamesInv'
<1>t. NamesTypeOK /\ registrations \in Seq(Registration) BY DEF NamesInv, NamesTypeOK
<1>a. registering[w].name \in CallerNames
  BY DEF CarrierFails, NamesInv, AttemptKnows
<1>1. registrations' \in Seq(Registration) /\ RegistrationsGrow /\ Len(registrations') \in Ids
  <2>1. CASE UNCHANGED registrations
    BY <2>1, <1>t, RegistrationsSame DEF NamesInv
  <2>2. ASSUME Len(registrations) < MaxRegistrations,
               registrations' = Append(registrations,
                                       [name |-> registering[w].name, verdict |-> "pending"])
        PROVE  registrations' \in Seq(Registration) /\ RegistrationsGrow
               /\ Len(registrations') \in Ids
    <3>0. PICK x : x = [name |-> registering[w].name, verdict |-> "pending"] OBVIOUS
    <3>1. x \in Registration BY <1>a, <3>0 DEF Registration, Verdicts
    <3>2. /\ registrations' \in Seq(Registration) /\ RegistrationsGrow
          /\ Len(registrations') = Len(registrations) + 1
      BY <1>t, <2>2, <3>0, <3>1, RegistrationMade
    <3>3. QED BY <1>t, <2>2, <3>2 DEF Ids, NameConstants
  <2>3. QED BY <2>1, <2>2 DEF CarrierFails
<1>2. Thrown(w) /\ UNCHANGED <<nameKinds, numberOf, nameRow, patch>> BY DEF CarrierFails
<1>3. /\ registering' \in [NameWorkers -> Attempt] /\ nameJobs' \in [Retries -> Nat]
      /\ (\A v \in NameWorkers : AttemptKnows(registering[v]))'
  BY <1>t, <1>1, <1>2, ThrownGoesOn DEF NamesInv
<1>4. QED BY <1>1, <1>2, <1>3, JobKeepsRow

(* The answer is recorded on the row it was asked for, or on none.         *)
LEMMA RecordStep ==
    ASSUME NameConstants, NamesInv, NEW w \in NameWorkers, NameRecord(w)
    PROVE  NamesInv'
<1>t. NamesTypeOK /\ registrations \in Seq(Registration) BY DEF NamesInv, NamesTypeOK
<1>0. PICK a : a = registering[w] OBVIOUS
<1>a. a \in Attempt /\ a.pc = "record" /\ AttemptKnows(a)
  BY <1>t, <1>0 DEF NameRecord, NamesTypeOK, NamesInv, AttemptKnows
<1>f. UNCHANGED <<nameKinds, numberOf, requested, callerName, registrations, patch>>
  BY DEF NameRecord
<1>g. registrations' \in Seq(Registration) /\ RegistrationsGrow /\ Len(registrations') \in Ids
  BY <1>f, <1>t, RegistrationsSame DEF NamesInv
<1>k. AttemptKnows(a)' BY <1>a, <1>g, KnownStays
<1>1. ASSUME Thrown(w), UNCHANGED <<nameStatus, requestId>> PROVE NamesInv'
  <2>1. /\ registering' \in [NameWorkers -> Attempt] /\ nameJobs' \in [Retries -> Nat]
        /\ (\A v \in NameWorkers : AttemptKnows(registering[v]))'
    BY <1>t, <1>g, <1>1, ThrownGoesOn DEF NamesInv
  <2>2. QED BY <1>1, <1>f, <1>g, <2>1, JobKeepsRow DEF nameRow
<1>2. ASSUME Works(w, IF a.kind = "pending" THEN [a EXCEPT !.pc = "chain"] ELSE NoAttempt),
             UNCHANGED nameJobs
      PROVE  /\ registering' \in [NameWorkers -> Attempt] /\ nameJobs' \in [Retries -> Nat]
             /\ (\A v \in NameWorkers : AttemptKnows(registering[v]))'
  <2>1. CASE a.kind = "pending"
    <3>0. PICK x : x = [a EXCEPT !.pc = "chain"] OBVIOUS
    <3>1. x \in Attempt /\ x.pc = "chain" /\ x.id = a.id /\ x.name = a.name
      BY <1>a, <3>0 DEF Attempt
    <3>2. AttemptKnows(x)' BY <1>k, <3>1 DEF AttemptKnows
    <3>3. Works(w, x) BY <1>2, <2>1, <3>0
    <3>4. QED BY <1>t, <1>2, <1>g, <3>1, <3>2, <3>3, AttemptsGoOn DEF NamesInv, NamesTypeOK
  <2>2. CASE a.kind # "pending"
    BY <1>t, <1>2, <1>g, <2>2, NoAttemptKnows, AttemptsGoOn DEF NamesInv, NamesTypeOK
  <2>3. QED BY <2>1, <2>2
<1>3. ASSUME Works(w, IF a.kind = "pending" THEN [a EXCEPT !.pc = "chain"] ELSE NoAttempt),
             UNCHANGED nameJobs, UNCHANGED <<nameStatus, requestId>>
      PROVE  NamesInv'
  BY <1>2, <1>3, <1>f, <1>g, JobKeepsRow DEF nameRow
<1>4. ASSUME Works(w, IF a.kind = "pending" THEN [a EXCEPT !.pc = "chain"] ELSE NoAttempt),
             UNCHANGED nameJobs, StillPending(w), nameStatus' = a.kind,
             requestId' = (IF a.kind = "pending" THEN a.newId ELSE requestId)
      PROVE  NamesInv'
  <2>1. a.kind \in NameStatuses /\ a.newId \in Ids BY <1>a DEF Attempt
  <2>2. NamesTypeOK' BY <1>t, <1>2, <1>4, <1>f, <1>g, <2>1 DEF NamesTypeOK, numberOf
  <2>3. requested' /\ callerName' = a.name
    BY <1>0, <1>4, <1>f DEF StillPending
  <2>4. a.kind = "pending" => a.newId \in DOMAIN registrations
                              /\ registrations[a.newId].name = a.name
    BY <1>a DEF AttemptKnows
  <2>5. a.kind = "active" => \E i \in DOMAIN registrations :
            registrations[i] = [name |-> a.name, verdict |-> "active"]
    BY <1>a DEF AttemptKnows
  <2>6. requestId' \in {0} \cup DOMAIN registrations'
    BY <1>4, <1>f, <2>4 DEF NamesInv
  <2>7. requestId' # 0 => registrations'[requestId'].name = callerName'
    BY <1>4, <1>f, <2>3, <2>4 DEF NamesInv, ShownIsRegistered
  <2>8. ShownIsRegistered'
    BY <1>4, <1>f, <2>3, <2>5, <2>7 DEF ShownIsRegistered
  <2>9. QED BY <1>2, <1>4, <1>g, <2>2, <2>6, <2>8 DEF NamesInv
<1>5. QED BY <1>0, <1>1, <1>3, <1>4 DEF NameRecord

(* A refusal, and the last attempt that failed.                            *)
LEMMA FailedStep ==
    ASSUME NameConstants, NamesInv, NEW w \in NameWorkers, MarksFailed(w)
    PROVE  NamesInv'
<1>t. NamesTypeOK /\ registrations \in Seq(Registration) BY DEF NamesInv, NamesTypeOK
<1>f. /\ UNCHANGED <<nameKinds, numberOf, requested, callerName, requestId, registrations,
                     patch, nameJobs>>
      /\ Works(w, NoAttempt)
  BY DEF MarksFailed
<1>g. registrations' \in Seq(Registration) /\ RegistrationsGrow /\ Len(registrations') \in Ids
  BY <1>f, <1>t, RegistrationsSame DEF NamesInv
<1>1. /\ registering' \in [NameWorkers -> Attempt] /\ nameJobs' \in [Retries -> Nat]
      /\ (\A v \in NameWorkers : AttemptKnows(registering[v]))'
  BY <1>t, <1>f, <1>g, NoAttemptKnows, AttemptsGoOn DEF NamesInv, NamesTypeOK
<1>2. CASE StillPending(w)
  <2>1. nameStatus' = "failed" /\ requested' BY <1>2, <1>f DEF MarksFailed, StillPending
  <2>2. NamesTypeOK' BY <1>t, <1>1, <1>f, <2>1 DEF NamesTypeOK, NameStatuses, numberOf
  <2>3. ShownIsRegistered' BY <1>f, <2>1 DEF NamesInv, ShownIsRegistered
  <2>4. QED BY <1>1, <1>f, <1>g, <2>2, <2>3 DEF NamesInv
<1>3. CASE ~StillPending(w)
  BY <1>1, <1>3, <1>f, <1>g, JobKeepsRow DEF MarksFailed, nameRow
<1>4. QED BY <1>2, <1>3

LEMMA ChainStep ==
    ASSUME NameConstants, NamesInv, NEW w \in NameWorkers, NameChain(w) \/ NameRedeliver(w)
    PROVE  NamesInv'
<1>t. NamesTypeOK /\ registrations \in Seq(Registration) BY DEF NamesInv, NamesTypeOK
<1>a. registering[w].retry \in Retries BY <1>t DEF NamesTypeOK, Attempt
<1>f. UNCHANGED <<nameKinds, numberOf, nameRow, registrations, patch>>
  BY DEF NameChain, NameRedeliver
<1>g. registrations' \in Seq(Registration) /\ RegistrationsGrow /\ Len(registrations') \in Ids
  BY <1>f, <1>t, RegistrationsSame DEF NamesInv
<1>1. ASSUME NEW k \in Retries, Queue(k) PROVE nameJobs' \in [Retries -> Nat]
  BY <1>t, <1>1 DEF Queue, NamesTypeOK
<1>2. CASE Thrown(w)
  BY <1>2, <1>t, <1>f, <1>g, ThrownGoesOn, JobKeepsRow DEF NamesInv
<1>3. 0 \in Retries /\ (registering[w].retry < NameRetryLimit => registering[w].retry + 1 \in Retries)
  BY <1>a DEF Retries, NameConstants
<1>4. ASSUME Works(w, NoAttempt),
             Queue(0) \/ UNCHANGED nameJobs
             \/ (registering[w].retry < NameRetryLimit /\ Queue(registering[w].retry + 1))
      PROVE  NamesInv'
  <2>1. nameJobs' \in [Retries -> Nat]
    <3>1. CASE UNCHANGED nameJobs BY <3>1, <1>t DEF NamesTypeOK
    <3>2. CASE Queue(0) BY <3>2, <1>1, <1>3
    <3>3. CASE registering[w].retry < NameRetryLimit /\ Queue(registering[w].retry + 1)
      <4>1. PICK k : k = registering[w].retry + 1 OBVIOUS
      <4>2. QED BY <3>3, <4>1, <1>1, <1>3
    <3>4. QED BY <1>4, <3>1, <3>2, <3>3
  <2>2. QED BY <1>t, <1>4, <1>f, <1>g, <2>1, NoAttemptKnows, AttemptsGoOn, JobKeepsRow
        DEF NamesInv
<1>5. ASSUME registering[w].retry < NameRetryLimit, Queue(registering[w].retry + 1),
             UNCHANGED registering
      PROVE  NamesInv'
  <2>1. PICK k : k = registering[w].retry + 1 OBVIOUS
  <2>2. nameJobs' \in [Retries -> Nat] BY <1>1, <1>3, <1>5, <2>1
  <2>3. (\A v \in NameWorkers : AttemptKnows(registering[v]))'
    BY <1>5, <1>g, AttemptsStay DEF NamesInv
  <2>4. QED BY <1>5, <1>t, <1>f, <1>g, <2>2, <2>3, JobKeepsRow DEF NamesTypeOK
<1>6. QED BY <1>2, <1>4, <1>5 DEF NameChain, NameRedeliver

LEMMA DecisionStep ==
    ASSUME NameConstants, NamesInv, CarrierDecides
    PROVE  NamesInv'
<1>t. NamesTypeOK /\ registrations \in Seq(Registration) BY DEF NamesInv, NamesTypeOK
<1>1. registrations' \in Seq(Registration) /\ RegistrationsGrow /\ Len(registrations') \in Ids
  BY <1>t, RegistrationDecided DEF CarrierDecides, NamesInv
<1>2. (\A v \in NameWorkers : AttemptKnows(registering[v]))'
  BY <1>1, AttemptsStay DEF NamesInv, CarrierDecides
<1>3. QED BY <1>1, <1>2, <1>t, JobKeepsRow DEF CarrierDecides, NamesTypeOK

-----------------------------------------------------------------------------
LEMMA NamesStart ==
    ASSUME NameConstants, NamesInit PROVE NamesInv
<1> USE DEF NamesInit, NameConstants
<1>1. 0 \in Ids /\ 0 \in Retries BY DEF Ids, Retries
<1>2. NewPatch \in Patch BY DEF NewPatch, Patch
<1>3. \A w \in NameWorkers : registering[w] = NoAttempt OBVIOUS
<1>4. (CHOOSE p \in Owners : TRUE) \in Owners OBVIOUS
<1>5. registrations \in Seq(Registration) BY EmptySeq
<1>6. NamesTypeOK BY <1>1, <1>2, <1>4, <1>5, NoAttemptKnows DEF NamesTypeOK, NameStatuses
<1>7. ShownIsRegistered BY DEF ShownIsRegistered
<1>8. \A w \in NameWorkers : AttemptKnows(registering[w])
  BY <1>3, NoAttemptKnows
<1>9. Len(registrations) = 0 OBVIOUS
<1>10. QED BY <1>1, <1>6, <1>7, <1>8, <1>9 DEF NamesInv

LEMMA NamesStep ==
    ASSUME NameConstants, NamesInv, [NameNext]_nameVars PROVE NamesInv'
<1>1. CASE UNCHANGED nameVars
  BY <1>1, RowKept DEF NamesInv, NamesTypeOK, nameVars, nameRow, numberOf
<1>2. ASSUME NEW w \in NameWorkers, NameStep(w) \/ NameRedeliver(w) PROVE NamesInv'
  BY <1>2, PickStep, FailedStep, CarrierStep, CarrierFailsStep, RecordStep, ChainStep
  DEF NameStep, NameRefuse, NameGiveUp
<1>3. QED BY <1>1, <1>2, RouteStep, DecisionStep DEF NameNext

LEMMA NamesHold == NameConstants => (NamesSpec => []NamesInv)
<1> SUFFICES ASSUME NameConstants PROVE NamesSpec => []NamesInv OBVIOUS
<1>1. NamesInit => NamesInv BY NamesStart
<1>2. NamesInv /\ [NameNext]_nameVars => NamesInv' BY NamesStep
<1>3. QED BY <1>1, <1>2, PTL DEF NamesSpec

(* The row, the jobs and what the carrier has are what the schema, the     *)
(* queue and the contract with the carrier say they are.                   *)
THEOREM NamesTyped == NameConstants => (NamesSpec => []NamesTypeOK)
<1>1. NamesInv => NamesTypeOK BY DEF NamesInv
<1>2. QED BY <1>1, NamesHold, PTL

(* A number never shows a name as registered that no carrier has           *)
(* registered, a row never polls the registration of another name, and an  *)
(* opt-out stands, with any number of reps, of requests and of workers     *)
(* (reconcileCallerName.ts, pendingRequestWhere).                          *)
THEOREM NamesStand == NameConstants => (NamesSpec => []ShownIsRegistered)
<1>1. NamesInv => ShownIsRegistered BY DEF NamesInv
<1>2. QED BY <1>1, NamesHold, PTL

(***************************************************************************)
(* The dialer.                                                             *)
(***************************************************************************)

(* A leg that is open, or on its way to be, of a call that goes on.        *)
Live(c) == leg[c] \in {"connecting", "ringing", "accepting", "open"} /\ callRow[c] \in InFlight

(* It is the call the dialer shows, and of those that ring the one that it *)
(* holds.                                                                  *)
LiveIsShown ==
    \A c \in DialCalls : Live(c) =>
       /\ phase \in OnCall /\ dialing /\ activeCall = c
       /\ c \in Ringing => callRef = c

(* Legs are those of the behaviour's calls, each of its direction.         *)
LegsFit ==
    /\ \A c \in DialCalls : leg[c] # "none" => c \in dialCalls /\ callRow[c] # "none"
    /\ \A c \in Placed : leg[c] \notin {"offered", "accepting"}
    /\ \A c \in Ringing : leg[c] \notin {"connecting", "ringing"}
    /\ \A c \in Elsewhere : leg[c] = "none"
    /\ callRef # NoCall => callRef \in Placed \cup Ringing /\ leg[callRef] # "none"

(* A call that is being placed has no leg yet.                             *)
PostsFit ==
    \A c \in Placed : post[c].pc # "idle" =>
       /\ c \in dialCalls /\ leg[c] = "none"
       /\ post[c].pc = "sent" => callRow[c] = "none"
       /\ post[c].pc = "made" => callRow[c] # "none"
       /\ post[c].pc = "conflict" => post[c].call \in dialCalls

(* A DELETE that was answered with success has ended its call.             *)
EndsFit ==
    \A c \in DialCalls :
       /\ ending[c] # "idle" => "end" \in dialKinds /\ c \in dialCalls
       /\ ending[c] = "done" => callRow[c] = "over"

DialSafe ==
    /\ LegsFit /\ PostsFit /\ EndsFit /\ LiveIsShown
    /\ phase = "ringing" => dialing
    /\ activeCall \in dialCalls \cup {NoCall}
DialInv == DialTypeOK /\ DialSafe

-----------------------------------------------------------------------------
(* Every step keeps the types.                                             *)
LEMMA DialTypeStep ==
    ASSUME DialConstants, DialTypeOK, [DialNext]_dialVars PROVE DialTypeOK'
<1> USE DEF DialTypeOK, CallPhases
<1>0. dialCalls \subseteq DialCalls BY DEF DialConstants
<1>1. CASE UNCHANGED dialVars BY <1>1 DEF dialVars, shown, refs
<1>2. ASSUME NEW c \in Placed, PlaceCall(c) PROVE DialTypeOK'
  <2>1. post' \in [Placed -> Post]
    BY <1>2 DEF PlaceCall, Post
  <2>2. QED BY <1>2, <2>1 DEF PlaceCall, shown, refs
<1>3. ASSUME NEW c \in Placed, ServePost(c) PROVE DialTypeOK'
  <2>1. post' \in [Placed -> Post]
    <3>1. CASE post' = [post EXCEPT ![c].pc = "made"] BY <3>1 DEF Post
    <3>2. CASE \E d \in dialCalls : callRow[d] \in InFlight
                /\ post' = [post EXCEPT ![c] = [pc |-> "conflict", call |-> d,
                                                status |-> callRow[d]]]
      <4>1. PICK d \in dialCalls : callRow[d] \in InFlight
                /\ post' = [post EXCEPT ![c] = [pc |-> "conflict", call |-> d,
                                                status |-> callRow[d]]]
        BY <3>2
      <4>2. [pc |-> "conflict", call |-> d, status |-> callRow[d]] \in Post
        BY <1>0, <4>1 DEF Post
      <4>3. QED BY <4>1, <4>2
    <3>3. QED BY <1>3, <3>1, <3>2 DEF ServePost
  <2>2. callRow' \in [DialCalls -> {"none", "over"} \cup InFlight]
    BY <1>3 DEF ServePost, DialCalls, InFlight
  <2>3. QED BY <1>3, <2>1, <2>2 DEF ServePost, shown, refs
<1>4. ASSUME NEW c \in Placed, PostAnswered(c) PROVE DialTypeOK'
  <2>1. NoPost \in Post BY DEF NoPost, Post, InFlight
  <2>2. c \in DialCalls /\ post[c].call \in DialCalls \cup {NoCall}
    BY DEF DialCalls, Post
  <2>3. QED BY <1>4, <2>1, <2>2 DEF PostAnswered, startCall, adoptCall, Becomes, refs, Legs
<1>5. ASSUME NEW c \in DialCalls, LegStep(c) PROVE DialTypeOK'
  BY <1>5
  DEF LegStep, Connected, NotConnected, PlacedAccepted, PlacedOver, IncomingAccepted,
      IncomingOver, Cleared, reset, connectCall, finishCall, endCall, Becomes, shown, refs, Legs
<1>6. ASSUME NEW c \in Ringing, receiveIncomingCall(c) PROVE DialTypeOK'
  BY <1>6 DEF receiveIncomingCall, startCall, Becomes, Legs, DialCalls, InFlight
<1>7. ASSUME NEW c \in Ringing, acceptIncomingCall(c) \/ rejectIncomingCall(c) PROVE DialTypeOK'
  BY <1>7 DEF acceptIncomingCall, rejectIncomingCall, Cleared, reset, Becomes, Legs, DialCalls,
      shown, refs
<1>8. ASSUME NEW c \in DialCalls, cancelCall(c) PROVE DialTypeOK'
  BY <1>8 DEF cancelCall, Legs, shown
<1>9. ASSUME NEW c \in DialCalls, ServeEnd(c) \/ EndAnswered(c) PROVE DialTypeOK'
  BY <1>9 DEF ServeEnd, EndAnswered, endCall, shown, refs, InFlight
<1>10. ASSUME NEW c \in DialCalls, RowMoves(c) \/ RowEnds(c) PROVE DialTypeOK'
  BY <1>10 DEF RowMoves, RowEnds, shown, refs, InFlight
<1>11. ASSUME SaveAndNext \/ Poll PROVE DialTypeOK'
  BY <1>11 DEF SaveAndNext, Poll, reset, connectCall, finishCall, endCall, shown, refs
<1>12. ASSUME Reload PROVE DialTypeOK'
  <2>1. NoPost \in Post BY DEF NoPost, Post, InFlight
  <2>2. leg' \in [DialCalls -> Legs] BY <1>12 DEF Reload, Legs
  <2>3. QED BY <1>12, <2>1, <2>2 DEF Reload, shown
<1>13. QED
  BY <1>1, <1>2, <1>3, <1>4, <1>5, <1>6, <1>7, <1>8, <1>9, <1>10, <1>11, <1>12 DEF DialNext

LEMMA DialTypeInit ==
    ASSUME DialConstants, DialInit PROVE DialTypeOK
<1>1. PICK i \in DialInstances : dialKinds = i.kinds /\ dialCalls = i.calls BY DEF DialInit
<1>2. [kinds |-> dialKinds, calls |-> dialCalls] = i BY <1>1 DEF DialConstants
<1>3. NoPost \in Post BY DEF NoPost, Post, InFlight
<1>4. QED BY <1>1, <1>2, <1>3 DEF DialInit, DialTypeOK, CallPhases, Legs, InFlight

(* Every variable of a tab keeps its type, whatever the SDK, the server    *)
(* and the rep do.                                                         *)
THEOREM DialTyped == DialConstants => (DialSpec => []DialTypeOK)
<1> SUFFICES ASSUME DialConstants PROVE DialSpec => []DialTypeOK OBVIOUS
<1>1. DialInit => DialTypeOK BY DialTypeInit
<1>2. DialTypeOK /\ [DialNext]_dialVars => DialTypeOK' BY DialTypeStep
<1>3. QED BY <1>1, <1>2, PTL DEF DialSpec

-----------------------------------------------------------------------------
(* What a behaviour has.                                                   *)
LEMMA OfOneBehaviour ==
    ASSUME DialConstants, OneCallAtATime, DialTypeOK
    PROVE  /\ dialCalls \subseteq DialCalls /\ "save" \notin dialKinds
           /\ "end" \in dialKinds => \A c, d \in dialCalls : c = d
           /\ \A c \in dialCalls \cap Placed : \A d \in dialCalls \cap (Placed \cup Ringing) : c = d
<1>1. PICK i \in DialInstances : i = [kinds |-> dialKinds, calls |-> dialCalls] BY DEF DialTypeOK
<1>2. i.kinds = dialKinds /\ i.calls = dialCalls BY <1>1
<1>3. OneAtATime(i) /\ i.calls \subseteq DialCalls BY DEF OneCallAtATime, DialConstants
<1>4. QED BY <1>2, <1>3 DEF OneAtATime

(* A live call is the tab's own; a placed one is alone.                    *)
LEMMA OfLive ==
    ASSUME DialConstants, OneCallAtATime, DialInv, NEW c \in DialCalls, Live(c)
    PROVE  /\ c \in dialCalls /\ c \in Placed \cup Ringing
           /\ c \in Placed => \A d \in DialCalls :
                 leg[d] # "none" \/ (d \in dialCalls /\ d \in Placed \cup Ringing) => d = c
           /\ c \in Ringing => \A d \in Placed : d \notin dialCalls
<1>1. c \in dialCalls BY DEF Live, DialInv, DialSafe, LegsFit
<1>2. c \notin Elsewhere BY DEF Live, DialInv, DialSafe, LegsFit
<1>3. c \in Placed \cup Ringing BY <1>2 DEF DialCalls
<1>4. \A d \in DialCalls : leg[d] # "none" => d \in dialCalls /\ d \in Placed \cup Ringing
  BY DEF DialInv, DialSafe, LegsFit, DialCalls
<1>5. QED BY <1>1, <1>3, <1>4, OfOneBehaviour DEF DialInv, DialConstants

(* A step that brings no leg up and leaves the screen and the tab's call.  *)
LEMMA SameScreen ==
    ASSUME DialInv, UNCHANGED <<shown, callRef>>, \A c \in DialCalls : Live(c)' => Live(c)
    PROVE  LiveIsShown'
BY DEF DialInv, DialSafe, LiveIsShown, shown

(* One that leaves no leg up.                                              *)
LEMMA NoneLive ==
    ASSUME \A c \in DialCalls : ~Live(c)' PROVE LiveIsShown'
BY DEF LiveIsShown

LEMMA PlaceKeeps ==
    ASSUME DialInv, NEW c \in Placed, PlaceCall(c) \/ ServePost(c) PROVE DialSafe'
<1> USE DEF DialInv, DialSafe, DialTypeOK
<1>1. CASE PlaceCall(c)
  <2>1. PostsFit' BY <1>1 DEF PlaceCall, PostsFit, LegsFit, Post, DialCalls
  <2>2. LiveIsShown' BY <1>1, SameScreen DEF PlaceCall, Live, refs
  <2>3. QED BY <1>1, <2>1, <2>2 DEF PlaceCall, LegsFit, EndsFit, shown, refs
<1>2. CASE ServePost(c)
  <2>0. /\ UNCHANGED <<dialKinds, dialCalls, shown, refs, leg, ending>>
        /\ post[c].pc = "sent"
    BY <1>2 DEF ServePost
  <2>1. leg[c] = "none" /\ callRow[c] = "none" /\ c \in dialCalls /\ c \in DialCalls
    BY <2>0 DEF PostsFit, DialCalls
  <2>2. CASE post' = [post EXCEPT ![c].pc = "made"] /\ callRow' = [callRow EXCEPT ![c] = "queued"]
    <3>1. post'[c].pc = "made" /\ \A d \in Placed : d # c => post'[d] = post[d]
      BY <2>2 DEF Post
    <3>2. callRow'[c] = "queued" /\ \A d \in DialCalls : d # c => callRow'[d] = callRow[d]
      BY <2>1, <2>2
    <3>3. PostsFit' BY <2>0, <2>1, <3>1, <3>2 DEF PostsFit, DialCalls
    <3>4. LiveIsShown' BY <2>0, <2>1, <3>2, SameScreen DEF Live, refs
    <3>5. EndsFit'
      BY <2>0, <2>1, <3>2 DEF EndsFit
    <3>6. QED BY <2>0, <2>1, <3>2, <3>3, <3>4, <3>5 DEF LegsFit, shown, refs
  <2>3. CASE /\ \E d \in dialCalls : callRow[d] \in InFlight
                /\ post' = [post EXCEPT ![c] = [pc |-> "conflict", call |-> d,
                                                status |-> callRow[d]]]
             /\ UNCHANGED callRow
    <3>1. PICK d \in dialCalls : post' = [post EXCEPT ![c] = [pc |-> "conflict", call |-> d,
                                                status |-> callRow[d]]]
      BY <2>3
    <3>2. /\ post'[c].pc = "conflict" /\ post'[c].call = d
          /\ \A o \in Placed : o # c => post'[o] = post[o]
      BY <3>1
    <3>3. PostsFit' BY <2>0, <2>1, <2>3, <3>2 DEF PostsFit
    <3>4. LiveIsShown' BY <2>0, <2>3, SameScreen DEF Live, refs
    <3>5. QED BY <2>0, <2>3, <3>3, <3>4 DEF LegsFit, EndsFit, shown, refs
  <2>4. QED BY <1>2, <2>2, <2>3 DEF ServePost
<1>3. QED BY <1>1, <1>2

(* The call whose POST is answered is the behaviour's only one of its tab. *)
LEMMA AnsweredKeeps ==
    ASSUME DialConstants, OneCallAtATime, DialInv, NEW c \in Placed, PostAnswered(c)
    PROVE  DialSafe'
<1> USE DEF DialInv, DialSafe, DialTypeOK
<1>1. /\ post[c].pc # "idle" /\ post' = [post EXCEPT ![c] = NoPost]
      /\ UNCHANGED <<dialKinds, dialCalls, callRow, ending, callRef>>
  BY DEF PostAnswered, adoptCall, refs
<1>2. c \in DialCalls /\ c \in dialCalls /\ leg[c] = "none" BY <1>1 DEF PostsFit, DialCalls
<1>3. \A d \in DialCalls : ~Live(d)
  <2>1. ASSUME NEW d \in DialCalls, Live(d) PROVE FALSE
    <3>1. d # c BY <1>2, <2>1 DEF Live
    <3>2. QED BY <1>2, <2>1, <3>1, OfLive
  <2>2. QED BY <2>1
<1>4. /\ post'[c].pc = "idle" /\ \A d \in Placed : d # c => post'[d] = post[d]
  BY <1>1 DEF NoPost
<1>5. EndsFit' BY <1>1 DEF EndsFit
<1>6. CASE post[c].pc = "made" /\ startCall(c) /\ Becomes(c, "connecting")
           /\ UNCHANGED <<callRef, incomingCallRef>>
  <2>1. leg'[c] = "connecting" /\ \A d \in DialCalls : d # c => leg'[d] = leg[d]
    BY <1>2, <1>6 DEF Becomes
  <2>2. callRow[c] # "none" BY <1>6 DEF PostsFit
  <2>3. LegsFit' BY <1>1, <1>2, <2>1, <2>2 DEF LegsFit, DialCalls, DialConstants
  <2>4. PostsFit' BY <1>1, <1>2, <1>4, <2>1 DEF PostsFit, DialCalls
  <2>5. LiveIsShown'
    BY <1>1, <1>3, <1>6, <2>1 DEF LiveIsShown, Live, startCall, OnCall, DialConstants
  <2>6. QED BY <1>1, <1>2, <1>5, <1>6, <2>3, <2>4, <2>5 DEF startCall
<1>7. CASE post[c].pc = "conflict" /\ adoptCall(post[c].call, post[c].status) /\ UNCHANGED leg
  <2>1. post[c].call \in dialCalls BY <1>7 DEF PostsFit
  <2>2. LegsFit' BY <1>1, <1>7 DEF LegsFit
  <2>3. PostsFit' BY <1>1, <1>4, <1>7 DEF PostsFit
  <2>4. LiveIsShown' BY <1>1, <1>3, <1>7, NoneLive DEF Live
  <2>5. QED BY <1>1, <1>5, <1>7, <2>1, <2>2, <2>3, <2>4 DEF adoptCall
<1>8. QED BY <1>6, <1>7 DEF PostAnswered

-----------------------------------------------------------------------------
(* The leg of a placed call, and of one that rings.                        *)
LEMMA PlacedLegKeeps ==
    ASSUME DialConstants, OneCallAtATime, DialInv, NEW c \in DialCalls,
           Connected(c) \/ NotConnected(c) \/ PlacedAccepted(c) \/ PlacedOver(c)
    PROVE  DialSafe'
<1> USE DEF DialInv, DialSafe, DialTypeOK
<1>1. c \in Placed /\ c \in dialCalls
  BY DEF Connected, NotConnected, PlacedAccepted, PlacedOver, LegsFit, DialCalls
<1>2. leg[c] # "none" /\ leg[c] # "closed"
  BY DEF Connected, NotConnected, PlacedAccepted, PlacedOver
<1>3. \A d \in DialCalls : Live(d) => d = c
  <2>1. ASSUME NEW d \in DialCalls, Live(d) PROVE d = c
    BY <1>1, <1>2, <2>1, OfLive
  <2>2. QED BY <2>1
<1>4. PICK state \in {"open", "ringing", "closed"} : Becomes(c, state)
  BY DEF Connected, NotConnected, PlacedAccepted, PlacedOver
<1>5. leg'[c] = state /\ \A d \in DialCalls : d # c => leg'[d] = leg[d]
  BY <1>4 DEF Becomes
<1>6. UNCHANGED <<dialKinds, dialCalls, callRow, post, ending>>
  BY DEF Connected, NotConnected, PlacedAccepted, PlacedOver
<1>7. callRef' \in {callRef, c, NoCall} /\ activeCall' \in {activeCall, NoCall}
      /\ (phase' = "ringing" => dialing')
  BY DEF Connected, NotConnected, PlacedAccepted, PlacedOver, shown, refs, finishCall, endCall,
     connectCall, reset
<1>8. LegsFit'
  BY <1>1, <1>2, <1>5, <1>6, <1>7 DEF LegsFit, DialConstants, DialCalls
<1>9. PostsFit' /\ EndsFit' BY <1>2, <1>5, <1>6 DEF PostsFit, EndsFit, DialCalls
<1>10. LiveIsShown'
  <2>1. CASE state = "closed"
    <3>1. \A d \in DialCalls : ~Live(d)' BY <1>3, <1>5, <1>6, <2>1 DEF Live
    <3>2. QED BY <3>1, NoneLive
  <2>2. CASE state # "closed"
    <3>1. \A d \in DialCalls : Live(d)' => d = c /\ Live(c)
      <4>1. leg[c] \in {"connecting", "ringing"} /\ (leg[c] = "connecting" \/ state # "connecting")
        BY <1>4, <2>2, <1>5 DEF Connected, NotConnected, PlacedAccepted, PlacedOver, Becomes
      <4>2. QED BY <1>3, <1>5, <1>6, <4>1 DEF Live
    <3>2. /\ activeCall' = activeCall /\ dialing' = dialing
          /\ phase \in OnCall => phase' \in OnCall
      BY <1>5, <2>2, <1>4 DEF Connected, NotConnected, PlacedAccepted, PlacedOver, Becomes, shown,
         connectCall, OnCall
    <3>3. QED BY <1>1, <3>1, <3>2 DEF LiveIsShown, DialConstants
  <2>3. QED BY <2>1, <2>2
<1>11. QED BY <1>6, <1>7, <1>8, <1>9, <1>10

LEMMA RingKeeps ==
    ASSUME DialConstants, OneCallAtATime, DialInv, NEW c \in Ringing, receiveIncomingCall(c)
    PROVE  DialSafe'
<1> USE DEF DialInv, DialSafe, DialTypeOK
<1>1. /\ c \in dialCalls /\ callRow[c] = "none" /\ c \in DialCalls
      /\ \A d \in DialCalls : leg[d] \in {"none", "connecting", "offered", "closing", "closed"}
      /\ UNCHANGED <<dialKinds, dialCalls, post, ending>>
      /\ callRef' = c /\ startCall(c)
  BY DEF receiveIncomingCall, DialCalls
<1>2. /\ leg'[c] = "offered" /\ \A d \in DialCalls : d # c => leg'[d] = leg[d]
      /\ callRow'[c] = "queued" /\ \A d \in DialCalls : d # c => callRow'[d] = callRow[d]
  BY <1>1 DEF receiveIncomingCall, Becomes
<1>3. \A d \in DialCalls : ~Live(d)
  <2>1. ASSUME NEW d \in DialCalls, Live(d) PROVE FALSE
    <3>1. d \in Placed BY <1>1, <2>1 DEF Live, LegsFit, DialCalls
    <3>2. c = d BY <1>1, <2>1, <3>1, OfLive
    <3>3. QED BY <3>1, <3>2 DEF DialConstants
  <2>2. QED BY <2>1
<1>4. LegsFit' BY <1>1, <1>2 DEF LegsFit, DialConstants, DialCalls
<1>5. PostsFit'
  BY <1>1, <1>2 DEF PostsFit, DialConstants, DialCalls
<1>6. EndsFit' BY <1>1, <1>2 DEF EndsFit
<1>7. LiveIsShown'
  <2>1. \A d \in DialCalls : ~Live(d)' BY <1>2, <1>3 DEF Live
  <2>2. QED BY <2>1, NoneLive
<1>8. QED BY <1>1, <1>4, <1>5, <1>6, <1>7 DEF startCall

LEMMA AnswerKeeps ==
    ASSUME DialConstants, OneCallAtATime, DialInv, NEW c \in Ringing,
           acceptIncomingCall(c) \/ rejectIncomingCall(c)
    PROVE  DialSafe'
<1> USE DEF DialInv, DialSafe, DialTypeOK
<1>1. /\ callRef = c /\ leg[c] = "offered" /\ activeCall = c /\ phase = "ringing"
      /\ c \in DialCalls /\ c \in dialCalls
      /\ UNCHANGED <<dialKinds, dialCalls, callRow, post, ending>>
  BY DEF acceptIncomingCall, rejectIncomingCall, DialCalls, LegsFit
<1>2. PICK state \in {"accepting", "closed"} : Becomes(c, state)
  BY DEF acceptIncomingCall, rejectIncomingCall
<1>3. leg'[c] = state /\ \A d \in DialCalls : d # c => leg'[d] = leg[d]
  BY <1>1, <1>2 DEF Becomes
<1>4. \A d \in DialCalls : ~Live(d)
  <2>1. ASSUME NEW d \in DialCalls, Live(d) PROVE FALSE
    <3>1. d # c /\ activeCall = d BY <1>1, <2>1 DEF Live, LiveIsShown
    <3>2. QED BY <1>1, <3>1
  <2>2. QED BY <2>1
<1>5. callRef' \in {c, NoCall} /\ activeCall' \in {activeCall, NoCall}
      /\ (phase' = "ringing" => dialing')
  BY <1>1 DEF acceptIncomingCall, rejectIncomingCall, Cleared, reset, shown
<1>6. LegsFit' BY <1>1, <1>2, <1>3, <1>5 DEF LegsFit, DialConstants, DialCalls
<1>7. PostsFit' /\ EndsFit'
  BY <1>1, <1>3 DEF PostsFit, EndsFit, DialConstants, DialCalls
<1>8. LiveIsShown'
  <2>1. \A d \in DialCalls : Live(d)' => d = c /\ state = "accepting"
    BY <1>1, <1>2, <1>3, <1>4 DEF Live
  <2>2. CASE state = "accepting"
    <3>1. UNCHANGED <<shown, callRef>>
      BY <1>3, <2>2 DEF acceptIncomingCall, rejectIncomingCall, Becomes
    <3>2. QED BY <1>1, <2>1, <3>1 DEF LiveIsShown, shown, OnCall
  <2>3. CASE state = "closed" BY <2>1, <2>3, NoneLive
  <2>4. QED BY <2>2, <2>3
<1>9. QED BY <1>1, <1>5, <1>6, <1>7, <1>8

LEMMA IncomingLegKeeps ==
    ASSUME DialConstants, OneCallAtATime, DialInv, NEW c \in DialCalls,
           IncomingAccepted(c) \/ IncomingOver(c)
    PROVE  DialSafe'
<1> USE DEF DialInv, DialSafe, DialTypeOK
<1>1. c \in Ringing /\ leg[c] # "none" /\ c \in dialCalls
  BY DEF IncomingAccepted, IncomingOver, LegsFit, DialCalls
<1>2. UNCHANGED <<dialKinds, dialCalls, callRow, post, ending>>
  BY DEF IncomingAccepted, IncomingOver
<1>3. PICK state \in {"open", "closed"} : Becomes(c, state)
  BY DEF IncomingAccepted, IncomingOver
<1>4. leg'[c] = state /\ \A d \in DialCalls : d # c => leg'[d] = leg[d]
  BY <1>3 DEF Becomes
<1>5. /\ callRef' \in {callRef, NoCall} /\ activeCall' \in {activeCall, NoCall}
      /\ phase' = "ringing" => dialing'
  BY DEF IncomingAccepted, IncomingOver, Cleared, reset, finishCall, endCall, connectCall,
     shown, refs
<1>6. LegsFit' BY <1>1, <1>2, <1>3, <1>4, <1>5 DEF LegsFit, DialConstants, DialCalls
<1>7. PostsFit' /\ EndsFit'
  BY <1>1, <1>2, <1>4 DEF PostsFit, EndsFit, DialConstants, DialCalls
<1>8. LiveIsShown'
  <2>1. ASSUME NEW d \in DialCalls, Live(d)'
        PROVE  /\ phase' \in OnCall /\ dialing' /\ activeCall' = d
               /\ d \in Ringing => callRef' = d
    <3>1. Live(d) /\ (d = c => IncomingAccepted(c))
      <4>1. CASE d # c BY <1>2, <1>4, <2>1, <4>1 DEF Live
      <4>2. CASE d = c
        <5>1. state = "open" BY <1>3, <1>4, <2>1, <4>2 DEF Live
        <5>2. leg[c] = "accepting" /\ IncomingAccepted(c)
          BY <1>4, <5>1 DEF IncomingAccepted, IncomingOver, Becomes
        <5>3. QED BY <1>2, <2>1, <4>2, <5>2 DEF Live
      <4>3. QED BY <4>1, <4>2
    <3>2. phase \in OnCall /\ dialing /\ activeCall = d /\ (d \in Ringing => callRef = d)
      BY <3>1 DEF LiveIsShown
    <3>3. d \in Ringing
      BY <1>1, <3>1, OfLive
    <3>4. CASE d = c
      BY <3>1, <3>2, <3>3, <3>4 DEF IncomingAccepted, connectCall, OnCall
    <3>5. CASE d # c
      BY <3>2, <3>3, <3>5 DEF IncomingAccepted, IncomingOver, Cleared, shown, refs
    <3>6. QED BY <3>4, <3>5
  <2>2. QED BY <2>1 DEF LiveIsShown
<1>9. QED BY <1>2, <1>5, <1>6, <1>7, <1>8

-----------------------------------------------------------------------------
(* What the rep, the server and the poll do.                               *)
LEMMA CancelKeeps ==
    ASSUME DialConstants, OneCallAtATime, DialInv, NEW c \in DialCalls, cancelCall(c)
    PROVE  DialSafe'
<1> USE DEF DialInv, DialSafe, DialTypeOK
<1>1. /\ "end" \in dialKinds /\ activeCall = c /\ c \in dialCalls
      /\ UNCHANGED <<dialKinds, dialCalls, shown, callRef, callRow, post>>
      /\ ending' = [ending EXCEPT ![c] = "sent"]
  BY DEF cancelCall, DialConstants
<1>2. \A d \in DialCalls : leg'[d] = leg[d] \/ (leg[d] # "none" /\ leg'[d] = "closing")
  <2>1. CASE callRef = NoCall BY <2>1 DEF cancelCall
  <2>2. CASE callRef # NoCall
    <3>1. callRef \in DialCalls /\ leg[callRef] # "none" BY <2>2 DEF LegsFit
    <3>2. leg' = [leg EXCEPT ![callRef] = IF leg[callRef] = "closed" THEN leg[callRef]
                                          ELSE "closing"]
      BY <2>2 DEF cancelCall
    <3>3. QED BY <3>1, <3>2
  <2>3. QED BY <2>1, <2>2
<1>3. LegsFit' BY <1>1, <1>2 DEF LegsFit, DialCalls
<1>4. PostsFit' BY <1>1, <1>2 DEF PostsFit, DialCalls
<1>5. EndsFit' BY <1>1 DEF EndsFit
<1>6. LiveIsShown' BY <1>1, <1>2, SameScreen DEF Live
<1>7. QED BY <1>1, <1>3, <1>4, <1>5, <1>6 DEF shown

(* A DELETE that ends a call is of a behaviour that has no other.          *)
LEMMA EndKeeps ==
    ASSUME DialConstants, OneCallAtATime, DialInv, NEW c \in DialCalls,
           ServeEnd(c) \/ EndAnswered(c)
    PROVE  DialSafe'
<1> USE DEF DialInv, DialSafe, DialTypeOK
<1>1. CASE ServeEnd(c)
  <2>1. /\ UNCHANGED <<dialKinds, dialCalls, shown, refs, leg, post>> /\ ending[c] = "sent"
        /\ \A d \in DialCalls : d # c => callRow'[d] = callRow[d] /\ ending'[d] = ending[d]
        /\ \/ callRow[c] \in InFlight /\ callRow'[c] = "over" /\ ending'[c] = "done"
           \/ callRow'[c] = callRow[c] /\ ending'[c] = "refused"
    <3>1. CASE callRow[c] \in InFlight /\ callRow' = [callRow EXCEPT ![c] = "over"]
               /\ ending' = [ending EXCEPT ![c] = "done"]
      BY <1>1, <3>1 DEF ServeEnd
    <3>2. CASE ending' = [ending EXCEPT ![c] = "refused"] /\ UNCHANGED callRow
      BY <1>1, <3>2 DEF ServeEnd
    <3>3. QED BY <1>1, <3>1, <3>2 DEF ServeEnd
  <2>2. LegsFit' BY <2>1 DEF LegsFit, DialCalls, refs, InFlight
  <2>3. PostsFit' BY <2>1 DEF PostsFit, DialCalls, InFlight
  <2>4. EndsFit' BY <2>1 DEF EndsFit
  <2>5. LiveIsShown' BY <2>1, SameScreen DEF Live, refs, InFlight
  <2>6. QED BY <2>1, <2>2, <2>3, <2>4, <2>5 DEF shown
<1>2. CASE EndAnswered(c)
  <2>1. /\ UNCHANGED <<dialKinds, dialCalls, leg, callRow, post>>
        /\ ending[c] # "idle" /\ ending'[c] = "idle"
        /\ \A d \in DialCalls : d # c => ending'[d] = ending[d]
        /\ IF ending[c] = "done" THEN endCall ELSE UNCHANGED <<shown, refs>>
    BY <1>2 DEF EndAnswered
  <2>2. LegsFit' BY <2>1 DEF LegsFit, endCall, refs
  <2>3. PostsFit' /\ EndsFit' BY <2>1 DEF PostsFit, EndsFit
  <2>4. LiveIsShown'
    <3>1. CASE ending[c] = "done"
      <4>1. ASSUME NEW d \in DialCalls, Live(d) PROVE FALSE
        <5>1. c \in dialCalls /\ callRow[c] = "over" /\ "end" \in dialKinds
          BY <3>1 DEF EndsFit
        <5>2. d = c BY <4>1, <5>1, OfLive, OfOneBehaviour
        <5>3. QED BY <4>1, <5>1, <5>2 DEF Live, InFlight
      <4>2. \A d \in DialCalls : ~Live(d)' BY <2>1, <4>1 DEF Live
      <4>3. QED BY <4>2, NoneLive
    <3>2. CASE ending[c] # "done" BY <2>1, <3>2, SameScreen DEF Live, refs
    <3>3. QED BY <3>1, <3>2
  <2>5. QED BY <2>1, <2>2, <2>3, <2>4 DEF endCall, shown
<1>3. QED BY <1>1, <1>2

LEMMA RowKeeps ==
    ASSUME DialInv, NEW c \in DialCalls, RowMoves(c) \/ RowEnds(c) PROVE DialSafe'
<1> USE DEF DialInv, DialSafe, DialTypeOK
<1>1. /\ UNCHANGED <<dialKinds, dialCalls, shown, refs, leg, post, ending>>
      /\ callRow[c] \in InFlight /\ callRow'[c] \in {"in-progress", "over"}
      /\ \A d \in DialCalls : d # c => callRow'[d] = callRow[d]
  BY DEF RowMoves, RowEnds
<1>2. LegsFit' BY <1>1 DEF LegsFit, DialCalls, refs
<1>3. PostsFit' BY <1>1 DEF PostsFit, DialCalls, InFlight
<1>4. EndsFit' BY <1>1 DEF EndsFit, InFlight
<1>5. LiveIsShown' BY <1>1, SameScreen DEF Live, refs
<1>6. QED BY <1>1, <1>2, <1>3, <1>4, <1>5 DEF shown

(* The poll ends only what is over, and connects only what is shown.       *)
LEMMA PollKeeps ==
    ASSUME DialConstants, DialInv, Poll PROVE DialSafe'
<1> USE DEF DialInv, DialSafe, DialTypeOK
<1>1. /\ UNCHANGED <<dialKinds, dialCalls, leg, callRow, post, ending>>
      /\ activeCall' = activeCall /\ callRef' \in {callRef, NoCall}
      /\ phase' = "ringing" => dialing'
  BY DEF Poll, connectCall, finishCall, endCall, shown, refs
<1>2. LegsFit' BY <1>1 DEF LegsFit
<1>3. PostsFit' /\ EndsFit' BY <1>1 DEF PostsFit, EndsFit
<1>4. LiveIsShown'
  <2>1. ASSUME NEW d \in DialCalls, Live(d)'
        PROVE  /\ phase' \in OnCall /\ dialing' /\ activeCall' = d
               /\ d \in Ringing => callRef' = d
    <3>1. Live(d) BY <1>1, <2>1 DEF Live
    <3>2. phase \in OnCall /\ dialing /\ activeCall = d /\ (d \in Ringing => callRef = d)
      BY <3>1 DEF LiveIsShown
    <3>3. callRow[activeCall] # "over" BY <3>1, <3>2 DEF Live, InFlight
    <3>4. connectCall /\ UNCHANGED refs BY <3>3 DEF Poll
    <3>5. QED BY <3>2, <3>4 DEF connectCall, OnCall, refs
  <2>2. QED BY <2>1 DEF LiveIsShown
<1>5. QED BY <1>1, <1>2, <1>3, <1>4

LEMMA ReloadKeeps ==
    ASSUME DialInv, Reload PROVE DialSafe'
<1> USE DEF DialInv, DialSafe, DialTypeOK
<1>1. /\ UNCHANGED <<dialKinds, dialCalls, callRow>> /\ callRef' = NoCall
      /\ \A c \in DialCalls : leg'[c] = IF leg[c] = "none" THEN "none" ELSE "closed"
      /\ \A c \in Placed : post'[c].pc = "idle"
      /\ \A c \in DialCalls : ending'[c] = "idle"
      /\ activeCall' \in {activeCall, NoCall} /\ (phase' = "ringing" => dialing')
  BY DEF Reload, NoPost, shown
<1>2. LegsFit' BY <1>1 DEF LegsFit, DialCalls
<1>3. PostsFit' /\ EndsFit' BY <1>1 DEF PostsFit, EndsFit
<1>4. LiveIsShown'
  <2>1. \A d \in DialCalls : ~Live(d)' BY <1>1 DEF Live
  <2>2. QED BY <2>1, NoneLive
<1>5. QED BY <1>1, <1>2, <1>3, <1>4

-----------------------------------------------------------------------------
LEMMA DialStarts ==
    ASSUME DialConstants, DialInit PROVE DialInv
<1>1. /\ phase = "idle" /\ activeCall = NoCall /\ callRef = NoCall
      /\ \A c \in DialCalls : leg[c] = "none" /\ ending[c] = "idle"
      /\ \A c \in Placed : post[c].pc = "idle"
  BY DEF DialInit, NoPost
<1>2. LegsFit BY <1>1 DEF LegsFit, DialCalls
<1>3. PostsFit /\ EndsFit /\ LiveIsShown BY <1>1 DEF PostsFit, EndsFit, LiveIsShown, Live
<1>4. QED BY <1>1, <1>2, <1>3, DialTypeInit DEF DialInv, DialSafe

LEMMA DialStep ==
    ASSUME DialConstants, OneCallAtATime, DialInv, [DialNext]_dialVars PROVE DialInv'
<1>1. DialTypeOK' BY DialTypeStep DEF DialInv
<1>2. CASE UNCHANGED dialVars
  <2>1. DialSafe'
    BY <1>2 DEF dialVars, shown, refs, DialInv, DialSafe, LegsFit, PostsFit, EndsFit,
       LiveIsShown, Live
  <2>2. QED BY <1>1, <2>1 DEF DialInv
<1>3. CASE DialNext
  <2>1. ~SaveAndNext BY OfOneBehaviour DEF SaveAndNext, DialInv
  <2>2. ASSUME NEW c \in DialCalls,
               \/ LegStep(c) \/ cancelCall(c) \/ ServeEnd(c) \/ EndAnswered(c) \/ RowMoves(c)
               \/ RowEnds(c)
        PROVE  DialSafe'
    BY <2>2, PlacedLegKeeps, IncomingLegKeeps, CancelKeeps, EndKeeps, RowKeeps DEF LegStep
  <2>3. DialSafe'
    BY <1>3, <2>1, <2>2, PlaceKeeps, AnsweredKeeps, RingKeeps, AnswerKeeps, PollKeeps, ReloadKeeps
    DEF DialNext
  <2>4. QED BY <1>1, <2>3 DEF DialInv
<1>4. QED BY <1>2, <1>3

(* Whichever of the SDK, the poll and the DELETE speaks last, and however  *)
(* late Device.connect does, a rep whose microphone is on the line of a    *)
(* call that goes on is shown that call (DialerProvider.tsx): however many *)
(* calls ring, and for one that the tab places, with any number that other *)
(* tabs have placed.                                                       *)
THEOREM MicrophoneIsShown ==
    DialConstants /\ OneCallAtATime => (DialSpec => []OpenLineIsShown)
<1> SUFFICES ASSUME DialConstants, OneCallAtATime PROVE DialSpec => []OpenLineIsShown OBVIOUS
<1>1. DialInit => DialInv BY DialStarts
<1>2. DialInv /\ [DialNext]_dialVars => DialInv' BY DialStep
<1>3. DialInv => OpenLineIsShown
  BY DEF DialInv, DialSafe, LiveIsShown, Live, OpenLineIsShown
<1>4. QED BY <1>1, <1>2, <1>3, PTL DEF DialSpec

(***************************************************************************)
(* The greetings.                                                          *)
(***************************************************************************)

(* The lock on the organization: one member activates at a time, and what  *)
(* is active beside the candidate is what the activation will retire.      *)
OneIsActive ==
    \A g, h \in Greetings : gstatus[g] = "active" /\ gstatus[h] = "active" => g = h
RetiresOthers ==
    \A x \in Members :
       /\ ~acting[x].on => acting[x].greeting = {}
       /\ \A g \in acting[x].greeting : \A h \in Greetings \ {g} :
             gstatus[h] = "active" => h \in acting[x].retires
OneActs == \A x, y \in Members : acting[x].on /\ acting[y].on => x = y
LockInv == OneIsActive /\ OneActs /\ RetiresOthers

(* What a delivery of the job and a DELETE know of their greeting, where   *)
(* deliveries do not overlap: it is not converted yet, its MP3 is there    *)
(* until somebody deleted it, and only what is deleted is cleaned.         *)
Playable(g) ==
    /\ jobPc[<<g, 2>>] = "none"
    /\ jobPc[<<g, 1>>] # "none" => gstatus[g] \notin {"ready", "active"}
    /\ jobPc[<<g, 1>>] \in {"drop", "settle"} => g \in mp3s \/ gstatus[g] = "deleted"
    /\ delPc[g] = "clean" => gstatus[g] = "deleted"
    /\ gstatus[g] \in {"ready", "active"} => g \in mp3s
PlayInv == Is("overlap") \/ \A g \in Greetings : Playable(g)

GreetInv == GreetTypeOK /\ LockInv /\ PlayInv

-----------------------------------------------------------------------------
LEMMA NotActingType ==
    NotActing \in [on : BOOLEAN, greeting : SUBSET Greetings, retires : SUBSET Greetings]
BY DEF NotActing

(* What JobEnds leaves.                                                    *)
LEMMA JobEndsType ==
    ASSUME GreetConstants, GreetTypeOK, NEW g \in Greetings, NEW d \in Deliveries,
           JobEnds(g, <<g, d>>)
    PROVE  /\ gjob' \in [Greetings -> {"none", "queued", "done"}]
           /\ tries' \in [Greetings -> 0..RetryLimit]
           /\ jobPc' \in [Greetings \X Deliveries ->
                    {"none", "get", "put", "drop", "settle", "undo", "fail", "clean"}]
           /\ \A h \in Greetings : jobPc'[<<h, 1>>] # "none" => gjob'[h] # "none"
<1>1. <<g, d>> \in Greetings \X Deliveries OBVIOUS
<1>2. jobPc' \in [Greetings \X Deliveries ->
                    {"none", "get", "put", "drop", "settle", "undo", "fail", "clean"}]
  BY <1>1 DEF JobEnds, JobGoes, GreetTypeOK
<1>3. CASE gjob' = [gjob EXCEPT ![g] = "done"] /\ UNCHANGED tries
  BY <1>1, <1>2, <1>3 DEF JobEnds, JobGoes, GreetTypeOK, At, Deliveries
<1>4. CASE tries[g] < RetryLimit /\ tries' = [tries EXCEPT ![g] = @ + 1] /\ UNCHANGED gjob
  <2>1. tries' \in [Greetings -> 0..RetryLimit]
    BY <1>4 DEF GreetTypeOK, GreetConstants
  <2>2. QED
    BY <1>1, <1>2, <1>4, <2>1 DEF JobEnds, JobGoes, GreetTypeOK, At, Deliveries
<1>5. QED BY <1>3, <1>4 DEF JobEnds

LEMMA GreetTypeStep ==
    ASSUME GreetConstants, GreetInv, [GreetNext]_greetVars PROVE GreetTypeOK'
<1> USE DEF rowsOf, objects, jobs, deletes
<1>0. GreetTypeOK BY DEF GreetInv
<1>1. CASE UNCHANGED greetVars
  BY <1>0, <1>1 DEF GreetTypeOK, greetVars, At
<1>2. ASSUME NEW g \in Greetings, PostCreate(g) \/ PostStep(g) PROVE GreetTypeOK'
  BY <1>0, <1>2
  DEF GreetTypeOK, At, PostCreate, PostStep, PostPut, PostMark, PostQueue, PostBreaks, PostFail,
      PostUnput, Turns
<1>3. ASSUME NEW g \in Greetings, NEW d \in Deliveries, JobStep(g, d) PROVE GreetTypeOK'
  <2>1. <<g, d>> \in Greetings \X Deliveries OBVIOUS
  <2>2. ASSUME JobEnds(g, <<g, d>>), gstatus' = gstatus \/ Turns(g, "ready"),
               storageKey' = storageKey \/ storageKey' = storageKey \cup {g},
               gstatus' = gstatus \/ storageKey' = storageKey \cup {g},
               UNCHANGED <<greetKinds, postPc, deletes, acting>>,
               sources' \subseteq sources, mp3s' \subseteq mp3s
        PROVE  GreetTypeOK'
    <3>1. gstatus' \in [Greetings -> {"none", "uploading", "transcoding", "ready", "active",
                                      "failed", "deleted"}]
      BY <1>0, <2>2 DEF GreetTypeOK, Turns
    <3>2. \A h \in Greetings : gstatus'[h] \in {"ready", "active"} => h \in storageKey'
      BY <1>0, <2>2 DEF GreetTypeOK, Turns
    <3>3. QED BY <1>0, <2>2, <3>1, <3>2, JobEndsType DEF GreetTypeOK, At
  <2>3. CASE JobRead(g, d)
    <3>1. CASE JobGoes(<<g, d>>, "get") /\ UNCHANGED <<gjob, tries>>
      BY <1>0, <2>1, <2>3, <3>1 DEF GreetTypeOK, At, JobRead, JobGoes
    <3>2. QED BY <2>2, <2>3, <3>1 DEF JobRead
  <2>m. ASSUME jobPc[<<g, d>>] # "none", gjob' = gjob,
               NEW pc \in {"none", "put", "drop", "settle", "undo", "fail", "clean"},
               JobGoes(<<g, d>>, pc)
        PROVE  /\ jobPc' \in [Greetings \X Deliveries ->
                      {"none", "get", "put", "drop", "settle", "undo", "fail", "clean"}]
               /\ \A h \in Greetings : ~At(<<h, 1>>, "none")' => gjob'[h] # "none"
    <3>1. jobPc' \in [Greetings \X Deliveries ->
                      {"none", "get", "put", "drop", "settle", "undo", "fail", "clean"}]
      BY <1>0, <2>1, <2>m DEF GreetTypeOK, JobGoes
    <3>2. ASSUME NEW h \in Greetings, jobPc'[<<h, 1>>] # "none" PROVE jobPc[<<h, 1>>] # "none"
      BY <1>0, <2>1, <2>m, <3>2 DEF GreetTypeOK, JobGoes, Deliveries
    <3>3. QED BY <1>0, <2>m, <3>1, <3>2 DEF GreetTypeOK, At
  <2>4. CASE JobGet(g, d) \/ JobPut(g, d) \/ JobDropSource(g, d) \/ JobFail(g, d)
    <3>1. CASE JobGet(g, d)
      BY <1>0, <2>m, <3>1 DEF GreetTypeOK, JobGet, At
    <3>2. CASE JobPut(g, d)
      BY <1>0, <2>m, <3>2 DEF GreetTypeOK, JobPut, At
    <3>3. CASE JobDropSource(g, d)
      BY <1>0, <2>m, <3>3 DEF GreetTypeOK, JobDropSource, At
    <3>4. CASE JobFail(g, d)
      BY <1>0, <2>m, <3>4 DEF GreetTypeOK, JobFail, At, Turns
    <3>5. QED BY <2>4, <3>1, <3>2, <3>3, <3>4
  <2>5. CASE JobSettle(g, d)
    <3>1. CASE JobGoes(<<g, d>>, "undo") /\ UNCHANGED <<rowsOf, gjob, tries>>
      BY <1>0, <2>1, <2>5, <3>1 DEF GreetTypeOK, At, JobSettle, JobGoes
    <3>2. QED BY <2>2, <2>5, <3>1 DEF JobSettle
  <2>6. CASE JobUndo(g, d) \/ JobClean(g, d)
    BY <2>2, <2>6 DEF JobUndo, JobClean
  <2>7. CASE JobBreaks(g, d)
    <3>1. tries' \in [Greetings -> 0..RetryLimit]
      BY <1>0, <2>7 DEF GreetTypeOK, GreetConstants, JobBreaks
    <3>2. \E pc \in {"none", "fail"} :
             jobPc[<<g, d>>] # "none" /\ gjob' = gjob /\ JobGoes(<<g, d>>, pc)
      BY <2>7 DEF JobBreaks
    <3>3. QED BY <1>0, <2>m, <2>7, <3>1, <3>2 DEF GreetTypeOK, JobBreaks
  <2>8. QED BY <1>3, <2>3, <2>4, <2>5, <2>6, <2>7 DEF JobStep
<1>4. ASSUME NEW g \in Greetings, DeleteRead(g) \/ DeleteHide(g) \/ DeleteClean(g)
      PROVE  GreetTypeOK'
  <2>1. CASE DeleteRead(g) BY <1>0, <2>1 DEF GreetTypeOK, At, DeleteRead
  <2>2. CASE DeleteHide(g)
    <3>1. gstatus' \in [Greetings -> {"none", "uploading", "transcoding", "ready", "active",
                                      "failed", "deleted"}]
      BY <1>0, <2>2 DEF GreetTypeOK, DeleteHide, Turns
    <3>2. \A h \in Greetings : gstatus'[h] \in {"ready", "active"} => h \in storageKey
      BY <1>0, <2>2 DEF GreetTypeOK, DeleteHide, Turns
    <3>3. QED BY <1>0, <2>2, <3>1, <3>2 DEF GreetTypeOK, At, DeleteHide
  <2>3. CASE DeleteClean(g) BY <1>0, <2>3 DEF GreetTypeOK, At, DeleteClean
  <2>4. QED BY <1>4, <2>1, <2>2, <2>3
<1>5. ASSUME NEW g \in Greetings, NEW x \in Members, Activate(x, g) PROVE GreetTypeOK'
  BY <1>0, <1>5 DEF GreetTypeOK, At, Activate
<1>6. ASSUME NEW g \in Greetings, NEW x \in Members, ActivateCommit(x, g) PROVE GreetTypeOK'
  BY <1>0, <1>6, NotActingType DEF GreetTypeOK, At, ActivateCommit
<1>7. ASSUME ServerDies PROVE GreetTypeOK'
  BY <1>0, <1>7, NotActingType DEF GreetConstants, GreetTypeOK, At, ServerDies, Deliveries
<1>8. QED BY <1>1, <1>2, <1>3, <1>4, <1>5, <1>6, <1>7 DEF GreetNext

-----------------------------------------------------------------------------
(* What activates nothing and begins no activation keeps the lock.         *)
LEMMA NobodyActivates ==
    ASSUME LockInv, \A h \in Greetings : gstatus'[h] = "active" => gstatus[h] = "active",
           acting' = acting \/ acting' = [x \in Members |-> NotActing]
    PROVE  LockInv'
BY DEF LockInv, OneIsActive, OneActs, RetiresOthers, NotActing

(* A step of one greeting leaves what is known of the others.              *)
LEMMA OneMoves ==
    ASSUME PlayInv, NEW g \in Greetings, greetKinds' = greetKinds,
           \A h \in Greetings \ {g} :
               /\ gstatus'[h] = gstatus[h] /\ delPc'[h] = delPc[h]
               /\ h \in mp3s' <=> h \in mp3s
               /\ \A d \in Deliveries : jobPc'[<<h, d>>] = jobPc[<<h, d>>],
           Playable(g) => Playable(g)'
    PROVE  PlayInv'
BY DEF PlayInv, Playable, Is, Deliveries

LEMMA PostKeeps ==
    ASSUME GreetInv, NEW g \in Greetings, PostCreate(g) \/ PostStep(g) PROVE LockInv' /\ PlayInv'
<1> USE DEF rowsOf, objects, jobs, deletes
<1>0. GreetTypeOK /\ LockInv /\ PlayInv BY DEF GreetInv
<1>1. acting' = acting /\ greetKinds' = greetKinds /\ delPc' = delPc /\ jobPc' = jobPc /\ mp3s' = mp3s
  BY DEF PostCreate, PostStep, PostPut, PostMark, PostQueue, PostBreaks, PostFail, PostUnput
<1>2. \/ gstatus' = gstatus
      \/ /\ gstatus[g] \in {"none", "uploading", "transcoding"}
         /\ \E s \in {"uploading", "transcoding", "failed"} : Turns(g, s)
  BY DEF PostCreate, PostStep, PostPut, PostMark, PostQueue, PostBreaks, PostFail, PostUnput
<1>3. /\ \A h \in Greetings \ {g} : gstatus'[h] = gstatus[h]
      /\ \/ gstatus'[g] = gstatus[g]
         \/ gstatus[g] # "deleted" /\ gstatus'[g] \notin {"ready", "active"}
  BY <1>0, <1>2 DEF GreetTypeOK, Turns
<1>4. LockInv' BY <1>0, <1>1, <1>3, NobodyActivates
<1>5. Playable(g) => Playable(g)' BY <1>1, <1>3 DEF Playable
<1>6. PlayInv' BY <1>0, <1>1, <1>3, <1>5, OneMoves
<1>7. QED BY <1>4, <1>6

(* A delivery converts what is in "transcoding" only, and cleans up after  *)
(* itself only what is not to be played.                                   *)
LEMMA JobKeeps ==
    ASSUME GreetInv, NEW g \in Greetings, NEW d \in Deliveries, JobStep(g, d)
    PROVE  LockInv' /\ PlayInv'
<1> USE DEF rowsOf, objects, jobs, deletes
<1>0. GreetTypeOK /\ LockInv /\ PlayInv BY DEF GreetInv
<1>1. acting' = acting /\ greetKinds' = greetKinds /\ delPc' = delPc
  BY DEF JobStep, JobRead, JobGet, JobPut, JobDropSource, JobSettle, JobUndo, JobBreaks, JobFail,
         JobClean
<1>2. /\ \A h \in Greetings \ {g} :
            /\ gstatus'[h] = gstatus[h] /\ (h \in mp3s' <=> h \in mp3s)
            /\ \A e \in Deliveries : jobPc'[<<h, e>>] = jobPc[<<h, e>>]
      /\ \/ gstatus'[g] = gstatus[g]
         \/ gstatus[g] = "transcoding" /\ gstatus'[g] \in {"ready", "failed"}
  <2>1. /\ gstatus' = gstatus \/ (gstatus[g] = "transcoding"
                                   /\ \E s \in {"ready", "failed"} : Turns(g, s))
        /\ mp3s' \in {mp3s, mp3s \cup {g}, mp3s \ {g}}
        /\ \E pc : JobGoes(<<g, d>>, pc)
    BY DEF JobStep, JobRead, JobGet, JobPut, JobDropSource, JobSettle, JobUndo, JobBreaks, JobFail,
           JobClean, JobEnds
  <2>2. \/ gstatus'[g] = gstatus[g]
        \/ gstatus[g] = "transcoding" /\ gstatus'[g] \in {"ready", "failed"}
    <3>1. CASE gstatus' = gstatus BY <3>1
    <3>2. ASSUME gstatus[g] = "transcoding", NEW s \in {"ready", "failed"}, Turns(g, s)
          PROVE  gstatus'[g] = s
      BY <1>0, <3>2 DEF GreetTypeOK, Turns
    <3>3. QED BY <2>1, <3>1, <3>2
  <2>3. ASSUME NEW h \in Greetings \ {g}
        PROVE  /\ gstatus'[h] = gstatus[h] /\ (h \in mp3s' <=> h \in mp3s)
               /\ \A e \in Deliveries : jobPc'[<<h, e>>] = jobPc[<<h, e>>]
    <3>1. gstatus'[h] = gstatus[h] BY <1>0, <2>1 DEF GreetTypeOK, Turns
    <3>2. h \in mp3s' <=> h \in mp3s BY <2>1
    <3>3. ASSUME NEW e \in Deliveries PROVE jobPc'[<<h, e>>] = jobPc[<<h, e>>]
      <4>1. <<h, e>> \in Greetings \X Deliveries /\ <<h, e>> # <<g, d>> OBVIOUS
      <4>2. QED BY <1>0, <2>1, <4>1 DEF GreetTypeOK, JobGoes
    <3>4. QED BY <3>1, <3>2, <3>3
  <2>4. QED BY <2>2, <2>3
<1>3. LockInv'
  <2>1. \A h \in Greetings : gstatus'[h] = "active" => gstatus[h] = "active"
    BY <1>2
  <2>2. QED BY <1>0, <1>1, <2>1, NobodyActivates
<1>4. CASE ~Is("overlap")
  <2>1. Playable(g) BY <1>0, <1>4 DEF PlayInv
  <2>2. d = 1 BY <1>4, <2>1 DEF Playable, JobStep, JobRead, JobGet, JobPut, JobDropSource, JobSettle,
                 JobUndo, JobBreaks, JobFail, JobClean, At, Deliveries
  <2>3. <<g, 1>> \in Greetings \X Deliveries BY DEF Deliveries
  <2>4. ASSUME NEW pc, JobGoes(<<g, 1>>, pc)
        PROVE  jobPc'[<<g, 1>>] = pc /\ jobPc'[<<g, 2>>] = jobPc[<<g, 2>>]
    BY <1>0, <2>3, <2>4 DEF GreetTypeOK, JobGoes, Deliveries
  <2>5. Playable(g)'
    <3>1. CASE JobRead(g, d)
      BY <1>1, <2>1, <2>2, <2>4, <3>1 DEF Playable, JobRead, JobEnds, At
    <3>2. CASE JobGet(g, d)
      BY <1>1, <2>1, <2>2, <2>4, <3>2 DEF Playable, JobGet, At
    <3>3. CASE JobPut(g, d)
      BY <1>1, <2>1, <2>2, <2>4, <3>3 DEF Playable, JobPut, At
    <3>4. CASE JobDropSource(g, d)
      BY <1>1, <2>1, <2>2, <2>4, <3>4 DEF Playable, JobDropSource, At
    <3>5. CASE JobSettle(g, d)
      <4>1. CASE gstatus[g] = "transcoding"
        <5>1. gstatus'[g] = "ready" /\ g \in mp3s /\ g \in mp3s'
          BY <1>0, <2>1, <2>2, <3>5, <4>1 DEF JobSettle, Turns, Playable, At, GreetTypeOK
        <5>2. QED BY <1>1, <2>1, <2>2, <2>4, <3>5, <4>1, <5>1 DEF Playable, JobSettle, JobEnds, At
      <4>2. CASE gstatus[g] # "transcoding"
        BY <1>1, <2>1, <2>2, <2>4, <3>5, <4>2 DEF Playable, JobSettle, At
      <4>3. QED BY <4>1, <4>2
    <3>6. CASE JobUndo(g, d)
      BY <1>1, <2>1, <2>2, <2>4, <3>6 DEF Playable, JobUndo, JobEnds, At
    <3>7. CASE JobBreaks(g, d)
      BY <1>1, <2>1, <2>2, <2>4, <3>7 DEF Playable, JobBreaks, At
    <3>8. CASE JobFail(g, d)
      <4>1. gstatus'[g] = IF gstatus[g] = "transcoding" THEN "failed" ELSE gstatus[g]
        BY <1>0, <3>8 DEF JobFail, Turns, GreetTypeOK
      <4>2. QED BY <1>1, <2>1, <2>2, <2>4, <3>8, <4>1 DEF Playable, JobFail, At
    <3>9. CASE JobClean(g, d)
      BY <1>1, <2>1, <2>2, <2>4, <3>9 DEF Playable, JobClean, JobEnds, At
    <3>10. QED
      BY <3>1, <3>2, <3>3, <3>4, <3>5, <3>6, <3>7, <3>8, <3>9 DEF JobStep
  <2>6. greetKinds' = greetKinds /\ \A h \in Greetings : delPc'[h] = delPc[h] BY <1>1
  <2>7. QED BY <1>0, <1>2, <1>3, <2>5, <2>6, OneMoves
<1>5. CASE Is("overlap")
  <2>1. Is("overlap")' BY <1>1, <1>5 DEF Is
  <2>2. QED BY <1>3, <2>1 DEF PlayInv
<1>6. QED BY <1>3, <1>4, <1>5

LEMMA DeleteKeeps ==
    ASSUME GreetInv, NEW g \in Greetings, DeleteRead(g) \/ DeleteHide(g) \/ DeleteClean(g)
    PROVE  LockInv' /\ PlayInv'
<1> USE DEF rowsOf, objects, jobs, deletes
<1>0. GreetTypeOK /\ LockInv /\ PlayInv BY DEF GreetInv
<1>1. acting' = acting /\ greetKinds' = greetKinds /\ jobPc' = jobPc
  BY DEF DeleteRead, DeleteHide, DeleteClean
<1>2. /\ \A h \in Greetings \ {g} :
            gstatus'[h] = gstatus[h] /\ delPc'[h] = delPc[h] /\ (h \in mp3s' <=> h \in mp3s)
      /\ gstatus'[g] \in {gstatus[g], "deleted"}
  BY <1>0 DEF DeleteRead, DeleteHide, DeleteClean, GreetTypeOK, Turns
<1>3. LockInv'
  <2>1. \A h \in Greetings : gstatus'[h] = "active" => gstatus[h] = "active" BY <1>2
  <2>2. QED BY <1>0, <1>1, <2>1, NobodyActivates
<1>4. Playable(g) => Playable(g)'
  <2>1. CASE DeleteRead(g) BY <1>0, <1>1, <2>1 DEF Playable, DeleteRead, GreetTypeOK
  <2>2. CASE DeleteHide(g) BY <1>0, <1>1, <2>2 DEF Playable, DeleteHide, GreetTypeOK, Turns
  <2>3. CASE DeleteClean(g) BY <1>0, <1>1, <2>3 DEF Playable, DeleteClean, GreetTypeOK
  <2>4. QED BY <2>1, <2>2, <2>3
<1>5. PlayInv' BY <1>0, <1>1, <1>2, <1>4, OneMoves
<1>6. QED BY <1>3, <1>5

(* The candidate is the only one that is active afterwards: the others     *)
(* were among those that the activation retires.                           *)
LEMMA ActivateKeeps ==
    ASSUME GreetInv, NEW g \in Greetings, NEW x \in Members, Activate(x, g) \/ ActivateCommit(x, g)
    PROVE  LockInv' /\ PlayInv'
<1> USE DEF rowsOf, objects, jobs, deletes
<1>0. GreetTypeOK /\ LockInv /\ PlayInv BY DEF GreetInv
<1>1. CASE Activate(x, g)
  <2>1. /\ acting'[x] = [on |-> TRUE, greeting |-> {g},
                         retires |-> {h \in Greetings \ {g} : gstatus[h] = "active"}]
        /\ \A y \in Members \ {x} : acting'[y] = acting[y]
    BY <1>0, <1>1 DEF Activate, GreetTypeOK
  <2>2. LockInv'
    BY <1>0, <1>1, <2>1 DEF Activate, LockInv, OneIsActive, OneActs, RetiresOthers
  <2>3. PlayInv' BY <1>0, <1>1 DEF Activate, PlayInv, Playable, Is
  <2>4. QED BY <2>2, <2>3
<1>2. CASE ActivateCommit(x, g)
  <2>1. acting'[x] = NotActing /\ \A y \in Members \ {x} : acting'[y] = acting[y]
    BY <1>0, <1>2 DEF ActivateCommit, GreetTypeOK
  <2>2. \A y \in Members : acting'[y].greeting = {} /\ ~acting'[y].on
    BY <1>0, <1>2, <2>1 DEF ActivateCommit, LockInv, OneActs, RetiresOthers, NotActing, GreetTypeOK
  <2>3. \/ gstatus' = gstatus
        \/ /\ gstatus[g] = "ready" /\ gstatus'[g] = "active"
           /\ \A h \in Greetings \ {g} : /\ gstatus'[h] # "active"
                                         /\ gstatus'[h] \in {gstatus[h], "deleted"}
    BY <1>0, <1>2 DEF ActivateCommit, LockInv, RetiresOthers, GreetTypeOK
  <2>4. LockInv'
    BY <1>0, <2>2, <2>3 DEF LockInv, OneIsActive, OneActs, RetiresOthers
  <2>5. PlayInv'
    BY <1>0, <1>2, <2>3 DEF ActivateCommit, PlayInv, Playable, Is
  <2>6. QED BY <2>4, <2>5
<1>3. QED BY <1>1, <1>2

LEMMA ServerKeeps == ASSUME GreetInv, ServerDies PROVE LockInv' /\ PlayInv'
<1> USE DEF rowsOf, objects, jobs, deletes
<1>0. GreetTypeOK /\ LockInv /\ PlayInv BY DEF GreetInv
<1>1. LockInv' BY <1>0, NobodyActivates DEF ServerDies
<1>2. \A g \in Greetings : \A d \in Deliveries : jobPc'[<<g, d>>] = "none"
  BY <1>0 DEF ServerDies, GreetTypeOK
<1>3. PlayInv' BY <1>0, <1>2 DEF PlayInv, Playable, ServerDies, Is, Deliveries
<1>4. QED BY <1>1, <1>3

LEMMA GreetStep ==
    ASSUME GreetConstants, GreetInv, [GreetNext]_greetVars PROVE GreetInv'
<1>1. GreetTypeOK' BY GreetTypeStep
<1>2. LockInv' /\ PlayInv'
  <2>1. CASE UNCHANGED greetVars
    BY <2>1 DEF GreetInv, LockInv, OneIsActive, OneActs, RetiresOthers, PlayInv, Playable, Is,
                greetVars, rowsOf, objects, jobs, deletes
  <2>2. QED
    BY <2>1, PostKeeps, JobKeeps, DeleteKeeps, ActivateKeeps, ServerKeeps DEF GreetNext
<1>3. QED BY <1>1, <1>2 DEF GreetInv

LEMMA GreetStart == ASSUME GreetConstants, GreetInit PROVE GreetInv
<1>1. PICK new \in Greetings, first \in Greetings :
         LET old == Greetings \ {new} IN
         /\ gstatus = [g \in Greetings |-> IF g = new THEN "none"
                                           ELSE IF g = first THEN "active" ELSE "ready"]
         /\ storageKey = old /\ sources = {} /\ mp3s = old
         /\ postPc = [g \in Greetings |-> IF g = new THEN "none" ELSE "done"]
         /\ gjob = [g \in Greetings |-> IF g = new THEN "none" ELSE "done"]
  BY DEF GreetInit
<1>2. GreetTypeOK
  BY <1>1, NotActingType DEF GreetInit, GreetTypeOK, GreetConstants, At, Deliveries
<1>3. LockInv
  BY <1>1 DEF GreetInit, LockInv, OneIsActive, OneActs, RetiresOthers, NotActing
<1>4. PlayInv
  BY <1>1 DEF GreetInit, PlayInv, Playable, Deliveries
<1>5. QED BY <1>2, <1>3, <1>4 DEF GreetInv

-----------------------------------------------------------------------------
(* At most one is active, and what may be played is there.                 *)
LEMMA OneIsHeard == GreetInv => CallersHearOne
<1>1. SUFFICES ASSUME GreetInv PROVE OneActive /\ ReadyIsPlayable BY DEF CallersHearOne
<1>2. ReadyIsPlayable BY <1>1 DEF GreetInv, PlayInv, Playable, ReadyIsPlayable
<1> DEFINE heard == {g \in Greetings : gstatus[g] = "active"}
<1>3. CASE heard = {} BY <1>2, <1>3, FS_EmptySet DEF OneActive
<1>4. CASE heard # {}
  <2>1. PICK g \in heard : TRUE BY <1>4
  <2>2. heard = {g} BY <1>1, <2>1 DEF GreetInv, LockInv, OneIsActive
  <2>3. Cardinality({g}) = 1 BY FS_Singleton
  <2>4. Cardinality(heard) <= 1 BY <2>2, <2>3
  <2>5. QED BY <1>2, <2>4 DEF OneActive
<1>5. QED BY <1>3, <1>4

(* Only an activation that succeeds, or a DELETE, takes the active one     *)
(* away, and nothing brings back what is deleted.                          *)
LEMMA GreetingsStay ==
    ASSUME GreetInv, [GreetNext]_greetVars PROVE [ActiveIsReplaced /\ DeletedStaysDeleted]_greetVars
<1> USE DEF ActiveIsReplaced, DeletedStaysDeleted, rowsOf, objects, jobs, deletes
<1>0. GreetTypeOK /\ LockInv BY DEF GreetInv
<1>1. ASSUME NEW g \in Greetings, PostCreate(g) \/ PostStep(g)
      PROVE  ActiveIsReplaced /\ DeletedStaysDeleted
  BY <1>0, <1>1
  DEF GreetTypeOK, PostCreate, PostStep, PostPut, PostMark, PostQueue, PostBreaks, PostFail,
      PostUnput, Turns
<1>2. ASSUME NEW g \in Greetings, NEW d \in Deliveries, JobStep(g, d)
      PROVE  ActiveIsReplaced /\ DeletedStaysDeleted
  BY <1>0, <1>2
  DEF GreetTypeOK, JobStep, JobRead, JobGet, JobPut, JobDropSource, JobSettle, JobUndo, JobBreaks,
      JobFail, JobClean, Turns
<1>3. ASSUME NEW g \in Greetings, DeleteRead(g) \/ DeleteHide(g) \/ DeleteClean(g)
      PROVE  ActiveIsReplaced /\ DeletedStaysDeleted
  BY <1>0, <1>3 DEF GreetTypeOK, DeleteRead, DeleteHide, DeleteClean, Turns
<1>4. ASSUME NEW g \in Greetings, NEW x \in Members, Activate(x, g) \/ ActivateCommit(x, g)
      PROVE  ActiveIsReplaced /\ DeletedStaysDeleted
  BY <1>0, <1>4 DEF GreetTypeOK, Activate, ActivateCommit
<1>5. CASE ServerDies BY <1>5 DEF ServerDies
<1>6. QED BY <1>1, <1>2, <1>3, <1>4, <1>5 DEF GreetNext

(* The rows, the files and the jobs are what the schema, the storage and   *)
(* the queue say they are.                                                 *)
THEOREM GreetTyped == GreetConstants => (GreetSpec => []GreetTypeOK)
<1> SUFFICES ASSUME GreetConstants PROVE GreetSpec => []GreetTypeOK OBVIOUS
<1>1. GreetInit => GreetInv BY GreetStart
<1>2. GreetInv /\ [GreetNext]_greetVars => GreetInv' BY GreetStep
<1>3. GreetInv => GreetTypeOK BY DEF GreetInv
<1>4. QED BY <1>1, <1>2, <1>3, PTL DEF GreetSpec

(* Callers hear one greeting and hear it, until an activation that         *)
(* succeeds or a DELETE decides otherwise, and what was deleted stays so   *)
(* (voicemailGreeting.ts, transcodeGreeting.ts).                           *)
THEOREM GreetingsHold == GreetConstants => (GreetSpec => GreetingStands)
<1> SUFFICES ASSUME GreetConstants PROVE GreetSpec => GreetingStands OBVIOUS
<1>1. GreetInit => GreetInv BY GreetStart
<1>2. GreetInv /\ [GreetNext]_greetVars => GreetInv' BY GreetStep
<1>3. GreetInv' => CallersHearOne' BY OneIsHeard, PTL
<1>4. GreetInv /\ [GreetNext]_greetVars => [StandsOn]_greetVars
  BY <1>2, <1>3, GreetingsStay DEF StandsOn
<1>5. QED BY <1>1, <1>2, <1>4, PTL DEF GreetSpec, GreetingStands

(***************************************************************************)
(* The drops.                                                              *)
(***************************************************************************)

(* What a request and the workers are about, and that a transcription at   *)
(* work is still counted.                                                  *)
WorkIsKnown ==
    /\ \A r \in Requests : request[r].pc # "idle" => request[r].drop \in Drops
    /\ \A c \in Converters : converting[c].pc # "idle" => converting[c].drop \in Drops
    /\ listening.drop # NoDrop => listen[listening.drop] > 0 /\ listening.version > 0

(* No version is younger than the last upload.                             *)
VersionsKnown ==
    /\ \A d \in Drops : webm[d] <= uploads[d] /\ mp3[d] <= uploads[d]
    /\ \A c \in Converters :
          converting[c].pc # "idle" => converting[c].version <= uploads[converting[c].drop]
    /\ listening.drop # NoDrop => listening.version <= uploads[listening.drop]

DropTypeInv == DropTypeOK /\ WorkIsKnown /\ VersionsKnown

(* The locks of a transaction: every row it has locked is there until it   *)
(* ends, and no other transaction has it; one that deletes a drop has      *)
(* locked another as well.                                                 *)
LocksRows(r) ==
    /\ request[r].locks \subseteq drops
    /\ request[r].pc # "commit" => request[r].locks = {}
    /\ request[r].pc = "commit" /\ request[r].op \in {"promote", "delete"}
          => request[r].drop \in request[r].locks
    /\ request[r].pc = "commit" /\ request[r].op = "delete"
          => \E e \in request[r].locks : e # request[r].drop
    /\ request[r].sees # {} => drops # {}
LocksApart == \A r, q \in Requests : r # q => request[r].locks \cap request[q].locks = {}
OneDefault == drops = {} \/ \E d \in drops : isDefault = {d}
LibraryInv == LocksApart /\ OneDefault /\ \A r \in Requests : LocksRows(r)

-----------------------------------------------------------------------------
LEMMA NoRequestType == NoRequest \in DropRequest
BY DEF NoRequest, DropRequest

LEMMA DropTypeStart == ASSUME DropConstants, DropInit PROVE DropTypeInv
<1> USE DEF DropConstants
<1>1. PICK i \in DropInstances :
         drops = i.first /\ mp3 = [d \in Drops |-> IF d \in drops THEN i.version ELSE 0]
  BY DEF DropInit
<1>2. drops \subseteq Drops /\ 0 \in Versions /\ i.version \in Versions /\ i.version > 0
  BY <1>1 DEF Versions
<1>3. mp3 \in [Drops -> Versions] BY <1>1, <1>2
<1>4. isDefault \subseteq drops BY DEF DropInit
<1>5. \A d \in Drops : words[d] <= uploads[d] /\ (transcript[d] = "done" <=> words[d] > 0)
                       /\ webm[d] <= uploads[d] /\ mp3[d] <= uploads[d]
  BY <1>1, <1>2 DEF DropInit, Versions
<1>6. DropTypeOK
  BY <1>2, <1>3, <1>4, <1>5, NoRequestType
  DEF DropInit, DropTypeOK, NotConverting, NotListening, Convert
<1>7. WorkIsKnown /\ VersionsKnown
  BY <1>5 DEF DropInit, WorkIsKnown, VersionsKnown, NoRequest, NotConverting, NotListening
<1>8. QED BY <1>6, <1>7 DEF DropTypeInv

(* A step of a request.                                                    *)
RequestStep(r) ==
    \/ CreateLock(r) \/ CreateCommit(r) \/ CreateUnput(r) \/ QueueJobs(r)
    \/ PromoteCommit(r) \/ ReplaceRow(r) \/ DeleteCommit(r) \/ DeleteObject(r)
    \/ \E d \in Drops :
          \/ \E asDefault \in BOOLEAN : CreatePut(r, d, asDefault)
          \/ PromoteLock(r, d) \/ ReplacePut(r, d) \/ DeleteLock(r, d)
ConvertWork(c) ==
    \/ ConvertGet(c) \/ ConvertPut(c) \/ ConvertDropSource(c) \/ ConvertSettle(c)
    \/ ConvertUndo(c) \/ ConvertBreaks(c) \/ ConvertFail(c) \/ ConvertClean(c)
ConvertStep ==
    \/ \E d \in Drops : ConvertRead(d)
    \/ \E c \in Converters : ConvertWork(c)
    \/ ConvertOverruns
ListenStep ==
    \/ \E d \in Drops : ListenRead(d) \/ ListenSkip(d) \/ ListenFail(d)
    \/ ListenStore

LEMMA DropSteps ==
    DropNext <=> (\E r \in Requests : RequestStep(r)) \/ ConvertStep \/ ListenStep
BY DEF DropNext, RequestStep, ConvertStep, ConvertWork, ListenStep

(* Where a request goes on with a task of its type.                        *)
LEMMA ProceedsType ==
    ASSUME DropTypeInv, NEW r \in Requests, NEW task \in DropRequest,
           task.pc # "idle" => task.drop \in Drops, Proceeds(r, task)
    PROVE  /\ request' \in [Requests -> DropRequest]
           /\ \A q \in Requests : request'[q].pc # "idle" => request'[q].drop \in Drops
BY DEF DropTypeInv, DropTypeOK, WorkIsKnown, Proceeds

-----------------------------------------------------------------------------
(* Two drops are two.                                                      *)
LEMMA TwoAreMany ==
    ASSUME NEW x, NEW y, NEW T \in SUBSET {x, y}, T # {}, ~(Cardinality(T) > 1)
    PROVE  T = {x} \/ T = {y}
<1>1. T \subseteq {x, y} OBVIOUS
<1>2. CASE T = {x, y} /\ x # y
  <2>1. Cardinality({x}) = 1 /\ IsFiniteSet({x}) BY FS_Singleton
  <2>2. Cardinality({x} \cup {y}) = IF y \in {x} THEN Cardinality({x}) ELSE Cardinality({x}) + 1
    BY <2>1, FS_AddElement, Zenon
  <2>3. T = {x} \cup {y} /\ y \notin {x} BY <1>2
  <2>4. Cardinality(T) = 2 BY <2>1, <2>2, <2>3
  <2>5. QED BY <2>4
<1>3. QED BY <1>1, <1>2

(* A step that locks nothing, ends no transaction and leaves the library.  *)
LEMMA LibraryRests ==
    ASSUME LibraryInv, UNCHANGED library,
           \A q \in Requests :
              \/ request'[q] = request[q]
              \/ request'[q].locks = {} /\ request'[q].pc # "commit"
                 /\ request'[q].sees \in {{}, request[q].sees}
    PROVE  LibraryInv'
BY DEF LibraryInv, LocksRows, LocksApart, OneDefault, library

LEMMA LibraryStep ==
    ASSUME DropTypeInv, LibraryInv, NEW r \in Requests, RequestStep(r) PROVE LibraryInv'
<1> DEFINE task == request[r]
<1> USE DEF library
<1>0. /\ request \in [Requests -> DropRequest] /\ drops \subseteq Drops
      /\ isDefault \subseteq drops
  BY DEF DropTypeInv, DropTypeOK
<1>1. /\ LocksApart /\ OneDefault /\ \A q \in Requests : LocksRows(q)
  BY DEF LibraryInv
<1>2. ASSUME NEW new, Proceeds(r, new)
      PROVE  request'[r] = new /\ \A q \in Requests \ {r} : request'[q] = request[q]
  BY <1>0, <1>2 DEF Proceeds
<1>3. ASSUME NEW new, Proceeds(r, new), new.locks = {}, new.pc # "commit",
             new.sees \in {{}, task.sees}, UNCHANGED library
      PROVE  LibraryInv'
  BY <1>2, <1>3, LibraryRests
<1>4. NoRequest.locks = {} /\ NoRequest.pc = "idle" /\ NoRequest.sees = {} BY DEF NoRequest
<1>5. CASE CreateUnput(r) \/ QueueJobs(r) \/ DeleteObject(r)
  BY <1>3, <1>4, <1>5 DEF CreateUnput, QueueJobs, DeleteObject
<1>6. CASE ReplaceRow(r)
  <2>1. task.pc = "row" /\ task.locks = {} BY <1>1, <1>6 DEF ReplaceRow, LocksRows
  <2>2. [task EXCEPT !.pc = "queue"].locks = {} /\ [task EXCEPT !.pc = "queue"].pc = "queue"
        /\ [task EXCEPT !.pc = "queue"].sees = task.sees
    BY <1>0, <2>1 DEF DropRequest
  <2>3. QED BY <1>3, <1>4, <1>6, <2>2 DEF ReplaceRow
<1>7. ASSUME NEW d \in Drops, ReplacePut(r, d) \/ \E asDefault \in BOOLEAN : CreatePut(r, d, asDefault)
      PROVE  LibraryInv'
  <2>1. UNCHANGED library BY <1>7 DEF ReplacePut, CreatePut
  <2>2. CASE ReplacePut(r, d)
    <3> DEFINE new == [NoRequest EXCEPT !.pc = "row", !.op = "replace", !.drop = d]
    <3>1. new.locks = {} /\ new.pc = "row" /\ new.sees = {} BY DEF NoRequest
    <3> HIDE DEF new
    <3>2. Proceeds(r, new) BY <2>2 DEF ReplacePut, Starts, new
    <3>3. QED BY <1>3, <2>1, <3>1, <3>2
  <2>3. ASSUME NEW asDefault \in BOOLEAN, CreatePut(r, d, asDefault) PROVE LibraryInv'
    <3> DEFINE new == [NoRequest EXCEPT !.pc = "lock", !.op = "create", !.drop = d,
                                        !.asDefault = asDefault]
    <3>1. new.locks = {} /\ new.pc = "lock" /\ new.sees = {} BY DEF NoRequest
    <3> HIDE DEF new
    <3>2. Proceeds(r, new) BY <2>3 DEF CreatePut, Starts, new
    <3>3. QED BY <1>3, <2>1, <3>1, <3>2
  <2>4. QED BY <1>7, <2>2, <2>3
<1>8. ASSUME NEW new, Proceeds(r, new), Free(r), new.locks = drops, new.pc = "commit",
             new.op \in {"promote", "delete"} => new.drop \in drops,
             new.op = "delete" => \E e \in drops : e # new.drop,
             new.sees # {} => drops # {}, UNCHANGED library
      PROVE  LibraryInv'
  <2>1. \A q \in Requests \ {r} : request[q].locks = {}
    BY <1>1, <1>8 DEF Free, LocksRows
  <2>2. LocksApart' BY <1>2, <1>8, <2>1 DEF LocksApart
  <2>3. ASSUME NEW q \in Requests PROVE LocksRows(q)'
    BY <1>1, <1>2, <1>8 DEF LocksRows
  <2>4. QED BY <1>1, <1>8, <2>2, <2>3 DEF LibraryInv, OneDefault
<1>9. CASE CreateLock(r)
  <2> DEFINE new == [request[r] EXCEPT !.pc = "commit", !.locks = drops, !.sees = isDefault]
  <2>1. new.locks = drops /\ new.pc = "commit" /\ new.op = "create" /\ new.sees = isDefault
    BY <1>0, <1>9 DEF CreateLock, DropRequest
  <2> HIDE DEF new
  <2>2. Proceeds(r, new) /\ Free(r) /\ UNCHANGED library BY <1>9 DEF CreateLock, new
  <2>3. QED BY <1>0, <1>8, <2>1, <2>2
<1>10. ASSUME NEW d \in Drops, PromoteLock(r, d) PROVE LibraryInv'
  <2> DEFINE new == [NoRequest EXCEPT !.pc = "commit", !.op = "promote", !.drop = d,
                                      !.locks = drops]
  <2>1. /\ new.locks = drops /\ new.pc = "commit" /\ new.drop = d /\ new.op = "promote"
        /\ new.sees = {}
    BY DEF NoRequest
  <2> HIDE DEF new
  <2>p. Proceeds(r, new) BY <1>10 DEF PromoteLock, Starts, new
  <2>2. d \in drops /\ Free(r) /\ UNCHANGED library BY <1>10 DEF PromoteLock
  <2>3. QED BY <1>8, <2>1, <2>2, <2>p
<1>11. ASSUME NEW d \in Drops, DeleteLock(r, d) PROVE LibraryInv'
  <2> DEFINE new == [NoRequest EXCEPT !.pc = "commit", !.op = "delete", !.drop = d,
                                      !.locks = drops, !.key = audio[d]]
  <2>1. /\ new.locks = drops /\ new.pc = "commit" /\ new.drop = d /\ new.op = "delete"
        /\ new.sees = {}
    BY DEF NoRequest
  <2> HIDE DEF new
  <2>p. Proceeds(r, new) BY <1>11 DEF DeleteLock, Starts, new
  <2>2. d \in drops /\ Free(r) /\ UNCHANGED library /\ Cardinality(drops) > 1
    BY <1>11 DEF DeleteLock
  <2>3. Cardinality({d}) = 1 BY FS_Singleton
  <2>4. drops # {d} BY <2>2, <2>3
  <2>5. QED BY <1>8, <2>1, <2>2, <2>4, <2>p
<1>12. ASSUME NEW new, Proceeds(r, new), new.locks = {}, new.pc # "commit",
              new.sees \in {{}, task.sees}, drops' # {}, OneDefault',
              \A q \in Requests \ {r} : request[q].locks \subseteq drops'
       PROVE  LibraryInv'
  <2>1. LocksApart' BY <1>1, <1>2, <1>12 DEF LocksApart
  <2>2. \A q \in Requests : LocksRows(q)' BY <1>1, <1>2, <1>12 DEF LocksRows
  <2>3. QED BY <1>12, <2>1, <2>2 DEF LibraryInv
<1>13. CASE PromoteCommit(r)
  <2>1. task.drop \in drops BY <1>1, <1>13 DEF PromoteCommit, LocksRows
  <2>2. isDefault' = {task.drop} /\ drops' = drops /\ Proceeds(r, NoRequest)
    BY <1>13 DEF PromoteCommit
  <2>3. \A q \in Requests : request[q].locks \subseteq drops BY <1>1 DEF LocksRows
  <2>4. OneDefault' BY <2>1, <2>2 DEF OneDefault
  <2>5. QED BY <1>4, <1>12, <2>1, <2>2, <2>3, <2>4
<1>14. CASE DeleteCommit(r)
  <2> DEFINE new == [task EXCEPT !.pc = "clean", !.locks = {}]
  <2>1. new.locks = {} /\ new.pc = "clean" /\ new.sees = task.sees BY <1>0 DEF DropRequest
  <2> HIDE DEF new
  <2>2. /\ task.drop \in task.locks /\ task.locks \subseteq drops
        /\ \E e \in task.locks : e # task.drop
    BY <1>1, <1>14 DEF DeleteCommit, LocksRows
  <2>3. /\ drops' = drops \ {task.drop} /\ Proceeds(r, new)
        /\ IF task.drop \in isDefault /\ drops' # {} THEN \E e \in drops' : isDefault' = {e}
           ELSE isDefault' = isDefault \ {task.drop}
    BY <1>14 DEF DeleteCommit, new
  <2>4. drops' # {} BY <2>2, <2>3
  <2>5. OneDefault' BY <1>1, <2>2, <2>3, <2>4 DEF OneDefault
  <2>6. \A q \in Requests \ {r} : request[q].locks \subseteq drops'
    BY <1>1, <2>2, <2>3 DEF LocksApart, LocksRows
  <2>7. QED BY <1>12, <2>1, <2>3, <2>4, <2>5, <2>6
<1>15. CASE CreateCommit(r)
  <2> DEFINE refused == [task EXCEPT !.pc = "unput", !.locks = {}]
             new == [task EXCEPT !.pc = "queue", !.locks = {}]
             flags(cleared) == (isDefault \ cleared)
                       \cup (IF task.asDefault \/ task.sees = {} THEN {task.drop} ELSE {})
  <2>1. /\ refused.locks = {} /\ refused.pc = "unput" /\ refused.sees = task.sees
        /\ new.locks = {} /\ new.pc = "queue" /\ new.sees = task.sees
    BY <1>0 DEF DropRequest
  <2> HIDE DEF refused, new
  <2>2. CASE Proceeds(r, refused) /\ UNCHANGED library
    BY <1>3, <2>1, <2>2
  <2>3. ASSUME NEW cleared \in IF task.asDefault THEN {task.sees, isDefault} ELSE {{}},
               ~(Cardinality(flags(cleared)) > 1), drops' = drops \cup {task.drop},
               isDefault' = flags(cleared), Proceeds(r, new)
        PROVE  LibraryInv'
    <3>1. task.sees # {} => drops # {} BY <1>1 DEF LocksRows
    <3>2. drops = {} => isDefault = {} BY <1>0
    <3>3. flags(cleared) # {} BY <1>1, <2>3, <3>1 DEF OneDefault
    <3>4. OneDefault'
      <4>1. CASE drops = {} BY <2>3, <3>2, <3>3, <4>1 DEF OneDefault
      <4>2. CASE drops # {}
        <5>1. PICK d \in drops : isDefault = {d} BY <1>1, <4>2 DEF OneDefault
        <5>2. flags(cleared) \subseteq {d, task.drop} BY <5>1
        <5> HIDE DEF flags
        <5>3. flags(cleared) = {d} \/ flags(cleared) = {task.drop}
          BY <2>3, <3>3, <5>2, TwoAreMany
        <5>4. QED BY <2>3, <5>3 DEF OneDefault
      <4>3. QED BY <4>1, <4>2
    <3>5. \A q \in Requests : request[q].locks \subseteq drops' BY <1>1, <2>3 DEF LocksRows
    <3>6. QED BY <1>12, <2>1, <2>3, <3>4, <3>5
  <2>4. QED BY <1>15, <2>2, <2>3 DEF CreateCommit, refused, new
<1>16. QED
  BY <1>5, <1>6, <1>7, <1>9, <1>10, <1>11, <1>13, <1>14, <1>15 DEF RequestStep

-----------------------------------------------------------------------------
(* A step of a request keeps the types: one that leaves the files and the  *)
(* jobs, and one that uploads, queues or cleans up.                        *)
LEMMA RequestType ==
    ASSUME DropConstants, DropTypeInv, LibraryInv, NEW r \in Requests, RequestStep(r)
    PROVE  DropTypeInv'
<1> DEFINE task == request[r]
<1> USE DEF library, dropRows, dropFiles, queued, workers
<1>0. DropTypeOK /\ WorkIsKnown /\ VersionsKnown BY DEF DropTypeInv
<1>1. task \in DropRequest /\ (task.pc # "idle" => task.drop \in Drops)
  BY <1>0 DEF DropTypeOK, WorkIsKnown
<1>2. NoRequest \in DropRequest /\ NoRequest.pc = "idle" BY NoRequestType DEF NoRequest
<1>3. ASSUME NEW new \in DropRequest, new.pc # "idle" => new.drop \in Drops, Proceeds(r, new),
             UNCHANGED <<dropRows, dropFiles, queued, uploads, workers>>,
             drops' \subseteq Drops, isDefault' \subseteq drops'
      PROVE  DropTypeInv'
  BY <1>0, <1>3, ProceedsType DEF DropTypeInv, DropTypeOK, WorkIsKnown, VersionsKnown
<1>4. CASE CreateLock(r)
  <2> DEFINE new == [task EXCEPT !.pc = "commit", !.locks = drops, !.sees = isDefault]
  <2>1. new \in DropRequest /\ new.drop \in Drops
    BY <1>0, <1>1, <1>4 DEF DropRequest, DropTypeOK, CreateLock
  <2> HIDE DEF new
  <2>2. Proceeds(r, new) BY <1>4 DEF CreateLock, new
  <2>3. QED BY <1>0, <1>3, <1>4, <2>1, <2>2 DEF CreateLock, DropTypeOK
<1>5. CASE CreateCommit(r)
  <2>1. task.drop \in Drops BY <1>1, <1>5 DEF CreateCommit
  <2>2. ASSUME NEW pc \in {"unput", "queue"}
        PROVE  /\ [task EXCEPT !.pc = pc, !.locks = {}] \in DropRequest
               /\ [task EXCEPT !.pc = pc, !.locks = {}].drop \in Drops
    BY <1>1, <2>1, <2>2 DEF DropRequest
  <2>3. \E pc \in {"unput", "queue"} : Proceeds(r, [task EXCEPT !.pc = pc, !.locks = {}])
    BY <1>5 DEF CreateCommit
  <2>4. \/ UNCHANGED library
        \/ drops' = drops \cup {task.drop} /\ isDefault' \subseteq isDefault \cup {task.drop}
    BY <1>5 DEF CreateCommit
  <2>5. drops' \subseteq Drops /\ isDefault' \subseteq drops'
    BY <1>0, <2>1, <2>4 DEF DropTypeOK
  <2>6. UNCHANGED <<dropRows, dropFiles, queued, uploads, workers>> BY <1>5 DEF CreateCommit
  <2>7. QED BY <1>3, <2>2, <2>3, <2>5, <2>6
<1>6. ASSUME NEW d \in Drops, PromoteLock(r, d) PROVE DropTypeInv'
  <2> DEFINE new == [NoRequest EXCEPT !.pc = "commit", !.op = "promote", !.drop = d,
                                      !.locks = drops]
  <2>1. new \in DropRequest /\ new.drop = d
    BY <1>0 DEF DropRequest, DropTypeOK, NoRequest, DropKinds
  <2> HIDE DEF new
  <2>2. Proceeds(r, new) BY <1>6 DEF PromoteLock, Starts, new
  <2>3. QED BY <1>0, <1>3, <1>6, <2>1, <2>2 DEF PromoteLock, DropTypeOK
<1>7. ASSUME NEW d \in Drops, DeleteLock(r, d) PROVE DropTypeInv'
  <2> DEFINE new == [NoRequest EXCEPT !.pc = "commit", !.op = "delete", !.drop = d,
                                      !.locks = drops, !.key = audio[d]]
  <2>1. new \in DropRequest /\ new.drop = d
    BY <1>0 DEF DropRequest, DropTypeOK, NoRequest, DropKinds
  <2> HIDE DEF new
  <2>2. Proceeds(r, new) BY <1>7 DEF DeleteLock, Starts, new
  <2>3. QED BY <1>0, <1>3, <1>7, <2>1, <2>2 DEF DeleteLock, DropTypeOK
<1>8. CASE PromoteCommit(r)
  <2>1. task.drop \in drops BY <1>8 DEF PromoteCommit, LibraryInv, LocksRows
  <2>2. QED BY <1>0, <1>2, <1>3, <1>8, <2>1 DEF PromoteCommit, DropTypeOK
<1>9. CASE DeleteCommit(r)
  <2> DEFINE new == [task EXCEPT !.pc = "clean", !.locks = {}]
  <2>1. new \in DropRequest /\ new.drop \in Drops
    BY <1>1, <1>9 DEF DropRequest, DeleteCommit
  <2> HIDE DEF new
  <2>2. Proceeds(r, new) BY <1>9 DEF DeleteCommit, new
  <2>3. drops' \subseteq Drops /\ isDefault' \subseteq drops'
    BY <1>0, <1>9 DEF DeleteCommit, DropTypeOK
  <2>4. QED BY <1>3, <1>9, <2>1, <2>2, <2>3 DEF DeleteCommit
<1>10. ASSUME NEW d \in Drops, NEW asDefault \in BOOLEAN, CreatePut(r, d, asDefault)
       PROVE  DropTypeInv'
  <2> DEFINE new == [NoRequest EXCEPT !.pc = "lock", !.op = "create", !.drop = d,
                                      !.asDefault = asDefault]
  <2>1. new \in DropRequest /\ new.drop = d BY DEF DropRequest, NoRequest, DropKinds
  <2> HIDE DEF new
  <2>2. Proceeds(r, new) BY <1>10 DEF CreatePut, Starts, new
  <2>3. 1 \in Versions /\ uploads[d] = 0 BY <1>10 DEF CreatePut, Versions, DropConstants
  <2>4. /\ webm' \in [Drops -> Versions] /\ uploads' \in [Drops -> Versions]
        /\ \A e \in Drops : uploads[e] <= uploads'[e] /\ (webm'[e] <= webm[e] \/ webm'[e] <= uploads'[e])
    BY <1>0, <1>10, <2>3 DEF CreatePut, DropTypeOK, Versions
  <2>5. UNCHANGED <<dropKinds, library, dropRows, mp3, queued, workers>> BY <1>10 DEF CreatePut
  <2>6. DropTypeOK'
    BY <1>0, <2>1, <2>2, <2>4, <2>5, ProceedsType DEF DropTypeOK, Versions
  <2>7. WorkIsKnown' BY <1>0, <2>1, <2>2, <2>5, ProceedsType DEF WorkIsKnown
  <2>8. VersionsKnown' BY <1>0, <2>4, <2>5 DEF DropTypeOK, VersionsKnown, WorkIsKnown, Convert, Versions
  <2>9. QED BY <2>6, <2>7, <2>8 DEF DropTypeInv
<1>11. ASSUME NEW d \in Drops, ReplacePut(r, d) PROVE DropTypeInv'
  <2> DEFINE new == [NoRequest EXCEPT !.pc = "row", !.op = "replace", !.drop = d]
  <2>1. new \in DropRequest /\ new.drop = d BY DEF DropRequest, NoRequest, DropKinds
  <2> HIDE DEF new
  <2>2. Proceeds(r, new) BY <1>11 DEF ReplacePut, Starts, new
  <2>3. uploads[d] + 1 \in Versions BY <1>0, <1>11 DEF ReplacePut, DropTypeOK, Versions, DropConstants
  <2>4. /\ webm' \in [Drops -> Versions] /\ uploads' \in [Drops -> Versions]
        /\ \A e \in Drops : uploads[e] <= uploads'[e] /\ (webm'[e] <= webm[e] \/ webm'[e] <= uploads'[e])
    BY <1>0, <1>11, <2>3 DEF ReplacePut, DropTypeOK, Versions
  <2>5. UNCHANGED <<dropKinds, library, dropRows, mp3, queued, workers>> BY <1>11 DEF ReplacePut
  <2>6. DropTypeOK'
    BY <1>0, <2>1, <2>2, <2>4, <2>5, ProceedsType DEF DropTypeOK, Versions
  <2>7. WorkIsKnown' BY <1>0, <2>1, <2>2, <2>5, ProceedsType DEF WorkIsKnown
  <2>8. VersionsKnown'
    BY <1>0, <2>4, <2>5 DEF DropTypeOK, VersionsKnown, WorkIsKnown, Convert, Versions
  <2>9. QED BY <2>6, <2>7, <2>8 DEF DropTypeInv
<1>12. CASE CreateUnput(r) \/ DeleteObject(r)
  <2>1. task.drop \in Drops /\ 0 \in Versions
    BY <1>1, <1>12 DEF CreateUnput, DeleteObject, Versions, DropConstants
  <2>2. /\ webm' \in [Drops -> Versions] /\ mp3' \in [Drops -> Versions]
        /\ \A e \in Drops : webm'[e] \in {webm[e], 0} /\ mp3'[e] \in {mp3[e], 0}
    BY <1>0, <1>12, <2>1 DEF CreateUnput, DeleteObject, DropTypeOK
  <2>3. Proceeds(r, NoRequest) /\ UNCHANGED <<dropKinds, library, dropRows, queued, uploads, workers>>
    BY <1>12 DEF CreateUnput, DeleteObject
  <2>4. DropTypeOK' BY <1>0, <1>2, <2>2, <2>3, ProceedsType DEF DropTypeOK
  <2>5. WorkIsKnown' BY <1>0, <1>2, <2>3, ProceedsType DEF WorkIsKnown
  <2>6. VersionsKnown' BY <1>0, <2>2, <2>3 DEF DropTypeOK, VersionsKnown, Versions
  <2>7. QED BY <2>4, <2>5, <2>6 DEF DropTypeInv
<1>13. CASE QueueJobs(r)
  <2>1. task.drop \in Drops BY <1>1, <1>13 DEF QueueJobs
  <2>2. /\ convert' \in [Drops -> Nat] /\ listen' \in [Drops -> Nat]
        /\ \A e \in Drops : convert[e] <= convert'[e] /\ listen[e] <= listen'[e]
    BY <1>0, <1>13, <2>1 DEF QueueJobs, DropTypeOK
  <2>3. Proceeds(r, NoRequest) /\ UNCHANGED <<dropKinds, library, dropRows, dropFiles, uploads, workers>>
    BY <1>13 DEF QueueJobs
  <2>4. DropTypeOK' BY <1>0, <1>2, <2>2, <2>3, ProceedsType DEF DropTypeOK
  <2>5. WorkIsKnown'
    BY <1>0, <1>2, <2>2, <2>3, ProceedsType DEF WorkIsKnown, DropTypeOK
  <2>6. VersionsKnown' BY <1>0, <2>3 DEF VersionsKnown
  <2>7. QED BY <2>4, <2>5, <2>6 DEF DropTypeInv
<1>14. CASE ReplaceRow(r)
  <2> DEFINE new == [task EXCEPT !.pc = "queue"]
  <2>1. new \in DropRequest /\ new.drop \in Drops BY <1>1, <1>14 DEF DropRequest, ReplaceRow
  <2>2. Proceeds(r, new) \/ Proceeds(r, NoRequest) BY <1>14 DEF ReplaceRow
  <2> HIDE DEF new
  <2>3. /\ audio' \in [Drops -> {"webm", "mp3"}]
        /\ words' \in [Drops -> Versions] /\ transcript' \in [Drops -> {"pending", "done", "failed"}]
        /\ \A d \in Drops : words'[d] <= uploads[d] /\ (transcript'[d] = "done" <=> words'[d] > 0)
    BY <1>0, <1>14 DEF ReplaceRow, DropTypeOK, Versions, DropConstants
  <2>4. UNCHANGED <<dropKinds, library, dropFiles, queued, uploads, workers>>
    BY <1>14 DEF ReplaceRow
  <2>5. DropTypeOK' BY <1>0, <1>2, <2>1, <2>2, <2>3, <2>4, ProceedsType DEF DropTypeOK
  <2>6. WorkIsKnown' BY <1>0, <1>2, <2>1, <2>2, <2>4, ProceedsType DEF WorkIsKnown
  <2>7. VersionsKnown' BY <1>0, <2>4 DEF VersionsKnown
  <2>8. QED BY <2>5, <2>6, <2>7 DEF DropTypeInv
<1>15. QED
  BY <1>4, <1>5, <1>6, <1>7, <1>8, <1>9, <1>10, <1>11, <1>12, <1>13, <1>14 DEF RequestStep

(* A step of a worker keeps the types.                                     *)
LEMMA ListenType ==
    ASSUME DropConstants, DropTypeInv, ListenStep PROVE DropTypeInv'
<1> USE DEF library, dropRows, dropFiles, queued, workers
<1>0. DropTypeOK /\ WorkIsKnown /\ VersionsKnown BY DEF DropTypeInv
<1>1. NotListening \in [drop : Drops \cup {NoDrop}, version : Versions]
      /\ NotListening.drop = NoDrop
  BY DEF NotListening, Versions, DropConstants
<1>2. ASSUME NEW d \in Drops, listen[d] > 0, Heard(d),
             UNCHANGED <<dropKinds, library, audio, dropFiles, convert, uploads, request, converting>>,
             \/ UNCHANGED <<words, transcript>>
             \/ /\ words[d] = 0 /\ words' = words
                /\ transcript' = [transcript EXCEPT ![d] = "failed"]
             \/ \E v \in 1..uploads[d] : /\ words' = [words EXCEPT ![d] = v]
                                         /\ transcript' = [transcript EXCEPT ![d] = "done"]
      PROVE  DropTypeInv'
  <2>1. listen' \in [Drops -> Nat] BY <1>0, <1>2 DEF DropTypeOK, Heard
  <2>2. uploads[d] \in Versions BY <1>0 DEF DropTypeOK
  <2>3. /\ words' \in [Drops -> Versions] /\ transcript' \in [Drops -> {"pending", "done", "failed"}]
        /\ \A e \in Drops : words'[e] <= uploads[e] /\ (transcript'[e] = "done" <=> words'[e] > 0)
    BY <1>0, <1>2, <2>2 DEF DropTypeOK, Versions, DropConstants
  <2>4. DropTypeOK' BY <1>0, <1>1, <1>2, <2>1, <2>3 DEF DropTypeOK, Heard
  <2>5. WorkIsKnown' /\ VersionsKnown'
    BY <1>0, <1>1, <1>2 DEF WorkIsKnown, VersionsKnown, Heard
  <2>6. QED BY <2>4, <2>5 DEF DropTypeInv
<1>3. ASSUME NEW d \in Drops, ListenRead(d) PROVE DropTypeInv'
  <2>1. Stored(d) \in Versions /\ Stored(d) <= uploads[d]
    BY <1>0 DEF Stored, DropTypeOK, VersionsKnown
  <2>2. listening' = [drop |-> d, version |-> Stored(d)] /\ Stored(d) > 0 /\ listen[d] > 0
    BY <1>3 DEF ListenRead
  <2>3. UNCHANGED <<dropKinds, library, dropRows, dropFiles, queued, uploads, request, converting>>
    BY <1>3 DEF ListenRead
  <2>4. DropTypeOK' BY <1>0, <2>1, <2>2, <2>3 DEF DropTypeOK
  <2>5. WorkIsKnown' /\ VersionsKnown'
    BY <1>0, <2>1, <2>2, <2>3 DEF WorkIsKnown, VersionsKnown
  <2>6. QED BY <2>4, <2>5 DEF DropTypeInv
<1>4. ASSUME NEW d \in Drops, ListenSkip(d) PROVE DropTypeInv'
  BY <1>2, <1>4 DEF ListenSkip
<1>5. ASSUME NEW d \in Drops, ListenFail(d) PROVE DropTypeInv'
  <2>1. words[d] = 0
    BY <1>0, <1>5 DEF ListenFail, Wanted, DropTypeOK, Versions
  <2>2. QED BY <1>2, <1>5, <2>1 DEF ListenFail
<1>6. CASE ListenStore
  <2>1. /\ listening.drop \in Drops /\ listen[listening.drop] > 0
        /\ listening.version \in 1..uploads[listening.drop]
    BY <1>0, <1>6 DEF ListenStore, DropTypeOK, WorkIsKnown, VersionsKnown, Versions
  <2>2. QED BY <1>2, <1>6, <2>1 DEF ListenStore
<1>7. QED BY <1>3, <1>4, <1>5, <1>6 DEF ListenStep

LEMMA ConvertType ==
    ASSUME DropConstants, DropTypeInv, ConvertStep PROVE DropTypeInv'
<1> USE DEF library, dropRows, dropFiles, queued, workers
<1>0. /\ DropTypeOK /\ WorkIsKnown /\ VersionsKnown
      /\ converting \in [Converters -> Convert] /\ convert \in [Drops -> Nat]
      /\ \A c \in Converters : converting[c].version \in Versions /\ (converting[c].pc # "idle"
            => converting[c].drop \in Drops /\ converting[c].version <= uploads[converting[c].drop])
  BY DEF DropTypeInv, DropTypeOK, WorkIsKnown, VersionsKnown, ConvertAt, Convert
<1>1. NotConverting \in Convert /\ NotConverting.pc = "idle" /\ 0 \in Versions
  BY DEF NotConverting, Convert, Versions, DropConstants
<1>2. ASSUME UNCHANGED <<dropKinds, library, words, listen, uploads, request, listening>>,
             audio' \in [Drops -> {"webm", "mp3"}],
             transcript' \in [Drops -> {"pending", "done", "failed"}],
             \A d \in Drops : transcript'[d] = "done" <=> transcript[d] = "done",
             webm' \in [Drops -> Versions], mp3' \in [Drops -> Versions],
             \A d \in Drops : webm'[d] <= uploads[d] /\ mp3'[d] <= uploads[d],
             convert' \in [Drops -> Nat], converting' \in [Converters -> Convert],
             \A c \in Converters : converting'[c].pc # "idle"
                => converting'[c].drop \in Drops /\ converting'[c].version <= uploads[converting'[c].drop]
      PROVE  DropTypeInv'
  BY <1>0, <1>2 DEF DropTypeInv, DropTypeOK, WorkIsKnown, VersionsKnown, ConvertAt
<1>3. ASSUME NEW c \in Converters, ConvertEnds(c)
      PROVE  /\ converting' \in [Converters -> Convert]
             /\ \A b \in Converters : converting'[b].pc # "idle" =>
                   /\ converting'[b].drop \in Drops
                   /\ converting'[b].version <= uploads[converting'[b].drop]
  BY <1>0, <1>1, <1>3 DEF ConvertEnds
<1>4. ASSUME NEW c \in Converters, NEW new \in Convert, new.drop = converting[c].drop,
             converting[c].pc # "idle", new.version <= uploads[new.drop],
             converting' = [converting EXCEPT ![c] = new]
      PROVE  /\ converting' \in [Converters -> Convert]
             /\ \A b \in Converters : converting'[b].pc # "idle" =>
                   /\ converting'[b].drop \in Drops
                   /\ converting'[b].version <= uploads[converting'[b].drop]
  BY <1>0, <1>4
<1>5. ASSUME NEW c \in Converters, converting[c].pc # "idle", ConvertGoes(c, "get") \/
             \E pc \in {"put", "drop", "settle", "undo", "fail", "clean"} : ConvertGoes(c, pc)
      PROVE  /\ converting' \in [Converters -> Convert]
             /\ \A b \in Converters : converting'[b].pc # "idle" =>
                   /\ converting'[b].drop \in Drops
                   /\ converting'[b].version <= uploads[converting'[b].drop]
  <2>1. PICK pc \in {"get", "put", "drop", "settle", "undo", "fail", "clean"} : ConvertGoes(c, pc)
    BY <1>5
  <2> DEFINE new == [converting[c] EXCEPT !.pc = pc]
  <2>2. /\ new \in Convert /\ new.drop = converting[c].drop /\ new.version = converting[c].version
        /\ converting' = [converting EXCEPT ![c] = new]
    BY <1>0, <2>1 DEF Convert, ConvertGoes
  <2> HIDE DEF new
  <2>3. QED BY <1>0, <1>4, <1>5, <2>2
<1>6. ASSUME NEW d \in Drops, ConvertRead(d) PROVE DropTypeInv'
  <2> DEFINE new == [pc |-> "get", drop |-> d, version |-> 0]
  <2>1. UNCHANGED <<dropKinds, library, dropRows, dropFiles, listen, uploads, request, listening>>
    BY <1>6 DEF ConvertRead
  <2>2. convert' \in [Drops -> Nat] BY <1>0, <1>6 DEF ConvertRead
  <2>3. new \in Convert /\ new.drop = d /\ new.version = 0 BY <1>1 DEF Convert
  <2> HIDE DEF new
  <2>4. 0 <= uploads[d] /\ 1 \in Converters BY <1>0 DEF DropTypeOK, Versions, Converters
  <2>5. converting' = [converting EXCEPT ![1] = new] \/ converting' = converting
    BY <1>6 DEF ConvertRead, new
  <2>6. converting' \in [Converters -> Convert] BY <1>0, <2>3, <2>4, <2>5
  <2>7. \A b \in Converters : converting'[b].pc # "idle" =>
           /\ converting'[b].drop \in Drops /\ converting'[b].version <= uploads[converting'[b].drop]
    BY <1>0, <2>3, <2>4, <2>5
  <2>8. QED BY <1>0, <1>2, <2>1, <2>2, <2>6, <2>7 DEF DropTypeOK, VersionsKnown
<1>7. ASSUME NEW c \in Converters, ConvertGet(c) PROVE DropTypeInv'
  <2> DEFINE d == converting[c].drop
             new == [converting[c] EXCEPT !.pc = "put", !.version = webm[d]]
  <2>1. /\ converting[c].pc # "idle" /\ converting' = [converting EXCEPT ![c] = new]
        /\ UNCHANGED <<dropKinds, library, dropRows, dropFiles, queued, uploads, request, listening>>
    BY <1>0, <1>7 DEF ConvertGet, ConvertAt
  <2>2. d \in Drops /\ webm[d] \in Versions /\ webm[d] <= uploads[d]
    BY <1>0, <2>1 DEF DropTypeOK, VersionsKnown
  <2>3. new \in Convert /\ new.drop = d /\ new.version = webm[d] BY <1>0, <2>2 DEF Convert
  <2> HIDE DEF new
  <2>4. QED BY <1>0, <1>2, <1>4, <2>1, <2>2, <2>3 DEF DropTypeOK, VersionsKnown
<1>8. ASSUME NEW c \in Converters, ConvertPut(c) \/ ConvertDropSource(c) PROVE DropTypeInv'
  <2>1. converting[c].pc # "idle" /\ converting[c].drop \in Drops
        /\ converting[c].version \in Versions /\ converting[c].version <= uploads[converting[c].drop]
    BY <1>0, <1>8 DEF ConvertPut, ConvertDropSource, ConvertAt
  <2>2. /\ webm' \in [Drops -> Versions] /\ mp3' \in [Drops -> Versions]
        /\ \A d \in Drops : webm'[d] <= uploads[d] /\ mp3'[d] <= uploads[d]
    BY <1>0, <1>1, <1>8, <2>1 DEF ConvertPut, ConvertDropSource, DropTypeOK, VersionsKnown, Versions
  <2>3. /\ ConvertGoes(c, "drop") \/ ConvertGoes(c, "settle")
        /\ UNCHANGED <<dropKinds, library, dropRows, queued, uploads, request, listening>>
    BY <1>8 DEF ConvertPut, ConvertDropSource
  <2>4. QED BY <1>0, <1>2, <1>5, <2>1, <2>2, <2>3 DEF DropTypeOK
<1>9. ASSUME NEW c \in Converters, ConvertSettle(c) PROVE DropTypeInv'
  <2>1. converting[c].pc # "idle" BY <1>9 DEF ConvertSettle, ConvertAt
  <2>2. audio' \in [Drops -> {"webm", "mp3"}] BY <1>0, <1>9 DEF ConvertSettle, DropTypeOK
  <2>3. ConvertEnds(c) \/ ConvertGoes(c, "undo") BY <1>9 DEF ConvertSettle
  <2>4. UNCHANGED <<dropKinds, library, words, transcript, dropFiles, queued, uploads, request,
                    listening>>
    BY <1>9 DEF ConvertSettle
  <2>5. QED BY <1>0, <1>2, <1>3, <1>5, <2>1, <2>2, <2>3, <2>4 DEF DropTypeOK, VersionsKnown
<1>10. ASSUME NEW c \in Converters, ConvertUndo(c) \/ ConvertClean(c) PROVE DropTypeInv'
  <2>1. converting[c].drop \in Drops
    BY <1>0, <1>10 DEF ConvertUndo, ConvertClean, ConvertAt
  <2>2. /\ webm' \in [Drops -> Versions] /\ mp3' \in [Drops -> Versions]
        /\ \A d \in Drops : webm'[d] <= uploads[d] /\ mp3'[d] <= uploads[d]
    BY <1>0, <1>1, <1>10, <2>1 DEF ConvertUndo, ConvertClean, DropTypeOK, VersionsKnown, Versions
  <2>3. /\ ConvertEnds(c)
        /\ UNCHANGED <<dropKinds, library, dropRows, queued, uploads, request, listening>>
    BY <1>10 DEF ConvertUndo, ConvertClean
  <2>4. QED BY <1>0, <1>2, <1>3, <2>1, <2>2, <2>3 DEF DropTypeOK
<1>11. ASSUME NEW c \in Converters, ConvertBreaks(c) PROVE DropTypeInv'
  <2>1. converting[c].pc # "idle" /\ converting[c].drop \in Drops BY <1>0, <1>11 DEF ConvertBreaks
  <2>2. UNCHANGED <<dropKinds, library, dropRows, dropFiles, listen, uploads, request, listening>>
    BY <1>11 DEF ConvertBreaks
  <2>3. convert' \in [Drops -> Nat] BY <1>0, <1>11, <2>1 DEF ConvertBreaks, Queues
  <2>4. ConvertEnds(c) \/ ConvertGoes(c, "fail") BY <1>11 DEF ConvertBreaks
  <2>5. QED BY <1>0, <1>2, <1>3, <1>5, <2>1, <2>2, <2>3, <2>4 DEF DropTypeOK, VersionsKnown
<1>12. ASSUME NEW c \in Converters, ConvertFail(c) PROVE DropTypeInv'
  <2>1. converting[c].pc # "idle" /\ ConvertGoes(c, "clean") BY <1>12 DEF ConvertFail, ConvertAt
  <2>2. UNCHANGED <<dropKinds, library, audio, words, dropFiles, queued, uploads, request, listening>>
    BY <1>12 DEF ConvertFail
  <2>3. /\ transcript' \in [Drops -> {"pending", "done", "failed"}]
        /\ \A d \in Drops : transcript'[d] = "done" <=> transcript[d] = "done"
    BY <1>0, <1>12 DEF ConvertFail, DropTypeOK
  <2>4. QED BY <1>0, <1>2, <1>5, <2>1, <2>2, <2>3 DEF DropTypeOK, VersionsKnown
<1>13. CASE ConvertOverruns
  <2>1. 1 \in Converters /\ converting[1].pc # "idle" BY <1>13 DEF ConvertOverruns, ConvertAt, Converters
  <2>2. convert' \in [Drops -> Nat] BY <1>0, <1>13, <2>1 DEF ConvertOverruns, Queues
  <2>3. converting' = [c \in Converters |-> IF c = 1 THEN NotConverting ELSE converting[1]]
    BY <1>13 DEF ConvertOverruns
  <2>4. converting' \in [Converters -> Convert] BY <1>0, <1>1, <2>1, <2>3
  <2>5. \A b \in Converters : converting'[b].pc # "idle" =>
           /\ converting'[b].drop \in Drops /\ converting'[b].version <= uploads[converting'[b].drop]
    BY <1>0, <1>1, <2>1, <2>3
  <2>6. UNCHANGED <<dropKinds, library, dropRows, dropFiles, listen, uploads, request, listening>>
    BY <1>13 DEF ConvertOverruns
  <2>7. QED BY <1>0, <1>2, <2>2, <2>4, <2>5, <2>6 DEF DropTypeOK, VersionsKnown
<1>14. QED
  BY <1>6, <1>7, <1>8, <1>9, <1>10, <1>11, <1>12, <1>13 DEF ConvertStep, ConvertWork

-----------------------------------------------------------------------------
(* What the conversion goes by. A drop whose upload is still to become a   *)
(* row has no other traces; what a DELETE has taken away, never comes      *)
(* back.                                                                   *)
Making(r) == request[r].op = "create" /\ request[r].pc \in {"lock", "commit"}
Known(d) == uploads[d] > 0 /\ \A r \in Requests : Making(r) => request[r].drop # d

MakesNewDrop(r) ==
    /\ Making(r) => /\ request[r].drop \notin drops /\ uploads[request[r].drop] > 0
                    /\ audio[request[r].drop] = "webm"
    /\ request[r].pc = "clean" => request[r].drop \notin drops /\ Known(request[r].drop)
    /\ request[r].pc = "commit" => request[r].op \in {"create", "promote", "delete"}
MakeApart ==
    \A r, q \in Requests : r # q /\ Making(r) /\ Making(q) => request[r].drop # request[q].drop

(* Where deliveries do not overlap, the one at work is the only one that   *)
(* settles its drop; its MP3 is there from the put until somebody deletes  *)
(* the drop, and is undone only then.                                      *)
ConvertsIt ==
    /\ converting[2].pc = "idle"
    /\ converting[1].pc # "idle" =>
          /\ Known(converting[1].drop)
          /\ converting[1].drop \in drops
                => converting[1].pc # "undo" /\ audio[converting[1].drop] = "webm"
          /\ converting[1].pc = "put" => converting[1].version > 0
          /\ converting[1].pc \in {"drop", "settle"} /\ converting[1].drop \in drops
                => mp3[converting[1].drop] > 0
AudioInv ==
    /\ \A d \in drops : Known(d)
    /\ \A d \in Drops : uploads[d] = 0 => audio[d] = "webm"
    /\ \A r \in Requests : MakesNewDrop(r)
    /\ MakeApart /\ ConvertsIt /\ AlwaysHasAudio

(* A step of a request that makes no drop, and plays nothing that has no   *)
(* audio.                                                                  *)
LEMMA AudioRests ==
    ASSUME DropTypeInv, AudioInv, NEW r \in Requests, DropTypeInv',
           \A q \in Requests \ {r} : request'[q] = request[q],
           UNCHANGED converting, drops' \subseteq drops,
           \A d \in Drops : uploads[d] <= uploads'[d] /\ audio'[d] \in {audio[d], "webm"},
           \A d \in drops' : mp3'[d] = mp3[d],
           Making(r)' => Making(r) /\ request'[r].drop = request[r].drop,
           request'[r].pc = "clean" => request'[r].drop \notin drops' /\ Known(request'[r].drop),
           request'[r].pc = "commit" => request'[r].op \in {"create", "promote", "delete"}
    PROVE  AudioInv'
<1>0. DropTypeOK /\ WorkIsKnown /\ DropTypeOK' /\ WorkIsKnown' BY DEF DropTypeInv
<1>1. \A q \in Requests : Making(q)' => Making(q) /\ request'[q].drop = request[q].drop
  BY DEF Making
<1>2. \A q \in Requests : Making(q) => request[q].drop \in Drops
  BY <1>0 DEF Making, WorkIsKnown
<1>3. \A d \in Drops : uploads[d] \in Nat /\ uploads'[d] \in Nat BY <1>0 DEF DropTypeOK, Versions
<1>4. \A d \in Drops : Known(d) => Known(d)' BY <1>1, <1>3 DEF Known
<1>5. drops' \subseteq Drops BY <1>0 DEF DropTypeOK
<1>6. (\A d \in drops : Known(d))' BY <1>4, <1>5 DEF AudioInv
<1>7. (\A d \in Drops : uploads[d] = 0 => audio[d] = "webm")' BY <1>3 DEF AudioInv
<1>8. ASSUME NEW q \in Requests PROVE MakesNewDrop(q)'
  <2>1. Making(q)' => request'[q].drop \notin drops' /\ uploads'[request'[q].drop] > 0
                      /\ audio'[request'[q].drop] = "webm"
    BY <1>1, <1>2, <1>3 DEF AudioInv, MakesNewDrop
  <2>2. request'[q].pc = "clean" => request'[q].drop \notin drops' /\ Known(request'[q].drop)
    BY DEF AudioInv, MakesNewDrop
  <2>3. request'[q].pc # "idle" => request'[q].drop \in Drops BY <1>0 DEF WorkIsKnown
  <2>4. (request[q].pc = "clean" => request[q].drop \notin drops /\ Known(request[q].drop))'
    <3> DEFINE d == request'[q].drop
    <3>1. d \in Drops /\ Known(d)
             => uploads'[d] > 0 /\ \A t \in Requests : Making(t)' => request'[t].drop # d
      BY <1>4 DEF Known
    <3>2. QED BY <2>2, <2>3, <3>1 DEF Known
  <2>5. request'[q].pc = "commit" => request'[q].op \in {"create", "promote", "delete"}
    BY DEF AudioInv, MakesNewDrop
  <2>6. QED BY <2>1, <2>4, <2>5 DEF MakesNewDrop
<1>9. MakeApart' BY <1>1 DEF AudioInv, MakeApart
<1>10. ConvertsIt' BY <1>0, <1>4 DEF AudioInv, ConvertsIt, WorkIsKnown, Converters
<1>11. AlwaysHasAudio' BY <1>5 DEF AudioInv, AlwaysHasAudio
<1>12. QED BY <1>6, <1>7, <1>8, <1>9, <1>10, <1>11 DEF AudioInv

LEMMA RequestAudio ==
    ASSUME DropConstants, DropTypeInv, LibraryInv, AudioInv, NEW r \in Requests, RequestStep(r),
           DropTypeInv'
    PROVE  AudioInv'
<1> DEFINE task == request[r]
<1> USE DEF library, dropRows, dropFiles, queued, workers
<1>0. /\ DropTypeOK /\ WorkIsKnown /\ DropTypeOK'
      /\ request \in [Requests -> DropRequest] /\ task \in DropRequest
  BY DEF DropTypeInv, DropTypeOK
<1>1. /\ \A d \in Drops : uploads[d] \in Nat /\ audio[d] \in {"webm", "mp3"}
      /\ drops \subseteq Drops
      /\ task.pc # "idle" => task.drop \in Drops
  BY <1>0 DEF DropTypeOK, Versions, WorkIsKnown
<1>2. ASSUME NEW new, Proceeds(r, new)
      PROVE  request'[r] = new /\ \A q \in Requests \ {r} : request'[q] = request[q]
  BY <1>0, <1>2 DEF Proceeds
<1>3. ASSUME NEW new, Proceeds(r, new), UNCHANGED converting, drops' \subseteq drops,
             \A d \in Drops : uploads[d] <= uploads'[d] /\ audio'[d] \in {audio[d], "webm"},
             \A d \in drops' : mp3'[d] = mp3[d],
             new.pc = "lock" => FALSE,
             new.pc = "clean" => new.drop \notin drops' /\ Known(new.drop),
             new.pc = "commit" => /\ new.op \in {"create", "promote", "delete"}
                                  /\ new.op = "create" => Making(r) /\ new.drop = task.drop
      PROVE  AudioInv'
  BY <1>2, <1>3, AudioRests DEF Making
<1>4. CASE CreateUnput(r) \/ QueueJobs(r) \/ PromoteCommit(r)
  BY <1>0, <1>1, <1>3, <1>4
  DEF CreateUnput, QueueJobs, PromoteCommit, NoRequest
<1>5. CASE DeleteObject(r)
  <2>1. task.drop \notin drops BY <1>5 DEF DeleteObject, AudioInv, MakesNewDrop
  <2>2. \A d \in drops' : mp3'[d] = mp3[d]
    BY <1>0, <1>1, <1>5, <2>1 DEF DeleteObject, DropTypeOK
  <2>3. QED BY <1>1, <1>3, <1>5, <2>2 DEF DeleteObject, NoRequest
<1>6. CASE ReplaceRow(r)
  <2> DEFINE new == [task EXCEPT !.pc = "queue"]
  <2>1. new.pc = "queue" BY <1>0 DEF DropRequest
  <2>2. Proceeds(r, new) \/ Proceeds(r, NoRequest) BY <1>6 DEF ReplaceRow
  <2> HIDE DEF new
  <2>3. \A d \in Drops : audio'[d] \in {audio[d], "webm"} BY <1>0, <1>6 DEF ReplaceRow, DropTypeOK
  <2>4. UNCHANGED <<converting, drops, uploads, mp3>> BY <1>6 DEF ReplaceRow
  <2>5. QED BY <1>1, <1>3, <2>1, <2>2, <2>3, <2>4 DEF NoRequest
<1>7. ASSUME NEW d \in Drops, ReplacePut(r, d) PROVE AudioInv'
  <2> DEFINE new == [NoRequest EXCEPT !.pc = "row", !.op = "replace", !.drop = d]
  <2>1. new.pc = "row" BY DEF NoRequest
  <2> HIDE DEF new
  <2>2. Proceeds(r, new) /\ UNCHANGED <<converting, drops, audio, mp3>>
    BY <1>7 DEF ReplacePut, Starts, new
  <2>3. \A e \in Drops : uploads[e] <= uploads'[e] BY <1>0, <1>1, <1>7 DEF ReplacePut, DropTypeOK
  <2>4. QED BY <1>1, <1>3, <2>1, <2>2, <2>3
<1>8. CASE CreateLock(r)
  <2> DEFINE new == [task EXCEPT !.pc = "commit", !.locks = drops, !.sees = isDefault]
  <2>1. new.pc = "commit" /\ new.op = "create" /\ new.drop = task.drop
    BY <1>0, <1>8 DEF DropRequest, CreateLock
  <2> HIDE DEF new
  <2>2. Proceeds(r, new) /\ UNCHANGED <<converting, drops, audio, mp3, uploads>>
    BY <1>8 DEF CreateLock, new
  <2>3. Making(r) BY <1>8 DEF CreateLock, Making
  <2>4. QED BY <1>1, <1>3, <2>1, <2>2, <2>3
<1>9. ASSUME NEW d \in Drops, PromoteLock(r, d) PROVE AudioInv'
  <2> DEFINE new == [NoRequest EXCEPT !.pc = "commit", !.op = "promote", !.drop = d,
                                      !.locks = drops]
  <2>1. new.pc = "commit" /\ new.op = "promote" BY DEF NoRequest
  <2> HIDE DEF new
  <2>2. Proceeds(r, new) /\ UNCHANGED <<converting, drops, audio, mp3, uploads>>
    BY <1>9 DEF PromoteLock, Starts, new
  <2>3. QED BY <1>1, <1>3, <2>1, <2>2
<1>13. ASSUME NEW d \in Drops, DeleteLock(r, d) PROVE AudioInv'
  <2> DEFINE new == [NoRequest EXCEPT !.pc = "commit", !.op = "delete", !.drop = d,
                                      !.locks = drops, !.key = audio[d]]
  <2>1. new.pc = "commit" /\ new.op = "delete" BY DEF NoRequest
  <2> HIDE DEF new
  <2>2. Proceeds(r, new) /\ UNCHANGED <<converting, drops, audio, mp3, uploads>>
    BY <1>13 DEF DeleteLock, Starts, new
  <2>3. QED BY <1>1, <1>3, <2>1, <2>2
<1>10. CASE DeleteCommit(r)
  <2> DEFINE new == [task EXCEPT !.pc = "clean", !.locks = {}]
  <2>1. new.pc = "clean" /\ new.drop = task.drop BY <1>0 DEF DropRequest
  <2> HIDE DEF new
  <2>2. /\ Proceeds(r, new) /\ drops' = drops \ {task.drop}
        /\ UNCHANGED <<converting, audio, mp3, uploads>>
    BY <1>10 DEF DeleteCommit, new
  <2>3. task.drop \in drops BY <1>10 DEF DeleteCommit, LibraryInv, LocksRows
  <2>4. Known(task.drop) BY <2>3 DEF AudioInv
  <2>5. QED BY <1>1, <1>3, <2>1, <2>2, <2>4
<1>11. ASSUME NEW d \in Drops, NEW asDefault \in BOOLEAN, CreatePut(r, d, asDefault)
       PROVE  AudioInv'
  <2>1. /\ uploads[d] = 0 /\ uploads' = [uploads EXCEPT ![d] = 1]
        /\ UNCHANGED <<converting, drops, audio, mp3>>
    BY <1>11 DEF CreatePut
  <2> DEFINE new == [NoRequest EXCEPT !.pc = "lock", !.op = "create", !.drop = d,
                                      !.asDefault = asDefault]
  <2>2. new.pc = "lock" /\ new.op = "create" /\ new.drop = d BY DEF NoRequest
  <2> HIDE DEF new
  <2>3. Proceeds(r, new) BY <1>11 DEF CreatePut, Starts, new
  <2>4. request'[r] = new /\ \A q \in Requests \ {r} : request'[q] = request[q]
    BY <1>2, <2>3
  <2>5. /\ \A e \in Drops : uploads'[e] = IF e = d THEN 1 ELSE uploads[e]
        /\ d \notin drops /\ audio[d] = "webm"
        /\ \A q \in Requests : Making(q) => request[q].drop # d /\ request[q].drop \in Drops
    BY <1>0, <1>1, <2>1 DEF AudioInv, Known, MakesNewDrop, DropTypeOK, Making, WorkIsKnown
  <2>6. ASSUME NEW e, e # d, e \in Drops, Known(e)
        PROVE  uploads'[e] > 0 /\ \A q \in Requests : Making(q)' => request'[q].drop # e
    BY <2>2, <2>4, <2>5, <2>6 DEF Known, Making
  <2>7. \A e : Known(e) => e # d BY <2>1 DEF Known
  <2>8. ASSUME NEW e \in drops' PROVE Known(e)'
    <3>1. e \in drops /\ e \in Drops /\ e # d /\ Known(e) BY <1>1, <2>1, <2>5 DEF AudioInv
    <3>2. QED BY <2>6, <3>1 DEF Known
  <2>9. (\A e \in Drops : uploads[e] = 0 => audio[e] = "webm")'
    BY <2>1, <2>5 DEF AudioInv
  <2>10. MakesNewDrop(r)' BY <2>1, <2>2, <2>4, <2>5 DEF MakesNewDrop, Making
  <2>11. ASSUME NEW q \in Requests \ {r} PROVE MakesNewDrop(q)'
    <3>1. request'[q] = request[q] /\ MakesNewDrop(q) BY <2>4 DEF AudioInv
    <3>2. Making(q)' => Making(q) BY <3>1 DEF Making
    <3>3. request[q].pc = "clean" => request[q].drop \in Drops BY <1>0 DEF WorkIsKnown
    <3>4. request[q].pc = "clean" => Known(request[q].drop) /\ request[q].drop # d
      BY <2>7, <3>1 DEF MakesNewDrop
    <3>5. (request[q].pc = "clean" => request[q].drop \notin drops /\ Known(request[q].drop))'
      BY <2>1, <2>6, <3>1, <3>3, <3>4 DEF Known, MakesNewDrop
    <3>6. QED BY <2>1, <2>5, <3>1, <3>2, <3>5 DEF MakesNewDrop
  <2>12. MakeApart' BY <2>2, <2>4, <2>5 DEF AudioInv, MakeApart, Making
  <2>13. ConvertsIt'
    <3>1. converting[1].pc # "idle" => converting[1].drop \in Drops /\ Known(converting[1].drop)
      BY <1>0 DEF WorkIsKnown, AudioInv, ConvertsIt, Converters
    <3>2. (converting[1].pc # "idle" => Known(converting[1].drop))'
      BY <2>1, <2>6, <2>7, <3>1 DEF Known
    <3>3. QED BY <2>1, <3>2 DEF AudioInv, ConvertsIt
  <2>14. AlwaysHasAudio' BY <2>1 DEF AudioInv, AlwaysHasAudio
  <2>15. QED BY <2>8, <2>9, <2>10, <2>11, <2>12, <2>13, <2>14 DEF AudioInv
<1>12. CASE CreateCommit(r)
  <2> DEFINE d == task.drop
             refused == [task EXCEPT !.pc = "unput", !.locks = {}]
             new == [task EXCEPT !.pc = "queue", !.locks = {}]
  <2>1. refused.pc = "unput" /\ new.pc = "queue" /\ new.drop = d BY <1>0 DEF DropRequest
  <2> HIDE DEF refused, new
  <2>2. UNCHANGED <<converting, audio, mp3, uploads>> BY <1>12 DEF CreateCommit
  <2>3. CASE Proceeds(r, refused) /\ drops' = drops BY <1>1, <1>3, <2>1, <2>2, <2>3
  <2>4. CASE Proceeds(r, new) /\ drops' = drops \cup {d}
    <3>1. request'[r] = new /\ \A q \in Requests \ {r} : request'[q] = request[q]
      BY <1>2, <2>4
    <3>2. Making(r) /\ d \in Drops BY <1>1, <1>12 DEF CreateCommit, Making
    <3>3. /\ uploads[d] > 0 /\ audio[d] = "webm" /\ d \notin drops
          /\ \A q \in Requests \ {r} : Making(q) => request[q].drop # d
      BY <3>2 DEF AudioInv, MakesNewDrop, MakeApart
    <3>4. \A q \in Requests : Making(q)' => q # r /\ Making(q) /\ request'[q].drop = request[q].drop
      BY <2>1, <3>1 DEF Making
    <3>5. ASSUME NEW e \in Drops, Known(e) \/ e = d
          PROVE  uploads'[e] > 0 /\ \A q \in Requests : Making(q)' => request'[q].drop # e
      BY <2>2, <3>3, <3>4, <3>5 DEF Known
    <3>6. \A e : Known(e) => e # d BY <3>2 DEF Known
    <3>7. ASSUME NEW e \in drops' PROVE Known(e)'
      <4>1. e \in Drops /\ (Known(e) \/ e = d) BY <1>1, <2>4, <3>2 DEF AudioInv
      <4>2. QED BY <3>5, <4>1 DEF Known
    <3>8. (\A e \in Drops : uploads[e] = 0 => audio[e] = "webm")' BY <2>2 DEF AudioInv
    <3>9. ASSUME NEW q \in Requests PROVE MakesNewDrop(q)'
      <4>1. CASE q = r BY <2>1, <3>1, <4>1 DEF MakesNewDrop, Making
      <4>2. CASE q # r
        <5>1. request'[q] = request[q] /\ MakesNewDrop(q) BY <3>1, <4>2 DEF AudioInv
        <5>2. (Making(q) => /\ request[q].drop \notin drops /\ uploads[request[q].drop] > 0
                            /\ audio[request[q].drop] = "webm")'
          BY <2>2, <2>4, <3>3, <3>4, <4>2, <5>1 DEF MakesNewDrop
        <5>3. request[q].pc = "clean"
                => /\ request[q].drop \in Drops /\ Known(request[q].drop)
                   /\ request[q].drop \notin drops /\ request[q].drop # d
          BY <1>0, <3>6, <5>1 DEF MakesNewDrop, WorkIsKnown
        <5>4. (request[q].pc = "clean" => request[q].drop \notin drops /\ Known(request[q].drop))'
          BY <2>4, <3>5, <5>1, <5>3 DEF Known
        <5>5. QED BY <5>1, <5>2, <5>4 DEF MakesNewDrop
      <4>3. QED BY <4>1, <4>2
    <3>10. MakeApart' BY <3>4 DEF AudioInv, MakeApart
    <3>11. ConvertsIt'
      <4>1. converting[1].pc # "idle"
              => /\ converting[1].drop \in Drops /\ Known(converting[1].drop) /\ converting[1].drop # d
        BY <1>0, <3>6 DEF WorkIsKnown, AudioInv, ConvertsIt, Converters
      <4>2. (converting[1].pc # "idle" => Known(converting[1].drop))' BY <2>2, <3>5, <4>1 DEF Known
      <4>3. converting[1].pc # "idle" => (converting[1].drop \in drops' <=> converting[1].drop \in drops)
        BY <2>4, <4>1
      <4>4. QED BY <2>2, <4>2, <4>3 DEF AudioInv, ConvertsIt
    <3>12. AlwaysHasAudio' BY <2>2, <2>4, <3>3 DEF AudioInv, AlwaysHasAudio
    <3>13. QED BY <3>7, <3>8, <3>9, <3>10, <3>11, <3>12 DEF AudioInv
  <2>5. QED BY <1>12, <2>3, <2>4 DEF CreateCommit, refused, new
<1>14. QED
  BY <1>4, <1>5, <1>6, <1>7, <1>8, <1>9, <1>10, <1>11, <1>12, <1>13 DEF RequestStep

(* A step of a worker leaves the requests.                                 *)
LEMMA WorkerAudio ==
    ASSUME DropTypeInv, "overlap" \notin dropKinds, AudioInv, ConvertStep \/ ListenStep
    PROVE  AudioInv'
<1> USE DEF library, dropRows, dropFiles, queued, workers
<1>0. DropTypeOK /\ WorkIsKnown BY DEF DropTypeInv
<1>1. UNCHANGED <<drops, uploads, request>>
  BY DEF ConvertStep, ListenStep, ConvertWork, ConvertOverruns, ConvertRead, ConvertGet,
         ConvertPut, ConvertDropSource,
         ConvertSettle, ConvertUndo, ConvertBreaks, ConvertFail, ConvertClean, ListenRead,
         ListenSkip, ListenFail, ListenStore
<1>2. \A d : Known(d)' <=> Known(d) BY <1>1 DEF Known, Making
<1>3. converting[1].pc # "idle" => converting[1].drop \in Drops /\ Known(converting[1].drop)
  BY <1>0 DEF WorkIsKnown, AudioInv, ConvertsIt, ConvertAt, Converters
<1>5. ASSUME \A d \in Drops : audio'[d] = audio[d] \/ Known(d)
      PROVE  /\ (\A d \in drops : Known(d))'
             /\ (\A d \in Drops : uploads[d] = 0 => audio[d] = "webm")'
             /\ (\A r \in Requests : MakesNewDrop(r))' /\ MakeApart'
  <2>1. \A r \in Requests : Making(r) => request[r].drop \in Drops /\ ~Known(request[r].drop)
    BY <1>0 DEF Known, Making, WorkIsKnown
  <2>2. (\A d \in drops : Known(d))' BY <1>1, <1>2 DEF AudioInv
  <2>3. (\A d \in Drops : uploads[d] = 0 => audio[d] = "webm")'
    BY <1>0, <1>1, <1>5 DEF AudioInv, Known
  <2>4. ASSUME NEW r \in Requests PROVE MakesNewDrop(r)'
    <3>1. Making(r)' <=> Making(r) BY <1>1 DEF Making
    <3>2. Making(r) => audio'[request[r].drop] = "webm"
      BY <1>5, <2>1 DEF AudioInv, MakesNewDrop
    <3>3. Known(request[r].drop)' <=> Known(request[r].drop) BY <1>1 DEF Known, Making
    <3>4. QED BY <1>1, <3>1, <3>2, <3>3 DEF AudioInv, MakesNewDrop
  <2>5. MakeApart' BY <1>1 DEF AudioInv, MakeApart, Making
  <2>6. QED BY <2>2, <2>3, <2>4, <2>5
<1>6. CASE ListenStep
  <2>1. UNCHANGED <<audio, mp3, converting>>
    BY <1>6 DEF ListenStep, ListenRead, ListenSkip, ListenFail, ListenStore
  <2>2. ConvertsIt' /\ AlwaysHasAudio'
    BY <1>1, <1>2, <2>1 DEF AudioInv, ConvertsIt, AlwaysHasAudio, Known, Making
  <2>3. QED BY <1>5, <2>1, <2>2 DEF AudioInv
<1>7. CASE ConvertStep
  <2>1. /\ \A d \in Drops : audio'[d] = audio[d] \/ Known(d)
        /\ ConvertsIt' /\ AlwaysHasAudio'
    <3> DEFINE o == converting[1].drop
    <3>1. /\ \A d \in Drops : mp3[d] \in Nat /\ webm[d] \in Nat
          /\ drops \subseteq Drops /\ AlwaysHasAudio /\ ConvertsIt /\ \A d \in drops : Known(d)
          /\ 1 \in Converters /\ 2 \in Converters /\ converting \in [Converters -> Convert]
      BY <1>0 DEF DropTypeOK, Versions, AudioInv, Converters
    <3>2. \A d \in Drops : Known(d) => Known(d)' BY <1>2
    <3>3. ASSUME NEW pc, ConvertGoes(1, pc)
          PROVE  /\ converting'[1].pc = pc /\ converting'[1].drop = o
                 /\ converting'[1].version = converting[1].version
                 /\ converting'[2] = converting[2]
      BY <3>1, <3>3 DEF ConvertGoes, Convert
    <3>4. ASSUME ConvertEnds(1) PROVE ConvertsIt'
      BY <3>1, <3>4 DEF ConvertEnds, ConvertsIt, NotConverting, ConvertAt
    <3>5. ASSUME NEW c \in Converters, ConvertWork(c) PROVE c = 1
      BY <3>1, <3>5
      DEF ConvertsIt, ConvertAt, Converters, ConvertWork, ConvertGet, ConvertPut, ConvertDropSource,
          ConvertSettle, ConvertUndo, ConvertBreaks, ConvertFail, ConvertClean
    <3>6. ASSUME NEW d \in Drops, ConvertRead(d)
          PROVE  audio' = audio /\ ConvertsIt' /\ AlwaysHasAudio'
      <4>1. /\ converting'[2] = converting[2]
            /\ \/ /\ d \in drops /\ audio[d] = "webm"
                  /\ converting'[1].pc = "get" /\ converting'[1].drop = d
               \/ converting' = converting
        BY <3>1, <3>6 DEF ConvertRead
      <4>2. UNCHANGED <<audio, mp3>> BY <3>6 DEF ConvertRead
      <4>3. ConvertsIt'
        BY <1>1, <1>3, <3>1, <3>2, <4>1, <4>2 DEF ConvertsIt, ConvertAt
      <4>4. QED BY <1>1, <3>1, <4>2, <4>3 DEF AlwaysHasAudio
    <3>a. ASSUME UNCHANGED <<audio, mp3>>, ConvertsIt'
          PROVE  /\ \A d \in Drops : audio'[d] = audio[d] \/ Known(d)
                 /\ ConvertsIt' /\ AlwaysHasAudio'
      BY <1>1, <3>1, <3>a DEF AlwaysHasAudio
    <3>7. CASE ConvertGet(1)
      <4>1. /\ converting'[1].pc = "put" /\ converting'[1].drop = o
            /\ converting'[1].version = webm[o]
            /\ webm[o] > 0 /\ converting[1].pc = "get" /\ converting'[2] = converting[2]
        BY <3>1, <3>7 DEF ConvertGet, Convert, ConvertAt
      <4>2. UNCHANGED <<audio, mp3>> BY <3>7 DEF ConvertGet
      <4>3. ConvertsIt' BY <1>1, <1>3, <3>1, <3>2, <4>1, <4>2 DEF ConvertsIt, ConvertAt
      <4>4. QED BY <3>a, <4>2, <4>3
    <3>8. CASE ConvertPut(1)
      <4>1. /\ converting'[1].pc = "drop" /\ converting'[1].drop = o /\ converting[1].pc = "put"
            /\ mp3' = [mp3 EXCEPT ![o] = converting[1].version] /\ audio' = audio
            /\ converting'[2] = converting[2]
        BY <3>3, <3>8 DEF ConvertPut, ConvertAt
      <4>2. o \in Drops /\ Known(o) /\ converting[1].version > 0
        BY <1>3, <3>1, <4>1 DEF ConvertsIt, ConvertAt
      <4>3. \A d \in Drops : mp3'[d] = IF d = o THEN converting[1].version ELSE mp3[d]
        BY <1>0, <4>1 DEF DropTypeOK
      <4>4. ConvertsIt' BY <1>1, <3>1, <3>2, <4>1, <4>2, <4>3 DEF ConvertsIt, ConvertAt
      <4>5. AlwaysHasAudio' BY <1>1, <3>1, <4>1, <4>2, <4>3 DEF AlwaysHasAudio
      <4>6. QED BY <4>1, <4>4, <4>5
    <3>9. CASE ConvertDropSource(1) \/ ConvertFail(1) \/ ConvertBreaks(1)
      <4>1. UNCHANGED <<audio, mp3>> BY <3>9 DEF ConvertDropSource, ConvertFail, ConvertBreaks
      <4>2. \/ ConvertEnds(1)
            \/ /\ converting'[1].drop = o /\ converting[1].pc # "idle"
               /\ converting'[2] = converting[2]
               /\ \/ converting'[1].pc \in {"fail", "clean"}
                  \/ converting'[1].pc = "settle" /\ converting[1].pc = "drop"
        BY <3>3, <3>9 DEF ConvertDropSource, ConvertFail, ConvertBreaks, ConvertAt
      <4>3. ConvertsIt'
        BY <1>1, <1>3, <3>1, <3>2, <3>4, <4>1, <4>2 DEF ConvertsIt, ConvertAt
      <4>4. QED BY <3>a, <4>1, <4>3
    <3>10. CASE ConvertSettle(1)
      <4>1. converting[1].pc = "settle" /\ o \in Drops /\ Known(o) /\ mp3' = mp3
        BY <1>3, <3>10 DEF ConvertSettle, ConvertAt
      <4>2. CASE o \in drops /\ audio' = [audio EXCEPT ![o] = "mp3"] /\ ConvertEnds(1)
        <5>1. mp3[o] > 0 BY <3>1, <4>1, <4>2 DEF ConvertsIt, ConvertAt
        <5>2. \A d \in Drops : audio'[d] = IF d = o THEN "mp3" ELSE audio[d]
          BY <1>0, <4>2 DEF DropTypeOK
        <5>3. AlwaysHasAudio' BY <1>1, <3>1, <4>1, <5>1, <5>2 DEF AlwaysHasAudio
        <5>4. QED BY <3>4, <4>1, <4>2, <5>2, <5>3
      <4>3. CASE ~(o \in drops /\ audio[o] = "webm") /\ ConvertGoes(1, "undo") /\ audio' = audio
        <5>1. o \notin drops BY <3>1, <4>1, <4>3 DEF ConvertsIt, ConvertAt
        <5>2. converting'[1].pc = "undo" /\ converting'[1].drop = o /\ converting'[2] = converting[2]
          BY <3>3, <4>3
        <5>3. ConvertsIt' BY <1>1, <3>1, <3>2, <4>1, <5>1, <5>2 DEF ConvertsIt, ConvertAt
        <5>4. QED BY <3>a, <4>1, <4>3, <5>3
      <4>4. QED BY <3>10, <4>2, <4>3 DEF ConvertSettle
    <3>11. CASE ConvertUndo(1) \/ ConvertClean(1)
      <4>1. /\ converting[1].pc \in {"undo", "clean"} /\ ConvertEnds(1) /\ audio' = audio
            /\ mp3' = [mp3 EXCEPT ![o] = 0] /\ o \in Drops
        BY <1>3, <3>11 DEF ConvertUndo, ConvertClean, ConvertAt
      <4>2. o \in drops => audio[o] = "webm" BY <3>1, <4>1 DEF ConvertsIt, ConvertAt
      <4>3. \A d \in Drops : mp3'[d] = IF d = o THEN 0 ELSE mp3[d] BY <1>0, <4>1 DEF DropTypeOK
      <4>4. AlwaysHasAudio' BY <1>1, <3>1, <4>1, <4>2, <4>3 DEF AlwaysHasAudio
      <4>5. QED BY <3>4, <4>1, <4>4
    <3>12. ~ConvertOverruns BY DEF ConvertOverruns
    <3>13. QED
      BY <1>7, <3>5, <3>6, <3>7, <3>8, <3>9, <3>10, <3>11, <3>12 DEF ConvertStep, ConvertWork
  <2>2. QED BY <1>1, <1>5, <2>1 DEF AudioInv
<1>8. QED BY <1>6, <1>7

-----------------------------------------------------------------------------
(* Where conversions overlap, the types and the library are all it says.   *)
DropInv ==
    /\ DropTypeInv /\ LibraryInv
    /\ "overlap" \notin dropKinds => AudioInv

LEMMA DropStart == ASSUME DropConstants, DropInit PROVE DropInv
<1>1. DropTypeInv BY DropTypeStart
<1>2. DropTypeOK /\ WorkIsKnown BY <1>1 DEF DropTypeInv
<1>3. /\ \A r \in Requests : request[r] = NoRequest
      /\ converting = [c \in Converters |-> NotConverting] /\ uploads = mp3
      /\ isDefault \in IF drops = {} THEN {{}} ELSE {{d} : d \in drops}
  BY DEF DropInit
<1>4. PICK i \in DropInstances :
         drops = i.first /\ mp3 = [d \in Drops |-> IF d \in drops THEN i.version ELSE 0]
  BY DEF DropInit
<1>5. i.version > 0 /\ drops \subseteq Drops BY <1>4 DEF DropConstants
<1>6. LibraryInv
  BY <1>3 DEF LibraryInv, LocksApart, OneDefault, LocksRows, NoRequest
<1>7. \A d \in drops : mp3[d] > 0 BY <1>4, <1>5
<1>8. \A d \in Drops : uploads[d] = 0 => audio[d] = "webm"
  BY <1>3, <1>7 DEF DropInit
<1>9. AudioInv
  BY <1>3, <1>7, <1>8 DEF AudioInv, Known, Making, MakesNewDrop, MakeApart, ConvertsIt, NoRequest,
     AlwaysHasAudio, NotConverting, ConvertAt, Converters
<1>10. QED BY <1>1, <1>6, <1>9 DEF DropInv

LEMMA DropStep == ASSUME DropConstants, DropInv, [DropNext]_dropVars PROVE DropInv'
<1>0. DropTypeInv /\ LibraryInv /\ ("overlap" \notin dropKinds => AudioInv) BY DEF DropInv
<1>s. (\E r \in Requests : RequestStep(r)) \/ ConvertStep \/ ListenStep => dropKinds' = dropKinds
  BY DropSteps
  DEF DropNext, CreateLock, CreateCommit, CreateUnput, QueueJobs, PromoteCommit, ReplaceRow,
      DeleteCommit, DeleteObject, CreatePut, PromoteLock, ReplacePut, DeleteLock, ConvertOverruns,
      ConvertRead, ConvertGet, ConvertPut, ConvertDropSource, ConvertSettle, ConvertUndo,
      ConvertBreaks, ConvertFail, ConvertClean, ListenRead, ListenSkip, ListenFail, ListenStore
<1>1. CASE UNCHANGED dropVars
  <2> USE DEF dropVars, library, dropRows, dropFiles, queued
  <2>1. DropTypeInv' BY <1>0, <1>1 DEF DropTypeInv, DropTypeOK, WorkIsKnown, VersionsKnown
  <2>2. LibraryInv' BY <1>0, <1>1 DEF LibraryInv, LocksApart, OneDefault, LocksRows
  <2>3. AudioInv => AudioInv'
    BY <1>1 DEF AudioInv, Known, Making, MakesNewDrop, MakeApart, ConvertsIt, AlwaysHasAudio
  <2>4. QED BY <1>0, <1>1, <2>1, <2>2, <2>3 DEF DropInv
<1>2. ASSUME NEW r \in Requests, RequestStep(r) PROVE DropInv'
  <2>1. DropTypeInv' BY <1>0, <1>2, RequestType
  <2>2. LibraryInv' BY <1>0, <1>2, LibraryStep
  <2>3. AudioInv => AudioInv' BY <1>0, <1>2, <2>1, RequestAudio
  <2>4. QED BY <1>0, <1>s, <1>2, <2>1, <2>2, <2>3 DEF DropInv
<1>3. CASE ConvertStep \/ ListenStep
  <2>1. DropTypeInv' BY <1>0, <1>3, ConvertType, ListenType
  <2>2. UNCHANGED library /\ request' = request
    BY <1>3
    DEF ConvertStep, ListenStep, ConvertWork, ConvertOverruns, ConvertRead, ConvertGet,
        ConvertPut, ConvertDropSource,
        ConvertSettle, ConvertUndo, ConvertBreaks, ConvertFail, ConvertClean, ListenRead,
        ListenSkip, ListenFail, ListenStore
  <2>3. LibraryInv' BY <1>0, <2>2, LibraryRests
  <2>4. "overlap" \notin dropKinds => AudioInv' BY <1>0, <1>3, WorkerAudio
  <2>5. QED BY <1>0, <1>s, <1>3, <2>1, <2>3, <2>4 DEF DropInv
<1>4. QED BY <1>1, <1>2, <1>3, DropSteps

(* No step takes the last drop away.                                       *)
LEMMA LibraryStays == ASSUME DropInv, [DropNext]_dropVars PROVE [NeverEmptied]_dropVars
<1> USE DEF library
<1>1. ASSUME NEW r \in Requests, DeleteCommit(r) PROVE drops' # {}
  BY <1>1 DEF DeleteCommit, DropInv, LibraryInv, LocksRows
<1>2. ASSUME NEW r \in Requests, RequestStep(r), ~DeleteCommit(r) PROVE drops \subseteq drops'
  BY <1>2
  DEF RequestStep, CreateLock, CreateCommit, CreateUnput, QueueJobs, PromoteCommit, ReplaceRow,
      DeleteObject, CreatePut, PromoteLock, ReplacePut, DeleteLock
<1>3. ConvertStep \/ ListenStep => drops' = drops
  BY DEF ConvertStep, ListenStep, ConvertWork, ConvertOverruns, ConvertRead, ConvertGet,
         ConvertPut, ConvertDropSource,
         ConvertSettle, ConvertUndo, ConvertBreaks, ConvertFail, ConvertClean, ListenRead,
         ListenSkip, ListenFail, ListenStore
<1>4. QED BY <1>1, <1>2, <1>3, DropSteps DEF NeverEmptied

LEMMA DefaultIsOne == DropInv => LibraryIsPlayable
<1>1. ASSUME DropInv, drops # {} PROVE Cardinality(isDefault) = 1
  BY <1>1, FS_Singleton DEF DropInv, LibraryInv, OneDefault
<1>2. QED BY <1>1 DEF LibraryIsPlayable, ExactlyOneDefault, SettledHasAudio, DropInv, AudioInv

LEMMA DropsHold == DropConstants => (DropSpec => []DropInv)
<1> SUFFICES ASSUME DropConstants PROVE DropSpec => []DropInv OBVIOUS
<1>1. DropInit => DropInv BY DropStart
<1>2. DropInv /\ [DropNext]_dropVars => DropInv' BY DropStep
<1>3. QED BY <1>1, <1>2, PTL DEF DropSpec

(* The drops, their files and the jobs are what the schema, the storage    *)
(* and the queue say they are; a transcript that is done is there, and of  *)
(* a recording that was uploaded.                                          *)
THEOREM DropsTyped == DropConstants => (DropSpec => []DropTypeOK)
<1>1. DropInv => DropTypeOK BY DEF DropInv, DropTypeInv
<1>2. QED BY <1>1, DropsHold, PTL

(* A library always has one default and nobody takes the last drop away,   *)
(* however uploads, promotions, deletions and jobs fall that fail, find    *)
(* nothing to do or overlap; where no two conversions overlap, a drop that *)
(* has settled has its MP3                                                 *)
(* (voicemailDrops.ts, voicemailDropDefaults.ts, transcodeVoicemailDrop.ts).*)
THEOREM LibraryHolds == DropConstants => (DropSpec => LibraryStands)
<1> SUFFICES ASSUME DropConstants PROVE DropSpec => LibraryStands OBVIOUS
<1>1. DropInv /\ [DropNext]_dropVars => DropInv' BY DropStep
<1>2. DropInv' => LibraryIsPlayable' BY DefaultIsOne, PTL
<1>3. DropInv /\ [DropNext]_dropVars => [StaysPlayable]_dropVars
  BY <1>1, <1>2, LibraryStays DEF StaysPlayable
<1>4. QED BY <1>3, DropsHold, PTL DEF DropSpec, LibraryStands

(***************************************************************************)
(* The services: what is shown of each of them holds of the whole.         *)
(***************************************************************************)

LEMMA ServicesStart ==
    ServicesInit =>
        /\ MailInit /\ GrantsInit /\ CapInit /\ NamesInit
        /\ DialInit /\ GreetInit /\ DropInit /\ ComposerInit
BY DEF ServicesInit

LEMMA EachServiceMoves ==
    [ServicesNext]_services =>
        /\ [MailNext]_mailVars /\ [GrantNext]_grantVars /\ [CapNext]_capVars
        /\ [NameNext]_nameVars /\ [DialNext]_dialVars /\ [GreetNext]_greetVars
        /\ [DropNext]_dropVars /\ [ComposerNext]_composerVars
BY DEF ServicesNext, services

(* Whatever happens next, each of the services goes on as it does alone.   *)
LEMMA EachServiceRuns ==
    ServicesSpec =>
        /\ MailSpec /\ GrantSpec /\ CapSpec /\ NamesSpec
        /\ DialSpec /\ GreetSpec /\ DropSpec /\ ComposerSpec
<1> USE DEF ServicesSpec
<1>1. ServicesSpec => MailSpec BY ServicesStart, EachServiceMoves, PTL DEF MailSpec
<1>2. ServicesSpec => GrantSpec BY ServicesStart, EachServiceMoves, PTL DEF GrantSpec
<1>3. ServicesSpec => CapSpec BY ServicesStart, EachServiceMoves, PTL DEF CapSpec
<1>4. ServicesSpec => NamesSpec BY ServicesStart, EachServiceMoves, PTL DEF NamesSpec
<1>5. ServicesSpec => DialSpec BY ServicesStart, EachServiceMoves, PTL DEF DialSpec
<1>6. ServicesSpec => GreetSpec BY ServicesStart, EachServiceMoves, PTL DEF GreetSpec
<1>7. ServicesSpec => DropSpec BY ServicesStart, EachServiceMoves, PTL DEF DropSpec
<1>8. ServicesSpec => ComposerSpec BY ServicesStart, EachServiceMoves, PTL DEF ComposerSpec
<1>9. QED BY <1>1, <1>2, <1>3, <1>4, <1>5, <1>6, <1>7, <1>8, PTL

(* Whichever of the services is at work keeps its types.                   *)
THEOREM ServicesTyped == ServiceConstants => (ServicesSpec => []ServicesTypeOK)
<1> SUFFICES ASSUME ServiceConstants PROVE ServicesSpec => []ServicesTypeOK OBVIOUS
<1>1. /\ MailConstants /\ GrantConstants /\ CapConstants /\ NameConstants
      /\ DialConstants /\ GreetConstants /\ DropConstants /\ ComposerConstants
  BY DEF ServiceConstants
<1>2. /\ MailSpec => []MailTypeOK
      /\ GrantSpec => []GrantTypeOK
      /\ CapSpec => []CapTypeOK
      /\ NamesSpec => []NamesTypeOK
      /\ DialSpec => []DialTypeOK
      /\ GreetSpec => []GreetTypeOK
      /\ DropSpec => []DropTypeOK
      /\ ComposerSpec => []ComposerTypeOK
  BY <1>1, MailTyped, GrantTyped, CaptureTyped, NamesTyped, DialTyped, GreetTyped, DropsTyped,
     ComposerTyped
<1>3. MailTypeOK /\ GrantTypeOK /\ CapTypeOK /\ NamesTypeOK /\ DialTypeOK /\ GreetTypeOK
      /\ DropTypeOK /\ ComposerTypeOK => ServicesTypeOK
  BY DEF ServicesTypeOK
<1>4. QED BY <1>2, <1>3, EachServiceRuns, PTL

(* What a rep relies on holds of all the services at once: a sender to     *)
(* mail from and a grant that works, mail that is kept, a draft that is    *)
(* shown and goes for a cause, a name that is registered, a microphone     *)
(* that shows when it is open, and a greeting and a library that play      *)
(* (mailAccounts.ts, oauthConnections.ts, mailSync.ts, ComposerCard.tsx,   *)
(* reconcileCallerName.ts, dialerContext.ts, voicemailGreeting.ts,         *)
(* voicemailDrops.ts).                                                     *)
THEOREM ServicesStand ==
    ServiceConstants =>
        (ServicesSpec =>
            /\ [](CanSend /\ ShownIsRegistered /\ OpenLineIsShown)
            /\ GrantStands /\ MailStands /\ DraftStands /\ GreetingStands /\ LibraryStands)
<1> SUFFICES ASSUME ServiceConstants
             PROVE  ServicesSpec =>
                        /\ [](CanSend /\ ShownIsRegistered /\ OpenLineIsShown)
                        /\ GrantStands /\ MailStands /\ DraftStands /\ GreetingStands
                        /\ LibraryStands
  OBVIOUS
<1>1. /\ MailConstants /\ GrantConstants /\ CapConstants /\ NameConstants
      /\ DialConstants /\ OneCallAtATime /\ GreetConstants /\ DropConstants
      /\ ComposerConstants
  BY DEF ServiceConstants
<1>2. /\ MailSpec => []CanSend
      /\ NamesSpec => []ShownIsRegistered
      /\ DialSpec => []OpenLineIsShown
      /\ GrantSpec => GrantStands
      /\ CapSpec => MailStands
      /\ ComposerSpec => DraftStands
      /\ GreetSpec => GreetingStands
      /\ DropSpec => LibraryStands
  BY <1>1, RepCanSend, NamesStand, MicrophoneIsShown, GrantRemainsUsable, MailIsKept,
     DraftIsKept, GreetingsHold, LibraryHolds
<1>3. QED BY <1>2, EachServiceRuns, PTL
=============================================================================
