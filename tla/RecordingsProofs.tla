-------------------------- MODULE RecordingsProofs --------------------------
(* Theorems about Recordings, for any number of calls, voicemails and      *)
(* jobs, any retry limit and any combination of faults: type correctness,  *)
(* that the audio is never lost, that no planned call is skipped, and that *)
(* a stored recording, a transcript and a correction are never taken back. *)
EXTENDS Recordings, TLAPS

(* An unused slot of the queue is a well-typed job.                        *)
LEMMA FreeJobType == FreeJob \in Job
<1>1. (CHOOSE i \in Items : TRUE) \in Items
  BY RecordingConstants
<1>2. QED
  BY <1>1 DEF FreeJob, Job

(* A new job, on its first delivery or a later one, is well typed.         *)
LEMMA FreshType ==
  ASSUME NEW kind \in {"upload", "transcribe"}, NEW i \in Items, NEW n \in Nat
  PROVE  /\ Fresh(kind, i) \in Job
         /\ [Fresh(kind, i) EXCEPT !.retry = n] \in Job
  BY DEF Fresh, Job

(* Queueing a job leaves the queue well typed.                             *)
LEMMA EnqueueType ==
  ASSUME jobs \in [JobIds -> Job], NEW kind \in {"upload", "transcribe"},
         NEW i \in Items, Enqueue(kind, i)
  PROVE  jobs' \in [JobIds -> Job]
  BY FreshType DEF Enqueue, FreeJobs

(* A handler that goes on to its next step leaves the queue well typed.    *)
LEMMA GoToType ==
  ASSUME jobs \in [JobIds -> Job], NEW j \in JobIds, NEW pc \in RunningPcs, GoTo(j, pc)
  PROVE  jobs' \in [JobIds -> Job]
<1>1. [jobs[j] EXCEPT !.pc = pc] \in Job
  BY DEF Job
<1>2. QED
  BY <1>1 DEF GoTo

(* A handler that returns leaves the queue well typed.                     *)
LEMMA SettledType ==
  ASSUME jobs \in [JobIds -> Job], NEW j \in JobIds, Settled(j)
  PROVE  jobs' \in [JobIds -> Job]
  BY FreeJobType DEF Settled

(* pg-boss redelivering or dropping a job leaves the queue well typed.     *)
LEMMA RedeliveredType ==
  ASSUME jobs \in [JobIds -> Job], NEW j \in JobIds, Redelivered(j)
  PROVE  jobs' \in [JobIds -> Job]
<1>1. jobs[j] \in Job
  OBVIOUS
<1>2. /\ jobs[j].kind \in {"upload", "transcribe"}
      /\ jobs[j].item \in Items
      /\ jobs[j].retry + 1 \in Nat
  BY <1>1 DEF Job
<1>3. [Fresh(jobs[j].kind, jobs[j].item) EXCEPT !.retry = jobs[j].retry + 1] \in Job
  BY <1>2, FreshType
<1>4. QED
  BY <1>3, SettledType DEF Redelivered

(* Every step of an upload leaves the queue well typed.                    *)
LEMMA UploadJobsType ==
  ASSUME TypeOK, NEW j \in JobIds,
         \/ UploadPick(j) \/ UploadFetch(j) \/ UploadPut(j) \/ UploadFails(j)
         \/ UploadGiveUp(j) \/ UploadRecord(j) \/ UploadChain(j) \/ UploadCleanup(j)
  PROVE  jobs' \in [JobIds -> Job]
<1>1. jobs \in [JobIds -> Job] /\ jobs[j] \in Job
  BY DEF TypeOK
<1>2. {"fetch", "put", "record", "chain", "cleanup", "failed"} \subseteq RunningPcs
  BY DEF RunningPcs
<1>3. CASE UploadPick(j) \/ UploadFetch(j) \/ UploadPut(j)
  BY <1>1, <1>2, <1>3, GoToType, SettledType DEF UploadPick, UploadFetch, UploadPut
<1>4. CASE UploadFails(j)
  BY <1>1, <1>2, <1>4, GoToType, RedeliveredType DEF UploadFails
<1>5. CASE UploadGiveUp(j) \/ UploadRecord(j) \/ UploadCleanup(j)
  BY <1>1, <1>2, <1>5, GoToType, SettledType DEF UploadGiveUp, UploadRecord, UploadCleanup
<1>6. CASE UploadChain(j)
  <2>1. ASSUME NEW k \in FreeJobs,
               jobs' = [jobs EXCEPT ![j].pc = "cleanup",
                          ![k] = Fresh("transcribe", jobs[j].item)]
        PROVE  jobs' \in [JobIds -> Job]
    <3>1. [jobs[j] EXCEPT !.pc = "cleanup"] \in Job
      BY <1>1, <1>2 DEF Job
    <3>2. Fresh("transcribe", jobs[j].item) \in Job
      BY <1>1, FreshType DEF Job
    <3>3. QED
      BY <1>1, <2>1, <3>1, <3>2
  <2>2. QED
    BY <1>1, <1>6, <2>1, RedeliveredType DEF UploadChain
<1>7. QED
  BY <1>3, <1>4, <1>5, <1>6

(* Every step of a transcription leaves the queue well typed.              *)
LEMMA TranscribeJobsType ==
  ASSUME TypeOK, NEW j \in JobIds,
         \/ TranscribePick(j) \/ TranscribeSkip(j) \/ TranscribeGiveUp(j)
         \/ TranscribeCall(j) \/ TranscribeFails(j)
         \/ PersistLock(j) \/ PersistCommit(j) \/ PersistFails(j) \/ PersistVoicemail(j)
  PROVE  jobs' \in [JobIds -> Job]
<1>1. jobs \in [JobIds -> Job] /\ jobs[j] \in Job
  BY DEF TypeOK
<1>2. {"skip", "failed", "provider", "persist", "seed"} \subseteq RunningPcs
  BY DEF RunningPcs
<1>3. CASE TranscribePick(j) \/ TranscribeCall(j)
  BY <1>1, <1>2, <1>3, GoToType, SettledType DEF TranscribePick, TranscribeCall
<1>4. CASE TranscribeFails(j) \/ PersistFails(j)
  BY <1>1, <1>2, <1>4, GoToType, RedeliveredType DEF TranscribeFails, PersistFails
<1>5. CASE TranscribeSkip(j) \/ TranscribeGiveUp(j) \/ PersistCommit(j) \/ PersistVoicemail(j)
  BY <1>1, <1>5, SettledType DEF TranscribeSkip, TranscribeGiveUp, PersistCommit, PersistVoicemail
<1>6. CASE PersistLock(j)
  <2>1. [jobs[j] EXCEPT !.pc = "seed", !.known = speaker[jobs[j].item] # "none"] \in Job
    BY <1>1, <1>2 DEF Job
  <2>2. QED
    BY <1>1, <1>6, <2>1 DEF PersistLock
<1>7. QED
  BY <1>3, <1>4, <1>5, <1>6

(* A worker that dies or a job that expires leaves the queue well typed.   *)
LEMMA FaultJobsType ==
  ASSUME TypeOK, NEW j \in JobIds, WorkerCrash(j) \/ JobExpires(j)
  PROVE  jobs' \in [JobIds -> Job]
<1>1. jobs \in [JobIds -> Job] /\ jobs[j] \in Job
  BY DEF TypeOK
<1>2. CASE WorkerCrash(j)
  BY <1>1, <1>2, RedeliveredType DEF WorkerCrash
<1>3. CASE JobExpires(j)
  <2>1. PICK k \in FreeJobs :
          jobs' = [jobs EXCEPT ![j].zombie = TRUE,
                     ![k] = [Fresh(jobs[j].kind, jobs[j].item) EXCEPT !.retry = jobs[j].retry + 1]]
    BY <1>3 DEF JobExpires
  <2>2. [jobs[j] EXCEPT !.zombie = TRUE] \in Job
    BY <1>1 DEF Job
  <2>3. /\ jobs[j].kind \in {"upload", "transcribe"}
        /\ jobs[j].item \in Items
        /\ jobs[j].retry + 1 \in Nat
    BY <1>1 DEF Job
  <2>4. [Fresh(jobs[j].kind, jobs[j].item) EXCEPT !.retry = jobs[j].retry + 1] \in Job
    BY <2>3, FreshType
  <2>5. QED
    BY <1>1, <2>1, <2>2, <2>4
<1>4. QED
  BY <1>2, <1>3

(* A transcript's status that is marked keeps its type.                    *)
LEMMA MarkType ==
  ASSUME transcriptStatus \in [Items -> TranscriptStatuses], NEW i \in Items,
         NEW outcome \in TranscriptStatuses, MarkTranscript(i, outcome)
  PROVE  transcriptStatus' \in [Items -> TranscriptStatuses]
  BY DEF MarkTranscript

(* Every step keeps every variable in its type.                            *)
LEMMA TypeStep == TypeOK /\ [Next]_vars => TypeOK'
<1> SUFFICES ASSUME TypeOK, [Next]_vars PROVE TypeOK'
  OBVIOUS
<1> USE DEF rowVars, storeVars
<1>1. ASSUME NEW j \in JobIds,
             \/ UploadPick(j) \/ UploadFetch(j) \/ UploadPut(j) \/ UploadFails(j)
             \/ UploadGiveUp(j) \/ UploadRecord(j) \/ UploadChain(j) \/ UploadCleanup(j)
      PROVE  TypeOK'
  <2>1. jobs' \in [JobIds -> Job]
    BY <1>1, UploadJobsType
  <2>2. CASE UploadPick(j) \/ UploadFetch(j) \/ UploadFails(j) \/ UploadChain(j)
    BY <2>1, <2>2 DEF TypeOK, UploadPick, UploadFetch, UploadFails, UploadChain
  <2>3. CASE UploadPut(j) \/ UploadCleanup(j)
    BY <2>1, <2>3 DEF TypeOK, UploadPut, UploadCleanup
  <2>4. CASE UploadGiveUp(j)
    BY <2>1, <2>4 DEF TypeOK, UploadGiveUp
  <2>5. CASE UploadRecord(j)
    <3>1. CASE jobs[j].item \notin gone /\ ~recordingUrl[jobs[j].item]
      <4>1. recordingUrl' \in [Items -> BOOLEAN]
        BY <2>5, <3>1 DEF TypeOK, UploadRecord
      <4>2. recordingStatus' = [c \in Calls |-> IF c = jobs[j].item THEN "stored"
                                                ELSE recordingStatus[c]]
        BY <2>5, <3>1 DEF UploadRecord
      <4>3. recordingStatus' \in [Calls -> {"pending", "stored", "failed"}]
        BY <4>2 DEF TypeOK
      <4>4. UNCHANGED <<gone, transcriptStatus, speaker, audio, object, notices, deletion>>
        BY <2>5 DEF UploadRecord
      <4>5. QED
        BY <2>1, <4>1, <4>3, <4>4 DEF TypeOK
    <3>2. CASE ~(jobs[j].item \notin gone /\ ~recordingUrl[jobs[j].item])
      BY <2>1, <2>5, <3>2 DEF TypeOK, UploadRecord
    <3>3. QED
      BY <3>1, <3>2
  <2>6. QED
    BY <1>1, <2>2, <2>3, <2>4, <2>5
<1>2. ASSUME NEW j \in JobIds,
             \/ TranscribePick(j) \/ TranscribeSkip(j) \/ TranscribeGiveUp(j)
             \/ TranscribeCall(j) \/ TranscribeFails(j)
             \/ PersistLock(j) \/ PersistCommit(j) \/ PersistFails(j) \/ PersistVoicemail(j)
      PROVE  TypeOK'
  <2>1. jobs' \in [JobIds -> Job] /\ jobs[j].item \in Items
    BY <1>2, TranscribeJobsType DEF TypeOK, Job
  <2>2. {"done", "failed", "skipped-not-recorded"} \subseteq TranscriptStatuses
    BY DEF TranscriptStatuses
  <2>3. CASE \/ TranscribePick(j) \/ TranscribeCall(j) \/ TranscribeFails(j)
             \/ PersistLock(j) \/ PersistFails(j)
    BY <2>1, <2>3 DEF TypeOK, TranscribePick, TranscribeCall, TranscribeFails,
                      PersistLock, PersistFails
  <2>4. CASE TranscribeSkip(j) \/ TranscribeGiveUp(j) \/ PersistVoicemail(j)
    BY <2>1, <2>2, <2>4, MarkType DEF TypeOK, TranscribeSkip, TranscribeGiveUp, PersistVoicemail
  <2>5. CASE PersistCommit(j)
    BY <2>1, <2>2, <2>5 DEF TypeOK, PersistCommit
  <2>6. QED
    BY <1>2, <2>3, <2>4, <2>5
<1>3. ASSUME NEW j \in JobIds, WorkerCrash(j) \/ JobExpires(j) PROVE TypeOK'
  BY <1>3, FaultJobsType DEF TypeOK, WorkerCrash, JobExpires
<1>4. ASSUME NEW i \in Items, RecordingCompletes(i) PROVE TypeOK'
  BY <1>4 DEF TypeOK, RecordingCompletes
<1>5. ASSUME NEW i \in Items, RecordingCallback(i) PROVE TypeOK'
  <2>1. jobs' \in [JobIds -> Job]
    BY <1>5, EnqueueType DEF TypeOK, RecordingCallback
  <2>2. QED
    BY <1>5, <2>1 DEF TypeOK, RecordingCallback
<1>6. ASSUME NEW c \in Calls, CorrectSpeaker(c) PROVE TypeOK'
  BY <1>6 DEF TypeOK, CorrectSpeaker
<1>7. ASSUME NEW v \in Voicemails, DeleteRead(v) \/ DeleteRow(v) \/ DeleteObject(v)
      PROVE  TypeOK'
  BY <1>7 DEF TypeOK, DeleteRead, DeleteRow, DeleteObject, Items
<1>8. CASE UNCHANGED vars
  BY <1>8 DEF TypeOK, vars
<1>9. QED
  BY <1>1, <1>2, <1>3, <1>4, <1>5, <1>6, <1>7, <1>8 DEF Next, JobStep, DeleteStep

(* Every variable keeps its type: Recordings!TypeOK is an invariant.       *)
THEOREM TypeCorrect == Spec => []TypeOK
<1>1. Init => TypeOK
  BY FreeJobType DEF Init, TypeOK, TranscriptStatuses
<1>2. QED
  BY <1>1, TypeStep, PTL DEF Spec

-----------------------------------------------------------------------------
(* Our copy of the audio exists, or nobody wants it any more.              *)
Kept(i) == object[i] \/ i \in gone

(* What a job that is past a step knows about its item.                    *)
JobSafe(j) ==
    LET i == jobs[j].item IN
    /\ jobs[j].pc \in {"put", "record"} => audio[i] # "none"
    /\ jobs[j].pc = "record" => Kept(i)
    /\ jobs[j].pc \in {"chain", "cleanup"} => recordingUrl[i]
    /\ jobs[j].kind = "transcribe" => recordingUrl[i]
    /\ jobs[j].pc = "skip" => i \notin PlannedCalls

(* The inductive invariant: the row names our copy only once it is there,  *)
(* Twilio's goes only after that, and only an object whose voicemail is    *)
(* gone is deleted.                                                        *)
AudioInv ==
    /\ \A v \in Voicemails : deletion[v] = "cleanup" => v \in gone
    /\ \A i \in Items : recordingUrl[i] => Kept(i) /\ audio[i] # "none"
    /\ \A i \in Items : audio[i] = "deleted" => recordingUrl[i]
    /\ \A j \in JobIds : JobSafe(j)
    /\ PlannedIsNotSkipped

(* A slot that is freed, and a job that is queued, are safe.               *)
LEMMA IdleSafe ==
  ASSUME TypeOK, AudioInv, NEW j \in JobIds,
         Settled(j) \/ Redelivered(j) \/ (\E i \in Items : Enqueue("upload", i)),
         UNCHANGED <<gone, object, audio, recordingUrl>>
  PROVE  \A k \in JobIds : JobSafe(k)'
  BY DEF TypeOK, Job, AudioInv, JobSafe, Kept, Settled, Redelivered, Enqueue, Fresh, FreeJob, FreeJobs

(* Every step of an upload keeps the invariant.                            *)
LEMMA UploadKeepsAudio ==
  ASSUME TypeOK, AudioInv, NEW j \in JobIds,
         \/ UploadPick(j) \/ UploadFetch(j) \/ UploadPut(j) \/ UploadFails(j)
         \/ UploadGiveUp(j) \/ UploadRecord(j) \/ UploadChain(j) \/ UploadCleanup(j)
  PROVE  AudioInv'
<1> USE DEF TypeOK, Job, AudioInv, JobSafe, Kept, PlannedIsNotSkipped, rowVars, storeVars, At
<1>1. CASE UploadPick(j)
  <2>1. CASE jobs[j].item \in gone \/ recordingUrl[jobs[j].item]
    BY <1>1, <2>1, IdleSafe DEF UploadPick
  <2>2. CASE ~(jobs[j].item \in gone \/ recordingUrl[jobs[j].item])
    BY <1>1, <2>2 DEF UploadPick, GoTo
  <2>3. QED
    BY <2>1, <2>2
<1>2. CASE UploadFetch(j)
  BY <1>2 DEF UploadFetch, GoTo
<1>3. CASE UploadPut(j)
  BY <1>3 DEF UploadPut, GoTo
<1>4. CASE UploadFails(j)
  BY <1>4 DEF UploadFails, GoTo, Redelivered, Settled, Fresh, FreeJob
<1>5. CASE UploadGiveUp(j)
  BY <1>5 DEF UploadGiveUp, Settled, FreeJob
<1>6. CASE UploadRecord(j)
  BY SMTT(30), <1>6 DEF UploadRecord, GoTo, Settled, FreeJob
<1>7. CASE UploadChain(j)
  BY <1>7 DEF UploadChain, Redelivered, Settled, Fresh, FreeJob, FreeJobs
<1>8. CASE UploadCleanup(j)
  BY <1>8 DEF UploadCleanup, Settled, FreeJob
<1>9. QED
  BY <1>1, <1>2, <1>3, <1>4, <1>5, <1>6, <1>7, <1>8

(* A transcript is marked as skipped only where no recording was planned.  *)
LEMMA MarkKeepsPlanned ==
  ASSUME TypeOK, AudioInv, NEW i \in Items, NEW outcome, MarkTranscript(i, outcome),
         outcome = "skipped-not-recorded" => i \notin PlannedCalls
  PROVE  PlannedIsNotSkipped'
  BY RecordingConstants DEF TypeOK, AudioInv, PlannedIsNotSkipped, MarkTranscript, Items

(* Every step of a transcription keeps the invariant.                      *)
LEMMA TranscribeKeepsAudio ==
  ASSUME TypeOK, AudioInv, NEW j \in JobIds,
         \/ TranscribePick(j) \/ TranscribeSkip(j) \/ TranscribeGiveUp(j)
         \/ TranscribeCall(j) \/ TranscribeFails(j)
         \/ PersistLock(j) \/ PersistCommit(j) \/ PersistFails(j) \/ PersistVoicemail(j)
  PROVE  AudioInv'
<1> USE DEF TypeOK, Job, AudioInv, JobSafe, Kept, PlannedIsNotSkipped, rowVars, storeVars, At
<1>1. CASE TranscribePick(j)
  BY <1>1 DEF TranscribePick, GoTo, Settled, FreeJob
<1>2. CASE TranscribeSkip(j)
  <2>1. PlannedIsNotSkipped'
    BY <1>2, MarkKeepsPlanned DEF TranscribeSkip
  <2>2. QED
    BY <1>2, <2>1, IdleSafe DEF TranscribeSkip
<1>3. CASE TranscribeGiveUp(j)
  <2>1. PlannedIsNotSkipped'
    BY <1>3, MarkKeepsPlanned DEF TranscribeGiveUp
  <2>2. QED
    BY <1>3, <2>1, IdleSafe DEF TranscribeGiveUp
<1>4. CASE TranscribeCall(j)
  BY <1>4 DEF TranscribeCall, GoTo
<1>5. CASE TranscribeFails(j)
  BY <1>5 DEF TranscribeFails, GoTo, Redelivered, Settled, Fresh, FreeJob
<1>6. CASE PersistLock(j)
  BY <1>6 DEF PersistLock, GoTo
<1>7. CASE PersistCommit(j)
  BY <1>7 DEF PersistCommit, Settled, FreeJob
<1>8. CASE PersistFails(j)
  BY <1>8 DEF PersistFails, GoTo, Redelivered, Settled, Fresh, FreeJob
<1>9. CASE PersistVoicemail(j)
  <2>1. PlannedIsNotSkipped'
    BY <1>9, MarkKeepsPlanned DEF PersistVoicemail
  <2>2. QED
    BY <1>9, <2>1, IdleSafe DEF PersistVoicemail
<1>10. QED
  BY <1>1, <1>2, <1>3, <1>4, <1>5, <1>6, <1>7, <1>8, <1>9

(* A worker that dies, a job that expires, a callback, a correction or a   *)
(* deletion keeps the invariant.                                           *)
LEMMA OthersKeepAudio ==
  ASSUME TypeOK, AudioInv,
         \/ \E j \in JobIds : WorkerCrash(j) \/ JobExpires(j)
         \/ \E i \in Items : RecordingCompletes(i) \/ RecordingCallback(i)
         \/ \E c \in Calls : CorrectSpeaker(c)
         \/ \E v \in Voicemails : DeleteRead(v) \/ DeleteStep(v)
  PROVE  AudioInv'
<1> USE DEF TypeOK, AudioInv, PlannedIsNotSkipped, rowVars, storeVars
<1>1. ASSUME NEW j \in JobIds, WorkerCrash(j) PROVE AudioInv'
  BY <1>1, IdleSafe DEF WorkerCrash, Kept
<1>2. ASSUME NEW j \in JobIds, JobExpires(j) PROVE AudioInv'
  BY <1>2 DEF JobExpires, Job, JobSafe, Kept, Fresh, FreeJobs
<1>3. ASSUME NEW i \in Items, RecordingCompletes(i) PROVE AudioInv'
  BY <1>3 DEF RecordingCompletes, JobSafe, Kept
<1>4. ASSUME NEW i \in Items, RecordingCallback(i) PROVE AudioInv'
  <2>1. CASE Enqueue("upload", i)
    BY <1>4, <2>1, IdleSafe DEF RecordingCallback, Kept
  <2>2. CASE UNCHANGED jobs
    BY <1>4, <2>2 DEF RecordingCallback, JobSafe, Kept
  <2>3. QED
    BY <1>4, <2>1, <2>2 DEF RecordingCallback
<1>5. ASSUME NEW c \in Calls, CorrectSpeaker(c) PROVE AudioInv'
  BY <1>5 DEF CorrectSpeaker, JobSafe, Kept
<1>6. ASSUME NEW v \in Voicemails, DeleteRead(v) PROVE AudioInv'
  BY <1>6 DEF DeleteRead, JobSafe, Kept
<1>7. ASSUME NEW v \in Voicemails, DeleteStep(v) PROVE AudioInv'
  BY <1>7 DEF DeleteStep, DeleteRow, DeleteObject, JobSafe, Kept, Job, Items
<1>8. QED
  BY <1>1, <1>2, <1>3, <1>4, <1>5, <1>6, <1>7

(* The invariant holds at first, where nothing is stored and no job lives. *)
LEMMA AudioInit == Init => AudioInv
  BY RecordingConstants
     DEF Init, AudioInv, JobSafe, Kept, PlannedIsNotSkipped, FreeJob, Items

(* It is inductive.                                                        *)
LEMMA AudioStep == TypeOK /\ AudioInv /\ [Next]_vars => AudioInv'
<1>1. CASE UNCHANGED vars
  BY <1>1 DEF AudioInv, JobSafe, Kept, PlannedIsNotSkipped, vars, rowVars, storeVars
<1>2. QED
  BY <1>1, UploadKeepsAudio, TranscribeKeepsAudio, OthersKeepAudio DEF Next, JobStep

(* Twilio's copy of a recording is given up only when our own exists and   *)
(* the row names it, or a person has deleted the voicemail: the order of   *)
(* uploadRecording.ts loses no audio, whatever crashes or is doubled.      *)
THEOREM AudioNeverLost == Spec => []AudioIsKept
<1>1. TypeOK /\ AudioInv => AudioIsKept
  BY DEF AudioInv, Kept, AudioIsKept
<1>2. QED
  BY <1>1, AudioInit, AudioStep, TypeCorrect, PTL DEF Spec

(* A call that was to be recorded is never written off as not recorded:    *)
(* transcribeRecording.ts runs only after uploadRecording.ts chained it.   *)
THEOREM NoPlannedCallIsSkipped == Spec => []PlannedIsNotSkipped
<1>1. AudioInv => PlannedIsNotSkipped
  BY DEF AudioInv
<1>2. QED
  BY <1>1, AudioInit, AudioStep, TypeCorrect, PTL DEF Spec

(* Together: the pipeline neither loses a recording nor passes it over.    *)
THEOREM NoRecordingIsLost == Spec => []NoAudioIsLost
<1>1. AudioIsKept /\ PlannedIsNotSkipped => NoAudioIsLost
  BY DEF NoAudioIsLost
<1>2. QED
  BY <1>1, AudioNeverLost, NoPlannedCallIsSkipped, PTL

-----------------------------------------------------------------------------
(* Only the marks and the final passes write a transcript's status, and no *)
(* mark is written over a finished one.                                    *)
LEMMA TranscriptStep ==
  ASSUME TypeOK, [Next]_vars, NEW i \in Items, transcriptStatus[i] = "done"
  PROVE  transcriptStatus'[i] = "done"
<1> USE DEF TypeOK, rowVars
<1>1. ASSUME NEW k \in Items, NEW outcome, MarkTranscript(k, outcome)
      PROVE  transcriptStatus'[i] = "done"
  BY <1>1 DEF MarkTranscript
<1>2. ASSUME NEW j \in JobIds,
             TranscribeSkip(j) \/ TranscribeGiveUp(j) \/ PersistVoicemail(j)
      PROVE  transcriptStatus'[i] = "done"
  BY <1>1, <1>2 DEF TranscribeSkip, TranscribeGiveUp, PersistVoicemail, Job
<1>3. ASSUME NEW j \in JobIds, PersistCommit(j) PROVE transcriptStatus'[i] = "done"
  BY <1>3 DEF PersistCommit
<1>4. CASE UNCHANGED transcriptStatus
  BY <1>4
<1>5. QED
  BY <1>2, <1>3, <1>4
     DEF Next, vars, JobStep, DeleteStep, WorkerCrash, JobExpires, RecordingCompletes,
         RecordingCallback, CorrectSpeaker, DeleteRead, DeleteRow, DeleteObject,
         UploadPick, UploadFetch, UploadPut, UploadFails, UploadGiveUp, UploadRecord,
         UploadChain, UploadCleanup, TranscribePick, TranscribeCall, TranscribeFails,
         PersistLock, PersistFails

(* A finished transcript is not taken back by a delivery of the job that   *)
(* failed or came late (the guards of transcribeRecording.ts:20-27).       *)
THEOREM TranscriptsStay == Spec => TranscriptStays
<1>1. TypeOK /\ [Next]_vars =>
        [\A i \in Items : transcriptStatus[i] = "done" => transcriptStatus'[i] = "done"]_vars
  BY TranscriptStep
<1>2. QED
  BY <1>1, TypeCorrect, PTL DEF Spec, TranscriptStays

(* A recording that is stored is not marked failed by a doubled delivery   *)
(* of its upload, although that one finds nothing at Twilio any more.      *)
THEOREM StoredRecordingsStay == Spec => StoredStays
<1>1. ASSUME TypeOK, [Next]_vars, NEW c \in Calls, recordingStatus[c] = "stored"
      PROVE  recordingStatus'[c] = "stored"
  <2> USE <1>1 DEF TypeOK, rowVars
  <2>1. ASSUME NEW j \in JobIds, UploadGiveUp(j) \/ UploadRecord(j)
        PROVE  recordingStatus'[c] = "stored"
    BY <2>1 DEF UploadGiveUp, UploadRecord
  <2>2. CASE UNCHANGED recordingStatus
    BY <2>2
  <2>3. QED
    BY <2>1, <2>2
       DEF Next, vars, JobStep, DeleteStep, WorkerCrash, JobExpires, RecordingCompletes,
           RecordingCallback, CorrectSpeaker, DeleteRead, DeleteRow, DeleteObject,
           UploadPick, UploadFetch, UploadPut, UploadFails, UploadChain, UploadCleanup,
           TranscribePick, TranscribeSkip, TranscribeGiveUp, TranscribeCall, TranscribeFails,
           PersistLock, PersistCommit, PersistFails, PersistVoicemail
<1>2. TypeOK /\ [Next]_vars =>
        [\A c \in Calls : recordingStatus[c] = "stored" => recordingStatus'[c] = "stored"]_vars
  BY <1>1
<1>3. QED
  BY <1>2, TypeCorrect, PTL DEF Spec, StoredStays

-----------------------------------------------------------------------------
(* The row lock gives a call to one final pass at a time, and no speaker   *)
(* appears behind the back of the pass that holds it.                      *)
SpeakerInv ==
    \A j \in JobIds : jobs[j].pc = "seed" =>
        /\ jobs[j].item \in Calls
        /\ speaker[jobs[j].item] # "none" => jobs[j].known
        /\ \A k \in JobIds \ {j} : jobs[k].pc = "seed" => jobs[k].item # jobs[j].item

(* A step that starts no final pass, and changes none.                     *)
NoNewPass ==
    \A k \in JobIds : jobs'[k].pc = "seed" =>
        /\ jobs[k].pc = "seed"
        /\ jobs'[k].item = jobs[k].item /\ jobs'[k].known = jobs[k].known

(* Moving on, settling, redelivering and queueing a job start no pass.     *)
LEMMA JobMovesStartNoPass ==
  ASSUME TypeOK, NEW j \in JobIds,
         \/ \E pc \in RunningPcs \ {"seed"} : GoTo(j, pc)
         \/ Settled(j) \/ Redelivered(j)
         \/ \E kind \in {"upload", "transcribe"}, i \in Items : Enqueue(kind, i)
  PROVE  NoNewPass
  BY SMTT(30)
     DEF TypeOK, Job, NoNewPass, GoTo, Settled, Redelivered, Enqueue, Fresh, FreeJob, FreeJobs

(* Of all steps, only PersistLock starts a final pass.                     *)
LEMMA OnlyPersistLockStartsPass ==
  ASSUME TypeOK, Next, \A j \in JobIds : ~PersistLock(j)
  PROVE  NoNewPass
<1>1. RunningPcs \ {"seed"} = {"fetch", "put", "failed", "record", "chain", "cleanup",
                              "skip", "provider", "persist"}
  BY DEF RunningPcs
<1>2. ASSUME NEW j \in JobIds,
             \/ UploadPick(j) \/ UploadFetch(j) \/ UploadPut(j) \/ UploadFails(j)
             \/ UploadGiveUp(j) \/ UploadRecord(j) \/ UploadCleanup(j)
      PROVE  NoNewPass
  BY <1>1, <1>2, JobMovesStartNoPass
     DEF UploadPick, UploadFetch, UploadPut, UploadFails, UploadGiveUp, UploadRecord, UploadCleanup
<1>3. ASSUME NEW j \in JobIds, UploadChain(j) PROVE NoNewPass
  <2>1. CASE Redelivered(j)
    BY <2>1, JobMovesStartNoPass
  <2>2. CASE ~Redelivered(j)
    BY <1>3, <2>2 DEF UploadChain, TypeOK, Job, NoNewPass, Fresh, FreeJobs
  <2>3. QED
    BY <2>1, <2>2
<1>4. ASSUME NEW j \in JobIds,
             \/ TranscribePick(j) \/ TranscribeSkip(j) \/ TranscribeGiveUp(j)
             \/ TranscribeCall(j) \/ TranscribeFails(j)
             \/ PersistCommit(j) \/ PersistFails(j) \/ PersistVoicemail(j)
      PROVE  NoNewPass
  BY <1>1, <1>4, JobMovesStartNoPass
     DEF TranscribePick, TranscribeSkip, TranscribeGiveUp, TranscribeCall, TranscribeFails,
         PersistCommit, PersistFails, PersistVoicemail
<1>5. ASSUME NEW j \in JobIds, WorkerCrash(j) PROVE NoNewPass
  BY <1>5, JobMovesStartNoPass DEF WorkerCrash
<1>6. ASSUME NEW j \in JobIds, JobExpires(j) PROVE NoNewPass
  <2>1. PICK k \in FreeJobs :
          jobs' = [jobs EXCEPT ![j].zombie = TRUE,
                     ![k] = [Fresh(jobs[j].kind, jobs[j].item) EXCEPT !.retry = jobs[j].retry + 1]]
    BY <1>6 DEF JobExpires
  <2>2. jobs'[k].pc = "queued"
    BY <2>1 DEF TypeOK, Job, Fresh, FreeJobs
  <2>3. ASSUME NEW l \in JobIds \ {k}
        PROVE  /\ jobs'[l].pc = jobs[l].pc /\ jobs'[l].item = jobs[l].item
               /\ jobs'[l].known = jobs[l].known
    BY <2>1 DEF TypeOK, Job
  <2>4. QED
    BY <2>2, <2>3 DEF NoNewPass
<1>7. ASSUME NEW i \in Items, RecordingCallback(i) PROVE NoNewPass
  <2>1. CASE UNCHANGED jobs
    BY <2>1 DEF NoNewPass
  <2>2. CASE Enqueue("upload", i)
    <3>1. PICK k \in FreeJobs : jobs' = [jobs EXCEPT ![k] = Fresh("upload", i)]
      BY <2>2 DEF Enqueue
    <3>2. k \in JobIds
      BY DEF FreeJobs
    <3>3. QED
      BY <2>2, <3>2, JobMovesStartNoPass
  <2>3. QED
    BY <1>7, <2>1, <2>2 DEF RecordingCallback
<1>8. CASE UNCHANGED jobs
  BY <1>8 DEF NoNewPass
<1>9. QED
  BY <1>2, <1>3, <1>4, <1>5, <1>6, <1>7, <1>8
     DEF Next, JobStep, DeleteStep, RecordingCompletes, CorrectSpeaker, DeleteRead,
         DeleteRow, DeleteObject

(* Only a final pass and a correction write a speaker.                     *)
LEMMA SpeakerWriters ==
  ASSUME Next, \A j \in JobIds : ~PersistCommit(j), \A c \in Calls : ~CorrectSpeaker(c)
  PROVE  UNCHANGED speaker
  BY DEF Next, rowVars, JobStep, DeleteStep, WorkerCrash, JobExpires, RecordingCompletes,
         RecordingCallback, DeleteRead, DeleteRow, DeleteObject, UploadPick, UploadFetch,
         UploadPut, UploadFails, UploadGiveUp, UploadRecord, UploadChain, UploadCleanup,
         TranscribePick, TranscribeSkip, TranscribeGiveUp, TranscribeCall, TranscribeFails,
         PersistLock, PersistFails, PersistVoicemail

(* The invariant is inductive.                                             *)
LEMMA SpeakerStep ==
  ASSUME TypeOK, SpeakerInv, [Next]_vars
  PROVE  SpeakerInv'
<1>1. ASSUME NEW j \in JobIds, PersistLock(j) PROVE SpeakerInv'
  BY <1>1 DEF PersistLock, At, RowLocked, SpeakerInv, TypeOK, Job, rowVars
<1>2. ASSUME NEW j \in JobIds, PersistCommit(j) PROVE SpeakerInv'
  <2>1. ASSUME NEW k \in JobIds, jobs'[k].pc = "seed"
        PROVE  /\ k # j /\ jobs'[k] = jobs[k]
               /\ speaker'[jobs[k].item] = speaker[jobs[k].item]
    BY <1>2, <2>1 DEF PersistCommit, At, Settled, FreeJob, SpeakerInv, TypeOK
  <2>2. QED
    BY <2>1 DEF SpeakerInv
<1>3. ASSUME NEW c \in Calls, CorrectSpeaker(c) PROVE SpeakerInv'
  BY <1>3 DEF CorrectSpeaker, SpeakerInv, TypeOK
<1>4. CASE NoNewPass /\ UNCHANGED speaker
  BY <1>4 DEF NoNewPass, SpeakerInv
<1>5. CASE UNCHANGED vars
  BY <1>5 DEF SpeakerInv, vars, rowVars
<1>6. QED
  BY <1>1, <1>2, <1>3, <1>4, <1>5, OnlyPersistLockStartsPass, SpeakerWriters

(* A correction a person made is never replaced by a final pass, not even  *)
(* by one that read the speakers before the correction was made.           *)
THEOREM CorrectionsStay == Spec => ManualSpeakerStays
<1>1. Init => SpeakerInv
  BY DEF Init, SpeakerInv, FreeJob
<1>2. ASSUME TypeOK, SpeakerInv, [Next]_vars, NEW c \in Calls, speaker[c] = "manual"
      PROVE  speaker'[c] = "manual"
  <2>1. ASSUME NEW j \in JobIds, PersistCommit(j) PROVE speaker'[c] = "manual"
    BY <1>2, <2>1 DEF PersistCommit, At, SpeakerInv, TypeOK
  <2>2. ASSUME NEW d \in Calls, CorrectSpeaker(d) PROVE speaker'[c] = "manual"
    BY <1>2, <2>2 DEF CorrectSpeaker, TypeOK
  <2>3. CASE UNCHANGED vars
    BY <1>2, <2>3 DEF vars, rowVars
  <2>4. QED
    BY <1>2, <2>1, <2>2, <2>3, SpeakerWriters
<1>3. TypeOK /\ SpeakerInv /\ [Next]_vars =>
        [\A c \in Calls : speaker[c] = "manual" => speaker'[c] = "manual"]_vars
  BY <1>2
<1>4. TypeOK /\ SpeakerInv /\ [Next]_vars => SpeakerInv'
  BY SpeakerStep
<1>5. QED
  BY <1>1, <1>3, <1>4, TypeCorrect, PTL DEF Spec, ManualSpeakerStays

(* So what an upload, a transcription or a person has finished stays so,   *)
(* for any number of deliveries, late or doubled.                          *)
THEOREM FinishedStepsStay == Spec => FinishedStays
BY TranscriptsStay, StoredRecordingsStay, CorrectionsStay DEF FinishedStays

-----------------------------------------------------------------------------
(* The steps of a job that move audio are steps of AudioCustody, the       *)
(* others leave all of it alone.                                           *)
LEMMA JobStepKeepsCustody ==
  ASSUME TypeOK, AudioInv, NEW j \in JobIds, JobStep(j)
  PROVE  [Custody!Next]_(Custody!vars)
<1>1. PICK i \in Items : i = jobs[j].item
  BY DEF TypeOK, Job
<1>2. CASE UploadPut(j)
  <2>1. audio[i] = "held" \/ (audio[i] = "deleted" /\ Kept(i))
    BY <1>1, <1>2 DEF TypeOK, AudioInv, JobSafe, UploadPut, At
  <2>2. {k \in Items : object'[k]} = {k \in Items : object[k]} \cup {i}
    BY <1>1, <1>2 DEF TypeOK, UploadPut
  <2>3. UNCHANGED <<audio, recordingUrl, gone>>
    BY <1>2 DEF UploadPut, rowVars
  <2>4. Custody!Copy(i)
    BY <2>1, <2>2, <2>3 DEF Kept, Custody!Copy
  <2>5. QED
    BY <2>4 DEF Custody!Next
<1>3. CASE UploadRecord(j)
  <2>1. CASE i \notin gone /\ ~recordingUrl[i]
    <3>1. object[i] /\ i \notin gone
      BY <1>1, <1>3, <2>1 DEF AudioInv, JobSafe, Kept, UploadRecord, At
    <3>2. {k \in Items : recordingUrl'[k]} = {k \in Items : recordingUrl[k]} \cup {i}
      BY <1>1, <1>3, <2>1 DEF TypeOK, UploadRecord
    <3>3. UNCHANGED <<audio, object, gone>>
      BY <1>3 DEF UploadRecord, storeVars
    <3>4. Custody!Name(i)
      BY <2>1, <3>1, <3>2, <3>3 DEF Custody!Name
    <3>5. QED
      BY <3>4 DEF Custody!Next
  <2>2. CASE ~(i \notin gone /\ ~recordingUrl[i])
    BY <1>1, <1>3, <2>2 DEF UploadRecord, storeVars, Custody!vars
  <2>3. QED
    BY <2>1, <2>2
<1>4. CASE UploadCleanup(j)
  <2>1. CASE UNCHANGED audio
    BY <1>4, <2>1 DEF UploadCleanup, rowVars, Custody!vars
  <2>2. CASE audio' = [audio EXCEPT ![i] = "deleted"]
    <3>1. recordingUrl[i]
      BY <1>1, <1>4 DEF AudioInv, JobSafe, UploadCleanup, At
    <3>2. {k \in Items : audio'[k] = "held"} = {k \in Items : audio[k] = "held"} \ {i}
      BY <1>1, <2>2 DEF TypeOK
    <3>3. UNCHANGED <<object, recordingUrl, gone>>
      BY <1>4 DEF UploadCleanup, rowVars
    <3>4. Custody!GiveUp(i)
      BY <3>1, <3>2, <3>3 DEF Custody!GiveUp
    <3>5. QED
      BY <3>4 DEF Custody!Next
  <2>3. QED
    BY <1>1, <1>4, <2>1, <2>2 DEF UploadCleanup
<1>5. CASE UNCHANGED <<audio, object, recordingUrl, gone>>
  BY <1>5 DEF Custody!vars
<1>6. UploadPut(j) \/ UploadRecord(j) \/ UploadCleanup(j)
      \/ UNCHANGED <<audio, object, recordingUrl, gone>>
  BY DEF JobStep, UploadPick, UploadFetch, UploadFails, UploadGiveUp, UploadChain,
         TranscribePick, TranscribeSkip, TranscribeGiveUp, TranscribeCall, TranscribeFails,
         PersistLock, PersistCommit, PersistFails, PersistVoicemail, rowVars, storeVars
<1>7. QED
  BY <1>2, <1>3, <1>4, <1>5, <1>6

(* So are the steps of Twilio, of a person and of a failing worker.        *)
LEMMA OtherStepKeepsCustody ==
  ASSUME TypeOK, AudioInv,
         \/ \E j \in JobIds : WorkerCrash(j) \/ JobExpires(j)
         \/ \E i \in Items : RecordingCompletes(i) \/ RecordingCallback(i)
         \/ \E c \in Calls : CorrectSpeaker(c)
         \/ \E v \in Voicemails : DeleteRead(v) \/ DeleteStep(v)
  PROVE  [Custody!Next]_(Custody!vars)
<1>1. ASSUME NEW i \in Items, RecordingCompletes(i) PROVE [Custody!Next]_(Custody!vars)
  <2>1. Custody!Record(i)
    BY <1>1 DEF TypeOK, AudioInv, RecordingCompletes, rowVars, Custody!Record
  <2>2. QED
    BY <2>1 DEF Custody!Next
<1>2. ASSUME NEW v \in Voicemails, DeleteRow(v) PROVE [Custody!Next]_(Custody!vars)
  <2>1. v \in Items /\ Custody!Delete(v)
    BY <1>2 DEF DeleteRow, Items, storeVars, Custody!Delete
  <2>2. QED
    BY <2>1 DEF Custody!Next
<1>3. ASSUME NEW v \in Voicemails, DeleteObject(v) PROVE [Custody!Next]_(Custody!vars)
  <2>1. v \in Items /\ v \in gone
    BY <1>3 DEF AudioInv, DeleteObject, Items
  <2>2. CASE UNCHANGED object
    BY <1>3, <2>2 DEF DeleteObject, rowVars, Custody!vars
  <2>3. CASE object' = [object EXCEPT ![v] = FALSE]
    <3>1. Custody!Erase(v)
      BY <1>3, <2>1, <2>3 DEF TypeOK, DeleteObject, rowVars, Custody!Erase
    <3>2. QED
      BY <2>1, <3>1 DEF Custody!Next
  <2>4. QED
    BY <1>3, <2>2, <2>3 DEF DeleteObject
<1>4. CASE UNCHANGED <<audio, object, recordingUrl, gone>>
  BY <1>4 DEF Custody!vars
<1>5. \/ \E i \in Items : RecordingCompletes(i)
      \/ \E v \in Voicemails : DeleteRow(v) \/ DeleteObject(v)
      \/ UNCHANGED <<audio, object, recordingUrl, gone>>
  BY DEF WorkerCrash, JobExpires, RecordingCallback, CorrectSpeaker, DeleteRead, DeleteStep,
         rowVars, storeVars
<1>6. QED
  BY <1>1, <1>2, <1>3, <1>4, <1>5

(* Recordings implements AudioCustody: whatever the jobs, the callbacks    *)
(* and the requests do to an item's audio is a step of the promise.        *)
THEOREM CustodyIsKept == Spec => KeepsCustody
<1>1. Init => Custody!Init
  BY DEF Init, Custody!Init
<1>2. TypeOK /\ AudioInv /\ [Next]_vars => [Custody!Next]_(Custody!vars)
  <2>1. CASE UNCHANGED vars
    BY <2>1 DEF vars, rowVars, storeVars, Custody!vars
  <2>2. CASE Next
    BY <2>2, JobStepKeepsCustody, OtherStepKeepsCustody DEF Next
  <2>3. QED
    BY <2>1, <2>2
<1>3. QED
  BY <1>1, <1>2, AudioInit, AudioStep, TypeCorrect, PTL DEF Spec, KeepsCustody, Custody!Spec
=============================================================================
