----------------------------- MODULE Recordings -----------------------------
(* From Twilio's "recording completed" callback to a transcript: the       *)
(* upload jobs that move the audio of a call or of a voicemail from Twilio *)
(* to S3, the transcription jobs they chain, the speaker a person corrects *)
(* meanwhile, and the voicemail a person deletes meanwhile.                *)
(*                                                                         *)
(* An item is a Call row or a Voicemail row. pg-boss delivers every job at *)
(* least once; Call rows are not deleted while their audio is processed.   *)
(***************************************************************************)
EXTENDS Naturals, FiniteSets

CONSTANTS
    Calls,               \* Call rows
    Voicemails,          \* Voicemail rows
    PlannedCalls,        \* the calls whose recording the policy allowed
    JobIds,              \* pg-boss job slots; at most this many jobs live at once
    RetryLimit,          \* UPLOAD_RECORDING_RETRY_LIMIT and its three siblings
    Faults               \* the failures this instance meets (FaultKinds)

(* "crash": a worker dies between two steps. "expire": pg-boss gives a job *)
(* that still runs to a second worker. "duplicate": Twilio posts a         *)
(* callback again. "sendFails": an enqueue throws. "storeFails": a write   *)
(* of a transcript throws, or S3 does not delete an object.                *)
FaultKinds == {"crash", "expire", "duplicate", "sendFails", "storeFails"}

Items == Calls \cup Voicemails

ASSUME RecordingConstants ==
    /\ Calls \cap Voicemails = {}
    /\ Items # {}
    /\ PlannedCalls \subseteq Calls
    /\ RetryLimit \in Nat
    /\ Faults \subseteq FaultKinds

VARIABLES
    gone,                \* the voicemails whose row was deleted
    recordingUrl,        \* item -> whether it is set
    recordingStatus,     \* call -> "pending", "stored", "failed"
    transcriptStatus,    \* item -> see TranscriptStatuses
    speaker,             \* call -> its outside CallSpeaker: none, automatic, manual
    audio,               \* item -> what Twilio has: "none" yet, "held", "deleted"
    object,              \* item -> whether its S3 object exists
    notices,             \* the items whose callback is under way
    deletion,            \* voicemail -> the step its DELETE request is at
    jobs

rowVars == <<gone, recordingUrl, recordingStatus, transcriptStatus, speaker>>
storeVars == <<audio, object>>
vars == <<rowVars, storeVars, notices, deletion, jobs>>

-----------------------------------------------------------------------------
TranscriptStatuses == {"pending", "done", "failed", "skipped-not-recorded"}
RunningPcs == {"fetch", "put", "failed", "record", "chain", "cleanup",
               "skip", "provider", "persist", "seed"}
Job == [pc : {"free", "queued"} \cup RunningPcs, kind : {"upload", "transcribe"},
        item : Items, retry : Nat, zombie : BOOLEAN,
        known : BOOLEAN]    \* the speaker row was there when the pass read it
FreeJobs == {j \in JobIds : jobs[j].pc = "free"}
FreeJob == [pc |-> "free", kind |-> "upload", item |-> CHOOSE i \in Items : TRUE,
            retry |-> 0, zombie |-> FALSE, known |-> FALSE]
Fresh(kind, i) == [pc |-> "queued", kind |-> kind, item |-> i, retry |-> 0,
                   zombie |-> FALSE, known |-> FALSE]

Init ==
    /\ gone = {}
    /\ recordingUrl = [i \in Items |-> FALSE]
    /\ recordingStatus = [c \in Calls |-> "pending"]
    /\ transcriptStatus = [i \in Items |-> "pending"]
    /\ speaker = [c \in Calls |-> "none"]
    /\ audio = [i \in Items |-> "none"]
    /\ object = [i \in Items |-> FALSE]
    /\ notices = {}
    /\ deletion = [v \in Voicemails |-> "idle"]
    /\ jobs = [j \in JobIds |-> FreeJob]

Enqueue(kind, i) == \E j \in FreeJobs : jobs' = [jobs EXCEPT ![j] = Fresh(kind, i)]
GoTo(j, pc) == jobs' = [jobs EXCEPT ![j].pc = pc]
Settled(j) == jobs' = [jobs EXCEPT ![j] = FreeJob]
RetriesLeft(j) == jobs[j].retry < RetryLimit

(* The handler threw: pg-boss redelivers the job while its budget lasts,   *)
(* and drops it after that. A zombie's job is somebody else's already.     *)
Redelivered(j) ==
    IF RetriesLeft(j) /\ ~jobs[j].zombie
    THEN jobs' = [jobs EXCEPT ![j] = [Fresh(@.kind, @.item) EXCEPT !.retry = jobs[j].retry + 1]]
    ELSE Settled(j)

At(j, kind, pc) == jobs[j].kind = kind /\ jobs[j].pc = pc

(* The final pass of a transcription holds its Call row until it commits.  *)
RowLocked(i) == \E j \in JobIds : jobs[j].pc = "seed" /\ jobs[j].item = i

-----------------------------------------------------------------------------
(* Twilio, and its callbacks.                                              *)

RecordingCompletes(i) ==
    /\ audio[i] = "none"
    /\ audio' = [audio EXCEPT ![i] = "held"]
    /\ notices' = notices \cup {i}
    /\ UNCHANGED <<rowVars, object, deletion, jobs>>

(* POST /voice/recording-status and /voice/voicemail-recording; a row that *)
(* is not found is answered 404. The status callback of a call queues the  *)
(* same upload when it names a recording: one more "duplicate".            *)
RecordingCallback(i) ==
    /\ i \in notices
    /\ \/ i \notin gone /\ Enqueue("upload", i)
       \/ i \in gone /\ UNCHANGED jobs
       \/ "sendFails" \in Faults /\ UNCHANGED jobs
    /\ notices' \in {notices \ {i}} \cup (IF "duplicate" \in Faults THEN {notices} ELSE {})
    /\ UNCHANGED <<rowVars, storeVars, deletion>>

-----------------------------------------------------------------------------
(* uploadRecordingJob and uploadVoicemailJob.                              *)

UploadPick(j) ==
    LET i == jobs[j].item IN
    /\ At(j, "upload", "queued")
    /\ IF i \in gone \/ recordingUrl[i] THEN Settled(j) ELSE GoTo(j, "fetch")
    /\ UNCHANGED <<rowVars, storeVars, notices, deletion>>

(* Mutant: Twilio's copy is dropped as soon as it has been fetched.        *)
UploadFetchAndDrop(j) ==
    /\ At(j, "upload", "fetch")
    /\ audio[jobs[j].item] = "held"
    /\ audio' = [audio EXCEPT ![jobs[j].item] = "deleted"]
    /\ GoTo(j, "put")
    /\ UNCHANGED <<rowVars, object, notices, deletion>>

UploadFetch(j) ==
    /\ At(j, "upload", "fetch")
    /\ audio[jobs[j].item] = "held"
    /\ GoTo(j, "put")
    /\ UNCHANGED <<rowVars, storeVars, notices, deletion>>

UploadPut(j) ==
    /\ At(j, "upload", "put")
    /\ object' = [object EXCEPT ![jobs[j].item] = TRUE]
    /\ GoTo(j, "record")
    /\ UNCHANGED <<rowVars, audio, notices, deletion>>

(* A transient failure is thrown while the budget lasts; a permanent one,  *)
(* such as the 404 for audio Twilio no longer has, is not.                 *)
UploadFails(j) ==
    /\ At(j, "upload", "fetch") \/ At(j, "upload", "put")
    /\ \/ /\ RetriesLeft(j) /\ (jobs[j].pc = "fetch" => audio[jobs[j].item] = "held")
          /\ Redelivered(j)
       \/ GoTo(j, "failed")
    /\ UNCHANGED <<rowVars, storeVars, notices, deletion>>

(* Mutant: a stored recording is marked failed like any other.             *)
UploadGiveUpUnchecked(j) ==
    /\ At(j, "upload", "failed")
    /\ recordingStatus' = [c \in Calls |-> IF c = jobs[j].item THEN "failed"
                                           ELSE recordingStatus[c]]
    /\ Settled(j)
    /\ UNCHANGED <<gone, recordingUrl, transcriptStatus, speaker, storeVars, notices, deletion>>

(* markRecordingFailed; a voicemail has no status to mark.                 *)
UploadGiveUp(j) ==
    /\ At(j, "upload", "failed") /\ ~RowLocked(jobs[j].item)
    /\ recordingStatus' = [c \in Calls |->
          IF c = jobs[j].item /\ recordingStatus[c] # "stored" THEN "failed"
          ELSE recordingStatus[c]]
    /\ Settled(j)
    /\ UNCHANGED <<gone, recordingUrl, transcriptStatus, speaker, storeVars, notices, deletion>>

(* Compare-and-set: only the delivery that stores the recording first goes *)
(* on to chain the transcription.                                          *)
UploadRecord(j) ==
    LET i == jobs[j].item IN
    /\ At(j, "upload", "record") /\ ~RowLocked(i)
    /\ IF i \notin gone /\ ~recordingUrl[i]
       THEN /\ recordingUrl' = [recordingUrl EXCEPT ![i] = TRUE]
            /\ recordingStatus' = [c \in Calls |-> IF c = i THEN "stored" ELSE recordingStatus[c]]
            /\ GoTo(j, "chain")
       ELSE UNCHANGED <<recordingUrl, recordingStatus>> /\ Settled(j)
    /\ UNCHANGED <<gone, transcriptStatus, speaker, storeVars, notices, deletion>>

UploadChain(j) ==
    /\ At(j, "upload", "chain")
    /\ \/ \E k \in FreeJobs :
            jobs' = [jobs EXCEPT ![j].pc = "cleanup",
                       ![k] = Fresh("transcribe", jobs[j].item)]
       \/ "sendFails" \in Faults /\ Redelivered(j)
    /\ UNCHANGED <<rowVars, storeVars, notices, deletion>>

(* Twilio's copy goes, or stays there for good: a failure is only logged.  *)
UploadCleanup(j) ==
    /\ At(j, "upload", "cleanup")
    /\ audio' \in {audio, [audio EXCEPT ![jobs[j].item] = "deleted"]}
    /\ Settled(j)
    /\ UNCHANGED <<rowVars, object, notices, deletion>>

-----------------------------------------------------------------------------
(* transcribeRecordingJob and transcribeVoicemailJob.                      *)

TranscribePick(j) ==
    LET i == jobs[j].item IN
    /\ At(j, "transcribe", "queued")
    /\ IF i \in gone \/ transcriptStatus[i] = "done" THEN Settled(j)
       ELSE IF i \in Calls /\ (i \notin PlannedCalls \/ ~recordingUrl[i]) THEN GoTo(j, "skip")
       ELSE IF ~recordingUrl[i] THEN GoTo(j, "failed")
       ELSE GoTo(j, "provider")
    /\ UNCHANGED <<rowVars, storeVars, notices, deletion>>

(* markTranscriptFailed, markTranscriptSkipped: not over a transcript.     *)
MarkTranscript(i, outcome) ==
    IF i \in gone \/ transcriptStatus[i] = "done" THEN UNCHANGED transcriptStatus
    ELSE transcriptStatus' = [transcriptStatus EXCEPT ![i] = outcome]

(* Mutant: the skip is written with a word the column does not have.       *)
TranscribeSkipMisnamed(j) ==
    /\ At(j, "transcribe", "skip") /\ ~RowLocked(jobs[j].item)
    /\ MarkTranscript(jobs[j].item, "skipped")
    /\ Settled(j)
    /\ UNCHANGED <<gone, recordingUrl, recordingStatus, speaker, storeVars, notices, deletion>>

TranscribeSkip(j) ==
    /\ At(j, "transcribe", "skip") /\ ~RowLocked(jobs[j].item)
    /\ MarkTranscript(jobs[j].item, "skipped-not-recorded")
    /\ Settled(j)
    /\ UNCHANGED <<gone, recordingUrl, recordingStatus, speaker, storeVars, notices, deletion>>

TranscribeGiveUp(j) ==
    /\ At(j, "transcribe", "failed") /\ ~RowLocked(jobs[j].item)
    /\ MarkTranscript(jobs[j].item, "failed")
    /\ Settled(j)
    /\ UNCHANGED <<gone, recordingUrl, recordingStatus, speaker, storeVars, notices, deletion>>

(* The provider reads the object's bytes and answers with a transcript.    *)
TranscribeCall(j) ==
    /\ At(j, "transcribe", "provider")
    /\ object[jobs[j].item]
    /\ GoTo(j, "persist")
    /\ UNCHANGED <<rowVars, storeVars, notices, deletion>>

(* Mutant: the last failure is thrown like the ones before it.             *)
TranscribeFailsForgotten(j) ==
    /\ At(j, "transcribe", "provider")
    /\ Redelivered(j)
    /\ UNCHANGED <<rowVars, storeVars, notices, deletion>>

TranscribeFails(j) ==
    /\ At(j, "transcribe", "provider")
    /\ IF RetriesLeft(j) THEN Redelivered(j) ELSE GoTo(j, "failed")
    /\ UNCHANGED <<rowVars, storeVars, notices, deletion>>

(* persistFinalTranscript, first half: the Call row is written and locked, *)
(* then the speakers that exist are read.                                  *)
PersistLock(j) ==
    LET c == jobs[j].item IN
    /\ At(j, "transcribe", "persist") /\ c \in Calls /\ ~RowLocked(c)
    /\ jobs' = [jobs EXCEPT ![j].pc = "seed", ![j].known = speaker[c] # "none"]
    /\ UNCHANGED <<rowVars, storeVars, notices, deletion>>

(* Mutant: a known speaker is updated without the manualOverride filter.   *)
PersistCommitOverwrites(j) ==
    LET c == jobs[j].item IN
    /\ At(j, "transcribe", "seed")
    /\ transcriptStatus' = [transcriptStatus EXCEPT ![c] = "done"]
    /\ speaker' = [speaker EXCEPT ![c] = "automatic"]
    /\ Settled(j)
    /\ UNCHANGED <<gone, recordingUrl, recordingStatus, storeVars, notices, deletion>>

(* Second half: a missing speaker is created, a known one updated unless a *)
(* person has decided it; all of it commits at once.                       *)
PersistCommit(j) ==
    LET c == jobs[j].item IN
    /\ At(j, "transcribe", "seed")
    /\ transcriptStatus' = [transcriptStatus EXCEPT ![c] = "done"]
    /\ speaker' = IF jobs[j].known /\ speaker[c] = "manual" THEN speaker
                  ELSE [speaker EXCEPT ![c] = "automatic"]
    /\ Settled(j)
    /\ UNCHANGED <<gone, recordingUrl, recordingStatus, storeVars, notices, deletion>>

(* The write fails and nothing of it remains. A call's pass gives up with  *)
(* the last attempt; a voicemail's write is outside the job's try block.   *)
PersistFails(j) ==
    /\ At(j, "transcribe", "persist") \/ At(j, "transcribe", "seed")
    /\ "storeFails" \in Faults
    /\ IF RetriesLeft(j) \/ jobs[j].item \in Voicemails THEN Redelivered(j)
       ELSE GoTo(j, "failed")
    /\ UNCHANGED <<rowVars, storeVars, notices, deletion>>

PersistVoicemail(j) ==
    /\ At(j, "transcribe", "persist") /\ jobs[j].item \in Voicemails
    /\ MarkTranscript(jobs[j].item, "done")
    /\ Settled(j)
    /\ UNCHANGED <<gone, recordingUrl, recordingStatus, speaker, storeVars, notices, deletion>>

-----------------------------------------------------------------------------
(* PATCH /calls/:callId/speakers/:speakerKey: a person decides who spoke.  *)
CorrectSpeaker(c) ==
    /\ speaker[c] # "none"
    /\ speaker' = [speaker EXCEPT ![c] = "manual"]
    /\ UNCHANGED <<gone, recordingUrl, recordingStatus, transcriptStatus, storeVars,
                   notices, deletion, jobs>>

(* Mutant: the audio is deleted before the row that names it.              *)
DeleteErasesFirst(v) ==
    /\ v \notin gone /\ deletion[v] = "idle"
    /\ deletion' = [deletion EXCEPT ![v] = IF recordingUrl[v] THEN "withKey" ELSE "noKey"]
    /\ object' = [object EXCEPT ![v] = FALSE]
    /\ UNCHANGED <<rowVars, audio, notices, jobs>>

(* DELETE /voicemails/:id reads the row for its key, deletes the row, and  *)
(* deletes the object of the key it read; a failure of that is logged.     *)
DeleteRead(v) ==
    /\ v \notin gone /\ deletion[v] = "idle"
    /\ deletion' = [deletion EXCEPT ![v] = IF recordingUrl[v] THEN "withKey" ELSE "noKey"]
    /\ UNCHANGED <<rowVars, storeVars, notices, jobs>>

DeleteRow(v) ==
    /\ deletion[v] \in {"withKey", "noKey"}
    /\ gone' = gone \cup {v}
    /\ deletion' = [deletion EXCEPT ![v] = IF @ = "withKey" THEN "cleanup" ELSE "over"]
    /\ UNCHANGED <<recordingUrl, recordingStatus, transcriptStatus, speaker, storeVars,
                   notices, jobs>>

DeleteObject(v) ==
    /\ deletion[v] = "cleanup"
    /\ \/ object' = [object EXCEPT ![v] = FALSE]
       \/ "storeFails" \in Faults /\ UNCHANGED object
    /\ deletion' = [deletion EXCEPT ![v] = "over"]
    /\ UNCHANGED <<rowVars, audio, notices, jobs>>

-----------------------------------------------------------------------------
WorkerCrash(j) ==
    /\ "crash" \in Faults
    /\ jobs[j].pc \in RunningPcs
    /\ Redelivered(j)
    /\ UNCHANGED <<rowVars, storeVars, notices, deletion>>

JobExpires(j) ==
    /\ "expire" \in Faults
    /\ jobs[j].pc \in RunningPcs /\ ~jobs[j].zombie /\ RetriesLeft(j)
    /\ \E k \in FreeJobs :
        jobs' = [jobs EXCEPT ![j].zombie = TRUE,
                   ![k] = [Fresh(jobs[j].kind, jobs[j].item) EXCEPT !.retry = jobs[j].retry + 1]]
    /\ UNCHANGED <<rowVars, storeVars, notices, deletion>>

JobStep(j) ==
    \/ UploadPick(j) \/ UploadFetch(j) \/ UploadPut(j) \/ UploadFails(j)
    \/ UploadGiveUp(j) \/ UploadRecord(j) \/ UploadChain(j) \/ UploadCleanup(j)
    \/ TranscribePick(j) \/ TranscribeSkip(j) \/ TranscribeGiveUp(j)
    \/ TranscribeCall(j) \/ TranscribeFails(j)
    \/ PersistLock(j) \/ PersistCommit(j) \/ PersistFails(j) \/ PersistVoicemail(j)

DeleteStep(v) == DeleteRow(v) \/ DeleteObject(v)

Next ==
    \/ \E j \in JobIds : JobStep(j) \/ WorkerCrash(j) \/ JobExpires(j)
    \/ \E i \in Items : RecordingCompletes(i) \/ RecordingCallback(i)
    \/ \E c \in Calls : CorrectSpeaker(c)
    \/ \E v \in Voicemails : DeleteRead(v) \/ DeleteStep(v)

Spec == Init /\ [][Next]_vars

(* Workers and requests go on, row locks are granted in turn, and Twilio   *)
(* delivers its callback at least once.                                    *)
Fairness ==
    /\ \A j \in JobIds : SF_vars(JobStep(j))
    /\ \A i \in Items : SF_vars(RecordingCallback(i))
    /\ \A v \in Voicemails : WF_vars(DeleteStep(v))
FairSpec == Spec /\ Fairness

-----------------------------------------------------------------------------
(* Every variable has its type.                                            *)
TypeOK ==
    /\ gone \subseteq Voicemails
    /\ recordingUrl \in [Items -> BOOLEAN]
    /\ recordingStatus \in [Calls -> {"pending", "stored", "failed"}]
    /\ transcriptStatus \in [Items -> TranscriptStatuses]
    /\ speaker \in [Calls -> {"none", "automatic", "manual"}]
    /\ audio \in [Items -> {"none", "held", "deleted"}]
    /\ object \in [Items -> BOOLEAN]
    /\ notices \subseteq Items
    /\ deletion \in [Voicemails -> {"idle", "withKey", "noKey", "cleanup", "over"}]
    /\ jobs \in [JobIds -> Job]

(* uploadRecording.ts: Twilio's copy of a recording is given up only when  *)
(* the row names our own, so one of the two stores always holds the audio; *)
(* or a person has deleted the voicemail.                                  *)
AudioIsKept ==
    \A i \in Items : audio[i] = "deleted" => i \in gone \/ (object[i] /\ recordingUrl[i])

(* A stored recording stays stored, whatever a late or doubled delivery of *)
(* its upload runs into (Twilio answers 404 for what was cleaned up).      *)
StoredStays ==
    [][\A c \in Calls : recordingStatus[c] = "stored" => recordingStatus'[c] = "stored"]_vars

(* uploadRecording.ts: the transcription is chained, never raced: a call   *)
(* that was to be recorded is not written off as not recorded.             *)
PlannedIsNotSkipped ==
    \A c \in PlannedCalls : transcriptStatus[c] # "skipped-not-recorded"

(* No recording is lost or passed over: one of the stores has it until a   *)
(* person deletes it, and its transcription waits for it.                  *)
NoAudioIsLost == AudioIsKept /\ PlannedIsNotSkipped

(* A finished transcript is not taken back by a delivery that failed.      *)
TranscriptStays ==
    [][\A i \in Items : transcriptStatus[i] = "done" => transcriptStatus'[i] = "done"]_vars

(* transcribeRecording.ts: manual identity corrections are never replaced, *)
(* though a second pass may have read the speakers before the correction.  *)
ManualSpeakerStays ==
    [][\A c \in Calls : speaker[c] = "manual" => speaker'[c] = "manual"]_vars

(* What an upload, a transcription or a person has finished, none undoes.  *)
FinishedStays == StoredStays /\ TranscriptStays /\ ManualSpeakerStays

(* A recording that was stored gets its transcription settled.             *)
StoredIsTranscribed ==
    \A i \in Items : recordingUrl[i] ~> transcriptStatus[i] # "pending" \/ i \in gone

(* A call whose recording Twilio completed ends up stored or failed.       *)
UploadSettles == \A c \in Calls : audio[c] # "none" ~> recordingStatus[c] # "pending"

(* From Twilio to the transcript, a recording goes all the way or fails.   *)
RecordingsSettle == UploadSettles /\ StoredIsTranscribed

(* The pipeline keeps the promise of AudioCustody: every step of a job, of *)
(* a callback or of a deletion is one of its steps, or changes none of it. *)
Custody == INSTANCE AudioCustody WITH
    atTwilio <- {i \in Items : audio[i] = "held"},
    inStore <- {i \in Items : object[i]},
    named <- {i \in Items : recordingUrl[i]},
    deleted <- gone
KeepsCustody == Custody!Spec

(* What the repository says and the code does not keep; no run checks it,  *)
(* the README names an instance that refutes it.                           *)

(* voicemails.ts: deleting a voicemail deletes its audio; an upload that   *)
(* runs at the time notices and stops.                                     *)
DeletedLeavesNoAudio ==
    \A v \in Voicemails :
        deletion[v] = "over" /\ (\A j \in JobIds : jobs[j].pc = "free") => ~object[v]
=============================================================================
