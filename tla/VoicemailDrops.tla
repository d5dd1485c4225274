---------------------------- MODULE VoicemailDrops ----------------------------
(* The voicemail-drop library of one organization: which drop is the       *)
(* default, which audio a drop has, and the two jobs that convert and      *)
(* transcribe it while members replace or delete it.                       *)
(*                                                                         *)
(* A transaction that changes the library locks every row there is         *)
(* (lockVoicemailDrops) and then acts on what it has locked. A unique      *)
(* index allows one default. Audio is a version number, 0: no object.      *)
(***************************************************************************)
EXTENDS Naturals, FiniteSets

CONSTANTS
    Drops,         \* drops that may be made
    Requests,      \* concurrent requests
    MaxVersions,   \* recordings uploaded for one drop; a bound
    DropInstances, \* what one behaviour has: its operations, the drops at the
                   \* start and the version they have
    NoDrop

(* "giveUp": storage or the converter may fail for good. "overlap": a      *)
(* delivery outlives its lease, or another process takes jobs as well, and *)
(* the next begins beside it.                                              *)
DropKinds == {"create", "promote", "delete", "replace", "giveUp", "overlap"}
Versions == 0..MaxVersions

VARIABLES
    dropKinds,    \* the operations of this behaviour; never changes
    drops,        \* the rows
    isDefault,    \* the rows with the flag
    audio,        \* drop -> what its audioUrl names: "webm" or "mp3"
    webm, mp3,    \* drop -> the version that is in storage
    words,        \* drop -> the version its transcript is of, 0: none
    transcript,   \* drop -> transcriptStatus
    convert,      \* drop -> conversion jobs that wait for a worker
    listen,       \* drop -> transcription jobs queued
    uploads,      \* drop -> versions uploaded so far
    request,      \* request -> what it is in the middle of
    converting,   \* the conversion at work, 1, and one that outlived its lease, 2
    listening     \* the transcription worker

library == <<drops, isDefault>>
dropRows == <<audio, words, transcript>>
dropFiles == <<webm, mp3>>
queued == <<convert, listen>>
dropVars == <<dropKinds, library, dropRows, dropFiles, queued, uploads, request, converting,
              listening>>

DropRequest == [pc : {"idle", "lock", "commit", "unput", "row", "queue", "clean"},
                op : DropKinds \cup {"none"}, drop : Drops \cup {NoDrop},
                asDefault : BOOLEAN, sees : SUBSET Drops, locks : SUBSET Drops,
                key : {"none", "webm", "mp3"}]
NoRequest == [pc |-> "idle", op |-> "none", drop |-> NoDrop, asDefault |-> FALSE,
              sees |-> {}, locks |-> {}, key |-> "none"]
Convert == [pc : {"idle", "get", "put", "drop", "settle", "undo", "fail", "clean"},
            drop : Drops \cup {NoDrop}, version : Versions]
Converters == {1, 2}
NotConverting == [pc |-> "idle", drop |-> NoDrop, version |-> 0]
NotListening == [drop |-> NoDrop, version |-> 0]

DropInit ==
    /\ \E i \in DropInstances :
          /\ dropKinds = i.kinds /\ drops = i.first
          /\ mp3 = [d \in Drops |-> IF d \in drops THEN i.version ELSE 0]
    /\ isDefault \in IF drops = {} THEN {{}} ELSE {{d} : d \in drops}
    /\ audio = [d \in Drops |-> IF d \in drops THEN "mp3" ELSE "webm"]
    /\ webm = [d \in Drops |-> 0]
    /\ words = mp3 /\ uploads = mp3
    /\ transcript = [d \in Drops |-> IF d \in drops THEN "done" ELSE "pending"]
    /\ convert = [d \in Drops |-> 0] /\ listen = [d \in Drops |-> 0]
    /\ request = [r \in Requests |-> NoRequest]
    /\ converting = [c \in Converters |-> NotConverting] /\ listening = NotListening

Proceeds(r, task) == request' = [request EXCEPT ![r] = task]
Starts(r, op, task) == op \in dropKinds /\ request[r].pc = "idle" /\ Proceeds(r, task)
Free(r) == \A q \in Requests \ {r} : request[q].locks \cap drops = {}
workers == <<converting, listening>>

-----------------------------------------------------------------------------
(* POST: the object, then in one transaction the row and the default.      *)

CreatePut(r, d, asDefault) ==
    /\ uploads[d] = 0
    /\ Starts(r, "create", [NoRequest EXCEPT !.pc = "lock", !.op = "create", !.drop = d,
                                             !.asDefault = asDefault])
    /\ webm' = [webm EXCEPT ![d] = 1] /\ uploads' = [uploads EXCEPT ![d] = 1]
    /\ UNCHANGED <<dropKinds, library, dropRows, mp3, queued, workers>>

(* ensureOneDefault, with its lock, and what it sees of a default; with an *)
(* empty library there is nothing to wait for.                             *)
CreateLock(r) ==
    /\ request[r].pc = "lock" /\ request[r].op = "create" /\ Free(r)
    /\ Proceeds(r, [request[r] EXCEPT !.pc = "commit", !.locks = drops, !.sees = isDefault])
    /\ UNCHANGED <<dropKinds, library, dropRows, dropFiles, queued, uploads, workers>>

(* The clearing sees the default of the lock or of now; the index refuses  *)
(* a second default, and then the transaction and the upload fail.         *)
CreateCommit(r) ==
    LET task == request[r] IN
    /\ task.pc = "commit" /\ task.op = "create"
    /\ \E cleared \in IF task.asDefault THEN {task.sees, isDefault} ELSE {{}} :
          LET flags == (isDefault \ cleared)
                       \cup (IF task.asDefault \/ task.sees = {} THEN {task.drop} ELSE {}) IN
          IF Cardinality(flags) > 1
          THEN Proceeds(r, [task EXCEPT !.pc = "unput", !.locks = {}]) /\ UNCHANGED library
          ELSE /\ drops' = drops \cup {task.drop} /\ isDefault' = flags
               /\ Proceeds(r, [task EXCEPT !.pc = "queue", !.locks = {}])
    /\ UNCHANGED <<dropKinds, dropRows, dropFiles, queued, uploads, workers>>

CreateUnput(r) ==
    /\ request[r].pc = "unput"
    /\ webm' = [webm EXCEPT ![request[r].drop] = 0] /\ Proceeds(r, NoRequest)
    /\ UNCHANGED <<dropKinds, library, dropRows, mp3, queued, uploads, workers>>

(* Both jobs are queued at once; POST and PATCH end so.                    *)
QueueJobs(r) ==
    LET d == request[r].drop IN
    /\ request[r].pc = "queue"
    /\ convert' = [convert EXCEPT ![d] = @ + 1] /\ listen' = [listen EXCEPT ![d] = @ + 1]
    /\ Proceeds(r, NoRequest)
    /\ UNCHANGED <<dropKinds, library, dropRows, dropFiles, uploads, workers>>

-----------------------------------------------------------------------------
(* PATCH isDefault: lock, clear, set.                                      *)

PromoteLock(r, d) ==
    /\ d \in drops /\ Free(r)
    /\ Starts(r, "promote", [NoRequest EXCEPT !.pc = "commit", !.op = "promote", !.drop = d,
                                              !.locks = drops])
    /\ UNCHANGED <<dropKinds, library, dropRows, dropFiles, queued, uploads, workers>>

PromoteCommit(r) ==
    /\ request[r].pc = "commit" /\ request[r].op = "promote"
    /\ isDefault' = {request[r].drop} /\ Proceeds(r, NoRequest)
    /\ UNCHANGED <<dropKinds, drops, dropRows, dropFiles, queued, uploads, workers>>

(* PATCH audio: the object under the key it always has, then the row.      *)
ReplacePut(r, d) ==
    /\ d \in drops /\ uploads[d] < MaxVersions
    /\ Starts(r, "replace", [NoRequest EXCEPT !.pc = "row", !.op = "replace", !.drop = d])
    /\ uploads' = [uploads EXCEPT ![d] = @ + 1] /\ webm' = [webm EXCEPT ![d] = uploads[d] + 1]
    /\ UNCHANGED <<dropKinds, library, dropRows, mp3, queued, workers>>

ReplaceRow(r) ==
    LET d == request[r].drop IN
    /\ request[r].pc = "row"
    /\ IF d \in drops
       THEN /\ audio' = [audio EXCEPT ![d] = "webm"]
            /\ words' = [words EXCEPT ![d] = 0] /\ transcript' = [transcript EXCEPT ![d] = "pending"]
            /\ Proceeds(r, [request[r] EXCEPT !.pc = "queue"])
       ELSE Proceeds(r, NoRequest) /\ UNCHANGED dropRows
    /\ UNCHANGED <<dropKinds, library, dropFiles, queued, uploads, workers>>

-----------------------------------------------------------------------------
(* DELETE: never the last one; another takes the flag, the oldest in the   *)
(* code, any here; then the object the row named.                          *)

(* Mutant: the rows are counted, not locked.                               *)
DeleteCounts(r, d) ==
    /\ d \in drops /\ Cardinality(drops) > 1
    /\ Starts(r, "delete", [NoRequest EXCEPT !.pc = "commit", !.op = "delete", !.drop = d,
                                             !.locks = {}, !.key = audio[d]])
    /\ UNCHANGED <<dropKinds, library, dropRows, dropFiles, queued, uploads, workers>>

DeleteLock(r, d) ==
    /\ d \in drops /\ Cardinality(drops) > 1 /\ Free(r)
    /\ Starts(r, "delete", [NoRequest EXCEPT !.pc = "commit", !.op = "delete", !.drop = d,
                                             !.locks = drops, !.key = audio[d]])
    /\ UNCHANGED <<dropKinds, library, dropRows, dropFiles, queued, uploads, workers>>

DeleteCommit(r) ==
    LET task == request[r] IN
    /\ task.pc = "commit" /\ task.op = "delete"
    /\ drops' = drops \ {task.drop}
    /\ IF task.drop \in isDefault /\ drops' # {} THEN \E e \in drops' : isDefault' = {e}
       ELSE isDefault' = isDefault \ {task.drop}
    /\ Proceeds(r, [task EXCEPT !.pc = "clean", !.locks = {}])
    /\ UNCHANGED <<dropKinds, dropRows, dropFiles, queued, uploads, workers>>

DeleteObject(r) ==
    LET task == request[r] IN
    /\ task.pc = "clean"
    /\ webm' = IF task.key = "webm" THEN [webm EXCEPT ![task.drop] = 0] ELSE webm
    /\ mp3' = IF task.key = "mp3" THEN [mp3 EXCEPT ![task.drop] = 0] ELSE mp3
    /\ Proceeds(r, NoRequest)
    /\ UNCHANGED <<dropKinds, library, dropRows, queued, uploads, workers>>

-----------------------------------------------------------------------------
(* transcodeVoicemailDropJob: the delivery the queue waits for, and one it *)
(* has given up waiting for, which goes on all the same.                   *)

ConvertAt(c, pc) == converting[c].pc = pc
ConvertGoes(c, pc) == converting' = [converting EXCEPT ![c].pc = pc]
ConvertEnds(c) == converting' = [converting EXCEPT ![c] = NotConverting]
Queues(d, n) == convert' = [convert EXCEPT ![d] = @ + n]

ConvertRead(d) ==
    /\ convert[d] > 0 /\ ConvertAt(1, "idle")
    /\ convert' = [convert EXCEPT ![d] = @ - 1]
    /\ converting' = IF d \in drops /\ audio[d] = "webm"
         THEN [converting EXCEPT ![1] = [pc |-> "get", drop |-> d, version |-> 0]] ELSE converting
    /\ UNCHANGED <<dropKinds, library, dropRows, dropFiles, listen, uploads, request, listening>>

(* The lease runs out: the job is delivered again, or that was the last.   *)
ConvertOverruns ==
    /\ "overlap" \in dropKinds /\ ~ConvertAt(1, "idle") /\ ConvertAt(2, "idle")
    /\ converting' = [c \in Converters |-> IF c = 1 THEN NotConverting ELSE converting[1]]
    /\ \E n \in {0, 1} : Queues(converting[1].drop, n)
    /\ UNCHANGED <<dropKinds, library, dropRows, dropFiles, listen, uploads, request, listening>>

ConvertGet(c) ==
    LET d == converting[c].drop IN
    /\ ConvertAt(c, "get") /\ webm[d] > 0
    /\ converting' = [converting EXCEPT ![c].pc = "put", ![c].version = webm[d]]
    /\ UNCHANGED <<dropKinds, library, dropRows, dropFiles, queued, uploads, request, listening>>

ConvertPut(c) ==
    /\ ConvertAt(c, "put")
    /\ mp3' = [mp3 EXCEPT ![converting[c].drop] = converting[c].version] /\ ConvertGoes(c, "drop")
    /\ UNCHANGED <<dropKinds, library, dropRows, webm, queued, uploads, request, listening>>

ConvertDropSource(c) ==
    /\ ConvertAt(c, "drop")
    /\ webm' = [webm EXCEPT ![converting[c].drop] = 0] /\ ConvertGoes(c, "settle")
    /\ UNCHANGED <<dropKinds, library, dropRows, mp3, queued, uploads, request, listening>>

(* A compare-and-set; who loses it takes the MP3 away, whoever put it.     *)
ConvertSettle(c) ==
    LET d == converting[c].drop IN
    /\ ConvertAt(c, "settle")
    /\ IF d \in drops /\ audio[d] = "webm"
       THEN audio' = [audio EXCEPT ![d] = "mp3"] /\ ConvertEnds(c)
       ELSE ConvertGoes(c, "undo") /\ UNCHANGED audio
    /\ UNCHANGED <<dropKinds, library, words, transcript, dropFiles, queued, uploads, request,
                   listening>>

ConvertUndo(c) ==
    /\ ConvertAt(c, "undo")
    /\ mp3' = [mp3 EXCEPT ![converting[c].drop] = 0] /\ ConvertEnds(c)
    /\ UNCHANGED <<dropKinds, library, dropRows, webm, queued, uploads, request, listening>>

(* An error: the queue's retry, or the end of it. The source may be gone.  *)
(* A delivery that outlived its lease has had its retry.                   *)
ConvertBreaks(c) ==
    LET d == converting[c].drop IN
    /\ converting[c].pc \in {"get", "put", "drop", "settle", "undo"}
    /\ "giveUp" \in dropKinds \/ (ConvertAt(c, "get") /\ webm[d] = 0)
    /\ \/ ConvertEnds(c) /\ Queues(d, IF c = 1 THEN 1 ELSE 0)
       \/ ConvertGoes(c, "fail") /\ UNCHANGED convert
    /\ UNCHANGED <<dropKinds, library, dropRows, dropFiles, listen, uploads, request, listening>>

(* Mutant: the failure is written over a transcript that is there.         *)
ConvertFailAlways(c) ==
    /\ ConvertAt(c, "fail")
    /\ transcript' = [transcript EXCEPT ![converting[c].drop] = "failed"] /\ ConvertGoes(c, "clean")
    /\ UNCHANGED <<dropKinds, library, audio, words, dropFiles, queued, uploads, request, listening>>

ConvertFail(c) ==
    LET d == converting[c].drop IN
    /\ ConvertAt(c, "fail")
    /\ transcript' = IF d \in drops /\ transcript[d] # "done"
                     THEN [transcript EXCEPT ![d] = "failed"] ELSE transcript
    /\ ConvertGoes(c, "clean")
    /\ UNCHANGED <<dropKinds, library, audio, words, dropFiles, queued, uploads, request, listening>>

ConvertClean(c) ==
    LET d == converting[c].drop IN
    /\ ConvertAt(c, "clean")
    /\ webm' = [webm EXCEPT ![d] = 0] /\ mp3' = [mp3 EXCEPT ![d] = 0]
    /\ ConvertEnds(c)
    /\ UNCHANGED <<dropKinds, library, dropRows, queued, uploads, request, listening>>

-----------------------------------------------------------------------------
(* transcribeVoicemailDropJob: the audio the row names, which may be gone. *)

Stored(d) == IF audio[d] = "webm" THEN webm[d] ELSE mp3[d]
Wanted(d) == d \in drops /\ transcript[d] # "done"
Heard(d) == listen' = [listen EXCEPT ![d] = @ - 1] /\ listening' = NotListening

ListenRead(d) ==
    /\ listen[d] > 0 /\ listening.drop = NoDrop /\ Wanted(d) /\ Stored(d) > 0
    /\ listening' = [drop |-> d, version |-> Stored(d)]
    /\ UNCHANGED <<dropKinds, library, dropRows, dropFiles, queued, uploads, request, converting>>

ListenSkip(d) ==
    /\ listen[d] > 0 /\ listening.drop = NoDrop /\ ~Wanted(d)
    /\ Heard(d)
    /\ UNCHANGED <<dropKinds, library, dropRows, dropFiles, convert, uploads, request, converting>>

(* The last attempt fails: no object, or no answer.                        *)
ListenFail(d) ==
    /\ listen[d] > 0 /\ listening.drop = NoDrop /\ Wanted(d)
    /\ Stored(d) = 0 \/ "giveUp" \in dropKinds
    /\ transcript' = [transcript EXCEPT ![d] = "failed"] /\ Heard(d)
    /\ UNCHANGED <<dropKinds, library, audio, words, dropFiles, convert, uploads, request, converting>>

ListenStore ==
    LET d == listening.drop IN
    /\ d # NoDrop
    /\ IF Wanted(d)
       THEN /\ words' = [words EXCEPT ![d] = listening.version]
            /\ transcript' = [transcript EXCEPT ![d] = "done"]
       ELSE UNCHANGED <<words, transcript>>
    /\ Heard(d)
    /\ UNCHANGED <<dropKinds, library, audio, dropFiles, convert, uploads, request, converting>>

-----------------------------------------------------------------------------
DropNext ==
    \/ \E r \in Requests :
          \/ CreateLock(r) \/ CreateCommit(r) \/ CreateUnput(r) \/ QueueJobs(r)
          \/ PromoteCommit(r) \/ ReplaceRow(r) \/ DeleteCommit(r) \/ DeleteObject(r)
          \/ \E d \in Drops :
                \/ \E asDefault \in BOOLEAN : CreatePut(r, d, asDefault)
                \/ PromoteLock(r, d) \/ ReplacePut(r, d) \/ DeleteLock(r, d)
    \/ \E d \in Drops : ConvertRead(d) \/ ListenRead(d) \/ ListenSkip(d) \/ ListenFail(d)
    \/ \E c \in Converters :
          \/ ConvertGet(c) \/ ConvertPut(c) \/ ConvertDropSource(c) \/ ConvertSettle(c)
          \/ ConvertUndo(c) \/ ConvertBreaks(c) \/ ConvertFail(c) \/ ConvertClean(c)
    \/ ConvertOverruns \/ ListenStore

DropSpec == DropInit /\ [][DropNext]_dropVars

-----------------------------------------------------------------------------
(* Each variable keeps its type; a transcript is there when it is "done",  *)
(* and of a version that was uploaded.                                     *)
DropTypeOK ==
    /\ drops \subseteq Drops /\ isDefault \subseteq drops
    /\ audio \in [Drops -> {"webm", "mp3"}]
    /\ webm \in [Drops -> Versions] /\ mp3 \in [Drops -> Versions]
    /\ words \in [Drops -> Versions] /\ transcript \in [Drops -> {"pending", "done", "failed"}]
    /\ \A d \in Drops : words[d] <= uploads[d] /\ (transcript[d] = "done" <=> words[d] > 0)
    /\ convert \in [Drops -> Nat] /\ listen \in [Drops -> Nat] /\ uploads \in [Drops -> Versions]
    /\ request \in [Requests -> DropRequest]
    /\ converting \in [Converters -> Convert] /\ listening \in [drop : Drops \cup {NoDrop}, version : Versions]

(* A library that is not empty has exactly one default: two first uploads, *)
(* promotions and deletions of the default at once never leave it without  *)
(* (voicemailDropDefaults.ts).                                             *)
ExactlyOneDefault == drops # {} => Cardinality(isDefault) = 1

(* An organization keeps a drop once it has one: members who delete the    *)
(* last two at once cannot both (voicemailDrops.ts, DELETE).               *)
NeverEmptied == drops # {} => drops' # {}

(* transcodeVoicemailDrop.ts: a delivery is idempotent once conversion has *)
(* settled. TLC refutes it where conversions overlap: one that loses the   *)
(* compare-and-set, or finds its source gone and gives up, deletes the MP3 *)
(* that the other puts into the row; see the README.                       *)
AlwaysHasAudio == \A d \in drops : audio[d] = "mp3" => mp3[d] > 0

(* A drop whose conversion has settled has its MP3, however uploads, jobs  *)
(* that find nothing to do and jobs that give up follow each other; but    *)
(* not where two conversions overlap.                                      *)
SettledHasAudio == "overlap" \notin dropKinds => AlwaysHasAudio

(* So the drop a rep leaves by default exists, once, and its conversion,   *)
(* unless it overlapped another, did not lose it.                          *)
LibraryIsPlayable == ExactlyOneDefault /\ SettledHasAudio

(* Members, uploads and jobs at once leave a library to choose from,       *)
(* overlapping conversions included; its audio they may lose.              *)
StaysPlayable == LibraryIsPlayable' /\ NeverEmptied
LibraryStands == [][StaysPlayable]_dropVars

(* What the behaviours need of the constants: the drops of the start are   *)
(* drops and have a recording.                                             *)
DropConstants ==
    /\ MaxVersions \in Nat \ {0} /\ NoDrop \notin Drops
    /\ \A i \in DropInstances : i.first \subseteq Drops /\ i.version \in 1..MaxVersions

-----------------------------------------------------------------------------
(* What a member would expect and the code does not do; TLC refutes each,  *)
(* see the README.                                                         *)

Quiet(d) ==
    /\ convert[d] = 0 /\ listen[d] = 0 /\ \A r \in Requests : request[r].drop # d
    /\ \A c \in Converters : converting[c].drop # d

(* A drop plays the recording that was uploaded last.                      *)
PlaysTheNewest == \A d \in drops : Quiet(d) /\ "giveUp" \notin dropKinds => mp3[d] = uploads[d]

(* Its transcript is of that recording.                                    *)
TranscriptIsOfAudio ==
    \A d \in drops : Quiet(d) /\ transcript[d] = "done" /\ mp3[d] > 0 => words[d] = mp3[d]

(* A drop can be played once its jobs are done.                            *)
PlayableAtRest == \A d \in drops : Quiet(d) => audio[d] = "mp3"
=============================================================================
