------------------------------ MODULE Greetings ------------------------------
(* The voicemail greetings of one organization: a candidate is uploaded,   *)
(* converted by a job of the queue, activated by a member, and deleted by  *)
(* one, each in steps the others fall between. Objects in storage and rows *)
(* in the database change one after the other, never together.             *)
(*                                                                         *)
(* A unique index also allows one active greeting; it is left out here, so *)
(* that the lock has to do it.                                             *)
(***************************************************************************)
EXTENDS Naturals, FiniteSets

CONSTANTS
    Greetings,      \* candidates; each is one upload with one Idempotency-Key
    Members,        \* members activating at the same time
    RetryLimit,     \* TRANSCODE_GREETING_RETRY_LIMIT
    GreetKindSets   \* the sets of events of which one behaviour has one

(* "overlap": a delivery outlives its lease and the next begins beside it. *)
GreetKinds == {"post", "activate", "delete", "crash", "overlap"}
Deliveries == {1, 2}

VARIABLES
    greetKinds,  \* the events of this behaviour; never changes
    gstatus,     \* VoicemailGreeting.status, "none": no row
    storageKey,  \* the rows that have one
    sources,     \* the candidates whose upload is in storage
    mp3s,        \* the candidates whose MP3 is in storage
    postPc,      \* candidate -> the step its upload is at
    gjob,        \* candidate -> how its job stands
    tries,       \* candidate -> retryCount of that job
    jobPc,       \* candidate, delivery -> the step it is at
    delPc,       \* candidate -> the step of a DELETE
    delKey,      \* the DELETEs that have read a storageKey
    acting       \* member -> what an activation is about

rowsOf == <<gstatus, storageKey>>
objects == <<sources, mp3s>>
jobs == <<gjob, tries, jobPc>>
deletes == <<delPc, delKey>>
greetVars == <<greetKinds, rowsOf, objects, postPc, jobs, deletes, acting>>

NotActing == [on |-> FALSE, greeting |-> {}, retires |-> {}]
Is(kind) == kind \in greetKinds
Turns(g, new) == gstatus' = [gstatus EXCEPT ![g] = new]

(* One candidate is to be uploaded; the others are converted, one of them  *)
(* may be active.                                                          *)
GreetInit ==
    /\ greetKinds \in GreetKindSets
    /\ \E new \in Greetings, first \in Greetings :
          LET old == Greetings \ {new} IN
          /\ greetKinds = {} => new = first /\ new = CHOOSE g \in Greetings : TRUE
          /\ gstatus = [g \in Greetings |-> IF g = new THEN "none"
                                           ELSE IF g = first THEN "active" ELSE "ready"]
          /\ storageKey = old /\ sources = {} /\ mp3s = old
          /\ postPc = [g \in Greetings |-> IF g = new THEN "none" ELSE "done"]
          /\ gjob = [g \in Greetings |-> IF g = new THEN "none" ELSE "done"]
    /\ tries = [g \in Greetings |-> 0]
    /\ jobPc = [gd \in Greetings \X Deliveries |-> "none"]
    /\ delPc = [g \in Greetings |-> "none"] /\ delKey = {}
    /\ acting = [x \in Members |-> NotActing]

-----------------------------------------------------------------------------
(* POST: the row, the object, the status, the job; whatever fails, fails   *)
(* the candidate. A repeated POST with the same key finds the row.         *)

PostCreate(g) ==
    /\ Is("post") /\ gstatus[g] = "none"
    /\ Turns(g, "uploading") /\ postPc' = [postPc EXCEPT ![g] = "put"]
    /\ UNCHANGED <<greetKinds, storageKey, objects, jobs, deletes, acting>>

PostPut(g) ==
    /\ postPc[g] = "put"
    /\ sources' = sources \cup {g} /\ postPc' = [postPc EXCEPT ![g] = "mark"]
    /\ UNCHANGED <<greetKinds, rowsOf, mp3s, jobs, deletes, acting>>

PostMark(g) ==
    /\ postPc[g] = "mark"
    /\ IF gstatus[g] = "uploading" THEN Turns(g, "transcoding") ELSE UNCHANGED gstatus
    /\ postPc' = [postPc EXCEPT ![g] = "queue"]
    /\ UNCHANGED <<greetKinds, storageKey, objects, jobs, deletes, acting>>

(* The answer of the queue may be lost: the job is there all the same.     *)
PostQueue(g) ==
    /\ postPc[g] = "queue"
    /\ gjob' = [gjob EXCEPT ![g] = "queued"]
    /\ \E answer \in {"done", "fail"} : postPc' = [postPc EXCEPT ![g] = answer]
    /\ UNCHANGED <<greetKinds, rowsOf, objects, tries, jobPc, deletes, acting>>

PostBreaks(g) ==
    /\ postPc[g] \in {"put", "mark", "queue"}
    /\ postPc' = [postPc EXCEPT ![g] = "fail"]
    /\ UNCHANGED <<greetKinds, rowsOf, objects, jobs, deletes, acting>>

PostFail(g) ==
    /\ postPc[g] = "fail"
    /\ IF gstatus[g] \in {"uploading", "transcoding"} THEN Turns(g, "failed")
       ELSE UNCHANGED gstatus
    /\ postPc' = [postPc EXCEPT ![g] = "unput"]
    /\ UNCHANGED <<greetKinds, storageKey, objects, jobs, deletes, acting>>

PostUnput(g) ==
    /\ postPc[g] = "unput"
    /\ sources' \in {sources, sources \ {g}} /\ postPc' = [postPc EXCEPT ![g] = "done"]
    /\ UNCHANGED <<greetKinds, rowsOf, mp3s, jobs, deletes, acting>>

-----------------------------------------------------------------------------
(* transcodeGreetingJob, one delivery of it.                               *)

At(gd, pc) == jobPc[gd] = pc
JobGoes(gd, pc) == jobPc' = [jobPc EXCEPT ![gd] = pc]
(* A delivery that has done its work, and whose worker dies before it says *)
(* so, is followed by another.                                             *)
JobEnds(g, gd) ==
    /\ JobGoes(gd, "none")
    /\ \/ gjob' = [gjob EXCEPT ![g] = "done"] /\ UNCHANGED tries
       \/ /\ Is("crash") /\ tries[g] < RetryLimit
          /\ tries' = [tries EXCEPT ![g] = @ + 1] /\ UNCHANGED gjob

JobRead(g, d) ==
    LET gd == <<g, d>> IN
    /\ gjob[g] = "queued" /\ At(gd, "none")
    /\ d = 2 => Is("overlap") /\ ~At(<<g, 1>>, "none")
    /\ IF gstatus[g] = "transcoding" THEN JobGoes(gd, "get") /\ UNCHANGED <<gjob, tries>>
       ELSE JobEnds(g, gd)
    /\ UNCHANGED <<greetKinds, rowsOf, objects, postPc, deletes, acting>>

JobGet(g, d) ==
    /\ At(<<g, d>>, "get") /\ g \in sources
    /\ JobGoes(<<g, d>>, "put")
    /\ UNCHANGED <<greetKinds, rowsOf, objects, postPc, gjob, tries, deletes, acting>>

JobPut(g, d) ==
    /\ At(<<g, d>>, "put")
    /\ mp3s' = mp3s \cup {g} /\ JobGoes(<<g, d>>, "drop")
    /\ UNCHANGED <<greetKinds, rowsOf, sources, postPc, gjob, tries, deletes, acting>>

JobDropSource(g, d) ==
    /\ At(<<g, d>>, "drop")
    /\ sources' = sources \ {g} /\ JobGoes(<<g, d>>, "settle")
    /\ UNCHANGED <<greetKinds, rowsOf, mp3s, postPc, gjob, tries, deletes, acting>>

(* A compare-and-set; who loses it takes the MP3 back.                     *)
JobSettle(g, d) ==
    /\ At(<<g, d>>, "settle")
    /\ IF gstatus[g] = "transcoding"
       THEN Turns(g, "ready") /\ storageKey' = storageKey \cup {g} /\ JobEnds(g, <<g, d>>)
       ELSE JobGoes(<<g, d>>, "undo") /\ UNCHANGED <<rowsOf, gjob, tries>>
    /\ UNCHANGED <<greetKinds, objects, postPc, deletes, acting>>

JobUndo(g, d) ==
    /\ At(<<g, d>>, "undo")
    /\ mp3s' = mp3s \ {g} /\ JobEnds(g, <<g, d>>)
    /\ UNCHANGED <<greetKinds, rowsOf, sources, postPc, deletes, acting>>

(* Storage, the converter or the database fails: the queue's retry, or the *)
(* end. A candidate that is too long fails at once.                        *)
JobBreaks(g, d) ==
    /\ jobPc[<<g, d>>] \in {"get", "put", "drop", "settle", "undo"}
    /\ \/ /\ tries[g] < RetryLimit /\ JobGoes(<<g, d>>, "none")
          /\ tries' = [tries EXCEPT ![g] = @ + 1]
       \/ /\ tries[g] = RetryLimit \/ At(<<g, d>>, "put")
          /\ JobGoes(<<g, d>>, "fail") /\ UNCHANGED tries
    /\ UNCHANGED <<greetKinds, rowsOf, objects, postPc, gjob, deletes, acting>>

(* Mutant: a delivery that gives up says so to no one.                     *)
JobFailSilently(g, d) ==
    /\ At(<<g, d>>, "fail") /\ JobGoes(<<g, d>>, "clean")
    /\ UNCHANGED <<greetKinds, rowsOf, objects, postPc, gjob, tries, deletes, acting>>

JobFail(g, d) ==
    /\ At(<<g, d>>, "fail")
    /\ IF gstatus[g] = "transcoding" THEN Turns(g, "failed") ELSE UNCHANGED gstatus
    /\ JobGoes(<<g, d>>, "clean")
    /\ UNCHANGED <<greetKinds, storageKey, objects, postPc, gjob, tries, deletes, acting>>

JobClean(g, d) ==
    /\ At(<<g, d>>, "clean")
    /\ sources' = sources \ {g} /\ mp3s' = mp3s \ {g}
    /\ JobEnds(g, <<g, d>>)
    /\ UNCHANGED <<greetKinds, rowsOf, postPc, deletes, acting>>

-----------------------------------------------------------------------------
(* The activation takes the organization's row lock, retires the active    *)
(* greeting and promotes a ready one, or changes nothing.                  *)

Activate(x, g) ==
    /\ Is("activate") /\ gstatus[g] # "none"
    /\ \A y \in Members : ~acting[y].on
    /\ acting' = [acting EXCEPT ![x] = [on |-> TRUE, greeting |-> {g},
                    retires |-> {h \in Greetings \ {g} : gstatus[h] = "active"}]]
    /\ UNCHANGED <<greetKinds, rowsOf, objects, postPc, jobs, deletes>>

(* Mutant: what was retired stays so when the candidate is not ready.      *)
ActivateKeepsClear(x, g) ==
    /\ acting[x].greeting = {g}
    /\ gstatus' = [h \in Greetings |->
             IF h = g /\ gstatus[g] = "ready" THEN "active"
             ELSE IF h \in acting[x].retires THEN "deleted" ELSE gstatus[h]]
    /\ acting' = [acting EXCEPT ![x] = NotActing]
    /\ UNCHANGED <<greetKinds, storageKey, objects, postPc, jobs, deletes>>

ActivateCommit(x, g) ==
    /\ acting[x].greeting = {g}
    /\ gstatus' = IF gstatus[g] # "ready" THEN gstatus
         ELSE [h \in Greetings |-> IF h = g THEN "active"
                 ELSE IF h \in acting[x].retires THEN "deleted" ELSE gstatus[h]]
    /\ acting' = [acting EXCEPT ![x] = NotActing]
    /\ UNCHANGED <<greetKinds, storageKey, objects, postPc, jobs, deletes>>

-----------------------------------------------------------------------------
(* DELETE: the row is read, hidden by a compare-and-set, and the objects   *)
(* of the row as it was read are removed. A row an activation has retired  *)
(* or is about to is locked until it commits.                              *)

DeleteRead(g) ==
    /\ Is("delete") /\ gstatus[g] \notin {"none", "deleted"} /\ delPc[g] = "none"
    /\ delPc' = [delPc EXCEPT ![g] = "hide"]
    /\ delKey' = IF g \in storageKey THEN delKey \cup {g} ELSE delKey
    /\ UNCHANGED <<greetKinds, rowsOf, objects, postPc, jobs, acting>>

DeleteHide(g) ==
    /\ delPc[g] = "hide" /\ \A x \in Members : g \notin acting[x].retires
    /\ Turns(g, "deleted")
    /\ delPc' = [delPc EXCEPT ![g] = IF gstatus[g] = "deleted" THEN "done" ELSE "clean"]
    /\ UNCHANGED <<greetKinds, storageKey, objects, postPc, jobs, delKey, acting>>

DeleteClean(g) ==
    /\ delPc[g] = "clean"
    /\ sources' = sources \ {g}
    /\ mp3s' = IF g \in delKey THEN mp3s \ {g} ELSE mp3s
    /\ delPc' = [delPc EXCEPT ![g] = "done"]
    /\ UNCHANGED <<greetKinds, rowsOf, postPc, jobs, delKey, acting>>

-----------------------------------------------------------------------------
(* The server dies: uploads and DELETEs under way end where they are, the  *)
(* queue delivers the job again.                                           *)
ServerDies ==
    /\ Is("crash") /\ (\E g \in Greetings : postPc[g] \notin {"none", "done"}
                          \/ delPc[g] \notin {"none", "done"}
                          \/ \E d \in Deliveries : ~At(<<g, d>>, "none"))
    /\ postPc' = [g \in Greetings |-> IF postPc[g] = "none" THEN "none" ELSE "done"]
    /\ delPc' = [g \in Greetings |-> IF delPc[g] = "none" THEN "none" ELSE "done"]
    /\ jobPc' = [gd \in DOMAIN jobPc |-> "none"]
    /\ tries' = [g \in Greetings |-> IF \E d \in Deliveries : ~At(<<g, d>>, "none")
                                        /\ tries[g] < RetryLimit THEN tries[g] + 1 ELSE tries[g]]
    /\ gjob' = [g \in Greetings |-> IF tries[g] = RetryLimit
                   /\ \E d \in Deliveries : ~At(<<g, d>>, "none") THEN "done" ELSE gjob[g]]
    /\ acting' = [x \in Members |-> NotActing]
    /\ UNCHANGED <<greetKinds, rowsOf, objects, delKey>>

PostStep(g) ==
    \/ PostPut(g) \/ PostMark(g) \/ PostQueue(g) \/ PostBreaks(g) \/ PostFail(g) \/ PostUnput(g)
JobStep(g, d) ==
    \/ JobRead(g, d) \/ JobGet(g, d) \/ JobPut(g, d) \/ JobDropSource(g, d)
    \/ JobSettle(g, d) \/ JobUndo(g, d) \/ JobBreaks(g, d) \/ JobFail(g, d) \/ JobClean(g, d)

GreetNext ==
    \/ \E g \in Greetings :
          \/ PostCreate(g) \/ PostStep(g)
          \/ \E d \in Deliveries : JobStep(g, d)
          \/ DeleteRead(g) \/ DeleteHide(g) \/ DeleteClean(g)
          \/ \E x \in Members : Activate(x, g) \/ ActivateCommit(x, g)
    \/ ServerDies

GreetSpec == GreetInit /\ [][GreetNext]_greetVars

(* A request that is running runs on, and the queue delivers what it has.  *)
GreetFairness == \A g \in Greetings :
    WF_greetVars(PostStep(g)) /\ WF_greetVars(\E d \in Deliveries : JobStep(g, d))

-----------------------------------------------------------------------------
(* Each variable keeps its type; a converted row has its key, a job that   *)
(* is running is one of the queue's.                                       *)
GreetTypeOK ==
    /\ greetKinds \in GreetKindSets
    /\ gstatus \in [Greetings -> {"none", "uploading", "transcoding", "ready", "active",
                                  "failed", "deleted"}]
    /\ storageKey \subseteq Greetings
    /\ \A g \in Greetings : gstatus[g] \in {"ready", "active"} => g \in storageKey
    /\ sources \subseteq Greetings /\ mp3s \subseteq Greetings
    /\ postPc \in [Greetings -> {"none", "put", "mark", "queue", "fail", "unput", "done"}]
    /\ gjob \in [Greetings -> {"none", "queued", "done"}]
    /\ tries \in [Greetings -> 0..RetryLimit]
    /\ jobPc \in [Greetings \X Deliveries ->
                    {"none", "get", "put", "drop", "settle", "undo", "fail", "clean"}]
    /\ \A g \in Greetings : ~At(<<g, 1>>, "none") => gjob[g] # "none"
    /\ delPc \in [Greetings -> {"none", "hide", "clean", "done"}] /\ delKey \subseteq Greetings
    /\ acting \in [Members -> [on : BOOLEAN, greeting : SUBSET Greetings,
                               retires : SUBSET Greetings]]

(* Callers hear one greeting: two members who activate at the same time    *)
(* leave one active (voicemailGreeting.ts, the lock on the organization).  *)
OneActive == Cardinality({g \in Greetings : gstatus[g] = "active"}) <= 1

(* A greeting that callers may be played has its audio, however upload,    *)
(* conversion, deletion and retries fall. Unless deliveries overlap; see   *)
(* the README.                                                             *)
ReadyIsPlayable ==
    ~Is("overlap") => \A g \in Greetings : gstatus[g] \in {"ready", "active"} => g \in mp3s

(* So callers hear one greeting, and hear it.                              *)
CallersHearOne == OneActive /\ ReadyIsPlayable

(* An activation that fails leaves the greeting it was to replace: only a  *)
(* DELETE takes the last one away.                                         *)
ActiveIsReplaced ==
    \A g \in Greetings : gstatus[g] = "active" /\ gstatus'[g] # "active"
        => (\E h \in Greetings : gstatus'[h] = "active") \/ delPc'[g] # delPc[g]

(* What a member has deleted, or an activation has retired, never comes    *)
(* back: a conversion that ends late does not settle it.                   *)
DeletedStaysDeleted ==
    \A g \in Greetings : gstatus[g] = "deleted" => gstatus'[g] = "deleted"

(* Callers hear the greeting members have decided on, until a member       *)
(* decides otherwise.                                                      *)
StandsOn == CallersHearOne' /\ ActiveIsReplaced /\ DeletedStaysDeleted
GreetingStands == [][StandsOn]_greetVars

(* What the behaviours need of the constants: a bound on the retries.      *)
GreetConstants == RetryLimit \in Nat

(* An upload does not spin for ever: it is ready, failed or deleted in the *)
(* end. Unless the server dies between two steps of the POST.              *)
UploadEnds ==
    ~Is("crash") => \A g \in Greetings :
        gstatus[g] \in {"uploading", "transcoding"} ~> gstatus[g] \in {"ready", "failed", "deleted"}

-----------------------------------------------------------------------------
(* What the code says and does not do; TLC refutes each, see the README.   *)

(* transcodeGreeting.ts: safe under at-least-once delivery.                *)
AlwaysPlayable == \A g \in Greetings : gstatus[g] \in {"ready", "active"} => g \in mp3s

(* voicemailGreeting.ts: "hide first, then clean private objects".         *)
DeletedIsGone ==
    \A g \in Greetings : delPc[g] = "done" /\ postPc[g] = "done" /\ ~Is("crash")
        /\ (\A d \in Deliveries : At(<<g, d>>, "none")) => g \notin sources \cup mp3s

(* The same, of what spins in "transcoding".                               *)
UploadAlwaysEnds == \A g \in Greetings :
    gstatus[g] \in {"uploading", "transcoding"} ~> gstatus[g] \in {"ready", "failed", "deleted"}
=============================================================================
