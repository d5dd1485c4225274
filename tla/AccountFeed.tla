----------------------------- MODULE AccountFeed -----------------------------
(* The history of one account: the feed rows of a note, a task, a deal and *)
(* a completed call, next to what they are rows of (routes/notes.ts,       *)
(* routes/tasks.ts, routes/deals.ts, routes/nextSteps.ts).                 *)
(*                                                                         *)
(* A route reads its row, judges the request by what it read, and only     *)
(* then opens the transaction that writes the row, its links and its line  *)
(* of the feed. An update locks the row from there to the commit.          *)
(***************************************************************************)
EXTENDS Integers, SequencesExt

CONSTANTS
    FeedRequests,   \* concurrent requests
    Texts,          \* what a note can say
    Accounts,       \* what it can be attached to
    Pipeline,       \* stage -> its pipeline
    Outcomes,       \* of a call, each with the next step it suggests
    NoLine,         \* no row in the feed, or no outcome yet
    Same,           \* what a request leaves alone
    MaxStamp        \* moments a behaviour tells apart; a bound

(* attach is a PATCH of a note that names its links and not its body;      *)
(* steps the PUT of a call's next steps without its outcome.               *)
FeedKinds == {"edit", "attach", "trash", "done", "stage", "pipeline", "drop", "complete", "steps"}

VARIABLES
    feedKinds,  \* what this behaviour has; never changes
    note,       \* state, text and links
    task,       \* live, done and doneAt (0: null)
    deal,       \* live, stage, pipeline and version (updatedAt)
    moves,      \* FieldHistory of the deal's stage: <<from, to>>, in order
    call,       \* outcome, and the steps of the call
    feed,       \* the lines: note, task, moves and tasks of the call
    stamp,      \* the last moment that was used
    feedWork    \* request -> how far it is

feedVars == <<feedKinds, note, task, deal, moves, call, feed, stamp, feedWork>>

Stages == DOMAIN Pipeline
NoFeedWork == [pc |-> "idle"]
FeedPcs == {"idle", "note", "noteTx", "task", "deal", "callTx"}

FeedInit ==
    /\ feedKinds \subseteq FeedKinds
    /\ note = [state |-> "none", text |-> NoLine, links |-> {}]
    /\ task = [live |-> TRUE, done |-> FALSE, doneAt |-> 0]
    /\ \E s \in Stages :
          /\ feedKinds \cap {"stage", "pipeline"} = {} => s = CHOOSE t \in Stages : TRUE
          /\ deal = [live |-> TRUE, stage |-> s, pipeline |-> Pipeline[s], version |-> 0]
    /\ moves = <<>> /\ call = [outcome |-> NoLine, steps |-> {}]
    /\ feed = [note |-> NoLine, task |-> [subtype |-> "created", at |-> 0], moves |-> {}, tasks |-> {}]
    /\ stamp = 0 /\ feedWork = [q \in FeedRequests |-> NoFeedWork]

-----------------------------------------------------------------------------
FeedGoes(q, work) == feedWork' = [feedWork EXCEPT ![q] = work]
FeedFails(q) ==
    FeedGoes(q, NoFeedWork) /\ UNCHANGED <<feedKinds, note, task, deal, moves, call, feed, stamp>>

NoteUnlocked == \A q \in FeedRequests : feedWork[q].pc = "noteTx" => feedWork[q].text = Same
NoteIs(state, text, links) ==
    /\ note' = [state |-> state, text |-> text, links |-> links]
    /\ UNCHANGED <<feedKinds, task, deal, moves, call, stamp>>

(* POST: nobody knows the note yet.                                        *)
NoteCreate(text, links) ==
    /\ "edit" \in feedKinds /\ note.state = "none" /\ NoteIs("live", text, links)
    /\ feed' = [feed EXCEPT !.note = [text |-> text, links |-> links]]
    /\ UNCHANGED feedWork

NoteRead(q, text, links) ==
    /\ feedWork[q].pc = "idle" /\ note.state = "live"
    /\ IF text = Same THEN "attach" \in feedKinds /\ links # Same ELSE "edit" \in feedKinds
    /\ FeedGoes(q, [pc |-> "note", text |-> text, links |-> links, said |-> note.text])
    /\ UNCHANGED <<feedKinds, note, task, deal, moves, call, feed, stamp>>

NoteTx(work) == [pc |-> "noteTx", text |-> work.text, links |-> work.links, said |-> work.said,
                 stale |-> note.links]

(* Mutant: the note is not looked at again before it is written.           *)
NoteBeginBlind(q) ==
    LET work == feedWork[q] IN
    /\ work.pc = "note"
    /\ FeedGoes(q, NoteTx(work))
    /\ UNCHANGED <<feedKinds, note, task, deal, moves, call, feed, stamp>>

(* The transaction: a new body updates the live note, and throws without   *)
(* one; the links are deleted, or loaded.                                  *)
NoteBegin(q) ==
    LET work == feedWork[q] IN
    /\ work.pc = "note"
    /\ work.text # Same => NoteUnlocked
    /\ IF work.text # Same /\ note.state # "live" THEN FeedFails(q)
       ELSE /\ FeedGoes(q, NoteTx(work))
            /\ UNCHANGED <<feedKinds, note, task, deal, moves, call, feed, stamp>>

(* The line is upserted: from the body of the request, or from the one     *)
(* that was read before the transaction.                                   *)
NoteCommit(q) ==
    LET work == feedWork[q]
        targets == IF work.links = Same THEN work.stale ELSE work.links
        text == IF work.text = Same THEN work.said ELSE work.text IN
    /\ work.pc = "noteTx" /\ FeedGoes(q, NoFeedWork)
    /\ NoteIs(note.state, IF work.text = Same THEN note.text ELSE work.text,
              IF work.links = Same THEN note.links ELSE (note.links \ work.stale) \cup targets)
    /\ feed' = [feed EXCEPT !.note = [text |-> text, links |-> targets]]

NoteTrash ==
    /\ "trash" \in feedKinds /\ note.state = "live" /\ NoteUnlocked
    /\ NoteIs("trashed", note.text, note.links)
    /\ feed' = [feed EXCEPT !.note = NoLine] /\ UNCHANGED feedWork

-----------------------------------------------------------------------------
TaskRead(q, done) ==
    /\ "done" \in feedKinds /\ feedWork[q].pc = "idle" /\ task.live /\ stamp < MaxStamp
    /\ stamp' = stamp + 1
    /\ FeedGoes(q, [pc |-> "task", done |-> done, was |-> task.done, at |-> stamp'])
    /\ UNCHANGED <<feedKinds, note, task, deal, moves, call, feed>>

(* Mutant: the flag is written whether or not it is taken to change.       *)
TaskCommitFlag(q) ==
    LET work == feedWork[q] IN
    /\ work.pc = "task" /\ task.live /\ FeedGoes(q, NoFeedWork)
    /\ task' = [task EXCEPT !.done = work.done, !.doneAt = IF work.done THEN work.at ELSE 0]
    /\ feed' = IF work.done = work.was THEN feed
               ELSE [feed EXCEPT !.task = [subtype |-> IF work.done THEN "completed" ELSE "reopened",
                                           at |-> work.at]]
    /\ UNCHANGED <<feedKinds, note, deal, moves, call, stamp>>

(* A flag that is what it was read to be is not written; a task that was   *)
(* trashed meanwhile fails the request.                                    *)
TaskCommit(q) ==
    LET work == feedWork[q] IN
    /\ work.pc = "task"
    /\ IF work.done = work.was \/ ~task.live THEN FeedFails(q)
       ELSE /\ task' = [task EXCEPT !.done = work.done, !.doneAt = IF work.done THEN work.at ELSE 0]
            /\ feed' = [feed EXCEPT !.task =
                  [subtype |-> IF work.done THEN "completed" ELSE "reopened", at |-> work.at]]
            /\ FeedGoes(q, NoFeedWork) /\ UNCHANGED <<feedKinds, note, deal, moves, call, stamp>>

TaskTrash ==
    /\ {"done", "drop"} \subseteq feedKinds /\ task.live /\ task' = [task EXCEPT !.live = FALSE]
    /\ UNCHANGED <<feedKinds, note, deal, moves, call, feed, stamp, feedWork>>

-----------------------------------------------------------------------------
(* The stage must be one of the pipeline's, the one not sent being the one *)
(* that was read.                                                          *)
DealRead(q, stage, pipeline) ==
    /\ feedWork[q].pc = "idle" /\ deal.live
    /\ IF stage = Same THEN "pipeline" \in feedKinds /\ pipeline # Same ELSE "stage" \in feedKinds
    /\ Pipeline[IF stage = Same THEN deal.stage ELSE stage]
          = (IF pipeline = Same THEN deal.pipeline ELSE pipeline)
    /\ FeedGoes(q, [pc |-> "deal", stage |-> stage, pipeline |-> pipeline,
                    from |-> deal.stage, version |-> deal.version])
    /\ UNCHANGED <<feedKinds, note, task, deal, moves, call, feed, stamp>>

Given(value, old) == IF value = Same THEN old ELSE value
DealUpdated(work) ==
    deal' = [deal EXCEPT !.stage = Given(work.stage, @), !.pipeline = Given(work.pipeline, @),
                         !.version = @ + 1]
Moved(work) ==
    IF work.stage \in {Same, work.from} THEN UNCHANGED <<moves, feed>>
    ELSE /\ moves' = Append(moves, <<work.from, work.stage>>)
         /\ feed' = [feed EXCEPT !.moves = @ \cup {<<work.from, work.stage, work.version>>}]

(* Mutant: that no live deal was updated goes unnoticed.                   *)
DealCommitBlind(q) ==
    LET work == feedWork[q] IN
    /\ work.pc = "deal" /\ deal.version < MaxStamp /\ FeedGoes(q, NoFeedWork)
    /\ IF deal.live THEN DealUpdated(work) ELSE UNCHANGED deal
    /\ Moved(work)
    /\ UNCHANGED <<feedKinds, note, task, call, stamp>>

(* The update, its history and its line, unless the deal is gone. A move   *)
(* is one from the stage that was read.                                    *)
DealCommit(q) ==
    LET work == feedWork[q] IN
    /\ work.pc = "deal" /\ deal.version < MaxStamp
    /\ IF ~deal.live THEN FeedFails(q)
       ELSE /\ DealUpdated(work) /\ Moved(work) /\ FeedGoes(q, NoFeedWork)
            /\ UNCHANGED <<feedKinds, note, task, call, stamp>>

DealTrash ==
    /\ {"stage", "drop"} \subseteq feedKinds /\ deal.live /\ deal' = [deal EXCEPT !.live = FALSE]
    /\ UNCHANGED <<feedKinds, note, task, moves, call, feed, stamp, feedWork>>

-----------------------------------------------------------------------------
CallUnlocked == \A q \in FeedRequests : feedWork[q].pc = "callTx" => feedWork[q].outcome = NoLine

(* Mutant: the outcome is not written first, and holds nobody up.          *)
SaveBeginLoose(q, outcome, steps) ==
    /\ feedWork[q].pc = "idle"
    /\ IF outcome = NoLine THEN "steps" \in feedKinds ELSE "complete" \in feedKinds
    /\ FeedGoes(q, [pc |-> "callTx", outcome |-> outcome, steps |-> steps, stale |-> call.steps])
    /\ UNCHANGED <<feedKinds, note, task, deal, moves, call, feed, stamp>>

(* Save & Next updates the call, and so locks it; the PUT of the steps     *)
(* does not. Both delete the steps that are there.                         *)
SaveBegin(q, outcome, steps) ==
    /\ feedWork[q].pc = "idle"
    /\ IF outcome = NoLine THEN "steps" \in feedKinds ELSE "complete" \in feedKinds /\ CallUnlocked
    /\ FeedGoes(q, [pc |-> "callTx", outcome |-> outcome, steps |-> steps, stale |-> call.steps])
    /\ UNCHANGED <<feedKinds, note, task, deal, moves, call, feed, stamp>>

(* A step may be there once. Save & Next makes a task, with its line, of   *)
(* each step.                                                              *)
SaveCommit(q) ==
    LET work == feedWork[q]
        left == call.steps \ work.stale IN
    /\ work.pc = "callTx"
    /\ IF left \cap work.steps # {} THEN FeedFails(q)
       ELSE /\ call' = [outcome |-> IF work.outcome = NoLine THEN call.outcome ELSE work.outcome,
                        steps |-> left \cup work.steps]
            /\ feed' = IF work.outcome = NoLine THEN feed
                       ELSE [feed EXCEPT !.tasks = @ \cup work.steps]
            /\ FeedGoes(q, NoFeedWork) /\ UNCHANGED <<feedKinds, note, task, deal, moves, stamp>>

(* Any transaction may fail, and leaves nothing.                           *)
FeedRollback(q) == feedWork[q].pc # "idle" /\ FeedFails(q)

FeedNext ==
    \/ \E text \in Texts, a \in Accounts : NoteCreate(text, {a})
    \/ NoteTrash \/ TaskTrash \/ DealTrash
    \/ \E q \in FeedRequests :
          \/ \E text \in Texts \cup {Same}, links \in {{a} : a \in Accounts} \cup {Same} :
                NoteRead(q, text, links)
          \/ \E done \in BOOLEAN : TaskRead(q, done)
          \/ \E s \in Stages \cup {Same}, p \in Range(Pipeline) \cup {Same} : DealRead(q, s, p)
          \/ \E o \in Outcomes \cup {NoLine} :
                SaveBegin(q, o, IF o = NoLine THEN Outcomes ELSE {o})
          \/ NoteBegin(q) \/ NoteCommit(q) \/ TaskCommit(q) \/ DealCommit(q) \/ SaveCommit(q)
          \/ FeedRollback(q)

FeedSpec == FeedInit /\ [][FeedNext]_feedVars

-----------------------------------------------------------------------------
FeedTypeOK ==
    /\ note.state \in {"none", "live", "trashed"} /\ note.links \subseteq Accounts
    /\ task.done \in BOOLEAN /\ task.doneAt \in 0..stamp
    /\ deal.stage \in Stages /\ deal.version \in 0..MaxStamp
    /\ call.outcome \in Outcomes \cup {NoLine} /\ call.steps \subseteq Outcomes
    /\ \A q \in FeedRequests : feedWork[q].pc \in FeedPcs

(* What the behaviours need of the constants: a call's outcomes are no     *)
(* nulls, and the bound is a number.                                       *)
FeedConstants == NoLine \notin Outcomes /\ MaxStamp \in Nat

NoteLine ==
    feed.note = IF note.state = "live" THEN [text |-> note.text, links |-> note.links] ELSE NoLine

(* The flag, its moment and the line agree.                                *)
TaskLine ==
    /\ task.done <=> task.doneAt # 0
    /\ task.done <=> feed.task.subtype = "completed"
    /\ task.done => feed.task.at = task.doneAt

(* The history of the deal and the feed tell of the same moves, each made  *)
(* by an update of its own.                                                *)
MoveLines == {<<m[1], m[2]>> : m \in feed.moves} = ToSet(moves) /\ Len(moves) <= deal.version

(* A call's next steps are those saved with its outcome.                   *)
StepsOfOutcome == call.outcome # NoLine => call.steps = {call.outcome} /\ call.outcome \in feed.tasks

(* The feed is read without a join: its lines say what the rows they stand *)
(* for say, but for the requests that do not lock their row (notes.ts:     *)
(* 400-441, tasks.ts:470-517, deals.ts:485-540, nextSteps.ts:372-408).     *)
FeedIsTrue ==
    /\ "attach" \in feedKinds \/ NoteLine
    /\ TaskLine /\ MoveLines
    /\ "steps" \in feedKinds \/ StepsOfOutcome

-----------------------------------------------------------------------------
(* What the code says and does not do; TLC refutes each, see the README.   *)

(* "A line for a trashed note would be a line nothing stands behind", and  *)
(* the line quotes the note.                                               *)
TrashedHasNoLine == note.state = "trashed" => feed.note = NoLine
LineQuotesNote == note.state = "live" /\ feed.note # NoLine => feed.note.text = note.text

(* "Re-completing an already-done task keeps the ORIGINAL doneAt".         *)
DoneAtStays == [][task.done /\ task'.done => task'.doneAt = task.doneAt]_feedVars

(* "A deal can never end up on a stage outside its pipeline".              *)
StageInPipeline == Pipeline[deal.stage] = deal.pipeline

(* "Nor can a committed move disappear from the account history".          *)
MoveIsRecorded == [][deal'.stage # deal.stage => Len(moves') > Len(moves)]_feedVars
=============================================================================
