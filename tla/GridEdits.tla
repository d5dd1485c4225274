------------------------------ MODULE GridEdits ------------------------------
(* One tab's record grid and the cells of one record of it: an edit is     *)
(* shown at once, sent to the server, and taken back when it fails; undo   *)
(* and redo are edits too (components/crm/RecordGrid.tsx). Its requests    *)
(* are PATCHes of RecordFields.                                            *)
(***************************************************************************)
EXTENDS RecordFields

CONSTANTS
    Cell,         \* the record that is edited
    Untouched,    \* no local edit
    MaxEdits,     \* how many cells are edited; a bound
    MaxReplays,   \* how often undo and redo are pressed; a bound
    GridKindSets  \* the sets of what one behaviour has; none: no grid

(* overlap: an edit does not wait for the one before it; lost: an answer   *)
(* is lost after the server has written; replace: find and replace.        *)
GridKinds == {"edit", "replay", "fail", "lost", "overlap", "replace"}

VARIABLES
    gridKinds,  \* what this behaviour has; never changes
    fetched,    \* field -> its value in the page of rows that was fetched
    edits,      \* field -> what this tab has put over it
    undoStack, redoStack,
    editCount, replayed,  \* how many so far
    flight      \* request -> the edit it carries

gridScreen == <<fetched, edits, undoStack, redoStack, editCount, replayed>>
gridVars == <<gridKinds, gridScreen, flight>>

NoFlight == [pc |-> "none"]

GridInit ==
    /\ gridKinds \in GridKindSets
    /\ fetched = bag[Cell] /\ edits = [f \in Fields |-> Untouched]
    /\ undoStack = <<>> /\ redoStack = <<>> /\ editCount = 0 /\ replayed = 0
    /\ flight = [q \in FieldRequests |-> NoFlight]

cellValue(f) == IF edits[f] = Untouched THEN fetched[f] ELSE edits[f]

InFlight == {q \in FieldRequests : flight[q].pc # "none"}

(* commitValue: the overlay, and the request with what to fall back to.    *)
Paints(f, stored) ==
    /\ "overlap" \in gridKinds \/ InFlight = {}
    /\ edits' = [edits EXCEPT ![f] = stored]
    /\ \E q \in FieldRequests \ InFlight :
          /\ fieldWork[q].pc = "idle"
          /\ flight' = [flight EXCEPT ![q] = [pc |-> "sent", field |-> f, value |-> stored,
                                              prior |-> cellValue(f)]]
    /\ UNCHANGED <<gridKinds, fetched, recordVars>>

Edit(f, stored) ==
    /\ "edit" \in gridKinds /\ editCount < MaxEdits /\ Paints(f, stored)
    /\ IF stored # cellValue(f)
       THEN /\ undoStack' = Append(undoStack, [field |-> f, before |-> cellValue(f),
                                               after |-> stored])
            /\ redoStack' = <<>>
       ELSE UNCHANGED <<undoStack, redoStack>>
    /\ editCount' = editCount + 1 /\ UNCHANGED replayed

Replays(from, value) ==
    /\ "replay" \in gridKinds /\ replayed < MaxReplays /\ from # <<>>
    /\ Paints(Last(from).field, value) /\ replayed' = replayed + 1 /\ UNCHANGED editCount

Undo ==
    /\ Replays(undoStack, Last(undoStack).before)
    /\ undoStack' = Front(undoStack) /\ redoStack' = Append(redoStack, Last(undoStack))

Redo ==
    /\ Replays(redoStack, Last(redoStack).after)
    /\ redoStack' = Front(redoStack) /\ undoStack' = Append(undoStack, Last(redoStack))

(* replaceAll: the cells that match are painted, and nothing is sent.      *)
ReplaceCells(matches, value) ==
    /\ "replace" \in gridKinds /\ matches # {}
    /\ edits' = [f \in Fields |-> IF f \in matches THEN value ELSE edits[f]]
    /\ UNCHANGED <<gridKinds, fetched, undoStack, redoStack, editCount, replayed, flight>>
    /\ UNCHANGED recordVars

-----------------------------------------------------------------------------
FlightGoes(q, pc) ==
    flight' = [flight EXCEPT ![q].pc = pc] /\ UNCHANGED <<gridKinds, gridScreen>>

(* The request arrives, or it does not or is refused.                      *)
Arrives(q) ==
    /\ flight[q].pc = "sent" /\ PatchRead(q, Cell, flight[q].field, flight[q].value)
    /\ FlightGoes(q, "served")

Fails(q) ==
    /\ "fail" \in gridKinds /\ flight[q].pc = "sent"
    /\ FlightGoes(q, "failed") /\ UNCHANGED recordVars

Serves(q) ==
    /\ flight[q].pc = "served"
    /\ \/ PatchLock(q) /\ UNCHANGED gridVars
       \/ PatchVanishes(q) /\ FlightGoes(q, "failed")
       \/ PatchCommit(q) /\ \E pc \in {"saved"} \cup {"failed" : k \in gridKinds \cap {"lost"}} :
                               FlightGoes(q, pc)

(* Mutant: what failed gives the page of rows back.                        *)
LandsOnFetched(q) ==
    /\ \/ flight[q].pc = "saved" /\ UNCHANGED edits
       \/ flight[q].pc = "failed" /\ edits' = [edits EXCEPT ![flight[q].field] = Untouched]
    /\ flight' = [flight EXCEPT ![q] = NoFlight]
    /\ UNCHANGED <<gridKinds, fetched, undoStack, redoStack, editCount, replayed, recordVars>>

(* mutateAsync settles: what failed is taken back to what was there before.*)
Lands(q) ==
    /\ \/ flight[q].pc = "saved" /\ UNCHANGED edits
       \/ flight[q].pc = "failed" /\ edits' = [edits EXCEPT ![flight[q].field] = flight[q].prior]
    /\ flight' = [flight EXCEPT ![q] = NoFlight]
    /\ UNCHANGED <<gridKinds, fetched, undoStack, redoStack, editCount, replayed, recordVars>>

GridNext ==
    \/ \E f \in Fields, value \in FieldValues : Edit(f, value)
    \/ Undo \/ Redo
    \/ \E matches \in SUBSET Fields, value \in FieldValues : ReplaceCells(matches, value)
    \/ \E q \in FieldRequests : Arrives(q) \/ Fails(q) \/ Serves(q) \/ Lands(q)
    \/ Trash(Cell) /\ UNCHANGED gridVars

GridSpec == RecordsInit /\ GridInit /\ [][GridNext]_<<recordVars, gridVars>>

-----------------------------------------------------------------------------
Replayable == [field : Fields, before : FieldValues, after : FieldValues]
Flights ==
    [pc : {"none"}]
    \cup [pc : {"sent", "served", "saved", "failed"}, field : Fields, value : FieldValues,
          prior : FieldValues]

GridTypeOK ==
    /\ gridKinds \subseteq GridKinds
    /\ fetched \in [Fields -> FieldValues] /\ edits \in [Fields -> FieldValues \cup {Untouched}]
    /\ undoStack \in Seq(Replayable) /\ redoStack \in Seq(Replayable)
    /\ editCount \in 0..MaxEdits /\ replayed \in 0..MaxReplays
    /\ flight \in [FieldRequests -> Flights]

(* When nothing is in flight the grid shows what the server holds, after   *)
(* any edits, failures, undos and redos, as long as each waits for the one *)
(* before, no answer is lost and nothing is replaced (RecordGrid.tsx:      *)
(* 609-634, 1166-1190).                                                    *)
GridShowsStored ==
    /\ {"overlap", "lost", "replace"} \cap gridKinds = {} /\ InFlight = {} /\ gridKinds # {}
    => \A f \in Fields : cellValue(f) = bag[Cell][f]

(* What the theorems ask of the constants.                                 *)
GridConstants ==
    /\ FieldConstants /\ Cell \in RecordIds /\ Untouched \notin FieldValues
    /\ MaxEdits \in Nat /\ MaxReplays \in Nat
    /\ \A k \in GridKindSets : k \subseteq GridKinds

-----------------------------------------------------------------------------
(* What the code says and does not do; TLC refutes it, see the README.     *)

(* RecordGrid.tsx: an edit "persists through the object route, rolls back  *)
(* on failure".                                                            *)
GridIsPersisted == InFlight = {} /\ gridKinds # {} =>
    \A f \in Fields : cellValue(f) = bag[Cell][f]
=============================================================================
