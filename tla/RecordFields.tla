----------------------------- MODULE RecordFields -----------------------------
(* The values of the records of one custom object: a PATCH of one record,  *)
(* a bulk edit, the change of the reference field from many values to one, *)
(* the creation and the deletion of a record (routes/records.ts, objects.ts*)
(* and attributes.ts, crm/attributeValueMigrations.ts).                    *)
(*                                                                         *)
(* A record has one bag of values. Whoever changes a field reads the bag,  *)
(* changes the copy, and writes it back whole under the record's row lock; *)
(* the links of the reference field and the history follow in the same     *)
(* transaction.                                                            *)
(***************************************************************************)
EXTENDS Integers, SequencesExt

CONSTANTS
    RecordIds,      \* record ids
    Fields, Ref,    \* slugs; the one of the record_reference field
    FieldValues,    \* what a field can hold: sequences, the empty one for absent
    FieldRequests,  \* concurrent requests
    FieldKindSets   \* the sets of operations of which one behaviour has one

FieldKinds == {"create", "patch", "bulk", "collapse", "trash"}

VARIABLES
    fieldKinds, \* the operations of this behaviour; never changes
    isMulti,    \* the reference field's isMulti
    liveRecords, \* the records there are and that are not in the trash
    bag,        \* record -> valuesJson: field -> value
    recordLinks, \* record -> what its RecordLink rows point at
    logged,     \* record -> field -> newJson of its newest FieldHistory row
    fieldWork   \* request -> what it is in the middle of

recordRows == <<isMulti, liveRecords, bag, recordLinks, logged>>
recordVars == <<fieldKinds, recordRows, fieldWork>>

(* before, after: the bag read and the one to write; held: the rows locked;*)
(* rows: those of them lockMultiValueRows returned; stale: the links there *)
(* were when the transaction had its lock.                                 *)
NoFieldTask == [pc |-> "idle", held |-> {}]

Bags == [Fields -> FieldValues]
Linkable == UNION {ToSet(value) : value \in FieldValues}
Blank == [f \in Fields |-> <<>>]
First(value) == SubSeq(value, 1, 1)

RecordsInit ==
    /\ fieldKinds \in FieldKindSets /\ isMulti = TRUE
    /\ liveRecords \in {{}, {CHOOSE r \in RecordIds : TRUE}}
    /\ bag = [r \in RecordIds |-> Blank] /\ logged = bag
    /\ recordLinks = [r \in RecordIds |-> {}]
    /\ fieldWork = [q \in FieldRequests |-> NoFieldTask]

-----------------------------------------------------------------------------
FreeRecords(q, S) == \A o \in FieldRequests \ {q} : fieldWork[o].held \cap S = {}
FieldGoes(q, task) == fieldWork' = [fieldWork EXCEPT ![q] = task] /\ UNCHANGED fieldKinds
FieldStarts(q, op, task) ==
    op \in fieldKinds /\ fieldWork[q].pc = "idle" /\ FieldGoes(q, task) /\ UNCHANGED recordRows

(* validateRecordValues: a field that is not multi takes one value.        *)
Fits(f, value) == f = Ref /\ ~isMulti => Len(value) <= 1

(* diffFieldValues: a row for every field that differs.                    *)
Diff(log, before, after) ==
    [f \in Fields |-> IF before[f] # after[f] THEN after[f] ELSE log[f]]

(* POST: the record, its links and its place in the feed are one commit.   *)
Create(r, value) ==
    /\ "create" \in fieldKinds /\ r \notin liveRecords /\ bag[r] = Blank /\ Fits(Ref, value)
    /\ liveRecords' = liveRecords \cup {r}
    /\ bag' = [bag EXCEPT ![r][Ref] = value]
    /\ recordLinks' = [recordLinks EXCEPT ![r] = ToSet(value)]
    /\ UNCHANGED <<fieldKinds, isMulti, logged, fieldWork>>

(* PATCH of one field: the bag is read and merged; the update waits for    *)
(* the row; then the links that are seen make room for those of the bag.   *)
PatchRead(q, r, f, value) ==
    /\ r \in liveRecords /\ Fits(f, value)
    /\ FieldStarts(q, "patch", [pc |-> "patch", record |-> r, held |-> {}, before |-> bag[r],
                                after |-> [bag[r] EXCEPT ![f] = value]])

(* Mutant: the links are seen before the row is locked.                    *)
PatchLockLate(q) ==
    LET task == fieldWork[q] IN
    /\ task.pc = "patch" /\ task.record \in liveRecords
    /\ FieldGoes(q, [pc |-> "patched", record |-> task.record, held |-> {task.record},
                     before |-> task.before, after |-> task.after,
                     stale |-> recordLinks[task.record]])
    /\ UNCHANGED recordRows

PatchLock(q) ==
    LET task == fieldWork[q] IN
    /\ task.pc = "patch" /\ task.record \in liveRecords /\ FreeRecords(q, {task.record})
    /\ FieldGoes(q, [pc |-> "patched", record |-> task.record, held |-> {task.record},
                     before |-> task.before, after |-> task.after,
                     stale |-> recordLinks[task.record]])
    /\ UNCHANGED recordRows

(* "record vanished mid-update".                                           *)
PatchVanishes(q) ==
    /\ fieldWork[q].pc = "patch" /\ fieldWork[q].record \notin liveRecords
    /\ FieldGoes(q, NoFieldTask) /\ UNCHANGED recordRows

PatchCommit(q) ==
    LET task == fieldWork[q]
        r == task.record IN
    /\ task.pc = "patched"
    /\ bag' = [bag EXCEPT ![r] = task.after]
    /\ recordLinks' = [recordLinks EXCEPT ![r] = (@ \ task.stale) \cup ToSet(task.after[Ref])]
    /\ logged' = [logged EXCEPT ![r] = Diff(@, task.before, task.after)]
    /\ FieldGoes(q, NoFieldTask) /\ UNCHANGED <<isMulti, liveRecords>>

(* Bulk edit: the same for a record of the selection, without its links.   *)
BulkRead(q, r, f, value) ==
    /\ r \in liveRecords /\ Fits(f, value)
    /\ FieldStarts(q, "bulk", [pc |-> "bulk", record |-> r, held |-> {}, before |-> bag[r],
                               after |-> [bag[r] EXCEPT ![f] = value]])

BulkCommit(q) ==
    LET task == fieldWork[q]
        r == task.record IN
    /\ task.pc = "bulk" /\ FreeRecords(q, {r})
    /\ IF r \in liveRecords
       THEN /\ bag' = [bag EXCEPT ![r] = task.after]
            /\ logged' = [logged EXCEPT ![r] = Diff(@, task.before, task.after)]
       ELSE UNCHANGED <<bag, logged>>
    /\ FieldGoes(q, NoFieldTask) /\ UNCHANGED <<isMulti, liveRecords, recordLinks>>

(* DELETE: into the trash; the values and the links stay.                  *)
Trash(r) ==
    /\ "trash" \in fieldKinds /\ r \in liveRecords
    /\ \A q \in FieldRequests : r \notin fieldWork[q].held
    /\ liveRecords' = liveRecords \ {r}
    /\ UNCHANGED <<fieldKinds, isMulti, bag, recordLinks, logged, fieldWork>>

-----------------------------------------------------------------------------
(* The reference field becomes single: the rows with a value are locked,   *)
(* all there are then are cut to their first value, and those that were    *)
(* locked get their history and that one link.                             *)
Filled == {r \in liveRecords : bag[r][Ref] # <<>>}

CollapseLock(q) ==
    /\ isMulti /\ FreeRecords(q, Filled)
    /\ FieldStarts(q, "collapse", [pc |-> "locked", held |-> Filled, rows |-> Filled])

(* 422: some have several, and resolveMultiToSingle is not set.            *)
CollapseBlocked(q) ==
    /\ fieldWork[q].pc = "locked" /\ \E r \in fieldWork[q].rows : Len(bag[r][Ref]) > 1
    /\ FieldGoes(q, NoFieldTask) /\ UNCHANGED recordRows

CollapseUpdate(q) ==
    LET task == fieldWork[q] IN
    /\ task.pc = "locked" /\ FreeRecords(q, Filled)
    /\ FieldGoes(q, [pc |-> "collapsed", held |-> Filled, rows |-> task.rows])
    /\ UNCHANGED recordRows

CollapseCommit(q) ==
    LET task == fieldWork[q] IN
    /\ task.pc = "collapsed"
    /\ bag' = [r \in RecordIds |-> IF r \in task.held THEN [bag[r] EXCEPT ![Ref] = First(@)]
                                   ELSE bag[r]]
    /\ recordLinks' = [r \in RecordIds |-> IF r \in task.rows THEN ToSet(First(bag[r][Ref]))
                                           ELSE recordLinks[r]]
    /\ logged' = [r \in RecordIds |-> IF r \in task.rows
                                      THEN [logged[r] EXCEPT ![Ref] = First(bag[r][Ref])]
                                      ELSE logged[r]]
    /\ isMulti' = FALSE
    /\ FieldGoes(q, NoFieldTask) /\ UNCHANGED liveRecords

RecordsNext ==
    \/ \E r \in RecordIds, value \in FieldValues : Create(r, value)
    \/ \E r \in RecordIds : Trash(r)
    \/ \E q \in FieldRequests :
          \/ \E r \in RecordIds, f \in Fields, value \in FieldValues :
                PatchRead(q, r, f, value) \/ BulkRead(q, r, f, value)
          \/ PatchLock(q) \/ PatchVanishes(q) \/ PatchCommit(q) \/ BulkCommit(q)
          \/ CollapseLock(q) \/ CollapseBlocked(q) \/ CollapseUpdate(q) \/ CollapseCommit(q)

RecordsSpec == RecordsInit /\ [][RecordsNext]_recordVars

-----------------------------------------------------------------------------
FieldTasks ==
    [pc : {"idle"}, held : {{}}]
    \cup [pc : {"patch", "bulk"}, record : RecordIds, held : {{}}, before : Bags, after : Bags]
    \cup [pc : {"patched"}, record : RecordIds, held : SUBSET RecordIds, before : Bags,
          after : Bags, stale : SUBSET Linkable]
    \cup [pc : {"locked", "collapsed"}, held : SUBSET RecordIds, rows : SUBSET RecordIds]

RecordsTypeOK ==
    /\ fieldKinds \subseteq FieldKinds
    /\ isMulti \in BOOLEAN /\ liveRecords \subseteq RecordIds
    /\ bag \in [RecordIds -> Bags] /\ logged \in [RecordIds -> Bags]
    /\ recordLinks \in [RecordIds -> SUBSET Linkable]
    /\ fieldWork \in [FieldRequests -> FieldTasks]

(* What a record refers to can be found from the other side, and nothing   *)
(* else can, unless the field becomes single meanwhile: then the links may *)
(* be more. Bulk edits leave the links alone (records.ts:422-424).         *)
ReferencesAreLinked ==
    \A r \in RecordIds :
       /\ "bulk" \notin fieldKinds => ToSet(bag[r][Ref]) \subseteq recordLinks[r]
       /\ {"bulk", "collapse"} \cap fieldKinds = {} => ToSet(bag[r][Ref]) = recordLinks[r]

(* What the theorems ask of the constants.                                 *)
FieldConstants ==
    /\ RecordIds # {} /\ Ref \in Fields /\ \A k \in FieldKindSets : k \subseteq FieldKinds
    /\ <<>> \in FieldValues /\ FieldValues \subseteq Seq(Linkable)
    /\ \A value \in FieldValues : value # <<>> => First(value) \in FieldValues

-----------------------------------------------------------------------------
(* What the code says and does not do; TLC refutes each, see the README.   *)

(* records.ts: "a value and its history can never disagree".               *)
HistoryAgrees == \A r \in RecordIds, f \in Fields :
    logged[r][f] # <<>> => logged[r][f] = bag[r][f]

(* attributeValueMigrations.ts: links are rewritten "so reverse-reference  *)
(* reads stay aligned".                                                    *)
LinksAreAligned == \A r \in RecordIds : ToSet(bag[r][Ref]) = recordLinks[r]

(* valuesValidator.ts: a field that is not multi "does not take a list".   *)
SingleHoldsOne == ~isMulti => \A r \in liveRecords : Len(bag[r][Ref]) <= 1
=============================================================================
