----------------------------- MODULE RecordsProofs -----------------------------
(* What members of an organization who work at the same records leave of   *)
(* them: the fields of a record and what a grid shows of it, the order of  *)
(* a person's phones, and the cards in everybody's inbox.                  *)
EXTENDS WorkspaceRecords, FiniteSetTheorems, SequenceTheorems, WellFoundedInduction, TLAPS

(***************************************************************************)
(* That the links of a reference are those of its value, whatever is       *)
(* edited, made single, created and trashed at once; and that a grid shows *)
(* what the server holds once its requests have landed.                    *)
(***************************************************************************)

(* Who has rows locked has them alone, and they are not trashed; what a    *)
(* transaction saw of them under the lock is so until it commits.          *)
RowsAreApart ==
    \A q, o \in FieldRequests : q # o => fieldWork[q].held \cap fieldWork[o].held = {}
HoldsRows(doing) ==
    /\ doing.held \subseteq liveRecords
    /\ doing.pc = "patched" =>
          doing.record \in doing.held /\ doing.stale = recordLinks[doing.record]
    /\ doing.pc = "bulk" => "bulk" \in fieldKinds
    /\ doing.pc \in {"locked", "collapsed"} =>
          /\ "collapse" \in fieldKinds /\ doing.rows \subseteq doing.held
          /\ \A r \in doing.held : bag[r][Ref] # <<>>

RecordsInv ==
    /\ RecordsTypeOK /\ ReferencesAreLinked /\ RowsAreApart
    /\ \A q \in FieldRequests : HoldsRows(fieldWork[q])

-----------------------------------------------------------------------------
LEMMA FieldTaskShape ==
    ASSUME NEW doing \in FieldTasks
    PROVE  /\ doing.held \subseteq RecordIds
           /\ doing.pc \in {"idle", "patch", "bulk", "patched", "locked", "collapsed"}
           /\ doing.pc \in {"idle", "patch", "bulk"} => doing.held = {}
           /\ doing.pc \in {"patch", "bulk", "patched"} =>
                 doing.record \in RecordIds /\ doing.before \in Bags /\ doing.after \in Bags
           /\ doing.pc \in {"locked", "collapsed"} => doing.rows \subseteq RecordIds
BY DEF FieldTasks

LEMMA IdleFieldTask ==
    NoFieldTask \in FieldTasks /\ NoFieldTask.held = {} /\ NoFieldTask.pc = "idle"
BY DEF NoFieldTask, FieldTasks

(* What a value refers to, and what is left of it in a single field.       *)
LEMMA ValuesRefer ==
    ASSUME FieldConstants, NEW value \in FieldValues
    PROVE  /\ ToSet(value) \subseteq Linkable
           /\ value # <<>> => First(value) \in FieldValues
                              /\ ToSet(First(value)) \subseteq ToSet(value)
<1>1. ToSet(value) \subseteq Linkable BY DEF Linkable
<1>2. value \in Seq(Linkable) BY DEF FieldConstants
<1>3. ASSUME value # <<>> PROVE ToSet(First(value)) \subseteq ToSet(value)
  <2>1. Len(value) \in Nat /\ Len(value) >= 1 BY <1>2, <1>3
  <2>2. 1 \in DOMAIN value BY <1>2, <2>1
  <2>3. Len(First(value)) = 1 /\ First(value)[1] = value[1] /\ First(value) \in Seq(Linkable)
    BY <1>2, <2>1, SubSeqProperties DEF First
  <2>4. DOMAIN First(value) = {1} BY <2>3
  <2>5. QED BY <2>2, <2>3, <2>4 DEF ToSet
<1>4. QED BY <1>1, <1>3 DEF FieldConstants

LEMMA BlankBag == ASSUME FieldConstants PROVE Blank \in Bags /\ ToSet(<<>>) = {}
BY DEF FieldConstants, Blank, Bags, ToSet

(* A request goes on to what fits its rows, and the rows of the others stay*)
(* as they are.                                                            *)
LEMMA OneRequestGoesOn ==
    ASSUME RecordsInv, NEW q \in FieldRequests, NEW new \in FieldTasks, FieldGoes(q, new),
           RecordsTypeOK', ReferencesAreLinked', FreeRecords(q, new.held), HoldsRows(new)',
           \A o \in FieldRequests \ {q} : \A r \in fieldWork[o].held :
               r \in liveRecords' /\ recordLinks'[r] = recordLinks[r] /\ bag'[r] = bag[r]
    PROVE  RecordsInv'
<1>1. /\ \A o \in FieldRequests : fieldWork'[o] = IF o = q THEN new ELSE fieldWork[o]
      /\ fieldKinds' = fieldKinds
  BY DEF FieldGoes, RecordsInv, RecordsTypeOK
<1>2. ASSUME NEW o \in FieldRequests \ {q} PROVE HoldsRows(fieldWork[o])'
  <2>1. fieldWork[o] \in FieldTasks /\ fieldWork'[o] = fieldWork[o]
    BY <1>1 DEF RecordsInv, RecordsTypeOK
  <2>2. HoldsRows(fieldWork[o]) BY DEF RecordsInv
  <2>3. ASSUME NEW doing, doing = fieldWork[o] PROVE HoldsRows(doing)'
    BY <1>1, <2>1, <2>2, <2>3 DEF HoldsRows
  <2>4. QED BY <2>1, <2>3 DEF HoldsRows
<1>3. HoldsRows(fieldWork[q])' BY <1>1 DEF HoldsRows
<1>4. RowsAreApart' BY <1>1 DEF RecordsInv, RowsAreApart, FreeRecords
<1>5. QED BY <1>1, <1>2, <1>3, <1>4 DEF RecordsInv, HoldsRows

LEMMA RecordsStart == ASSUME FieldConstants, RecordsInit PROVE RecordsInv
<1> USE DEF RecordsInit
<1>1. \A r \in RecordIds : bag[r][Ref] = <<>> /\ recordLinks[r] = {} /\ ToSet(bag[r][Ref]) = {}
  BY BlankBag DEF FieldConstants, Blank
<1>2. (CHOOSE r \in RecordIds : TRUE) \in RecordIds BY DEF FieldConstants
<1>3. RecordsTypeOK BY <1>2, BlankBag, IdleFieldTask DEF RecordsTypeOK, FieldConstants
<1>4. ReferencesAreLinked BY <1>1 DEF ReferencesAreLinked
<1>5. QED BY <1>3, <1>4, IdleFieldTask DEF RecordsInv, RowsAreApart, HoldsRows

-----------------------------------------------------------------------------
(* What reads or locks rows leaves them as they are.                       *)
LEMMA ReadsKeep ==
    ASSUME FieldConstants, RecordsInv, NEW q \in FieldRequests,
           \/ \E r \in RecordIds, f \in Fields, value \in FieldValues :
                 PatchRead(q, r, f, value) \/ BulkRead(q, r, f, value)
           \/ PatchLock(q) \/ PatchVanishes(q)
           \/ CollapseLock(q) \/ CollapseBlocked(q) \/ CollapseUpdate(q)
    PROVE  RecordsInv'
<1> DEFINE doing == fieldWork[q]
<1>0. RecordsTypeOK /\ doing \in FieldTasks /\ HoldsRows(doing) /\ RowsAreApart
  BY DEF RecordsInv, RecordsTypeOK
<1>1. ASSUME NEW new \in FieldTasks, FieldGoes(q, new), UNCHANGED recordRows,
             FreeRecords(q, new.held), HoldsRows(new)
      PROVE  RecordsInv'
  <2>1. RecordsTypeOK' /\ ReferencesAreLinked'
    BY <1>0, <1>1 DEF RecordsTypeOK, FieldGoes, ReferencesAreLinked, RecordsInv, recordRows
  <2>2. HoldsRows(new)' BY <1>1 DEF HoldsRows, recordRows, FieldGoes
  <2>3. QED BY <1>1, <2>1, <2>2, OneRequestGoesOn DEF RecordsInv, HoldsRows, recordRows
<1>2. ASSUME NEW r \in RecordIds, NEW f \in Fields, NEW value \in FieldValues,
             PatchRead(q, r, f, value) \/ BulkRead(q, r, f, value)
      PROVE  RecordsInv'
  <2>1. bag[r] \in Bags /\ [bag[r] EXCEPT ![f] = value] \in Bags
    BY <1>0 DEF RecordsTypeOK, Bags
  <2>2. PICK pc \in {"patch", "bulk"} :
            FieldStarts(q, pc, [pc |-> pc, record |-> r, held |-> {}, before |-> bag[r],
                                after |-> [bag[r] EXCEPT ![f] = value]])
    BY <1>2 DEF PatchRead, BulkRead
  <2>3. PICK new : new = [pc |-> pc, record |-> r, held |-> {}, before |-> bag[r],
                          after |-> [bag[r] EXCEPT ![f] = value]]
    OBVIOUS
  <2>4. new \in FieldTasks /\ new.held = {} /\ new.pc = pc BY <2>1, <2>3 DEF FieldTasks
  <2>5. pc \in fieldKinds /\ FieldGoes(q, new) /\ UNCHANGED recordRows
    BY <2>2, <2>3 DEF FieldStarts
  <2>6. QED BY <1>1, <2>4, <2>5 DEF FreeRecords, HoldsRows
<1>3. CASE PatchLock(q)
  <2>1. PICK new : new = [pc |-> "patched", record |-> doing.record, held |-> {doing.record},
                          before |-> doing.before, after |-> doing.after,
                          stale |-> recordLinks[doing.record]]
    OBVIOUS
  <2>2. /\ doing.pc = "patch" /\ doing.record \in liveRecords /\ FieldGoes(q, new)
        /\ FreeRecords(q, {doing.record}) /\ UNCHANGED recordRows
    BY <1>3, <2>1 DEF PatchLock
  <2>3. new \in FieldTasks
    BY <1>0, <2>1, <2>2, FieldTaskShape DEF FieldTasks, RecordsTypeOK
  <2>4. QED BY <1>1, <2>1, <2>2, <2>3 DEF HoldsRows
<1>4. CASE PatchVanishes(q) \/ CollapseBlocked(q)
  BY <1>1, <1>4, IdleFieldTask
  DEF PatchVanishes, CollapseBlocked, FreeRecords, HoldsRows
<1>5. Filled \subseteq liveRecords /\ Filled \subseteq RecordIds
  BY <1>0 DEF Filled, RecordsTypeOK
<1>6. CASE CollapseLock(q)
  <2>1. PICK new : new = [pc |-> "locked", held |-> Filled, rows |-> Filled] OBVIOUS
  <2>2. new \in FieldTasks BY <1>5, <2>1 DEF FieldTasks
  <2>3. /\ "collapse" \in fieldKinds /\ FieldGoes(q, new) /\ FreeRecords(q, Filled)
        /\ UNCHANGED recordRows
    BY <1>6, <2>1 DEF CollapseLock, FieldStarts
  <2>4. HoldsRows(new) BY <1>5, <2>1, <2>3 DEF HoldsRows, Filled
  <2>5. QED BY <1>1, <2>1, <2>2, <2>3, <2>4
<1>7. CASE CollapseUpdate(q)
  <2>1. PICK new : new = [pc |-> "collapsed", held |-> Filled, rows |-> doing.rows] OBVIOUS
  <2>2. /\ doing.pc = "locked" /\ FieldGoes(q, new) /\ FreeRecords(q, Filled)
        /\ UNCHANGED recordRows
    BY <1>7, <2>1 DEF CollapseUpdate
  <2>3. new \in FieldTasks BY <1>0, <1>5, <2>1, <2>2, FieldTaskShape DEF FieldTasks
  <2>4. doing.rows \subseteq Filled BY <1>0, <2>2 DEF HoldsRows, Filled
  <2>5. HoldsRows(new) BY <1>0, <1>5, <2>1, <2>2, <2>4 DEF HoldsRows, Filled
  <2>6. QED BY <1>1, <2>1, <2>2, <2>3, <2>5
<1>8. QED BY <1>2, <1>3, <1>4, <1>6, <1>7

(* A new record, with its links, is nobody's yet.                          *)
LEMMA CreateKeeps ==
    ASSUME FieldConstants, RecordsInv, NEW r \in RecordIds, NEW value \in FieldValues,
           Create(r, value)
    PROVE  RecordsInv'
<1>0. RecordsTypeOK /\ Ref \in Fields BY DEF RecordsInv, FieldConstants
<1>1. /\ r \notin liveRecords /\ liveRecords' = liveRecords \cup {r}
      /\ bag' = [bag EXCEPT ![r][Ref] = value]
      /\ recordLinks' = [recordLinks EXCEPT ![r] = ToSet(value)]
      /\ UNCHANGED <<fieldKinds, isMulti, logged, fieldWork>>
  BY DEF Create
<1>2. RecordsTypeOK' BY <1>0, <1>1, ValuesRefer DEF RecordsTypeOK, Bags
<1>3. /\ bag'[r][Ref] = value /\ recordLinks'[r] = ToSet(value)
      /\ \A s \in RecordIds \ {r} : bag'[s] = bag[s] /\ recordLinks'[s] = recordLinks[s]
  BY <1>0, <1>1 DEF RecordsTypeOK, Bags
<1>4. ReferencesAreLinked' BY <1>1, <1>3 DEF ReferencesAreLinked, RecordsInv
<1>5. ASSUME NEW q \in FieldRequests PROVE HoldsRows(fieldWork[q])'
  <2>1. HoldsRows(fieldWork[q]) /\ fieldWork[q] \in FieldTasks
    BY <1>0 DEF RecordsInv, RecordsTypeOK
  <2>2. r \notin fieldWork[q].held BY <1>1, <2>1 DEF HoldsRows
  <2>3. fieldWork[q].held \subseteq RecordIds BY <2>1, FieldTaskShape
  <2>4. QED BY <1>1, <1>3, <2>1, <2>2, <2>3 DEF HoldsRows
<1>6. RowsAreApart' BY <1>1 DEF RecordsInv, RowsAreApart
<1>7. QED BY <1>2, <1>4, <1>5, <1>6 DEF RecordsInv

LEMMA RecordTrashKeeps ==
    ASSUME RecordsInv, NEW r \in RecordIds, Trash(r) PROVE RecordsInv'
<1>1. /\ liveRecords' = liveRecords \ {r} /\ \A q \in FieldRequests : r \notin fieldWork[q].held
      /\ UNCHANGED <<fieldKinds, isMulti, bag, recordLinks, logged, fieldWork>>
  BY DEF Trash
<1>2. RecordsTypeOK' /\ ReferencesAreLinked' /\ RowsAreApart'
  BY <1>1 DEF RecordsInv, RecordsTypeOK, ReferencesAreLinked, RowsAreApart
<1>3. \A q \in FieldRequests : HoldsRows(fieldWork[q])' BY <1>1 DEF RecordsInv, HoldsRows
<1>4. QED BY <1>2, <1>3 DEF RecordsInv

(* A PATCH, or a bulk edit, writes the bag it has made.                    *)
LEMMA PatchCommits ==
    ASSUME FieldConstants, RecordsInv, NEW q \in FieldRequests, PatchCommit(q) \/ BulkCommit(q)
    PROVE  RecordsInv'
<1> DEFINE doing == fieldWork[q]
           r == doing.record
<1>0. /\ RecordsTypeOK /\ doing \in FieldTasks /\ HoldsRows(doing) /\ RowsAreApart
      /\ Ref \in Fields
  BY DEF RecordsInv, RecordsTypeOK, FieldConstants
<1>1. FieldGoes(q, NoFieldTask) /\ UNCHANGED <<isMulti, liveRecords>> /\ fieldKinds' = fieldKinds
      /\ doing.pc \in {"patched", "bulk"}
  BY DEF PatchCommit, BulkCommit, FieldGoes
<1>2. r \in RecordIds /\ doing.before \in Bags /\ doing.after \in Bags
  BY <1>0, <1>1, FieldTaskShape
<1>3. \A s \in RecordIds : Diff(logged[s], doing.before, doing.after) \in Bags
  BY <1>0, <1>2 DEF Diff, Bags, RecordsTypeOK
<1>4. doing.after[Ref] \in FieldValues BY <1>0, <1>2 DEF Bags
<1>5. ToSet(doing.after[Ref]) \subseteq Linkable BY <1>4, ValuesRefer
<1>6. ASSUME NEW o \in FieldRequests \ {q} PROVE r \notin fieldWork[o].held
  <2>1. CASE PatchCommit(q)
    BY <1>0, <2>1 DEF PatchCommit, HoldsRows, RowsAreApart
  <2>2. CASE BulkCommit(q) BY <2>2 DEF BulkCommit, FreeRecords
  <2>3. QED BY <2>1, <2>2
<1>7. RecordsTypeOK' /\ ReferencesAreLinked'
      /\ \A s \in RecordIds \ {r} : bag'[s] = bag[s] /\ recordLinks'[s] = recordLinks[s]
  <2>1. fieldWork' \in [FieldRequests -> FieldTasks]
    BY <1>0, <1>1, IdleFieldTask DEF FieldGoes, RecordsTypeOK
  <2>2. CASE PatchCommit(q)
    <3>1. /\ bag' = [bag EXCEPT ![r] = doing.after]
          /\ recordLinks' = [recordLinks EXCEPT ![r] = (@ \ doing.stale)
                                                       \cup ToSet(doing.after[Ref])]
          /\ logged' = [logged EXCEPT ![r] = Diff(@, doing.before, doing.after)]
          /\ doing.pc = "patched"
      BY <2>2 DEF PatchCommit
    <3>2. doing.stale = recordLinks[r] BY <1>0, <3>1 DEF HoldsRows
    <3>3. bag'[r] = doing.after /\ recordLinks'[r] = ToSet(doing.after[Ref])
      BY <1>0, <1>2, <3>1, <3>2 DEF RecordsTypeOK
    <3>4. \A s \in RecordIds \ {r} : bag'[s] = bag[s] /\ recordLinks'[s] = recordLinks[s]
      BY <1>0, <3>1 DEF RecordsTypeOK
    <3>5. bag' \in [RecordIds -> Bags] /\ recordLinks' \in [RecordIds -> SUBSET Linkable]
          /\ logged' \in [RecordIds -> Bags]
      BY <1>0, <1>2, <1>3, <1>5, <3>1 DEF RecordsTypeOK
    <3>6. RecordsTypeOK' BY <1>0, <1>1, <2>1, <3>5 DEF RecordsTypeOK
    <3>7. ReferencesAreLinked' BY <1>1, <3>3, <3>4 DEF ReferencesAreLinked, RecordsInv
    <3>8. QED BY <3>4, <3>6, <3>7
  <2>3. CASE BulkCommit(q)
    <3>1. /\ recordLinks' = recordLinks
          /\ \/ /\ bag' = [bag EXCEPT ![r] = doing.after]
                /\ logged' = [logged EXCEPT ![r] = Diff(@, doing.before, doing.after)]
             \/ UNCHANGED <<bag, logged>>
          /\ doing.pc = "bulk"
      BY <2>3 DEF BulkCommit
    <3>2. bag' \in [RecordIds -> Bags] /\ logged' \in [RecordIds -> Bags]
      BY <1>0, <1>2, <1>3, <3>1 DEF RecordsTypeOK
    <3>3. \A s \in RecordIds \ {r} : bag'[s] = bag[s]
      BY <1>0, <3>1 DEF RecordsTypeOK
    <3>4. "bulk" \in fieldKinds BY <1>0, <3>1 DEF HoldsRows
    <3>5. RecordsTypeOK' BY <1>0, <1>1, <2>1, <3>1, <3>2 DEF RecordsTypeOK
    <3>6. ReferencesAreLinked' BY <1>1, <3>4 DEF ReferencesAreLinked
    <3>7. QED BY <3>1, <3>3, <3>5, <3>6
  <2>4. QED BY <2>2, <2>3
<1>8. liveRecords \subseteq RecordIds
      /\ \A o \in FieldRequests : fieldWork[o].held \subseteq liveRecords
  BY <1>0 DEF RecordsInv, HoldsRows, RecordsTypeOK
<1>9. QED
  BY <1>1, <1>6, <1>7, <1>8, IdleFieldTask, OneRequestGoesOn DEF HoldsRows, FreeRecords

(* The field is single: what is locked keeps its first value.              *)
LEMMA CollapseCommits ==
    ASSUME FieldConstants, RecordsInv, NEW q \in FieldRequests, CollapseCommit(q)
    PROVE  RecordsInv'
<1> DEFINE doing == fieldWork[q]
<1>0. /\ RecordsTypeOK /\ doing \in FieldTasks /\ HoldsRows(doing) /\ RowsAreApart
      /\ Ref \in Fields
  BY DEF RecordsInv, RecordsTypeOK, FieldConstants
<1>1. /\ doing.pc = "collapsed"
      /\ bag' = [r \in RecordIds |-> IF r \in doing.held THEN [bag[r] EXCEPT ![Ref] = First(@)]
                                     ELSE bag[r]]
      /\ recordLinks' = [r \in RecordIds |-> IF r \in doing.rows
                                             THEN ToSet(First(bag[r][Ref])) ELSE recordLinks[r]]
      /\ logged' = [r \in RecordIds |-> IF r \in doing.rows
                                        THEN [logged[r] EXCEPT ![Ref] = First(bag[r][Ref])]
                                        ELSE logged[r]]
      /\ isMulti' = FALSE /\ FieldGoes(q, NoFieldTask) /\ liveRecords' = liveRecords
      /\ fieldKinds' = fieldKinds
  BY DEF CollapseCommit, FieldGoes
<1>2. /\ "collapse" \in fieldKinds /\ doing.rows \subseteq doing.held
      /\ doing.held \subseteq liveRecords
      /\ \A r \in doing.held : bag[r][Ref] # <<>>
  BY <1>0, <1>1 DEF HoldsRows
<1>3. \A r \in RecordIds : bag[r] \in Bags /\ bag[r][Ref] \in FieldValues /\ logged[r] \in Bags
  BY <1>0 DEF RecordsTypeOK, Bags
<1>4. \A r \in doing.held : First(bag[r][Ref]) \in FieldValues
          /\ ToSet(First(bag[r][Ref])) \subseteq ToSet(bag[r][Ref])
          /\ ToSet(First(bag[r][Ref])) \subseteq Linkable
  <2>1. doing.held \subseteq RecordIds BY <1>0, FieldTaskShape
  <2>2. QED BY <1>2, <1>3, <2>1, ValuesRefer
<1>5. \A r \in RecordIds : r \in doing.held => bag'[r][Ref] = First(bag[r][Ref])
  BY <1>0, <1>1, <1>3 DEF Bags
<1>6. \A r \in RecordIds \ doing.held : bag'[r] = bag[r] /\ recordLinks'[r] = recordLinks[r]
  BY <1>1, <1>2
<1>7. RecordsTypeOK'
  <2>1. bag' \in [RecordIds -> Bags] /\ logged' \in [RecordIds -> Bags]
    BY <1>0, <1>1, <1>2, <1>3, <1>4 DEF Bags
  <2>2. recordLinks' \in [RecordIds -> SUBSET Linkable]
    BY <1>0, <1>1, <1>2, <1>4 DEF RecordsTypeOK
  <2>3. fieldWork' \in [FieldRequests -> FieldTasks]
    BY <1>0, <1>1, IdleFieldTask DEF FieldGoes, RecordsTypeOK
  <2>4. QED BY <1>0, <1>1, <2>1, <2>2, <2>3 DEF RecordsTypeOK
<1>8. ReferencesAreLinked'
  <2>1. ASSUME NEW r \in RecordIds, "bulk" \notin fieldKinds
        PROVE  ToSet(bag'[r][Ref]) \subseteq recordLinks'[r]
    <3>1. ToSet(bag[r][Ref]) \subseteq recordLinks[r]
      BY <2>1 DEF RecordsInv, ReferencesAreLinked
    <3>2. CASE r \in doing.rows BY <1>1, <1>2, <1>5, <3>2
    <3>3. CASE r \in doing.held \ doing.rows BY <1>1, <1>4, <1>5, <3>1, <3>3
    <3>4. CASE r \notin doing.held BY <1>6, <3>1, <3>4
    <3>5. QED BY <3>2, <3>3, <3>4
  <2>2. QED BY <1>1, <1>2, <2>1 DEF ReferencesAreLinked
<1>9. \A o \in FieldRequests \ {q} : \A r \in fieldWork[o].held :
          r \in RecordIds /\ r \in liveRecords /\ r \notin doing.held
  BY <1>0 DEF RecordsInv, HoldsRows, RecordsTypeOK, RowsAreApart
<1>10. QED
  BY <1>1, <1>6, <1>7, <1>8, <1>9, IdleFieldTask, OneRequestGoesOn DEF HoldsRows, FreeRecords

LEMMA RecordsStep ==
    ASSUME FieldConstants, RecordsInv, [RecordsNext]_recordVars PROVE RecordsInv'
<1>1. CASE UNCHANGED recordVars
  BY <1>1
  DEF recordVars, recordRows, RecordsInv, RecordsTypeOK, ReferencesAreLinked, RowsAreApart,
      HoldsRows
<1>2. CASE RecordsNext
  BY <1>2, CreateKeeps, RecordTrashKeeps, ReadsKeep, PatchCommits, CollapseCommits DEF RecordsNext
<1>3. QED BY <1>1, <1>2

LEMMA RecordsHold == FieldConstants => (RecordsSpec => []RecordsInv)
<1> SUFFICES ASSUME FieldConstants PROVE RecordsSpec => []RecordsInv OBVIOUS
<1>1. RecordsInit => RecordsInv BY RecordsStart
<1>2. RecordsInv /\ [RecordsNext]_recordVars => RecordsInv' BY RecordsStep
<1>3. QED BY <1>1, <1>2, PTL DEF RecordsSpec

(* Records, their values, links and history, and the requests on them keep *)
(* their types.                                                            *)
THEOREM RecordsTyped == FieldConstants => (RecordsSpec => []RecordsTypeOK)
<1>1. RecordsInv => RecordsTypeOK BY DEF RecordsInv
<1>2. QED BY <1>1, RecordsHold, PTL

(* What a record refers to can be found from the other side, and nothing   *)
(* else can, whatever is created, edited and trashed at once; bulk edits   *)
(* aside, and with what a change to a single value leaves (records.ts).    *)
THEOREM LinksFollowValues == FieldConstants => (RecordsSpec => []ReferencesAreLinked)
<1>1. RecordsInv => ReferencesAreLinked BY DEF RecordsInv
<1>2. QED BY <1>1, RecordsHold, PTL

(***************************************************************************)
(* The grid over them.                                                     *)
(***************************************************************************)

(* While an edit is under way, the other cells show what is stored, its    *)
(* own what the edit says; and what it would be taken back to is stored    *)
(* until the server has written it.                                        *)
Quiet == {"overlap", "lost", "replace"} \cap gridKinds = {}
Alone(q) == \A o \in FieldRequests \ {q} : flight[o].pc = "none"
Carries(sent, doing) ==
    /\ \A f \in Fields \ {sent.field} : cellValue(f) = bag[Cell][f]
    /\ edits[sent.field] = sent.value
    /\ sent.pc = "saved" => bag[Cell][sent.field] = sent.value
    /\ sent.pc # "saved" => bag[Cell][sent.field] = sent.prior
    /\ sent.pc = "served" =>
          /\ doing.pc \in {"patch", "patched"} /\ doing.record = Cell
          /\ doing.after = [bag[Cell] EXCEPT ![sent.field] = sent.value]

GridInv ==
    /\ RecordsInv /\ GridTypeOK
    /\ \A q \in FieldRequests : flight[q].pc # "served" => fieldWork[q].pc = "idle"
    /\ Quiet => /\ \A q \in FieldRequests : flight[q].pc # "none" =>
                      Alone(q) /\ Carries(flight[q], fieldWork[q])
                /\ InFlight = {} => \A f \in Fields : cellValue(f) = bag[Cell][f]

-----------------------------------------------------------------------------
LEMMA FlightShape ==
    ASSUME NEW sent \in Flights
    PROVE  /\ sent.pc \in {"none", "sent", "served", "saved", "failed"}
           /\ sent.pc # "none" =>
                 /\ sent.field \in Fields /\ sent.value \in FieldValues
                 /\ sent.prior \in FieldValues
BY DEF Flights

LEMMA FlightMoves ==
    ASSUME NEW sent \in Flights, sent.pc # "none",
           NEW pc \in {"sent", "served", "saved", "failed"}, NEW new, new = [sent EXCEPT !.pc = pc]
    PROVE  /\ new \in Flights /\ new.pc = pc /\ new.field = sent.field
           /\ new.value = sent.value /\ new.prior = sent.prior
BY DEF Flights

LEMMA NoFlightIs == NoFlight \in Flights /\ NoFlight.pc = "none" BY DEF NoFlight, Flights

LEMMA CellsHoldValues ==
    ASSUME GridConstants, GridTypeOK, NEW f \in Fields PROVE cellValue(f) \in FieldValues
BY DEF GridTypeOK, cellValue

(* The last of a stack is popped.                                          *)
LEMMA StackPops ==
    ASSUME NEW stack \in Seq(Replayable), stack # <<>>
    PROVE  Last(stack) \in Replayable /\ Front(stack) \in Seq(Replayable)
<1>1. Len(stack) \in Nat \ {0} BY EmptySeq
<1>2. Last(stack) \in Replayable BY <1>1 DEF Last
<1>3. Front(stack) \in Seq(Replayable)
  BY <1>1, SubSeqProperties DEF Front
<1>4. QED BY <1>2, <1>3

LEMMA GridStart == ASSUME GridConstants, RecordsInit, GridInit PROVE GridInv
<1>1. RecordsInv BY RecordsStart DEF GridConstants
<1>2. fetched \in [Fields -> FieldValues]
  BY <1>1 DEF GridInit, GridConstants, RecordsInv, RecordsTypeOK, Bags
<1>3. GridTypeOK BY <1>2, NoFlightIs DEF GridInit, GridTypeOK, GridConstants
<1>4. \A q \in FieldRequests : fieldWork[q].pc = "idle"
  BY IdleFieldTask DEF RecordsInit
<1>5. \A f \in Fields : cellValue(f) = bag[Cell][f] BY DEF GridInit, cellValue
<1>6. QED BY <1>1, <1>3, <1>4, <1>5, NoFlightIs DEF GridInv, GridInit

-----------------------------------------------------------------------------
(* An edit that is painted waits for the one before it.                    *)
LEMMA PaintKeeps ==
    ASSUME GridConstants, GridInv, NEW f \in Fields, NEW stored \in FieldValues,
           Paints(f, stored), GridTypeOK'
    PROVE  GridInv'
<1> DEFINE prior == cellValue(f)
<1>0. RecordsInv /\ GridTypeOK /\ Cell \in RecordIds BY DEF GridInv, GridConstants
<1>1. PICK q \in FieldRequests \ InFlight :
          /\ fieldWork[q].pc = "idle"
          /\ flight' = [flight EXCEPT ![q] = [pc |-> "sent", field |-> f, value |-> stored,
                                              prior |-> cellValue(f)]]
  BY DEF Paints
<1>2. /\ "overlap" \in gridKinds \/ InFlight = {}
      /\ edits' = [edits EXCEPT ![f] = stored] /\ gridKinds' = gridKinds /\ fetched' = fetched
      /\ UNCHANGED <<fieldKinds, isMulti, liveRecords, bag, recordLinks, logged, fieldWork>>
  BY DEF Paints, recordVars, recordRows
<1>3. RecordsInv'
  BY <1>0, <1>2
  DEF RecordsInv, RecordsTypeOK, ReferencesAreLinked, RowsAreApart, HoldsRows
<1>4. PICK new : new = [pc |-> "sent", field |-> f, value |-> stored, prior |-> prior] OBVIOUS
<1>5. \A o \in FieldRequests : flight'[o] = IF o = q THEN new ELSE flight[o]
  BY <1>0, <1>1, <1>4 DEF GridTypeOK
<1>6. \A o \in FieldRequests : flight'[o].pc # "served" => fieldWork'[o].pc = "idle"
  BY <1>1, <1>2, <1>4, <1>5 DEF GridInv
<1>7. ASSUME Quiet
      PROVE  /\ \A o \in FieldRequests : flight'[o].pc # "none" =>
                   Alone(o)' /\ Carries(flight[o], fieldWork[o])'
             /\ q \in InFlight'
  <2>1. InFlight = {} BY <1>2, <1>7 DEF Quiet
  <2>2. \A o \in FieldRequests : flight[o].pc = "none" BY <2>1 DEF InFlight
  <2>3. \A g \in Fields : cellValue(g) = bag[Cell][g] BY <1>7, <2>1 DEF GridInv
  <2>4. \A g \in Fields \ {f} : cellValue(g)' = bag'[Cell][g]
    BY <1>0, <1>2, <2>3 DEF cellValue, GridTypeOK
  <2>5. edits'[f] = stored BY <1>0, <1>2 DEF GridTypeOK
  <2>6. bag'[Cell][f] = prior BY <1>2, <2>3
  <2>7. Carries(flight[q], fieldWork[q])'
    BY <1>4, <1>5, <2>4, <2>5, <2>6 DEF Carries
  <2>8. QED BY <1>4, <1>5, <2>2, <2>7 DEF Alone, InFlight
<1>8. QED BY <1>2, <1>3, <1>6, <1>7 DEF GridInv, Quiet

LEMMA GridEditKeeps ==
    ASSUME GridConstants, GridInv,
           (\E f \in Fields, value \in FieldValues : Edit(f, value)) \/ Undo \/ Redo
    PROVE  GridInv'
<1>0. GridTypeOK /\ MaxEdits \in Nat /\ MaxReplays \in Nat BY DEF GridInv, GridConstants
<1>1. ASSUME NEW f \in Fields, NEW stored \in FieldValues, Paints(f, stored),
             undoStack' \in Seq(Replayable), redoStack' \in Seq(Replayable),
             editCount' \in 0..MaxEdits, replayed' \in 0..MaxReplays
      PROVE  GridInv'
  <2>1. PICK q \in FieldRequests :
           flight' = [flight EXCEPT ![q] = [pc |-> "sent", field |-> f, value |-> stored,
                                            prior |-> cellValue(f)]]
    BY <1>1 DEF Paints
  <2>2. [pc |-> "sent", field |-> f, value |-> stored, prior |-> cellValue(f)] \in Flights
    BY <1>0, CellsHoldValues DEF Flights
  <2>3. flight' \in [FieldRequests -> Flights] BY <1>0, <2>1, <2>2 DEF GridTypeOK
  <2>4. GridTypeOK' BY <1>0, <1>1, <2>3 DEF GridTypeOK, Paints
  <2>5. QED BY <1>1, <2>4, PaintKeeps
<1>2. ASSUME NEW f \in Fields, NEW value \in FieldValues, Edit(f, value) PROVE GridInv'
  <2>1. PICK entry : entry = [field |-> f, before |-> cellValue(f), after |-> value] OBVIOUS
  <2>2. entry \in Replayable BY <1>0, <2>1, CellsHoldValues DEF Replayable
  <2>3. Append(undoStack, entry) \in Seq(Replayable) /\ <<>> \in Seq(Replayable)
    BY <1>0, <2>2 DEF GridTypeOK
  <2>4. \/ undoStack' = Append(undoStack, entry) /\ redoStack' = <<>>
        \/ undoStack' = undoStack /\ redoStack' = redoStack
    BY <1>2, <2>1 DEF Edit
  <2>5. undoStack' \in Seq(Replayable) /\ redoStack' \in Seq(Replayable)
    BY <1>0, <2>3, <2>4 DEF GridTypeOK
  <2>6. QED BY <1>0, <1>1, <1>2, <2>5 DEF Edit, GridTypeOK
<1>3. CASE Undo
  <2>1. undoStack # <<>> /\ undoStack \in Seq(Replayable)
    BY <1>0, <1>3 DEF Undo, Replays, GridTypeOK
  <2>2. Last(undoStack) \in Replayable /\ Front(undoStack) \in Seq(Replayable)
    BY <2>1, StackPops
  <2>3. Last(undoStack).field \in Fields /\ Last(undoStack).before \in FieldValues
    BY <2>2 DEF Replayable
  <2>4. QED BY <1>0, <1>1, <1>3, <2>2, <2>3 DEF Undo, Replays, GridTypeOK
<1>4. CASE Redo
  <2>1. redoStack # <<>> /\ redoStack \in Seq(Replayable)
    BY <1>0, <1>4 DEF Redo, Replays, GridTypeOK
  <2>2. Last(redoStack) \in Replayable /\ Front(redoStack) \in Seq(Replayable)
    BY <2>1, StackPops
  <2>3. Last(redoStack).field \in Fields /\ Last(redoStack).after \in FieldValues
    BY <2>2 DEF Replayable
  <2>4. QED BY <1>0, <1>1, <1>4, <2>2, <2>3 DEF Redo, Replays, GridTypeOK
<1>5. QED BY <1>2, <1>3, <1>4

(* Find and replace paints cells, and sends nothing: no claim is made.     *)
LEMMA ReplaceKeeps ==
    ASSUME GridConstants, GridInv, NEW matches \in SUBSET Fields, NEW value \in FieldValues,
           ReplaceCells(matches, value)
    PROVE  GridInv'
<1>1. /\ "replace" \in gridKinds
      /\ edits' = [f \in Fields |-> IF f \in matches THEN value ELSE edits[f]]
      /\ UNCHANGED <<gridKinds, fetched, undoStack, redoStack, editCount, replayed, flight>>
      /\ UNCHANGED <<fieldKinds, isMulti, liveRecords, bag, recordLinks, logged, fieldWork>>
  BY DEF ReplaceCells, recordVars, recordRows
<1>2. RecordsInv'
  BY <1>1
  DEF GridInv, RecordsInv, RecordsTypeOK, ReferencesAreLinked, RowsAreApart, HoldsRows
<1>3. GridTypeOK' BY <1>1 DEF GridInv, GridTypeOK
<1>4. QED BY <1>1, <1>2, <1>3 DEF GridInv, Quiet

(* The request of an edit goes on: who is in flight stays, and what it     *)
(* carries fits.                                                           *)
LEMMA FlightGoesOn ==
    ASSUME GridConstants, GridInv, NEW q \in FieldRequests, NEW new \in Flights,
           flight[q].pc # "none", flight' = [flight EXCEPT ![q] = new],
           RecordsInv', UNCHANGED <<gridKinds, gridScreen>>,
           \A o \in FieldRequests \ {q} : fieldWork'[o] = fieldWork[o],
           new.pc # "none", new.pc # "served" => fieldWork'[q].pc = "idle",
           Quiet => Carries(new, fieldWork[q])'
    PROVE  GridInv'
<1>1. GridTypeOK BY DEF GridInv
<1>2. \A o \in FieldRequests : flight'[o] = IF o = q THEN new ELSE flight[o]
  BY <1>1 DEF GridTypeOK
<1>3. GridTypeOK' BY <1>1 DEF GridTypeOK, gridScreen
<1>4. \A o \in FieldRequests : flight'[o].pc # "served" => fieldWork'[o].pc = "idle"
  BY <1>2 DEF GridInv
<1>5. ASSUME Quiet
      PROVE  /\ \A o \in FieldRequests : flight'[o].pc # "none" =>
                   Alone(o)' /\ Carries(flight[o], fieldWork[o])'
             /\ q \in InFlight'
  <2>1. \A o \in FieldRequests \ {q} : flight[o].pc = "none" BY <1>5 DEF GridInv, Alone
  <2>2. Carries(flight[q], fieldWork[q])' BY <1>2, <1>5 DEF Carries
  <2>3. QED BY <1>2, <2>1, <2>2 DEF Alone, InFlight
<1>6. QED BY <1>3, <1>4, <1>5 DEF GridInv, Quiet, gridScreen

LEMMA ArrivalKeeps ==
    ASSUME GridConstants, GridInv, NEW q \in FieldRequests, Arrives(q) \/ Fails(q)
    PROVE  GridInv'
<1> DEFINE sent == flight[q]
<1>0. /\ RecordsInv /\ GridTypeOK /\ FieldConstants /\ Cell \in RecordIds
      /\ sent \in Flights /\ fieldWork \in [FieldRequests -> FieldTasks]
  BY DEF GridInv, GridConstants, GridTypeOK, RecordsInv, RecordsTypeOK
<1>1. sent.pc = "sent" /\ UNCHANGED <<gridKinds, gridScreen>> /\ UNCHANGED recordRows
  BY DEF Arrives, Fails, FlightGoes, recordVars, PatchRead, FieldStarts
<1>2. sent.field \in Fields /\ sent.value \in FieldValues BY <1>0, <1>1, FlightShape
<1>3. PICK pc \in {"served", "failed"} :
          /\ flight' = [flight EXCEPT ![q].pc = pc]
          /\ \/ pc = "served" /\ PatchRead(q, Cell, sent.field, sent.value)
             \/ pc = "failed" /\ UNCHANGED recordVars
  BY DEF Arrives, Fails, FlightGoes
<1>4. PICK new : new = [sent EXCEPT !.pc = pc] OBVIOUS
<1>5. /\ flight' = [flight EXCEPT ![q] = new]
      /\ new \in Flights /\ new.pc = pc /\ new.field = sent.field /\ new.value = sent.value
      /\ new.prior = sent.prior
  <2>1. flight' = [flight EXCEPT ![q] = new] BY <1>0, <1>3, <1>4 DEF GridTypeOK
  <2>2. pc \in {"sent", "served", "saved", "failed"} /\ sent.pc # "none" BY <1>1
  <2>3. QED BY <1>0, <1>4, <2>1, <2>2, FlightMoves
<1>6. RecordsInv'
  <2>1. CASE UNCHANGED recordVars BY <1>0, <2>1, RecordsStep
  <2>2. CASE PatchRead(q, Cell, sent.field, sent.value) BY <1>0, <1>2, <2>2, ReadsKeep
  <2>3. QED BY <1>3, <2>1, <2>2
<1>7. \A o \in FieldRequests \ {q} : fieldWork'[o] = fieldWork[o]
  BY <1>0, <1>3 DEF PatchRead, FieldStarts, FieldGoes, recordVars
<1>8. /\ pc = "failed" => fieldWork'[q].pc = "idle"
      /\ pc = "served" => fieldWork'[q] = [pc |-> "patch", record |-> Cell, held |-> {},
             before |-> bag[Cell], after |-> [bag[Cell] EXCEPT ![sent.field] = sent.value]]
  <2>1. fieldWork[q].pc = "idle" BY <1>1 DEF GridInv
  <2>2. QED BY <1>0, <1>3, <2>1 DEF PatchRead, FieldStarts, FieldGoes, recordVars
<1>9. Quiet => Carries(new, fieldWork[q])'
  <2>1. Quiet => Carries(sent, fieldWork[q]) BY <1>1 DEF GridInv
  <2>2. QED BY <1>1, <1>5, <1>8, <2>1 DEF Carries, cellValue, gridScreen, recordRows
<1>10. QED BY <1>1, <1>3, <1>5, <1>6, <1>7, <1>8, <1>9, FlightGoesOn

LEMMA ServingKeeps ==
    ASSUME GridConstants, GridInv, NEW q \in FieldRequests, Serves(q) PROVE GridInv'
<1> DEFINE sent == flight[q]
           doing == fieldWork[q]
<1>0. /\ RecordsInv /\ GridTypeOK /\ FieldConstants /\ Cell \in RecordIds
      /\ sent \in Flights /\ fieldWork \in [FieldRequests -> FieldTasks]
      /\ bag \in [RecordIds -> Bags]
  BY DEF GridInv, GridConstants, GridTypeOK, RecordsInv, RecordsTypeOK
<1>1. sent.pc = "served" BY DEF Serves
<1>2. sent.field \in Fields /\ sent.value \in FieldValues BY <1>0, <1>1, FlightShape
<1>3. Quiet => Carries(sent, doing) BY <1>1 DEF GridInv
<1>4. CASE PatchLock(q) /\ UNCHANGED gridVars
  <2>0. PICK new \in Flights : new = sent BY <1>0
  <2>1. RecordsInv' BY <1>0, <1>4, ReadsKeep
  <2>2. flight' = [flight EXCEPT ![q] = new] /\ UNCHANGED <<gridKinds, gridScreen>>
    BY <1>0, <1>4, <2>0 DEF gridVars, GridTypeOK
  <2>3. /\ doing.pc = "patch" /\ UNCHANGED recordRows
        /\ fieldWork' = [fieldWork EXCEPT ![q] =
              [pc |-> "patched", record |-> doing.record, held |-> {doing.record},
               before |-> doing.before, after |-> doing.after,
               stale |-> recordLinks[doing.record]]]
    BY <1>4 DEF PatchLock, FieldGoes
  <2>4. \A o \in FieldRequests \ {q} : fieldWork'[o] = fieldWork[o] BY <1>0, <2>3
  <2>5. /\ fieldWork'[q].pc = "patched" /\ fieldWork'[q].record = doing.record
        /\ fieldWork'[q].after = doing.after
    BY <1>0, <2>3
  <2>6. Quiet => Carries(new, fieldWork[q])'
    BY <1>1, <1>3, <2>0, <2>2, <2>3, <2>5 DEF Carries, cellValue, gridScreen, recordRows
  <2>7. QED BY <1>0, <1>1, <2>0, <2>1, <2>2, <2>4, <2>6, FlightGoesOn
<1>5. ASSUME PatchVanishes(q) \/ PatchCommit(q), NEW pc \in {"saved", "failed"},
             FlightGoes(q, pc), Quiet => (pc = "saved" <=> PatchCommit(q)),
             Quiet => (pc = "failed" <=> PatchVanishes(q))
      PROVE  GridInv'
  <2>1. PICK new : new = [sent EXCEPT !.pc = pc] OBVIOUS
  <2>2. flight' = [flight EXCEPT ![q] = new] /\ UNCHANGED <<gridKinds, gridScreen>>
    BY <1>0, <1>5, <2>1 DEF GridTypeOK, FlightGoes
  <2>3. /\ new \in Flights /\ new.pc = pc /\ new.field = sent.field /\ new.value = sent.value
        /\ new.prior = sent.prior
    BY <1>0, <1>1, <1>5, <2>1, FlightMoves
  <2>4. RecordsInv' BY <1>0, <1>5, ReadsKeep, PatchCommits
  <2>5. FieldGoes(q, NoFieldTask) BY <1>5 DEF PatchVanishes, PatchCommit
  <2>6. \A o \in FieldRequests \ {q} : fieldWork'[o] = fieldWork[o]
    BY <1>0, <2>5 DEF FieldGoes
  <2>7. fieldWork'[q].pc = "idle" BY <1>0, <2>5, IdleFieldTask DEF FieldGoes
  <2>8. ASSUME Quiet PROVE Carries(new, fieldWork[q])'
    <3>1. \A f \in Fields : cellValue(f)' = cellValue(f)
      BY <2>2 DEF cellValue, gridScreen
    <3>2. edits' = edits BY <2>2 DEF gridScreen
    <3>3. CASE PatchVanishes(q)
      <4>1. bag' = bag BY <3>3 DEF PatchVanishes, recordRows
      <4>2. QED BY <1>1, <1>3, <1>5, <2>3, <2>8, <3>1, <3>2, <3>3, <4>1 DEF Carries
    <3>4. CASE PatchCommit(q)
      <4>1. doing.record = Cell /\ doing.after = [bag[Cell] EXCEPT ![sent.field] = sent.value]
        BY <1>1, <1>3, <2>8 DEF Carries
      <4>2. bag'[Cell] = doing.after BY <1>0, <3>4, <4>1 DEF PatchCommit
      <4>3. bag'[Cell][sent.field] = sent.value
            /\ \A f \in Fields \ {sent.field} : bag'[Cell][f] = bag[Cell][f]
        BY <1>0, <1>2, <4>1, <4>2 DEF Bags
      <4>4. QED BY <1>3, <1>5, <2>3, <2>8, <3>1, <3>2, <3>4, <4>3 DEF Carries
    <3>5. QED BY <1>5, <3>3, <3>4
  <2>9. QED BY <1>1, <1>5, <2>2, <2>3, <2>4, <2>6, <2>7, <2>8, FlightGoesOn
<1>6. doing.pc = "patch" /\ PatchVanishes(q) => ~PatchCommit(q) BY DEF PatchCommit
<1>7. CASE PatchVanishes(q) /\ FlightGoes(q, "failed")
  BY <1>5, <1>6, <1>7 DEF PatchVanishes
<1>8. CASE PatchCommit(q) /\ \E pc \in {"saved"} \cup {"failed" : k \in gridKinds \cap {"lost"}} :
                                FlightGoes(q, pc)
  <2>1. PICK pc \in {"saved", "failed"} : FlightGoes(q, pc) /\ (Quiet => pc = "saved")
    BY <1>8 DEF Quiet
  <2>2. ~PatchVanishes(q) BY <1>8 DEF PatchVanishes, PatchCommit
  <2>3. QED BY <1>5, <1>8, <2>1, <2>2
<1>9. QED BY <1>4, <1>7, <1>8 DEF Serves

(* What has landed shows what is stored: an edit that was saved stays, one *)
(* that failed is taken back.                                              *)
LEMMA LandingKeeps ==
    ASSUME GridConstants, GridInv, NEW q \in FieldRequests, Lands(q) PROVE GridInv'
<1> DEFINE sent == flight[q]
<1>0. /\ RecordsInv /\ GridTypeOK /\ sent \in Flights /\ Untouched \notin FieldValues
  BY DEF GridInv, GridConstants, GridTypeOK
<1>1. /\ sent.pc \in {"saved", "failed"} /\ flight' = [flight EXCEPT ![q] = NoFlight]
      /\ sent.pc = "saved" => edits' = edits
      /\ sent.pc = "failed" => edits' = [edits EXCEPT ![sent.field] = sent.prior]
      /\ UNCHANGED <<gridKinds, fetched, undoStack, redoStack, editCount, replayed>>
      /\ UNCHANGED <<fieldKinds, isMulti, liveRecords, bag, recordLinks, logged, fieldWork>>
  BY DEF Lands, recordVars, recordRows
<1>2. RecordsInv'
  BY <1>0, <1>1
  DEF RecordsInv, RecordsTypeOK, ReferencesAreLinked, RowsAreApart, HoldsRows
<1>3. sent.field \in Fields /\ sent.prior \in FieldValues /\ sent.value \in FieldValues
  BY <1>0, <1>1, FlightShape
<1>4. /\ edits' \in [Fields -> FieldValues \cup {Untouched}]
      /\ flight' \in [FieldRequests -> Flights]
  BY <1>0, <1>1, <1>3, NoFlightIs DEF GridTypeOK
<1>5. GridTypeOK' BY <1>0, <1>1, <1>4 DEF GridTypeOK
<1>6. \A o \in FieldRequests : flight'[o] = IF o = q THEN NoFlight ELSE flight[o]
  BY <1>0, <1>1 DEF GridTypeOK
<1>7. fieldWork[q].pc = "idle" BY <1>1 DEF GridInv
<1>8. \A o \in FieldRequests : flight'[o].pc # "served" => fieldWork'[o].pc = "idle"
  BY <1>1, <1>6, <1>7 DEF GridInv
<1>9. ASSUME Quiet
      PROVE  /\ \A o \in FieldRequests : flight'[o].pc = "none"
             /\ \A f \in Fields : cellValue(f)' = bag'[Cell][f]
  <2>1. Alone(q) /\ Carries(sent, fieldWork[q]) BY <1>1, <1>9 DEF GridInv
  <2>2. \A f \in Fields \ {sent.field} : cellValue(f)' = bag'[Cell][f]
    BY <1>0, <1>1, <2>1 DEF Carries, cellValue, GridTypeOK
  <2>3. PICK f \in Fields : f = sent.field BY <1>3
  <2>4. cellValue(f)' = bag'[Cell][f]
    <3>1. CASE sent.pc = "saved"
      <4>1. edits'[f] = sent.value /\ bag'[Cell][f] = sent.value
        BY <1>1, <2>1, <2>3, <3>1 DEF Carries
      <4>2. QED BY <1>0, <1>3, <4>1 DEF cellValue
    <3>2. CASE sent.pc = "failed"
      <4>1. edits'[f] = sent.prior /\ bag'[Cell][f] = sent.prior
        BY <1>0, <1>1, <1>3, <2>1, <2>3, <3>2 DEF Carries, GridTypeOK
      <4>2. QED BY <1>0, <1>3, <4>1 DEF cellValue
    <3>3. QED BY <1>1, <3>1, <3>2
  <2>5. QED BY <1>6, <2>1, <2>2, <2>3, <2>4, NoFlightIs DEF Alone
<1>10. QED BY <1>1, <1>2, <1>5, <1>8, <1>9 DEF GridInv, Quiet

LEMMA GridStays ==
    ASSUME GridInv, RecordsInv', UNCHANGED gridVars, bag' = bag, fieldWork' = fieldWork
    PROVE  GridInv'
<1>1. UNCHANGED <<gridKinds, fetched, edits, undoStack, redoStack, editCount, replayed, flight>>
  BY DEF gridVars, gridScreen
<1>2. GridTypeOK' BY <1>1 DEF GridInv, GridTypeOK
<1>3. /\ \A f \in Fields : cellValue(f)' = cellValue(f)
      /\ InFlight' = InFlight /\ \A q \in FieldRequests : Alone(q)' <=> Alone(q)
  BY <1>1 DEF cellValue, InFlight, Alone
<1>4. \A q \in FieldRequests :
          Carries(flight[q], fieldWork[q]) => Carries(flight[q], fieldWork[q])'
  BY <1>1, <1>3 DEF Carries
<1>5. \A q \in FieldRequests : flight'[q].pc # "served" => fieldWork'[q].pc = "idle"
  BY <1>1 DEF GridInv
<1>6. ASSUME Quiet
      PROVE  /\ \A q \in FieldRequests : flight'[q].pc # "none" =>
                   Alone(q)' /\ Carries(flight[q], fieldWork[q])'
             /\ InFlight' = {} => \A f \in Fields : cellValue(f)' = bag'[Cell][f]
  <2>1. /\ \A q \in FieldRequests : flight[q].pc # "none" =>
              Alone(q) /\ Carries(flight[q], fieldWork[q])
        /\ InFlight = {} => \A f \in Fields : cellValue(f) = bag[Cell][f]
    BY <1>6 DEF GridInv
  <2>2. QED BY <1>1, <1>3, <1>4, <2>1
<1>7. QED BY <1>1, <1>2, <1>5, <1>6 DEF GridInv, Quiet

LEMMA GridStep ==
    ASSUME GridConstants, GridInv, [GridNext]_<<recordVars, gridVars>> PROVE GridInv'
<1>1. CASE UNCHANGED <<recordVars, gridVars>>
  <2>1. RecordsInv' BY <1>1, RecordsStep DEF GridInv, GridConstants
  <2>2. QED BY <1>1, <2>1, GridStays DEF recordVars, recordRows
<1>2. CASE Trash(Cell) /\ UNCHANGED gridVars
  <2>1. RecordsInv' BY <1>2, RecordTrashKeeps DEF GridInv, GridConstants
  <2>2. QED BY <1>2, <2>1, GridStays DEF Trash
<1>3. CASE GridNext /\ ~(Trash(Cell) /\ UNCHANGED gridVars)
  BY <1>3, GridEditKeeps, ReplaceKeeps, ArrivalKeeps, ServingKeeps, LandingKeeps DEF GridNext
<1>4. QED BY <1>1, <1>2, <1>3

LEMMA GridHolds == GridConstants => (GridSpec => []GridInv)
<1> SUFFICES ASSUME GridConstants PROVE GridSpec => []GridInv OBVIOUS
<1>1. RecordsInit /\ GridInit => GridInv BY GridStart
<1>2. GridInv /\ [GridNext]_<<recordVars, gridVars>> => GridInv' BY GridStep
<1>3. QED BY <1>1, <1>2, PTL DEF GridSpec

(* What the grid keeps, its stacks and its requests keep their types.      *)
THEOREM GridTyped == GridConstants => (GridSpec => [](RecordsTypeOK /\ GridTypeOK))
<1>1. GridInv => RecordsTypeOK /\ GridTypeOK BY DEF GridInv, RecordsInv
<1>2. QED BY <1>1, GridHolds, PTL

(* With nothing in flight the grid shows what the server holds, whatever   *)
(* was edited, refused, undone and redone, as long as each waits for the   *)
(* one before (RecordGrid.tsx); and the links are still those of the value.*)
THEOREM GridIsTrue ==
    GridConstants => (GridSpec => [](ReferencesAreLinked /\ GridShowsStored))
<1>1. GridInv => ReferencesAreLinked /\ GridShowsStored
  BY DEF GridInv, RecordsInv, GridShowsStored, Quiet
<1>2. QED BY <1>1, GridHolds, PTL

(***************************************************************************)
(* The phones of a person: that requests about them which do not see each  *)
(* other's row leave them in one contiguous order, the first one primary.  *)
(***************************************************************************)

(* Phones that are not both added and removed, and what a transaction      *)
(* wrote of them.                                                          *)
Ordered == table = "phones" /\ ~({"post", "delete"} \subseteq contactKinds)
Size == Cardinality(DOMAIN contacts)
Wrote(task) == DOMAIN task.mine \cup task.dropped
HoldsNothing(task) == Wrote(task) = {} /\ task.barred = {}

(* A transaction that has written keeps the place of its row, adds one at  *)
(* the end, drops one, or comes too late for one that is gone; and once it *)
(* has shifted the order every row is its own.                             *)
Keeps(task) ==
    /\ task.dropped = {} /\ DOMAIN task.mine = {task.row} /\ task.row \in DOMAIN contacts
    /\ task.mine[task.row].position = contacts[task.row].position /\ task.barred = {}
Adds(task) ==
    /\ "post" \in contactKinds
    /\ task.dropped = {} /\ DOMAIN task.mine = {task.row} /\ task.row \notin DOMAIN contacts
    /\ task.mine[task.row].position = Size /\ task.barred = {Size}
Drops(task) ==
    /\ "delete" \in contactKinds
    /\ DOMAIN task.mine = {} /\ task.dropped = {task.row} /\ task.row \in DOMAIN contacts
Missed(task) ==
    /\ task.op = "patch" /\ "delete" \in contactKinds /\ task.row \notin DOMAIN contacts
    /\ task.dropped = {} /\ DOMAIN task.mine \subseteq DOMAIN contacts
    /\ DOMAIN task.mine = {} => task.barred = {}
OwnsAll(task) ==
    /\ DOMAIN contacts \subseteq Wrote(task) /\ Wrote(task) # {}
    /\ IF "post" \in contactKinds THEN Size \in task.barred ELSE Wrote(task) \subseteq DOMAIN contacts
    /\ task.dropped # {} => "delete" \in contactKinds

(* What it found is an order of the rows it sees, the chosen one first.    *)
IsOrder(order, chosen) ==
    /\ chosen \in DOMAIN order
    /\ \A i \in DOMAIN order : order[i] \in 0..Cardinality(DOMAIN order) - 1
    /\ \A i, j \in DOMAIN order : order[i] = order[j] => i = j
    /\ order[chosen] = 0
Found(task) == DOMAIN task.order = DOMAIN Seen(task) /\ IsOrder(task.order, task.chosen)

(* What a transaction has, up to each of its statements.                   *)
Before(task) ==
    /\ task.pc \in {"idle", "insert", "update"} /\ HoldsNothing(task)
    /\ task.pc = "insert" => "post" \in contactKinds /\ task.last + 1 \in 0..Size
    /\ task.pc = "update" => task.op = "patch" /\ (task.row \in DOMAIN contacts \/ "delete" \in contactKinds)
During(task) ==
    /\ task.pc \in {"find", "shift", "shifting"} /\ (Keeps(task) \/ Adds(task) \/ Drops(task))
    /\ task.pc # "find" => Found(task)
    /\ task.pc = "shifting" => task.seen = DOMAIN Seen(task)
After(task) ==
    /\ task.pc \in {"arrange", "commit"} /\ OwnsAll(task)
    /\ task.pc = "arrange" => Found(task) /\ DOMAIN task.mine = DOMAIN Seen(task)
    /\ task.pc = "commit" => InOrder(Seen(task))
InVain(task) == task.pc \in {"find", "shift", "shifting", "arrange", "commit"} /\ Missed(task)

OrderFits(task) == Before(task) \/ During(task) \/ After(task) \/ InVain(task)
(* No two write the same row, or add at the same place.                    *)
OrderInv ==
    Ordered =>
        /\ InOrder(contacts)
        /\ \A q \in ContactRequests : OrderFits(contactWork[q])
        /\ \A q, o \in ContactRequests : q # o => Wrote(contactWork[q]) \cap Wrote(contactWork[o]) = {}
        /\ "post" \in contactKinds =>
              \A q, o \in ContactRequests :
                 Size \in contactWork[q].barred \cap contactWork[o].barred => q = o

-----------------------------------------------------------------------------
(* Rows, committed and written.                                            *)
LEMMA OverIs ==
    ASSUME NEW T, NEW new, NEW old, OfSome(new, T), OfSome(old, T)
    PROVE  /\ OfSome(Over(new, old), T) /\ DOMAIN Over(new, old) = DOMAIN new \cup DOMAIN old
           /\ \A i \in DOMAIN new : Over(new, old)[i] = new[i]
           /\ \A i \in DOMAIN old \ DOMAIN new : Over(new, old)[i] = old[i]
<1>1. /\ DOMAIN Over(new, old) = DOMAIN new \cup DOMAIN old
      /\ \A i \in DOMAIN new : Over(new, old)[i] = new[i]
      /\ \A i \in DOMAIN old \ DOMAIN new : Over(new, old)[i] = old[i]
  BY DEF Over
<1>2. Over(new, old) \in [DOMAIN new \cup DOMAIN old -> T] BY DEF Over, OfSome
<1>3. QED BY <1>1, <1>2 DEF OfSome

LEMMA SeenIs ==
    ASSUME ContactsTypeOK, NEW task, ContactTaskOK(task)
    PROVE  /\ OfSome(Seen(task), ContactRows)
           /\ DOMAIN Seen(task) = (DOMAIN contacts \ task.dropped) \cup DOMAIN task.mine
           /\ \A i \in DOMAIN task.mine : Seen(task)[i] = task.mine[i]
           /\ \A i \in DOMAIN contacts \ (task.dropped \cup DOMAIN task.mine) :
                 Seen(task)[i] = contacts[i]
<1>1. OfSome(contacts, ContactRows) /\ OfSome(task.mine, ContactRows)
  BY DEF ContactsTypeOK, ContactTaskOK
<1>2. DOMAIN Seen(task) = (DOMAIN contacts \ task.dropped) \cup DOMAIN task.mine
  BY DEF Seen, Over
<1>3. \A i \in DOMAIN task.mine : Seen(task)[i] = task.mine[i] BY DEF Seen, Over
<1>4. \A i \in DOMAIN contacts \ (task.dropped \cup DOMAIN task.mine) : Seen(task)[i] = contacts[i]
  BY DEF Seen, Over
<1>5. Seen(task) = [i \in DOMAIN Seen(task) |-> Seen(task)[i]] BY DEF Seen, Over
<1>6. ASSUME NEW i \in DOMAIN Seen(task) PROVE Seen(task)[i] \in ContactRows
  BY <1>1, <1>2, <1>3, <1>4, <1>6 DEF OfSome
<1>7. DOMAIN Seen(task) \subseteq ContactIds BY <1>1, <1>2 DEF OfSome
<1>8. QED BY <1>2, <1>3, <1>4, <1>5, <1>6, <1>7 DEF OfSome

(* A set of naturals has a least number, and a finite one a greatest.      *)
LEMMA LeastOf ==
    ASSUME NEW S \in SUBSET Nat, S # {}
    PROVE  \E m \in S : \A n \in S : m <= n
<1>1. IsWellFoundedOn(OpToRel(<, Nat), Nat) BY NatLessThanWellFounded
<1>2. PICK m \in S : \A n \in S : ~(<<n, m>> \in OpToRel(<, Nat)) BY <1>1, WFMin
<1>3. \A n \in S : ~(n < m) BY <1>2 DEF OpToRel
<1>4. QED BY <1>3

LEMMA GreatestOf ==
    ASSUME NEW S \in SUBSET Nat, IsFiniteSet(S), S # {}
    PROVE  \E m \in S : \A n \in S : n <= m
<1> DEFINE above(i) == {j \in S : j > i}
           sizes == {Cardinality(above(i)) : i \in S}
<1>1. \A i \in S : IsFiniteSet(above(i)) /\ Cardinality(above(i)) \in Nat
  BY FS_Subset, FS_CardinalityType
<1>2. sizes \in SUBSET Nat /\ sizes # {} BY <1>1
<1>3. PICK m \in S : \A n \in S : Cardinality(above(m)) <= Cardinality(above(n))
  <2>1. PICK k \in sizes : \A l \in sizes : k <= l
    <3> HIDE DEF sizes
    <3>1. QED BY <1>2, LeastOf
  <2>2. QED BY <2>1
<1>4. ASSUME NEW n \in S, n > m PROVE FALSE
  <2>1. ASSUME NEW j \in above(n) PROVE j \in above(m)
    <3>1. j \in S /\ j > n /\ j \in Nat /\ n \in Nat /\ m \in Nat BY <2>1
    <3>2. QED BY <1>4, <3>1
  <2>2. n \in above(m) /\ n \notin above(n) BY <1>4
  <2>3. above(n) \in SUBSET above(m) /\ above(n) # above(m) BY <2>1, <2>2
  <2>4. /\ Cardinality(above(n)) <= Cardinality(above(m))
        /\ Cardinality(above(n)) # Cardinality(above(m))
    <3> HIDE DEF above
    <3>1. QED BY <1>1, <2>3, FS_Subset
  <2>5. Cardinality(above(n)) \in Nat /\ Cardinality(above(m)) \in Nat BY <1>1
  <2>6. QED BY <1>3, <2>4, <2>5
<1>5. QED BY <1>4

LEMMA PlacesAre ==
    ASSUME ContactConstants, NEW rows, OfSome(rows, ContactRows)
    PROVE  /\ Places(rows) \in SUBSET Nat /\ IsFiniteSet(Places(rows))
           /\ IsFiniteSet(DOMAIN rows) /\ Cardinality(DOMAIN rows) \in Nat
           /\ \A i \in DOMAIN rows : rows[i].position \in Nat /\ rows[i].isPrimary \in BOOLEAN
           /\ LastPlace(rows) \in Nat \cup {-1}
<1>1. IsFiniteSet(DOMAIN rows) /\ Cardinality(DOMAIN rows) \in Nat
  BY FS_Subset, FS_CardinalityType DEF ContactConstants, OfSome
<1>2. \A i \in DOMAIN rows : rows[i].position \in Nat /\ rows[i].isPrimary \in BOOLEAN
  BY DEF OfSome, ContactRows
<1>3. Places(rows) \in SUBSET Nat BY <1>2 DEF Places
<1>4. IsFiniteSet(Places(rows))
  <2>1. PICK f : f = [i \in DOMAIN rows |-> rows[i].position] OBVIOUS
  <2>2. f \in Surjection(DOMAIN rows, Places(rows)) BY <2>1 DEF Surjection, Places
  <2>3. QED BY <1>1, <2>2, FS_Surjection
<1>5. LastPlace(rows) \in Nat \cup {-1}
  <2>1. CASE DOMAIN rows = {} BY <2>1 DEF LastPlace
  <2>2. CASE DOMAIN rows # {}
    <3>1. Places(rows) # {} BY <2>2 DEF Places
    <3>2. \E p \in Places(rows) : \A o \in Places(rows) : o <= p BY <1>3, <1>4, <3>1, GreatestOf
    <3>3. LastPlace(rows) \in Places(rows) BY <2>2, <3>2 DEF LastPlace
    <3>4. QED BY <1>3, <3>3
  <2>3. QED BY <2>1, <2>2
<1>6. QED BY <1>1, <1>2, <1>3, <1>4, <1>5

LEMMA ForemostIs ==
    ASSUME NEW rows, OfSome(rows, ContactRows), NEW S \in SUBSET DOMAIN rows, S # {}
    PROVE  /\ Foremost(rows, S) \in S
           /\ \A j \in S : rows[Foremost(rows, S)].position <= rows[j].position
<1> DEFINE places == {rows[i].position : i \in S}
<1>1. places \in SUBSET Nat /\ places # {} BY DEF OfSome, ContactRows
<1>2. PICK p \in places : \A o \in places : p <= o
  <2> HIDE DEF places
  <2>1. QED BY <1>1, LeastOf
<1>3. PICK i \in S : \A j \in S : rows[i].position <= rows[j].position BY <1>2
<1>4. QED BY <1>3 DEF Foremost

LEMMA OrderIs ==
    ASSUME ContactConstants, NEW rows, OfSome(rows, ContactRows), NEW chosen \in DOMAIN rows
    PROVE  /\ OfSome(Order(rows, chosen), Nat) /\ DOMAIN Order(rows, chosen) = DOMAIN rows
           /\ Order(rows, chosen)[chosen] = 0
<1> DEFINE before(i) == {j \in DOMAIN rows \ {chosen} : rows[j].position < rows[i].position}
<1>1. IsFiniteSet(DOMAIN rows) BY PlacesAre
<1>2. \A i \in DOMAIN rows : Cardinality(before(i)) \in Nat
  BY <1>1, FS_Subset, FS_CardinalityType
<1>3. Order(rows, chosen) =
         [i \in DOMAIN rows |-> IF i = chosen THEN 0 ELSE Cardinality(before(i)) + 1]
  BY DEF Order
<1> HIDE DEF before
<1>4. QED BY <1>2, <1>3 DEF OfSome

-----------------------------------------------------------------------------
(* Types.                                                                  *)
LEMMA NoTaskIsTyped == ContactTaskOK(NoContactTask)
<1>1. OfSome(NoRows, ContactRows) /\ OfSome(NoRows, Nat) BY DEF NoRows, OfSome
<1>2. NoContactTask.mine = NoRows /\ NoContactTask.order = NoRows /\ NoContactTask.pc = "idle"
  BY DEF NoContactTask
<1>3. NoContactTask \in ContactTasks(NoRows, NoRows)
  BY DEF NoContactTask, ContactTasks, ContactPcs, ContactKinds
<1>4. QED BY <1>1, <1>2, <1>3 DEF ContactTaskOK

LEMMA GoesTyped ==
    ASSUME ContactsTypeOK, NEW q \in ContactRequests, NEW b, ContactTaskOK(b), ContactGoes(q, b),
           OfSome(contacts', ContactRows)
    PROVE  ContactsTypeOK'
<1>1. /\ \A r \in ContactRequests : contactWork'[r] = IF r = q THEN b ELSE contactWork[r]
      /\ contactWork' = [r \in ContactRequests |-> contactWork'[r]]
      /\ table' = table /\ contactKinds' = contactKinds
  BY DEF ContactGoes, contactFixed, ContactsTypeOK
<1>2. \A r \in ContactRequests : ContactTaskOK(contactWork'[r]) BY <1>1 DEF ContactsTypeOK
<1>3. QED BY <1>1, <1>2 DEF ContactsTypeOK

(* What a statement, or what comes before the first of them, does to a     *)
(* transaction.                                                            *)
LEMMA TaskGoesOn ==
    ASSUME NEW task, ContactTaskOK(task), NEW pc \in ContactPcs \ {"insert"},
           NEW mine, OfSome(mine, ContactRows), NEW barred \in SUBSET Nat,
           NEW seen \in SUBSET ContactIds
    PROVE  /\ ContactTaskOK([task EXCEPT !.pc = pc])
           /\ ContactTaskOK([task EXCEPT !.pc = pc, !.seen = seen])
           /\ ContactTaskOK([task EXCEPT !.pc = pc, !.mine = mine])
           /\ ContactTaskOK([task EXCEPT !.pc = pc, !.mine = mine, !.barred = barred, !.seen = seen])
<1>1. task \in ContactTasks(task.mine, task.order) /\ OfSome(task.order, Nat)
      /\ OfSome(task.mine, ContactRows)
  BY DEF ContactTaskOK
<1>2. ContactTaskOK([task EXCEPT !.pc = pc])
  BY <1>1 DEF ContactTaskOK, ContactTasks
<1>3. ContactTaskOK([task EXCEPT !.pc = pc, !.seen = seen])
  BY <1>1 DEF ContactTaskOK, ContactTasks
<1>4. ContactTaskOK([task EXCEPT !.pc = pc, !.mine = mine])
  BY <1>1 DEF ContactTaskOK, ContactTasks
<1>5. ContactTaskOK([task EXCEPT !.pc = pc, !.mine = mine, !.barred = barred, !.seen = seen])
  BY <1>1 DEF ContactTaskOK, ContactTasks
<1>6. QED BY <1>2, <1>3, <1>4, <1>5

LEMMA TaskFinds ==
    ASSUME NEW task, ContactTaskOK(task), NEW pc \in ContactPcs \ {"insert"}, NEW row \in ContactIds,
           NEW mine, OfSome(mine, ContactRows), NEW barred \in SUBSET Nat,
           NEW order, OfSome(order, Nat)
    PROVE  /\ ContactTaskOK([task EXCEPT !.pc = pc, !.row = row, !.mine = mine])
           /\ ContactTaskOK([task EXCEPT !.pc = pc, !.row = row, !.barred = barred, !.mine = mine])
           /\ ContactTaskOK([task EXCEPT !.pc = pc, !.chosen = row, !.order = order])
           /\ ContactTaskOK([task EXCEPT !.pc = pc, !.chosen = row])
<1>1. task \in ContactTasks(task.mine, task.order) /\ OfSome(task.order, Nat)
      /\ OfSome(task.mine, ContactRows)
  BY DEF ContactTaskOK
<1>2. ContactTaskOK([task EXCEPT !.pc = pc, !.row = row, !.mine = mine])
  BY <1>1 DEF ContactTaskOK, ContactTasks
<1>3. ContactTaskOK([task EXCEPT !.pc = pc, !.row = row, !.barred = barred, !.mine = mine])
  BY <1>1 DEF ContactTaskOK, ContactTasks
<1>4. ContactTaskOK([task EXCEPT !.pc = pc, !.chosen = row, !.order = order])
  BY <1>1 DEF ContactTaskOK, ContactTasks
<1>5. ContactTaskOK([task EXCEPT !.pc = pc, !.chosen = row])
  BY <1>1 DEF ContactTaskOK, ContactTasks
<1>6. QED BY <1>2, <1>3, <1>4, <1>5

LEMMA BeginTyped ==
    ASSUME ContactsTypeOK, NEW q \in ContactRequests, NEW from, NEW to \in ContactPcs \ {"insert"},
           NEW rows \in SUBSET ContactIds, StatementBegins(q, from, to, rows)
    PROVE  ContactsTypeOK'
<1>1. ContactTaskOK([contactWork[q] EXCEPT !.pc = to, !.seen = rows])
  <2>1. ContactTaskOK(contactWork[q]) BY DEF ContactsTypeOK
  <2>2. QED BY <2>1, TaskGoesOn DEF ContactTaskOK
<1>2. QED BY <1>1, GoesTyped DEF StatementBegins, ContactsTypeOK

LEMMA WriteTyped ==
    ASSUME ContactsTypeOK, NEW q \in ContactRequests, NEW from, NEW to \in ContactPcs \ {"insert"},
           NEW rows, OfSome(rows, ContactRows), NEW barred \in SUBSET Nat,
           StatementWrites(q, from, to, rows, barred)
    PROVE  ContactsTypeOK'
<1> DEFINE task == contactWork[q]
<1>1. ContactTaskOK(task) BY DEF ContactsTypeOK
<1>2. OfSome(Over(rows, task.mine), ContactRows)
  <2>1. OfSome(task.mine, ContactRows) BY <1>1 DEF ContactTaskOK
  <2>2. QED BY <2>1, OverIs
<1>3. task.barred \cup barred \in SUBSET Nat
  BY <1>1 DEF ContactTaskOK, ContactTasks
<1>4. ContactTaskOK([task EXCEPT !.pc = to, !.mine = Over(rows, task.mine),
                                 !.barred = task.barred \cup barred, !.seen = {}])
  <2> HIDE DEF task
  <2>1. QED BY <1>1, <1>2, <1>3, TaskGoesOn
<1>5. QED BY <1>4, GoesTyped DEF StatementWrites, ContactsTypeOK

LEMMA ContactsTypeStep ==
    ASSUME ContactConstants, ContactsTypeOK, [ContactsNext]_contactVars
    PROVE  ContactsTypeOK'
<1>1. CASE UNCHANGED contactVars
  BY <1>1 DEF contactVars, ContactsTypeOK, ContactTaskOK, OfSome, ContactTasks
<1>2. ASSUME NEW q \in ContactRequests, NEW b, ContactTaskOK(b), ContactGoes(q, b), UNCHANGED contacts
      PROVE  ContactsTypeOK'
  <2>1. OfSome(contacts', ContactRows) BY <1>2 DEF ContactsTypeOK
  <2>2. QED BY <1>2, <2>1, GoesTyped
<1>3. \A q \in ContactRequests : ContactTaskOK(contactWork[q]) BY DEF ContactsTypeOK
<1>4. OfSome(contacts, ContactRows) /\ DOMAIN contacts \subseteq ContactIds
  BY DEF ContactsTypeOK, OfSome
<1>5. LastPlace(contacts) \in Nat \cup {-1} BY <1>4, PlacesAre
<1>6. /\ NoContactTask \in ContactTasks(NoRows, NoRows)
      /\ NoContactTask.mine = NoRows /\ NoContactTask.order = NoRows
      /\ OfSome(NoRows, ContactRows) /\ OfSome(NoRows, Nat)
  BY NoTaskIsTyped DEF ContactTaskOK, NoContactTask
<1>7. ASSUME NEW q \in ContactRequests, NEW v \in ContactValues, NEW prefers \in BOOLEAN,
             PostRead(q, v, prefers)
      PROVE  ContactsTypeOK'
  <2>1. PICK b : b = [NoContactTask EXCEPT !.pc = "insert", !.value = v, !.prefers = prefers,
                                           !.last = LastPlace(contacts)]
    OBVIOUS
  <2>2. b \in ContactTasks(NoRows, NoRows) /\ b.mine = NoRows /\ b.order = NoRows /\ b.value = v
    BY <1>5, <1>6, <2>1 DEF ContactTasks, ContactPcs
  <2>3. ContactTaskOK(b) BY <1>6, <2>2 DEF ContactTaskOK
  <2>4. ContactGoes(q, b) /\ UNCHANGED contacts BY <1>7, <2>1 DEF PostRead, ContactStarts
  <2>5. QED BY <1>2, <2>3, <2>4
<1>8. ASSUME NEW q \in ContactRequests, NEW i \in ContactIds, ContactRead(q, i) \/ ContactDelete(q, i)
      PROVE  ContactsTypeOK'
  <2>1. PICK b : /\ ContactGoes(q, b) /\ UNCHANGED contacts
                 /\ \/ \E prefers \in BOOLEAN :
                          b = [NoContactTask EXCEPT !.pc = "update", !.op = "patch", !.row = i,
                                                    !.prefers = prefers]
                    \/ /\ i \in DOMAIN contacts
                       /\ b = [NoContactTask EXCEPT !.pc = "find", !.op = "delete", !.row = i,
                                 !.dropped = {i}, !.barred = {contacts[i].position}]
    BY <1>8 DEF ContactRead, ContactDelete, ContactStarts
  <2>2. \A j \in DOMAIN contacts : contacts[j].position \in Nat BY <1>4, PlacesAre
  <2>3. ASSUME NEW p \in Nat
        PROVE  ContactTaskOK([NoContactTask EXCEPT !.pc = "find", !.op = "delete", !.row = i,
                                                   !.dropped = {i}, !.barred = {p}])
    <3>1. PICK t : t = [NoContactTask EXCEPT !.pc = "find", !.op = "delete", !.row = i,
                                             !.dropped = {i}, !.barred = {p}]
      OBVIOUS
    <3>2. "find" \in ContactPcs /\ "delete" \in ContactKinds BY DEF ContactPcs, ContactKinds
    <3>3. /\ t.mine = NoRows /\ t.order = NoRows /\ t.pc = "find"
          /\ t \in ContactTasks(NoRows, NoRows)
      BY <1>6, <3>1, <3>2 DEF ContactTasks
    <3>4. QED BY <1>6, <3>1, <3>3 DEF ContactTaskOK
  <2>4. ASSUME NEW prefers \in BOOLEAN
        PROVE  ContactTaskOK([NoContactTask EXCEPT !.pc = "update", !.op = "patch", !.row = i,
                                                   !.prefers = prefers])
    BY <1>6 DEF ContactTaskOK, ContactTasks, ContactPcs, ContactKinds
  <2>5. ContactTaskOK(b)
    <3>1. CASE \E prefers \in BOOLEAN :
                  b = [NoContactTask EXCEPT !.pc = "update", !.op = "patch", !.row = i,
                                            !.prefers = prefers]
      BY <2>4, <3>1
    <3>2. CASE /\ i \in DOMAIN contacts
               /\ b = [NoContactTask EXCEPT !.pc = "find", !.op = "delete", !.row = i,
                         !.dropped = {i}, !.barred = {contacts[i].position}]
      <4>1. PICK p \in Nat : p = contacts[i].position BY <2>2, <3>2
      <4>2. QED BY <2>3, <3>2, <4>1
    <3>3. QED BY <2>1, <3>1, <3>2
  <2>6. QED BY <1>2, <2>1, <2>5
<1>9. ASSUME NEW q \in ContactRequests, Upsert(q) PROVE ContactsTypeOK'
  <2> DEFINE task == contactWork[q]
             place == IF table = "phones" THEN task.last + 1 ELSE LastPlace(contacts) + 1
             i0 == CHOOSE i \in FreshIds : TRUE
             new == [value |-> task.value, isPrimary |-> FALSE, position |-> place]
  <2>1. task.pc = "insert" /\ UNCHANGED contacts BY <1>9 DEF Upsert
  <2>2. task.value \in ContactValues /\ place \in Nat
    BY <1>3, <1>5, <2>1 DEF ContactTaskOK, ContactTasks
  <2>3. CASE \E i \in DOMAIN contacts :
                ContactGoes(q, [task EXCEPT !.pc = "find", !.row = i, !.mine = [j \in {i} |-> contacts[j]]])
    <3>1. PICK i \in DOMAIN contacts : ContactGoes(q,
             [task EXCEPT !.pc = "find", !.row = i, !.mine = [j \in {i} |-> contacts[j]]])
      BY <2>3
    <3>2. OfSome([j \in {i} |-> contacts[j]], ContactRows) BY <1>4 DEF OfSome
    <3>3. ContactTaskOK([task EXCEPT !.pc = "find", !.row = i, !.mine = [j \in {i} |-> contacts[j]]])
      <4>1. PICK mine : mine = [j \in {i} |-> contacts[j]] OBVIOUS
      <4>2. ContactTaskOK(task) /\ OfSome(task.order, Nat) BY <1>3 DEF ContactTaskOK
      <4>3. OfSome(mine, ContactRows) /\ {} \in SUBSET Nat /\ i \in ContactIds BY <1>4, <3>2, <4>1
      <4>4. "find" \in ContactPcs \ {"insert"} BY DEF ContactPcs
      <4> HIDE DEF task
      <4>5. ContactTaskOK([task EXCEPT !.pc = "find", !.row = i, !.mine = mine])
        BY <4>2, <4>3, <4>4, TaskFinds
      <4>6. QED BY <4>1, <4>5
    <3>4. QED BY <1>2, <2>1, <3>1, <3>3
  <2>4. CASE FreshIds # {} /\ ContactGoes(q, [task EXCEPT !.pc = "find", !.row = i0,
                                  !.barred = {place}, !.mine = [j \in {i0} |-> new]])
    <3>1. i0 \in ContactIds BY <2>4 DEF FreshIds
    <3>2. new \in ContactRows BY <2>2 DEF ContactRows
    <3> HIDE DEF i0, new, place
    <3>3. OfSome([j \in {i0} |-> new], ContactRows) BY <3>1, <3>2 DEF OfSome
    <3>4. ContactTaskOK([task EXCEPT !.pc = "find", !.row = i0, !.barred = {place},
                                     !.mine = [j \in {i0} |-> new]])
      <4>1. PICK mine : mine = [j \in {i0} |-> new] OBVIOUS
      <4>2. PICK barred : barred = {place} OBVIOUS
      <4>3. barred \in SUBSET Nat BY <2>2, <4>2
      <4>4. ContactTaskOK(task) /\ OfSome(mine, ContactRows) BY <1>3, <3>3, <4>1
      <4>5. PICK i : i = i0 OBVIOUS
      <4>6. "find" \in ContactPcs \ {"insert"} BY DEF ContactPcs
      <4>7. OfSome(NoRows, Nat) BY <1>6
      <4> HIDE DEF task
      <4>8. ContactTaskOK([task EXCEPT !.pc = "find", !.row = i, !.barred = barred, !.mine = mine])
        BY <3>1, <4>3, <4>4, <4>5, <4>6, <4>7, TaskFinds
      <4>9. QED BY <4>1, <4>2, <4>5, <4>8
    <3>5. QED BY <1>2, <2>1, <2>4, <3>4
  <2>5. QED BY <1>9, <2>3, <2>4 DEF Upsert
<1>10. ASSUME NEW q \in ContactRequests, ContactWrite(q) PROVE ContactsTypeOK'
  <2> DEFINE there == {contactWork[q].row} \cap DOMAIN contacts
  <2>1. PICK flag \in BOOLEAN :
           /\ ContactGoes(q, [contactWork[q] EXCEPT !.pc = "find",
                 !.mine = [i \in there |-> [contacts[i] EXCEPT !.isPrimary = flag]]])
           /\ UNCHANGED contacts
    <3>1. \A i \in DOMAIN contacts : contacts[i].isPrimary \in BOOLEAN BY <1>4, PlacesAre
    <3>2. QED BY <1>10, <3>1 DEF ContactWrite
  <2>2. PICK rows : rows = [i \in there |-> [contacts[i] EXCEPT !.isPrimary = flag]] OBVIOUS
  <2>3. OfSome(rows, ContactRows) BY <1>4, <2>2 DEF OfSome, ContactRows
  <2>4. ContactTaskOK([contactWork[q] EXCEPT !.pc = "find", !.mine = rows])
    BY <1>3, <2>3, TaskGoesOn DEF ContactPcs
  <2>5. QED BY <1>2, <2>1, <2>2, <2>4
<1>11. \A q \in ContactRequests : /\ OfSome(Seen(contactWork[q]), ContactRows)
                                  /\ DOMAIN Seen(contactWork[q]) \subseteq ContactIds
  BY <1>3, SeenIs DEF OfSome
<1>12. ASSUME NEW q \in ContactRequests, FindRows(q) PROVE ContactsTypeOK'
  <2> DEFINE task == contactWork[q]
  <2>1. PICK rows : rows = Seen(task) OBVIOUS
  <2>2. OfSome(rows, ContactRows) BY <1>11, <2>1
  <2> DEFINE flagged == {i \in DOMAIN rows : rows[i].isPrimary}
             chosen == IF task.prefers /\ task.row \in DOMAIN rows THEN task.row
                       ELSE Foremost(rows, IF flagged # {} THEN flagged ELSE DOMAIN rows)
  <2>3. UNCHANGED contacts BY <1>12 DEF FindRows
  <2>4. CASE DOMAIN rows = {}
    <3>1. ContactGoes(q, [task EXCEPT !.pc = "commit"]) BY <1>12, <2>1, <2>4 DEF FindRows
    <3>2. ContactTaskOK([task EXCEPT !.pc = "commit"])
      BY <1>3 DEF ContactTaskOK, ContactTasks, ContactPcs
    <3>3. QED BY <1>2, <2>3, <3>1, <3>2
  <2>5. CASE DOMAIN rows # {}
    <3>1. chosen \in DOMAIN rows BY <2>2, <2>5, ForemostIs
    <3>2. PICK c : c = chosen OBVIOUS
    <3>3. c \in ContactIds /\ OfSome(Order(rows, c), Nat)
      BY <2>2, <3>1, <3>2, OrderIs DEF OfSome
    <3>4. ContactGoes(q, IF table = "phones"
                         THEN [task EXCEPT !.pc = "shift", !.chosen = c, !.order = Order(rows, c)]
                         ELSE [task EXCEPT !.pc = "promote", !.chosen = c])
      BY <1>12, <2>1, <2>5, <3>2 DEF FindRows
    <3>5. /\ ContactTaskOK([task EXCEPT !.pc = "shift", !.chosen = c, !.order = Order(rows, c)])
          /\ ContactTaskOK([task EXCEPT !.pc = "promote", !.chosen = c])
      <4>1. PICK order : order = Order(rows, c) OBVIOUS
      <4>2. ContactTaskOK(task) /\ OfSome(task.mine, ContactRows) BY <1>3 DEF ContactTaskOK
      <4>3. {} \in SUBSET Nat /\ OfSome(order, Nat) BY <3>3, <4>1
      <4>4. {"shift", "promote"} \subseteq ContactPcs \ {"insert"} BY DEF ContactPcs
      <4> HIDE DEF task
      <4>5. ContactTaskOK([task EXCEPT !.pc = "shift", !.chosen = c, !.order = order])
        BY <3>3, <4>2, <4>3, <4>4, TaskFinds
      <4>6. ContactTaskOK([task EXCEPT !.pc = "promote", !.chosen = c])
        BY <3>3, <4>2, <4>3, <4>4, TaskFinds
      <4>7. QED BY <4>1, <4>5, <4>6
    <3>6. QED BY <1>2, <2>3, <3>4, <3>5
  <2>6. QED BY <2>4, <2>5
<1>13. ASSUME NEW q \in ContactRequests, ShiftBegins(q) \/ DemoteBegins(q) PROVE ContactsTypeOK'
  <2>1. \E from, to \in ContactPcs \ {"insert"}, rows \in SUBSET ContactIds :
           StatementBegins(q, from, to, rows)
    <3>1. CASE ShiftBegins(q) BY <1>11, <3>1 DEF ShiftBegins, ContactPcs
    <3>2. CASE DemoteBegins(q)
      <4>1. PICK rows : rows = {i \in DOMAIN Seen(contactWork[q]) : Seen(contactWork[q])[i].isPrimary}
                                  \ {contactWork[q].chosen}
        OBVIOUS
      <4>2. rows \in SUBSET ContactIds BY <1>11, <4>1
      <4>3. StatementBegins(q, "demote", "demoting", rows) BY <3>2, <4>1 DEF DemoteBegins
      <4>4. QED BY <4>2, <4>3 DEF ContactPcs
    <3>3. QED BY <1>13, <3>1, <3>2
  <2>2. QED BY <2>1, BeginTyped
<1>14. ASSUME NEW q \in ContactRequests, ShiftRows(q) PROVE ContactsTypeOK'
  <2>1. PICK task, now : task = contactWork[q] /\ now = Seen(task) OBVIOUS
  <2>2. OfSome(now, ContactRows) BY <1>11, <2>1
  <2>3. OfSome(task.order, Nat) BY <1>3, <2>1 DEF ContactTaskOK
  <2>4. Cardinality(DOMAIN task.order) \in Nat
    BY <2>3, FS_Subset, FS_CardinalityType DEF ContactConstants, OfSome
  <2>5. PICK rows : rows = [i \in task.seen \cap DOMAIN now |->
                       [now[i] EXCEPT !.position = now[i].position + Cardinality(DOMAIN task.order)]]
    OBVIOUS
  <2>6. OfSome(rows, ContactRows) BY <2>2, <2>4, <2>5 DEF OfSome, ContactRows
  <2>7. PICK barred : barred = Places(rows) \cup {now[i].position : i \in DOMAIN rows} OBVIOUS
  <2>8. barred \in SUBSET Nat
    <3>1. DOMAIN rows \subseteq DOMAIN now BY <2>5
    <3>2. QED BY <2>2, <2>6, <2>7, <3>1, PlacesAre
  <2>9. StatementWrites(q, "shifting", "arrange", rows, barred)
    BY <1>14, <2>1, <2>5, <2>7 DEF ShiftRows
  <2>10. QED BY <2>6, <2>8, <2>9, WriteTyped DEF ContactPcs
<1>15. ASSUME NEW q \in ContactRequests, Arrange(q) PROVE ContactsTypeOK'
  <2>1. PICK task, now : task = contactWork[q] /\ now = Seen(task) OBVIOUS
  <2>2. OfSome(now, ContactRows) BY <1>11, <2>1
  <2>3. OfSome(task.order, Nat) BY <1>3, <2>1 DEF ContactTaskOK
  <2>4. PICK rows : rows = [i \in DOMAIN task.order \cap DOMAIN now |->
                       [now[i] EXCEPT !.isPrimary = (i = task.chosen), !.position = task.order[i]]]
    OBVIOUS
  <2>5. OfSome(rows, ContactRows) BY <2>2, <2>3, <2>4 DEF OfSome, ContactRows
  <2>6. Places(rows) \in SUBSET Nat BY <2>5, PlacesAre
  <2>7. StatementWrites(q, "arrange", "commit", rows, Places(rows))
    BY <1>15, <2>1, <2>4 DEF Arrange
  <2>8. QED BY <2>5, <2>6, <2>7, WriteTyped DEF ContactPcs
<1>16. ASSUME NEW q \in ContactRequests, Promote(q) \/ DemoteRows(q) PROVE ContactsTypeOK'
  <2>1. PICK task, now : task = contactWork[q] /\ now = Seen(task) OBVIOUS
  <2>2. OfSome(now, ContactRows) BY <1>11, <2>1
  <2>3. PICK some, flag, from, to, rows :
           /\ some \in SUBSET DOMAIN now /\ flag \in BOOLEAN /\ to \in ContactPcs \ {"insert"}
           /\ rows = [i \in some |-> [now[i] EXCEPT !.isPrimary = flag]]
           /\ StatementWrites(q, from, to, rows, {})
    <3>1. CASE Promote(q)
      <4>1. PICK some : some = {task.chosen} \cap {j \in DOMAIN now : ~now[j].isPrimary} OBVIOUS
      <4>2. StatementWrites(q, "promote", "demote",
                [i \in some |-> [now[i] EXCEPT !.isPrimary = TRUE]], {})
        BY <2>1, <3>1, <4>1 DEF Promote
      <4>3. some \in SUBSET DOMAIN now BY <4>1
      <4>4. QED BY <4>2, <4>3 DEF ContactPcs
    <3>2. CASE DemoteRows(q)
      <4>1. PICK some : some = task.seen \cap DOMAIN now OBVIOUS
      <4>2. StatementWrites(q, "demoting", "commit",
                [i \in some |-> [now[i] EXCEPT !.isPrimary = FALSE]], {})
        BY <2>1, <3>2, <4>1 DEF DemoteRows
      <4>3. some \in SUBSET DOMAIN now BY <4>1
      <4>4. QED BY <4>2, <4>3 DEF ContactPcs
    <3>3. QED BY <1>16, <3>1, <3>2
  <2>4. OfSome(rows, ContactRows) BY <2>2, <2>3 DEF OfSome, ContactRows
  <2>5. QED BY <2>3, <2>4, WriteTyped
<1>17. ASSUME NEW q \in ContactRequests, ContactCommit(q) \/ ContactRollback(q) PROVE ContactsTypeOK'
  <2>1. OfSome(contacts', ContactRows) BY <1>4, <1>11, <1>17 DEF ContactCommit, ContactRollback
  <2>2. ContactGoes(q, NoContactTask) BY <1>17 DEF ContactCommit, ContactRollback
  <2>3. QED BY <2>1, <2>2, GoesTyped, NoTaskIsTyped
<1>18. QED
  BY <1>1, <1>7, <1>8, <1>9, <1>10, <1>12, <1>13, <1>14, <1>15, <1>16, <1>17 DEF ContactsNext

-----------------------------------------------------------------------------
(* Rows in order.                                                          *)
LEMMA CountFrom0 == \A n \in Nat : IsFiniteSet(0..n - 1) /\ Cardinality(0..n - 1) = n
<1>1. TAKE n \in Nat
<1>2. IsFiniteSet(0..n - 1) /\ Cardinality(0..n - 1) = (IF 0 > n - 1 THEN 0 ELSE (n - 1) - 0 + 1)
  BY FS_Interval
<1>3. QED BY <1>2

LEMMA InOrderDistinct ==
    ASSUME ContactConstants, NEW rows, OfSome(rows, ContactRows), InOrder(rows)
    PROVE  \A i, j \in DOMAIN rows : rows[i].position = rows[j].position => i = j
<1> DEFINE n == Cardinality(DOMAIN rows)
<1>1. IsFiniteSet(DOMAIN rows) /\ n \in Nat BY PlacesAre
<1>2. PICK f : f = [i \in DOMAIN rows |-> rows[i].position] OBVIOUS
<1>3. f \in Surjection(DOMAIN rows, 0..n - 1) BY <1>2 DEF Surjection, InOrder, Places
<1>4. Cardinality(0..n - 1) = n BY <1>1, CountFrom0
<1> HIDE DEF n
<1>5. f \in Injection(DOMAIN rows, 0..n - 1)
  <2>1. Cardinality(DOMAIN rows) = Cardinality(0..n - 1) BY <1>4 DEF n
  <2>2. QED BY <1>1, <1>3, <2>1, FS_SurjSameCardinalityImpliesInj
<1>6. QED BY <1>2, <1>5 DEF Injection, IsInjective

LEMMA InOrderLast ==
    ASSUME ContactConstants, NEW rows, OfSome(rows, ContactRows), InOrder(rows)
    PROVE  LastPlace(rows) = Cardinality(DOMAIN rows) - 1
<1> DEFINE n == Cardinality(DOMAIN rows)
<1>1. IsFiniteSet(DOMAIN rows) /\ n \in Nat BY PlacesAre
<1>2. n = 0 <=> DOMAIN rows = {} BY <1>1, FS_EmptySet
<1>3. Places(rows) = 0..n - 1 BY DEF InOrder
<1> HIDE DEF n
<1>4. CASE DOMAIN rows = {} BY <1>2, <1>4 DEF LastPlace, n
<1>5. CASE DOMAIN rows # {}
  <2>1. n - 1 \in Places(rows) /\ \A o \in Places(rows) : o <= n - 1 BY <1>1, <1>2, <1>3, <1>5
  <2>2. \A p \in Places(rows) : (\A o \in Places(rows) : o <= p) => p = n - 1
    <3>1. ASSUME NEW p \in Places(rows), \A o \in Places(rows) : o <= p PROVE p = n - 1
      <4>1. p \in 0..n - 1 /\ n - 1 <= p BY <1>3, <2>1, <3>1
      <4>2. QED BY <1>1, <4>1
    <3>2. QED BY <3>1
  <2>3. LastPlace(rows) = CHOOSE p \in Places(rows) : \A o \in Places(rows) : o <= p
    BY <1>5 DEF LastPlace
  <2>4. LastPlace(rows) = n - 1 BY <2>1, <2>2, <2>3
  <2>5. QED BY <2>4 DEF n
<1>6. QED BY <1>4, <1>5

LEMMA OrderOrders ==
    ASSUME ContactConstants, NEW rows, OfSome(rows, ContactRows), NEW chosen \in DOMAIN rows,
           \A i, j \in DOMAIN rows : rows[i].position = rows[j].position => i = j
    PROVE  IsOrder(Order(rows, chosen), chosen)
<1> DEFINE S == DOMAIN rows \ {chosen}
           before(i) == {j \in S : rows[j].position < rows[i].position}
           n == Cardinality(DOMAIN rows)
<1>1. IsFiniteSet(DOMAIN rows) /\ n \in Nat /\ \A i \in DOMAIN rows : rows[i].position \in Nat
  BY PlacesAre
<1>2. IsFiniteSet(S) /\ Cardinality(S) = n - 1 BY <1>1, FS_RemoveElement
<1>3. \A i \in DOMAIN rows : IsFiniteSet(before(i)) /\ Cardinality(before(i)) \in Nat
  BY <1>2, FS_Subset, FS_CardinalityType
<1>4. ASSUME NEW i \in S, NEW j \in S, rows[i].position < rows[j].position
      PROVE  Cardinality(before(i)) < Cardinality(before(j))
  <2>1. ASSUME NEW k \in before(i) PROVE k \in before(j) BY <1>1, <1>4
  <2>2. i \in before(j) /\ i \notin before(i) BY <1>1, <1>4
  <2>3. before(i) \in SUBSET before(j) /\ before(j) # before(i) BY <2>1, <2>2
  <2>4. IsFiniteSet(before(j)) /\ Cardinality(before(i)) \in Nat /\ Cardinality(before(j)) \in Nat
    BY <1>3
  <2> HIDE DEF before
  <2>5. Cardinality(before(i)) <= Cardinality(before(j))
        /\ Cardinality(before(j)) # Cardinality(before(i))
    BY <2>3, <2>4, FS_Subset
  <2>6. QED BY <2>4, <2>5
<1>5. ASSUME NEW i \in S PROVE Cardinality(before(i)) + 1 \in 1..n - 1
  <2>1. before(i) \in SUBSET S /\ i \in S /\ i \notin before(i) BY <1>1
  <2>2. IsFiniteSet(before(i)) /\ Cardinality(before(i)) \in Nat BY <1>3
  <2> HIDE DEF before, S
  <2>3. Cardinality(before(i)) <= Cardinality(S) /\ Cardinality(before(i)) # Cardinality(S)
    <3>1. before(i) # S BY <2>1
    <3>2. QED BY <1>2, <2>1, <3>1, FS_Subset
  <2>4. QED BY <1>1, <1>2, <2>2, <2>3
<1>6. Order(rows, chosen) =
         [i \in DOMAIN rows |-> IF i = chosen THEN 0 ELSE Cardinality(before(i)) + 1]
  BY DEF Order
<1>7. PICK o : o = Order(rows, chosen) OBVIOUS
<1>8. /\ DOMAIN o = DOMAIN rows /\ o[chosen] = 0
      /\ \A i \in S : o[i] = Cardinality(before(i)) + 1 /\ o[i] \in 1..n - 1
  BY <1>5, <1>6, <1>7
<1>9. n # 0 /\ \A i \in S : o[i] # 0
  <2>1. n # 0 BY <1>1, FS_EmptySet
  <2>2. \A m \in 1..n - 1 : m # 0
    <3> HIDE DEF n
    <3>1. QED BY <1>1
  <2>3. QED BY <1>8, <2>1, <2>2
<1>10. ASSUME NEW i \in DOMAIN o PROVE o[i] \in 0..n - 1
  <2>1. CASE i = chosen BY <1>1, <1>8, <1>9, <2>1
  <2>2. CASE i \in S
    <3>1. o[i] \in 1..n - 1 BY <1>8, <2>2
    <3> HIDE DEF n
    <3>2. QED BY <1>1, <3>1
  <2>3. QED BY <1>8, <2>1, <2>2
<1>11. ASSUME NEW i \in DOMAIN o, NEW j \in DOMAIN o, o[i] = o[j] PROVE i = j
  <2>1. CASE i \in S /\ j \in S
    <3>1. ~(rows[i].position < rows[j].position) /\ ~(rows[j].position < rows[i].position)
      <4>1. Cardinality(before(i)) = Cardinality(before(j))
        <5>1. o[i] = Cardinality(before(i)) + 1 /\ o[j] = Cardinality(before(j)) + 1 BY <1>8, <2>1
        <5>2. Cardinality(before(i)) \in Nat /\ Cardinality(before(j)) \in Nat BY <1>3, <2>1
        <5>3. PICK a, b : a = Cardinality(before(i)) /\ b = Cardinality(before(j)) OBVIOUS
        <5>4. a + 1 = b + 1 BY <1>11, <5>1, <5>3
        <5>5. a \in Nat /\ b \in Nat BY <5>2, <5>3
        <5>6. a = b BY <5>4, <5>5
        <5>7. QED BY <5>3, <5>6
      <4>2. Cardinality(before(i)) \in Nat BY <1>3, <2>1
      <4> HIDE DEF before
      <4>3. ~(Cardinality(before(i)) < Cardinality(before(j)))
            /\ ~(Cardinality(before(j)) < Cardinality(before(i)))
        BY <4>1, <4>2
      <4>4. QED BY <1>4, <2>1, <4>3
    <3>2. rows[i].position = rows[j].position BY <1>1, <2>1, <3>1
    <3>3. QED BY <2>1, <3>2
  <2>2. CASE i = chosen /\ j \in S BY <1>8, <1>9, <1>11, <2>2
  <2>3. CASE j = chosen /\ i \in S BY <1>8, <1>9, <1>11, <2>3
  <2>4. QED BY <1>8, <2>1, <2>2, <2>3
<1>12. \A i \in DOMAIN o : o[i] \in 0..Cardinality(DOMAIN o) - 1 BY <1>8, <1>10
<1>13. QED BY <1>7, <1>8, <1>11, <1>12 DEF IsOrder

LEMMA OrderFills ==
    ASSUME ContactConstants, NEW order, OfSome(order, Nat), NEW chosen, IsOrder(order, chosen)
    PROVE  {order[i] : i \in DOMAIN order} = 0..Cardinality(DOMAIN order) - 1
<1> DEFINE n == Cardinality(DOMAIN order)
<1>1. IsFiniteSet(DOMAIN order) /\ n \in Nat
  BY FS_Subset, FS_CardinalityType DEF ContactConstants, OfSome
<1>2. order \in Injection(DOMAIN order, 0..n - 1) BY DEF OfSome, IsOrder, Injection, IsInjective
<1>3. IsFiniteSet(0..n - 1) /\ Cardinality(0..n - 1) = n BY <1>1, CountFrom0
<1> HIDE DEF n
<1>4. order \in Surjection(DOMAIN order, 0..n - 1)
  <2>1. Cardinality(DOMAIN order) = Cardinality(0..n - 1) BY <1>3 DEF n
  <2>2. QED BY <1>2, <1>3, <2>1, FS_Injection
<1>5. {order[i] : i \in DOMAIN order} = 0..n - 1 BY <1>4 DEF Surjection
<1>6. QED BY <1>5 DEF n

LEMMA ArrangedInOrder ==
    ASSUME ContactConstants, NEW order, OfSome(order, Nat), NEW chosen, IsOrder(order, chosen),
           NEW rows, DOMAIN rows = DOMAIN order,
           \A i \in DOMAIN rows : rows[i].position = order[i] /\ rows[i].isPrimary = (i = chosen)
    PROVE  InOrder(rows)
<1>1. Places(rows) = {order[i] : i \in DOMAIN order} BY DEF Places
<1>2. Places(rows) = 0..Cardinality(DOMAIN rows) - 1 BY <1>1, OrderFills
<1>3. \A i \in DOMAIN rows : rows[i].isPrimary <=> rows[i].position = 0 BY DEF IsOrder
<1>4. QED BY <1>2, <1>3 DEF InOrder

-----------------------------------------------------------------------------
(* At the start.                                                           *)
LEMMA ContactsStart ==
    ASSUME ContactConstants, ContactsInit
    PROVE  ContactsTypeOK /\ OrderInv
<1>1. PICK i \in ContactInstances :
         /\ table = i.table /\ contactKinds = i.kinds
         /\ contacts = [c \in DOMAIN i.rows |->
                [value |-> i.rows[c].value, isPrimary |-> i.rows[c].position = 0,
                 position |-> i.rows[c].position]]
  BY DEF ContactsInit
<1>2. /\ i.table \in {"phones", "emails"} /\ i.kinds \subseteq ContactKinds
      /\ OfSome(i.rows, [value : ContactValues, position : Nat])
      /\ Places(i.rows) = 0..Cardinality(DOMAIN i.rows) - 1
  BY DEF ContactConstants
<1>3. OfSome(contacts, ContactRows) BY <1>1, <1>2 DEF OfSome, ContactRows
<1>4. /\ contactWork = [q \in ContactRequests |-> contactWork[q]]
      /\ \A q \in ContactRequests : contactWork[q] = NoContactTask
  BY DEF ContactsInit
<1>5. ContactsTypeOK BY <1>1, <1>2, <1>3, <1>4, NoTaskIsTyped DEF ContactsTypeOK
<1>6. InOrder(contacts)
  <2>1. DOMAIN contacts = DOMAIN i.rows BY <1>1
  <2>2. \A c \in DOMAIN contacts : /\ contacts[c].position = i.rows[c].position
                                   /\ contacts[c].isPrimary = (i.rows[c].position = 0)
    BY <1>1
  <2>3. Places(contacts) = Places(i.rows) BY <2>1, <2>2 DEF Places
  <2>4. QED BY <1>2, <2>1, <2>2, <2>3 DEF InOrder
<1>7. HoldsNothing(NoContactTask) /\ NoContactTask.pc = "idle" /\ NoContactTask.barred = {}
      /\ Wrote(NoContactTask) = {}
  BY DEF HoldsNothing, Wrote, NoContactTask, NoRows
<1>8. OrderFits(NoContactTask) BY <1>7 DEF OrderFits, Before
<1>9. QED BY <1>4, <1>5, <1>6, <1>7, <1>8 DEF OrderInv

-----------------------------------------------------------------------------
(* Where only one transaction moves, and commits nothing, the others fit   *)
(* as before.                                                              *)
LEMMA FitsStays ==
    ASSUME UNCHANGED <<contacts, contactKinds>>, NEW o, NEW b, contactWork'[o] = b, OrderFits(b)
    PROVE  OrderFits(contactWork[o])'
<1>1. contacts' = contacts /\ contactKinds' = contactKinds /\ Size' = Size BY DEF Size
<1>2. Seen(contactWork[o])' = Seen(b) BY <1>1 DEF Seen, Over
<1>3. InOrder(Seen(contactWork[o]))' <=> InOrder(Seen(b)) BY <1>2 DEF InOrder, Places
<1>4. Found(contactWork[o])' <=> Found(b) BY <1>2 DEF Found, IsOrder
<1>5. /\ Keeps(contactWork[o])' <=> Keeps(b)
      /\ Adds(contactWork[o])' <=> Adds(b)
      /\ Drops(contactWork[o])' <=> Drops(b)
      /\ Missed(contactWork[o])' <=> Missed(b)
      /\ OwnsAll(contactWork[o])' <=> OwnsAll(b)
  BY <1>1 DEF Keeps, Adds, Drops, Missed, OwnsAll, Wrote
<1>6. Before(contactWork[o])' <=> Before(b) BY <1>1 DEF Before, HoldsNothing, Wrote
<1>7. During(contactWork[o])' <=> During(b) BY <1>2, <1>4, <1>5 DEF During
<1>8. After(contactWork[o])' <=> After(b) BY <1>2, <1>3, <1>4, <1>5 DEF After
<1>9. InVain(contactWork[o])' <=> InVain(b) BY <1>5 DEF InVain
<1>10. QED BY <1>6, <1>7, <1>8, <1>9 DEF OrderFits

LEMMA OneMoves ==
    ASSUME ContactsTypeOK, OrderInv, Ordered, NEW q \in ContactRequests, NEW b,
           ContactGoes(q, b), UNCHANGED contacts, OrderFits(b),
           \A o \in ContactRequests \ {q} : Wrote(b) \cap Wrote(contactWork[o]) = {},
           "post" \in contactKinds =>
              \A o \in ContactRequests \ {q} : Size \notin b.barred \cap contactWork[o].barred
    PROVE  OrderInv'
<1>1. /\ \A r \in ContactRequests : contactWork'[r] = IF r = q THEN b ELSE contactWork[r]
      /\ UNCHANGED <<table, contactKinds, contacts>>
  BY DEF ContactGoes, contactFixed, ContactsTypeOK
<1>2. InOrder(contacts)' BY <1>1 DEF OrderInv, InOrder, Places
<1>3. ASSUME NEW r \in ContactRequests PROVE OrderFits(contactWork[r])'
  <2>1. OrderFits(IF r = q THEN b ELSE contactWork[r]) BY DEF OrderInv
  <2>2. QED BY <1>1, <2>1, FitsStays
<1>4. ASSUME NEW r \in ContactRequests, NEW o \in ContactRequests, r # o
      PROVE  Wrote(contactWork'[r]) \cap Wrote(contactWork'[o]) = {}
  <2>1. Wrote(contactWork[r]) \cap Wrote(contactWork[o]) = {} BY <1>4 DEF OrderInv
  <2>2. QED BY <1>1, <1>4, <2>1
<1>5. Size' = Size BY <1>1 DEF Size
<1>6. ASSUME "post" \in contactKinds, NEW r \in ContactRequests, NEW o \in ContactRequests,
             Size \in contactWork'[r].barred \cap contactWork'[o].barred
      PROVE  r = o
  <2>1. Size \in contactWork[r].barred \cap contactWork[o].barred => r = o BY <1>6 DEF OrderInv
  <2>2. QED BY <1>1, <1>6, <2>1
<1>7. \A r, o \in ContactRequests : r # o => Wrote(contactWork[r])' \cap Wrote(contactWork[o])' = {}
  BY <1>4 DEF Wrote
<1>8. QED BY <1>1, <1>2, <1>3, <1>5, <1>6, <1>7 DEF OrderInv

(* Where nothing is removed nothing is dropped.                            *)
LEMMA NoneDropped ==
    ASSUME "delete" \notin contactKinds, NEW task, OrderFits(task)
    PROVE  task.dropped = {}
BY DEF OrderFits, Before, During, After, InVain, Keeps, Adds, Drops, Missed, OwnsAll, HoldsNothing, Wrote

(* Who has shifted the order is the only one to hold anything.             *)
LEMMA OrderAlone ==
    ASSUME OrderInv, Ordered, NEW q \in ContactRequests, After(contactWork[q]),
           NEW o \in ContactRequests \ {q}
    PROVE  HoldsNothing(contactWork[o])
<1> DEFINE task == contactWork[q]
           other == contactWork[o]
<1>1. OrderFits(other) /\ Wrote(other) \cap Wrote(task) = {} BY DEF OrderInv
<1>2. "post" \in contactKinds => Size \notin task.barred \cap other.barred BY DEF OrderInv
<1>3. OwnsAll(task) BY DEF After
<1> HIDE DEF task, other
<1> SUFFICES HoldsNothing(other) BY DEF other
<1>4. CASE Before(other) BY <1>4 DEF Before
<1>5. CASE During(other)
  <2>1. ~Keeps(other) BY <1>1, <1>3 DEF Keeps, OwnsAll, Wrote
  <2>2. ~Drops(other) BY <1>1, <1>3 DEF Drops, OwnsAll, Wrote
  <2>3. ~Adds(other) BY <1>2, <1>3 DEF Adds, OwnsAll
  <2>4. QED BY <1>5, <2>1, <2>2, <2>3 DEF During
<1>6. CASE After(other)
  <2>1. OwnsAll(other) BY <1>6 DEF After
  <2>2. QED BY <1>1, <1>2, <1>3, <2>1 DEF OwnsAll
<1>7. CASE InVain(other)
  <2>1. Missed(other) BY <1>7 DEF InVain
  <2>2. Wrote(other) = {} BY <1>1, <1>3, <2>1 DEF Missed, OwnsAll, Wrote
  <2>3. QED BY <2>1, <2>2 DEF Missed, HoldsNothing, Wrote
<1>8. QED BY <1>1, <1>4, <1>5, <1>6, <1>7 DEF OrderFits

(* What a transaction has found, and where.                                *)
LEMMA WhereItIs ==
    ASSUME OrderInv, Ordered, NEW q \in ContactRequests
    PROVE  /\ contactWork[q].pc \in {"insert", "update"} => Before(contactWork[q])
           /\ contactWork[q].pc \in {"find", "shift", "shifting"} =>
                 During(contactWork[q]) \/ InVain(contactWork[q])
           /\ contactWork[q].pc = "arrange" => After(contactWork[q]) \/ InVain(contactWork[q])
           /\ contactWork[q].pc = "commit" => After(contactWork[q]) \/ InVain(contactWork[q])
           /\ contactWork[q].pc \notin {"promote", "demote", "demoting"}
<1> DEFINE task == contactWork[q]
<1>1. OrderFits(task) BY DEF OrderInv
<1> HIDE DEF task
<1>2. /\ Before(task) => task.pc \in {"idle", "insert", "update"}
      /\ During(task) => task.pc \in {"find", "shift", "shifting"}
      /\ After(task) => task.pc \in {"arrange", "commit"}
      /\ InVain(task) => task.pc \in {"find", "shift", "shifting", "arrange", "commit"}
  BY DEF Before, During, After, InVain
<1>3. QED BY <1>1, <1>2 DEF OrderFits, task

LEMMA FreeIsApart ==
    ASSUME NEW q \in ContactRequests, NEW S, FreeRows(q, S)
    PROVE  \A o \in ContactRequests \ {q} : Wrote(contactWork[o]) \cap S = {}
BY DEF FreeRows, Others, Wrote

LEMMA StartsInOrder ==
    ASSUME ContactConstants, ContactsTypeOK, OrderInv, Ordered, NEW q \in ContactRequests,
           \/ \E v \in ContactValues, prefers \in BOOLEAN : PostRead(q, v, prefers)
           \/ \E i \in ContactIds : ContactRead(q, i)
    PROVE  OrderInv'
<1>1. PICK b : /\ ContactGoes(q, b) /\ UNCHANGED contacts
               /\ b.mine = NoRows /\ b.dropped = {} /\ b.barred = {}
               /\ \/ b.pc = "insert" /\ "post" \in contactKinds /\ b.last = LastPlace(contacts)
                  \/ b.pc = "update" /\ b.op = "patch" /\ b.row \in DOMAIN contacts
  <2>1. ASSUME NEW v \in ContactValues, NEW prefers \in BOOLEAN, PostRead(q, v, prefers)
        PROVE  /\ "post" \in contactKinds /\ UNCHANGED contacts
               /\ ContactGoes(q, [NoContactTask EXCEPT !.pc = "insert", !.value = v,
                                    !.prefers = prefers, !.last = LastPlace(contacts)])
    BY <2>1 DEF PostRead, ContactStarts
  <2>2. ASSUME NEW i \in ContactIds, ContactRead(q, i)
        PROVE  \E prefers \in BOOLEAN :
                  /\ i \in DOMAIN contacts /\ UNCHANGED contacts
                  /\ ContactGoes(q, [NoContactTask EXCEPT !.pc = "update", !.op = "patch",
                                       !.row = i, !.prefers = prefers])
    BY <2>2 DEF ContactRead, ContactStarts
  <2>3. \A v, prefers, last :
           LET b == [NoContactTask EXCEPT !.pc = "insert", !.value = v, !.prefers = prefers,
                                          !.last = last] IN
           /\ b.mine = NoRows /\ b.dropped = {} /\ b.barred = {} /\ b.pc = "insert"
           /\ b.last = last
    BY DEF NoContactTask
  <2>4. \A i, prefers :
           LET b == [NoContactTask EXCEPT !.pc = "update", !.op = "patch", !.row = i,
                                          !.prefers = prefers] IN
           /\ b.mine = NoRows /\ b.dropped = {} /\ b.barred = {} /\ b.pc = "update"
           /\ b.op = "patch" /\ b.row = i
    BY DEF NoContactTask
  <2>5. CASE \E v \in ContactValues, prefers \in BOOLEAN : PostRead(q, v, prefers)
    <3>1. PICK v \in ContactValues, prefers \in BOOLEAN : PostRead(q, v, prefers) BY <2>5
    <3>2. PICK b : b = [NoContactTask EXCEPT !.pc = "insert", !.value = v,
                           !.prefers = prefers, !.last = LastPlace(contacts)]
      OBVIOUS
    <3>3. ContactGoes(q, b) /\ "post" \in contactKinds /\ UNCHANGED contacts BY <2>1, <3>1, <3>2
    <3>4. /\ b.mine = NoRows /\ b.dropped = {} /\ b.barred = {} /\ b.pc = "insert"
          /\ b.last = LastPlace(contacts)
      BY <2>3, <3>2
    <3>5. QED BY <3>3, <3>4
  <2>6. CASE \E i \in ContactIds : ContactRead(q, i)
    <3>1. PICK i \in ContactIds : ContactRead(q, i) BY <2>6
    <3>2. PICK b, prefers : b = [NoContactTask EXCEPT !.pc = "update", !.op = "patch", !.row = i,
                                                       !.prefers = prefers]
                            /\ ContactGoes(q, b) /\ i \in DOMAIN contacts /\ UNCHANGED contacts
      BY <2>2, <3>1
    <3>3. /\ b.mine = NoRows /\ b.dropped = {} /\ b.barred = {} /\ b.pc = "update"
          /\ b.op = "patch" /\ b.row = i
      BY <2>4, <3>2
    <3>4. QED BY <3>2, <3>3
  <2>7. QED BY <2>5, <2>6
<1>2. InOrder(contacts) /\ OfSome(contacts, ContactRows) BY DEF OrderInv, ContactsTypeOK
<1>3. LastPlace(contacts) + 1 \in 0..Size
  <2>1. LastPlace(contacts) = Size - 1 BY <1>2, InOrderLast DEF Size
  <2>2. Size \in Nat BY <1>2, PlacesAre DEF Size
  <2>3. QED BY <2>1, <2>2
<1>4. Wrote(b) = {} BY <1>1 DEF Wrote, NoRows
<1>5. OrderFits(b) BY <1>1, <1>3, <1>4 DEF OrderFits, Before, HoldsNothing
<1>6. QED BY <1>1, <1>4, <1>5, OneMoves

LEMMA DeleteInOrder ==
    ASSUME ContactConstants, ContactsTypeOK, OrderInv, Ordered, NEW q \in ContactRequests,
           NEW i \in ContactIds, ContactDelete(q, i)
    PROVE  OrderInv'
<1>1. PICK b : /\ ContactGoes(q, b) /\ UNCHANGED contacts
               /\ b.mine = NoRows /\ b.dropped = {i} /\ b.pc = "find" /\ b.row = i
  <2>1. PICK b : b = [NoContactTask EXCEPT !.pc = "find", !.op = "delete", !.row = i,
                         !.dropped = {i}, !.barred = {contacts[i].position}]
    OBVIOUS
  <2>2. b.mine = NoRows /\ b.dropped = {i} /\ b.pc = "find" /\ b.row = i
    BY <2>1 DEF NoContactTask
  <2>3. ContactGoes(q, b) /\ UNCHANGED contacts BY <2>1 DEF ContactDelete, ContactStarts
  <2>4. QED BY <2>2, <2>3
<1>2. i \in DOMAIN contacts /\ "delete" \in contactKinds /\ "post" \notin contactKinds
  BY DEF ContactDelete, ContactStarts, Ordered
<1>3. Wrote(b) = {i} BY <1>1 DEF Wrote, NoRows
<1>4. OrderFits(b) BY <1>1, <1>2 DEF OrderFits, During, Drops, NoRows
<1>5. \A o \in ContactRequests \ {q} : Wrote(contactWork[o]) \cap {i} = {}
  BY FreeIsApart DEF ContactDelete
<1>6. QED BY <1>1, <1>2, <1>3, <1>4, <1>5, OneMoves

LEMMA UpsertInOrder ==
    ASSUME ContactConstants, ContactsTypeOK, OrderInv, Ordered, NEW q \in ContactRequests, Upsert(q)
    PROVE  OrderInv'
<1> DEFINE task == contactWork[q]
           same == {i \in DOMAIN contacts : contacts[i].value = task.value}
           place == IF table = "phones" THEN task.last + 1 ELSE LastPlace(contacts) + 1
           i0 == CHOOSE i \in FreshIds : TRUE
<1>1. task.pc = "insert" /\ FreeRows(q, same) /\ UNCHANGED contacts BY DEF Upsert
<1>2. /\ HoldsNothing(task) /\ "post" \in contactKinds /\ "delete" \notin contactKinds
      /\ task.last + 1 \in 0..Size /\ place = task.last + 1
  BY <1>1, WhereItIs DEF Before, Ordered
<1>3. CASE \E i \in same : ContactGoes(q, [task EXCEPT !.pc = "find", !.row = i,
                                              !.mine = [j \in {i} |-> contacts[j]]])
  <2>1. PICK i \in same : ContactGoes(q, [task EXCEPT !.pc = "find", !.row = i,
                                              !.mine = [j \in {i} |-> contacts[j]]])
    BY <1>3
  <2>2. PICK b : b = [task EXCEPT !.pc = "find", !.row = i, !.mine = [j \in {i} |-> contacts[j]]]
    OBVIOUS
  <2>3. ContactTaskOK(task) BY DEF ContactsTypeOK
  <2>4. /\ b.mine = [j \in {i} |-> contacts[j]] /\ b.pc = "find" /\ b.row = i
        /\ b.dropped = {} /\ b.barred = {}
    BY <1>2, <2>2, <2>3 DEF HoldsNothing, Wrote, ContactTaskOK, ContactTasks
  <2>5. OrderFits(b) BY <2>4 DEF OrderFits, During, Keeps
  <2>6. Wrote(b) = {i} BY <2>4 DEF Wrote
  <2>7. \A o \in ContactRequests \ {q} : Wrote(contactWork[o]) \cap same = {} BY <1>1, FreeIsApart
  <2>8. \A o \in ContactRequests \ {q} : Wrote(b) \cap Wrote(contactWork[o]) = {} BY <2>6, <2>7
  <2>9. ContactGoes(q, b) BY <2>1, <2>2
  <2>10. QED BY <1>1, <2>4, <2>5, <2>8, <2>9, OneMoves
<1>4. CASE /\ FreePlaces(q, {place}, Places(contacts)) /\ FreshIds # {}
           /\ ContactGoes(q, [task EXCEPT !.pc = "find", !.row = i0, !.barred = {place},
                 !.mine = [j \in {i0} |->
                     [value |-> task.value, isPrimary |-> FALSE, position |-> place]]])
  <2>1. PICK b : b = [task EXCEPT !.pc = "find", !.row = i0, !.barred = {place},
                 !.mine = [j \in {i0} |->
                     [value |-> task.value, isPrimary |-> FALSE, position |-> place]]]
    OBVIOUS
  <2>2. ContactTaskOK(task) BY DEF ContactsTypeOK
  <2>3. /\ DOMAIN b.mine = {i0} /\ b.mine[i0].position = place /\ b.pc = "find" /\ b.row = i0
        /\ b.dropped = {} /\ b.barred = {place}
    BY <1>2, <2>1, <2>2 DEF HoldsNothing, Wrote, ContactTaskOK, ContactTasks
  <2>4. place = Size
    <3>1. place \notin Places(contacts) BY <1>4 DEF FreePlaces, Ordered
    <3>2. Places(contacts) = 0..Size - 1 BY DEF OrderInv, InOrder, Size
    <3>3. Size \in Nat
      <4>1. OfSome(contacts, ContactRows) BY DEF ContactsTypeOK
      <4>2. QED BY <4>1, PlacesAre DEF Size
    <3> HIDE DEF place
    <3>4. QED BY <1>2, <3>1, <3>2, <3>3
  <2>5. \A o \in ContactRequests \ {q} : place \notin contactWork[o].barred
    BY <1>4 DEF FreePlaces, Others, Ordered
  <2>6. i0 \in FreshIds BY <1>4
  <2>7. i0 \notin DOMAIN contacts /\ \A o \in ContactRequests : i0 \notin DOMAIN contactWork[o].mine
    BY <2>6 DEF FreshIds
  <2>8. \A o \in ContactRequests : contactWork[o].dropped = {} BY <1>2, NoneDropped DEF OrderInv
  <2> HIDE DEF i0, place, task, same
  <2>9. OrderFits(b) BY <1>2, <2>3, <2>4, <2>7 DEF OrderFits, During, Adds
  <2>10. Wrote(b) = {i0} BY <2>3 DEF Wrote
  <2>11. \A o \in ContactRequests \ {q} : Wrote(b) \cap Wrote(contactWork[o]) = {}
    BY <2>7, <2>8, <2>10 DEF Wrote
  <2>12. ContactGoes(q, b) BY <1>4, <2>1
  <2>13. \A o \in ContactRequests \ {q} : Size \notin b.barred \cap contactWork[o].barred
    BY <2>4, <2>5
  <2>14. QED BY <1>1, <2>9, <2>11, <2>12, <2>13, OneMoves
<1>5. QED BY <1>3, <1>4 DEF Upsert

LEMMA WriteInOrder ==
    ASSUME ContactConstants, ContactsTypeOK, OrderInv, Ordered, NEW q \in ContactRequests,
           ContactWrite(q)
    PROVE  OrderInv'
<1> DEFINE task == contactWork[q]
           there == {task.row} \cap DOMAIN contacts
<1>1. PICK b, rows :
         /\ task.pc = "update" /\ FreeRows(q, there) /\ UNCHANGED contacts
         /\ b = [task EXCEPT !.pc = "find", !.mine = rows] /\ ContactGoes(q, b)
         /\ DOMAIN rows = there /\ \A i \in there : rows[i].position = contacts[i].position
  <2>1. PICK flag : /\ task.pc = "update" /\ FreeRows(q, there) /\ UNCHANGED contacts
                    /\ ContactGoes(q, [task EXCEPT !.pc = "find",
                          !.mine = [i \in there |-> [contacts[i] EXCEPT !.isPrimary = flag]]])
    BY DEF ContactWrite
  <2>2. PICK rows : rows = [i \in there |-> [contacts[i] EXCEPT !.isPrimary = flag]] OBVIOUS
  <2>3. ContactGoes(q, [task EXCEPT !.pc = "find", !.mine = rows]) BY <2>1, <2>2
  <2>4. PICK b : b = [task EXCEPT !.pc = "find", !.mine = rows] OBVIOUS
  <2>5. ContactGoes(q, b) BY <2>3, <2>4
  <2>6. DOMAIN rows = there /\ \A i \in there : rows[i].position = contacts[i].position
    BY <2>2 DEF ContactsTypeOK, OfSome, ContactRows
  <2>7. QED BY <2>1, <2>4, <2>5, <2>6
<1>2. /\ HoldsNothing(task) /\ task.op = "patch"
      /\ task.row \in DOMAIN contacts \/ "delete" \in contactKinds
  BY <1>1, WhereItIs DEF Before
<1>3. ContactTaskOK(task) BY DEF ContactsTypeOK
<1>4. /\ b.mine = rows /\ b.pc = "find" /\ b.row = task.row /\ b.dropped = {} /\ b.barred = {}
      /\ b.op = "patch"
  BY <1>1, <1>2, <1>3 DEF HoldsNothing, Wrote, ContactTaskOK, ContactTasks
<1>5. DOMAIN rows = there BY <1>1
<1>6. \A i \in there : rows[i].position = contacts[i].position BY <1>1
<1>7. OrderFits(b)
  <2>1. CASE task.row \in DOMAIN contacts
    BY <1>4, <1>5, <1>6, <2>1 DEF OrderFits, During, Keeps
  <2>2. CASE task.row \notin DOMAIN contacts
    BY <1>2, <1>4, <1>5, <2>2 DEF OrderFits, InVain, Missed
  <2>3. QED BY <2>1, <2>2
<1>8. Wrote(b) = there BY <1>4, <1>5 DEF Wrote
<1>9. \A o \in ContactRequests \ {q} : Wrote(contactWork[o]) \cap there = {} BY <1>1, FreeIsApart
<1> HIDE DEF there, task
<1>10. \A o \in ContactRequests \ {q} : Wrote(b) \cap Wrote(contactWork[o]) = {} BY <1>8, <1>9
<1>11. QED BY <1>1, <1>4, <1>7, <1>10, OneMoves

(* A transaction sees the same rows whatever it does but write.            *)
LEMMA SeesAgain ==
    ASSUME NEW task, NEW b, b.mine = task.mine, b.dropped = task.dropped, b.row = task.row,
           b.barred = task.barred, b.op = task.op
    PROVE  /\ Seen(b) = Seen(task) /\ Wrote(b) = Wrote(task)
           /\ Keeps(task) => Keeps(b)
           /\ Adds(task) => Adds(b)
           /\ Drops(task) => Drops(b)
           /\ Missed(task) => Missed(b)
BY DEF Seen, Wrote, Keeps, Adds, Drops, Missed

LEMMA SeenDistinct ==
    ASSUME ContactConstants, ContactsTypeOK, OrderInv, Ordered, NEW task, ContactTaskOK(task),
           Keeps(task) \/ Adds(task) \/ Drops(task)
    PROVE  \A i, j \in DOMAIN Seen(task) :
              Seen(task)[i].position = Seen(task)[j].position => i = j
<1>1. /\ OfSome(contacts, ContactRows) /\ InOrder(contacts)
      /\ \A i, j \in DOMAIN contacts : contacts[i].position = contacts[j].position => i = j
  BY InOrderDistinct DEF ContactsTypeOK, OrderInv
<1>2. /\ DOMAIN Seen(task) = (DOMAIN contacts \ task.dropped) \cup DOMAIN task.mine
      /\ \A i \in DOMAIN task.mine : Seen(task)[i] = task.mine[i]
      /\ \A i \in DOMAIN contacts \ (task.dropped \cup DOMAIN task.mine) :
            Seen(task)[i] = contacts[i]
  BY SeenIs
<1>3. CASE Keeps(task)
  <2>1. \A i \in DOMAIN Seen(task) :
           i \in DOMAIN contacts /\ Seen(task)[i].position = contacts[i].position
    BY <1>2, <1>3 DEF Keeps
  <2>2. QED BY <1>1, <2>1
<1>4. CASE Adds(task)
  <2>1. \A i \in DOMAIN contacts : contacts[i].position # Size
    <3>1. Places(contacts) = 0..Size - 1 /\ Size \in Nat BY <1>1, PlacesAre DEF InOrder, Size
    <3>2. \A i \in DOMAIN contacts : contacts[i].position \in 0..Size - 1 BY <3>1 DEF Places
    <3>3. QED BY <3>1, <3>2
  <2>2. \A i \in DOMAIN Seen(task) :
           \/ i = task.row /\ Seen(task)[i].position = Size
           \/ i \in DOMAIN contacts /\ Seen(task)[i].position = contacts[i].position
    BY <1>2, <1>4 DEF Adds
  <2>3. QED BY <1>1, <2>1, <2>2
<1>5. CASE Drops(task)
  <2>1. \A i \in DOMAIN Seen(task) : i \in DOMAIN contacts /\ Seen(task)[i] = contacts[i]
    BY <1>2, <1>5 DEF Drops
  <2>2. QED BY <1>1, <2>1
<1>6. QED BY <1>3, <1>4, <1>5

LEMMA FindInOrder ==
    ASSUME ContactConstants, ContactsTypeOK, OrderInv, Ordered, NEW q \in ContactRequests,
           FindRows(q)
    PROVE  OrderInv'
<1>1. PICK task : task = contactWork[q] OBVIOUS
<1>2. task.pc = "find" /\ UNCHANGED contacts /\ table = "phones" BY <1>1 DEF FindRows, Ordered
<1>3. ContactTaskOK(task) BY <1>1 DEF ContactsTypeOK
<1>4. During(task) \/ InVain(task) BY <1>1, <1>2, WhereItIs
<1>5. /\ OfSome(Seen(task), ContactRows)
      /\ DOMAIN Seen(task) = (DOMAIN contacts \ task.dropped) \cup DOMAIN task.mine
  BY <1>3, SeenIs
<1>6. ASSUME NEW b, ContactGoes(q, b), b.mine = task.mine, b.dropped = task.dropped,
             b.row = task.row, b.barred = task.barred, b.op = task.op, OrderFits(b)
      PROVE  OrderInv'
  <2>1. Wrote(b) = Wrote(task) BY <1>6, SeesAgain
  <2>2. \A o \in ContactRequests \ {q} : Wrote(b) \cap Wrote(contactWork[o]) = {}
    BY <1>1, <2>1 DEF OrderInv
  <2>3. "post" \in contactKinds =>
           \A o \in ContactRequests \ {q} : Size \notin b.barred \cap contactWork[o].barred
    BY <1>1, <1>6 DEF OrderInv
  <2>4. QED BY <1>2, <1>6, <2>2, <2>3, OneMoves
<1>7. CASE DOMAIN Seen(task) = {}
  <2>1. PICK b : b = [task EXCEPT !.pc = "commit"] OBVIOUS
  <2>2. /\ b.pc = "commit" /\ b.mine = task.mine /\ b.dropped = task.dropped /\ b.row = task.row
        /\ b.barred = task.barred /\ b.op = task.op
    BY <1>3, <2>1 DEF ContactTaskOK, ContactTasks
  <2>3. ContactGoes(q, b) BY <1>1, <1>7, <2>1 DEF FindRows
  <2>4. OrderFits(b)
    <3>1. CASE InVain(task)
      <4>1. Missed(b) BY <2>2, <3>1, SeesAgain DEF InVain
      <4>2. QED BY <2>2, <4>1 DEF OrderFits, InVain
    <3>2. CASE During(task)
      <4>1. Drops(task) BY <1>5, <1>7, <3>2 DEF During, Keeps, Adds
      <4>2. Drops(b) /\ Seen(b) = Seen(task) BY <2>2, <4>1, SeesAgain
      <4>3. OwnsAll(b)
        <5>1. DOMAIN contacts \subseteq {task.row} BY <1>5, <1>7, <4>1 DEF Drops
        <5>2. QED BY <2>2, <4>2, <5>1 DEF OwnsAll, Drops, Wrote, Ordered
      <4>4. InOrder(Seen(b))
        <5>1. Places(Seen(b)) = {} BY <1>7, <4>2 DEF Places
        <5>2. Cardinality(DOMAIN Seen(b)) = 0 BY <1>7, <4>2, FS_EmptySet
        <5>3. QED BY <1>7, <4>2, <5>1, <5>2 DEF InOrder
      <4>5. QED BY <2>2, <4>3, <4>4 DEF OrderFits, After
    <3>3. QED BY <1>4, <3>1, <3>2
  <2>5. QED BY <1>6, <2>2, <2>3, <2>4
<1>8. CASE DOMAIN Seen(task) # {}
  <2>1. PICK rows : rows = Seen(task) OBVIOUS
  <2> DEFINE flagged == {i \in DOMAIN rows : rows[i].isPrimary}
             chosen == IF task.prefers /\ task.row \in DOMAIN rows THEN task.row
                       ELSE Foremost(rows, IF flagged # {} THEN flagged ELSE DOMAIN rows)
  <2>2. chosen \in DOMAIN rows BY <1>5, <1>8, <2>1, ForemostIs
  <2>3. PICK c : c = chosen OBVIOUS
  <2>4. PICK order : order = Order(rows, c) OBVIOUS
  <2>5. PICK b : b = [task EXCEPT !.pc = "shift", !.chosen = c, !.order = order] OBVIOUS
  <2>6. /\ b.pc = "shift" /\ b.mine = task.mine /\ b.dropped = task.dropped /\ b.row = task.row
        /\ b.barred = task.barred /\ b.op = task.op /\ b.chosen = c /\ b.order = order
    BY <1>3, <2>5 DEF ContactTaskOK, ContactTasks
  <2>7. ContactGoes(q, b) BY <1>1, <1>2, <1>8, <2>1, <2>3, <2>4, <2>5 DEF FindRows
  <2>8. OrderFits(b)
    <3>1. CASE InVain(task)
      <4>1. Missed(b) BY <2>6, <3>1, SeesAgain DEF InVain
      <4>2. QED BY <2>6, <4>1 DEF OrderFits, InVain
    <3>2. CASE During(task)
      <4>1. Keeps(b) \/ Adds(b) \/ Drops(b) BY <2>6, <3>2, SeesAgain DEF During
      <4>2. Seen(b) = rows BY <2>1, <2>6, SeesAgain
      <4>3. IsOrder(order, c)
        <5>1. \A i, j \in DOMAIN rows : rows[i].position = rows[j].position => i = j
          BY <1>3, <2>1, <3>2, SeenDistinct DEF During
        <5>2. OfSome(rows, ContactRows) /\ c \in DOMAIN rows BY <1>5, <2>1, <2>2, <2>3
        <5>3. QED BY <2>4, <5>1, <5>2, OrderOrders
      <4>4. DOMAIN order = DOMAIN rows BY <2>4 DEF Order
      <4>5. QED BY <2>6, <4>1, <4>2, <4>3, <4>4 DEF OrderFits, During, Found
    <3>3. QED BY <1>4, <3>1, <3>2
  <2>9. QED BY <1>6, <2>6, <2>7, <2>8
<1>9. QED BY <1>7, <1>8

LEMMA BeginInOrder ==
    ASSUME ContactConstants, ContactsTypeOK, OrderInv, Ordered, NEW q \in ContactRequests,
           ShiftBegins(q)
    PROVE  OrderInv'
<1>1. PICK task : task = contactWork[q] OBVIOUS
<1>2. PICK b : b = [task EXCEPT !.pc = "shifting", !.seen = DOMAIN Seen(task)] OBVIOUS
<1>3. task.pc = "shift" /\ UNCHANGED contacts /\ ContactGoes(q, b)
  BY <1>1, <1>2 DEF ShiftBegins, StatementBegins
<1>4. ContactTaskOK(task) BY <1>1 DEF ContactsTypeOK
<1>5. During(task) \/ InVain(task) BY <1>1, <1>3, WhereItIs
<1>6. /\ b.pc = "shifting" /\ b.mine = task.mine /\ b.dropped = task.dropped /\ b.row = task.row
      /\ b.barred = task.barred /\ b.op = task.op /\ b.chosen = task.chosen
      /\ b.order = task.order /\ b.seen = DOMAIN Seen(task)
  BY <1>2, <1>4 DEF ContactTaskOK, ContactTasks
<1>7. Wrote(b) = Wrote(task) /\ Seen(b) = Seen(task) BY <1>6, SeesAgain
<1>8. OrderFits(b)
  <2>1. CASE InVain(task)
    <3>1. Missed(b) BY <1>6, <2>1, SeesAgain DEF InVain
    <3>2. QED BY <1>6, <3>1 DEF OrderFits, InVain
  <2>2. CASE During(task)
    <3>1. Keeps(b) \/ Adds(b) \/ Drops(b) BY <1>6, <2>2, SeesAgain DEF During
    <3>2. Found(b) BY <1>3, <1>6, <1>7, <2>2 DEF During, Found
    <3>3. QED BY <1>6, <1>7, <3>1, <3>2 DEF OrderFits, During
  <2>3. QED BY <1>5, <2>1, <2>2
<1>9. \A o \in ContactRequests \ {q} : Wrote(b) \cap Wrote(contactWork[o]) = {}
  BY <1>1, <1>7 DEF OrderInv
<1>10. "post" \in contactKinds =>
         \A o \in ContactRequests \ {q} : Size \notin b.barred \cap contactWork[o].barred
  BY <1>1, <1>6 DEF OrderInv
<1>11. QED BY <1>3, <1>8, <1>9, <1>10, OneMoves

LEMMA ShiftInOrder ==
    ASSUME ContactConstants, ContactsTypeOK, OrderInv, Ordered, NEW q \in ContactRequests,
           ShiftRows(q)
    PROVE  OrderInv'
<1>1. PICK task, now : task = contactWork[q] /\ now = Seen(task) OBVIOUS
<1>2. PICK M : M = Cardinality(DOMAIN task.order) OBVIOUS
<1>3. PICK rows : rows = [i \in task.seen \cap DOMAIN now |->
                             [now[i] EXCEPT !.position = now[i].position + M]]
  OBVIOUS
<1>4. PICK left : left = {now[i].position : i \in DOMAIN rows} OBVIOUS
<1>5. PICK b : b = [task EXCEPT !.pc = "arrange", !.mine = Over(rows, task.mine),
                                !.barred = task.barred \cup (Places(rows) \cup left), !.seen = {}]
  OBVIOUS
<1>6. StatementWrites(q, "shifting", "arrange", rows, Places(rows) \cup left) /\ Placed(q, rows)
  BY <1>1, <1>2, <1>3, <1>4 DEF ShiftRows
<1>7. /\ task.pc = "shifting" /\ FreeRows(q, DOMAIN rows) /\ ContactGoes(q, b) /\ UNCHANGED contacts
  BY <1>1, <1>5, <1>6 DEF StatementWrites
<1>8. ContactTaskOK(task) BY <1>1 DEF ContactsTypeOK
<1>9. During(task) \/ InVain(task) BY <1>1, <1>7, WhereItIs
<1>10. /\ b.pc = "arrange" /\ b.mine = Over(rows, task.mine) /\ b.dropped = task.dropped
       /\ b.row = task.row /\ b.barred = task.barred \cup Places(rows) \cup left
       /\ b.op = task.op /\ b.chosen = task.chosen /\ b.order = task.order
  BY <1>5, <1>8 DEF ContactTaskOK, ContactTasks
<1>11. DOMAIN b.mine = DOMAIN rows \cup DOMAIN task.mine BY <1>10 DEF Over
<1>12. DOMAIN Seen(b) = (DOMAIN contacts \ b.dropped) \cup DOMAIN b.mine BY DEF Seen, Over
<1>13. /\ DOMAIN now = (DOMAIN contacts \ task.dropped) \cup DOMAIN task.mine
       /\ \A i \in DOMAIN task.mine : now[i] = task.mine[i]
       /\ \A i \in DOMAIN contacts \ (task.dropped \cup DOMAIN task.mine) : now[i] = contacts[i]
       /\ OfSome(now, ContactRows)
  BY <1>1, <1>8, SeenIs
<1>14. DOMAIN rows = task.seen \cap DOMAIN now BY <1>3
<1>15. \A o \in ContactRequests \ {q} : Wrote(contactWork[o]) \cap Wrote(b) = {}
  <2>1. \A o \in ContactRequests \ {q} : Wrote(contactWork[o]) \cap Wrote(task) = {}
    BY <1>1 DEF OrderInv
  <2>2. \A o \in ContactRequests \ {q} : Wrote(contactWork[o]) \cap DOMAIN rows = {}
    BY <1>7, FreeIsApart
  <2>3. Wrote(b) = Wrote(task) \cup DOMAIN rows BY <1>10, <1>11 DEF Wrote
  <2>4. QED BY <2>1, <2>2, <2>3
<1>16. CASE InVain(task)
  <2>1. Missed(task) BY <1>16 DEF InVain
  <2>2. DOMAIN rows \subseteq DOMAIN contacts BY <1>13, <1>14, <2>1 DEF Missed
  <2>3. DOMAIN b.mine = {} => b.barred = {}
    <3>1. DOMAIN rows = {} => Places(rows) = {} /\ left = {} BY <1>4 DEF Places
    <3>2. QED BY <1>10, <1>11, <2>1, <3>1 DEF Missed
  <2>4. OrderFits(b) BY <1>10, <1>11, <2>1, <2>2, <2>3 DEF OrderFits, InVain, Missed
  <2>5. "post" \notin contactKinds BY <2>1 DEF Missed, Ordered
  <2>6. QED BY <1>7, <1>15, <2>4, <2>5, OneMoves
<1>17. CASE During(task)
  <2>1. /\ Keeps(task) \/ Adds(task) \/ Drops(task)
        /\ Found(task) /\ task.seen = DOMAIN now
    BY <1>1, <1>7, <1>17 DEF During
  <2>2. DOMAIN rows = DOMAIN now BY <1>14, <2>1
  <2>3. DOMAIN b.mine = DOMAIN now /\ DOMAIN Seen(b) = DOMAIN now
    BY <1>10, <1>11, <1>12, <1>13, <2>2
  <2>4. Found(b) BY <1>1, <1>10, <2>1, <2>3 DEF Found
  <2>5. "post" \in contactKinds /\ Keeps(task) => Size \in Places(rows)
    <3>1. SUFFICES ASSUME Keeps(task) PROVE Size \in Places(rows) OBVIOUS
    <3>2. DOMAIN now = DOMAIN contacts /\ M = Size
      BY <1>1, <1>2, <1>13, <2>1, <3>1 DEF Keeps, Found, Size
    <3>3. Places(contacts) = 0..Size - 1 /\ OfSome(contacts, ContactRows)
      BY DEF OrderInv, InOrder, Size, ContactsTypeOK
    <3>4. Size \in Nat /\ Size # 0
      <4>1. IsFiniteSet(DOMAIN contacts) /\ Size \in Nat BY <3>3, PlacesAre DEF Size
      <4>2. QED BY <3>1, <4>1, FS_EmptySet DEF Keeps, Size
    <3>5. 0 \in Places(contacts) BY <3>3, <3>4
    <3>6. PICK i \in DOMAIN contacts : contacts[i].position = 0 BY <3>5 DEF Places
    <3>7. now[i].position = 0 /\ now[i] \in ContactRows
      <4>1. CASE i = task.row BY <1>13, <3>1, <3>6, <4>1 DEF Keeps, OfSome
      <4>2. CASE i # task.row BY <1>13, <3>1, <3>6, <4>2 DEF Keeps, OfSome
      <4>3. QED BY <4>1, <4>2
    <3>8. i \in DOMAIN rows /\ rows[i] = [now[i] EXCEPT !.position = now[i].position + M]
      BY <1>3, <2>2, <3>2
    <3>9. rows[i].position = 0 + Size BY <3>2, <3>7, <3>8 DEF ContactRows
    <3>10. rows[i].position = Size BY <3>4, <3>9
    <3>11. QED BY <3>8, <3>10 DEF Places
  <2>6. OwnsAll(b)
    <3>1. DOMAIN contacts \subseteq Wrote(b) /\ Wrote(b) # {}
      BY <1>10, <1>11, <1>13, <2>1, <2>2 DEF Wrote, Keeps, Adds, Drops
    <3>2. "post" \in contactKinds => Size \in b.barred
      BY <1>10, <2>1, <2>5 DEF Adds, Drops, Ordered
    <3>3. "post" \notin contactKinds => Wrote(b) \subseteq DOMAIN contacts
      BY <1>10, <1>11, <1>13, <2>1, <2>2 DEF Wrote, Keeps, Adds, Drops
    <3>4. b.dropped # {} => "delete" \in contactKinds BY <1>10, <2>1 DEF Keeps, Adds, Drops
    <3>5. QED BY <3>1, <3>2, <3>3, <3>4 DEF OwnsAll
  <2>7. OrderFits(b) BY <1>10, <2>3, <2>4, <2>6 DEF OrderFits, After
  <2>8. ASSUME "post" \in contactKinds, NEW o \in ContactRequests \ {q}
        PROVE  Size \notin contactWork[o].barred
    <3>1. CASE Keeps(task)
      <4>1. FreePlaces(q, Places(rows), {Seen(contactWork[q])[i].position :
                                            i \in DOMAIN Seen(contactWork[q]) \ DOMAIN rows})
        BY <1>6 DEF Placed
      <4>2. Places(rows) \cap UNION {t.barred : t \in Others(q)} = {}
        BY <4>1 DEF FreePlaces, Ordered
      <4>3. QED BY <2>5, <2>8, <3>1, <4>2 DEF Others
    <3>2. CASE Adds(task) BY <1>1, <2>8, <3>2 DEF Adds, OrderInv
    <3>3. ~Drops(task) BY <2>8 DEF Drops, Ordered
    <3>4. QED BY <2>1, <3>1, <3>2, <3>3
  <2>9. QED BY <1>7, <1>15, <2>7, <2>8, OneMoves
<1>18. QED BY <1>9, <1>16, <1>17

LEMMA ArrangeInOrder ==
    ASSUME ContactConstants, ContactsTypeOK, OrderInv, Ordered, NEW q \in ContactRequests,
           Arrange(q)
    PROVE  OrderInv'
<1>1. PICK task, now : task = contactWork[q] /\ now = Seen(task) OBVIOUS
<1>2. PICK rows : rows = [i \in DOMAIN task.order \cap DOMAIN now |->
                    [now[i] EXCEPT !.isPrimary = (i = task.chosen), !.position = task.order[i]]]
  OBVIOUS
<1>3. PICK b : b = [task EXCEPT !.pc = "commit", !.mine = Over(rows, task.mine),
                                !.barred = task.barred \cup Places(rows), !.seen = {}]
  OBVIOUS
<1>4. StatementWrites(q, "arrange", "commit", rows, Places(rows))
  BY <1>1, <1>2 DEF Arrange
<1>5. /\ task.pc = "arrange" /\ FreeRows(q, DOMAIN rows) /\ ContactGoes(q, b) /\ UNCHANGED contacts
  BY <1>1, <1>3, <1>4 DEF StatementWrites
<1>6. ContactTaskOK(task) BY <1>1 DEF ContactsTypeOK
<1>7. After(task) \/ InVain(task) BY <1>1, <1>5, WhereItIs
<1>8. /\ b.pc = "commit" /\ b.mine = Over(rows, task.mine) /\ b.dropped = task.dropped
      /\ b.row = task.row /\ b.barred = task.barred \cup Places(rows) /\ b.op = task.op
  BY <1>3, <1>6 DEF ContactTaskOK, ContactTasks
<1>9. /\ DOMAIN b.mine = DOMAIN rows \cup DOMAIN task.mine
      /\ \A i \in DOMAIN rows : b.mine[i] = rows[i]
  BY <1>8 DEF Over
<1>10. /\ DOMAIN now = (DOMAIN contacts \ task.dropped) \cup DOMAIN task.mine
       /\ OfSome(now, ContactRows)
  BY <1>1, <1>6, SeenIs
<1>11. DOMAIN rows = DOMAIN task.order \cap DOMAIN now BY <1>2
<1>12. \A o \in ContactRequests \ {q} : Wrote(contactWork[o]) \cap Wrote(b) = {}
  <2>1. \A o \in ContactRequests \ {q} : Wrote(contactWork[o]) \cap Wrote(task) = {}
    BY <1>1 DEF OrderInv
  <2>2. \A o \in ContactRequests \ {q} : Wrote(contactWork[o]) \cap DOMAIN rows = {}
    BY <1>5, FreeIsApart
  <2>3. Wrote(b) = Wrote(task) \cup DOMAIN rows BY <1>8, <1>9 DEF Wrote
  <2>4. QED BY <2>1, <2>2, <2>3
<1>13. CASE InVain(task)
  <2>1. Missed(task) BY <1>13 DEF InVain
  <2>2. DOMAIN rows \subseteq DOMAIN contacts BY <1>10, <1>11, <2>1 DEF Missed
  <2>3. DOMAIN b.mine = {} => b.barred = {}
    <3>1. DOMAIN rows = {} => Places(rows) = {} BY DEF Places
    <3>2. QED BY <1>8, <1>9, <2>1, <3>1 DEF Missed
  <2>4. OrderFits(b) BY <1>8, <1>9, <2>1, <2>2, <2>3 DEF OrderFits, InVain, Missed
  <2>5. "post" \notin contactKinds BY <2>1 DEF Missed, Ordered
  <2>6. QED BY <1>5, <1>12, <2>4, <2>5, OneMoves
<1>14. CASE After(task)
  <2>1. OwnsAll(task) /\ Found(task) /\ DOMAIN task.mine = DOMAIN now
    BY <1>1, <1>5, <1>14 DEF After
  <2>2. DOMAIN rows = DOMAIN now /\ DOMAIN task.order = DOMAIN now
    BY <1>1, <1>11, <2>1 DEF Found
  <2>3. Wrote(b) = Wrote(task) BY <1>8, <1>9, <2>1, <2>2 DEF Wrote
  <2>4. OwnsAll(b) BY <1>8, <2>1, <2>3 DEF OwnsAll
  <2>5. DOMAIN b.mine = DOMAIN now BY <1>9, <2>1, <2>2
  <2>6. DOMAIN Seen(b) = DOMAIN now /\ \A i \in DOMAIN now : Seen(b)[i] = b.mine[i]
    <3>1. DOMAIN Seen(b) = (DOMAIN contacts \ b.dropped) \cup DOMAIN b.mine BY DEF Seen, Over
    <3>2. \A i \in DOMAIN b.mine : Seen(b)[i] = b.mine[i] BY DEF Seen, Over
    <3>3. QED BY <1>8, <1>10, <2>5, <3>1, <3>2
  <2>7. \A i \in DOMAIN now :
           Seen(b)[i].position = task.order[i] /\ Seen(b)[i].isPrimary = (i = task.chosen)
    <3>1. \A i \in DOMAIN now : Seen(b)[i] = rows[i] BY <1>9, <2>2, <2>6
    <3>2. \A i \in DOMAIN now : now[i] \in ContactRows BY <1>10 DEF OfSome
    <3>3. \A i \in DOMAIN now : rows[i] = [now[i] EXCEPT !.isPrimary = (i = task.chosen),
                                                         !.position = task.order[i]]
      BY <1>2, <1>11, <2>2
    <3>4. ASSUME NEW x \in ContactRows, NEW f, NEW p
          PROVE  LET y == [x EXCEPT !.isPrimary = f, !.position = p] IN
                 y.position = p /\ y.isPrimary = f
      BY DEF ContactRows
    <3>5. ASSUME NEW i \in DOMAIN now
          PROVE  Seen(b)[i].position = task.order[i] /\ Seen(b)[i].isPrimary = (i = task.chosen)
      <4>1. PICK f : f = (i = task.chosen) OBVIOUS
      <4>2. Seen(b)[i] = [now[i] EXCEPT !.isPrimary = f, !.position = task.order[i]]
        BY <3>1, <3>3, <4>1
      <4>3. Seen(b)[i].position = task.order[i] /\ Seen(b)[i].isPrimary = f BY <3>2, <3>4, <4>2
      <4>4. QED BY <4>1, <4>3
    <3>6. QED BY <3>5
  <2>8. InOrder(Seen(b))
    <3>1. OfSome(task.order, Nat) /\ IsOrder(task.order, task.chosen)
      BY <1>6, <2>1 DEF ContactTaskOK, Found
    <3>2. PICK all : all = Seen(b) OBVIOUS
    <3>3. /\ DOMAIN all = DOMAIN task.order
          /\ \A i \in DOMAIN all : /\ all[i].position = task.order[i]
                                   /\ all[i].isPrimary = (i = task.chosen)
      BY <2>2, <2>6, <2>7, <3>2
    <3>4. InOrder(all) BY <3>1, <3>3, ArrangedInOrder
    <3>5. QED BY <3>2, <3>4
  <2>9. OrderFits(b) BY <1>8, <2>4, <2>8 DEF OrderFits, After
  <2>10. ASSUME "post" \in contactKinds, NEW o \in ContactRequests \ {q}
         PROVE  Size \notin contactWork[o].barred
    BY <1>1, <2>1, <2>10 DEF OwnsAll, OrderInv
  <2>11. QED BY <1>5, <1>12, <2>9, <2>10, OneMoves
<1>15. QED BY <1>7, <1>13, <1>14

LEMMA CommitInOrder ==
    ASSUME ContactConstants, ContactsTypeOK, OrderInv, Ordered, NEW q \in ContactRequests,
           ContactCommit(q)
    PROVE  OrderInv'
<1>1. PICK task : task = contactWork[q] OBVIOUS
<1>2. /\ task.pc = "commit" /\ (task.op = "delete" \/ task.row \in DOMAIN Seen(task))
      /\ contacts' = Seen(task) /\ ContactGoes(q, NoContactTask)
  BY <1>1 DEF ContactCommit
<1>3. ContactTaskOK(task) BY <1>1 DEF ContactsTypeOK
<1>4. DOMAIN contacts' = (DOMAIN contacts \ task.dropped) \cup DOMAIN task.mine
  BY <1>2, <1>3, SeenIs
<1>5. ~InVain(task)
  <2>1. SUFFICES ASSUME Missed(task) PROVE FALSE BY DEF InVain
  <2>2. task.row \in DOMAIN contacts' BY <1>2, <2>1 DEF Missed
  <2>3. QED BY <1>4, <2>1, <2>2 DEF Missed
<1>6. After(task) BY <1>1, <1>2, <1>5, WhereItIs
<1>7. OwnsAll(task) /\ InOrder(contacts') BY <1>2, <1>6 DEF After
<1>8. /\ \A r \in ContactRequests :
            contactWork'[r] = IF r = q THEN NoContactTask ELSE contactWork[r]
      /\ table' = table /\ contactKinds' = contactKinds
  BY <1>2 DEF ContactGoes, contactFixed, ContactsTypeOK
<1>9. \A o \in ContactRequests \ {q} : HoldsNothing(contactWork[o]) BY <1>1, <1>6, OrderAlone
<1>10. HoldsNothing(NoContactTask) /\ NoContactTask.pc = "idle"
  BY DEF HoldsNothing, Wrote, NoContactTask, NoRows
<1>11. "delete" \notin contactKinds => DOMAIN contacts \subseteq DOMAIN contacts'
  BY <1>4, <1>7 DEF OwnsAll
<1>12. "post" \notin contactKinds => DOMAIN contacts' \subseteq DOMAIN contacts
  BY <1>4, <1>7 DEF OwnsAll, Wrote
<1>13. "post" \in contactKinds => Size \in Nat /\ Size' \in Nat /\ Size <= Size'
  <2>1. SUFFICES ASSUME "post" \in contactKinds
                 PROVE  Size \in Nat /\ Size' \in Nat /\ Size <= Size'
    OBVIOUS
  <2>2. DOMAIN contacts \in SUBSET DOMAIN contacts' BY <1>11, <2>1 DEF Ordered
  <2>3. OfSome(contacts', ContactRows) BY <1>2, <1>3, SeenIs
  <2>4. IsFiniteSet(DOMAIN contacts') /\ Size' \in Nat BY <2>3, PlacesAre DEF Size
  <2>5. OfSome(contacts, ContactRows) BY DEF ContactsTypeOK
  <2>6. Size \in Nat BY <2>5, PlacesAre DEF Size
  <2>7. Size <= Size' BY <2>2, <2>4, FS_Subset DEF Size
  <2>8. QED BY <2>4, <2>6, <2>7
<1>14. ASSUME NEW o \in ContactRequests PROVE OrderFits(contactWork[o])' /\ HoldsNothing(contactWork'[o])
  <2>1. PICK t : t = contactWork'[o] OBVIOUS
  <2>2. HoldsNothing(t) BY <1>8, <1>9, <1>10, <2>1
  <2>3. CASE o = q
    <3>1. t.pc = "idle" BY <1>8, <1>10, <2>1, <2>3
    <3>2. Before(contactWork[o])' BY <2>1, <2>2, <3>1 DEF Before, HoldsNothing, Wrote
    <3>3. QED BY <2>1, <2>2, <3>2 DEF OrderFits
  <2>4. CASE o # q
    <3>1. OrderFits(t) BY <1>8, <2>1, <2>4 DEF OrderInv
    <3>2. ~During(t) BY <2>2 DEF During, Keeps, Adds, Drops, HoldsNothing, Wrote
    <3>3. ~After(t) BY <2>2 DEF After, OwnsAll, HoldsNothing, Wrote
    <3>4. CASE Before(t)
      <4>1. t.pc = "insert" => "post" \in contactKinds' /\ t.last + 1 \in 0..Size'
        <5>1. SUFFICES ASSUME t.pc = "insert"
                       PROVE  "post" \in contactKinds' /\ t.last + 1 \in 0..Size'
          OBVIOUS
        <5>2. "post" \in contactKinds /\ t.last + 1 \in 0..Size BY <3>4, <5>1 DEF Before
        <5>3. QED BY <1>8, <1>13, <5>2
      <4>2. t.pc = "update" => /\ t.op = "patch"
                               /\ t.row \in DOMAIN contacts' \/ "delete" \in contactKinds'
        BY <1>8, <1>11, <3>4 DEF Before
      <4>3. Before(contactWork[o])' BY <2>1, <2>2, <3>4, <4>1, <4>2 DEF Before, HoldsNothing, Wrote
      <4>4. QED BY <2>1, <2>2, <4>3 DEF OrderFits
    <3>5. CASE InVain(t)
      <4>1. Missed(t) BY <3>5 DEF InVain
      <4>2. t.row \notin DOMAIN contacts' BY <1>12, <4>1 DEF Missed, Ordered
      <4>3. DOMAIN t.mine = {} BY <2>2 DEF HoldsNothing, Wrote
      <4>4. InVain(contactWork[o])' BY <1>8, <2>1, <3>5, <4>1, <4>2, <4>3 DEF InVain, Missed
      <4>5. QED BY <2>1, <2>2, <4>4 DEF OrderFits
    <3>6. QED BY <3>1, <3>2, <3>3, <3>4, <3>5 DEF OrderFits
  <2>5. QED BY <2>3, <2>4
<1>15. \A r, o \in ContactRequests : r # o => Wrote(contactWork[r])' \cap Wrote(contactWork[o])' = {}
  BY <1>14 DEF HoldsNothing, Wrote
<1>16. \A r, o \in ContactRequests :
          Size' \in contactWork'[r].barred \cap contactWork'[o].barred => r = o
  BY <1>14 DEF HoldsNothing
<1>17. QED BY <1>7, <1>14, <1>15, <1>16 DEF OrderInv, InOrder, Places

LEMMA RollbackInOrder ==
    ASSUME ContactConstants, ContactsTypeOK, OrderInv, Ordered, NEW q \in ContactRequests,
           ContactRollback(q)
    PROVE  OrderInv'
<1>1. Wrote(NoContactTask) = {} /\ NoContactTask.barred = {} /\ NoContactTask.pc = "idle"
  BY DEF Wrote, NoContactTask, NoRows
<1>2. OrderFits(NoContactTask) BY <1>1 DEF OrderFits, Before, HoldsNothing
<1>3. ContactGoes(q, NoContactTask) /\ UNCHANGED contacts BY DEF ContactRollback
<1>4. QED BY <1>1, <1>2, <1>3, OneMoves

-----------------------------------------------------------------------------
LEMMA OrderStep ==
    ASSUME ContactConstants, ContactsTypeOK, OrderInv, [ContactsNext]_contactVars
    PROVE  OrderInv'
<1>1. CASE ~Ordered
  <2>1. UNCHANGED <<table, contactKinds>>
    <3>1. CASE UNCHANGED contactVars BY <3>1 DEF contactVars
    <3>2. ASSUME NEW q \in ContactRequests,
                 \/ \E v \in ContactValues, prefers \in BOOLEAN : PostRead(q, v, prefers)
                 \/ \E i \in ContactIds : ContactRead(q, i) \/ ContactDelete(q, i)
          PROVE  UNCHANGED <<table, contactKinds>>
      BY <3>2 DEF ContactGoes, contactFixed, ContactStarts, PostRead, ContactRead, ContactDelete
    <3>3. ASSUME NEW q \in ContactRequests,
                 Upsert(q) \/ ContactWrite(q) \/ FindRows(q) \/ ContactCommit(q) \/ ContactRollback(q)
          PROVE  UNCHANGED <<table, contactKinds>>
      BY <3>3 DEF ContactGoes, contactFixed, Upsert, ContactWrite, FindRows, ContactCommit,
                  ContactRollback
    <3>4. ASSUME NEW q \in ContactRequests,
                 ShiftBegins(q) \/ ShiftRows(q) \/ Arrange(q) \/ Promote(q) \/ DemoteBegins(q) \/ DemoteRows(q)
          PROVE  UNCHANGED <<table, contactKinds>>
      BY <3>4 DEF ContactGoes, contactFixed, StatementBegins, StatementWrites, ShiftBegins, ShiftRows,
                  Arrange, Promote, DemoteBegins, DemoteRows
    <3>5. QED BY <3>1, <3>2, <3>3, <3>4 DEF ContactsNext
  <2>2. QED BY <1>1, <2>1 DEF OrderInv, Ordered
<1>2. CASE Ordered /\ UNCHANGED contactVars
  <2>1. \A q \in ContactRequests : OrderFits(contactWork[q])'
    <3>1. ASSUME NEW q \in ContactRequests PROVE OrderFits(contactWork[q])'
      <4>1. PICK b : b = contactWork[q] OBVIOUS
      <4>2. OrderFits(b) /\ contactWork'[q] = b BY <1>2, <4>1 DEF OrderInv, contactVars
      <4>3. QED BY <1>2, <4>2, FitsStays DEF contactVars
    <3>2. QED BY <3>1
  <2>2. QED BY <1>2, <2>1 DEF OrderInv, contactVars, InOrder, Places, Wrote, Size
<1>3. CASE Ordered /\ ContactsNext
  <2>1. PICK q \in ContactRequests :
         \/ \E v \in ContactValues, prefers \in BOOLEAN : PostRead(q, v, prefers)
         \/ \E i \in ContactIds : ContactRead(q, i) \/ ContactDelete(q, i)
         \/ Upsert(q) \/ ContactWrite(q) \/ FindRows(q)
         \/ ShiftBegins(q) \/ ShiftRows(q) \/ Arrange(q)
         \/ Promote(q) \/ DemoteBegins(q) \/ DemoteRows(q)
         \/ ContactCommit(q) \/ ContactRollback(q)
    BY <1>3 DEF ContactsNext
  <2>2. ~(Promote(q) \/ DemoteBegins(q) \/ DemoteRows(q))
    BY <1>3, WhereItIs DEF Promote, DemoteBegins, DemoteRows, StatementBegins, StatementWrites
  <2>3. QED
    BY <1>3, <2>1, <2>2, StartsInOrder, DeleteInOrder, UpsertInOrder, WriteInOrder, FindInOrder,
       BeginInOrder, ShiftInOrder, ArrangeInOrder, CommitInOrder, RollbackInOrder
<1>4. QED BY <1>1, <1>2, <1>3

(* A person's phones or addresses, and the requests on them, keep their    *)
(* types (people.ts).                                                      *)
THEOREM ContactsTyped == ContactConstants => (ContactsSpec => []ContactsTypeOK)
<1> SUFFICES ASSUME ContactConstants PROVE ContactsSpec => []ContactsTypeOK OBVIOUS
<1>1. ContactsInit => ContactsTypeOK BY ContactsStart
<1>2. ContactsTypeOK /\ [ContactsNext]_contactVars => ContactsTypeOK' BY ContactsTypeStep
<1>3. QED BY <1>1, <1>2, PTL DEF ContactsSpec

(* Phones that are not both added and removed stand in one contiguous      *)
(* order, the first and no other primary, however requests interleave and  *)
(* fail (people.ts:368-400).                                               *)
THEOREM PhonesStayInOrder == ContactConstants => (ContactsSpec => []PhonesInOrder)
<1> SUFFICES ASSUME ContactConstants PROVE ContactsSpec => []PhonesInOrder OBVIOUS
<1>1. ContactsInit => ContactsTypeOK /\ OrderInv BY ContactsStart
<1>2. (ContactsTypeOK /\ OrderInv) /\ [ContactsNext]_contactVars => (ContactsTypeOK /\ OrderInv)'
  BY ContactsTypeStep, OrderStep
<1>3. OrderInv => PhonesInOrder BY DEF OrderInv, Ordered, PhonesInOrder
<1>4. QED BY <1>1, <1>2, <1>3, PTL DEF ContactsSpec

(***************************************************************************)
(* The cards in the inboxes: that fan-outs which run at once tell each     *)
(* reader once, with one open card for an action and no more bundles than  *)
(* the limit.                                                              *)
(***************************************************************************)

(* Who may be told of something.                                           *)
Readers == UNION {ToSet(events[e].to) : e \in DOMAIN events}
(* Events that are folded into one card.                                   *)
Alike(e, f) ==
    /\ events[e].key = events[f].key
    /\ (IsAction(e) /\ IsAction(f)) \/ (IsNoisy(e) /\ IsNoisy(f))
Keyed(e) == IsAction(e) \/ IsNoisy(e)

(* A row tells of one thing: of events that are folded into one card.      *)
CardTypeOK(row) ==
    row \in [to : Readers, lead : DOMAIN events, objects : SUBSET DOMAIN events,
             mode : {"immediate", "batched", "digest"}, open : BOOLEAN,
             made : 0..clock, touched : 0..clock]
CardOK(row) ==
    /\ CardTypeOK(row) /\ row.lead \in row.objects /\ row.made <= row.touched
    /\ \A e \in row.objects : e = row.lead \/ Alike(e, row.lead)
    /\ events[row.lead].verb = "mention" => \A e \in row.objects : events[e].verb # "assignment"
    /\ row.mode = "batched" => IsNoisy(row.lead)
    /\ "archive" \notin noticeKinds => row.open

(* No card is open twice.                                                  *)
OneIsOpen == ~({"archive", "unarchive"} \subseteq noticeKinds)
NoneCloses == {"archive", "later"} \cap noticeKinds = {}
(* A card that what e tells the reader would double, and rows of which     *)
(* none doubles another.                                                   *)
Clash(row, e, reader) ==
    /\ row.to = reader
    /\ \/ ~Keyed(e) /\ row.lead = e
       \/ IsAction(e) /\ Alike(row.lead, e) /\ row.open /\ OneIsOpen
       \/ IsNoisy(e) /\ Alike(row.lead, e) /\ NoneCloses
Apart(rows) ==
    \A c, d \in DOMAIN rows :
       /\ Clash(rows[c], rows[d].lead, rows[d].to)
       /\ IsAction(rows[d].lead) => rows[d].open
       => c = d

(* The bundles a reader got within the time up to m.                       *)
InWindow(rows, reader, m) ==
    {d \in DOMAIN rows : /\ rows[d].to = reader /\ rows[d].mode = "batched"
                         /\ rows[d].made \in m - BatchCap .. m}
Capped(rows) ==
    \A reader \in Readers, m \in 0..LastTick : Cardinality(InWindow(rows, reader, m)) <= MaxBatched
Told(rows, e, reader) == \E c \in DOMAIN rows : rows[c].to = reader /\ e \in rows[c].objects

(* What may become of a row, and the lock a transaction wrote it under.    *)
Continues(new, old) ==
    /\ new.to = old.to /\ old.objects \subseteq new.objects /\ Alike(new.lead, old.lead)
    /\ new.made = old.made /\ new.mode = old.mode
Holds(task, row) ==
    IF Keyed(row.lead) THEN LockOf(row.lead, row.to) \in task.locks ELSE row.lead = task.event

RowsOK(rows) ==
    /\ DOMAIN rows \subseteq CardIds /\ rows = [c \in DOMAIN rows |-> rows[c]]
    /\ \A c \in DOMAIN rows : CardOK(rows[c])
(* What a transaction has done so far, whatever it finds.                  *)
Busy(task) ==
    /\ task.event \in DOMAIN events /\ (task.pc = "commit" <=> task.rest = <<>>)
    /\ \A c \in DOMAIN task.written : Holds(task, task.written[c])
Choosing(task, rows) ==
    /\ Keyed(task.event) /\ LockOf(task.event, Head(task.rest)) \in task.locks
    /\ IF task.card = NoCard
       THEN \A c \in DOMAIN rows : ~Clash(rows[c], task.event, Head(task.rest))
       ELSE /\ task.card \in DOMAIN rows /\ rows[task.card].to = Head(task.rest)
            /\ Alike(rows[task.card].lead, task.event)
NoticeTask(written, locks) ==
    [pc : NoticePcs, event : DOMAIN events \cup {NoCard}, rest : Seq(Readers),
     card : CardIds \cup {NoCard}, written : {written}, locks : {locks}, now : 0..clock]
IsTold(task, rows) ==
    \A reader \in ToSet(events[task.event].to) :
       reader \in ToSet(task.rest) \/ Told(rows, task.event, reader)
(* What holds of the rows it sees, and of what it has chosen among them.   *)
TaskFits(task, rows) ==
    /\ Apart(rows) /\ Capped(rows)
    /\ task.pc # "idle" => IsTold(task, rows)
    /\ task.pc = "put" => Choosing(task, rows)
Follows(task, rows) ==
    \A c \in DOMAIN task.written \cap DOMAIN rows : Continues(task.written[c], rows[c])
NoticeTaskOK(task) ==
    /\ task \in NoticeTask(task.written, task.locks) /\ RowsOK(task.written)
    /\ IF task.pc = "idle" THEN task = NoNotice ELSE Busy(task)
    /\ TaskFits(task, Sees(task)) /\ Follows(task, cards)
(* No two are about one event, or share a lock or a row.                   *)
AreApart(a, b) ==
    /\ a.pc # "idle" /\ b.pc # "idle" => a.event # b.event
    /\ a.locks \cap b.locks = {} /\ DOMAIN a.written \cap DOMAIN b.written = {}
NoticeInv ==
    /\ noticeKinds \subseteq NoticeKinds /\ clock \in 0..LastTick
    /\ "later" \notin noticeKinds => clock = 0
    /\ \A e \in DOMAIN events : events[e].to \in Seq(Readers) \ {<<>>}
    /\ RowsOK(cards) /\ Apart(cards) /\ Capped(cards)
    /\ told \subseteq DOMAIN events
    /\ \A e \in told : \A reader \in ToSet(events[e].to) : Told(cards, e, reader)
    /\ noticeWork = [q \in Senders |-> noticeWork[q]]
    /\ \A q \in Senders : NoticeTaskOK(noticeWork[q])
    /\ \A q, o \in Senders : q # o => AreApart(noticeWork[q], noticeWork[o])

-----------------------------------------------------------------------------
LEMMA OverAt ==
    ASSUME NEW new, NEW old
    PROVE  /\ DOMAIN Over(new, old) = DOMAIN new \cup DOMAIN old
           /\ \A c \in DOMAIN new : Over(new, old)[c] = new[c]
           /\ \A c \in DOMAIN old \ DOMAIN new : Over(new, old)[c] = old[c]
           /\ Over(new, old) = [c \in DOMAIN Over(new, old) |-> Over(new, old)[c]]
BY DEF Over

LEMMA OverOver ==
    ASSUME NEW a, NEW b, NEW c
    PROVE  Over(Over(a, b), c) = Over(a, Over(b, c))
<1>1. DOMAIN Over(Over(a, b), c) = DOMAIN Over(a, Over(b, c)) BY DEF Over
<1>2. \A i \in DOMAIN Over(Over(a, b), c) : Over(Over(a, b), c)[i] = Over(a, Over(b, c))[i]
  BY DEF Over
<1>3. /\ Over(Over(a, b), c) = [i \in DOMAIN Over(Over(a, b), c) |-> Over(Over(a, b), c)[i]]
      /\ Over(a, Over(b, c)) = [i \in DOMAIN Over(a, Over(b, c)) |-> Over(a, Over(b, c))[i]]
  BY DEF Over
<1> QED BY <1>1, <1>2, <1>3

LEMMA OverRows ==
    ASSUME NEW new, RowsOK(new), NEW old, RowsOK(old)
    PROVE  RowsOK(Over(new, old))
<1>1. PICK rows : rows = Over(new, old) OBVIOUS
<1>2. /\ DOMAIN rows = DOMAIN new \cup DOMAIN old
      /\ \A c \in DOMAIN new : rows[c] = new[c]
      /\ \A c \in DOMAIN old \ DOMAIN new : rows[c] = old[c]
      /\ rows = [c \in DOMAIN rows |-> rows[c]]
  BY <1>1, OverAt
<1>3. RowsOK(rows) BY <1>2 DEF RowsOK
<1>4. QED BY <1>1, <1>3

LEMMA NoRowsOK == RowsOK(NoRows) /\ DOMAIN NoRows = {}
BY DEF RowsOK, NoRows

LEMMA OverNoRows ==
    ASSUME NEW rows, rows = [c \in DOMAIN rows |-> rows[c]]
    PROVE  Over(NoRows, rows) = rows
<1>1. DOMAIN Over(NoRows, rows) = DOMAIN rows BY DEF Over, NoRows
<1>2. \A c \in DOMAIN rows : Over(NoRows, rows)[c] = rows[c] BY DEF Over, NoRows
<1>3. Over(NoRows, rows) = [c \in DOMAIN Over(NoRows, rows) |-> Over(NoRows, rows)[c]] BY OverAt
<1>4. QED BY <1>1, <1>2, <1>3

LEMMA RestIs ==
    ASSUME NEW S, NEW s \in Seq(S), s # <<>>
    PROVE  /\ ToSet(s) = {Head(s)} \cup ToSet(Tail(s)) /\ Tail(s) \in Seq(S)
           /\ (Len(s) = 1 <=> Tail(s) = <<>>) /\ Head(s) \in S
<1>1. /\ Len(s) \in Nat \ {0} /\ Head(s) = s[1] /\ Tail(s) \in Seq(S) /\ Len(Tail(s)) = Len(s) - 1
      /\ \A i \in 1..Len(Tail(s)) : Tail(s)[i] = s[i + 1]
      /\ DOMAIN s = 1..Len(s) /\ DOMAIN Tail(s) = 1..Len(Tail(s)) /\ s[1] \in S
  BY HeadTailProperties, ElementOfSeq, EmptySeq, LenProperties
<1>2. Len(s) = 1 <=> Tail(s) = <<>>
  <2>1. Len(Tail(s)) = 0 <=> Tail(s) = <<>>
    <3>1. PICK t : t = Tail(s) OBVIOUS
    <3>2. t \in Seq(S) BY <1>1, <3>1
    <3>3. Len(t) = 0 <=> t = <<>> BY <3>2, EmptySeq
    <3>4. QED BY <3>1, <3>3
  <2>2. QED BY <1>1, <2>1
<1>3. ASSUME NEW x \in ToSet(s) PROVE x = s[1] \/ x \in ToSet(Tail(s))
  <2>1. PICK i \in 1..Len(s) : x = s[i] BY <1>1 DEF ToSet
  <2>2. i = 1 \/ (i - 1 \in 1..Len(Tail(s)) /\ i = (i - 1) + 1) BY <1>1, <2>1
  <2>3. i = 1 \/ x = Tail(s)[i - 1] BY <1>1, <2>1, <2>2
  <2>4. QED BY <1>1, <2>1, <2>2, <2>3 DEF ToSet
<1>4. ASSUME NEW x \in ToSet(Tail(s)) PROVE x \in ToSet(s)
  <2>1. PICK i \in 1..Len(Tail(s)) : x = Tail(s)[i] BY <1>1 DEF ToSet
  <2>2. i + 1 \in 1..Len(s) /\ x = s[i + 1] BY <1>1, <2>1
  <2>3. QED BY <1>1, <2>2 DEF ToSet
<1>5. s[1] \in ToSet(s) BY <1>1 DEF ToSet
<1>6. QED BY <1>1, <1>2, <1>3, <1>4, <1>5

LEMMA Folded ==
    ASSUME NEW e, NEW f, Alike(e, f)
    PROVE  /\ Alike(f, e) /\ Keyed(e) /\ Keyed(f) /\ (IsAction(e) <=> IsAction(f))
           /\ (IsNoisy(e) <=> IsNoisy(f)) /\ (IsAction(e) <=> ~IsNoisy(e))
           /\ \A r : LockOf(e, r) = LockOf(f, r)
           /\ \A g : Alike(f, g) => Alike(e, g)
<1>1. ~(IsAction(e) /\ IsNoisy(e)) /\ ~(IsAction(f) /\ IsNoisy(f)) BY DEF IsAction, IsNoisy
<1>2. QED BY <1>1 DEF Alike, Keyed, LockOf

LEMMA KeyedIs ==
    ASSUME NEW e
    PROVE  (Keyed(e) => Alike(e, e)) /\ ~(IsAction(e) /\ IsNoisy(e))
BY DEF Keyed, Alike, IsAction, IsNoisy

-----------------------------------------------------------------------------
(* What holds of rows and events goes on to hold.                          *)
LEMMA RowsNext ==
    ASSUME UNCHANGED <<noticeKinds, events>>, clock \in Nat, clock' \in Nat, clock <= clock',
           NEW rows, RowsOK(rows)
    PROVE  RowsOK(rows)'
<1>1. Readers' = Readers BY DEF Readers
<1>2. ASSUME NEW c \in DOMAIN rows PROVE CardOK(rows[c])'
  <2>1. CardOK(rows[c]) BY <1>2 DEF RowsOK
  <2>2. 0..clock \subseteq 0..clock' OBVIOUS
  <2>3. CardTypeOK(rows[c])' BY <1>1, <2>1, <2>2 DEF CardOK, CardTypeOK
  <2>4. QED BY <2>1, <2>3 DEF CardOK, Alike, IsAction, IsNoisy
<1>3. QED BY <1>2 DEF RowsOK

LEMMA TaskNext ==
    ASSUME UNCHANGED <<noticeKinds, events>>, clock \in Nat, clock' \in Nat, clock <= clock',
           NEW o, NEW b, noticeWork'[o] = b, NoticeTaskOK(b),
           TaskFits(b, Over(b.written, cards')), Follows(b, cards')
    PROVE  NoticeTaskOK(noticeWork[o])'
<1>1. Readers' = Readers BY DEF Readers
<1>2. PICK rows : rows = Over(b.written, cards') OBVIOUS
<1>3. Sees(noticeWork[o])' = rows BY <1>2 DEF Sees
<1>4. RowsOK(b.written)' BY RowsNext DEF NoticeTaskOK
<1>5. RowsOK(noticeWork[o].written)'
  BY <1>4 DEF RowsOK, CardOK, CardTypeOK
<1>6. (noticeWork[o] \in NoticeTask(noticeWork[o].written, noticeWork[o].locks))'
  <2>1. b \in NoticeTask(b.written, b.locks) BY DEF NoticeTaskOK
  <2>2. 0..clock \subseteq 0..clock' OBVIOUS
  <2>3. QED BY <1>1, <2>1, <2>2 DEF NoticeTask
<1>7. IF b.pc = "idle" THEN b = NoNotice ELSE Busy(noticeWork[o])'
  <2>1. IF b.pc = "idle" THEN b = NoNotice ELSE Busy(b) BY DEF NoticeTaskOK
  <2>2. QED BY <2>1 DEF Busy, Holds, Keyed, IsAction, IsNoisy, LockOf
<1>8. TaskFits(noticeWork[o], Sees(noticeWork[o]))'
  <2>1. TaskFits(b, rows) BY <1>2
  <2>2. Apart(Sees(noticeWork[o]))' <=> Apart(rows)
    BY <1>3 DEF Apart, Clash, Keyed, IsAction, IsNoisy, Alike, OneIsOpen, NoneCloses
  <2>3. Capped(Sees(noticeWork[o]))' <=> Capped(rows) BY <1>1, <1>3 DEF Capped, InWindow
  <2>4. b.pc # "idle" /\ IsTold(b, rows) => IsTold(noticeWork[o], Sees(noticeWork[o]))'
    BY <1>3 DEF IsTold, Told
  <2>5. b.pc = "put" /\ Choosing(b, rows) => Choosing(noticeWork[o], Sees(noticeWork[o]))'
    BY <1>3 DEF Choosing, Clash, Keyed, IsAction, IsNoisy, Alike, OneIsOpen, NoneCloses, LockOf
  <2>6. QED BY <2>1, <2>2, <2>3, <2>4, <2>5 DEF TaskFits
<1>9. Follows(noticeWork[o], cards)' BY DEF Follows, Continues, Alike, IsAction, IsNoisy
<1>10. QED BY <1>5, <1>6, <1>7, <1>8, <1>9 DEF NoticeTaskOK, NoNotice

LEMMA NoticeInvNext ==
    ASSUME NoticeInv, UNCHANGED <<noticeKinds, events>>, clock' \in clock..LastTick,
           "later" \notin noticeKinds => clock' = clock,
           NEW rows, cards' = rows, RowsOK(rows), Apart(rows), Capped(rows),
           told' \subseteq DOMAIN events,
           \A e \in told' : \A reader \in ToSet(events[e].to) : Told(rows, e, reader),
           noticeWork' = [q \in Senders |-> noticeWork'[q]],
           \A q \in Senders : NoticeTaskOK(noticeWork[q])',
           \A q, o \in Senders : q # o => AreApart(noticeWork'[q], noticeWork'[o])
    PROVE  NoticeInv'
<1>1. clock \in Nat /\ clock' \in Nat /\ clock <= clock' /\ clock' \in 0..LastTick
  BY DEF NoticeInv
<1>2. RowsOK(rows)' BY <1>1, RowsNext
<1>3. RowsOK(cards)' BY <1>2 DEF RowsOK, CardOK, CardTypeOK
<1>4. Readers' = Readers BY DEF Readers
<1>5. Apart(cards)' <=> Apart(rows)
  BY DEF Apart, Clash, Keyed, IsAction, IsNoisy, Alike, OneIsOpen, NoneCloses
<1>6. Capped(cards)' <=> Capped(rows) BY <1>4 DEF Capped, InWindow
<1>7. \A e \in told' : \A reader \in ToSet(events'[e].to) : Told(cards, e, reader)' BY DEF Told
<1>8. \A q, o \in Senders : q # o => AreApart(noticeWork[q], noticeWork[o])' BY DEF AreApart
<1>9. \A e \in DOMAIN events' : events'[e].to \in Seq(Readers') \ {<<>>} BY <1>4 DEF NoticeInv
<1>10. noticeKinds' \subseteq NoticeKinds /\ ("later" \notin noticeKinds' => clock' = 0)
       /\ told' \subseteq DOMAIN events'
  BY DEF NoticeInv
<1>11. QED BY <1>1, <1>3, <1>5, <1>6, <1>7, <1>8, <1>9, <1>10 DEF NoticeInv

LEMMA NoticeMoves ==
    ASSUME NoticeInv, NEW q \in Senders, NEW b, NoticeGoes(q, b), UNCHANGED <<cards, told>>,
           NoticeTaskOK(b), \A o \in Senders \ {q} : AreApart(b, noticeWork[o])
    PROVE  NoticeInv'
<1>1. /\ \A r \in Senders : noticeWork'[r] = IF r = q THEN b ELSE noticeWork[r]
      /\ noticeWork' = [r \in Senders |-> noticeWork'[r]]
      /\ UNCHANGED <<noticeKinds, events, clock>>
  BY DEF NoticeGoes, NoticeInv
<1>2. clock \in Nat /\ clock' \in clock..LastTick BY <1>1 DEF NoticeInv
<1>3. ASSUME NEW r \in Senders PROVE NoticeTaskOK(noticeWork[r])'
  <2>1. PICK t : t = IF r = q THEN b ELSE noticeWork[r] OBVIOUS
  <2>2. NoticeTaskOK(t) /\ noticeWork'[r] = t BY <1>1, <2>1 DEF NoticeInv
  <2>3. TaskFits(t, Over(t.written, cards')) /\ Follows(t, cards')
    BY <2>2 DEF NoticeTaskOK, Sees
  <2>4. QED BY <1>1, <1>2, <2>2, <2>3, TaskNext
<1>4. ASSUME NEW r \in Senders, NEW o \in Senders, r # o
      PROVE  AreApart(noticeWork'[r], noticeWork'[o])
  <2>1. AreApart(noticeWork[r], noticeWork[o]) BY <1>4 DEF NoticeInv
  <2>2. AreApart(noticeWork[r], b) <=> AreApart(b, noticeWork[r]) BY DEF AreApart
  <2>3. QED BY <1>1, <1>4, <2>1, <2>2
<1>5. RowsOK(cards) /\ Apart(cards) /\ Capped(cards) /\ told' \subseteq DOMAIN events
      /\ \A e \in told' : \A reader \in ToSet(events[e].to) : Told(cards, e, reader)
  BY DEF NoticeInv
<1>6. PICK rows : rows = cards OBVIOUS
<1>7. QED BY <1>1, <1>2, <1>3, <1>4, <1>5, <1>6, NoticeInvNext

LEMMA Onwards ==
    ASSUME NoticeInv, NEW q \in Senders, NEW task, task = noticeWork[q],
           task.pc \in {"find", "put"}, NEW new, NextReader(q, new),
           NEW written, written = Over(new, task.written), RowsOK(written),
           \A c \in DOMAIN written : Holds(task, written[c]),
           \A c \in DOMAIN written \cap DOMAIN cards : Continues(written[c], cards[c]),
           NEW rows, rows = Over(written, cards), Apart(rows), Capped(rows),
           \A reader \in ToSet(events[task.event].to) :
              Told(Sees(task), task.event, reader) => Told(rows, task.event, reader),
           Told(rows, task.event, Head(task.rest)),
           \A o \in Senders \ {q} : DOMAIN written \cap DOMAIN noticeWork[o].written = {}
    PROVE  NoticeInv'
<1>1. NoticeTaskOK(task) BY DEF NoticeInv
<1>2. task \in NoticeTask(task.written, task.locks) /\ Busy(task) /\ IsTold(task, Sees(task))
  BY <1>1 DEF NoticeTaskOK, TaskFits
<1>3. task.rest \in Seq(Readers) /\ task.rest # <<>> BY <1>2 DEF NoticeTask, Busy
<1>4. /\ ToSet(task.rest) = {Head(task.rest)} \cup ToSet(Tail(task.rest))
      /\ Tail(task.rest) \in Seq(Readers) /\ (Len(task.rest) = 1 <=> Tail(task.rest) = <<>>)
  BY <1>3, RestIs
<1>5. PICK tail : tail = Tail(task.rest) OBVIOUS
<1>6. PICK b : b = [task EXCEPT !.rest = tail, !.card = NoCard, !.written = written,
                                !.pc = IF Len(task.rest) = 1 THEN "commit" ELSE "find"]
  OBVIOUS
<1>7. NoticeGoes(q, b) /\ UNCHANGED <<cards, told>> BY <1>5, <1>6 DEF NextReader
<1>8. /\ b.rest = tail /\ b.card = NoCard /\ b.written = written /\ b.event = task.event
      /\ b.locks = task.locks /\ b.now = task.now
      /\ b.pc = IF Len(task.rest) = 1 THEN "commit" ELSE "find"
      /\ b \in NoticeTask(b.written, b.locks)
  BY <1>2, <1>4, <1>5, <1>6 DEF NoticeTask, NoticePcs
<1>9. Busy(b) BY <1>2, <1>4, <1>5, <1>8 DEF Busy, Holds
<1>10. IsTold(b, rows) BY <1>2, <1>4, <1>5, <1>8 DEF IsTold
<1>11. Sees(b) = rows BY <1>8 DEF Sees
<1>12. b.pc \in {"commit", "find"} BY <1>8
<1>13. TaskFits(b, Sees(b)) BY <1>10, <1>11, <1>12 DEF TaskFits
<1>14. NoticeTaskOK(b) BY <1>8, <1>9, <1>12, <1>13 DEF NoticeTaskOK, Follows
<1>15. ASSUME NEW o \in Senders \ {q} PROVE AreApart(b, noticeWork[o])
  <2>1. AreApart(task, noticeWork[o]) BY DEF NoticeInv
  <2>2. QED BY <1>8, <2>1 DEF AreApart
<1>16. QED BY <1>7, <1>14, <1>15, NoticeMoves

LEMMA Passes ==
    ASSUME NoticeInv, NEW q \in Senders, NEW task, task = noticeWork[q],
           task.pc \in {"find", "put"}, NextReader(q, NoRows),
           Told(Sees(task), task.event, Head(task.rest))
    PROVE  NoticeInv'
<1>1. NoticeTaskOK(task) BY DEF NoticeInv
<1>2. RowsOK(task.written) /\ Busy(task) /\ TaskFits(task, Sees(task)) /\ Follows(task, cards)
  BY <1>1 DEF NoticeTaskOK
<1>3. PICK written, rows : written = task.written /\ rows = Sees(task) OBVIOUS
<1>4. written = Over(NoRows, task.written) BY <1>2, <1>3, OverNoRows DEF RowsOK
<1>5. /\ RowsOK(written) /\ rows = Over(written, cards) /\ Apart(rows) /\ Capped(rows)
      /\ \A c \in DOMAIN written : Holds(task, written[c])
      /\ \A c \in DOMAIN written \cap DOMAIN cards : Continues(written[c], cards[c])
  BY <1>2, <1>3 DEF Busy, TaskFits, Follows, Sees
<1>6. \A o \in Senders \ {q} : DOMAIN written \cap DOMAIN noticeWork[o].written = {}
  BY <1>3 DEF NoticeInv, AreApart
<1>7. PICK new : new = NoRows OBVIOUS
<1>8. NextReader(q, new) /\ written = Over(new, task.written) BY <1>4, <1>7
<1>9. Told(rows, task.event, Head(task.rest)) BY <1>3
<1>10. \A reader \in ToSet(events[task.event].to) :
          Told(Sees(task), task.event, reader) => Told(rows, task.event, reader)
  BY <1>3
<1>11. QED BY <1>5, <1>6, <1>8, <1>9, <1>10, Onwards

(* A row is added, or folded into.                                         *)
LEMMA Puts ==
    ASSUME NoticeInv, NEW q \in Senders, NEW task, task = noticeWork[q],
           task.pc \in {"find", "put"}, NEW i \in CardIds, NEW row, CardOK(row), Holds(task, row),
           NextReader(q, [c \in {i} |-> row]),
           NEW seen, seen = Sees(task), NEW rows, rows = Over([c \in {i} |-> row], seen),
           i \in DOMAIN cards => Keyed(cards[i].lead),
           i \in DOMAIN seen => Continues(row, seen[i]),
           Apart(rows), Capped(rows), row.to = Head(task.rest), task.event \in row.objects,
           \A o \in Senders \ {q} : i \notin DOMAIN noticeWork[o].written
    PROVE  NoticeInv'
<1>1. NoticeTaskOK(task) BY DEF NoticeInv
<1>2. RowsOK(task.written) /\ Busy(task) /\ Follows(task, cards)
  BY <1>1 DEF NoticeTaskOK
<1>3. PICK new : new = [c \in {i} |-> row] OBVIOUS
<1>4. DOMAIN new = {i} /\ new[i] = row BY <1>3
<1>5. PICK written : written = Over(new, task.written) OBVIOUS
<1>6. /\ DOMAIN written = {i} \cup DOMAIN task.written /\ written[i] = row
      /\ \A c \in DOMAIN task.written \ {i} : written[c] = task.written[c]
  BY <1>4, <1>5 DEF Over
<1>7. RowsOK(written)
  <2>1. RowsOK(new) BY <1>3 DEF RowsOK
  <2>2. QED BY <1>2, <1>5, <2>1, OverRows
<1>8. rows = Over(written, cards) BY <1>3, <1>5, OverOver DEF Sees
<1>9. \A c \in DOMAIN written : Holds(task, written[c]) BY <1>2, <1>6 DEF Busy
<1>10. /\ DOMAIN seen = DOMAIN task.written \cup DOMAIN cards
       /\ \A c \in DOMAIN task.written : seen[c] = task.written[c]
       /\ \A c \in DOMAIN cards \ DOMAIN task.written : seen[c] = cards[c]
  BY DEF Sees, Over
<1>11. ASSUME NEW c \in DOMAIN written \cap DOMAIN cards PROVE Continues(written[c], cards[c])
  <2>1. CASE c # i BY <1>2, <1>6, <1>11, <2>1 DEF Follows
  <2>2. CASE c = i /\ i \notin DOMAIN task.written BY <1>6, <1>10, <1>11, <2>2
  <2>3. CASE c = i /\ i \in DOMAIN task.written
    <3>1. Continues(row, task.written[i]) BY <1>10, <2>3
    <3>2. Continues(task.written[i], cards[i]) BY <1>2, <1>11, <2>3 DEF Follows
    <3>3. Alike(row.lead, cards[i].lead) BY <3>1, <3>2, Folded DEF Continues
    <3>4. QED BY <1>6, <2>3, <3>1, <3>2, <3>3 DEF Continues
  <2>4. QED BY <2>1, <2>2, <2>3
<1>12. /\ DOMAIN rows = {i} \cup DOMAIN seen /\ rows[i] = row
       /\ \A c \in DOMAIN seen \ {i} : rows[c] = seen[c]
  BY <1>3, <1>4 DEF Over
<1>13. ASSUME NEW reader, Told(seen, task.event, reader) PROVE Told(rows, task.event, reader)
  <2>1. PICK c \in DOMAIN seen : seen[c].to = reader /\ task.event \in seen[c].objects
    BY <1>13 DEF Told
  <2>2. rows[c].to = reader /\ task.event \in rows[c].objects
    <3>1. CASE c = i BY <1>12, <2>1, <3>1 DEF Continues
    <3>2. CASE c # i BY <1>12, <2>1, <3>2
    <3>3. QED BY <3>1, <3>2
  <2>3. QED BY <1>12, <2>1, <2>2 DEF Told
<1>14. Told(rows, task.event, Head(task.rest)) BY <1>12 DEF Told
<1>15. \A o \in Senders \ {q} : DOMAIN written \cap DOMAIN noticeWork[o].written = {}
  BY <1>6 DEF NoticeInv, AreApart
<1>16. NextReader(q, new) BY <1>3
<1>17. QED BY <1>5, <1>7, <1>8, <1>9, <1>11, <1>13, <1>14, <1>15, <1>16, Onwards

LEMMA SeenCards ==
    ASSUME NoticeInv, NEW q \in Senders, NEW task, task = noticeWork[q], NEW seen, seen = Sees(task)
    PROVE  /\ DOMAIN seen = DOMAIN task.written \cup DOMAIN cards
           /\ \A c \in DOMAIN task.written : seen[c] = task.written[c]
           /\ \A c \in DOMAIN cards \ DOMAIN task.written : seen[c] = cards[c]
           /\ RowsOK(seen) /\ Apart(seen) /\ Capped(seen)
           /\ NoticeTaskOK(task)
           /\ task.pc # "idle" => Busy(task) /\ IsTold(task, seen)
           /\ task.pc = "put" => Choosing(task, seen)
           /\ Follows(task, cards)
<1>1. NoticeTaskOK(task) /\ RowsOK(cards) BY DEF NoticeInv
<1>2. RowsOK(seen) BY <1>1, OverRows DEF NoticeTaskOK, Sees
<1>3. /\ DOMAIN seen = DOMAIN task.written \cup DOMAIN cards
      /\ \A c \in DOMAIN task.written : seen[c] = task.written[c]
      /\ \A c \in DOMAIN cards \ DOMAIN task.written : seen[c] = cards[c]
  BY DEF Sees, Over
<1>4. QED BY <1>1, <1>2, <1>3 DEF NoticeTaskOK, TaskFits

LEMMA FirstReader ==
    ASSUME NoticeInv, NEW q \in Senders, NEW task, task = noticeWork[q], task.pc \in {"find", "put"}
    PROVE  /\ task.rest \in Seq(Readers) \ {<<>>} /\ Head(task.rest) \in Readers
           /\ task.event \in DOMAIN events /\ task.now \in 0..clock
<1>1. NoticeTaskOK(task) BY DEF NoticeInv
<1>2. task \in NoticeTask(task.written, task.locks) /\ Busy(task) BY <1>1 DEF NoticeTaskOK
<1>3. task.rest \in Seq(Readers) /\ task.rest # <<>> BY <1>2 DEF NoticeTask, Busy
<1>4. Head(task.rest) \in Readers BY <1>3, RestIs
<1>5. QED BY <1>2, <1>3, <1>4 DEF NoticeTask, Busy

LEMMA WindowsFinite ==
    ASSUME NoticeConstants, NEW rows, RowsOK(rows), NEW reader, NEW m
    PROVE  IsFiniteSet(InWindow(rows, reader, m)) /\ Cardinality(InWindow(rows, reader, m)) \in Nat
<1>1. InWindow(rows, reader, m) \in SUBSET CardIds BY DEF InWindow, RowsOK
<1>2. QED BY <1>1, FS_Subset, FS_CardinalityType DEF NoticeConstants

LEMMA FreshWrites ==
    ASSUME NoticeConstants, NoticeInv, NEW q \in Senders, NEW task, task = noticeWork[q],
           task.pc \in {"find", "put"}, NEW mode \in {"immediate", "batched", "digest"},
           WriteCard(q, mode), NEW seen, seen = Sees(task),
           NEW reader, reader = Head(task.rest), NEW e, e = task.event,
           mode = "batched" =>
              /\ IsNoisy(e)
              /\ \A m \in clock..LastTick : Cardinality(InWindow(seen, reader, m)) < MaxBatched,
           Keyed(e) => /\ LockOf(e, reader) \in task.locks
                       /\ \A c \in DOMAIN seen : ~Clash(seen[c], e, reader)
    PROVE  NoticeInv'
<1>1. /\ RowsOK(seen) /\ Apart(seen) /\ Capped(seen)
      /\ DOMAIN seen = DOMAIN task.written \cup DOMAIN cards
  BY SeenCards
<1>2. e \in DOMAIN events /\ reader \in Readers /\ clock \in 0..LastTick /\ LastTick \in Nat
  BY FirstReader DEF NoticeInv, NoticeConstants
<1>3. CASE \E c \in DOMAIN seen : seen[c].lead = e /\ seen[c].to = reader
  <2>1. NextReader(q, NoRows) BY <1>3 DEF WriteCard
  <2>2. Told(seen, e, reader) BY <1>1, <1>3 DEF Told, RowsOK, CardOK
  <2>3. QED BY <2>1, <2>2, Passes
<1>4. CASE ~\E c \in DOMAIN seen : seen[c].lead = e /\ seen[c].to = reader
  <2> DEFINE i0 == CHOOSE c \in FreshCards : TRUE
  <2>1. PICK row : row = [to |-> reader, lead |-> e, objects |-> {e}, mode |-> mode,
                          open |-> TRUE, made |-> clock, touched |-> clock]
    OBVIOUS
  <2>2. FreshCards # {} /\ NextReader(q, [c \in {i0} |-> row]) BY <1>4, <2>1 DEF WriteCard
  <2>3. PICK i : i = i0 OBVIOUS
  <2>4. i \in FreshCards /\ NextReader(q, [c \in {i} |-> row])
    <3>1. i0 \in FreshCards BY <2>2
    <3>2. QED BY <2>2, <2>3, <3>1
  <2>5. i \in CardIds /\ i \notin DOMAIN cards /\ \A o \in Senders : i \notin DOMAIN noticeWork[o].written
    BY <2>4 DEF FreshCards
  <2>6. i \notin DOMAIN seen BY <1>1, <2>5
  <2>7. CardOK(row)
    <3>1. CardTypeOK(row) BY <1>2, <2>1 DEF CardTypeOK
    <3>2. row.mode = "batched" => IsNoisy(row.lead) BY <2>1
    <3>3. QED BY <1>2, <2>1, <3>1, <3>2 DEF CardOK
  <2>8. Holds(task, row) BY <2>1 DEF Holds
  <2>9. PICK rows : rows = Over([c \in {i} |-> row], seen) OBVIOUS
  <2>10. /\ DOMAIN rows = {i} \cup DOMAIN seen /\ rows[i] = row
         /\ \A c \in DOMAIN seen : rows[c] = seen[c]
    BY <2>6, <2>9 DEF Over
  <2>11. Apart(rows)
    <3>1. ASSUME NEW c \in DOMAIN rows, NEW d \in DOMAIN rows,
                 Clash(rows[c], rows[d].lead, rows[d].to),
                 IsAction(rows[d].lead) => rows[d].open
          PROVE  c = d
      <4>1. CASE c \in DOMAIN seen /\ d \in DOMAIN seen BY <1>1, <2>10, <3>1, <4>1 DEF Apart
      <4>2. CASE c \in DOMAIN seen /\ d = i
        <5>1. Clash(seen[c], e, reader) BY <2>1, <2>10, <3>1, <4>2
        <5>2. ~Keyed(e) BY <4>2, <5>1
        <5>3. QED BY <1>4, <4>2, <5>1, <5>2 DEF Clash, Keyed
      <4>3. CASE c = i /\ d \in DOMAIN seen
        <5>1. Clash(row, seen[d].lead, seen[d].to) BY <2>10, <3>1, <4>3
        <5>2. seen[d].to = reader /\ row.lead = e /\ row.to = reader BY <2>1, <5>1 DEF Clash
        <5>3. CASE seen[d].lead = e BY <1>4, <4>3, <5>2, <5>3
        <5>4. CASE Alike(e, seen[d].lead)
          <6>1. Keyed(e) /\ Alike(seen[d].lead, e) BY <5>4, Folded
          <6>2. IsAction(e) <=> IsAction(seen[d].lead) BY <5>4, Folded
          <6>3. IsNoisy(e) <=> IsNoisy(seen[d].lead) BY <5>4, Folded
          <6>4. ~(IsAction(e) /\ IsNoisy(e)) /\ (Keyed(seen[d].lead) <=> Keyed(e))
            BY <6>2, <6>3, KeyedIs DEF Keyed
          <6>5. IsAction(seen[d].lead) => seen[d].open BY <2>10, <3>1, <4>3
          <6>6. Clash(seen[d], e, reader)
            BY <5>1, <5>2, <6>1, <6>2, <6>3, <6>4, <6>5 DEF Clash
          <6>7. QED BY <4>3, <6>1, <6>6
        <5>5. QED BY <5>1, <5>2, <5>3, <5>4 DEF Clash
      <4>4. QED BY <2>10, <4>1, <4>2, <4>3
    <3>2. QED BY <3>1 DEF Apart
  <2>12. Capped(rows)
    <3>1. ASSUME NEW r \in Readers, NEW m \in 0..LastTick
          PROVE  Cardinality(InWindow(rows, r, m)) <= MaxBatched
      <4>1. Cardinality(InWindow(seen, r, m)) <= MaxBatched BY <1>1 DEF Capped
      <4>2. CASE i \notin InWindow(rows, r, m)
        <5>1. InWindow(rows, r, m) = InWindow(seen, r, m) BY <2>10, <4>2 DEF InWindow
        <5>2. QED BY <4>1, <5>1
      <4>3. CASE i \in InWindow(rows, r, m)
        <5>1. r = reader /\ mode = "batched" /\ clock \in m - BatchCap .. m
          BY <2>1, <2>10, <4>3 DEF InWindow
        <5>2. m \in clock..LastTick BY <1>2, <3>1, <5>1
        <5>3. Cardinality(InWindow(seen, r, m)) < MaxBatched BY <5>1, <5>2
        <5>4. InWindow(rows, r, m) = InWindow(seen, r, m) \cup {i}
          BY <2>10, <4>3 DEF InWindow
        <5>5. IsFiniteSet(InWindow(seen, r, m)) /\ Cardinality(InWindow(seen, r, m)) \in Nat
          BY <1>1, WindowsFinite
        <5>6. i \notin InWindow(seen, r, m) BY <2>6 DEF InWindow
        <5>7. PICK w : w = InWindow(seen, r, m) OBVIOUS
        <5>8. Cardinality(w \cup {i}) = Cardinality(w) + 1 BY <5>5, <5>6, <5>7, FS_AddElement
        <5>9. QED BY <5>3, <5>4, <5>5, <5>7, <5>8 DEF NoticeConstants
      <4>4. QED BY <4>2, <4>3
    <3>2. QED BY <3>1 DEF Capped
  <2>13. row.to = Head(task.rest) /\ task.event \in row.objects BY <2>1
  <2>14. QED BY <2>4, <2>5, <2>6, <2>7, <2>8, <2>9, <2>11, <2>12, <2>13, Puts
<1>5. QED BY <1>3, <1>4

LEMMA EmptyRows ==
    ASSUME NoticeConstants
    PROVE  /\ RowsOK(NoRows) /\ Apart(NoRows) /\ Capped(NoRows) /\ DOMAIN NoRows = {}
           /\ Over(NoRows, NoRows) = NoRows
<1>1. RowsOK(NoRows) /\ DOMAIN NoRows = {} BY NoRowsOK
<1>2. PICK rows : rows = NoRows OBVIOUS
<1>3. rows = [c \in DOMAIN rows |-> rows[c]] BY <1>1, <1>2 DEF RowsOK
<1>4. Over(NoRows, rows) = rows BY <1>3, OverNoRows
<1>5. \A reader, m : InWindow(NoRows, reader, m) = {} BY <1>1 DEF InWindow
<1>6. Capped(NoRows)
  <2>1. PICK none : none = {} OBVIOUS
  <2>2. Cardinality(none) = 0 BY <2>1, FS_EmptySet
  <2>3. \A reader \in Readers, m \in 0..LastTick : InWindow(NoRows, reader, m) = none
    BY <1>5, <2>1
  <2>4. Cardinality(none) <= MaxBatched BY <2>2 DEF NoticeConstants
  <2>5. QED BY <2>3, <2>4 DEF Capped
<1>7. QED BY <1>1, <1>2, <1>4, <1>6 DEF Apart

LEMMA NoNoticeOK ==
    ASSUME clock \in Nat, NEW rows, RowsOK(rows), Apart(rows), Capped(rows), cards = rows
    PROVE  NoticeTaskOK(NoNotice)
<1>1. PICK b : b = NoNotice OBVIOUS
<1>2. /\ b.pc = "idle" /\ b.event = NoCard /\ b.rest = <<>> /\ b.card = NoCard /\ b.written = NoRows
      /\ b.locks = {} /\ b.now = 0 /\ b = [pc |-> "idle", event |-> NoCard, rest |-> <<>>,
           card |-> NoCard, written |-> NoRows, locks |-> {}, now |-> 0]
  BY <1>1 DEF NoNotice
<1>3. <<>> \in Seq(Readers) OBVIOUS
<1>4. b \in NoticeTask(b.written, b.locks) BY <1>2, <1>3 DEF NoticeTask, NoticePcs
<1>5. Sees(b) = rows BY <1>2, OverNoRows DEF Sees, RowsOK
<1>6. TaskFits(b, Sees(b)) BY <1>2, <1>5 DEF TaskFits
<1>7. RowsOK(b.written) /\ Follows(b, cards) BY <1>2, NoRowsOK DEF Follows
<1>8. NoticeTaskOK(b) BY <1>1, <1>2, <1>4, <1>6, <1>7 DEF NoticeTaskOK
<1>9. QED BY <1>1, <1>8

LEMMA NoticesStart ==
    ASSUME NoticeConstants, NoticesInit
    PROVE  NoticeInv
<1>1. PICK i \in NoticeInstances : noticeKinds = i.kinds /\ events = i.events BY DEF NoticesInit
<1>2. noticeKinds \subseteq NoticeKinds BY <1>1 DEF NoticeConstants
<1>3. ASSUME NEW e \in DOMAIN events PROVE events[e].to \in Seq(Readers) \ {<<>>}
  <2>1. PICK s, S : s = events[e].to /\ S = ToSet(s) OBVIOUS
  <2>2. s \in Seq(S) \ {<<>>} BY <1>1, <2>1 DEF NoticeConstants
  <2>3. S \subseteq Readers BY <2>1 DEF Readers
  <2>4. s \in Seq(Readers) BY <2>2, <2>3
  <2>5. QED BY <2>1, <2>2, <2>4
<1>4. PICK rows : rows = NoRows OBVIOUS
<1>5. RowsOK(rows) /\ Apart(rows) /\ Capped(rows) BY <1>4, EmptyRows
<1>6. clock = 0 /\ cards = rows /\ told = {} /\ noticeWork = [q \in Senders |-> NoNotice]
  BY <1>4 DEF NoticesInit
<1>7. \A q \in Senders : NoticeTaskOK(noticeWork[q]) BY <1>5, <1>6, NoNoticeOK
<1>8. \A q \in Senders : noticeWork[q] = NoNotice /\ noticeWork[q].pc = "idle"
                        /\ noticeWork[q].locks = {} /\ DOMAIN noticeWork[q].written = {}
  BY <1>6, NoRowsOK DEF NoNotice
<1>9. \A q, o \in Senders : q # o => AreApart(noticeWork[q], noticeWork[o])
  BY <1>8 DEF AreApart
<1>10. noticeWork = [q \in Senders |-> noticeWork[q]] BY <1>6
<1>11. clock \in 0..LastTick BY <1>6 DEF NoticeConstants
<1>12. QED BY <1>2, <1>3, <1>5, <1>6, <1>7, <1>9, <1>10, <1>11 DEF NoticeInv

LEMMA FansOut ==
    ASSUME NoticeInv, NEW q \in Senders, NEW e \in DOMAIN events, FanOut(q, e)
    PROVE  NoticeInv'
<1>1. PICK b : b = [NoNotice EXCEPT !.pc = "find", !.event = e, !.rest = events[e].to, !.now = clock]
  OBVIOUS
<1>2. NoticeGoes(q, b) /\ UNCHANGED <<cards, told>> BY <1>1 DEF FanOut
<1>3. /\ b.pc = "find" /\ b.event = e /\ b.rest = events[e].to /\ b.card = NoCard /\ b.written = NoRows
      /\ b.locks = {} /\ b.now = clock
      /\ b = [pc |-> "find", event |-> e, rest |-> events[e].to,
              card |-> NoCard, written |-> NoRows, locks |-> {}, now |-> clock]
  BY <1>1 DEF NoNotice
<1>4. events[e].to \in Seq(Readers) \ {<<>>} /\ clock \in Nat BY DEF NoticeInv
<1>5. b \in NoticeTask(b.written, b.locks) BY <1>3, <1>4 DEF NoticeTask, NoticePcs
<1>6. Sees(b) = cards BY <1>3, OverNoRows DEF Sees, NoticeInv, RowsOK
<1>7. Busy(b) BY <1>3, <1>4, NoRowsOK DEF Busy
<1>8. IsTold(b, cards) BY <1>3 DEF IsTold
<1>9. TaskFits(b, Sees(b)) BY <1>3, <1>6, <1>8 DEF TaskFits, NoticeInv
<1>10. RowsOK(b.written) /\ DOMAIN b.written = {} BY <1>3, NoRowsOK
<1>11. NoticeTaskOK(b) BY <1>3, <1>5, <1>7, <1>9, <1>10 DEF NoticeTaskOK, Follows
<1>12. ASSUME NEW o \in Senders \ {q} PROVE AreApart(b, noticeWork[o])
  BY <1>3, <1>10 DEF AreApart, FanOut
<1>13. QED BY <1>2, <1>11, <1>12, NoticeMoves

LEMMA FindsCard ==
    ASSUME NoticeConstants, NoticeInv, NEW q \in Senders, FindCard(q)
    PROVE  NoticeInv'
<1>1. PICK task, seen, e, reader, l :
         /\ task = noticeWork[q] /\ seen = Sees(task) /\ e = task.event /\ reader = Head(task.rest)
         /\ l = LockOf(e, reader)
  OBVIOUS
<1>2. /\ task.pc = "find" /\ Keyed(e) /\ UNCHANGED <<cards, told>>
      /\ \A o \in Senders \ {q} : l \notin noticeWork[o].locks
  BY <1>1 DEF FindCard, Keyed
<1>3. PICK c \in IF Matches(task) = {} THEN {NoCard} ELSE Matches(task) :
         NoticeGoes(q, [task EXCEPT !.pc = "put", !.card = c, !.locks = @ \cup {l}])
  BY <1>1 DEF FindCard
<1>4. PICK b : b = [task EXCEPT !.pc = "put", !.card = c, !.locks = @ \cup {l}] OBVIOUS
<1>5. NoticeTaskOK(task) BY <1>1 DEF NoticeInv
<1>6. /\ task \in NoticeTask(task.written, task.locks) /\ Busy(task) /\ IsTold(task, seen)
      /\ RowsOK(seen) /\ Apart(seen) /\ Capped(seen) /\ DOMAIN seen \subseteq CardIds
      /\ RowsOK(task.written) /\ Follows(task, cards)
  <2>1. task \in NoticeTask(task.written, task.locks) /\ RowsOK(task.written) BY <1>5 DEF NoticeTaskOK
  <2>2. Busy(task) /\ IsTold(task, seen) /\ RowsOK(seen) /\ Apart(seen) /\ Capped(seen) /\ Follows(task, cards)
    BY <1>1, <1>2, SeenCards
  <2>3. QED BY <2>1, <2>2 DEF RowsOK
<1>7. Matches(task) \subseteq DOMAIN seen BY <1>1 DEF Matches
<1>8. c \in CardIds \cup {NoCard} BY <1>3, <1>6, <1>7
<1>9. /\ b.pc = "put" /\ b.event = e /\ b.rest = task.rest /\ b.card = c /\ b.written = task.written
      /\ b.locks = task.locks \cup {l} /\ b.now = task.now /\ b \in NoticeTask(b.written, b.locks)
  BY <1>1, <1>4, <1>6, <1>8 DEF NoticeTask, NoticePcs
<1>10. Busy(b)
  <2>1. b.event \in DOMAIN events /\ b.rest # <<>> BY <1>1, <1>2, <1>6, <1>9 DEF Busy
  <2>2. \A d \in DOMAIN b.written : Holds(b, b.written[d])
    BY <1>1, <1>6, <1>9 DEF Busy, Holds
  <2>3. QED BY <1>9, <2>1, <2>2 DEF Busy
<1>11. Sees(b) = seen BY <1>1, <1>9 DEF Sees
<1>12. \A d \in DOMAIN seen : CardOK(seen[d]) BY <1>6 DEF RowsOK
<1>13. task.now \in 0..clock /\ clock \in 0..LastTick BY <1>1, <1>2, FirstReader DEF NoticeInv
<1>14. Choosing(b, seen)
  <2>1. CASE Matches(task) = {}
    <3>1. c = NoCard BY <1>3, <2>1
    <3>2. ASSUME NEW d \in DOMAIN seen, Clash(seen[d], e, reader) PROVE FALSE
      <4>1. CASE IsAction(e) /\ Alike(seen[d].lead, e) /\ seen[d].open
        <5>1. IsAction(seen[d].lead) /\ ~IsNoisy(e) BY <4>1, KeyedIs DEF Alike
        <5>2. seen[d].to = reader /\ events[seen[d].lead].key = events[e].key
          BY <3>2, <4>1 DEF Clash, Alike
        <5>3. d \in Matches(task) BY <1>1, <4>1, <5>1, <5>2 DEF Matches
        <5>4. QED BY <2>1, <5>3
      <4>2. CASE IsNoisy(e) /\ Alike(seen[d].lead, e) /\ NoneCloses
        <5>1. IsNoisy(seen[d].lead) BY <4>2, KeyedIs DEF Alike
        <5>2. seen[d].to = reader /\ events[seen[d].lead].key = events[e].key
          BY <3>2, <4>2 DEF Clash, Alike
        <5>3. seen[d].open BY <1>12, <4>2 DEF CardOK, NoneCloses
        <5>4. clock = 0 BY <4>2 DEF NoneCloses, NoticeInv
        <5>5. seen[d].made = 0 /\ seen[d].touched = 0 /\ task.now = 0
          <6>1. CardTypeOK(seen[d]) BY <1>12 DEF CardOK
          <6>2. QED BY <1>13, <5>4, <6>1 DEF CardTypeOK
        <5>6. seen[d].made >= task.now - BatchCap /\ seen[d].touched >= task.now - BatchWindow
          BY <5>5 DEF NoticeConstants
        <5>7. d \in Matches(task) BY <1>1, <4>2, <5>1, <5>2, <5>3, <5>6 DEF Matches
        <5>8. QED BY <2>1, <5>7
      <4>3. QED BY <1>2, <3>2, <4>1, <4>2 DEF Clash
    <3>3. QED BY <1>1, <1>2, <1>9, <3>1, <3>2 DEF Choosing
  <2>2. CASE Matches(task) # {}
    <3>1. c \in Matches(task) BY <1>3, <2>2
    <3>2. c # NoCard /\ c \in DOMAIN seen BY <1>6, <1>7, <3>1 DEF NoticeConstants
    <3>3. seen[c].to = reader /\ Alike(seen[c].lead, e)
      BY <1>1, <1>2, <3>1 DEF Matches, Alike, Keyed
    <3>4. QED BY <1>1, <1>2, <1>9, <3>2, <3>3 DEF Choosing
  <2>3. QED BY <2>1, <2>2
<1>15. IsTold(b, seen) BY <1>1, <1>6, <1>9 DEF IsTold
<1>16. TaskFits(b, Sees(b)) BY <1>6, <1>11, <1>14, <1>15 DEF TaskFits
<1>17. NoticeTaskOK(b) BY <1>6, <1>9, <1>10, <1>16 DEF NoticeTaskOK, Follows
<1>18. ASSUME NEW o \in Senders \ {q} PROVE AreApart(b, noticeWork[o])
  <2>1. AreApart(task, noticeWork[o]) BY <1>1 DEF NoticeInv
  <2>2. QED BY <1>1, <1>2, <1>9, <2>1 DEF AreApart
<1>19. NoticeGoes(q, b) BY <1>3, <1>4
<1>20. QED BY <1>1, <1>2, <1>17, <1>18, <1>19, NoticeMoves

LEMMA PutsPlain ==
    ASSUME NoticeConstants, NoticeInv, NEW q \in Senders, PutPlain(q)
    PROVE  NoticeInv'
<1>1. PICK task, seen, e, reader, mode :
         /\ task = noticeWork[q] /\ seen = Sees(task) /\ e = task.event /\ reader = Head(task.rest)
         /\ mode = "immediate"
  OBVIOUS
<1>2. task.pc = "find" /\ ~Keyed(e) /\ WriteCard(q, mode) BY <1>1 DEF PutPlain, Keyed
<1>3. mode \in {"immediate", "batched", "digest"} /\ mode # "batched" BY <1>1
<1>4. task.pc \in {"find", "put"} BY <1>2
<1>5. QED BY <1>1, <1>2, <1>3, <1>4, FreshWrites

LEMMA PutsNew ==
    ASSUME NoticeConstants, NoticeInv, NEW q \in Senders, PutNew(q)
    PROVE  NoticeInv'
<1>1. PICK task, seen, e, reader :
         /\ task = noticeWork[q] /\ seen = Sees(task) /\ e = task.event /\ reader = Head(task.rest)
  OBVIOUS
<1>2. PICK bundles :
         bundles = {c \in DOMAIN seen : /\ seen[c].to = reader /\ IsNoisy(seen[c].lead)
                                        /\ seen[c].made >= task.now - BatchCap}
  OBVIOUS
<1>3. PICK mode : mode = IF IsAction(e) THEN "immediate"
                         ELSE IF Cardinality(bundles) >= MaxBatched THEN "digest" ELSE "batched"
  OBVIOUS
<1>4. task.pc = "put" /\ task.card = NoCard /\ WriteCard(q, mode)
  BY <1>1, <1>2, <1>3 DEF PutNew
<1>5. mode \in {"immediate", "batched", "digest"} /\ task.pc \in {"find", "put"} BY <1>3, <1>4
<1>6. RowsOK(seen) /\ Choosing(task, seen) BY <1>1, <1>4, SeenCards
<1>7. /\ Keyed(e) /\ LockOf(e, reader) \in task.locks
      /\ \A c \in DOMAIN seen : ~Clash(seen[c], e, reader)
  BY <1>1, <1>4, <1>6 DEF Choosing
<1>8. task.now \in 0..clock /\ clock \in 0..LastTick BY <1>1, <1>5, FirstReader DEF NoticeInv
<1>9. IsFiniteSet(bundles) /\ Cardinality(bundles) \in Nat
  <2>1. bundles \in SUBSET CardIds BY <1>2, <1>6 DEF RowsOK
  <2>2. QED BY <2>1, FS_Subset, FS_CardinalityType DEF NoticeConstants
<1>10. ASSUME mode = "batched" PROVE IsNoisy(e)
  BY <1>3, <1>7, <1>10 DEF Keyed
<1>11. ASSUME mode = "batched", NEW m \in clock..LastTick
       PROVE  Cardinality(InWindow(seen, reader, m)) < MaxBatched
  <2>1. PICK w : w = InWindow(seen, reader, m) OBVIOUS
  <2>2. IsFiniteSet(w) /\ Cardinality(w) \in Nat BY <1>6, <2>1, WindowsFinite
  <2>3. w \subseteq bundles
    <3>1. ASSUME NEW c \in w PROVE c \in bundles
      <4>1. c \in DOMAIN seen /\ seen[c].to = reader /\ seen[c].mode = "batched"
            /\ seen[c].made \in m - BatchCap .. m
        BY <2>1, <3>1 DEF InWindow
      <4>2. CardOK(seen[c]) /\ CardTypeOK(seen[c]) BY <1>6, <4>1 DEF RowsOK, CardOK
      <4>3. IsNoisy(seen[c].lead) BY <4>1, <4>2 DEF CardOK
      <4>4. seen[c].made \in Nat BY <4>2 DEF CardTypeOK
      <4>5. seen[c].made >= task.now - BatchCap BY <1>8, <1>11, <4>1, <4>4 DEF NoticeConstants
      <4>6. QED BY <1>2, <4>1, <4>3, <4>5
    <3>2. QED BY <3>1
  <2>4. Cardinality(w) <= Cardinality(bundles) BY <1>9, <2>3, FS_Subset
  <2>5. Cardinality(bundles) < MaxBatched BY <1>3, <1>9, <1>11 DEF NoticeConstants
  <2>6. QED BY <1>9, <2>1, <2>2, <2>4, <2>5 DEF NoticeConstants
<1>12. QED BY <1>1, <1>4, <1>5, <1>7, <1>10, <1>11, FreshWrites

(* What is folded stays apart from the rest.                               *)
LEMMA FoldedIsOK ==
    ASSUME NoticeInv, NEW old, CardOK(old), NEW e \in DOMAIN events, Alike(old.lead, e),
           NEW lead, lead = IF events[e].verb = "assignment" /\ events[old.lead].verb # "assignment"
                            THEN e ELSE old.lead,
           NEW row, row = [to |-> old.to, lead |-> lead, objects |-> old.objects \cup {e},
                           mode |-> old.mode, open |-> old.open, made |-> old.made,
                           touched |-> clock]
    PROVE  /\ CardOK(row) /\ Continues(row, old) /\ Alike(row.lead, e) /\ row.to = old.to
           /\ row.open = old.open /\ e \in row.objects
<1>1. /\ CardTypeOK(old) /\ old.lead \in old.objects
      /\ \A f \in old.objects : f = old.lead \/ Alike(f, old.lead)
      /\ events[old.lead].verb = "mention" => \A f \in old.objects : events[f].verb # "assignment"
      /\ old.mode = "batched" => IsNoisy(old.lead)
      /\ "archive" \notin noticeKinds => old.open
  BY DEF CardOK
<1>2. clock \in Nat BY DEF NoticeInv
<1>3. /\ row.to = old.to /\ row.open = old.open /\ row.mode = old.mode /\ row.made = old.made
      /\ row.objects = old.objects \cup {e} /\ row.touched = clock
      /\ row.lead = lead
  BY <1>1 DEF CardTypeOK
<1>4. CardTypeOK(row)
  <2>1. lead \in DOMAIN events /\ old.objects \cup {e} \in SUBSET DOMAIN events /\ clock \in 0..clock
    BY <1>1, <1>2 DEF CardTypeOK
  <2>2. QED BY <1>1, <2>1 DEF CardTypeOK
<1>5. Alike(e, old.lead) /\ Alike(e, e) /\ Alike(old.lead, old.lead) BY Folded, KeyedIs
<1>6. Alike(row.lead, e) /\ Alike(row.lead, old.lead) /\ Alike(old.lead, row.lead) BY <1>3, <1>5
<1>7. ASSUME NEW f \in row.objects PROVE f = row.lead \/ Alike(f, row.lead)
  <2>1. CASE f = e BY <1>6, <2>1, Folded
  <2>2. CASE f = old.lead BY <1>6, <2>2
  <2>3. CASE Alike(f, old.lead) BY <1>6, <2>3, Folded
  <2>4. QED BY <1>1, <1>3, <1>7, <2>1, <2>2, <2>3
<1>8. ASSUME events[row.lead].verb = "mention", NEW f \in row.objects
      PROVE  events[f].verb # "assignment"
  <2>1. lead = old.lead BY <1>3, <1>8
  <2>2. row.lead = old.lead /\ events[e].verb # "assignment" BY <1>3, <1>8, <2>1
  <2>3. QED BY <1>1, <1>3, <1>8, <2>2
<1>9. row.mode = "batched" => IsNoisy(row.lead) BY <1>1, <1>3, <1>6, Folded
<1>10. row.made <= row.touched BY <1>1, <1>2, <1>3 DEF CardTypeOK
<1>11. row.lead \in row.objects BY <1>1, <1>3
<1>12. CardOK(row) BY <1>1, <1>3, <1>4, <1>7, <1>8, <1>9, <1>10, <1>11 DEF CardOK
<1>13. Continues(row, old) BY <1>3, <1>6 DEF Continues
<1>14. QED BY <1>3, <1>6, <1>12, <1>13

LEMMA Folds ==
    ASSUME NoticeConstants, NoticeInv, NEW q \in Senders, Fold(q)
    PROVE  NoticeInv'
<1>1. PICK task, seen, e, reader, i :
         /\ task = noticeWork[q] /\ seen = Sees(task) /\ e = task.event /\ reader = Head(task.rest)
         /\ i = task.card
  OBVIOUS
<1>2. PICK old, lead :
         /\ old = seen[i]
         /\ lead = IF events[e].verb = "assignment" /\ events[old.lead].verb # "assignment"
                   THEN e ELSE old.lead
  OBVIOUS
<1>3. task.pc = "put" /\ i # NoCard BY <1>1 DEF Fold
<1>4. /\ RowsOK(seen) /\ Choosing(task, seen) /\ Apart(seen) /\ Capped(seen) /\ Follows(task, cards)
      /\ DOMAIN seen = DOMAIN task.written \cup DOMAIN cards
      /\ \A c \in DOMAIN task.written : seen[c] = task.written[c]
      /\ \A c \in DOMAIN cards \ DOMAIN task.written : seen[c] = cards[c]
  BY <1>1, <1>3, SeenCards
<1>5. /\ i \in DOMAIN seen /\ old.to = reader /\ Alike(old.lead, e)
      /\ Keyed(e) /\ LockOf(e, reader) \in task.locks
  BY <1>1, <1>2, <1>3, <1>4 DEF Choosing
<1>6. CardOK(old) /\ i \in CardIds BY <1>2, <1>4, <1>5 DEF RowsOK
<1>7. task.pc \in {"find", "put"} BY <1>3
<1>8. e \in DOMAIN events BY <1>1, <1>7, FirstReader
<1>9. CASE e \in old.objects
  <2>1. NextReader(q, NoRows) BY <1>1, <1>2, <1>9 DEF Fold
  <2>2. Told(seen, e, reader) BY <1>2, <1>5, <1>9 DEF Told
  <2>3. QED BY <1>1, <1>7, <2>1, <2>2, Passes
<1>10. CASE e \notin old.objects
  <2>1. PICK row : row = [old EXCEPT !.objects = @ \cup {e}, !.touched = clock, !.lead = lead]
    OBVIOUS
  <2>2. NextReader(q, [c \in {i} |-> row]) BY <1>1, <1>2, <1>10, <2>1 DEF Fold
  <2>3. /\ CardOK(row) /\ Continues(row, old) /\ Alike(row.lead, e) /\ row.to = old.to
        /\ row.open = old.open /\ e \in row.objects
    <3>1. /\ lead = IF events[e].verb = "assignment" /\ events[old.lead].verb # "assignment"
                    THEN e ELSE old.lead
          /\ Alike(old.lead, e)
      BY <1>2, <1>5
    <3>2. row = [to |-> old.to, lead |-> lead, objects |-> old.objects \cup {e},
                 mode |-> old.mode, open |-> old.open, made |-> old.made, touched |-> clock]
      <4>1. CardTypeOK(old) BY <1>6 DEF CardOK
      <4>2. QED BY <2>1, <4>1 DEF CardTypeOK
    <3>3. /\ CardOK(row) /\ Continues(row, old) /\ Alike(row.lead, e) /\ row.to = old.to
          /\ row.open = old.open /\ e \in row.objects
      BY <1>6, <1>8, <3>1, <3>2, FoldedIsOK
    <3>4. QED BY <1>5, <3>3
  <2>4. Keyed(row.lead) /\ LockOf(row.lead, row.to) = LockOf(e, reader) BY <1>5, <2>3, Folded
  <2>5. Holds(task, row) BY <1>5, <2>4 DEF Holds
  <2>6. PICK rows : rows = Over([c \in {i} |-> row], seen) OBVIOUS
  <2>7. /\ DOMAIN rows = DOMAIN seen /\ rows[i] = row
        /\ \A c \in DOMAIN seen \ {i} : rows[c] = seen[c]
    BY <1>5, <2>6 DEF Over
  <2>8. \A c \in DOMAIN seen : /\ rows[c].to = seen[c].to /\ rows[c].open = seen[c].open
                               /\ rows[c].mode = seen[c].mode /\ rows[c].made = seen[c].made
                               /\ rows[c].lead = seen[c].lead \/ Alike(rows[c].lead, seen[c].lead)
    BY <1>2, <2>3, <2>7 DEF Continues
  <2>9. Apart(rows)
    <3>1. ASSUME NEW c \in DOMAIN rows, NEW d \in DOMAIN rows,
                 Clash(rows[c], rows[d].lead, rows[d].to),
                 IsAction(rows[d].lead) => rows[d].open
          PROVE  c = d
      <4>1. PICK f, g, f0, g0 : f = rows[c].lead /\ g = rows[d].lead
                                /\ f0 = seen[c].lead /\ g0 = seen[d].lead
        OBVIOUS
      <4>2. (f = f0 \/ Alike(f, f0)) /\ (g = g0 \/ Alike(g, g0)) BY <2>7, <2>8, <4>1
      <4>3. /\ (IsAction(f) <=> IsAction(f0)) /\ (IsNoisy(f) <=> IsNoisy(f0))
            /\ (IsAction(g) <=> IsAction(g0)) /\ (IsNoisy(g) <=> IsNoisy(g0))
        BY <4>2, Folded
      <4>4. rows[c].to = rows[d].to /\ seen[c].to = seen[d].to BY <2>7, <2>8, <3>1 DEF Clash
      <4>5. Alike(f, g) => Alike(f0, g0)
        <5>1. ASSUME Alike(f, g) PROVE Alike(f0, g0)
          <6>1. Alike(f0, g) BY <4>2, <5>1, Folded
          <6>2. Alike(g, f0) BY <6>1, Folded
          <6>3. Alike(g0, f0) BY <4>2, <6>2, Folded
          <6>4. QED BY <6>3, Folded
        <5>2. QED BY <5>1
      <4>6. ~Keyed(g) /\ f = g => ~Keyed(g0) /\ f0 = g0
        <5>1. ASSUME ~Keyed(g), f = g PROVE ~Keyed(g0) /\ f0 = g0
          <6>1. ~Alike(g, g0) /\ ~Alike(f, f0) BY <5>1, Folded
          <6>2. QED BY <4>2, <5>1, <6>1
        <5>2. QED BY <5>1
      <4>7. seen[c].open = rows[c].open /\ seen[d].open = rows[d].open BY <2>7, <2>8
      <4>8. Clash(seen[c], g0, seen[d].to)
        BY <3>1, <4>1, <4>3, <4>4, <4>5, <4>6, <4>7 DEF Clash
      <4>9. IsAction(g0) => seen[d].open BY <3>1, <4>1, <4>3, <4>7
      <4>10. QED BY <1>4, <2>7, <4>1, <4>8, <4>9 DEF Apart
    <3>2. QED BY <3>1 DEF Apart
  <2>10. Capped(rows)
    <3>1. \A r, m : InWindow(rows, r, m) = InWindow(seen, r, m) BY <2>7, <2>8 DEF InWindow
    <3>2. QED BY <1>4, <3>1 DEF Capped
  <2>11. ASSUME i \in DOMAIN cards PROVE Keyed(cards[i].lead) /\ cards[i].to = reader
                                         /\ Alike(cards[i].lead, e)
    <3>1. CASE i \in DOMAIN task.written
      <4>1. Continues(old, cards[i]) BY <1>2, <1>4, <2>11, <3>1 DEF Follows
      <4>2. Alike(cards[i].lead, old.lead) /\ cards[i].to = reader BY <1>5, <4>1, Folded DEF Continues
      <4>3. QED BY <1>5, <4>2, Folded
    <3>2. CASE i \notin DOMAIN task.written
      <4>1. old = cards[i] BY <1>2, <1>4, <2>11, <3>2
      <4>2. QED BY <1>5, <4>1, Folded
    <3>3. QED BY <3>1, <3>2
  <2>12. ASSUME NEW o \in Senders \ {q}, i \in DOMAIN noticeWork[o].written PROVE FALSE
    <3>1. PICK other : other = noticeWork[o] OBVIOUS
    <3>2. AreApart(task, other) /\ NoticeTaskOK(other) BY <1>1, <3>1 DEF NoticeInv
    <3>3. i \notin DOMAIN task.written /\ i \in DOMAIN cards
      BY <1>4, <1>5, <2>12, <3>1, <3>2 DEF AreApart
    <3>4. cards[i].to = reader /\ Alike(cards[i].lead, e) BY <2>11, <3>3
    <3>5. other.pc # "idle" BY <2>12, <3>1, <3>2, NoRowsOK DEF NoticeTaskOK, NoNotice
    <3>6. Busy(other) /\ Continues(other.written[i], cards[i])
      BY <2>12, <3>1, <3>2, <3>3, <3>5 DEF NoticeTaskOK, Follows
    <3>7. Holds(other, other.written[i]) BY <2>12, <3>1, <3>6 DEF Busy
    <3>8. Alike(other.written[i].lead, e) /\ other.written[i].to = reader
      BY <3>4, <3>6, Folded DEF Continues
    <3>9. Keyed(other.written[i].lead)
          /\ LockOf(other.written[i].lead, other.written[i].to) = LockOf(e, reader)
      BY <3>8, Folded
    <3>10. LockOf(e, reader) \in other.locks BY <3>7, <3>9 DEF Holds
    <3>11. QED BY <1>5, <3>2, <3>10 DEF AreApart
  <2>13. row.to = Head(task.rest) /\ task.event \in row.objects BY <1>1, <1>5, <2>3
  <2>14. i \in DOMAIN cards => Keyed(cards[i].lead) BY <2>11
  <2>15. i \in DOMAIN seen => Continues(row, seen[i]) BY <1>2, <2>3
  <2>16. \A o \in Senders \ {q} : i \notin DOMAIN noticeWork[o].written BY <2>12
  <2>17. QED BY <1>1, <1>6, <1>7, <2>2, <2>3, <2>5, <2>6, <2>9, <2>10, <2>13, <2>14, <2>15,
                <2>16, Puts
<1>11. QED BY <1>9, <1>10

(* Two transactions hold no rows that could be folded into each other.     *)
LEMMA LocksPart ==
    ASSUME NEW a, NEW b, AreApart(a, b), a.pc # "idle", b.pc # "idle",
           NEW x, NEW y, Holds(a, x), Holds(b, y), x.to = y.to
    PROVE  x.lead # y.lead /\ ~Alike(x.lead, y.lead)
<1>1. CASE x.lead = y.lead BY <1>1 DEF Holds, AreApart, Keyed
<1>2. CASE Alike(x.lead, y.lead)
  <2>1. /\ Keyed(x.lead) /\ Keyed(y.lead)
        /\ LockOf(x.lead, x.to) = LockOf(y.lead, y.to)
    BY <1>2, Folded
  <2>2. QED BY <2>1 DEF Holds, AreApart
<1>3. QED BY <1>1, <1>2 DEF Holds, AreApart

LEMMA HeldIs ==
    ASSUME NoticeInv, NEW o \in Senders, NEW b, b = noticeWork[o]
    PROVE  /\ \A c \in DOMAIN b.written : Holds(b, b.written[c]) /\ CardOK(b.written[c])
           /\ (DOMAIN b.written # {} \/ b.locks # {}) => b.pc # "idle"
           /\ b.pc \in NoticePcs /\ Follows(b, cards) /\ NoticeTaskOK(b)
<1>1. NoticeTaskOK(b) BY DEF NoticeInv
<1>2. b.pc \in NoticePcs /\ Follows(b, cards) /\ RowsOK(b.written)
  BY <1>1 DEF NoticeTaskOK, NoticeTask
<1>3. CASE b.pc = "idle"
  <2>1. b.written = NoRows /\ b.locks = {} BY <1>1, <1>3 DEF NoticeTaskOK, NoNotice
  <2>2. QED BY <1>1, <1>2, <2>1, NoRowsOK
<1>4. CASE b.pc # "idle"
  <2>1. Busy(b) BY <1>1, <1>4 DEF NoticeTaskOK
  <2>2. QED BY <1>1, <1>2, <1>4, <2>1 DEF Busy, RowsOK
<1>5. QED BY <1>3, <1>4

(* What another transaction then sees.                                     *)
LEMMA OthersFit ==
    ASSUME NoticeConstants, NoticeInv, NEW q \in Senders, NEW task, task = noticeWork[q],
           NEW o \in Senders \ {q}, NEW b, b = noticeWork[o],
           task.pc # "idle", NEW seen, seen = Sees(task)
    PROVE  TaskFits(b, Over(b.written, seen)) /\ Follows(b, seen)
<1>1. /\ DOMAIN seen = DOMAIN task.written \cup DOMAIN cards
      /\ \A c \in DOMAIN task.written : seen[c] = task.written[c]
      /\ \A c \in DOMAIN cards \ DOMAIN task.written : seen[c] = cards[c]
      /\ RowsOK(seen) /\ Apart(seen) /\ Capped(seen) /\ Follows(task, cards)
  <2>1. RowsOK(seen) /\ Apart(seen) /\ Capped(seen) /\ Follows(task, cards) BY SeenCards
  <2>2. DOMAIN seen = DOMAIN task.written \cup DOMAIN cards BY SeenCards
  <2>3. /\ \A c \in DOMAIN task.written : seen[c] = task.written[c]
        /\ \A c \in DOMAIN cards \ DOMAIN task.written : seen[c] = cards[c]
    BY DEF Sees, Over
  <2>4. QED BY <2>1, <2>2, <2>3
<1>2. PICK sees : sees = Sees(b) OBVIOUS
<1>3. /\ DOMAIN sees = DOMAIN b.written \cup DOMAIN cards
      /\ \A c \in DOMAIN b.written : sees[c] = b.written[c]
      /\ \A c \in DOMAIN cards \ DOMAIN b.written : sees[c] = cards[c]
      /\ RowsOK(sees) /\ Apart(sees) /\ Capped(sees)
  <2>1. o \in Senders OBVIOUS
  <2>2. b = noticeWork[o] /\ sees = Sees(b) BY <1>2
  <2>3. RowsOK(sees) /\ Apart(sees) /\ Capped(sees) BY <2>1, <2>2, SeenCards
  <2>4. DOMAIN sees = DOMAIN b.written \cup DOMAIN cards BY <2>1, <2>2, SeenCards
  <2>5. /\ \A c \in DOMAIN b.written : sees[c] = b.written[c]
        /\ \A c \in DOMAIN cards \ DOMAIN b.written : sees[c] = cards[c]
    BY <2>2 DEF Sees, Over
  <2>6. QED BY <2>3, <2>4, <2>5
<1>4. /\ \A c \in DOMAIN b.written : Holds(b, b.written[c]) /\ CardOK(b.written[c])
      /\ (DOMAIN b.written # {} \/ b.locks # {}) => b.pc # "idle"
      /\ Follows(b, cards) /\ NoticeTaskOK(b) /\ TaskFits(b, sees)
  BY <1>2, HeldIs DEF NoticeTaskOK
<1>5. \A c \in DOMAIN task.written : Holds(task, task.written[c]) /\ CardOK(task.written[c])
  BY HeldIs
<1>6. AreApart(task, b) /\ AreApart(b, task) BY DEF NoticeInv
<1>7. PICK rows : rows = Over(b.written, seen) OBVIOUS
<1>8. /\ DOMAIN rows = DOMAIN b.written \cup DOMAIN task.written \cup DOMAIN cards
      /\ \A c \in DOMAIN b.written : rows[c] = b.written[c] /\ rows[c] = sees[c]
      /\ \A c \in DOMAIN task.written : rows[c] = task.written[c] /\ rows[c] = seen[c]
      /\ \A c \in DOMAIN rows \ DOMAIN b.written : c \in DOMAIN seen /\ rows[c] = seen[c]
      /\ \A c \in DOMAIN rows \ DOMAIN task.written : c \in DOMAIN sees /\ rows[c] = sees[c]
  <2>1. DOMAIN b.written \cap DOMAIN task.written = {} BY <1>6 DEF AreApart
  <2>2. /\ DOMAIN rows = DOMAIN b.written \cup DOMAIN seen
        /\ \A c \in DOMAIN b.written : rows[c] = b.written[c]
        /\ \A c \in DOMAIN seen \ DOMAIN b.written : rows[c] = seen[c]
    BY <1>7 DEF Over
  <2>3. QED BY <1>1, <1>3, <2>1, <2>2
<1>9. Apart(rows)
  <2>1. ASSUME NEW c \in DOMAIN rows, NEW d \in DOMAIN rows,
               Clash(rows[c], rows[d].lead, rows[d].to),
               IsAction(rows[d].lead) => rows[d].open
        PROVE  c = d
    <3>1. /\ rows[c].to = rows[d].to
          /\ rows[c].lead = rows[d].lead \/ Alike(rows[c].lead, rows[d].lead)
      BY <2>1 DEF Clash
    <3>2. CASE c \notin DOMAIN task.written /\ d \notin DOMAIN task.written
      <4>1. c \in DOMAIN sees /\ d \in DOMAIN sees /\ rows[c] = sees[c] /\ rows[d] = sees[d]
        BY <1>8, <3>2
      <4>2. QED BY <1>3, <2>1, <4>1 DEF Apart
    <3>3. CASE c \notin DOMAIN b.written /\ d \notin DOMAIN b.written
      <4>1. c \in DOMAIN seen /\ d \in DOMAIN seen /\ rows[c] = seen[c] /\ rows[d] = seen[d]
        BY <1>8, <3>3
      <4>2. QED BY <1>1, <2>1, <4>1 DEF Apart
    <3>4. CASE c \in DOMAIN b.written /\ d \in DOMAIN task.written
      <4>1. Holds(b, rows[c]) /\ Holds(task, rows[d]) /\ b.pc # "idle" BY <1>4, <1>5, <1>8, <3>4
      <4>2. QED BY <1>6, <3>1, <4>1, LocksPart
    <3>5. CASE c \in DOMAIN task.written /\ d \in DOMAIN b.written
      <4>1. Holds(task, rows[c]) /\ Holds(b, rows[d]) /\ b.pc # "idle" BY <1>4, <1>5, <1>8, <3>5
      <4>2. QED BY <1>6, <3>1, <4>1, LocksPart
    <3>6. DOMAIN b.written \cap DOMAIN task.written = {} BY <1>6 DEF AreApart
    <3>7. QED BY <3>2, <3>3, <3>4, <3>5, <3>6
  <2>2. QED BY <2>1 DEF Apart
<1>10. Capped(rows)
  <2>1. ASSUME NEW r \in Readers, NEW m \in 0..LastTick
        PROVE  Cardinality(InWindow(rows, r, m)) <= MaxBatched
    <3>1. PICK w, v, u : w = InWindow(rows, r, m) /\ v = InWindow(seen, r, m)
                         /\ u = InWindow(sees, r, m)
      OBVIOUS
    <3>2. /\ IsFiniteSet(v) /\ Cardinality(v) \in Nat /\ Cardinality(v) <= MaxBatched
          /\ IsFiniteSet(u) /\ Cardinality(u) \in Nat /\ Cardinality(u) <= MaxBatched
      BY <1>1, <1>3, <3>1, WindowsFinite DEF Capped
    <3>3. ASSUME NEW c \in w, NEW d \in w, c \in DOMAIN task.written, d \in DOMAIN b.written
          PROVE  FALSE
      <4>1. rows[c].to = r /\ rows[d].to = r /\ rows[c].mode = "batched" /\ rows[d].mode = "batched"
        BY <3>1 DEF InWindow
      <4>2. IsNoisy(rows[c].lead) /\ IsNoisy(rows[d].lead)
        <5>1. CardOK(rows[c]) BY <1>5, <1>8, <3>3
        <5>2. CardOK(rows[d]) BY <1>4, <1>8, <3>3
        <5>3. QED BY <4>1, <5>1, <5>2 DEF CardOK
      <4>3. Holds(task, rows[c]) /\ Holds(b, rows[d]) BY <1>4, <1>5, <1>8, <3>3
      <4>4. <<r>> \in task.locks /\ <<r>> \in b.locks
        BY <4>1, <4>2, <4>3 DEF Holds, Keyed, LockOf
      <4>5. QED BY <1>6, <4>4 DEF AreApart
    <3>4. w \subseteq v \/ w \subseteq u
      <4>1. CASE \E c \in w : c \in DOMAIN task.written
        <5>1. \A d \in w : d \notin DOMAIN b.written BY <3>3, <4>1
        <5>2. \A d \in w : d \in DOMAIN seen /\ rows[d] = seen[d] BY <1>8, <3>1, <5>1 DEF InWindow
        <5>3. QED BY <3>1, <5>2 DEF InWindow
      <4>2. CASE ~\E c \in w : c \in DOMAIN task.written
        <5>1. \A d \in w : d \in DOMAIN sees /\ rows[d] = sees[d] BY <1>8, <3>1, <4>2 DEF InWindow
        <5>2. QED BY <3>1, <5>1 DEF InWindow
      <4>3. QED BY <4>1, <4>2
    <3>5. /\ w \subseteq v => IsFiniteSet(w) /\ Cardinality(w) <= Cardinality(v)
          /\ w \subseteq u => IsFiniteSet(w) /\ Cardinality(w) <= Cardinality(u)
      BY <3>2, FS_Subset
    <3>6. Cardinality(w) \in Nat BY <3>4, <3>5, FS_CardinalityType
    <3>7. QED BY <3>1, <3>2, <3>4, <3>5, <3>6 DEF NoticeConstants
  <2>2. QED BY <2>1 DEF Capped
<1>11. ASSUME NEW c \in DOMAIN sees
       PROVE  /\ c \in DOMAIN rows /\ rows[c].to = sees[c].to /\ sees[c].objects \subseteq rows[c].objects
              /\ rows[c].lead = sees[c].lead \/ Alike(rows[c].lead, sees[c].lead)
  <2>1. CASE c \notin DOMAIN task.written BY <1>3, <1>8, <1>11, <2>1
  <2>2. CASE c \in DOMAIN task.written
    <3>1. c \notin DOMAIN b.written BY <1>6, <2>2 DEF AreApart
    <3>2. c \in DOMAIN cards /\ sees[c] = cards[c] BY <1>3, <1>11, <3>1
    <3>3. Continues(rows[c], sees[c]) BY <1>1, <1>8, <2>2, <3>2 DEF Follows
    <3>4. QED BY <1>8, <2>2, <3>3 DEF Continues
  <2>3. QED BY <2>1, <2>2
<1>12. b.pc # "idle" => IsTold(b, rows)
  <2>1. b.pc # "idle" => IsTold(b, sees) BY <1>4 DEF TaskFits
  <2>2. ASSUME NEW reader, Told(sees, b.event, reader) PROVE Told(rows, b.event, reader)
    <3>1. PICK c \in DOMAIN sees : sees[c].to = reader /\ b.event \in sees[c].objects
      BY <2>2 DEF Told
    <3>2. QED BY <1>11, <3>1 DEF Told
  <2>3. QED BY <2>1, <2>2 DEF IsTold
<1>13. ASSUME b.pc = "put" PROVE Choosing(b, rows)
  <2>1. Choosing(b, sees) BY <1>4, <1>13 DEF TaskFits
  <2>2. CASE b.card = NoCard
    <3>1. ASSUME NEW c \in DOMAIN rows, Clash(rows[c], b.event, Head(b.rest)) PROVE FALSE
      <4>1. CASE c \notin DOMAIN task.written
        <5>1. c \in DOMAIN sees /\ rows[c] = sees[c] BY <1>8, <3>1, <4>1
        <5>2. QED BY <2>1, <2>2, <3>1, <5>1 DEF Choosing
      <4>2. CASE c \in DOMAIN task.written
        <5>1. rows[c].to = Head(b.rest) /\ Alike(rows[c].lead, b.event)
          BY <2>1, <3>1 DEF Clash, Choosing
        <5>2. /\ Keyed(rows[c].lead)
              /\ LockOf(rows[c].lead, rows[c].to) = LockOf(b.event, Head(b.rest))
          BY <5>1, Folded
        <5>3. Holds(task, rows[c]) BY <1>5, <1>8, <4>2
        <5>4. LockOf(b.event, Head(b.rest)) \in task.locks BY <5>2, <5>3 DEF Holds
        <5>5. QED BY <1>6, <2>1, <5>4 DEF AreApart, Choosing
      <4>3. QED BY <4>1, <4>2
    <3>2. QED BY <2>1, <2>2, <3>1 DEF Choosing
  <2>3. CASE b.card # NoCard
    <3>1. b.card \in DOMAIN sees /\ sees[b.card].to = Head(b.rest) /\ Alike(sees[b.card].lead, b.event)
      BY <2>1, <2>3 DEF Choosing
    <3>2. PICK c : c = b.card OBVIOUS
    <3>3. /\ c \in DOMAIN rows /\ rows[c].to = Head(b.rest)
          /\ rows[c].lead = sees[c].lead \/ Alike(rows[c].lead, sees[c].lead)
      BY <1>11, <3>1, <3>2
    <3>4. Alike(rows[c].lead, b.event)
      <4>1. Alike(sees[c].lead, b.event) BY <3>1, <3>2
      <4>2. QED BY <3>3, <4>1, Folded
    <3>5. QED BY <2>1, <2>3, <3>2, <3>3, <3>4 DEF Choosing
  <2>4. QED BY <2>2, <2>3
<1>14. TaskFits(b, rows) BY <1>9, <1>10, <1>12, <1>13 DEF TaskFits
<1>15. Follows(b, seen)
  <2>1. ASSUME NEW c \in DOMAIN b.written \cap DOMAIN seen PROVE Continues(b.written[c], seen[c])
    <3>1. c \notin DOMAIN task.written BY <1>6, <2>1 DEF AreApart
    <3>2. c \in DOMAIN cards /\ seen[c] = cards[c] BY <1>1, <2>1, <3>1
    <3>3. QED BY <1>4, <2>1, <3>2 DEF Follows
  <2>2. QED BY <2>1 DEF Follows
<1>16. QED BY <1>7, <1>14, <1>15

LEMMA NoticesCommit ==
    ASSUME NoticeConstants, NoticeInv, NEW q \in Senders, NoticeCommit(q)
    PROVE  NoticeInv'
<1>1. PICK task, seen : task = noticeWork[q] /\ seen = Sees(task) OBVIOUS
<1>2. /\ task.pc = "commit" /\ cards' = seen /\ told' = told \cup {task.event}
      /\ NoticeGoes(q, NoNotice)
  BY <1>1 DEF NoticeCommit
<1>3. task.pc # "idle" BY <1>2
<1>4. /\ \A r \in Senders : noticeWork'[r] = IF r = q THEN NoNotice ELSE noticeWork[r]
      /\ noticeWork' = [r \in Senders |-> noticeWork'[r]]
      /\ UNCHANGED <<noticeKinds, events, clock>> /\ clock \in Nat
  BY <1>2 DEF NoticeGoes, NoticeInv
<1>5. /\ RowsOK(seen) /\ Apart(seen) /\ Capped(seen) /\ Follows(task, cards)
      /\ Busy(task) /\ IsTold(task, seen)
      /\ DOMAIN seen = DOMAIN task.written \cup DOMAIN cards
      /\ \A c \in DOMAIN task.written : seen[c] = task.written[c]
      /\ \A c \in DOMAIN cards \ DOMAIN task.written : seen[c] = cards[c]
  BY <1>1, <1>3, SeenCards
<1>6. ASSUME NEW e, NEW reader, Told(cards, e, reader) PROVE Told(seen, e, reader)
  <2>1. PICK c \in DOMAIN cards : cards[c].to = reader /\ e \in cards[c].objects
    BY <1>6 DEF Told
  <2>2. CASE c \in DOMAIN task.written
    <3>1. Continues(seen[c], cards[c]) BY <1>5, <2>1, <2>2 DEF Follows
    <3>2. QED BY <1>5, <2>1, <3>1 DEF Continues, Told
  <2>3. CASE c \notin DOMAIN task.written BY <1>5, <2>1, <2>3 DEF Told
  <2>4. QED BY <2>2, <2>3
<1>7. ASSUME NEW e \in told', NEW reader \in ToSet(events[e].to) PROVE Told(seen, e, reader)
  <2>1. CASE e \in told
    <3>1. Told(cards, e, reader) BY <1>7, <2>1 DEF NoticeInv
    <3>2. QED BY <1>6, <3>1
  <2>2. CASE e = task.event
    <3>1. task.rest = <<>> BY <1>2, <1>5 DEF Busy
    <3>2. ToSet(task.rest) = {} BY <3>1 DEF ToSet
    <3>3. QED BY <1>5, <1>7, <2>2, <3>2 DEF IsTold
  <2>3. QED BY <1>2, <1>7, <2>1, <2>2
<1>8. told' \subseteq DOMAIN events BY <1>2, <1>5 DEF NoticeInv, Busy
<1>9. ASSUME NEW r \in Senders PROVE NoticeTaskOK(noticeWork[r])'
  <2>1. CASE r = q
    <3>1. PICK b : b = NoNotice OBVIOUS
    <3>2. b.pc = "idle" /\ b.written = NoRows BY <3>1 DEF NoNotice
    <3>3. RowsOK(cards) /\ Apart(cards) /\ Capped(cards) BY DEF NoticeInv
    <3>4. PICK rows : rows = cards OBVIOUS
    <3>5. NoticeTaskOK(b) BY <1>4, <3>1, <3>3, <3>4, NoNoticeOK
    <3>6. Over(b.written, seen) = seen BY <1>5, <3>2, OverNoRows DEF RowsOK
    <3>7. TaskFits(b, Over(b.written, seen)) BY <1>5, <3>2, <3>6 DEF TaskFits
    <3>8. Follows(b, seen) BY <3>2, NoRowsOK DEF Follows
    <3>9. TaskFits(b, Over(b.written, cards')) /\ Follows(b, cards') BY <1>2, <3>7, <3>8
    <3>10. noticeWork'[r] = b BY <1>4, <2>1, <3>1
    <3>11. QED BY <1>4, <3>5, <3>9, <3>10, TaskNext
  <2>2. CASE r # q
    <3>1. PICK b : b = noticeWork[r] OBVIOUS
    <3>2. TaskFits(b, Over(b.written, seen)) /\ Follows(b, seen)
      BY <1>1, <1>3, <2>2, <3>1, OthersFit
    <3>3. TaskFits(b, Over(b.written, cards')) /\ Follows(b, cards') BY <1>2, <3>2
    <3>4. noticeWork'[r] = b /\ NoticeTaskOK(b) BY <1>4, <2>2, <3>1 DEF NoticeInv
    <3>5. QED BY <1>4, <3>3, <3>4, TaskNext
  <2>3. QED BY <2>1, <2>2
<1>10. ASSUME NEW r \in Senders, NEW o \in Senders, r # o
       PROVE  AreApart(noticeWork'[r], noticeWork'[o])
  <2>1. AreApart(noticeWork[r], noticeWork[o]) BY <1>10 DEF NoticeInv
  <2>2. NoNotice.pc = "idle" /\ NoNotice.locks = {} /\ DOMAIN NoNotice.written = {}
    BY NoRowsOK DEF NoNotice
  <2>3. QED BY <1>4, <1>10, <2>1, <2>2 DEF AreApart
<1>11. clock' \in clock..LastTick /\ clock' = clock BY <1>4 DEF NoticeInv
<1>12. QED BY <1>2, <1>4, <1>5, <1>7, <1>8, <1>9, <1>10, <1>11, NoticeInvNext

LEMMA RollsBack ==
    ASSUME NoticeInv, NEW q \in Senders, NoticeRollback(q)
    PROVE  NoticeInv'
<1>1. PICK b : b = NoNotice OBVIOUS
<1>2. NoticeGoes(q, b) /\ UNCHANGED <<cards, told>> BY <1>1 DEF NoticeRollback
<1>3. RowsOK(cards) /\ Apart(cards) /\ Capped(cards) /\ clock \in Nat BY DEF NoticeInv
<1>4. PICK rows : rows = cards OBVIOUS
<1>5. NoticeTaskOK(b) BY <1>1, <1>3, <1>4, NoNoticeOK
<1>6. b.pc = "idle" /\ b.locks = {} /\ DOMAIN b.written = {}
  BY <1>1, NoRowsOK DEF NoNotice
<1>7. \A o \in Senders \ {q} : AreApart(b, noticeWork[o]) BY <1>6 DEF AreApart
<1>8. QED BY <1>2, <1>5, <1>7, NoticeMoves

(* A card is archived, or put back where a card may be open twice.         *)
Touches(new, old) ==
    /\ DOMAIN new = DOMAIN old
    /\ \A c \in DOMAIN old :
          /\ new[c].to = old[c].to /\ new[c].lead = old[c].lead /\ new[c].objects = old[c].objects
          /\ new[c].mode = old[c].mode /\ new[c].made = old[c].made
          /\ new[c].open = old[c].open \/ ~new[c].open \/ ~OneIsOpen

LEMMA TouchFits ==
    ASSUME NEW new, NEW old, Touches(new, old)
    PROVE  /\ Apart(old) => Apart(new)
           /\ Capped(old) => Capped(new)
           /\ \A e, reader : Told(old, e, reader) => Told(new, e, reader)
           /\ \A task : TaskFits(task, old) => TaskFits(task, new)
<1>1. ASSUME Apart(old) PROVE Apart(new)
  <2>1. ASSUME NEW c \in DOMAIN new, NEW d \in DOMAIN new,
               Clash(new[c], new[d].lead, new[d].to), IsAction(new[d].lead) => new[d].open
        PROVE  c = d
    <3>1. PICK e : e = old[d].lead OBVIOUS
    <3>2. /\ c \in DOMAIN old /\ d \in DOMAIN old /\ new[d].lead = e /\ new[d].to = old[d].to
          /\ new[c].to = old[c].to /\ new[c].lead = old[c].lead
      BY <2>1, <3>1 DEF Touches
    <3>3. new[c].open /\ OneIsOpen => old[c].open BY <2>1 DEF Touches
    <3>4. Clash(old[c], e, old[d].to) BY <2>1, <3>2, <3>3 DEF Clash
    <3>5. IsAction(e) /\ OneIsOpen => old[d].open BY <2>1, <3>2 DEF Touches
    <3>6. IsAction(e) => OneIsOpen
      <4>1. IsAction(e) => Keyed(e) /\ ~IsNoisy(e) BY DEF Keyed, IsAction, IsNoisy
      <4>2. QED BY <3>4, <4>1 DEF Clash
    <3>7. QED BY <1>1, <3>1, <3>2, <3>4, <3>5, <3>6 DEF Apart
  <2>2. QED BY <2>1 DEF Apart
<1>2. ASSUME Capped(old) PROVE Capped(new)
  <2>1. \A r, m : InWindow(new, r, m) = InWindow(old, r, m) BY DEF InWindow, Touches
  <2>2. QED BY <1>2, <2>1 DEF Capped
<1>3. ASSUME NEW e, NEW reader, Told(old, e, reader) PROVE Told(new, e, reader)
  BY <1>3 DEF Told, Touches
<1>4. ASSUME NEW task, TaskFits(task, old) PROVE TaskFits(task, new)
  <2>1. Apart(new) /\ Capped(new) BY <1>1, <1>2, <1>4 DEF TaskFits
  <2>2. task.pc # "idle" => IsTold(task, new) BY <1>3, <1>4 DEF TaskFits, IsTold
  <2>3. ASSUME task.pc = "put" PROVE Choosing(task, new)
    <3>1. Choosing(task, old) BY <1>4, <2>3 DEF TaskFits
    <3>2. CASE task.card = NoCard
      <4>1. ASSUME NEW c \in DOMAIN new, Clash(new[c], task.event, Head(task.rest)) PROVE FALSE
        <5>1. c \in DOMAIN old /\ new[c].to = old[c].to /\ new[c].lead = old[c].lead
          BY <4>1 DEF Touches
        <5>2. new[c].open /\ OneIsOpen => old[c].open BY <4>1 DEF Touches
        <5>3. Clash(old[c], task.event, Head(task.rest)) BY <4>1, <5>1, <5>2 DEF Clash
        <5>4. QED BY <3>1, <3>2, <5>1, <5>3 DEF Choosing
      <4>2. QED BY <3>1, <3>2, <4>1 DEF Choosing
    <3>3. CASE task.card # NoCard
      <4>1. PICK c : c = task.card OBVIOUS
      <4>2. c \in DOMAIN old /\ old[c].to = Head(task.rest) /\ Alike(old[c].lead, task.event)
        BY <3>1, <3>3, <4>1 DEF Choosing
      <4>3. c \in DOMAIN new /\ new[c].to = Head(task.rest) /\ Alike(new[c].lead, task.event)
        BY <4>2 DEF Touches
      <4>4. QED BY <3>1, <3>3, <4>1, <4>3 DEF Choosing
    <3>4. QED BY <3>2, <3>3
  <2>4. QED BY <2>1, <2>2, <2>3 DEF TaskFits
<1>5. QED BY <1>1, <1>2, <1>3, <1>4

LEMMA LivesOn ==
    ASSUME NoticeInv, NEW action \in {"archive", "unarchive"}, NEW open,
           open = (action = "unarchive"), Lifecycle(action, open)
    PROVE  NoticeInv'
<1>1. PICK c \in DOMAIN cards :
         /\ \A q \in Senders : c \notin DOMAIN noticeWork[q].written
         /\ cards[c].open # open
         /\ cards' = [cards EXCEPT ![c] = [@ EXCEPT !.open = open, !.touched = clock]]
  BY DEF Lifecycle
<1>2. action \in noticeKinds /\ UNCHANGED <<noticeKinds, events, clock, told, noticeWork>>
  BY DEF Lifecycle
<1>3. RowsOK(cards) /\ clock \in Nat /\ Apart(cards) /\ Capped(cards) BY DEF NoticeInv
<1>4. PICK old : old = cards[c] OBVIOUS
<1>5. CardOK(old) /\ CardTypeOK(old) BY <1>1, <1>3, <1>4 DEF RowsOK, CardOK
<1>6. PICK row : row = [old EXCEPT !.open = open, !.touched = clock] OBVIOUS
<1>7. PICK rows : rows = [cards EXCEPT ![c] = row] OBVIOUS
<1>8. cards' = rows BY <1>1, <1>4, <1>6, <1>7
<1>9. open \in BOOLEAN OBVIOUS
<1>10. /\ row.to = old.to /\ row.lead = old.lead /\ row.objects = old.objects /\ row.mode = old.mode
       /\ row.made = old.made /\ row.open = open /\ row.touched = clock
  BY <1>5, <1>6 DEF CardTypeOK
<1>11. CardTypeOK(row)
  <2>1. clock \in 0..clock BY <1>3
  <2>2. QED BY <1>5, <1>6, <1>9, <2>1 DEF CardTypeOK
<1>12. CardOK(row)
  <2>1. row.made <= row.touched BY <1>3, <1>5, <1>10 DEF CardTypeOK
  <2>2. "archive" \notin noticeKinds => row.open BY <1>2, <1>10
  <2>3. QED BY <1>5, <1>10, <1>11, <2>1, <2>2 DEF CardOK
<1>13. /\ DOMAIN rows = DOMAIN cards /\ rows[c] = row
       /\ \A d \in DOMAIN cards \ {c} : rows[d] = cards[d]
       /\ rows = [d \in DOMAIN rows |-> rows[d]]
  BY <1>1, <1>7
<1>14. RowsOK(rows) BY <1>3, <1>12, <1>13 DEF RowsOK
<1>15. ~row.open \/ ~OneIsOpen
  <2>1. CASE action = "archive" BY <1>10, <2>1
  <2>2. CASE action = "unarchive"
    <3>1. ~old.open BY <1>1, <1>4, <1>5, <2>2 DEF CardTypeOK
    <3>2. "archive" \in noticeKinds BY <1>5, <3>1 DEF CardOK
    <3>3. QED BY <1>2, <2>2, <3>2 DEF OneIsOpen
  <2>3. QED BY <2>1, <2>2
<1>16. Touches(rows, cards) BY <1>4, <1>10, <1>13, <1>15 DEF Touches
<1>17. Apart(rows) /\ Capped(rows) BY <1>3, <1>16, TouchFits
<1>18. \A e \in told' : \A reader \in ToSet(events[e].to) : Told(rows, e, reader)
  BY <1>2, <1>16, TouchFits DEF NoticeInv
<1>19. ASSUME NEW o \in Senders PROVE NoticeTaskOK(noticeWork[o])'
  <2>1. PICK b : b = noticeWork[o] OBVIOUS
  <2>2. NoticeTaskOK(b) /\ c \notin DOMAIN b.written BY <1>1, <2>1 DEF NoticeInv
  <2>3. PICK sees, new : sees = Sees(b) /\ new = Over(b.written, rows) OBVIOUS
  <2>4. /\ DOMAIN sees = DOMAIN b.written \cup DOMAIN cards
        /\ DOMAIN new = DOMAIN b.written \cup DOMAIN cards
        /\ \A d \in DOMAIN b.written : new[d] = sees[d]
        /\ \A d \in DOMAIN cards \ DOMAIN b.written : sees[d] = cards[d] /\ new[d] = rows[d]
    BY <1>13, <2>3 DEF Sees, Over
  <2>5. Touches(new, sees) BY <1>16, <2>4 DEF Touches
  <2>6. TaskFits(b, sees) /\ Follows(b, cards) BY <2>2, <2>3 DEF NoticeTaskOK
  <2>7. TaskFits(b, new) BY <2>5, <2>6, TouchFits
  <2>8. Follows(b, rows) BY <1>13, <2>2, <2>6 DEF Follows
  <2>9. TaskFits(b, Over(b.written, cards')) /\ Follows(b, cards') BY <1>8, <2>3, <2>7, <2>8
  <2>10. noticeWork'[o] = b BY <1>2, <2>1
  <2>11. QED BY <1>2, <1>3, <2>2, <2>9, <2>10, TaskNext
<1>20. noticeWork' = [q \in Senders |-> noticeWork'[q]]
       /\ \A q, o \in Senders : q # o => AreApart(noticeWork'[q], noticeWork'[o])
  BY <1>2 DEF NoticeInv
<1>21. clock' \in clock..LastTick /\ clock' = clock /\ told' \subseteq DOMAIN events
  BY <1>2 DEF NoticeInv
<1>22. QED BY <1>2, <1>8, <1>14, <1>17, <1>18, <1>19, <1>20, <1>21, NoticeInvNext

(* Time passes, or nothing happens.                                        *)
LEMMA TimePasses ==
    ASSUME NoticeInv, UNCHANGED <<noticeKinds, events, cards, told, noticeWork>>,
           clock' \in clock..LastTick, "later" \notin noticeKinds => clock' = clock
    PROVE  NoticeInv'
<1>1. clock \in Nat /\ clock' \in Nat /\ clock <= clock' BY DEF NoticeInv
<1>2. ASSUME NEW o \in Senders PROVE NoticeTaskOK(noticeWork[o])'
  <2>1. PICK b : b = noticeWork[o] OBVIOUS
  <2>2. NoticeTaskOK(b) /\ noticeWork'[o] = b BY <2>1 DEF NoticeInv
  <2>3. TaskFits(b, Over(b.written, cards')) /\ Follows(b, cards')
    BY <2>2 DEF NoticeTaskOK, Sees
  <2>4. QED BY <1>1, <2>2, <2>3, TaskNext
<1>3. /\ noticeWork' = [q \in Senders |-> noticeWork'[q]]
      /\ \A q, o \in Senders : q # o => AreApart(noticeWork'[q], noticeWork'[o])
  BY DEF NoticeInv
<1>4. /\ RowsOK(cards) /\ Apart(cards) /\ Capped(cards) /\ told' \subseteq DOMAIN events
      /\ \A e \in told' : \A reader \in ToSet(events[e].to) : Told(cards, e, reader)
  BY DEF NoticeInv
<1>5. PICK rows : rows = cards OBVIOUS
<1>6. QED BY <1>2, <1>3, <1>4, <1>5, NoticeInvNext

LEMMA NoticesStep ==
    ASSUME NoticeConstants, NoticeInv, [NoticesNext]_noticeVars
    PROVE  NoticeInv'
<1>1. CASE UNCHANGED noticeVars
  <2>1. clock' \in clock..LastTick /\ clock' = clock BY <1>1 DEF noticeVars, NoticeInv
  <2>2. QED BY <1>1, <2>1, TimePasses DEF noticeVars
<1>2. CASE NoticesNext
  <2>1. ASSUME NEW q \in Senders,
               \/ \E e \in DOMAIN events : FanOut(q, e)
               \/ FindCard(q) \/ PutPlain(q) \/ PutNew(q) \/ Fold(q)
               \/ NoticeCommit(q) \/ NoticeRollback(q)
        PROVE  NoticeInv'
    BY <2>1, FansOut, FindsCard, PutsPlain, PutsNew, Folds, NoticesCommit, RollsBack
  <2>2. CASE Archive
    <3>1. PICK action, open : action = "archive" /\ open = (action = "unarchive") OBVIOUS
    <3>2. open = FALSE /\ Lifecycle(action, open) BY <2>2, <3>1 DEF Archive
    <3>3. QED BY <3>1, <3>2, LivesOn
  <2>3. CASE Unarchive
    <3>1. PICK action, open : action = "unarchive" /\ open = (action = "unarchive") OBVIOUS
    <3>2. open = TRUE /\ Lifecycle(action, open) BY <2>3, <3>1 DEF Unarchive
    <3>3. QED BY <3>1, <3>2, LivesOn
  <2>4. CASE Tick
    <3>1. clock' \in clock..LastTick /\ "later" \in noticeKinds
      BY <2>4 DEF Tick, NoticeInv, NoticeConstants
    <3>2. QED BY <2>4, <3>1, TimePasses DEF Tick
  <2>5. QED BY <1>2, <2>1, <2>2, <2>3, <2>4 DEF NoticesNext
<1>3. QED BY <1>1, <1>2

LEMMA OneIsOpenCard ==
    ASSUME NoticeInv
    PROVE  OneOpenCard
<1>1. RowsOK(cards) /\ Apart(cards) BY DEF NoticeInv
<1>2. ASSUME NEW c \in DOMAIN cards, NEW d \in DOMAIN cards,
             "unarchive" \notin noticeKinds, SameAction(c, d), cards[c].open, cards[d].open
      PROVE  c = d
  <2>1. Alike(cards[c].lead, cards[d].lead) /\ OneIsOpen
    BY <1>2 DEF SameAction, Alike, OneIsOpen
  <2>2. Clash(cards[c], cards[d].lead, cards[d].to)
    BY <1>2, <2>1 DEF Clash, SameAction
  <2>3. QED BY <1>1, <1>2, <2>2 DEF Apart
<1>3. ASSUME NEW c \in DOMAIN cards, events[cards[c].lead].verb = "mention", NEW e \in cards[c].objects
      PROVE  events[e].verb # "assignment"
  <2>1. CardOK(cards[c]) BY <1>1, <1>3 DEF RowsOK
  <2>2. QED BY <1>3, <2>1 DEF CardOK
<1>4. QED BY <1>2, <1>3 DEF OneOpenCard

(* A card that tells of an event is the one an equal event would join.     *)
LEMMA TellsOnce ==
    ASSUME NoticeInv, {"archive", "later"} \cap noticeKinds = {}, NEW e \in DOMAIN events,
           NEW c \in DOMAIN cards, NEW d \in DOMAIN cards, cards[c].to = cards[d].to,
           e \in cards[c].objects, e \in cards[d].objects
    PROVE  c = d
<1>1. RowsOK(cards) /\ Apart(cards) BY DEF NoticeInv
<1>2. CardOK(cards[c]) /\ CardOK(cards[d]) BY <1>1 DEF RowsOK
<1>3. PICK f, g : f = cards[c].lead /\ g = cards[d].lead OBVIOUS
<1>4. (e = f \/ Alike(e, f)) /\ (e = g \/ Alike(e, g)) BY <1>2, <1>3 DEF CardOK
<1>5. cards[c].open /\ cards[d].open BY <1>2 DEF CardOK
<1>6. NoneCloses /\ OneIsOpen BY DEF NoneCloses, OneIsOpen
<1>7. CASE Keyed(e)
  <2>1. Alike(f, e) /\ Alike(e, g)
    <3>1. Alike(e, e) BY <1>7, KeyedIs
    <3>2. QED BY <1>4, <3>1, Folded
  <2>2. Alike(f, g) BY <2>1, Folded
  <2>3. Keyed(g) BY <2>2, Folded
  <2>4. Clash(cards[c], g, cards[d].to) BY <1>3, <1>5, <1>6, <2>2, <2>3 DEF Clash, Keyed
  <2>5. QED BY <1>1, <1>3, <1>5, <2>4 DEF Apart
<1>8. CASE ~Keyed(e)
  <2>1. e = f /\ e = g BY <1>4, <1>8, Folded
  <2>2. Clash(cards[c], g, cards[d].to) BY <1>3, <1>8, <2>1 DEF Clash
  <2>3. QED BY <1>1, <1>3, <1>5, <2>2 DEF Apart
<1>9. QED BY <1>7, <1>8

LEMMA ToldOnce ==
    ASSUME NoticeConstants, NoticeInv
    PROVE  EachIsToldOnce
<1> SUFFICES ASSUME NEW e \in DOMAIN events, NEW reader \in ToSet(events[e].to),
                    NEW about, about = {c \in DOMAIN cards : cards[c].to = reader
                                                             /\ e \in cards[c].objects}
             PROVE  /\ e \in told => about # {}
                    /\ {"archive", "later"} \cap noticeKinds = {} => Cardinality(about) <= 1
  BY DEF EachIsToldOnce
<1>1. ASSUME e \in told PROVE about # {}
  <2>1. Told(cards, e, reader) BY <1>1 DEF NoticeInv
  <2>2. QED BY <2>1 DEF Told
<1>2. ASSUME {"archive", "later"} \cap noticeKinds = {} PROVE Cardinality(about) <= 1
  <2>1. CASE about = {}
    <3>1. Cardinality(about) = 0 BY <2>1, FS_EmptySet
    <3>2. QED BY <3>1
  <2>2. CASE about # {}
    <3>1. PICK c \in about : TRUE BY <2>2
    <3>2. \A d \in about : c = d BY <1>2, <3>1, TellsOnce
    <3>3. about = {c} BY <3>1, <3>2
    <3>4. Cardinality({c}) = 1 BY FS_Singleton
    <3>5. QED BY <3>3, <3>4
  <2>3. QED BY <2>1, <2>2
<1>3. QED BY <1>1, <1>2

LEMMA RateHolds ==
    ASSUME NoticeConstants, NoticeInv
    PROVE  RateIsCapped
<1>1. RowsOK(cards) /\ Capped(cards) /\ clock \in 0..LastTick BY DEF NoticeInv
<1>2. ASSUME NEW c \in DOMAIN cards
      PROVE  Cardinality({d \in DOMAIN cards :
                /\ cards[d].to = cards[c].to /\ cards[d].mode = "batched"
                /\ cards[d].made \in cards[c].made - BatchCap .. cards[c].made}) <= MaxBatched
  <2>1. PICK reader, m : reader = cards[c].to /\ m = cards[c].made OBVIOUS
  <2>2. CardTypeOK(cards[c]) BY <1>1, <1>2 DEF RowsOK, CardOK
  <2>3. reader \in Readers /\ m \in 0..clock BY <2>1, <2>2 DEF CardTypeOK
  <2>4. m \in 0..LastTick BY <1>1, <2>3 DEF NoticeConstants
  <2>5. Cardinality(InWindow(cards, reader, m)) <= MaxBatched BY <1>1, <2>3, <2>4 DEF Capped
  <2>6. QED BY <2>1, <2>5 DEF InWindow
<1>3. QED BY <1>2 DEF RateIsCapped

LEMMA NoticesAreTyped ==
    ASSUME NoticeInv
    PROVE  NoticesTypeOK
<1>1. RowsOK(cards) /\ told \subseteq DOMAIN events /\ clock \in 0..LastTick BY DEF NoticeInv
<1>2. ASSUME NEW c \in DOMAIN cards
      PROVE  /\ cards[c].lead \in cards[c].objects /\ cards[c].objects \subseteq DOMAIN events
             /\ cards[c].mode \in {"immediate", "batched", "digest"}
             /\ cards[c].made <= cards[c].touched
  <2>1. CardOK(cards[c]) /\ CardTypeOK(cards[c]) BY <1>1, <1>2 DEF RowsOK, CardOK
  <2>2. QED BY <2>1 DEF CardOK, CardTypeOK
<1>3. \A q \in Senders : noticeWork[q].pc \in NoticePcs BY HeldIs
<1>4. QED BY <1>1, <1>2, <1>3 DEF NoticesTypeOK, RowsOK

(* Cards, and the fan-outs that write them, keep their types.              *)
THEOREM NoticesTyped == NoticeConstants => (NoticesSpec => []NoticesTypeOK)
<1> SUFFICES ASSUME NoticeConstants PROVE NoticesSpec => []NoticesTypeOK OBVIOUS
<1>1. NoticesInit => NoticeInv BY NoticesStart
<1>2. NoticeInv /\ [NoticesNext]_noticeVars => NoticeInv' BY NoticesStep
<1>3. NoticeInv => NoticesTypeOK BY NoticesAreTyped
<1>4. QED BY <1>1, <1>2, <1>3, PTL DEF NoticesSpec

(* One action of a colleague is one open card, who was to be told is told, *)
(* and once, and no one gets more bundles than the limit, however fan-outs *)
(* interleave, repeat and fail (crm/notifications.ts:258-372).             *)
THEOREM NoticesGoOnStanding == NoticeConstants => (NoticesSpec => []NoticesStand)
<1> SUFFICES ASSUME NoticeConstants PROVE NoticesSpec => []NoticesStand OBVIOUS
<1>1. NoticesInit => NoticeInv BY NoticesStart
<1>2. NoticeInv /\ [NoticesNext]_noticeVars => NoticeInv' BY NoticesStep
<1>3. NoticeInv => NoticesStand BY OneIsOpenCard, ToldOnce, RateHolds DEF NoticesStand
<1>4. QED BY <1>1, <1>2, <1>3, PTL DEF NoticesSpec

(***************************************************************************)
(* What the members of an organization keep, together.                     *)
(***************************************************************************)

(* The records of an object stand with the grid open, or without it.       *)
ObjectInv == RecordsInv /\ GridTypeOK /\ (gridKinds # {} => GridInv)

LEMMA ObjectStart == ASSUME GridConstants, RecordsInit, GridInit PROVE ObjectInv
BY GridStart DEF ObjectInv, GridInv

LEMMA ObjectStep ==
    ASSUME GridConstants, ObjectInv, [ObjectNext]_objectVars PROVE ObjectInv'
<1>1. CASE gridKinds # {}
  <2>1. [GridNext]_objectVars BY <1>1 DEF ObjectNext
  <2>2. GridInv' BY <1>1, <2>1, GridStep DEF ObjectInv, objectVars
  <2>3. QED BY <2>2 DEF ObjectInv, GridInv
<1>2. CASE gridKinds = {}
  <2>1. [RecordsNext]_recordVars /\ UNCHANGED gridVars BY <1>2 DEF ObjectNext, objectVars
  <2>2. RecordsInv' BY <2>1, RecordsStep DEF ObjectInv, GridConstants
  <2>3. gridKinds' = {} /\ GridTypeOK'
    BY <1>2, <2>1 DEF ObjectInv, GridTypeOK, gridVars, gridScreen
  <2>4. QED BY <2>2, <2>3 DEF ObjectInv
<1>3. QED BY <1>1, <1>2

LEMMA ObjectHolds == GridConstants => (ObjectSpec => []ObjectInv)
<1> SUFFICES ASSUME GridConstants PROVE ObjectSpec => []ObjectInv OBVIOUS
<1>1. RecordsInit /\ GridInit => ObjectInv BY ObjectStart
<1>2. ObjectInv /\ [ObjectNext]_objectVars => ObjectInv' BY ObjectStep
<1>3. QED BY <1>1, <1>2, PTL DEF ObjectSpec

(* With a grid or without, the records of an object and what the grid      *)
(* keeps of them have their types (records.ts, RecordGrid.tsx).            *)
THEOREM ObjectTyped == GridConstants => (ObjectSpec => [](RecordsTypeOK /\ GridTypeOK))
<1>1. ObjectInv => RecordsTypeOK /\ GridTypeOK BY DEF ObjectInv, RecordsInv
<1>2. QED BY <1>1, ObjectHolds, PTL

(* However many change them at once, the phones of a person stand in one   *)
(* order (people.ts:368-400), what a record refers to can be found from    *)
(* the other side (records.ts) and its grid shows what is stored           *)
(* (RecordGrid.tsx), and everybody is told of what happened, and once      *)
(* (crm/notifications.ts:258-372): each under the conditions its own       *)
(* property states.                                                        *)
THEOREM RecordsGoOnStanding ==
    ContactConstants /\ GridConstants /\ NoticeConstants
    => (ContactsSpec /\ ObjectSpec /\ NoticesSpec => []RecordsStand)
<1> SUFFICES ASSUME ContactConstants, GridConstants, NoticeConstants
             PROVE  ContactsSpec /\ ObjectSpec /\ NoticesSpec => []RecordsStand
  OBVIOUS
<1>1. ObjectInv => ReferencesAreLinked /\ GridShowsStored
  BY DEF ObjectInv, GridInv, RecordsInv, GridShowsStored, Quiet
<1>2. PhonesInOrder /\ ReferencesAreLinked /\ GridShowsStored /\ NoticesStand => RecordsStand
  BY DEF RecordsStand
<1>3. ContactsSpec => []PhonesInOrder BY PhonesStayInOrder
<1>4. NoticesSpec => []NoticesStand BY NoticesGoOnStanding
<1>5. ObjectSpec => []ObjectInv BY ObjectHolds
<1>6. QED BY <1>1, <1>2, <1>3, <1>4, <1>5, PTL
=============================================================================
