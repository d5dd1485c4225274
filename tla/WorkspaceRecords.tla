--------------------------- MODULE WorkspaceRecords ---------------------------
(* What the members of an organization keep: the phones of a person, the   *)
(* records of an object with the grid they are edited in, and the cards    *)
(* that tell them of it.                                                   *)
(***************************************************************************)
EXTENDS PersonContacts, GridEdits, Notices

objectVars == <<recordVars, gridVars>>

(* The records of an object, edited in the grid or by other requests.      *)
ObjectNext ==
    IF gridKinds = {} THEN RecordsNext /\ UNCHANGED gridVars ELSE GridNext

ObjectSpec == RecordsInit /\ GridInit /\ [][ObjectNext]_objectVars

(* A person's phones stand in order (people.ts), links and values agree    *)
(* and the grid shows what is stored (records.ts, RecordGrid.tsx), and     *)
(* everybody is told of what happened, once (crm/notifications.ts).        *)
RecordsStand == PhonesInOrder /\ ReferencesAreLinked /\ GridShowsStored /\ NoticesStand
=============================================================================
