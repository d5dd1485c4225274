---------------------------- MODULE PersonContacts ----------------------------
(* The phones, or the e-mail addresses, of one person: adding, changing and *)
(* removing one, and which of them is primary (routes/people.ts).          *)
(*                                                                         *)
(* Every request is one transaction under read committed: it writes a row, *)
(* reads the rows it sees, and reconciles them: the phones into one        *)
(* contiguous order with the primary first, the addresses by their flag    *)
(* alone. A row it wrote is locked, and a position it entered or left is   *)
(* barred to others by the unique index, until it commits.                 *)
(***************************************************************************)
EXTENDS Integers, FiniteSets, Rows

CONSTANTS
    ContactIds,      \* row ids
    ContactValues,   \* numbers or addresses
    ContactRequests, \* concurrent requests
    NoContact,       \* no row
    ContactInstances \* what one behaviour has: the table, its operations and the
                     \* id and value of each row at the start

ContactKinds == {"post", "patch", "delete"}

VARIABLES
    table,        \* "phones" or "emails"; never changes
    contactKinds, \* the operations of this behaviour; never changes
    contacts,     \* the committed rows: id -> value, isPrimary and position, which
                  \* for an address stands for the order of createdAt
    contactWork   \* request -> its transaction

contactVars == <<table, contactKinds, contacts, contactWork>>
contactFixed == <<table, contactKinds>>

(* row, value: the one it is about; prefers: isPrimary is true in its body;*)
(* last: the last position it read; mine, dropped: the rows it wrote and   *)
(* those it deleted; barred: the positions it entered or left; chosen,     *)
(* order: what it found, and the place it has for each; seen: the rows its *)
(* present statement started on.                                           *)
NoContactTask ==
    [pc |-> "idle", op |-> "post", row |-> NoContact, value |-> NoContact, prefers |-> FALSE,
     last |-> -1, mine |-> NoRows, dropped |-> {}, barred |-> {}, chosen |-> NoContact,
     order |-> NoRows, seen |-> {}]
ContactPcs == {"idle", "insert", "update", "find", "shift", "shifting", "arrange", "promote",
               "demote", "demoting", "commit"}

(* Rows at the start: in order, the first one primary.                     *)
ContactsInit ==
    /\ \E i \in ContactInstances :
          /\ table = i.table /\ contactKinds = i.kinds
          /\ contacts = [c \in DOMAIN i.rows |->
                 [value |-> i.rows[c].value, isPrimary |-> i.rows[c].position = 0,
                  position |-> i.rows[c].position]]
    /\ contactWork = [q \in ContactRequests |-> NoContactTask]

-----------------------------------------------------------------------------
(* The rows a transaction sees: what is committed, and its own writes.     *)
Seen(task) == Over(task.mine, [i \in DOMAIN contacts \ task.dropped |-> contacts[i]])

Others(q) == {contactWork[o] : o \in ContactRequests \ {q}}
FreeRows(q, S) == \A o \in Others(q) : (DOMAIN o.mine \cup o.dropped) \cap S = {}

(* Mutant: the order has no unique index behind it.                        *)
AnyPlace(q, S, taken) == TRUE

(* Of the positions S none is taken, or barred by another transaction.     *)
FreePlaces(q, S, taken) ==
    table = "phones" => S \cap (taken \cup UNION {o.barred : o \in Others(q)}) = {}

Places(rows) == {rows[i].position : i \in DOMAIN rows}
LastPlace(rows) ==
    IF DOMAIN rows = {} THEN -1 ELSE CHOOSE p \in Places(rows) : \A o \in Places(rows) : o <= p

ContactGoes(q, task) == contactWork' = [contactWork EXCEPT ![q] = task] /\ UNCHANGED contactFixed
ContactStarts(q, op, task) ==
    op \in contactKinds /\ contactWork[q].pc = "idle" /\ ContactGoes(q, task) /\ UNCHANGED contacts

(* An id no row and no transaction knows.                                  *)
FreshIds ==
    ContactIds \ (DOMAIN contacts \cup UNION {{o.row} \cup DOMAIN o.mine \cup DOMAIN o.order :
                                                 o \in {contactWork[q] : q \in ContactRequests}})

-----------------------------------------------------------------------------
(* POST: the last position, then the upsert on the value.                  *)
PostRead(q, v, prefers) ==
    ContactStarts(q, "post", [NoContactTask EXCEPT !.pc = "insert", !.value = v,
                                 !.prefers = prefers, !.last = LastPlace(contacts)])

Upsert(q) ==
    LET task == contactWork[q]
        same == {i \in DOMAIN contacts : contacts[i].value = task.value}
        place == IF table = "phones" THEN task.last + 1 ELSE LastPlace(contacts) + 1 IN
    /\ task.pc = "insert" /\ FreeRows(q, same)
    /\ \A o \in Others(q) : \A i \in DOMAIN o.mine : o.mine[i].value # task.value
    /\ \/ \E i \in same :
             ContactGoes(q, [task EXCEPT !.pc = "find", !.row = i,
                                          !.mine = [j \in {i} |-> contacts[j]]])
       \/ /\ same = {} /\ FreePlaces(q, {place}, Places(contacts)) /\ FreshIds # {}
          /\ LET i == CHOOSE i \in FreshIds : TRUE IN
             ContactGoes(q, [task EXCEPT !.pc = "find", !.row = i, !.barred = {place},
                 !.mine = [j \in {i} |->
                     [value |-> task.value, isPrimary |-> FALSE, position |-> place]]])
    /\ UNCHANGED contacts

(* PATCH: the row is looked up, then updated if it is still there.         *)
ContactRead(q, i) ==
    /\ i \in DOMAIN contacts
    /\ \E prefers \in BOOLEAN :
          ContactStarts(q, "patch", [NoContactTask EXCEPT !.pc = "update", !.op = "patch",
                                        !.row = i, !.prefers = prefers])

ContactWrite(q) ==
    LET task == contactWork[q]
        there == {task.row} \cap DOMAIN contacts IN
    /\ task.pc = "update" /\ FreeRows(q, there)
    /\ \E rows \in {[i \in there |-> [contacts[i] EXCEPT !.isPrimary = flag]] :
                       flag \in IF task.prefers THEN {TRUE}
                                ELSE {FALSE} \cup {contacts[i].isPrimary : i \in there}} :
          ContactGoes(q, [task EXCEPT !.pc = "find", !.mine = rows])
    /\ UNCHANGED contacts

ContactDelete(q, i) ==
    /\ i \in DOMAIN contacts /\ FreeRows(q, {i})
    /\ ContactStarts(q, "delete", [NoContactTask EXCEPT !.pc = "find", !.op = "delete",
                                      !.row = i, !.dropped = {i},
                                      !.barred = {contacts[i].position}])

-----------------------------------------------------------------------------
(* reconcilePhoneOrder and reconcilePrimary: the row to be primary, and of *)
(* phones the order of the rows, that one first.                           *)
Foremost(rows, S) == CHOOSE i \in S : \A j \in S : rows[i].position <= rows[j].position
Order(rows, chosen) ==
    [i \in DOMAIN rows |->
        IF i = chosen THEN 0
        ELSE Cardinality({j \in DOMAIN rows \ {chosen} : rows[j].position < rows[i].position}) + 1]

FindRows(q) ==
    LET task == contactWork[q]
        rows == Seen(task)
        flagged == {i \in DOMAIN rows : rows[i].isPrimary}
        chosen == IF task.prefers /\ task.row \in DOMAIN rows THEN task.row
                  ELSE Foremost(rows, IF flagged # {} THEN flagged ELSE DOMAIN rows) IN
    /\ task.pc = "find"
    /\ ContactGoes(q,
          IF DOMAIN rows = {} THEN [task EXCEPT !.pc = "commit"]
          ELSE IF table = "phones"
          THEN [task EXCEPT !.pc = "shift", !.chosen = chosen, !.order = Order(rows, chosen)]
          ELSE [task EXCEPT !.pc = "promote", !.chosen = chosen])
    /\ UNCHANGED contacts

(* Every statement starts on the rows it sees, then waits for their locks. *)
StatementBegins(q, from, to, rows) ==
    /\ contactWork[q].pc = from
    /\ ContactGoes(q, [contactWork[q] EXCEPT !.pc = to, !.seen = rows])
    /\ UNCHANGED contacts

StatementWrites(q, from, to, rows, barred) ==
    /\ contactWork[q].pc = from /\ FreeRows(q, DOMAIN rows)
    /\ ContactGoes(q, [contactWork[q] EXCEPT !.pc = to, !.mine = Over(rows, @),
                          !.barred = @ \cup barred, !.seen = {}])
    /\ UNCHANGED contacts

(* Phones: out of the target range, then each to its place.                *)
ShiftBegins(q) == StatementBegins(q, "shift", "shifting", DOMAIN Seen(contactWork[q]))

Placed(q, rows) ==
    LET kept == Seen(contactWork[q]) IN
    FreePlaces(q, Places(rows), {kept[i].position : i \in DOMAIN kept \ DOMAIN rows})

ShiftRows(q) ==
    LET task == contactWork[q]
        now == Seen(task)
        rows == [i \in task.seen \cap DOMAIN now |->
                    [now[i] EXCEPT !.position = @ + Cardinality(DOMAIN task.order)]] IN
    /\ StatementWrites(q, "shifting", "arrange", rows, Places(rows) \cup {now[i].position : i \in DOMAIN rows})
    /\ Placed(q, rows)

Arrange(q) ==
    LET task == contactWork[q]
        now == Seen(task)
        rows == [i \in DOMAIN task.order \cap DOMAIN now |->
                    [now[i] EXCEPT !.isPrimary = (i = task.chosen), !.position = task.order[i]]] IN
    StatementWrites(q, "arrange", "commit", rows, Places(rows)) /\ Placed(q, rows)

(* Addresses: one set, the others cleared.                                 *)
Promote(q) ==
    LET task == contactWork[q]
        now == Seen(task)
        rows == [i \in {task.chosen} \cap {j \in DOMAIN now : ~now[j].isPrimary} |->
                    [now[i] EXCEPT !.isPrimary = TRUE]] IN
    StatementWrites(q, "promote", "demote", rows, {})

DemoteBegins(q) ==
    LET now == Seen(contactWork[q]) IN
    StatementBegins(q, "demote", "demoting",
           {i \in DOMAIN now : now[i].isPrimary} \ {contactWork[q].chosen})

DemoteRows(q) ==
    LET now == Seen(contactWork[q])
        rows == [i \in contactWork[q].seen \cap DOMAIN now |->
                    [now[i] EXCEPT !.isPrimary = FALSE]] IN
    StatementWrites(q, "demoting", "commit", rows, {})

(* What is answered has its row.                                           *)
ContactCommit(q) ==
    LET task == contactWork[q] IN
    /\ task.pc = "commit" /\ (task.op = "delete" \/ task.row \in DOMAIN Seen(task))
    /\ contacts' = Seen(task)
    /\ ContactGoes(q, NoContactTask)

(* A violation of an index, a row that vanished, a deadlock, a time-out.   *)
ContactRollback(q) ==
    /\ contactWork[q].pc # "idle"
    /\ ContactGoes(q, NoContactTask) /\ UNCHANGED contacts

ContactsNext ==
    \E q \in ContactRequests :
       \/ \E v \in ContactValues, prefers \in BOOLEAN : PostRead(q, v, prefers)
       \/ \E i \in ContactIds : ContactRead(q, i) \/ ContactDelete(q, i)
       \/ Upsert(q) \/ ContactWrite(q) \/ FindRows(q)
       \/ ShiftBegins(q) \/ ShiftRows(q) \/ Arrange(q)
       \/ Promote(q) \/ DemoteBegins(q) \/ DemoteRows(q)
       \/ ContactCommit(q) \/ ContactRollback(q)

ContactsSpec == ContactsInit /\ [][ContactsNext]_contactVars

-----------------------------------------------------------------------------
(* f has a T for some of the ids: rows, committed or written, places.      *)
OfSome(f, T) == DOMAIN f \subseteq ContactIds /\ f \in [DOMAIN f -> T]
ContactRows == [value : ContactValues, isPrimary : BOOLEAN, position : Nat]
ContactTasks(mine, order) ==
    [pc : ContactPcs, op : ContactKinds, row : ContactIds \cup {NoContact},
     value : ContactValues \cup {NoContact}, prefers : BOOLEAN, last : Nat \cup {-1}, mine : {mine},
     dropped : SUBSET ContactIds, barred : SUBSET Nat, chosen : ContactIds \cup {NoContact},
     order : {order}, seen : SUBSET ContactIds]
ContactTaskOK(task) ==
    /\ OfSome(task.mine, ContactRows) /\ OfSome(task.order, Nat)
    /\ task \in ContactTasks(task.mine, task.order)
    /\ task.pc = "insert" => task.value \in ContactValues
ContactsTypeOK ==
    /\ table \in {"phones", "emails"} /\ contactKinds \subseteq ContactKinds
    /\ OfSome(contacts, ContactRows)
    /\ contactWork = [q \in ContactRequests |-> contactWork[q]]
    /\ \A q \in ContactRequests : ContactTaskOK(contactWork[q])

(* What the theorems ask of the constants: a person starts with its rows   *)
(* in order.                                                               *)
ContactConstants ==
    /\ IsFiniteSet(ContactIds)
    /\ \A i \in ContactInstances :
          /\ i.table \in {"phones", "emails"} /\ i.kinds \subseteq ContactKinds
          /\ OfSome(i.rows, [value : ContactValues, position : Nat])
          /\ Places(i.rows) = 0..Cardinality(DOMAIN i.rows) - 1

(* However requests about the phones of one person interleave, its phones  *)
(* stand in one contiguous order, the first and no other primary, unless   *)
(* some are added while others are removed: what keeps apart two requests  *)
(* that do not see each other's row is the order (people.ts:368-400).      *)
InOrder(rows) ==
    /\ Places(rows) = 0..Cardinality(DOMAIN rows) - 1
    /\ \A i \in DOMAIN rows : rows[i].isPrimary <=> rows[i].position = 0
PhonesInOrder ==
    table = "phones" /\ ~({"post", "delete"} \subseteq contactKinds) => InOrder(contacts)

-----------------------------------------------------------------------------
(* What the code says and does not do; TLC refutes each, see the README.   *)

(* people.ts: "when a person has >= 1 value, EXACTLY one is primary".      *)
Primaries == {i \in DOMAIN contacts : contacts[i].isPrimary}
ExactlyOnePrimary == DOMAIN contacts # {} => Primaries # {} /\ \A i, j \in Primaries : i = j

(* schema.prisma: "a durable, contiguous per-person dial order".           *)
Contiguous == table = "phones" => Places(contacts) = 0..Cardinality(DOMAIN contacts) - 1

(* schema.prisma: "at most one true per person", of addresses.             *)
OnePrimaryEmail == \A i, j \in Primaries : i = j
=============================================================================
