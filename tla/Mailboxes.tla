------------------------------ MODULE Mailboxes ------------------------------
(* The mailboxes of one rep and which of them is the sender: consents that *)
(* connect an account, the move of the primary flag, and disconnects that  *)
(* promote another mailbox, all read committed.                            *)
(*                                                                         *)
(* A transaction's writes show when it commits; the rows it has written    *)
(* stay locked until then. An UPDATE of several rows changes the rows it   *)
(* matched when it began, those that still exist once it has their locks.  *)
(***************************************************************************)
EXTENDS Naturals, FiniteSets

CONSTANTS
    Accounts,      \* provider accounts the rep may connect
    Addresses,     \* e-mail addresses
    AddressOf,     \* account -> the address it reports
    FirstSets,     \* what is connected at the start: one of these sets
    MaxConsents,   \* connections and mailboxes made; a bound
    MailRequests,  \* concurrent requests
    MailKindSets,  \* the sets of request kinds of which one behaviour has one
    Nil

MailKinds == {"connect", "switch", "disconnect"}

VARIABLES
    mailKinds,   \* the kinds of requests of this behaviour; never changes
    connection,  \* account -> which OAuthConnection row it has, 0: none
    boundTo,     \* address -> the account its MailAccount belongs to, or Nil
    boxId,       \* address -> which MailAccount row it is; later is newer
    isPrimary,   \* address -> the flag
    made,        \* rows made so far
    mailWork     \* request -> what it is in the middle of

boxVars == <<connection, boundTo, boxId, isPrimary, made>>
mailVars == <<mailKinds, boxVars, mailWork>>

MailPcs == {"idle", "findBox", "countBoxes", "create", "rebind",
        "clear", "clearWaits", "delete", "promote"}
(* seen: the row id the request has read. deleting: the addresses of the   *)
(* rows it has deleted and not committed, with the account they belong to. *)
MailWork == [pc : MailPcs, account : Accounts \cup {Nil}, address : Addresses \cup {Nil},
             seen : Nat, flag : BOOLEAN, targets : SUBSET Addresses,
             deleting : SUBSET Addresses]
NoMailWork == [pc |-> "idle", account |-> Nil, address |-> Nil, seen |-> 0, flag |-> FALSE,
               targets |-> {}, deleting |-> {}]

Boxes == {e \in Addresses : boundTo[e] # Nil}
Primaries == {e \in Boxes : isPrimary[e]}
BoxesOf(a) == {e \in Boxes : boundTo[e] = a}
HeldByOther(r) == UNION {mailWork[q].deleting : q \in MailRequests \ {r}}
DeletedByOther(r, a) == \E q \in MailRequests \ {r} :
    mailWork[q].account = a /\ mailWork[q].pc \in {"promote", "clear", "clearWaits"}

MailInit ==
    /\ mailKinds \in MailKindSets
    /\ \E first \in FirstSets, sender \in Addresses :
          /\ connection = [a \in Accounts |-> IF a \in first THEN 1 ELSE 0]
          /\ boundTo = [e \in Addresses |->
                IF \E a \in first : AddressOf[a] = e
                THEN CHOOSE a \in first : AddressOf[a] = e ELSE Nil]
          /\ boxId = [e \in Addresses |-> IF boundTo[e] = Nil THEN 0 ELSE 1]
          /\ isPrimary = [e \in Addresses |-> e = sender /\ boundTo[e] # Nil]
          /\ first # {} => boundTo[sender] # Nil
          /\ mailKinds = {} => first = {}
    /\ made = 1
    /\ mailWork = [r \in MailRequests |-> NoMailWork]

Start(r, kind, task) ==
    /\ kind \in mailKinds /\ mailWork[r].pc = "idle"
    /\ mailWork' = [mailWork EXCEPT ![r] = task]
Goes(r, task) == mailWork' = [mailWork EXCEPT ![r] = task]
Ends(r) == Goes(r, NoMailWork)

-----------------------------------------------------------------------------
(* saveConnection: the grant is upserted, then its mailbox.                *)

UpsertConnection(r, a) ==
    LET id == IF connection[a] = 0 THEN made + 1 ELSE connection[a] IN
    /\ id <= MaxConsents
    /\ ~DeletedByOther(r, a)
    /\ Start(r, "connect", [NoMailWork EXCEPT !.pc = "findBox", !.account = a, !.seen = id])
    /\ connection' = [connection EXCEPT ![a] = id]
    /\ made' = IF connection[a] = 0 THEN id ELSE made
    /\ UNCHANGED <<mailKinds, boundTo, boxId, isPrimary>>

(* The mailbox of this grant; else the one with this address.              *)
FindBox(r) ==
    LET a == mailWork[r].account
        its == BoxesOf(a) IN
    /\ mailWork[r].pc = "findBox"
    /\ IF its = {} /\ AddressOf[a] \notin Boxes
       THEN Goes(r, [mailWork[r] EXCEPT !.pc = "countBoxes", !.address = AddressOf[a]])
       ELSE Goes(r, [mailWork[r] EXCEPT !.pc = "rebind", !.address =
                       IF its = {} THEN AddressOf[a] ELSE CHOOSE e \in its : TRUE])
    /\ UNCHANGED <<mailKinds, boxVars>>

CountBoxes(r) ==
    /\ mailWork[r].pc = "countBoxes"
    /\ Goes(r, [mailWork[r] EXCEPT !.pc = "create", !.flag = Boxes = {}])
    /\ UNCHANGED <<mailKinds, boxVars>>

(* A grant that is gone, or a row that is there by now: the insert fails.  *)
CreateBox(r) ==
    LET a == mailWork[r].account
        e == mailWork[r].address IN
    /\ mailWork[r].pc = "create" /\ made < MaxConsents
    /\ ~DeletedByOther(r, a) /\ e \notin HeldByOther(r)
    /\ IF connection[a] = mailWork[r].seen /\ e \notin Boxes /\ BoxesOf(a) = {}
       THEN /\ boundTo' = [boundTo EXCEPT ![e] = a]
            /\ boxId' = [boxId EXCEPT ![e] = made + 1]
            /\ isPrimary' = [isPrimary EXCEPT ![e] = mailWork[r].flag]
            /\ made' = made + 1
       ELSE UNCHANGED <<boundTo, boxId, isPrimary, made>>
    /\ Ends(r)
    /\ UNCHANGED <<mailKinds, connection>>

(* The row keeps its id and its flag.                                      *)
RebindBox(r) ==
    LET a == mailWork[r].account
        e == mailWork[r].address IN
    /\ mailWork[r].pc = "rebind"
    /\ ~DeletedByOther(r, a) /\ e \notin HeldByOther(r)
    /\ boundTo' = IF connection[a] = mailWork[r].seen /\ e \in Boxes
                     /\ BoxesOf(a) \subseteq {e}
                  THEN [boundTo EXCEPT ![e] = a] ELSE boundTo
    /\ Ends(r)
    /\ UNCHANGED <<mailKinds, connection, boxId, isPrimary, made>>

-----------------------------------------------------------------------------
(* setPrimaryMailbox: find the target, clear every flag, set one.          *)

SwitchFind(r, e) ==
    /\ e \in Boxes
    /\ Start(r, "switch", [NoMailWork EXCEPT !.pc = "clear", !.address = e, !.seen = boxId[e]])
    /\ UNCHANGED <<mailKinds, boxVars>>

(* The first updateMany begins: its rows are those committed by now.       *)
ClearBegins(r) ==
    /\ mailWork[r].pc = "clear"
    /\ Goes(r, [mailWork[r] EXCEPT !.pc = "clearWaits",
                  !.targets = Boxes \ mailWork[r].deleting])
    /\ UNCHANGED <<mailKinds, boxVars>>

(* Mutant: the clear and the set are not one transaction's statements, the *)
(* set does not wait for the rows that another request has locked.         *)
ClearAndSetAtOnce(r) ==
    LET task == mailWork[r] IN
    /\ task.pc = "clearWaits"
    /\ isPrimary' = [e \in Addresses |->
          \/ e = task.address /\ e \in Boxes /\ boxId[e] = task.seen
          \/ e \notin task.targets /\ isPrimary[e]
          \/ e \in HeldByOther(r) /\ isPrimary[e]]
    /\ boundTo' = [e \in Addresses |-> IF e \in task.deleting THEN Nil ELSE boundTo[e]]
    /\ connection' = IF task.account = Nil THEN connection
                     ELSE [connection EXCEPT ![task.account] = 0]
    /\ Ends(r)
    /\ UNCHANGED <<mailKinds, boxId, made>>

(* It has its locks; the second one sets the flag of a row by its id, and  *)
(* the transaction commits, with the deletions of a disconnect.            *)
ClearAndSet(r) ==
    LET task == mailWork[r]
        set == {e \in {task.address} : e \in Boxes /\ boxId[e] = task.seen} IN
    /\ task.pc = "clearWaits"
    /\ task.targets \cap HeldByOther(r) = {}
    /\ isPrimary' = [e \in Addresses |->
          \/ e \in set
          \/ e \notin task.targets \cup task.deleting /\ isPrimary[e]]
    /\ boundTo' = [e \in Addresses |-> IF e \in task.deleting THEN Nil ELSE boundTo[e]]
    /\ connection' = IF task.account = Nil THEN connection
                     ELSE [connection EXCEPT ![task.account] = 0]
    /\ Ends(r)
    /\ UNCHANGED <<mailKinds, boxId, made>>

-----------------------------------------------------------------------------
(* disconnectConnection: the grant goes and its mailbox with it; when that *)
(* was the sender, the newest one that is left is promoted.                *)

DisconnectRead(r, a) ==
    /\ connection[a] # 0
    /\ Start(r, "disconnect", [NoMailWork EXCEPT !.pc = "delete", !.account = a,
                                 !.seen = connection[a],
                                 !.flag = \E e \in BoxesOf(a) : isPrimary[e]])
    /\ UNCHANGED <<mailKinds, boxVars>>

DeleteGrant(r) ==
    LET a == mailWork[r].account
        gone == BoxesOf(a) IN
    /\ mailWork[r].pc = "delete"
    /\ ~DeletedByOther(r, a) /\ gone \cap HeldByOther(r) = {}
    /\ IF connection[a] # mailWork[r].seen
       THEN Ends(r) /\ UNCHANGED <<connection, boundTo, isPrimary>>
       ELSE IF mailWork[r].flag
       THEN /\ Goes(r, [mailWork[r] EXCEPT !.pc = "promote", !.deleting = gone])
            /\ UNCHANGED <<connection, boundTo, isPrimary>>
       ELSE /\ connection' = [connection EXCEPT ![a] = 0]
            /\ boundTo' = [e \in Addresses |-> IF e \in gone THEN Nil ELSE boundTo[e]]
            /\ isPrimary' = [e \in Addresses |-> e \notin gone /\ isPrimary[e]]
            /\ Ends(r)
    /\ UNCHANGED <<mailKinds, boxId, made>>

PromoteFind(r, e) ==
    LET left == Boxes \ mailWork[r].deleting IN
    /\ mailWork[r].pc = "promote"
    /\ e \in left /\ \A f \in left : boxId[f] <= boxId[e]
    /\ Goes(r, [mailWork[r] EXCEPT !.pc = "clear", !.address = e, !.seen = boxId[e]])
    /\ UNCHANGED <<mailKinds, boxVars>>

(* Nothing is left to promote: the deletion commits.                       *)
PromoteNone(r) ==
    LET task == mailWork[r] IN
    /\ task.pc = "promote" /\ Boxes \subseteq task.deleting
    /\ connection' = [connection EXCEPT ![task.account] = 0]
    /\ boundTo' = [e \in Addresses |-> IF e \in task.deleting THEN Nil ELSE boundTo[e]]
    /\ isPrimary' = [e \in Addresses |-> e \notin task.deleting /\ isPrimary[e]]
    /\ Ends(r)
    /\ UNCHANGED <<mailKinds, boxId, made>>

(* Two transactions that wait for each other's rows: one is rolled back.   *)
RolledBack(r) ==
    LET task == mailWork[r] IN
    /\ \E q \in MailRequests \ {r} :
          LET other == mailWork[q] IN
          /\ task.targets \cap other.deleting # {}
          /\ other.targets \cap (task.deleting \cup task.targets) # {}
    /\ Ends(r)
    /\ UNCHANGED <<mailKinds, boxVars>>

-----------------------------------------------------------------------------
MailStep(r) ==
    \/ FindBox(r) \/ CountBoxes(r) \/ CreateBox(r) \/ RebindBox(r)
    \/ ClearBegins(r) \/ ClearAndSet(r) \/ DeleteGrant(r)
    \/ \E e \in Addresses : PromoteFind(r, e)
    \/ PromoteNone(r) \/ RolledBack(r)

MailNext == \E r \in MailRequests :
    \/ MailStep(r)
    \/ \E a \in Accounts : UpsertConnection(r, a) \/ DisconnectRead(r, a)
    \/ \E e \in Addresses : SwitchFind(r, e)

MailSpec == MailInit /\ [][MailNext]_mailVars

-----------------------------------------------------------------------------
(* Each variable keeps its type; what a transaction has deleted is its own.*)
MailTypeOK ==
    /\ mailKinds \in MailKindSets
    /\ connection \in [Accounts -> 0..MaxConsents]
    /\ boundTo \in [Addresses -> Accounts \cup {Nil}]
    /\ boxId \in [Addresses -> 0..MaxConsents]
    /\ isPrimary \in [Addresses -> BOOLEAN]
    /\ made \in 1..MaxConsents
    /\ mailWork \in [MailRequests -> MailWork]
    /\ \A q, r \in MailRequests : q # r => mailWork[q].deleting \cap mailWork[r].deleting = {}

(* A rep never has two senders, however switches and disconnects overlap:  *)
(* the clear locks every mailbox (mailAccounts.ts, setPrimaryMailbox).     *)
(* Without consents: two first ones at once are both born the sender.      *)
OneSender == "connect" \notin mailKinds => Cardinality(Primaries) <= 1

(* Switches and consents never leave a rep with mailboxes and no sender.   *)
(* Without disconnects: what they do to this is in the README.             *)
SenderRemains == "disconnect" \notin mailKinds => (Boxes # {} => Primaries # {})

(* A mailbox has the grant it sends with.                                  *)
BoxHasGrant == \A e \in Boxes : connection[boundTo[e]] # 0

(* So a rep can send: from one mailbox, with its grant.                    *)
CanSend == OneSender /\ SenderRemains /\ BoxHasGrant

(* What the behaviours need of the constants: an account of its own for    *)
(* each grant, an address for each account, and a row to begin with.       *)
MailConstants ==
    /\ MaxConsents \in Nat \ {0} /\ Nil \notin Accounts /\ AddressOf \in [Accounts -> Addresses]
    /\ FirstSets \subseteq SUBSET Accounts /\ MailKindSets \subseteq SUBSET MailKinds

-----------------------------------------------------------------------------
(* What the code says and does not do; TLC refutes each, see the README.   *)

(* mailAccounts.ts: exactly one primary, even for concurrent first         *)
(* connects.                                                               *)
AtMostOnePrimary == Cardinality(Primaries) <= 1

(* mailAccounts.ts: "A rep is NEVER left with mailboxes and no primary".   *)
NeverWithoutSender == Boxes # {} => Primaries # {}

(* oauthConnections.ts: no consent is completed without a mailbox.         *)
GrantHasMailbox ==
    \A a \in Accounts : connection[a] # 0 /\ (\A r \in MailRequests : mailWork[r].pc = "idle")
        => BoxesOf(a) # {}
=============================================================================
