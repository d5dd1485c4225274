------------------------------ MODULE MailProofs ------------------------------
(* That mail goes out and comes in: a rep can send, however consents and   *)
(* switches of the sender overlap; a grant stays usable, however refreshes,*)
(* consents and probes overlap; what arrives is kept once, however sync,   *)
(* import, rematch and purge overlap; and a draft stands for what the rep  *)
(* sees, however saves, buttons and refetches overlap.                     *)
EXTENDS Mailboxes, MailGrants, MailCapture, Composer, FiniteSetTheorems, TLAPS

(***************************************************************************)
(* The mailboxes.                                                          *)
(***************************************************************************)

Connecting == {"findBox", "countBoxes", "create", "rebind"}
Setting == {"clear", "clearWaits"}
Deleting == {"promote", "clear", "clearWaits"}

(* What a request is about, by how far it is.                              *)
TaskShape(t) ==
    /\ t.pc \in Connecting => "connect" \in mailKinds /\ t.account \in Accounts /\ t.seen # 0
    /\ t.pc \in {"delete", "promote"} => "disconnect" \in mailKinds /\ t.account \in Accounts
    /\ t.pc \in {"countBoxes", "create", "rebind"} \cup Setting => t.address \in Addresses
    /\ t.pc \in Setting /\ t.account # Nil => "disconnect" \in mailKinds
    /\ t.deleting # {} => t.pc \in Deleting /\ t.account # Nil

(* A grant that is being deleted gets no mailbox that is not.              *)
DeletesItsBoxes(t) ==
    t.pc \in Deleting /\ t.account # Nil => BoxesOf(t.account) \subseteq t.deleting

(* Without consents, a clear has found every mailbox that stays.           *)
ClearsAll(t) ==
    "connect" \notin mailKinds /\ t.pc = "clearWaits" => Boxes \subseteq t.targets \cup t.deleting

(* Without disconnects, the mailbox a request has seen is still there.     *)
SeesBox(t) ==
    "disconnect" \notin mailKinds =>
        /\ t.pc = "create" /\ ~t.flag => Boxes # {}
        /\ t.pc \in Setting => t.address \in Boxes /\ boxId[t.address] = t.seen

TaskOK(t) == TaskShape(t) /\ DeletesItsBoxes(t) /\ ClearsAll(t) /\ SeesBox(t)

SenderIsOne == "connect" \notin mailKinds => \A e, f \in Primaries : e = f

MailInv ==
    /\ MailTypeOK /\ SenderIsOne /\ SenderRemains /\ BoxHasGrant
    /\ \A r \in MailRequests : TaskOK(mailWork[r])

-----------------------------------------------------------------------------
(* What a step of one request does to the mailboxes of the others: only a  *)
(* consent makes one, only a disconnect takes one away, and none comes to  *)
(* a grant that another request is deleting.                               *)
BoxesStay(r) ==
    /\ mailKinds' = mailKinds
    /\ "connect" \notin mailKinds => Boxes' \subseteq Boxes
    /\ "disconnect" \notin mailKinds =>
          \A e \in Boxes : e \in Boxes' /\ boxId'[e] = boxId[e]
    /\ \A a \in Accounts : DeletedByOther(r, a) => BoxesOf(a)' \subseteq BoxesOf(a)

LEMMA TaskStays ==
    ASSUME NEW r \in MailRequests, BoxesStay(r), NEW q \in MailRequests \ {r}, NEW t \in MailWork,
           mailWork[q] = t, TaskOK(t)
    PROVE  TaskOK(t)'
<1>1. TaskShape(t)' BY DEF TaskOK, TaskShape, BoxesStay
<1>2. DeletesItsBoxes(t)'
  <2>1. SUFFICES ASSUME t.pc \in Deleting, t.account # Nil
                 PROVE  BoxesOf(t.account)' \subseteq t.deleting
    BY DEF DeletesItsBoxes
  <2>2. t.account \in Accounts BY <2>1 DEF MailWork
  <2>3. DeletedByOther(r, t.account) BY <2>1 DEF DeletedByOther, Deleting
  <2>4. BoxesOf(t.account) \subseteq t.deleting BY <2>1 DEF TaskOK, DeletesItsBoxes
  <2>5. QED BY <2>2, <2>3, <2>4 DEF BoxesStay
<1>3. ClearsAll(t)' BY DEF TaskOK, ClearsAll, BoxesStay
<1>4. SeesBox(t)' BY DEF TaskOK, SeesBox, BoxesStay
<1>5. QED BY <1>1, <1>2, <1>3, <1>4 DEF TaskOK

Disjoint == \A q, r \in MailRequests :
    q # r => mailWork[q].deleting \cap mailWork[r].deleting = {}

LEMMA RequestGoes ==
    ASSUME MailTypeOK, NEW r \in MailRequests, NEW x \in MailWork, Goes(r, x), BoxesStay(r),
           \A q \in MailRequests : TaskOK(mailWork[q]), TaskOK(x)',
           x.deleting \cap HeldByOther(r) = {}
    PROVE  /\ mailWork' \in [MailRequests -> MailWork] /\ Disjoint'
           /\ (\A q \in MailRequests : TaskOK(mailWork[q]))'
<1>1. mailWork' \in [MailRequests -> MailWork] BY DEF MailTypeOK, Goes
<1>2. mailWork'[r] = x /\ \A q \in MailRequests \ {r} : mailWork'[q] = mailWork[q]
  BY DEF MailTypeOK, Goes
<1>3. \A q \in MailRequests \ {r} : x.deleting \cap mailWork[q].deleting = {}
  BY DEF HeldByOther
<1>4. Disjoint' BY <1>2, <1>3 DEF Disjoint, MailTypeOK
<1>5. ASSUME NEW q \in MailRequests PROVE TaskOK(mailWork[q])'
  <2>1. CASE q = r
    BY <1>2, <2>1 DEF TaskOK, TaskShape, DeletesItsBoxes, ClearsAll, SeesBox
  <2>2. CASE q # r
    <3>1. PICK t : t = mailWork[q] OBVIOUS
    <3>2. TaskOK(t) /\ t \in MailWork
      BY <3>1 DEF MailTypeOK, TaskOK, TaskShape, DeletesItsBoxes, ClearsAll, SeesBox
    <3>3. TaskOK(t)' BY <2>2, <3>1, <3>2, TaskStays
    <3>4. mailWork'[q] = t BY <1>2, <2>2, <3>1
    <3>5. QED BY <3>3, <3>4 DEF TaskOK, TaskShape, DeletesItsBoxes, ClearsAll, SeesBox
  <2>3. QED BY <2>1, <2>2
<1>6. QED BY <1>1, <1>4, <1>5

(* A request at rest asks for nothing.                                     *)
LEMMA RestIsOK ==
    /\ NoMailWork \in MailWork /\ NoMailWork.deleting = {}
    /\ TaskOK(NoMailWork) /\ TaskOK(NoMailWork)'
BY DEF NoMailWork, MailWork, MailPcs, TaskOK, TaskShape, DeletesItsBoxes, ClearsAll, SeesBox,
       Connecting, Setting, Deleting

(* What a request has, by its step.                                        *)
LEMMA RequestIs ==
    ASSUME MailInv, NEW r \in MailRequests, NEW t, t = mailWork[r]
    PROVE  t \in MailWork /\ TaskOK(t) /\ t.deleting \cap HeldByOther(r) = {}
<1>1. t \in MailWork BY DEF MailInv, MailTypeOK
<1>2. TaskOK(t)
  BY DEF MailInv, TaskOK, TaskShape, DeletesItsBoxes, ClearsAll, SeesBox
<1>3. \A q \in MailRequests \ {r} : t.deleting \cap mailWork[q].deleting = {}
  BY DEF MailInv, MailTypeOK
<1>4. t.deleting \cap HeldByOther(r) = {} BY <1>3 DEF HeldByOther
<1>5. QED BY <1>1, <1>2, <1>4

(* A step that leaves the mailboxes alone.                                 *)
LEMMA BoxesSame ==
    ASSUME UNCHANGED <<mailKinds, boundTo, boxId>>, NEW r
    PROVE  BoxesStay(r)
BY DEF BoxesStay, Boxes, BoxesOf

LEMMA WorkStep ==
    ASSUME MailInv, NEW r \in MailRequests, NEW x \in MailWork, Goes(r, x),
           UNCHANGED <<mailKinds, boxVars>>, TaskOK(x), x.deleting \cap HeldByOther(r) = {}
    PROVE  MailInv'
<1>1. TaskOK(x)'
  BY DEF TaskOK, TaskShape, DeletesItsBoxes, ClearsAll, SeesBox, boxVars, Boxes, BoxesOf
<1>2. /\ mailWork' \in [MailRequests -> MailWork] /\ Disjoint'
      /\ (\A q \in MailRequests : TaskOK(mailWork[q]))'
  <2>1. MailTypeOK /\ \A q \in MailRequests : TaskOK(mailWork[q]) BY DEF MailInv
  <2>2. BoxesStay(r) BY BoxesSame DEF boxVars
  <2>3. QED BY <1>1, <2>1, <2>2, RequestGoes
<1>3. MailTypeOK' BY <1>2 DEF MailInv, MailTypeOK, boxVars, Disjoint
<1>4. SenderIsOne' /\ SenderRemains' /\ BoxHasGrant'
  BY DEF MailInv, SenderIsOne, SenderRemains, BoxHasGrant, boxVars, Boxes, Primaries
<1>5. QED BY <1>2, <1>3, <1>4 DEF MailInv

LEMMA WorkEnds ==
    ASSUME MailInv, NEW r \in MailRequests, Ends(r), UNCHANGED <<mailKinds, boxVars>>
    PROVE  MailInv'
<1>1. Goes(r, NoMailWork) BY DEF Ends
<1>2. QED BY <1>1, RestIsOK, WorkStep

-----------------------------------------------------------------------------
(* saveConnection.                                                         *)
LEMMA UpsertStep ==
    ASSUME MailConstants, MailInv, NEW r \in MailRequests, NEW a \in Accounts,
           UpsertConnection(r, a)
    PROVE  MailInv'
<1>1. PICK id : id = IF connection[a] = 0 THEN made + 1 ELSE connection[a] OBVIOUS
<1>t. MailTypeOK BY DEF MailInv
<1>2. id \in 1..MaxConsents /\ id \in Nat
  BY <1>t, <1>1 DEF UpsertConnection, MailTypeOK, MailConstants
<1>3. PICK x : x = [NoMailWork EXCEPT !.pc = "findBox", !.account = a, !.seen = id] OBVIOUS
<1>4. /\ x \in MailWork /\ x.pc = "findBox" /\ x.account = a /\ x.seen = id /\ x.deleting = {}
  BY <1>2, <1>3 DEF NoMailWork, MailWork, MailPcs
<1>5. /\ Goes(r, x) /\ "connect" \in mailKinds
      /\ connection' = [connection EXCEPT ![a] = id]
      /\ made' \in {id, made} /\ UNCHANGED <<mailKinds, boundTo, boxId, isPrimary>>
  BY <1>1, <1>3 DEF UpsertConnection, Start, Goes
<1>6. TaskOK(x)'
  BY <1>2, <1>4, <1>5 DEF TaskOK, TaskShape, DeletesItsBoxes, ClearsAll, SeesBox, Connecting,
     Setting, Deleting
<1>7. /\ mailWork' \in [MailRequests -> MailWork] /\ Disjoint'
      /\ (\A q \in MailRequests : TaskOK(mailWork[q]))'
  <2>1. \A q \in MailRequests : TaskOK(mailWork[q]) BY DEF MailInv
  <2>2. BoxesStay(r) BY <1>5, BoxesSame
  <2>3. QED BY <1>t, <1>4, <1>5, <1>6, <2>1, <2>2, RequestGoes
<1>8. MailTypeOK' BY <1>t, <1>2, <1>5, <1>7 DEF MailTypeOK, Disjoint
<1>9. SenderIsOne' /\ SenderRemains'
  BY <1>5 DEF MailInv, SenderIsOne, SenderRemains, Boxes, Primaries
<1>10. BoxHasGrant'
  <2>1. \A e \in Boxes : boundTo[e] \in Accounts BY <1>t DEF Boxes, MailTypeOK
  <2>2. QED BY <1>t, <1>2, <1>5, <2>1 DEF MailInv, BoxHasGrant, Boxes, MailTypeOK
<1>11. QED BY <1>7, <1>8, <1>9, <1>10 DEF MailInv

LEMMA FindStep ==
    ASSUME MailConstants, MailInv, NEW r \in MailRequests, FindBox(r) \/ CountBoxes(r)
    PROVE  MailInv'
<1>0. PICK t : t = mailWork[r] OBVIOUS
<1>t. t \in MailWork /\ TaskOK(t) /\ t.deleting \cap HeldByOther(r) = {}
  BY <1>0, RequestIs
<1>1. t.pc \in {"findBox", "countBoxes"} BY <1>0 DEF FindBox, CountBoxes
<1>2. "connect" \in mailKinds /\ t.account \in Accounts /\ t.seen # 0 /\ t.deleting = {}
  BY <1>t, <1>1 DEF TaskOK, TaskShape, Connecting, Deleting
<1>3. AddressOf[t.account] \in Addresses BY <1>2 DEF MailConstants
<1>4. ASSUME NEW x \in MailWork, Goes(r, x), UNCHANGED <<mailKinds, boxVars>>,
             x.pc \in {"countBoxes", "create", "rebind"}, x.account = t.account,
             x.seen = t.seen, x.deleting = t.deleting,
             x.address \in Addresses,
             x.pc = "create" /\ ~x.flag => Boxes # {}
      PROVE  MailInv'
  <2>1. TaskOK(x)
    BY <1>2, <1>4 DEF TaskOK, TaskShape, DeletesItsBoxes, ClearsAll, SeesBox, Connecting,
       Setting, Deleting
  <2>2. QED BY <1>t, <1>4, <2>1, WorkStep
<1>5. CASE FindBox(r)
  <2>1. UNCHANGED <<mailKinds, boxVars>> BY <1>5 DEF FindBox
  <2>2. ASSUME Goes(r, [t EXCEPT !.pc = "countBoxes", !.address = AddressOf[t.account]])
        PROVE  MailInv'
    <3>1. PICK x : x = [t EXCEPT !.pc = "countBoxes", !.address = AddressOf[t.account]] OBVIOUS
    <3>2. /\ x \in MailWork /\ x.pc = "countBoxes" /\ x.account = t.account
          /\ x.seen = t.seen /\ x.deleting = t.deleting /\ x.address \in Addresses
      BY <1>t, <1>3, <3>1 DEF MailWork, MailPcs
    <3>3. QED BY <1>4, <2>1, <2>2, <3>1, <3>2
  <2>3. ASSUME NEW e \in Addresses, Goes(r, [t EXCEPT !.pc = "rebind", !.address = e])
        PROVE  MailInv'
    <3>1. PICK x : x = [t EXCEPT !.pc = "rebind", !.address = e] OBVIOUS
    <3>2. /\ x \in MailWork /\ x.pc = "rebind" /\ x.account = t.account /\ x.address = e
          /\ x.seen = t.seen /\ x.deleting = t.deleting
      BY <1>t, <3>1 DEF MailWork, MailPcs
    <3>3. QED BY <1>4, <2>1, <2>3, <3>1, <3>2
  <2>4. BoxesOf(t.account) # {} => (CHOOSE e \in BoxesOf(t.account) : TRUE) \in Addresses
    BY DEF BoxesOf, Boxes
  <2>5. CASE BoxesOf(t.account) = {} /\ AddressOf[t.account] \notin Boxes
    BY <1>0, <1>5, <2>2, <2>5 DEF FindBox
  <2>6. CASE ~(BoxesOf(t.account) = {} /\ AddressOf[t.account] \notin Boxes)
    BY <1>0, <1>3, <1>5, <2>3, <2>4, <2>6 DEF FindBox
  <2>7. QED BY <2>5, <2>6
<1>6. CASE CountBoxes(r)
  <2>1. PICK x : x = [t EXCEPT !.pc = "create", !.flag = Boxes = {}] OBVIOUS
  <2>2. t.pc = "countBoxes" /\ Goes(r, x) /\ UNCHANGED <<mailKinds, boxVars>>
    BY <1>0, <1>6, <2>1 DEF CountBoxes
  <2>3. /\ x \in MailWork /\ x.pc = "create" /\ x.account = t.account
        /\ x.seen = t.seen /\ x.deleting = t.deleting /\ x.address = t.address
        /\ (~x.flag => Boxes # {})
    BY <1>t, <2>1 DEF MailWork, MailPcs
  <2>4. t.address \in Addresses BY <1>t, <2>2 DEF TaskOK, TaskShape
  <2>5. QED BY <1>4, <2>2, <2>3, <2>4
<1>7. QED BY <1>5, <1>6

-----------------------------------------------------------------------------
(* A step that ends its request, and changes the mailboxes.                *)
LEMMA EndStep ==
    ASSUME MailInv, NEW r \in MailRequests, Ends(r), BoxesStay(r),
           mailKinds' = mailKinds, connection' \in [Accounts -> 0..MaxConsents],
           boundTo' \in [Addresses -> Accounts \cup {Nil}],
           boxId' \in [Addresses -> 0..MaxConsents],
           isPrimary' \in [Addresses -> BOOLEAN], made' \in 1..MaxConsents,
           SenderIsOne', SenderRemains', BoxHasGrant'
    PROVE  MailInv'
<1>1. Goes(r, NoMailWork) /\ MailTypeOK /\ \A q \in MailRequests : TaskOK(mailWork[q])
  BY DEF Ends, MailInv
<1>2. /\ mailWork' \in [MailRequests -> MailWork] /\ Disjoint'
      /\ (\A q \in MailRequests : TaskOK(mailWork[q]))'
  BY <1>1, RestIsOK, RequestGoes
<1>3. MailTypeOK' BY <1>1, <1>2 DEF MailTypeOK, Disjoint
<1>4. QED BY <1>2, <1>3 DEF MailInv

LEMMA CreateStep ==
    ASSUME MailConstants, MailInv, NEW r \in MailRequests, CreateBox(r)
    PROVE  MailInv'
<1>0. PICK t : t = mailWork[r] OBVIOUS
<1>t. MailTypeOK /\ t \in MailWork /\ TaskOK(t)
  BY <1>0, RequestIs DEF MailInv
<1>1. PICK a, e : a = t.account /\ e = t.address OBVIOUS
<1>2. /\ t.pc = "create" /\ "connect" \in mailKinds /\ a \in Accounts /\ t.seen # 0
      /\ e \in Addresses
  BY <1>t, <1>0, <1>1 DEF CreateBox, TaskOK, TaskShape, Connecting
<1>3. Ends(r) /\ UNCHANGED <<mailKinds, connection>> /\ ~DeletedByOther(r, a)
  BY <1>0, <1>1 DEF CreateBox
<1>4. CASE UNCHANGED <<boundTo, boxId, isPrimary, made>>
  BY <1>3, <1>4, WorkEnds DEF boxVars
<1>5. CASE /\ connection[a] = t.seen /\ e \notin Boxes /\ made < MaxConsents
           /\ boundTo' = [boundTo EXCEPT ![e] = a]
           /\ boxId' = [boxId EXCEPT ![e] = made + 1]
           /\ isPrimary' = [isPrimary EXCEPT ![e] = t.flag]
           /\ made' = made + 1
  <2>1. /\ Nil \notin Accounts /\ MaxConsents \in Nat
        /\ boundTo \in [Addresses -> Accounts \cup {Nil}]
        /\ isPrimary \in [Addresses -> BOOLEAN] /\ t.flag \in BOOLEAN
    BY <1>t DEF MailConstants, MailTypeOK, MailWork
  <2>2. /\ Boxes' = Boxes \cup {e}
        /\ \A f \in Boxes : f # e /\ boundTo'[f] = boundTo[f] /\ boxId'[f] = boxId[f]
                            /\ isPrimary'[f] = isPrimary[f]
        /\ boundTo'[e] = a /\ isPrimary'[e] = t.flag
    BY <1>t, <1>2, <1>5, <2>1 DEF Boxes, MailTypeOK
  <2>3. BoxesStay(r)
    BY <1>2, <1>3, <2>2 DEF BoxesStay, BoxesOf
  <2>4. SenderIsOne' BY <1>2, <1>3 DEF SenderIsOne
  <2>5. SenderRemains'
    <3>1. SUFFICES ASSUME "disconnect" \notin mailKinds PROVE Primaries' # {}
      BY <1>3 DEF SenderRemains
    <3>2. CASE t.flag
      BY <2>2, <3>2 DEF Primaries
    <3>3. CASE ~t.flag
      <4>1. Boxes # {} BY <1>t, <1>2, <3>1, <3>3 DEF TaskOK, SeesBox
      <4>2. PICK f \in Primaries : TRUE BY <3>1, <4>1 DEF MailInv, SenderRemains
      <4>3. QED BY <2>2, <4>2 DEF Primaries
    <3>4. QED BY <3>2, <3>3
  <2>6. BoxHasGrant'
    BY <1>2, <1>3, <1>5, <2>2 DEF MailInv, BoxHasGrant
  <2>7. /\ connection' \in [Accounts -> 0..MaxConsents]
        /\ boundTo' \in [Addresses -> Accounts \cup {Nil}]
        /\ isPrimary' \in [Addresses -> BOOLEAN] /\ made' \in 1..MaxConsents
        /\ boxId' \in [Addresses -> 0..MaxConsents]
    BY <1>t, <1>2, <1>3, <1>5, <2>1 DEF MailTypeOK
  <2>8. QED BY <1>3, <2>3, <2>4, <2>5, <2>6, <2>7, EndStep
<1>6. QED BY <1>0, <1>1, <1>4, <1>5 DEF CreateBox

LEMMA RebindStep ==
    ASSUME MailConstants, MailInv, NEW r \in MailRequests, RebindBox(r)
    PROVE  MailInv'
<1>0. PICK t : t = mailWork[r] OBVIOUS
<1>t. MailTypeOK /\ t \in MailWork /\ TaskOK(t)
  BY <1>0, RequestIs DEF MailInv
<1>1. PICK a, e : a = t.account /\ e = t.address OBVIOUS
<1>2. /\ t.pc = "rebind" /\ a \in Accounts /\ t.seen # 0 /\ e \in Addresses
  BY <1>t, <1>0, <1>1 DEF RebindBox, TaskOK, TaskShape, Connecting
<1>3. /\ Ends(r) /\ UNCHANGED <<mailKinds, connection, boxId, isPrimary, made>>
      /\ ~DeletedByOther(r, a)
  BY <1>0, <1>1 DEF RebindBox
<1>4. CASE UNCHANGED boundTo
  BY <1>3, <1>4, WorkEnds DEF boxVars
<1>5. CASE connection[a] = t.seen /\ e \in Boxes /\ boundTo' = [boundTo EXCEPT ![e] = a]
  <2>1. Nil \notin Accounts /\ boundTo \in [Addresses -> Accounts \cup {Nil}]
    BY <1>t DEF MailConstants, MailTypeOK
  <2>2. Boxes' = Boxes /\ boundTo'[e] = a /\ \A f \in Boxes \ {e} : boundTo'[f] = boundTo[f]
    BY <1>2, <1>5, <2>1 DEF Boxes
  <2>3. BoxesStay(r)
    BY <1>2, <1>3, <2>2 DEF BoxesStay, BoxesOf
  <2>4. Primaries' = Primaries BY <1>3, <2>2 DEF Primaries
  <2>5. SenderIsOne' /\ SenderRemains'
    BY <1>3, <2>2, <2>4 DEF MailInv, SenderIsOne, SenderRemains
  <2>6. BoxHasGrant'
    BY <1>2, <1>3, <1>5, <2>2 DEF MailInv, BoxHasGrant
  <2>7. boundTo' \in [Addresses -> Accounts \cup {Nil}] BY <1>2, <1>5, <2>1
  <2>8. QED BY <1>t, <1>3, <2>3, <2>5, <2>6, <2>7, EndStep DEF MailTypeOK
<1>6. QED BY <1>0, <1>1, <1>4, <1>5 DEF RebindBox

-----------------------------------------------------------------------------
(* setPrimaryMailbox.                                                      *)
LEMMA SwitchStep ==
    ASSUME MailConstants, MailInv, NEW r \in MailRequests, NEW e \in Addresses, SwitchFind(r, e)
    PROVE  MailInv'
<1>1. PICK x : x = [NoMailWork EXCEPT !.pc = "clear", !.address = e, !.seen = boxId[e]] OBVIOUS
<1>2. /\ Goes(r, x) /\ UNCHANGED <<mailKinds, boxVars>> /\ e \in Boxes
  BY <1>1 DEF SwitchFind, Start, Goes
<1>3. boxId[e] \in Nat BY DEF MailInv, MailTypeOK, MailConstants
<1>4. /\ x \in MailWork /\ x.pc = "clear" /\ x.account = Nil /\ x.deleting = {}
      /\ x.address = e /\ x.seen = boxId[e]
  BY <1>1, <1>3 DEF NoMailWork, MailWork, MailPcs
<1>5. TaskOK(x)
  BY <1>2, <1>4 DEF TaskOK, TaskShape, DeletesItsBoxes, ClearsAll, SeesBox, Connecting,
     Setting, Deleting
<1>6. QED BY <1>2, <1>4, <1>5, WorkStep

LEMMA ClearStep ==
    ASSUME MailConstants, MailInv, NEW r \in MailRequests, ClearBegins(r)
    PROVE  MailInv'
<1>0. PICK t : t = mailWork[r] OBVIOUS
<1>t. t \in MailWork /\ TaskOK(t) /\ t.deleting \cap HeldByOther(r) = {}
  BY <1>0, RequestIs
<1>1. PICK x : x = [t EXCEPT !.pc = "clearWaits", !.targets = Boxes \ t.deleting] OBVIOUS
<1>2. /\ Goes(r, x) /\ UNCHANGED <<mailKinds, boxVars>> /\ t.pc = "clear"
  BY <1>0, <1>1 DEF ClearBegins
<1>3. /\ x \in MailWork /\ x.pc = "clearWaits" /\ x.account = t.account
      /\ x.deleting = t.deleting /\ x.address = t.address /\ x.seen = t.seen
      /\ x.targets = Boxes \ t.deleting
  BY <1>t, <1>1 DEF MailWork, MailPcs, Boxes
<1>4. TaskOK(x)
  BY <1>t, <1>2, <1>3 DEF TaskOK, TaskShape, DeletesItsBoxes, ClearsAll, SeesBox, Connecting,
     Setting, Deleting
<1>5. QED BY <1>t, <1>2, <1>3, <1>4, WorkStep

(* A commit that takes the mailboxes of a grant away, and the grant.       *)
LEMMA GrantGoes ==
    ASSUME MailConstants, MailTypeOK, BoxHasGrant, NEW r \in MailRequests,
           NEW a \in Accounts, NEW gone \in SUBSET Addresses, BoxesOf(a) \subseteq gone,
           "disconnect" \in mailKinds, UNCHANGED <<mailKinds, boxId, made>>,
           boundTo' = [e \in Addresses |-> IF e \in gone THEN Nil ELSE boundTo[e]],
           connection' = [connection EXCEPT ![a] = 0]
    PROVE  /\ BoxesStay(r) /\ BoxHasGrant' /\ SenderRemains' /\ Boxes' = Boxes \ gone
           /\ connection' \in [Accounts -> 0..MaxConsents]
           /\ boundTo' \in [Addresses -> Accounts \cup {Nil}]
<1>1. Boxes' = Boxes \ gone /\ \A e \in Boxes' : boundTo'[e] = boundTo[e]
  BY DEF Boxes
<1>2. \A b \in Accounts : BoxesOf(b)' \subseteq BoxesOf(b)
  BY <1>1 DEF BoxesOf
<1>3. BoxesStay(r) BY <1>1, <1>2 DEF BoxesStay
<1>4. SenderRemains' BY DEF SenderRemains
<1>5. BoxHasGrant'
  <2>1. SUFFICES ASSUME NEW e \in Boxes' PROVE connection'[boundTo'[e]] # 0
    BY DEF BoxHasGrant
  <2>2. e \in Boxes /\ boundTo'[e] = boundTo[e] /\ boundTo[e] # a
    BY <1>1, <2>1 DEF BoxesOf
  <2>3. boundTo[e] \in Accounts BY <2>2 DEF Boxes, MailTypeOK
  <2>4. QED BY <2>2, <2>3 DEF BoxHasGrant, MailTypeOK
<1>6. /\ connection' \in [Accounts -> 0..MaxConsents]
      /\ boundTo' \in [Addresses -> Accounts \cup {Nil}]
  BY DEF MailTypeOK, MailConstants
<1>7. QED BY <1>1, <1>3, <1>4, <1>5, <1>6

LEMMA SetStep ==
    ASSUME MailConstants, MailInv, NEW r \in MailRequests, ClearAndSet(r)
    PROVE  MailInv'
<1>0. PICK t : t = mailWork[r] OBVIOUS
<1>t. MailTypeOK /\ t \in MailWork /\ TaskOK(t)
  BY <1>0, RequestIs DEF MailInv
<1>1. PICK set : set = {e \in {t.address} : e \in Boxes /\ boxId[e] = t.seen} OBVIOUS
<1>2. /\ t.pc = "clearWaits" /\ Ends(r) /\ UNCHANGED <<mailKinds, boxId, made>>
      /\ isPrimary' = [e \in Addresses |-> \/ e \in set
                                           \/ e \notin t.targets \cup t.deleting /\ isPrimary[e]]
      /\ boundTo' = [e \in Addresses |-> IF e \in t.deleting THEN Nil ELSE boundTo[e]]
      /\ connection' = IF t.account = Nil THEN connection
                       ELSE [connection EXCEPT ![t.account] = 0]
  BY <1>0, <1>1 DEF ClearAndSet
<1>3. isPrimary' \in [Addresses -> BOOLEAN]
  <2>1. \A e \in Addresses :
            (e \in set \/ (e \notin t.targets \cup t.deleting /\ isPrimary[e])) \in BOOLEAN
    OBVIOUS
  <2>2. QED BY <1>2, <2>1
<1>4. Boxes' \subseteq Boxes BY <1>2 DEF Boxes
<1>5. SenderIsOne'
  <2>1. SUFFICES ASSUME "connect" \notin mailKinds
                 PROVE  \A e \in Primaries' : e = t.address
    BY <1>2 DEF SenderIsOne
  <2>2. Boxes \subseteq t.targets \cup t.deleting
    BY <1>t, <1>2, <2>1 DEF TaskOK, ClearsAll
  <2>3. \A e \in Primaries' : e \in Boxes /\ e \in Addresses /\ isPrimary'[e]
    BY <1>4 DEF Primaries, Boxes
  <2>4. QED BY <1>1, <1>2, <2>2, <2>3
<1>6. CASE t.account = Nil
  <2>1. t.deleting = {} BY <1>t, <1>6 DEF TaskOK, TaskShape
  <2>2. boundTo' = boundTo /\ connection' = connection
    BY <1>t, <1>2, <1>6, <2>1 DEF MailTypeOK
  <2>3. BoxesStay(r) BY <1>2, <2>2, BoxesSame
  <2>4. BoxHasGrant' BY <2>2 DEF MailInv, BoxHasGrant, Boxes
  <2>5. SenderRemains'
    <3>1. SUFFICES ASSUME "disconnect" \notin mailKinds PROVE Primaries' # {}
      BY <1>2 DEF SenderRemains
    <3>2. t.address \in Boxes /\ t.address \in set
      BY <1>t, <1>1, <1>2, <3>1 DEF TaskOK, SeesBox, Setting
    <3>3. t.address \in Primaries' BY <1>2, <2>2, <3>2 DEF Primaries, Boxes
    <3>4. QED BY <3>3
  <2>6. QED BY <1>t, <1>2, <1>3, <1>5, <2>2, <2>3, <2>4, <2>5, EndStep DEF MailTypeOK
<1>7. CASE t.account # Nil
  <2>1. /\ t.account \in Accounts /\ "disconnect" \in mailKinds
        /\ BoxesOf(t.account) \subseteq t.deleting /\ t.deleting \in SUBSET Addresses
    BY <1>t, <1>2, <1>7 DEF TaskOK, TaskShape, DeletesItsBoxes, MailWork, Setting, Deleting
  <2>2. /\ BoxesStay(r) /\ BoxHasGrant' /\ SenderRemains'
        /\ connection' \in [Accounts -> 0..MaxConsents]
        /\ boundTo' \in [Addresses -> Accounts \cup {Nil}]
    BY <1>t, <1>2, <1>7, <2>1, GrantGoes DEF MailInv
  <2>3. QED BY <1>t, <1>2, <1>3, <1>5, <2>2, EndStep DEF MailTypeOK
<1>8. QED BY <1>6, <1>7

-----------------------------------------------------------------------------
(* disconnectConnection.                                                   *)
LEMMA DisconnectStep ==
    ASSUME MailConstants, MailInv, NEW r \in MailRequests, NEW a \in Accounts,
           DisconnectRead(r, a)
    PROVE  MailInv'
<1>1. PICK x : x = [NoMailWork EXCEPT !.pc = "delete", !.account = a, !.seen = connection[a],
                                      !.flag = \E e \in BoxesOf(a) : isPrimary[e]]
  OBVIOUS
<1>2. /\ Goes(r, x) /\ UNCHANGED <<mailKinds, boxVars>> /\ "disconnect" \in mailKinds
  BY <1>1 DEF DisconnectRead, Start, Goes
<1>3. connection[a] \in Nat /\ (\E e \in BoxesOf(a) : isPrimary[e]) \in BOOLEAN
  BY DEF MailInv, MailTypeOK, MailConstants
<1>4. x \in MailWork /\ x.pc = "delete" /\ x.account = a /\ x.deleting = {}
  BY <1>1, <1>3 DEF NoMailWork, MailWork, MailPcs
<1>5. TaskOK(x)
  BY <1>2, <1>4 DEF TaskOK, TaskShape, DeletesItsBoxes, ClearsAll, SeesBox, Connecting,
     Setting, Deleting
<1>6. QED BY <1>2, <1>4, <1>5, WorkStep

LEMMA DeleteStep ==
    ASSUME MailConstants, MailInv, NEW r \in MailRequests, DeleteGrant(r)
    PROVE  MailInv'
<1>0. PICK t : t = mailWork[r] OBVIOUS
<1>t. MailTypeOK /\ t \in MailWork /\ TaskOK(t)
  BY <1>0, RequestIs DEF MailInv
<1>1. PICK a, gone : a = t.account /\ gone = BoxesOf(a) OBVIOUS
<1>2. /\ t.pc = "delete" /\ "disconnect" \in mailKinds /\ a \in Accounts
      /\ gone \cap HeldByOther(r) = {} /\ gone \in SUBSET Addresses
  BY <1>t, <1>0, <1>1 DEF DeleteGrant, TaskOK, TaskShape, BoxesOf, Boxes
<1>3. UNCHANGED <<mailKinds, boxId, made>> BY DEF DeleteGrant
<1>4. CASE Ends(r) /\ UNCHANGED <<connection, boundTo, isPrimary>>
  BY <1>3, <1>4, WorkEnds DEF boxVars
<1>5. CASE /\ Goes(r, [t EXCEPT !.pc = "promote", !.deleting = gone])
           /\ UNCHANGED <<connection, boundTo, isPrimary>>
  <2>1. PICK x : x = [t EXCEPT !.pc = "promote", !.deleting = gone] OBVIOUS
  <2>2. x \in MailWork /\ x.pc = "promote" /\ x.account = a /\ x.deleting = gone
    BY <1>t, <1>1, <1>2, <2>1 DEF MailWork, MailPcs
  <2>3. a # Nil BY <1>2 DEF MailConstants
  <2>4. TaskOK(x)
    BY <1>1, <1>2, <2>2, <2>3 DEF TaskOK, TaskShape, DeletesItsBoxes, ClearsAll, SeesBox,
       Connecting, Setting, Deleting
  <2>5. Goes(r, x) /\ UNCHANGED <<mailKinds, boxVars>> BY <1>3, <1>5, <2>1 DEF boxVars
  <2>6. QED BY <1>2, <2>2, <2>4, <2>5, WorkStep
<1>6. CASE /\ connection' = [connection EXCEPT ![a] = 0]
           /\ boundTo' = [e \in Addresses |-> IF e \in gone THEN Nil ELSE boundTo[e]]
           /\ isPrimary' = [e \in Addresses |-> e \notin gone /\ isPrimary[e]]
           /\ Ends(r)
  <2>1. /\ BoxesStay(r) /\ BoxHasGrant' /\ SenderRemains' /\ Boxes' = Boxes \ gone
        /\ connection' \in [Accounts -> 0..MaxConsents]
        /\ boundTo' \in [Addresses -> Accounts \cup {Nil}]
    BY <1>t, <1>1, <1>2, <1>3, <1>6, GrantGoes DEF MailInv
  <2>2. isPrimary' \in [Addresses -> BOOLEAN]
    <3>1. \A e \in Addresses : (e \notin gone /\ isPrimary[e]) \in BOOLEAN OBVIOUS
    <3>2. QED BY <1>6, <3>1
  <2>3. Primaries' \subseteq Primaries BY <1>6, <2>1 DEF Primaries, Boxes
  <2>4. SenderIsOne' BY <1>3, <2>3 DEF MailInv, SenderIsOne
  <2>5. QED BY <1>t, <1>3, <1>6, <2>1, <2>2, <2>4, EndStep DEF MailTypeOK
<1>7. QED BY <1>0, <1>1, <1>4, <1>5, <1>6 DEF DeleteGrant

LEMMA PromoteStep ==
    ASSUME MailConstants, MailInv, NEW r \in MailRequests, NEW e \in Addresses, PromoteFind(r, e)
    PROVE  MailInv'
<1>0. PICK t : t = mailWork[r] OBVIOUS
<1>t. t \in MailWork /\ TaskOK(t) /\ t.deleting \cap HeldByOther(r) = {}
  BY <1>0, RequestIs
<1>1. PICK x : x = [t EXCEPT !.pc = "clear", !.address = e, !.seen = boxId[e]] OBVIOUS
<1>2. /\ Goes(r, x) /\ UNCHANGED <<mailKinds, boxVars>> /\ t.pc = "promote"
  BY <1>0, <1>1 DEF PromoteFind
<1>3. boxId[e] \in Nat BY DEF MailInv, MailTypeOK, MailConstants
<1>4. /\ x \in MailWork /\ x.pc = "clear" /\ x.account = t.account
      /\ x.deleting = t.deleting /\ x.address = e
  BY <1>t, <1>1, <1>3 DEF MailWork, MailPcs
<1>5. "disconnect" \in mailKinds BY <1>t, <1>2 DEF TaskOK, TaskShape
<1>6. TaskOK(x)
  BY <1>t, <1>2, <1>4, <1>5 DEF TaskOK, TaskShape, DeletesItsBoxes, ClearsAll, SeesBox,
     Connecting, Setting, Deleting
<1>7. QED BY <1>t, <1>2, <1>4, <1>6, WorkStep

LEMMA PromoteNoneStep ==
    ASSUME MailConstants, MailInv, NEW r \in MailRequests, PromoteNone(r)
    PROVE  MailInv'
<1>0. PICK t : t = mailWork[r] OBVIOUS
<1>t. MailTypeOK /\ t \in MailWork /\ TaskOK(t)
  BY <1>0, RequestIs DEF MailInv
<1>1. /\ t.pc = "promote" /\ Ends(r) /\ UNCHANGED <<mailKinds, boxId, made>>
      /\ connection' = [connection EXCEPT ![t.account] = 0]
      /\ boundTo' = [e \in Addresses |-> IF e \in t.deleting THEN Nil ELSE boundTo[e]]
      /\ isPrimary' = [e \in Addresses |-> e \notin t.deleting /\ isPrimary[e]]
  BY <1>0 DEF PromoteNone
<1>2. "disconnect" \in mailKinds /\ t.account \in Accounts /\ t.account # Nil
  BY <1>t, <1>1 DEF TaskOK, TaskShape, MailConstants
<1>3. BoxesOf(t.account) \subseteq t.deleting /\ t.deleting \in SUBSET Addresses
  BY <1>t, <1>1, <1>2 DEF TaskOK, DeletesItsBoxes, Deleting, MailWork
<1>4. /\ BoxesStay(r) /\ BoxHasGrant' /\ SenderRemains' /\ Boxes' = Boxes \ t.deleting
      /\ connection' \in [Accounts -> 0..MaxConsents]
      /\ boundTo' \in [Addresses -> Accounts \cup {Nil}]
  BY <1>t, <1>1, <1>2, <1>3, GrantGoes DEF MailInv
<1>5. isPrimary' \in [Addresses -> BOOLEAN]
  <2>1. \A e \in Addresses : (e \notin t.deleting /\ isPrimary[e]) \in BOOLEAN OBVIOUS
  <2>2. QED BY <1>1, <2>1
<1>6. Primaries' \subseteq Primaries BY <1>1, <1>4 DEF Primaries, Boxes
<1>7. SenderIsOne' BY <1>1, <1>6 DEF MailInv, SenderIsOne
<1>8. QED BY <1>t, <1>1, <1>4, <1>5, <1>7, EndStep DEF MailTypeOK

-----------------------------------------------------------------------------
LEMMA MailStart ==
    ASSUME MailConstants, MailInit PROVE MailInv
<1> USE DEF MailConstants
<1>1. PICK first \in FirstSets, sender \in Addresses :
          /\ connection = [a \in Accounts |-> IF a \in first THEN 1 ELSE 0]
          /\ boundTo = [e \in Addresses |->
                IF \E a \in first : AddressOf[a] = e
                THEN CHOOSE a \in first : AddressOf[a] = e ELSE Nil]
          /\ boxId = [e \in Addresses |-> IF boundTo[e] = Nil THEN 0 ELSE 1]
          /\ isPrimary = [e \in Addresses |-> e = sender /\ boundTo[e] # Nil]
          /\ first # {} => boundTo[sender] # Nil
  BY DEF MailInit
<1>2. mailKinds \in MailKindSets /\ made = 1 /\ \A r \in MailRequests : mailWork[r] = NoMailWork
  BY DEF MailInit
<1>3. \A e \in Addresses : boundTo[e] # Nil => boundTo[e] \in first
  BY <1>1
<1>4. boundTo \in [Addresses -> Accounts \cup {Nil}] BY <1>1, <1>3
<1>5. isPrimary \in [Addresses -> BOOLEAN]
  <2>1. \A e \in Addresses : (e = sender /\ boundTo[e] # Nil) \in BOOLEAN OBVIOUS
  <2>2. QED BY <1>1, <2>1
<1>6. mailWork \in [MailRequests -> MailWork] BY RestIsOK DEF MailInit
<1>7. \A q, r \in MailRequests : q # r => mailWork[q].deleting \cap mailWork[r].deleting = {}
  BY <1>2, RestIsOK
<1>8. connection \in [Accounts -> 0..MaxConsents] /\ boxId \in [Addresses -> 0..MaxConsents]
      /\ made \in 1..MaxConsents
  BY <1>1, <1>2
<1>9. MailTypeOK BY <1>2, <1>4, <1>5, <1>6, <1>7, <1>8 DEF MailTypeOK
<1>10. SenderIsOne BY <1>1 DEF SenderIsOne, Primaries, Boxes
<1>11. SenderRemains
  <2>1. Boxes # {} => first # {} BY <1>3 DEF Boxes
  <2>2. first # {} => sender \in Primaries BY <1>1 DEF Primaries, Boxes
  <2>3. QED BY <2>1, <2>2 DEF SenderRemains
<1>12. BoxHasGrant BY <1>1, <1>3 DEF BoxHasGrant, Boxes
<1>13. \A r \in MailRequests : TaskOK(mailWork[r]) BY <1>2, RestIsOK
<1>14. QED BY <1>9, <1>10, <1>11, <1>12, <1>13 DEF MailInv

LEMMA MailStepKeeps ==
    ASSUME MailConstants, MailInv, [MailNext]_mailVars PROVE MailInv'
<1>1. CASE UNCHANGED mailVars
  BY <1>1 DEF mailVars, boxVars, MailInv, MailTypeOK, SenderIsOne, SenderRemains, BoxHasGrant,
     Boxes, Primaries, BoxesOf, TaskOK, TaskShape, DeletesItsBoxes, ClearsAll, SeesBox
<1>2. ASSUME NEW r \in MailRequests, MailStep(r) PROVE MailInv'
  BY <1>2, FindStep, CreateStep, RebindStep, ClearStep, SetStep, DeleteStep, PromoteStep,
     PromoteNoneStep, WorkEnds
  DEF MailStep, RolledBack
<1>3. QED BY <1>1, <1>2, UpsertStep, DisconnectStep, SwitchStep DEF MailNext

LEMMA MailHolds == MailConstants => (MailSpec => []MailInv)
<1> SUFFICES ASSUME MailConstants PROVE MailSpec => []MailInv OBVIOUS
<1>1. MailInit => MailInv BY MailStart
<1>2. MailInv /\ [MailNext]_mailVars => MailInv' BY MailStepKeeps
<1>3. QED BY <1>1, <1>2, PTL DEF MailSpec

(* Grants, mailboxes and requests keep the shape the schema and the        *)
(* routes give them, and no two transactions delete one mailbox.           *)
THEOREM MailTyped == MailConstants => (MailSpec => []MailTypeOK)
<1>1. MailInv => MailTypeOK BY DEF MailInv
<1>2. QED BY <1>1, MailHolds, PTL

(* A rep with mailboxes can send from one of them, whatever number of      *)
(* consents, switches and disconnects overlap: one sender at most where no *)
(* first consent races another, one at least where nothing is disconnected,*)
(* and a grant behind each mailbox (mailAccounts.ts, oauthConnections.ts). *)
THEOREM RepCanSend == MailConstants => (MailSpec => []CanSend)
<1>1. MailInv => OneSender
  <2>1. SUFFICES ASSUME MailInv, "connect" \notin mailKinds PROVE Cardinality(Primaries) <= 1
    BY DEF OneSender
  <2>2. CASE Primaries = {}
    BY <2>2, FS_EmptySet
  <2>3. CASE Primaries # {}
    <3>1. PICK e \in Primaries : TRUE BY <2>3
    <3>2. Primaries = {e} BY <2>1, <3>1 DEF MailInv, SenderIsOne
    <3>3. QED BY <3>2, FS_Singleton
  <2>4. QED BY <2>2, <2>3
<1>2. MailInv => CanSend BY <1>1 DEF MailInv, CanSend
<1>3. QED BY <1>2, MailHolds, PTL

(***************************************************************************)
(* The grants.                                                             *)
(***************************************************************************)

(* What a request that has read the row knows of it.                       *)
TasksKnow ==
    \A r \in GrantRequests :
       /\ grantWork[r].pc = "idle" => grantWork[r].kind = "none"
       /\ grantWork[r].pc \notin {"idle", "save"} => grantWork[r].seen # 0
       /\ grantWork[r].pc \notin {"idle", "probe", "verdict"} => grantWork[r].token # 0
       /\ grantWork[r].pc = "verdict" => grantWork[r].verdict # "none"

(* Where nobody but the shared promise refreshes: who trades the stored    *)
(* token is alone, what it got is the one token the provider accepts until *)
(* it is stored, and who is about to write "revoked" has seen the grant    *)
(* dead.                                                                   *)
RefreshesAlone == grantKinds \cap {"force", "consent"} = {}
TaskIsAlone(r) ==
    /\ grantWork[r].pc # "save"
    /\ grantWork[r].pc \in {"trade", "store", "mark"} => inFlight = r
    /\ rowId # 0 =>
          /\ grantWork[r].pc # "idle" => grantWork[r].seen = 1
          /\ grantWork[r].pc = "trade" => grantWork[r].token = stored
          /\ grantWork[r].pc = "store" => valid \subseteq {grantWork[r].token}
          /\ grantWork[r].pc = "mark" => valid = {}
          /\ grantWork[r].pc = "verdict" /\ grantWork[r].verdict = "revoked" => valid = {}
StoredIsValid ==
    rowId # 0 /\ (\A r \in GrantRequests : grantWork[r].pc # "store") => valid \subseteq {stored}
AloneInv ==
    /\ rows = 1 /\ StoredIsValid
    /\ status = "revoked" => valid = {}
    /\ \A r \in GrantRequests : TaskIsAlone(r)

GrantInv == GrantTypeOK /\ TasksKnow /\ (RefreshesAlone => AloneInv)

-----------------------------------------------------------------------------
LEMMA NoWorkType == GrantConstants => NoGrantWork \in GrantWork
BY DEF NoGrantWork, GrantWork, GrantKinds, Statuses, Scopes, GrantConstants

LEMMA GrantStart == ASSUME GrantConstants, GrantsInit PROVE GrantInv
<1>1. GrantTypeOK
  <2>1. grantWork \in [GrantRequests -> GrantWork] BY NoWorkType DEF GrantsInit
  <2>2. status \in {"connected", "limited"} BY DEF GrantsInit, StatusFor
  <2>3. rows \in 1..MaxRows /\ stored \in 1..MaxTokens /\ minted \in 1..MaxTokens
        /\ valid \subseteq 1..MaxTokens
    BY DEF GrantsInit, GrantConstants
  <2>4. status \in Statuses /\ status # "none" BY <2>2 DEF Statuses
  <2>5. rowId = rows /\ rowId # 0 /\ inFlight = NoRefresh BY DEF GrantsInit
  <2>a. fresh \in BOOLEAN /\ rotates \in BOOLEAN BY DEF GrantsInit
  <2>6. QED BY <2>1, <2>3, <2>4, <2>5, <2>a DEF GrantsInit, GrantTypeOK
<1>2. TasksKnow BY DEF GrantsInit, TasksKnow, NoGrantWork
<1>3. AloneInv
  BY DEF GrantsInit, AloneInv, StoredIsValid, TaskIsAlone, NoGrantWork, StatusFor, Scopes
<1>4. QED BY <1>1, <1>2, <1>3 DEF GrantInv

(* A request that begins has read the row.                                 *)
LEMMA StartsType ==
    ASSUME GrantConstants, GrantTypeOK, TasksKnow, rowId # 0, NEW r \in GrantRequests,
           NEW kind \in GrantKinds, NEW pc \in {"trade", "probe"}, GrantStarts(r, kind, pc)
    PROVE  /\ grantWork' \in [GrantRequests -> GrantWork] /\ TasksKnow'
           /\ grantWork'[r].kind = kind
           /\ \A q \in GrantRequests \ {r} : grantWork'[q] = grantWork[q]
<1> DEFINE new == [NoGrantWork EXCEPT !.pc = pc, !.kind = kind, !.seen = rowId,
                                      !.token = stored, !.report = scopes]
<1>1. new.pc = pc /\ new.kind = kind /\ new.seen = rowId /\ new.token = stored
  BY DEF NoGrantWork
<1>2. rowId \in 0..MaxRows /\ stored \in 0..MaxTokens /\ stored # 0
  BY DEF GrantTypeOK, GrantConstants
<1>3. new \in GrantWork
  BY <1>2, NoWorkType DEF GrantWork, GrantTypeOK
<1> HIDE DEF new
<1>4. grantWork' = [grantWork EXCEPT ![r] = new] BY DEF GrantStarts, new
<1>5. grantWork \in [GrantRequests -> GrantWork] BY DEF GrantTypeOK
<1>6. QED BY <1>1, <1>2, <1>3, <1>4, <1>5 DEF TasksKnow

(* One that ends has forgotten everything.                                 *)
LEMMA SettlesType ==
    ASSUME GrantConstants, GrantTypeOK, TasksKnow, NEW r \in GrantRequests, Settles(r)
    PROVE  /\ grantWork' \in [GrantRequests -> GrantWork] /\ TasksKnow'
           /\ inFlight' \in GrantRequests \cup {NoRefresh}
           /\ inFlight' # NoRefresh => inFlight' = inFlight /\ inFlight' # r
           /\ inFlight' # NoRefresh => grantWork'[inFlight'].kind = "lazy"
           /\ grantWork'[r].pc = "idle"
           /\ \A q \in GrantRequests \ {r} : grantWork'[q] = grantWork[q]
<1>1. grantWork' = [grantWork EXCEPT ![r] = NoGrantWork] BY DEF Settles
<1>2. NoGrantWork \in GrantWork BY NoWorkType
<1>3. NoGrantWork.pc = "idle" /\ NoGrantWork.kind = "none" BY DEF NoGrantWork
<1>4. grantWork \in [GrantRequests -> GrantWork] BY DEF GrantTypeOK
<1>5. QED BY <1>1, <1>2, <1>3, <1>4 DEF TasksKnow, Settles, GrantTypeOK

(* What the provider answers.                                              *)
LEMMA TradeType ==
    ASSUME GrantConstants, GrantTypeOK, TasksKnow, NEW r \in GrantRequests, Trade(r)
    PROVE  GrantTypeOK' /\ TasksKnow'
<1> USE DEF rowVars, providerVars
<1> DEFINE got == IF rotates THEN minted + 1 ELSE grantWork[r].token
<1>0. grantWork[r] \in GrantWork /\ grantWork[r].seen # 0 /\ grantWork[r].token # 0
  BY DEF GrantTypeOK, TasksKnow, Trade
<1>1. CASE grantWork[r].token \in valid
  <2>1. got \in 1..MaxTokens BY <1>0, <1>1 DEF Trade, GrantTypeOK, GrantConstants, GrantWork
  <2> HIDE DEF got
  <2>2. grantWork' = [grantWork EXCEPT ![r].pc = "store", ![r].token = got, ![r].report = allows]
        /\ valid' = (valid \ {grantWork[r].token}) \cup {got}
        /\ minted' \in 1..MaxTokens
    BY <1>1, <2>1 DEF Trade, GrantTypeOK, got
  <2> DEFINE new == [grantWork[r] EXCEPT !.pc = "store", !.token = got, !.report = allows]
  <2>3. grantWork' \in [GrantRequests -> GrantWork]
    <3>1. got \in 0..MaxTokens /\ allows \in Scopes BY <2>1 DEF GrantTypeOK
    <3>2. new \in GrantWork BY <1>0, <3>1 DEF GrantWork
    <3>3. grantWork' = [grantWork EXCEPT ![r] = new] BY <2>2 DEF GrantTypeOK
    <3> HIDE DEF new
    <3>4. QED BY <3>2, <3>3 DEF GrantTypeOK
  <2> HIDE DEF new
  <2>4. TasksKnow' BY <1>0, <2>1, <2>2 DEF TasksKnow, GrantTypeOK, GrantWork
  <2>5. \A q \in GrantRequests : grantWork'[q].kind = grantWork[q].kind
    BY <2>2 DEF GrantTypeOK, GrantWork
  <2>6. QED BY <2>1, <2>2, <2>3, <2>4, <2>5 DEF Trade, GrantTypeOK
<1>2. CASE grantWork[r].token \notin valid
  BY <1>0, <1>2 DEF Trade, GrantTypeOK, TasksKnow, GrantWork
<1>3. QED BY <1>1, <1>2

(* Each variable keeps its type, and a request knows what it has read.     *)
LEMMA GrantTypeStep ==
    ASSUME GrantConstants, GrantTypeOK, TasksKnow, [GrantNext]_grantVars
    PROVE  GrantTypeOK' /\ TasksKnow'
<1> USE DEF rowVars, providerVars
<1>1. ASSUME NEW r \in GrantRequests, LazyRead(r) \/ ForceRead(r) \/ TestRead(r)
      PROVE  GrantTypeOK' /\ TasksKnow'
  <2>1. PICK kind \in {"lazy", "force", "test"} :
            \E pc \in {"trade", "probe"} : rowId # 0 /\ GrantStarts(r, kind, pc)
    BY <1>1 DEF LazyRead, ForceRead, TestRead
  <2>2. /\ grantWork' \in [GrantRequests -> GrantWork] /\ TasksKnow'
        /\ \A q \in GrantRequests \ {r} : grantWork'[q] = grantWork[q]
    BY <2>1, StartsType DEF GrantKinds
  <2>3. LazyRead(r) => grantWork'[r].kind = "lazy"
    BY StartsType DEF LazyRead, GrantKinds
  <2>4. inFlight # r
    BY <2>1 DEF GrantStarts, GrantTypeOK, GrantConstants, TasksKnow
  <2>5. QED BY <1>1, <2>2, <2>3, <2>4 DEF LazyRead, ForceRead, TestRead, GrantTypeOK
<1>2. ASSUME NEW r \in GrantRequests, Trade(r) PROVE GrantTypeOK' /\ TasksKnow'
  BY <1>2, TradeType
<1>3. ASSUME NEW r \in GrantRequests,
             TradeBlips(r) \/ Store(r) \/ MarkRevoked(r) \/ TestWrite(r) \/ ConsentSave(r)
      PROVE  GrantTypeOK' /\ TasksKnow'
  <2>1. Settles(r) BY <1>3 DEF TradeBlips, Store, MarkRevoked, TestWrite, ConsentSave
  <2>2. /\ grantWork' \in [GrantRequests -> GrantWork] /\ TasksKnow'
        /\ inFlight' \in GrantRequests \cup {NoRefresh}
        /\ inFlight' # NoRefresh => grantWork'[inFlight'].kind = "lazy"
    BY <2>1, SettlesType
  <2>3. grantWork[r] \in GrantWork BY DEF GrantTypeOK
  <2>4. CASE TradeBlips(r) BY <2>2, <2>4 DEF TradeBlips, GrantTypeOK
  <2>5. CASE Store(r)
    <3>1. grantWork[r].seen # 0 /\ grantWork[r].token \in 1..MaxTokens
      BY <2>3, <2>5 DEF Store, TasksKnow, GrantWork, GrantConstants
    <3>2. StatusFor(grantWork[r].report) \in Statuses \ {"none"} BY DEF StatusFor, Statuses
    <3>3. grantWork[r].report \in Scopes BY <2>3 DEF GrantWork
    <3>4. CASE rowId = grantWork[r].seen
      <4>1. rowId # 0 /\ status # "none" BY <3>1, <3>4 DEF GrantTypeOK
      <4>2. status' \in Statuses \ {"none"} BY <2>5, <3>2, <3>4, <4>1 DEF Store, GrantTypeOK
      <4>3. scopes' \in Scopes BY <2>5, <3>3, <3>4 DEF Store, GrantTypeOK
      <4>4. QED BY <2>2, <2>5, <3>1, <3>4, <4>1, <4>2, <4>3 DEF Store, GrantTypeOK
    <3>5. CASE rowId # grantWork[r].seen BY <2>2, <2>5, <3>5 DEF Store, GrantTypeOK
    <3>6. QED BY <3>4, <3>5
  <2>6. CASE MarkRevoked(r)
    BY <2>2, <2>6 DEF MarkRevoked, GrantTypeOK, TasksKnow, Statuses
  <2>7. CASE TestWrite(r)
    BY <2>2, <2>3, <2>7 DEF TestWrite, GrantTypeOK, TasksKnow, GrantWork
  <2>8. CASE ConsentSave(r)
    <3>1. grantWork[r].token \in 1..MaxTokens
      BY <2>3, <2>8 DEF ConsentSave, TasksKnow, GrantWork, GrantConstants
    <3>2. StatusFor(grantWork[r].report) \in Statuses \ {"none"} BY DEF StatusFor, Statuses
    <3>3. rows' \in 1..MaxRows /\ rowId' = rows'
      BY <2>8 DEF ConsentSave, GrantTypeOK, GrantConstants
    <3>4. QED
      BY <2>2, <2>3, <2>8, <3>1, <3>2, <3>3
      DEF ConsentSave, GrantTypeOK, GrantWork, GrantConstants
  <2>9. QED BY <1>3, <2>4, <2>5, <2>6, <2>7, <2>8
<1>4. ASSUME NEW r \in GrantRequests, NEW verdict \in Statuses, Probe(r, verdict)
      PROVE  GrantTypeOK' /\ TasksKnow'
  <2>1. grantWork' = [grantWork EXCEPT ![r].pc = "verdict", ![r].verdict = verdict]
        /\ verdict # "none" /\ grantWork[r].pc = "probe"
    BY <1>4 DEF Probe, StatusFor
  <2>2. grantWork' \in [GrantRequests -> GrantWork]
    <3>1. [grantWork[r] EXCEPT !.pc = "verdict", !.verdict = verdict] \in GrantWork
      BY DEF GrantTypeOK, GrantWork
    <3>2. QED BY <2>1, <3>1 DEF GrantTypeOK
  <2>3. TasksKnow' /\ \A q \in GrantRequests : grantWork'[q].kind = grantWork[q].kind
    BY <2>1 DEF TasksKnow, GrantTypeOK, GrantWork
  <2>4. inFlight' # NoRefresh => grantWork'[inFlight'].kind = "lazy"
    BY <1>4, <2>3 DEF Probe, GrantTypeOK
  <2>5. QED BY <1>4, <2>2, <2>3, <2>4 DEF Probe, GrantTypeOK
<1>5. ASSUME NEW r \in GrantRequests, NEW granted \in Scopes, ConsentExchange(r, granted)
      PROVE  GrantTypeOK' /\ TasksKnow'
  <2> DEFINE new == [NoGrantWork EXCEPT !.pc = "save", !.kind = "consent", !.token = minted + 1,
                                        !.report = granted]
  <2>1. minted + 1 \in 1..MaxTokens BY <1>5 DEF ConsentExchange, GrantTypeOK, GrantConstants
  <2>2. new.pc = "save" /\ new.token # 0 BY <2>1 DEF NoGrantWork
  <2>3. new \in GrantWork
    <3> DEFINE minting == minted + 1
    <3>1. minting \in 0..MaxTokens BY <2>1
    <3> HIDE DEF minting
    <3>2. [NoGrantWork EXCEPT !.pc = "save", !.kind = "consent", !.token = minting,
                              !.report = granted] \in GrantWork
      BY <3>1, NoWorkType DEF GrantWork, GrantKinds
    <3>3. QED BY <3>2 DEF minting
  <2>4. grantWork' = [grantWork EXCEPT ![r] = new] /\ grantWork[r].pc = "idle"
    BY <1>5 DEF ConsentExchange
  <2> HIDE DEF new
  <2>5. grantWork' \in [GrantRequests -> GrantWork] BY <2>3, <2>4 DEF GrantTypeOK
  <2>6. TasksKnow' BY <2>2, <2>4 DEF TasksKnow, GrantTypeOK
  <2>7. inFlight # r BY <2>4 DEF TasksKnow, GrantTypeOK, GrantConstants
  <2>8. inFlight' # NoRefresh => grantWork'[inFlight'].kind = "lazy"
    BY <1>5, <2>4, <2>7 DEF ConsentExchange, GrantTypeOK
  <2>9. QED BY <1>5, <2>1, <2>5, <2>6, <2>8 DEF ConsentExchange, GrantTypeOK
<1>6. CASE ConsentFails \/ Disconnect \/ Revoke \/ AccessExpires \/ AdminGrants
  <2>1. CASE ConsentFails \/ Disconnect
    BY <2>1 DEF GrantTypeOK, TasksKnow, ConsentFails, Disconnect, Statuses, Scopes
  <2>2. CASE Revoke \/ AccessExpires \/ AdminGrants
    BY <2>2 DEF GrantTypeOK, TasksKnow, Revoke, AccessExpires, AdminGrants, Statuses, Scopes
  <2>3. QED BY <1>6, <2>1, <2>2
<1>7. CASE UNCHANGED grantVars BY <1>7 DEF GrantTypeOK, TasksKnow, grantVars
<1>8. QED BY <1>1, <1>2, <1>3, <1>4, <1>5, <1>6, <1>7 DEF GrantNext, Answer

-----------------------------------------------------------------------------
(* Refreshes that share one promise, probes, removals and revocations.     *)
LEMMA AloneStep ==
    ASSUME GrantConstants, GrantTypeOK, TasksKnow, RefreshesAlone, AloneInv,
           [GrantNext]_grantVars
    PROVE  AloneInv'
<1> USE DEF rowVars, providerVars
<1>1. "force" \notin grantKinds /\ "consent" \notin grantKinds BY DEF RefreshesAlone
<1>2. rowId \in {0, 1} /\ rows = 1 BY DEF GrantTypeOK, AloneInv
<1>3. ASSUME NEW r \in GrantRequests, LazyRead(r) \/ TestRead(r) PROVE AloneInv'
  <2>1. PICK kind \in {"lazy", "test"} : \E pc \in {"trade", "probe"} :
            rowId # 0 /\ GrantStarts(r, kind, pc) /\ grantWork[r].pc = "idle"
    BY <1>3 DEF LazyRead, TestRead, GrantStarts
  <2>2. \A q \in GrantRequests \ {r} : grantWork'[q] = grantWork[q]
    BY <2>1 DEF GrantStarts, GrantTypeOK
  <2>3. /\ grantWork'[r].pc \in {"trade", "probe"} /\ grantWork'[r].seen = rowId
        /\ grantWork'[r].token = stored
        /\ LazyRead(r) => inFlight' = r
        /\ TestRead(r) => grantWork'[r].pc = "probe"
    BY <1>3 DEF LazyRead, TestRead, GrantStarts, GrantTypeOK, NoGrantWork
  <2>4. inFlight' = inFlight \/ inFlight = NoRefresh BY <1>3 DEF LazyRead, TestRead
  <2>5. UNCHANGED <<rowId, rows, status, stored, valid>> BY <1>3 DEF LazyRead, TestRead
  <2>6. ASSUME NEW q \in GrantRequests PROVE TaskIsAlone(q)'
    <3>1. CASE q = r
      BY <1>2, <1>3, <2>1, <2>3, <2>5, <3>1 DEF TaskIsAlone, AloneInv, GrantConstants
    <3>2. CASE q # r
      BY <1>2, <1>3, <2>1, <2>2, <2>4, <2>5, <3>2 DEF TaskIsAlone, AloneInv, GrantConstants
    <3>3. QED BY <3>1, <3>2
  <2>7. (\A q \in GrantRequests : grantWork'[q].pc # "store")
            => \A q \in GrantRequests : grantWork[q].pc # "store"
    BY <2>1, <2>2
  <2>8. QED BY <2>5, <2>6, <2>7 DEF AloneInv, StoredIsValid
<1>4. ASSUME NEW r \in GrantRequests, Trade(r) PROVE AloneInv'
  <2> DEFINE t == grantWork[r].token
  <2>1. inFlight = r /\ \A q \in GrantRequests \ {r} :
            grantWork[q].pc \notin {"trade", "store", "mark", "save"}
    BY <1>4 DEF Trade, AloneInv, TaskIsAlone
  <2>2. rowId # 0 => t = stored /\ valid \subseteq {stored}
    BY <1>4, <2>1 DEF Trade, AloneInv, TaskIsAlone, StoredIsValid
  <2>3. /\ \A q \in GrantRequests \ {r} : grantWork'[q] = grantWork[q]
        /\ UNCHANGED <<rowId, rows, status, stored, inFlight>>
        /\ grantWork'[r].seen = grantWork[r].seen
    BY <1>4 DEF Trade, GrantTypeOK, GrantWork
  <2>4. CASE t \in valid
    <3>1. /\ grantWork'[r].pc = "store"
          /\ rowId # 0 => valid' = {grantWork'[r].token}
      BY <1>4, <2>2, <2>4 DEF Trade, GrantTypeOK, GrantWork
    <3>2. TaskIsAlone(r)' BY <1>4, <2>1, <2>3, <3>1 DEF TaskIsAlone, AloneInv, Trade
    <3>3. ASSUME NEW q \in GrantRequests \ {r} PROVE TaskIsAlone(q)'
      BY <2>1, <2>3, <2>4 DEF TaskIsAlone, AloneInv
    <3>4. status' # "revoked" BY <2>3, <2>4 DEF AloneInv
    <3>5. QED BY <2>3, <3>1, <3>2, <3>3, <3>4 DEF AloneInv, StoredIsValid
  <2>5. CASE t \notin valid
    <3>1. /\ grantWork'[r].pc = "mark" /\ valid' = valid
          /\ rowId # 0 => valid = {}
      BY <1>4, <2>2, <2>5 DEF Trade, GrantTypeOK, GrantWork
    <3>2. TaskIsAlone(r)' BY <1>4, <2>1, <2>3, <3>1 DEF TaskIsAlone, AloneInv, Trade
    <3>3. ASSUME NEW q \in GrantRequests \ {r} PROVE TaskIsAlone(q)'
      BY <2>3, <3>1 DEF TaskIsAlone, AloneInv
    <3>4. QED BY <2>3, <3>1, <3>2, <3>3 DEF AloneInv, StoredIsValid
  <2>6. QED BY <2>4, <2>5
<1>5. ASSUME NEW r \in GrantRequests,
             TradeBlips(r) \/ Store(r) \/ MarkRevoked(r) \/ TestWrite(r) \/ ConsentSave(r)
      PROVE  AloneInv'
  <2>1. Settles(r) BY <1>5 DEF TradeBlips, Store, MarkRevoked, TestWrite, ConsentSave
  <2>2. /\ grantWork'[r].pc = "idle"
        /\ \A q \in GrantRequests \ {r} : grantWork'[q] = grantWork[q]
        /\ inFlight' \in {inFlight, NoRefresh} /\ (inFlight # r => inFlight' = inFlight)
    BY <2>1, SettlesType DEF Settles
  <2>3. ~ConsentSave(r) BY DEF ConsentSave, AloneInv, TaskIsAlone
  <2>4. UNCHANGED <<rowId, rows, valid>>
    BY <1>5, <2>3 DEF TradeBlips, Store, MarkRevoked, TestWrite
  <2>5. CASE Store(r)
    <3>1. \A q \in GrantRequests \ {r} : grantWork[q].pc \notin {"trade", "store", "mark"}
      BY <2>5 DEF Store, AloneInv, TaskIsAlone
    <3>2. rowId # 0 => stored' = grantWork[r].token /\ valid \subseteq {grantWork[r].token}
      BY <1>2, <2>5 DEF Store, AloneInv, TaskIsAlone
    <3>3. status' = "revoked" => status = "revoked" BY <2>5 DEF Store, StatusFor
    <3>4. ASSUME NEW q \in GrantRequests PROVE TaskIsAlone(q)'
      BY <2>2, <2>4, <3>1 DEF TaskIsAlone, AloneInv
    <3>5. QED BY <2>4, <3>2, <3>3, <3>4 DEF AloneInv, StoredIsValid
  <2>6. CASE TradeBlips(r) \/ MarkRevoked(r) \/ TestWrite(r)
    <3>1. stored' = stored /\ grantWork[r].pc # "store"
      BY <2>6 DEF TradeBlips, MarkRevoked, TestWrite
    <3>2. status' = "revoked" => valid = {}
      <4>1. CASE TradeBlips(r) BY <4>1 DEF TradeBlips, AloneInv
      <4>2. CASE MarkRevoked(r)
        <5>1. rowId = grantWork[r].seen => rowId # 0 BY <4>2 DEF MarkRevoked, TasksKnow
        <5>2. QED BY <4>2, <5>1 DEF MarkRevoked, AloneInv, TaskIsAlone
      <4>3. CASE TestWrite(r)
        <5>1. rowId = grantWork[r].seen => rowId # 0 BY <4>3 DEF TestWrite, TasksKnow
        <5>2. QED BY <4>3, <5>1 DEF TestWrite, AloneInv, TaskIsAlone
      <4>4. QED BY <2>6, <4>1, <4>2, <4>3
    <3>3. ASSUME NEW q \in GrantRequests PROVE TaskIsAlone(q)'
      BY <2>2, <2>4, <3>1 DEF TaskIsAlone, AloneInv
    <3>4. (\A q \in GrantRequests : grantWork'[q].pc # "store")
              => \A q \in GrantRequests : grantWork[q].pc # "store"
      BY <2>2, <3>1
    <3>5. QED BY <2>4, <3>1, <3>2, <3>3, <3>4 DEF AloneInv, StoredIsValid
  <2>7. QED BY <1>5, <2>3, <2>5, <2>6
<1>6. ASSUME NEW r \in GrantRequests, NEW verdict \in Statuses, Probe(r, verdict)
      PROVE  AloneInv'
  <2>1. /\ grantWork[r].pc = "probe" /\ grantWork'[r].pc = "verdict"
        /\ grantWork'[r].verdict = verdict /\ grantWork'[r].seen = grantWork[r].seen
        /\ \A q \in GrantRequests \ {r} : grantWork'[q] = grantWork[q]
        /\ UNCHANGED <<rowId, rows, status, stored, valid, inFlight>>
    BY <1>6 DEF Probe, GrantTypeOK, GrantWork
  <2>2. ASSUME rowId # 0, verdict = "revoked" PROVE valid = {}
    <3>1. valid = {} \/ ~fresh BY <1>6, <2>2 DEF Probe, StatusFor
    <3>2. ASSUME ~fresh PROVE valid = {}
      <4>1. inFlight = NoRefresh /\ stored \notin valid BY <1>6, <3>2 DEF Probe
      <4>2. \A q \in GrantRequests : grantWork[q].pc # "store"
        BY <4>1 DEF AloneInv, TaskIsAlone, GrantConstants
      <4>3. QED BY <2>2, <4>1, <4>2 DEF AloneInv, StoredIsValid
    <3>3. QED BY <3>1, <3>2
  <2>3. TaskIsAlone(r)' BY <2>1, <2>2 DEF TaskIsAlone, AloneInv
  <2>4. ASSUME NEW q \in GrantRequests \ {r} PROVE TaskIsAlone(q)'
    BY <2>1 DEF TaskIsAlone, AloneInv
  <2>5. (\A q \in GrantRequests : grantWork'[q].pc # "store")
            => \A q \in GrantRequests : grantWork[q].pc # "store"
    BY <2>1
  <2>6. QED BY <2>1, <2>3, <2>4, <2>5 DEF AloneInv, StoredIsValid
<1>7. CASE Disconnect BY <1>7 DEF Disconnect, AloneInv, StoredIsValid, TaskIsAlone
<1>8. CASE Revoke BY <1>8 DEF Revoke, AloneInv, StoredIsValid, TaskIsAlone
<1>9. CASE AccessExpires \/ AdminGrants
  BY <1>9 DEF AccessExpires, AdminGrants, AloneInv, StoredIsValid, TaskIsAlone
<1>10. CASE UNCHANGED grantVars
  BY <1>10 DEF grantVars, AloneInv, StoredIsValid, TaskIsAlone
<1>11. QED
  BY <1>1, <1>3, <1>4, <1>5, <1>6, <1>7, <1>8, <1>9, <1>10
  DEF GrantNext, Answer, ForceRead, GrantStarts, ConsentExchange, ConsentFails

LEMMA GrantStep == ASSUME GrantConstants, GrantInv, [GrantNext]_grantVars PROVE GrantInv'
<1>1. GrantTypeOK' /\ TasksKnow' BY GrantTypeStep DEF GrantInv
<1>2. grantKinds' = grantKinds
  BY DEF GrantNext, Answer, LazyRead, ForceRead, TestRead, Trade, Store, MarkRevoked, TestWrite,
         TradeBlips, Probe, ConsentExchange, ConsentSave, ConsentFails, Disconnect, Revoke,
         AccessExpires, AdminGrants, grantVars
<1>3. RefreshesAlone' => AloneInv' BY <1>2, AloneStep DEF GrantInv, RefreshesAlone
<1>4. QED BY <1>1, <1>3 DEF GrantInv

LEMMA GrantWorks == GrantInv => GrantIsUsable
<1>1. ASSUME GrantInv, RefreshesAlone PROVE GrantIsUsable
  <2>1. AloneInv BY <1>1 DEF GrantInv
  <2>2. status = "revoked" => stored \notin valid BY <2>1 DEF AloneInv
  <2>3. ASSUME rowId # 0, valid # {}, stored \notin valid
        PROVE  \E r \in GrantRequests : grantWork[r].pc = "store" /\ grantWork[r].token \in valid
    BY <2>1, <2>3 DEF AloneInv, StoredIsValid, TaskIsAlone
  <2>4. QED BY <2>2, <2>3 DEF GrantIsUsable, RevokedIsDead, GrantIsKept
<1>2. QED BY <1>1 DEF GrantIsUsable, RevokedIsDead, GrantIsKept, RefreshesAlone

(* Only a consent makes a row.                                             *)
LEMMA RemovedStaysRemoved == [GrantNext]_grantVars => [GoneStaysGone]_grantVars
BY DEF GrantNext, Answer, LazyRead, ForceRead, TestRead, Trade, Store, MarkRevoked, TestWrite,
       TradeBlips, Probe, ConsentExchange, ConsentSave, ConsentFails, Disconnect, Revoke,
       AccessExpires, AdminGrants, grantVars, rowVars, providerVars, GoneStaysGone

LEMMA GrantsHold == GrantConstants => (GrantSpec => []GrantInv)
<1> SUFFICES ASSUME GrantConstants PROVE GrantSpec => []GrantInv OBVIOUS
<1>1. GrantsInit => GrantInv BY GrantStart
<1>2. GrantInv /\ [GrantNext]_grantVars => GrantInv' BY GrantStep
<1>3. QED BY <1>1, <1>2, PTL DEF GrantSpec

(* The row of a connection, the provider and the requests keep their types.*)
THEOREM GrantTyped == GrantConstants => (GrantSpec => []GrantTypeOK)
<1>1. GrantInv => GrantTypeOK BY DEF GrantInv
<1>2. QED BY <1>1, GrantsHold, PTL

(* The row says what the provider does: refreshes that share one promise   *)
(* neither lose the token that works nor call a working grant revoked, and *)
(* no answer that was under way brings back a connection that was removed  *)
(* (oauthConnections.ts).                                                  *)
THEOREM GrantRemainsUsable == GrantConstants => (GrantSpec => GrantStands)
<1> SUFFICES ASSUME GrantConstants PROVE GrantSpec => GrantStands OBVIOUS
<1>1. GrantInv /\ [GrantNext]_grantVars => GrantInv' BY GrantStep
<1>2. GrantInv' => GrantIsUsable' BY GrantWorks, PTL
<1>3. GrantInv /\ [GrantNext]_grantVars => [StaysUsable]_grantVars
  BY <1>1, <1>2, RemovedStaysRemoved DEF StaysUsable
<1>4. QED BY <1>3, GrantsHold, PTL DEF GrantSpec, GrantStands

(***************************************************************************)
(* The capture of mail.                                                    *)
(***************************************************************************)

(* Only what a behaviour has is at work, and an import at work has a page  *)
(* to read.                                                                *)
JobsAreOfIt ==
    /\ \A j \in CapKinds : capWork[j].pc # "idle" => j \in capKinds
    /\ capWork["import"].pc # "idle" => importAt > 0

(* A cursor has left nothing behind that is not in S: a paging one has     *)
(* nothing to read beyond what has arrived.                                *)
Covers(c, S) ==
    /\ c.mode = "delta" => 1..c.seed \subseteq S
    /\ c.mode = "paging" => c.below \in 1..arrived /\ c.below..c.seed \subseteq S
CursorInv ==
    LET task == capWork["sync"] IN
    /\ Covers(cursor, readOnce \cup cut)
    /\ task.page \cup task.beyond \subseteq 1..arrived
    /\ task.pc # "idle" => Covers(task.next, readOnce \cup cut \cup task.page \cup task.beyond)

(* Without the import a message has one row, by the key the sync gives it. *)
SyncsAlone == "import" \notin capKinds
RowIsOne ==
    \A m \in Mail : row[<<m, 2>>] = "none" /\ (row[<<m, 1>>] # "none" => key[<<m, 1>>] = "sync")
KeysAreOne ==
    RowIsOne /\ (\A m \in Mail : hold[m] # "import") /\ capWork["rematch"].held # "import"

CapInv ==
    /\ CapTypeOK /\ JobsAreOfIt /\ CountsMatchLinks /\ CursorInv
    /\ SyncsAlone => KeysAreOne

-----------------------------------------------------------------------------
LEMMA LinksAreFinite ==
    ASSUME CapConstants, NEW S \in SUBSET Rows, NEW m
    PROVE  IsFiniteSet({r \in S : r[1] = m})
<1>1. IsFiniteSet(Mail) BY FS_Interval DEF CapConstants, Mail
<1>2. IsFiniteSet({1, 2})
  <2>1. IsFiniteSet({1}) BY FS_Singleton
  <2>2. IsFiniteSet({1} \cup {2}) BY <2>1, FS_AddElement
  <2>3. {1} \cup {2} = {1, 2} OBVIOUS
  <2>4. QED BY <2>2, <2>3
<1>3. IsFiniteSet(Rows) BY <1>1, <1>2, FS_Product DEF Rows
<1>4. {r \in S : r[1] = m} \in SUBSET Rows OBVIOUS
<1>5. QED BY <1>3, <1>4, FS_Subset

LEMMA NewRowsAreRows ==
    ASSUME NEW ms \in SUBSET Mail
    PROVE  /\ NewRowsOf(ms) \subseteq Rows
           /\ \A r \in NewRowsOf(ms) : r[1] \in ms
<1>1. ASSUME NEW r \in NewRowsOf(ms) PROVE r \in Rows /\ r[1] \in ms
  <2>1. PICK m \in ms : r = <<m, IF row[<<m, 1>>] = "none" THEN 1 ELSE 2>>
    BY DEF NewRowsOf
  <2>2. r = <<m, 1>> \/ r = <<m, 2>> BY <2>1
  <2>3. QED BY <2>2 DEF Rows
<1>2. QED BY <1>1

(* A record counts what is linked to it, and only that.                    *)
LEMMA AttachKeeps ==
    ASSUME CapConstants, CapTypeOK, CountsMatchLinks,
           NEW new \in SUBSET Rows, NEW rekeyed, NEW path \in Paths \cup {"none"},
           NEW attached \in SUBSET Rows, Attach(new, rekeyed, path, attached)
    PROVE  /\ row' \in [Rows -> {"none", "live", "gone"}]
           /\ key' \in [Rows -> Paths \cup {"none"}]
           /\ links' \subseteq Rows /\ count' \in [Mail -> Nat]
           /\ CountsMatchLinks'
<1>1. row' \in [Rows -> {"none", "live", "gone"}] BY DEF Attach, CapTypeOK
<1>2. key' \in [Rows -> Paths \cup {"none"}] BY DEF Attach, CapTypeOK
<1>3. links' = links \cup attached /\ links \subseteq Rows BY DEF Attach, CapTypeOK
<1>4. ASSUME NEW m \in Mail
      PROVE  count'[m] = Cardinality({r \in links' : r[1] = m}) /\ count'[m] \in Nat
  <2> DEFINE old == {r \in links : r[1] = m}
             more == {r \in attached \ links : r[1] = m}
  <2>1. IsFiniteSet(old) BY <1>3, LinksAreFinite
  <2>2. attached \ links \in SUBSET Rows OBVIOUS
  <2>3. IsFiniteSet(more) BY <2>2, LinksAreFinite
  <2>4. old \cap more = {} /\ {r \in links' : r[1] = m} = old \cup more BY <1>3
  <2>5. count'[m] = count[m] + Cardinality(more) BY DEF Attach
  <2>6. count[m] = Cardinality(old) BY DEF CountsMatchLinks
  <2> HIDE DEF old, more
  <2>7. Cardinality(old \cup more) = Cardinality(old) + Cardinality(more) - Cardinality({})
    BY <2>1, <2>3, <2>4, FS_Union
  <2>8. Cardinality(old) \in Nat /\ Cardinality(more) \in Nat /\ Cardinality({}) = 0
    BY <2>1, <2>3, FS_CardinalityType, FS_EmptySet
  <2>9. Cardinality(old \cup more) = Cardinality(old) + Cardinality(more) BY <2>7, <2>8
  <2>10. count'[m] = Cardinality(old \cup more) BY <2>5, <2>6, <2>9
  <2>11. count'[m] \in Nat BY <2>5, <2>6, <2>8
  <2>12. QED BY <2>4, <2>10, <2>11
<1>5. count' \in [Mail -> Nat]
  <2>1. count' = [m \in Mail |-> count'[m]] BY DEF Attach
  <2>2. QED BY <1>4, <2>1
<1>6. QED BY <1>1, <1>2, <1>3, <1>4, <1>5 DEF CountsMatchLinks

(* A purge takes the links of the rows it takes.                           *)
LEMMA PurgeKeeps ==
    ASSUME CapConstants, CapTypeOK, CountsMatchLinks, PurgeStore
    PROVE  links' \subseteq Rows /\ count' \in [Mail -> Nat] /\ CountsMatchLinks'
<1> DEFINE gone == {r \in capWork["purge"].found : row[r] = "live"}
<1>1. /\ links' = links \ gone /\ links \subseteq Rows
      /\ count' = [m \in Mail |-> count[m] - Cardinality({r \in gone \cap links : r[1] = m})]
  BY DEF PurgeStore, CapTypeOK
<1> HIDE DEF gone
<1>2. ASSUME NEW m \in Mail
      PROVE  count'[m] = Cardinality({r \in links' : r[1] = m}) /\ count'[m] \in Nat
  <2> DEFINE old == {r \in links : r[1] = m}
  <2>1. IsFiniteSet(old) BY <1>1, LinksAreFinite
  <2>2. {r \in links' : r[1] = m} = old \ gone BY <1>1
  <2>3. {r \in gone \cap links : r[1] = m} = old \cap gone OBVIOUS
  <2>4. count'[m] = count[m] - Cardinality(old \cap gone) BY <1>1, <2>3
  <2>5. count[m] = Cardinality(old) BY DEF CountsMatchLinks
  <2> HIDE DEF old
  <2>6. /\ IsFiniteSet(old \ gone)
        /\ Cardinality(old \ gone) = Cardinality(old) - Cardinality(old \cap gone)
    BY <2>1, FS_Difference
  <2>7. Cardinality(old \ gone) \in Nat BY <2>6, FS_CardinalityType
  <2>8. QED BY <2>2, <2>4, <2>5, <2>6, <2>7
<1>3. count' \in [Mail -> Nat]
  <2>1. count' = [m \in Mail |-> count'[m]] BY <1>1
  <2>2. QED BY <1>2, <2>1
<1>4. QED BY <1>1, <1>2, <1>3 DEF CountsMatchLinks

(* Where the sync alone gives keys, a row it makes is the only one of its  *)
(* message, and none that was purged is live again.                        *)
LEMMA AttachIsOne ==
    ASSUME CapTypeOK, RowIsOne, NEW ms \in SUBSET Mail, NEW rekeyed, NEW attached,
           Attach(NewRowsOf(ms), rekeyed, "sync", attached)
    PROVE  /\ RowIsOne'
           /\ \A m \in Mail : (\E r \in RowsOf(m) : row[r] = "gone")
                 => \A r \in {m} \X {1, 2} : row'[r] = "live" => row[r] = "live"
<1> DEFINE new == NewRowsOf(ms)
<1>1. ASSUME NEW m \in ms PROVE row[<<m, 1>>] = "none"
  <2>1. SUFFICES ASSUME row[<<m, 1>>] # "none" PROVE FALSE OBVIOUS
  <2>2. <<m, 2>> \in new BY <2>1 DEF NewRowsOf
  <2>3. <<m, 1>> \in RowsOf(m) /\ key[<<m, 1>>] = "sync" BY <2>1 DEF RowsOf, RowIsOne
  <2>4. Keyed(m, "sync") # {} BY <2>3 DEF Keyed
  <2>5. QED BY <2>2, <2>4 DEF Attach
<1>2. \A r \in new : \E m \in ms : r = <<m, 1>> BY <1>1 DEF NewRowsOf
<1>3. \A r \in Rows : row'[r] = (IF r \in new THEN "live" ELSE row[r]) BY DEF Attach
<1>4. \A r \in Rows : key'[r] = "sync" \/ (key'[r] = key[r] /\ r \notin new) BY DEF Attach
<1> HIDE DEF new
<1>5. ASSUME NEW m \in Mail
      PROVE  row'[<<m, 2>>] = "none" /\ (row'[<<m, 1>>] # "none" => key'[<<m, 1>>] = "sync")
  <2>1. <<m, 1>> \in Rows /\ <<m, 2>> \in Rows BY DEF Rows
  <2>2. <<m, 2>> \notin new BY <1>2
  <2>3. row'[<<m, 2>>] = row[<<m, 2>>] BY <1>3, <2>1, <2>2
  <2>4. <<m, 1>> \notin new => row'[<<m, 1>>] = row[<<m, 1>>] BY <1>3, <2>1
  <2>5. QED BY <1>4, <2>1, <2>3, <2>4 DEF RowIsOne
<1>6. ASSUME NEW m \in Mail, NEW q \in RowsOf(m), row[q] = "gone",
             NEW r \in {m} \X {1, 2}, row'[r] = "live"
      PROVE  row[r] = "live"
  <2>1. q = <<m, 1>>
    <3>1. q = <<m, 1>> \/ q = <<m, 2>> BY DEF RowsOf
    <3>2. row[<<m, 2>>] = "none" BY DEF RowIsOne
    <3>3. QED BY <1>6, <3>1, <3>2
  <2>2. m \notin ms BY <1>1, <1>6, <2>1
  <2>3. r \in Rows /\ r \notin new BY <1>2, <2>2 DEF Rows
  <2>4. QED BY <1>3, <1>6, <2>3
<1>7. QED BY <1>5, <1>6 DEF RowIsOne

-----------------------------------------------------------------------------
LEMMA IdleType == CapConstants => Idle \in CapWork /\ Idle.pc = "idle"
BY DEF Idle, CapWork, CapConstants, NoCursor, Cursors, Mail, Rows, Paths

LEMMA GoesType ==
    ASSUME CapTypeOK, NEW job \in CapKinds, NEW task \in CapWork, CapGoes(job, task)
    PROVE  /\ capWork' \in [CapKinds -> CapWork] /\ capWork'[job] = task
           /\ \A j \in CapKinds \ {job} : capWork'[j] = capWork[j]
BY DEF CapGoes, CapTypeOK

(* What a step that stores nothing keeps.                                  *)
LEMMA BeginsType ==
    ASSUME CapConstants, CapTypeOK, JobsAreOfIt, CountsMatchLinks,
           NEW job \in CapKinds, NEW task \in CapWork, CapGoes(job, task),
           task.pc # "idle" => job \in capKinds /\ (job = "import" => importAt > 0),
           UNCHANGED <<capKinds, capMail, arrived, cursor, importAt, settingVars, purges,
                       rematches, records, activityVars, historyVars>>
    PROVE  CapTypeOK' /\ JobsAreOfIt' /\ CountsMatchLinks'
<1>1. /\ capWork' \in [CapKinds -> CapWork] /\ capWork'[job] = task
      /\ \A j \in CapKinds \ {job} : capWork'[j] = capWork[j]
  BY GoesType
<1>2. UNCHANGED <<capKinds, capMail, arrived, cursor, importAt, policy, saves, purges,
                  rematches, records, row, key, links, count, hold, readOnce, cut>>
  BY DEF settingVars, activityVars, historyVars
<1>3. CapTypeOK' BY <1>1, <1>2 DEF CapTypeOK
<1>4. JobsAreOfIt' BY <1>1, <1>2 DEF JobsAreOfIt, CapKinds
<1>5. CountsMatchLinks' BY <1>2 DEF CountsMatchLinks
<1>6. QED BY <1>3, <1>4, <1>5

(* A page of the sync, and the cursor after it.                            *)
LEMMA SyncReads ==
    ASSUME CapConstants, CapTypeOK, CursorInv, SyncRead
    PROVE  \E page \in SUBSET (1..arrived), next \in Cursors, beyond \in SUBSET (1..arrived) :
              /\ Reads(page, next, beyond)
              /\ Covers(next, readOnce \cup cut \cup page \cup beyond)
<1> DEFINE S == readOnce \cup cut
<1>1. arrived \in Nat /\ arrived \in 0..MaxMail /\ MaxMail \in Nat /\ PageSize \in Nat \ {0}
      /\ cursor \in Cursors
  BY DEF CapTypeOK, CapConstants
<1>2. Covers(cursor, S) BY DEF CursorInv
<1>3. ASSUME NEW b \in 1..(arrived + 1), NEW seed \in 0..arrived,
             b..seed \subseteq S
      PROVE  /\ PageBelow(b) \in SUBSET (1..arrived) /\ Paging(b, seed) \in Cursors
             /\ Covers(Paging(b, seed), S \cup PageBelow(b) \cup {})
  <2>1. PageBelow(b) \in SUBSET (1..arrived) BY <1>1, <1>3 DEF PageBelow
  <2>2. CASE b - PageSize <= 1
    <3>1. Paging(b, seed) = [mode |-> "delta", below |-> 0, seed |-> seed]
      BY <2>2 DEF Paging
    <3>2. 1..seed \subseteq S \cup PageBelow(b) BY <1>1, <1>3, <2>2 DEF PageBelow
    <3>3. QED BY <1>1, <2>1, <3>1, <3>2 DEF Covers, Cursors
  <2>3. CASE b - PageSize > 1
    <3>1. Paging(b, seed) = [mode |-> "paging", below |-> b - PageSize, seed |-> seed]
      BY <1>1, <2>3 DEF Paging
    <3>2. (b - PageSize)..seed \subseteq S \cup PageBelow(b)
      BY <1>1, <1>3, <2>3 DEF PageBelow
    <3>3. b - PageSize \in 1..arrived /\ b - PageSize \in 0..MaxMail BY <1>1, <2>3
    <3>4. QED BY <1>1, <2>1, <3>1, <3>2, <3>3 DEF Covers, Cursors
  <2>4. QED BY <1>1, <2>2, <2>3
<1>4. CASE /\ cursor.mode \in {"none", "delta"}
           /\ Reads(PageBelow(arrived + 1), Paging(arrived + 1, arrived), {})
  <2>1. (arrived + 1)..arrived \subseteq S BY <1>1
  <2> DEFINE page == PageBelow(arrived + 1)
             next == Paging(arrived + 1, arrived)
  <2>2. arrived + 1 \in 1..(arrived + 1) /\ arrived \in 0..arrived BY <1>1
  <2>3. page \in SUBSET (1..arrived) /\ next \in Cursors /\ Covers(next, S \cup page \cup {})
    BY <1>3, <2>1, <2>2
  <2>4. Reads(page, next, {}) BY <1>4
  <2> HIDE DEF page, next
  <2>5. {} \in SUBSET (1..arrived) OBVIOUS
  <2>6. QED BY <2>3, <2>4, <2>5
<1>5. CASE /\ cursor.mode = "paging"
           /\ Reads(PageBelow(cursor.below), Paging(cursor.below, cursor.seed), {})
  <2>1. cursor.below \in 1..arrived /\ cursor.below..cursor.seed \subseteq S
    BY <1>2, <1>5 DEF Covers
  <2>2. cursor.seed \in 0..MaxMail BY <1>1 DEF Cursors
  <2>3. S \subseteq 1..arrived BY DEF CapTypeOK
  <2>4. cursor.seed <= arrived
    <3>1. CASE cursor.seed >= cursor.below
      <4>1. cursor.seed \in cursor.below..cursor.seed BY <1>1, <2>1, <2>2, <3>1
      <4>2. cursor.seed \in 1..arrived BY <2>1, <2>3, <4>1
      <4>3. QED BY <4>2
    <3>2. CASE cursor.seed < cursor.below BY <1>1, <2>1, <2>2, <3>2
    <3>3. QED BY <1>1, <2>1, <2>2, <3>1, <3>2
  <2> DEFINE page == PageBelow(cursor.below)
             next == Paging(cursor.below, cursor.seed)
  <2>5. cursor.below \in 1..(arrived + 1) /\ cursor.seed \in 0..arrived
    BY <1>1, <2>1, <2>2, <2>4
  <2>6. page \in SUBSET (1..arrived) /\ next \in Cursors /\ Covers(next, S \cup page \cup {})
    BY <1>3, <2>1, <2>5
  <2>7. Reads(page, next, {}) BY <1>5
  <2> HIDE DEF page, next
  <2>8. {} \in SUBSET (1..arrived) OBVIOUS
  <2>9. QED BY <2>6, <2>7, <2>8
<1>6. CASE /\ cursor.mode = "delta" /\ cursor.seed < arrived
           /\ LET end == IF cursor.seed + PageSize < arrived THEN cursor.seed + PageSize
                         ELSE arrived IN
              Reads((cursor.seed + 1)..end, [cursor EXCEPT !.seed = arrived], (end + 1)..arrived)
  <2> DEFINE end == IF cursor.seed + PageSize < arrived THEN cursor.seed + PageSize ELSE arrived
             next == [cursor EXCEPT !.seed = arrived]
  <2>1. cursor.seed \in 0..MaxMail /\ cursor.seed < arrived BY <1>1, <1>6 DEF Cursors
  <2>2. end \in 0..arrived /\ cursor.seed < end BY <1>1, <2>1
  <2>3. Reads((cursor.seed + 1)..end, next, (end + 1)..arrived) BY <1>6
  <2> HIDE DEF end
  <2>4. next \in Cursors /\ next.mode = "delta" /\ next.seed = arrived
    BY <1>1, <1>6 DEF Cursors
  <2>5. 1..cursor.seed \subseteq S BY <1>2, <1>6 DEF Covers
  <2>6. 1..arrived \subseteq S \cup (cursor.seed + 1)..end \cup (end + 1)..arrived
    BY <1>1, <2>1, <2>2, <2>5
  <2>7. Covers(next, S \cup (cursor.seed + 1)..end \cup (end + 1)..arrived)
    BY <2>4, <2>6 DEF Covers
  <2>8. (cursor.seed + 1)..end \in SUBSET (1..arrived) /\ (end + 1)..arrived \in SUBSET (1..arrived)
    BY <1>1, <2>1, <2>2
  <2> HIDE DEF next
  <2>9. QED BY <2>3, <2>4, <2>7, <2>8
<1>7. QED BY <1>4, <1>5, <1>6 DEF SyncRead

(* What a transaction leaves that ends a job.                              *)
LEMMA StoreType ==
    ASSUME CapConstants, CapTypeOK, JobsAreOfIt, CountsMatchLinks',
           NEW job \in CapKinds, CapGoes(job, Idle),
           UNCHANGED <<capKinds, capMail, arrived, policy, saves, records>>,
           row' \in [Rows -> {"none", "live", "gone"}], key' \in [Rows -> Paths \cup {"none"}],
           links' \subseteq Rows, count' \in [Mail -> Nat], hold' \in [Mail -> Paths \cup {"none"}],
           cursor' \in Cursors, importAt' \in 0..MaxMail, importAt' = importAt \/ job = "import",
           purges' \subseteq purges, rematches' \subseteq rematches,
           readOnce' \subseteq 1..arrived, cut' \subseteq 1..arrived
    PROVE  CapTypeOK' /\ JobsAreOfIt' /\ CountsMatchLinks'
<1>1. /\ capWork' \in [CapKinds -> CapWork] /\ capWork'[job] = Idle /\ Idle.pc = "idle"
      /\ \A j \in CapKinds \ {job} : capWork'[j] = capWork[j]
  BY GoesType, IdleType
<1>2. CapTypeOK' BY <1>1 DEF CapTypeOK
<1>3. JobsAreOfIt' BY <1>1 DEF JobsAreOfIt, CapKinds
<1>4. QED BY <1>2, <1>3

LEMMA CapTypeStep ==
    ASSUME CapConstants, CapInv, [CapNext]_capVars
    PROVE  CapTypeOK' /\ JobsAreOfIt' /\ CountsMatchLinks'
<1> DEFINE Kept == CapTypeOK' /\ JobsAreOfIt' /\ CountsMatchLinks'
<1>0. CapTypeOK /\ JobsAreOfIt /\ CountsMatchLinks /\ CursorInv BY DEF CapInv
<1>a. Idle \in CapWork /\ Idle.pc = "idle" BY IdleType
<1>b. {"sync", "import", "rematch", "purge"} = CapKinds BY DEF CapKinds
<1>c. arrived \in Nat /\ 1..arrived \subseteq Mail BY <1>0 DEF CapTypeOK, CapConstants, Mail
<1> HIDE DEF Kept
<1>1. CASE SyncRead
  <2>1. PICK page \in SUBSET (1..arrived), next \in Cursors, beyond \in SUBSET (1..arrived) :
            Reads(page, next, beyond)
    BY <1>0, <1>1, SyncReads
  <2> DEFINE new == [Idle EXCEPT !.pc = "look", !.page = page, !.next = next,
                                 !.drop = page \cap policy, !.beyond = beyond]
  <2>2. new \in CapWork
    <3>1. page \in SUBSET Mail /\ beyond \in SUBSET Mail /\ page \cap policy \in SUBSET Mail
      BY <1>c
    <3>2. QED BY <1>a, <3>1 DEF CapWork
  <2>3. CapGoes("sync", new) /\ "sync" \in capKinds BY <2>1 DEF Reads, Begins
  <2> HIDE DEF new
  <2>4. QED BY <1>0, <1>1, <1>b, <2>2, <2>3, BeginsType DEF SyncRead, Kept
<1>2. CASE SyncLook
  <2>1. capWork["sync"] \in CapWork /\ capWork["sync"].pc = "look" /\ "sync" \in capKinds
    BY <1>0, <1>2, <1>b DEF SyncLook, CapTypeOK, JobsAreOfIt
  <2>2. PICK found \in SUBSET (capWork["sync"].page \X {1, 2}) :
            CapGoes("sync", [capWork["sync"] EXCEPT !.pc = "store",
                !.matched = records \cap capWork["sync"].page, !.found = found,
                !.drop = @ \cup {m \in capWork["sync"].page :
                                    \E r \in found : r[1] = m /\ row[r] = "gone"}])
    BY <1>2 DEF SyncLook
  <2> DEFINE task == capWork["sync"]
             new == [task EXCEPT !.pc = "store", !.matched = records \cap task.page,
                                 !.found = found,
                                 !.drop = @ \cup {m \in task.page :
                                              \E r \in found : r[1] = m /\ row[r] = "gone"}]
  <2>3. new \in CapWork
    <3>1. task.page \in SUBSET Mail /\ task.drop \in SUBSET Mail BY <2>1 DEF CapWork
    <3>2. found \in SUBSET Rows BY <3>1 DEF Rows
    <3>3. task.drop \cup {m \in task.page : \E r \in found : r[1] = m /\ row[r] = "gone"}
              \in SUBSET Mail
      BY <3>1
    <3>4. records \cap task.page \in SUBSET Mail BY <3>1
    <3>5. QED BY <2>1, <3>2, <3>3, <3>4 DEF CapWork
  <2>4. CapGoes("sync", new) BY <2>2
  <2> HIDE DEF new
  <2>5. QED BY <1>0, <1>2, <1>b, <2>1, <2>3, <2>4, BeginsType DEF SyncLook, Kept
<1>3. CASE SyncStore
  <2> DEFINE task == capWork["sync"]
             kept == task.page \ task.drop
             seen == {r[1] : r \in task.found}
             ms == (kept \cap task.matched) \ seen
             new == NewRowsOf(ms)
             attached == new \cup {r \in task.found : r[1] \in kept \cap task.matched}
  <2>1. task \in CapWork /\ task.pc = "store"
    BY <1>0, <1>3, <1>b DEF SyncStore, CapTypeOK
  <2>2. task.page \in SUBSET Mail /\ task.found \in SUBSET Rows /\ task.next \in Cursors
    BY <2>1 DEF CapWork
  <2>3. ms \in SUBSET Mail BY <2>2
  <2>4. /\ Attach(new, {r \in task.found : r[1] \in kept}, "sync", attached)
        /\ hold' = [m \in Mail |->
                       IF m \in kept \ (task.matched \cup seen) THEN "sync" ELSE hold[m]]
        /\ cursor' = task.next
        /\ readOnce' = readOnce \cup task.page /\ cut' = cut \cup task.beyond
        /\ CapGoes("sync", Idle)
        /\ UNCHANGED <<capKinds, capMail, arrived, importAt, settingVars, purges, rematches, records>>
    BY <1>3 DEF SyncStore
  <2>5. task.page \cup task.beyond \subseteq 1..arrived BY <1>0 DEF CursorInv
  <2>6. hold' \in [Mail -> Paths \cup {"none"}] BY <1>0, <2>4 DEF CapTypeOK, Paths
  <2>7. readOnce' \subseteq 1..arrived /\ cut' \subseteq 1..arrived
    BY <1>0, <2>4, <2>5 DEF CapTypeOK
  <2> HIDE DEF ms, kept, seen
  <2>8. new \in SUBSET Rows /\ attached \in SUBSET Rows BY <2>2, <2>3, NewRowsAreRows
  <2> HIDE DEF new, attached
  <2>9. /\ row' \in [Rows -> {"none", "live", "gone"}] /\ key' \in [Rows -> Paths \cup {"none"}]
        /\ links' \subseteq Rows /\ count' \in [Mail -> Nat] /\ CountsMatchLinks'
    BY <1>0, <2>4, <2>8, AttachKeeps DEF Paths
  <2>10. importAt' \in 0..MaxMail BY <1>0, <2>4 DEF CapTypeOK
  <2>11. QED
    BY <1>0, <1>b, <2>2, <2>4, <2>6, <2>7, <2>9, <2>10, StoreType DEF settingVars, Kept
<1>4. CASE ImportRead
  <2> DEFINE new == [Idle EXCEPT !.pc = "look", !.page = {importAt}]
  <2>1. {importAt} \in SUBSET Mail
    BY <1>0, <1>4 DEF ImportRead, CapTypeOK, CapConstants, Mail
  <2>2. new \in CapWork BY <1>a, <2>1 DEF CapWork
  <2>3. CapGoes("import", new) /\ "import" \in capKinds /\ importAt > 0
    BY <1>4 DEF ImportRead, Begins
  <2> HIDE DEF new
  <2>4. QED BY <1>0, <1>4, <1>b, <2>2, <2>3, BeginsType DEF ImportRead, Kept
<1>5. CASE ImportLook
  <2>1. capWork["import"] \in CapWork /\ capWork["import"].pc = "look" /\ "import" \in capKinds
        /\ importAt > 0
    BY <1>0, <1>5, <1>b DEF ImportLook, CapTypeOK, JobsAreOfIt
  <2> DEFINE task == capWork["import"]
  <2>2. PICK found \in SUBSET (task.page \X {1, 2}) :
            CapGoes("import", [task EXCEPT !.pc = "store", !.matched = records \cap task.page,
                                           !.found = found])
    BY <1>5 DEF ImportLook
  <2> DEFINE new == [task EXCEPT !.pc = "store", !.matched = records \cap task.page,
                                 !.found = found]
  <2>3. new \in CapWork
    <3>1. task.page \in SUBSET Mail BY <2>1 DEF CapWork
    <3>2. found \in SUBSET Rows BY <3>1 DEF Rows
    <3>3. records \cap task.page \in SUBSET Mail BY <3>1
    <3>4. QED BY <2>1, <3>2, <3>3 DEF CapWork
  <2>4. CapGoes("import", new) BY <2>2
  <2> HIDE DEF new
  <2>5. QED BY <1>0, <1>5, <1>b, <2>1, <2>3, <2>4, BeginsType DEF ImportLook, Kept
<1>6. CASE ImportStore
  <2> DEFINE task == capWork["import"]
             ms == task.matched \ {r[1] : r \in task.found}
             new == NewRowsOf(ms)
  <2>1. task \in CapWork /\ task.pc = "store" /\ importAt > 0
    BY <1>0, <1>6, <1>b DEF ImportStore, CapTypeOK, JobsAreOfIt
  <2>2. ms \in SUBSET Mail BY <2>1 DEF CapWork
  <2>3. /\ Attach(new, {}, "import", new)
        /\ hold' = [m \in Mail |-> IF m \in task.page \ task.matched THEN "import" ELSE hold[m]]
        /\ importAt' = importAt - 1 /\ CapGoes("import", Idle)
        /\ UNCHANGED <<capKinds, capMail, arrived, cursor, settingVars, purges, rematches, records,
                        historyVars>>
    BY <1>6 DEF ImportStore
  <2>4. hold' \in [Mail -> Paths \cup {"none"}] BY <1>0, <2>3 DEF CapTypeOK, Paths
  <2>5. importAt' \in 0..MaxMail /\ cursor' \in Cursors /\ readOnce' \subseteq 1..arrived
        /\ cut' \subseteq 1..arrived
    BY <1>0, <2>1, <2>3 DEF CapTypeOK, CapConstants, historyVars
  <2> HIDE DEF ms
  <2>6. new \in SUBSET Rows BY <2>2, NewRowsAreRows
  <2> HIDE DEF new
  <2>7. /\ row' \in [Rows -> {"none", "live", "gone"}] /\ key' \in [Rows -> Paths \cup {"none"}]
        /\ links' \subseteq Rows /\ count' \in [Mail -> Nat] /\ CountsMatchLinks'
    BY <1>0, <2>3, <2>6, AttachKeeps DEF Paths
  <2>8. QED BY <1>0, <1>b, <2>3, <2>4, <2>5, <2>7, StoreType DEF settingVars, Kept
<1>7. CASE RematchStore
  <2> DEFINE task == capWork["rematch"]
             held == {m \in task.page : task.held # "none"}
             ms == {m \in held : Keyed(m, task.held) = {}}
             new == NewRowsOf(ms)
             attached == new \cup task.found \cup UNION {Keyed(m, task.held) : m \in held}
  <2>1. task \in CapWork /\ task.pc = "store" BY <1>0, <1>7, <1>b DEF RematchStore, CapTypeOK
  <2>2. held \in SUBSET Mail /\ task.found \in SUBSET Rows /\ task.held \in Paths \cup {"none"}
    BY <2>1 DEF CapWork
  <2>3. ms \in SUBSET Mail BY <2>2
  <2>4. /\ Attach(new, {}, task.held, attached)
        /\ hold' = [m \in Mail |-> IF m \in held THEN "none" ELSE hold[m]]
        /\ rematches' \in {rematches, rematches \ task.page} /\ CapGoes("rematch", Idle)
        /\ UNCHANGED <<capKinds, capMail, arrived, cursor, importAt, settingVars, purges, records,
                        historyVars>>
    BY <1>7 DEF RematchStore
  <2> HIDE DEF held
  <2>5. hold' \in [Mail -> Paths \cup {"none"}] BY <1>0, <2>4 DEF CapTypeOK
  <2>6. importAt' \in 0..MaxMail /\ cursor' \in Cursors /\ readOnce' \subseteq 1..arrived
        /\ cut' \subseteq 1..arrived
    BY <1>0, <2>4 DEF CapTypeOK, historyVars
  <2>7. \A m \in held : Keyed(m, task.held) \subseteq Rows BY <2>2 DEF Keyed, RowsOf, Rows
  <2> HIDE DEF ms
  <2>8. new \in SUBSET Rows /\ attached \in SUBSET Rows BY <2>2, <2>3, <2>7, NewRowsAreRows
  <2> HIDE DEF new, attached
  <2>9. /\ row' \in [Rows -> {"none", "live", "gone"}] /\ key' \in [Rows -> Paths \cup {"none"}]
        /\ links' \subseteq Rows /\ count' \in [Mail -> Nat] /\ CountsMatchLinks'
    BY <1>0, <2>2, <2>4, <2>8, AttachKeeps
  <2>10. rematches' \subseteq rematches BY <2>4
  <2>11. QED BY <1>0, <1>b, <2>4, <2>5, <2>6, <2>9, <2>10, StoreType DEF settingVars, Kept
<1>8. CASE PurgeStore
  <2>1. links' \subseteq Rows /\ count' \in [Mail -> Nat] /\ CountsMatchLinks'
    BY <1>0, <1>8, PurgeKeeps
  <2>2. row' \in [Rows -> {"none", "live", "gone"}] BY <1>0, <1>8 DEF PurgeStore, CapTypeOK
  <2>3. /\ key' \in [Rows -> Paths \cup {"none"}] /\ hold' \in [Mail -> Paths \cup {"none"}]
        /\ importAt' \in 0..MaxMail /\ cursor' \in Cursors /\ readOnce' \subseteq 1..arrived
        /\ cut' \subseteq 1..arrived
    BY <1>0, <1>8 DEF PurgeStore, CapTypeOK, historyVars
  <2>4. /\ CapGoes("purge", Idle) /\ purges' \subseteq purges
        /\ UNCHANGED <<capKinds, capMail, arrived, importAt, policy, saves, records, rematches>>
    BY <1>8 DEF PurgeStore, settingVars
  <2>5. QED BY <1>0, <1>b, <2>1, <2>2, <2>3, <2>4, StoreType DEF Kept
<1>9. ASSUME NEW m \in Mail, RematchRead(m) PROVE Kept
  <2> DEFINE new == [Idle EXCEPT !.pc = "store", !.page = {m}, !.held = hold[m],
                                 !.found = RowsOf(m)]
  <2>1. RowsOf(m) \in SUBSET Rows BY DEF RowsOf, Rows
  <2>2. hold[m] \in Paths \cup {"none"} BY <1>0 DEF CapTypeOK
  <2>3. new \in CapWork BY <1>a, <2>1, <2>2 DEF CapWork
  <2>4. CapGoes("rematch", new) /\ "rematch" \in capKinds BY <1>9 DEF RematchRead, Begins
  <2> HIDE DEF new
  <2>5. QED BY <1>0, <1>9, <1>b, <2>3, <2>4, BeginsType DEF RematchRead, Kept
<1>10. ASSUME NEW rule \in purges, PurgeRead(rule) PROVE Kept
  <2> DEFINE found == {r \in Rows : row[r] = "live" /\ r[1] \in rule}
             new == [Idle EXCEPT !.pc = "store", !.page = rule, !.found = found]
  <2>1. found \in SUBSET Rows /\ rule \in SUBSET Mail BY <1>0 DEF CapTypeOK
  <2>2. CapGoes("purge", new) /\ "purge" \in capKinds BY <1>10 DEF PurgeRead, Begins
  <2> HIDE DEF found
  <2>3. new \in CapWork BY <1>a, <2>1 DEF CapWork
  <2> HIDE DEF new
  <2>4. QED BY <1>0, <1>10, <1>b, <2>2, <2>3, BeginsType DEF PurgeRead, Kept
<1>11. ASSUME NEW job \in CapKinds, JobFails(job) PROVE Kept
  BY <1>0, <1>a, <1>11, BeginsType DEF JobFails, Kept
<1>12. ASSUME NEW m \in Mail, RecordCreated(m) \/ Exclude(m) \/ Allow(m) PROVE Kept
  <2>1. UNCHANGED <<capKinds, capMail, arrived, cursor, importAt, activityVars, capWork,
                    historyVars>>
    BY <1>12 DEF RecordCreated, Exclude, Allow, jobVars
  <2>2. /\ records' \subseteq Mail /\ rematches' \subseteq records'
        /\ policy' \subseteq Mail /\ saves' \in 0..MaxSaves /\ purges' \subseteq SUBSET Mail
    BY <1>0, <1>12
    DEF CapTypeOK, RecordCreated, Exclude, Allow, settingVars, jobVars, CapConstants
  <2>3. QED
    BY <1>0, <2>1, <2>2
    DEF CapTypeOK, JobsAreOfIt, CountsMatchLinks, activityVars, historyVars, Kept
<1>13. CASE Arrives
  <2>1. UNCHANGED <<capKinds, capMail, cursor, importAt, settingVars, jobVars, records,
                    activityVars, historyVars>> /\ arrived' = arrived + 1 /\ arrived < capMail
    BY <1>13 DEF Arrives
  <2>2. capMail \in 0..MaxMail BY <1>0 DEF CapTypeOK, CapConstants
  <2>3. arrived' \in 0..MaxMail /\ 1..arrived \subseteq 1..arrived'
    BY <1>c, <2>1, <2>2 DEF CapConstants
  <2>4. QED
    BY <1>0, <2>1, <2>3
    DEF CapTypeOK, JobsAreOfIt, CountsMatchLinks, settingVars, jobVars, activityVars,
        historyVars, Kept
<1>14. CASE UNCHANGED capVars
  BY <1>0, <1>14
  DEF CapTypeOK, JobsAreOfIt, CountsMatchLinks, capVars, settingVars, jobVars, activityVars,
      historyVars, Kept
<1>15. QED
  BY <1>1, <1>2, <1>3, <1>4, <1>5, <1>6, <1>7, <1>8, <1>9, <1>10, <1>11, <1>12, <1>13, <1>14
  DEF CapNext, Kept

-----------------------------------------------------------------------------
(* What is covered stays so as mail arrives and pages are stored.          *)
LEMMA CoversStays ==
    ASSUME NEW c, NEW S, NEW T, S \subseteq T, arrived \in Nat, arrived' \in Nat,
           arrived <= arrived', Covers(c, S)
    PROVE  /\ Covers(c, T)
           /\ c.mode = "delta" => 1..c.seed \subseteq T
           /\ c.mode = "paging" => c.below \in 1..arrived' /\ c.below..c.seed \subseteq T
BY DEF Covers

(* Only the sync moves the cursor, to where its page and the pages before  *)
(* it reach.                                                               *)
LEMMA CursorStep ==
    ASSUME CapConstants, CapInv, [CapNext]_capVars, arrived' \in Nat PROVE CursorInv'
<1> DEFINE task == capWork["sync"]
           S == readOnce \cup cut
<1>0. /\ CapTypeOK /\ Covers(cursor, S) /\ task.page \cup task.beyond \subseteq 1..arrived
      /\ task.pc # "idle" => Covers(task.next, S \cup task.page \cup task.beyond)
      /\ "sync" \in CapKinds /\ arrived \in Nat
  BY DEF CapInv, CursorInv, CapTypeOK, CapKinds
<1>1. CASE SyncRead
  <2>1. PICK page \in SUBSET (1..arrived), next \in Cursors, beyond \in SUBSET (1..arrived) :
            Reads(page, next, beyond) /\ Covers(next, S \cup page \cup beyond)
    BY <1>1, SyncReads DEF CapInv
  <2>2. /\ capWork'["sync"].page = page /\ capWork'["sync"].next = next
        /\ capWork'["sync"].beyond = beyond
    BY <1>0, <2>1 DEF Reads, Begins, CapGoes, Idle, CapTypeOK
  <2>3. UNCHANGED <<arrived, cursor, readOnce, cut>> BY <1>1 DEF SyncRead, historyVars
  <2>4. QED BY <1>0, <2>1, <2>2, <2>3 DEF CursorInv, Covers
<1>2. CASE SyncLook
  <2>1. task \in CapWork /\ task.pc = "look" BY <1>0, <1>2 DEF SyncLook, CapTypeOK
  <2>2. PICK matched, found, drop :
            CapGoes("sync", [task EXCEPT !.pc = "store", !.matched = matched, !.found = found,
                                         !.drop = drop])
    BY <1>2 DEF SyncLook
  <2> DEFINE new == [task EXCEPT !.pc = "store", !.matched = matched, !.found = found,
                                 !.drop = drop]
  <2>a. new.page = task.page /\ new.next = task.next /\ new.beyond = task.beyond
    BY <2>1 DEF CapWork
  <2>b. CapGoes("sync", new) BY <2>2
  <2> HIDE DEF new
  <2>3. capWork'["sync"] = new BY <1>0, <2>b DEF CapGoes, CapTypeOK
  <2>4. UNCHANGED <<arrived, cursor, readOnce, cut>> BY <1>2 DEF SyncLook, historyVars
  <2>5. QED BY <1>0, <2>1, <2>a, <2>3, <2>4 DEF CursorInv, Covers
<1>3. CASE SyncStore
  <2>1. /\ task.pc = "store" /\ cursor' = task.next /\ arrived' = arrived
        /\ readOnce' = readOnce \cup task.page /\ cut' = cut \cup task.beyond
    BY <1>3 DEF SyncStore
  <2>2. capWork'["sync"] = Idle BY <1>0, <1>3 DEF SyncStore, CapGoes, CapTypeOK
  <2>3. Idle.pc = "idle" /\ Idle.page = {} /\ Idle.beyond = {} BY DEF Idle
  <2>4. S \cup task.page \cup task.beyond = readOnce' \cup cut' BY <2>1
  <2>5. Covers(task.next, readOnce' \cup cut') BY <1>0, <2>1, <2>4
  <2>6. Covers(cursor, readOnce \cup cut)' BY <2>1, <2>5 DEF Covers
  <2>7. QED BY <2>2, <2>3, <2>6 DEF CursorInv
<1>4. ASSUME arrived <= arrived', UNCHANGED <<cursor, readOnce, cut>>,
             capWork'["sync"] = task \/ capWork'["sync"] = Idle
      PROVE  CursorInv'
  <2>1. Idle.pc = "idle" /\ Idle.page = {} /\ Idle.beyond = {} BY DEF Idle
  <2>2. 1..arrived \subseteq 1..arrived' BY <1>0, <1>4
  <2>3. Covers(cursor, readOnce \cup cut)' BY <1>0, <1>4, CoversStays DEF Covers
  <2>4. CASE capWork'["sync"] = Idle BY <2>1, <2>3, <2>4 DEF CursorInv
  <2>5. CASE capWork'["sync"] = task
    <3>1. task.pc # "idle" => (Covers(task.next, S \cup task.page \cup task.beyond))'
      BY <1>0, <1>4, <2>5, CoversStays DEF Covers
    <3>2. QED BY <1>0, <1>4, <2>2, <2>3, <2>5, <3>1 DEF CursorInv
  <2>6. QED BY <1>4, <2>4, <2>5
<1>5. ASSUME NEW job \in CapKinds \ {"sync"}, NEW new, CapGoes(job, new),
             UNCHANGED <<arrived, cursor, readOnce, cut>>
      PROVE  CursorInv'
  <2>1. capWork'["sync"] = task BY <1>0, <1>5 DEF CapGoes, CapTypeOK
  <2>2. QED BY <1>0, <1>4, <1>5, <2>1
<1>6. CASE ImportRead \/ ImportLook \/ ImportStore
  <2>1. \E new : CapGoes("import", new)
    BY <1>6 DEF ImportRead, ImportLook, ImportStore, Begins
  <2>2. UNCHANGED <<arrived, cursor, readOnce, cut>>
    BY <1>6 DEF ImportRead, ImportLook, ImportStore, historyVars
  <2>3. QED BY <1>5, <2>1, <2>2 DEF CapKinds
<1>7. ASSUME NEW m \in Mail, RematchRead(m) \/ RematchStore PROVE CursorInv'
  <2>1. \E new : CapGoes("rematch", new) BY <1>7 DEF RematchRead, RematchStore, Begins
  <2>2. UNCHANGED <<arrived, cursor, readOnce, cut>>
    BY <1>7 DEF RematchRead, RematchStore, historyVars
  <2>3. QED BY <1>5, <2>1, <2>2 DEF CapKinds
<1>8. ASSUME NEW rule \in purges, PurgeRead(rule) PROVE CursorInv'
  <2>1. \E new : CapGoes("purge", new) BY <1>8 DEF PurgeRead, Begins
  <2>2. UNCHANGED <<arrived, cursor, readOnce, cut>> BY <1>8 DEF PurgeRead, historyVars
  <2>3. QED BY <1>5, <2>1, <2>2 DEF CapKinds
<1>9. CASE PurgeStore \/ RematchStore
  <2>1. \E job \in CapKinds \ {"sync"} : \E new : CapGoes(job, new)
    BY <1>9 DEF PurgeStore, RematchStore, CapKinds
  <2>2. UNCHANGED <<arrived, cursor, readOnce, cut>>
    BY <1>9 DEF PurgeStore, RematchStore, historyVars
  <2>3. QED BY <1>5, <2>1, <2>2
<1>10. ASSUME NEW job \in CapKinds, JobFails(job) PROVE CursorInv'
  <2>1. capWork'["sync"] = task \/ capWork'["sync"] = Idle
    BY <1>0, <1>10 DEF JobFails, CapGoes, CapTypeOK
  <2>2. UNCHANGED <<arrived, cursor, readOnce, cut>> BY <1>10 DEF JobFails, historyVars
  <2>3. QED BY <1>0, <1>4, <2>1, <2>2
<1>11. ASSUME NEW m \in Mail, RecordCreated(m) \/ Exclude(m) \/ Allow(m) PROVE CursorInv'
  <2>1. UNCHANGED <<arrived, cursor, capWork, readOnce, cut>>
    BY <1>11 DEF RecordCreated, Exclude, Allow, jobVars, historyVars
  <2>2. QED BY <1>0, <1>4, <2>1
<1>12. CASE Arrives
  <2>1. UNCHANGED <<cursor, capWork, readOnce, cut>> /\ arrived' = arrived + 1
    BY <1>12 DEF Arrives, jobVars, historyVars
  <2>2. QED BY <1>0, <1>4, <2>1
<1>13. CASE UNCHANGED capVars
  <2>1. UNCHANGED <<arrived, cursor, capWork, readOnce, cut>>
    BY <1>13 DEF capVars, jobVars, historyVars
  <2>2. QED BY <1>0, <1>4, <2>1
<1>14. QED
  BY <1>1, <1>2, <1>3, <1>6, <1>7, <1>8, <1>9, <1>10, <1>11, <1>12, <1>13 DEF CapNext

(* Without the import, the sync gives every key and every hold.            *)
LEMMA KeysStep ==
    ASSUME CapConstants, CapInv, SyncsAlone, [CapNext]_capVars
    PROVE  KeysAreOne' /\ [PurgedStaysGone]_capVars
<1> DEFINE Stays == \A m \in Mail : (\E r \in RowsOf(m) : row[r] = "gone")
                       => \A r \in {m} \X {1, 2} : row'[r] = "live" => row[r] = "live"
<1>0. /\ CapTypeOK /\ RowIsOne /\ (\A m \in Mail : hold[m] # "import")
      /\ capWork["rematch"].held # "import" /\ "rematch" \in CapKinds
  BY DEF CapInv, KeysAreOne, CapKinds
<1>1. ~ImportRead /\ ~ImportLook /\ ~ImportStore
  BY DEF ImportRead, ImportLook, ImportStore, Begins, CapInv, JobsAreOfIt, SyncsAlone, CapKinds
<1>2. Stays => PurgedStaysGone BY DEF PurgedStaysGone
<1>3. UNCHANGED row => Stays BY Zenon
<1> HIDE DEF Stays
<1>4. CASE SyncStore
  <2> DEFINE task == capWork["sync"]
             kept == task.page \ task.drop
             seen == {r[1] : r \in task.found}
             ms == (kept \cap task.matched) \ seen
             rekeyed == {r \in task.found : r[1] \in kept}
             attached == NewRowsOf(ms) \cup {r \in task.found : r[1] \in kept \cap task.matched}
  <2>1. task \in CapWork BY <1>0 DEF CapTypeOK, CapKinds
  <2>2. ms \in SUBSET Mail BY <2>1 DEF CapWork
  <2>3. /\ Attach(NewRowsOf(ms), rekeyed, "sync", attached)
        /\ hold' = [m \in Mail |->
                       IF m \in kept \ (task.matched \cup seen) THEN "sync" ELSE hold[m]]
        /\ CapGoes("sync", Idle)
    BY <1>4 DEF SyncStore
  <2>4. \A m \in Mail : hold'[m] # "import" BY <1>0, <2>3
  <2>5. capWork'["rematch"] = capWork["rematch"] BY <1>0, <2>3 DEF CapGoes, CapTypeOK
  <2> HIDE DEF ms, rekeyed, attached
  <2>6. RowIsOne' /\ Stays BY <1>0, <2>2, <2>3, AttachIsOne DEF Stays
  <2>7. QED BY <1>0, <1>2, <2>4, <2>5, <2>6 DEF KeysAreOne
<1>5. CASE RematchStore
  <2> DEFINE task == capWork["rematch"]
             held == {m \in task.page : task.held # "none"}
             ms == {m \in held : Keyed(m, task.held) = {}}
             attached == NewRowsOf(ms) \cup task.found \cup UNION {Keyed(m, task.held) : m \in held}
  <2>1. task \in CapWork /\ task.held \in {"none", "sync"}
    BY <1>0 DEF CapTypeOK, CapKinds, CapWork, Paths
  <2>2. held \in SUBSET Mail BY <2>1 DEF CapWork
  <2>3. /\ Attach(NewRowsOf(ms), {}, task.held, attached)
        /\ hold' = [m \in Mail |-> IF m \in held THEN "none" ELSE hold[m]]
        /\ CapGoes("rematch", Idle)
    BY <1>5 DEF RematchStore
  <2>4. capWork'["rematch"].held # "import" BY <1>0, <2>3 DEF CapGoes, CapTypeOK, Idle
  <2>5. RowIsOne' /\ Stays
    <3>1. CASE task.held = "sync"
      <4>1. ms \in SUBSET Mail BY <2>2
      <4>2. Attach(NewRowsOf(ms), {}, "sync", attached) BY <2>3, <3>1
      <4> HIDE DEF ms, attached
      <4>3. QED BY <1>0, <4>1, <4>2, AttachIsOne DEF Stays
    <3>2. CASE task.held = "none"
      <4>1. ms = {} BY <3>2
      <4>2. NewRowsOf(ms) = {} BY <4>1 DEF NewRowsOf
      <4>3. row' = row /\ key' = key BY <1>0, <2>3, <4>2 DEF Attach, CapTypeOK
      <4>4. QED BY <1>0, <1>3, <4>3 DEF RowIsOne
    <3>3. QED BY <2>1, <3>1, <3>2
  <2> HIDE DEF held
  <2>6. \A m \in Mail : hold'[m] # "import" BY <1>0, <2>3
  <2>7. QED BY <1>2, <2>4, <2>5, <2>6 DEF KeysAreOne
<1>6. CASE PurgeStore
  <2>1. \A r \in Rows : row'[r] # "live" \/ row'[r] = row[r]
    BY <1>6 DEF PurgeStore
  <2>2. Stays
    <3>1. ASSUME NEW m \in Mail, NEW r \in {m} \X {1, 2}, row'[r] = "live" PROVE row[r] = "live"
      BY <2>1, <3>1 DEF Rows
    <3>2. QED BY <3>1 DEF Stays
  <2>3. \A r \in Rows : row'[r] = "none" <=> row[r] = "none" BY <1>6 DEF PurgeStore
  <2>4. RowIsOne'
    <3>1. \A m \in Mail : <<m, 1>> \in Rows /\ <<m, 2>> \in Rows BY DEF Rows
    <3>2. key' = key BY <1>6 DEF PurgeStore
    <3>3. QED BY <1>0, <2>3, <3>1, <3>2 DEF RowIsOne
  <2>5. hold' = hold /\ capWork'["rematch"] = capWork["rematch"]
    BY <1>0, <1>6 DEF PurgeStore, CapGoes, CapTypeOK
  <2>6. QED BY <1>0, <1>2, <2>2, <2>4, <2>5 DEF KeysAreOne
<1>7. ASSUME UNCHANGED <<row, key, hold>>, capWork'["rematch"].held # "import"
      PROVE  KeysAreOne' /\ [PurgedStaysGone]_capVars
  BY <1>0, <1>2, <1>3, <1>7 DEF KeysAreOne, RowIsOne
<1>8. CASE SyncRead \/ SyncLook
  <2>1. \E new : CapGoes("sync", new) BY <1>8 DEF SyncRead, SyncLook, Reads, Begins
  <2>2. capWork'["rematch"] = capWork["rematch"] BY <1>0, <2>1 DEF CapGoes, CapTypeOK
  <2>3. UNCHANGED <<row, key, hold>> BY <1>8 DEF SyncRead, SyncLook, activityVars
  <2>4. QED BY <1>0, <1>7, <2>2, <2>3
<1>9. ASSUME NEW m \in Mail, RematchRead(m) PROVE KeysAreOne' /\ [PurgedStaysGone]_capVars
  <2>1. capWork'["rematch"].held = hold[m]
    BY <1>0, <1>9 DEF RematchRead, Begins, CapGoes, CapTypeOK, Idle
  <2>2. UNCHANGED <<row, key, hold>> BY <1>9 DEF RematchRead, activityVars
  <2>3. QED BY <1>0, <1>7, <2>1, <2>2
<1>10. ASSUME NEW rule \in purges, PurgeRead(rule)
       PROVE  KeysAreOne' /\ [PurgedStaysGone]_capVars
  <2>1. capWork'["rematch"] = capWork["rematch"]
    BY <1>0, <1>10 DEF PurgeRead, Begins, CapGoes, CapTypeOK
  <2>2. UNCHANGED <<row, key, hold>> BY <1>10 DEF PurgeRead, activityVars
  <2>3. QED BY <1>0, <1>7, <2>1, <2>2
<1>11. ASSUME NEW job \in CapKinds, JobFails(job)
       PROVE  KeysAreOne' /\ [PurgedStaysGone]_capVars
  <2>1. capWork'["rematch"] = capWork["rematch"] \/ capWork'["rematch"] = Idle
    BY <1>0, <1>11 DEF JobFails, CapGoes, CapTypeOK
  <2>2. Idle.held = "none" BY DEF Idle
  <2>3. UNCHANGED <<row, key, hold>> BY <1>11 DEF JobFails, activityVars
  <2>4. QED BY <1>0, <1>7, <2>1, <2>2, <2>3
<1>12. ASSUME NEW m \in Mail, RecordCreated(m) \/ Exclude(m) \/ Allow(m)
       PROVE  KeysAreOne' /\ [PurgedStaysGone]_capVars
  BY <1>0, <1>7, <1>12 DEF RecordCreated, Exclude, Allow, activityVars, jobVars
<1>13. CASE Arrives \/ UNCHANGED capVars
  BY <1>0, <1>7, <1>13 DEF Arrives, capVars, activityVars, jobVars
<1>14. QED
  BY <1>1, <1>4, <1>5, <1>6, <1>8, <1>9, <1>10, <1>11, <1>12, <1>13 DEF CapNext

LEMMA CapStart == ASSUME CapConstants, CapInit PROVE CapInv
<1>1. PICK inst \in CapInstances : capKinds = inst.kinds /\ capMail = inst.mail BY DEF CapInit
<1>2. inst = [kinds |-> capKinds, mail |-> capMail] /\ capMail \in 0..MaxMail
  BY <1>1 DEF CapConstants
<1>3. Idle \in CapWork /\ Idle.pc = "idle" BY IdleType
<1>4. arrived \in 0..MaxMail /\ importAt \in 0..MaxMail BY <1>2 DEF CapInit, CapConstants
<1>5. records \subseteq Mail
  BY <1>4 DEF CapInit, CapConstants, Mail
<1>6. NoCursor \in Cursors /\ NoCursor.mode = "none"
  BY DEF NoCursor, Cursors, CapConstants
<1>7. CapTypeOK
  <2>1. cursor \in Cursors /\ capWork \in [CapKinds -> CapWork] BY <1>3, <1>6 DEF CapInit
  <2>2. /\ policy \subseteq Mail /\ saves \in 0..MaxSaves /\ purges \subseteq SUBSET Mail
        /\ rematches \subseteq records /\ links \subseteq Rows
        /\ readOnce \subseteq 1..arrived /\ cut \subseteq 1..arrived
    BY DEF CapInit, CapConstants
  <2>3. /\ row \in [Rows -> {"none", "live", "gone"}] /\ key \in [Rows -> Paths \cup {"none"}]
        /\ count \in [Mail -> Nat] /\ hold \in [Mail -> Paths \cup {"none"}]
    BY DEF CapInit
  <2>4. [kinds |-> capKinds, mail |-> capMail] \in CapInstances BY <1>1, <1>2
  <2>5. QED BY <1>4, <1>5, <2>1, <2>2, <2>3, <2>4 DEF CapTypeOK
<1>8. JobsAreOfIt BY <1>3 DEF CapInit, JobsAreOfIt, CapKinds
<1>9. CountsMatchLinks
  <2>1. \A m : {r \in {} : r[1] = m} = {} OBVIOUS
  <2>2. QED BY <2>1, FS_EmptySet DEF CapInit, CountsMatchLinks
<1>10. CursorInv
  <2>1. capWork["sync"] = Idle BY DEF CapInit, CapKinds
  <2>2. Idle.page = {} /\ Idle.beyond = {} BY DEF Idle
  <2>3. QED BY <1>3, <1>6, <2>1, <2>2 DEF CapInit, CursorInv, Covers
<1>11. KeysAreOne
  <2>1. Idle.held = "none" BY DEF Idle
  <2>2. capWork["rematch"] = Idle BY DEF CapInit, CapKinds
  <2>3. \A m \in Mail : row[<<m, 1>>] = "none" /\ row[<<m, 2>>] = "none" /\ hold[m] = "none"
    BY DEF CapInit, Rows
  <2>4. QED BY <2>1, <2>2, <2>3 DEF KeysAreOne, RowIsOne
<1>12. QED BY <1>7, <1>8, <1>9, <1>10, <1>11 DEF CapInv

LEMMA CapStep ==
    ASSUME CapConstants, CapInv, [CapNext]_capVars
    PROVE  CapInv' /\ [PurgedStaysGone]_capVars
<1>1. CapTypeOK' /\ JobsAreOfIt' /\ CountsMatchLinks' BY CapTypeStep
<1>2. CursorInv' BY <1>1, CursorStep DEF CapTypeOK
<1>3. capKinds' = capKinds
  BY DEF CapNext, Arrives, SyncRead, SyncLook, SyncStore, ImportRead, ImportLook, ImportStore,
         RematchStore, PurgeStore, RecordCreated, RematchRead, Exclude, Allow, PurgeRead,
         JobFails, capVars
<1>4. CASE SyncsAlone BY <1>1, <1>2, <1>4, KeysStep DEF CapInv
<1>5. CASE ~SyncsAlone
  <2>1. PurgedStaysGone BY <1>5 DEF PurgedStaysGone, SyncsAlone
  <2>2. QED BY <1>1, <1>2, <1>3, <1>5, <2>1 DEF CapInv, SyncsAlone
<1>6. QED BY <1>4, <1>5

LEMMA NothingGetsLost == CapInv => NothingIsLost
<1>1. ASSUME CapInv, SyncsAlone, NEW m \in Mail PROVE Cardinality(RowsOf(m)) <= 1
  <2>1. row[<<m, 2>>] = "none" BY <1>1 DEF CapInv, KeysAreOne, RowIsOne
  <2>2. ASSUME NEW r \in RowsOf(m) PROVE r = <<m, 1>>
    BY <2>1, <2>2 DEF RowsOf
  <2>3. CASE RowsOf(m) = {} BY <2>3, FS_EmptySet
  <2>4. CASE RowsOf(m) # {}
    <3>1. RowsOf(m) = {<<m, 1>>} BY <2>2, <2>4
    <3>2. Cardinality({<<m, 1>>}) = 1 BY FS_Singleton
    <3>3. QED BY <3>1, <3>2
  <2>5. QED BY <2>3, <2>4
<1>2. CapInv => OneRowPerMessage BY <1>1 DEF OneRowPerMessage, SyncsAlone
<1>3. CapInv => CursorSkipsNothing BY DEF CapInv, CursorInv, Covers, CursorSkipsNothing
<1>4. CapInv => CountsMatchLinks BY DEF CapInv
<1>5. QED BY <1>2, <1>3, <1>4 DEF NothingIsLost, StoredOnce

LEMMA CaptureHolds == CapConstants => (CapSpec => []CapInv)
<1> SUFFICES ASSUME CapConstants PROVE CapSpec => []CapInv OBVIOUS
<1>1. CapInit => CapInv BY CapStart
<1>2. CapInv /\ [CapNext]_capVars => CapInv' BY CapStep
<1>3. QED BY <1>1, <1>2, PTL DEF CapSpec

(* The cursor, the settings, the jobs and the rows keep their types, and   *)
(* no record counts less than nothing.                                     *)
THEOREM CaptureTyped == CapConstants => (CapSpec => []CapTypeOK)
<1>1. CapInv => CapTypeOK BY DEF CapInv
<1>2. QED BY <1>1, CaptureHolds, PTL

(* Sync, import, rematch and purge at once: what is stored is counted once *)
(* and stored once, nothing that arrived is passed over, and what was      *)
(* purged stays gone (mailSync.ts, crmMatch.ts, capturePurge.ts,           *)
(* googleMail.ts).                                                         *)
THEOREM MailIsKept == CapConstants => (CapSpec => MailStands)
<1> SUFFICES ASSUME CapConstants PROVE CapSpec => MailStands OBVIOUS
<1>1. CapInv /\ [CapNext]_capVars => [PurgedStaysGone]_capVars BY CapStep
<1>2. QED BY <1>1, CaptureHolds, NothingGetsLost, PTL DEF CapSpec, MailStands

(***************************************************************************)
(* The composer.                                                           *)
(***************************************************************************)

(* How far a button is, but for the card it belongs to.                    *)
Alike(a, b) ==
    /\ a.kind = b.kind /\ a.pc = b.pc /\ a.asked = b.asked
    /\ a.text = b.text /\ a.slot = b.slot /\ a.at = b.at
PressIs(p, b) ==
    /\ Alike(press'[p], b)
    /\ \A q \in Presses \ {p} : Alike(press'[q], press[q])
ButtonsStay == \A q \in Presses : Alike(press'[q], press[q])

DeleteOut == \E p \in Presses : press[p].pc = "delete"
EditsLanded == \A s \in Slots : edits[s] = NoEdit

(* The step of a button that is pressed.                                   *)
Pressed(kind) ==
    [kind |-> kind, pc |-> "flush", asked |-> card.text, text |-> 0, at |-> acts,
     slot |-> IF Unsaved THEN FirstFree(edits) ELSE 0, here |-> TRUE]

LEMMA RoomHasSlot ==
    ASSUME ComposerTypeOK, Room
    PROVE  FirstFree(edits) \in Slots /\ edits[FirstFree(edits)] = NoEdit
<1> DEFINE Free == {s \in Slots : edits[s] = NoEdit}
<1>1. Free # {}
  <2>1. SUFFICES ASSUME Free = {} PROVE FALSE OBVIOUS
  <2>2. Cardinality(Free) = 0 BY <2>1, FS_EmptySet
  <2>3. QED BY <2>2 DEF Room
<1>2. \E s \in Slots : edits[s] = NoEdit /\ \A o \in 1..s - 1 : edits[o] # NoEdit
  <2>1. CASE edits[1] = NoEdit BY <2>1 DEF Slots
  <2>2. CASE edits[1] # NoEdit /\ edits[2] = NoEdit
    <3>1. \A o \in 1..2 - 1 : o = 1 OBVIOUS
    <3>2. QED BY <2>2, <3>1 DEF Slots
  <2>3. CASE edits[1] # NoEdit /\ edits[2] # NoEdit
    <3>1. edits[3] = NoEdit BY <1>1, <2>3 DEF Slots
    <3>2. \A o \in 1..3 - 1 : o = 1 \/ o = 2 OBVIOUS
    <3>3. QED BY <2>3, <3>1, <3>2 DEF Slots
  <2>4. QED BY <2>1, <2>2, <2>3
<1>3. QED BY <1>2 DEF FirstFree

LEMMA PatchType ==
    ASSUME NEW e \in [Slots -> Edits], NEW t \in Texts \cup {Keep}, NEW o \in SUBSET BOOLEAN
    PROVE  WithPatch(e, t, o) \in [Slots -> Edits]
<1>1. [st |-> "out", text |-> t, open |-> o] \in Edits BY DEF Edits
<1>2. QED BY <1>1 DEF WithPatch

LEMMA FlushType ==
    ASSUME ComposerConstants, ComposerTypeOK, NEW e \in [Slots -> Edits]
    PROVE  Flushed(e) \in [Slots -> Edits]
<1>1. CASE Unsaved
  <2>1. card.text \in Texts BY <1>1 DEF Unsaved, ComposerTypeOK, Cards
  <2>2. QED BY <2>1, PatchType, {} \in SUBSET BOOLEAN DEF Flushed
<1>2. CASE ~Unsaved BY <1>2 DEF Flushed
<1>3. QED BY <1>1, <1>2

LEMMA MergeType ==
    ASSUME ComposerConstants, ComposerTypeOK, NEW d, d = NoDraft \/ d \in DockCopies
    PROVE  /\ d = NoDraft => Merged(d) = NoDraft
           /\ d # NoDraft => /\ Merged(d) \in DockCopies /\ Merged(d) # NoDraft
                             /\ Merged(d).text = (IF Unsaved THEN card.text ELSE d.text)
                             /\ Merged(d).open = d.open
<1>1. Unsaved => card.text \in Texts BY DEF Unsaved, ComposerTypeOK, Cards
<1>2. QED BY <1>1 DEF Merged, ComposerConstants, DockCopies

LEMMA NotPressedType == ComposerConstants => NotPressed \in Steps
BY DEF NotPressed, Steps, Texts, ComposerConstants, AtServer

LEMMA StepType ==
    ASSUME NEW b \in Steps,
           NEW pc \in AtServer \cup {"idle", "flush", "post", "ok", "failed", "delete"},
           NEW text \in Texts
    PROVE  /\ [b EXCEPT !.pc = pc] \in Steps
           /\ [b EXCEPT !.pc = pc, !.slot = 0] \in Steps
           /\ [b EXCEPT !.pc = pc, !.text = text] \in Steps
<1>1. PICK a : a = [b EXCEPT !.pc = pc] OBVIOUS
<1>2. a \in Steps BY <1>1 DEF Steps
<1>3. PICK c : c = [b EXCEPT !.pc = pc, !.slot = 0] OBVIOUS
<1>4. c = [a EXCEPT !.slot = 0] BY <1>1, <1>3 DEF Steps
<1>5. c \in Steps BY <1>2, <1>4 DEF Steps
<1>6. PICK d : d = [b EXCEPT !.pc = pc, !.text = text] OBVIOUS
<1>7. d = [a EXCEPT !.text = text] BY <1>1, <1>6 DEF Steps
<1>8. d \in Steps BY <1>2, <1>7 DEF Steps
<1>9. QED BY <1>1, <1>2, <1>3, <1>5, <1>6, <1>8

LEMMA NoEditType == ComposerConstants => NoEdit \in Edits /\ Keep \notin Texts
BY DEF NoEdit, Edits, Texts, Keep, ComposerConstants

LEMMA PutGoes ==
    ASSUME ComposerTypeOK, NEW p \in Presses, NEW b \in Steps, Put(p, b)
    PROVE  PressIs(p, b) /\ press' \in [Presses -> Steps]
BY DEF Put, PressIs, Alike, ComposerTypeOK

LEMMA UnmountGoes ==
    ASSUME NEW pr \in [Presses -> Steps], Unmount(pr)
    PROVE  /\ press' \in [Presses -> Steps] /\ card' = NoDraft
           /\ \A q \in Presses : Alike(press'[q], pr[q])
<1>1. \A q \in Presses : [pr[q] EXCEPT !.here = FALSE] \in Steps BY DEF Steps
<1>2. \A q \in Presses : Alike([pr[q] EXCEPT !.here = FALSE], pr[q]) BY DEF Steps, Alike
<1>3. QED BY <1>1, <1>2 DEF Unmount

LEMMA CloseGoes ==
    ASSUME ComposerConstants, ComposerTypeOK, NEW p \in Presses, NEW e \in [Slots -> Edits],
           closeCard(p, e)
    PROVE  /\ PressIs(p, NotPressed) /\ press' \in [Presses -> Steps] /\ card' = NoDraft
           /\ edits' = Flushed(WithPatch(e, Keep, {FALSE})) /\ edits' \in [Slots -> Edits]
           /\ dock = NoDraft => dock' = NoDraft
           /\ dock # NoDraft => /\ dock' \in DockCopies /\ dock' # NoDraft /\ dock'.open = FALSE
                                /\ dock'.text = (IF Unsaved THEN card.text ELSE dock.text)
<1>1. [press EXCEPT ![p] = NotPressed] \in [Presses -> Steps]
  BY NotPressedType DEF ComposerTypeOK
<1>2. PressIs(p, NotPressed) /\ press' \in [Presses -> Steps] /\ card' = NoDraft
  <2>1. Unmount([press EXCEPT ![p] = NotPressed]) BY DEF closeCard
  <2>2. QED BY <1>1, <2>1, UnmountGoes DEF PressIs, ComposerTypeOK
<1>3. WithPatch(e, Keep, {FALSE}) \in [Slots -> Edits]
  BY PatchType, {FALSE} \in SUBSET BOOLEAN
<1>4. edits' = Flushed(WithPatch(e, Keep, {FALSE})) /\ edits' \in [Slots -> Edits]
  BY <1>3, FlushType DEF closeCard
<1>5. PICK closed : /\ closed = IF dock = NoDraft THEN NoDraft ELSE [dock EXCEPT !.open = FALSE]
                    /\ dock' = Merged(closed)
  BY DEF closeCard
<1>6. /\ dock = NoDraft => closed = NoDraft
      /\ dock # NoDraft => /\ closed \in DockCopies /\ closed # NoDraft
                           /\ closed.open = FALSE /\ closed.text = dock.text
  BY <1>5 DEF ComposerTypeOK, DockCopies, ComposerConstants
<1>7. QED BY <1>2, <1>4, <1>5, <1>6, MergeType

LEMMA DiscardGoes ==
    ASSUME ComposerConstants, ComposerTypeOK, NEW p \in Presses, NEW e \in [Slots -> Edits],
           discardDraft(p, e)
    PROVE  /\ press' \in [Presses -> Steps] /\ edits' \in [Slots -> Edits]
           /\ DeleteOut =>
                 PressIs(p, NotPressed) /\ edits' = e /\ dock' = dock /\ card' = card
           /\ ~DeleteOut => /\ PressIs(p, [press[p] EXCEPT !.pc = "delete", !.slot = 0])
                            /\ edits' = Flushed(e) /\ dock' = NoDraft /\ card' = NoDraft
<1>1. CASE DeleteOut
  BY <1>1, NotPressedType, PutGoes DEF discardDraft, onScreen, DeleteOut
<1>2. CASE ~DeleteOut
  <2>1. PICK gone : gone = [press[p] EXCEPT !.pc = "delete", !.slot = 0] OBVIOUS
  <2>2. gone \in Steps
    <3>1. press[p] \in Steps BY DEF ComposerTypeOK
    <3>2. 0 \in Texts BY DEF Texts, ComposerConstants
    <3>3. QED BY <2>1, <3>1, <3>2, StepType
  <2>3. [press EXCEPT ![p].pc = "delete", ![p].slot = 0] = [press EXCEPT ![p] = gone]
    BY <2>1 DEF ComposerTypeOK, Steps
  <2>4. /\ dock' = NoDraft /\ edits' = Flushed(e) /\ Unmount([press EXCEPT ![p] = gone])
    BY <1>2, <2>3 DEF discardDraft, DeleteOut
  <2>5. [press EXCEPT ![p] = gone] \in [Presses -> Steps] BY <2>2 DEF ComposerTypeOK
  <2>6. QED BY <1>2, <2>1, <2>2, <2>4, <2>5, UnmountGoes, FlushType DEF PressIs, ComposerTypeOK
<1>3. QED BY <1>1, <1>2

-----------------------------------------------------------------------------
(* What each button does to itself.                                        *)

LEMMA PressGoes ==
    ASSUME ComposerConstants, ComposerTypeOK, NEW p \in Presses,
           NEW kind \in {"send", "away", "discard"}, Press(p, kind)
    PROVE  /\ PressIs(p, Pressed(kind)) /\ press' \in [Presses -> Steps]
           /\ edits' \in [Slots -> Edits] /\ card \in Cards /\ card' \in Cards
           /\ card'.saved = card.text /\ card'.text = card.text /\ card'.timer = card.timer
           /\ card' # NoDraft /\ press[p].pc = "idle" /\ press[p].kind = "none"
<1>1. card \in Cards BY DEF Press, ComposerTypeOK
<1>2. Unsaved => FirstFree(edits) \in 0..3
  BY RoomHasSlot DEF Press, Slots
<1>3. Pressed(kind) \in Steps
  <2>1. PICK slot \in 0..3 : slot = IF Unsaved THEN FirstFree(edits) ELSE 0 BY <1>2
  <2>2. card.text \in Texts /\ 0 \in Texts /\ acts \in 0..MaxActs
    BY <1>1 DEF Cards, ComposerTypeOK, Texts, ComposerConstants
  <2>3. [kind |-> kind, pc |-> "flush", asked |-> card.text, text |-> 0, at |-> acts,
         slot |-> slot, here |-> TRUE] \in Steps
    BY <2>2 DEF Steps
  <2>4. QED BY <2>1, <2>3 DEF Pressed
<1>4. Put(p, Pressed(kind)) BY DEF Press, Pressed
<1>5. edits' \in [Slots -> Edits] BY FlushType DEF Press, ComposerTypeOK
<1>6. press[p].pc = "idle" /\ press[p].kind = "none" BY DEF Press, NotPressed
<1>7. QED BY <1>1, <1>3, <1>4, <1>5, <1>6, PutGoes DEF Press, Cards, ComposerConstants

LEMMA DeleteKeptGoes ==
    ASSUME ComposerConstants, ComposerTypeOK, NEW p \in Presses, DeleteKept(p)
    PROVE  /\ press' \in [Presses -> Steps]
           /\ \A q \in Presses \ {p} : Alike(press'[q], press[q])
           /\ press'[p].kind = "discard" /\ press'[p].pc = "flush" /\ press'[p].asked = 0
           /\ press'[p].slot = 0 /\ press[p].pc = "idle" /\ press[p].kind = "none"
<1>1. PICK b : b = [NotPressed EXCEPT !.kind = "discard", !.pc = "flush", !.at = acts] OBVIOUS
<1>2. b = [kind |-> "discard", pc |-> "flush", asked |-> 0, text |-> 0, slot |-> 0,
           at |-> acts, here |-> FALSE]
  BY <1>1 DEF NotPressed
<1>3. b \in Steps
  BY <1>2 DEF Steps, ComposerTypeOK, ComposerConstants, Texts
<1>4. Put(p, b) BY <1>1 DEF DeleteKept
<1>5. press[p].pc = "idle" /\ press[p].kind = "none" BY DEF DeleteKept, NotPressed
<1>6. PressIs(p, b) /\ press' \in [Presses -> Steps] BY <1>3, <1>4, PutGoes
<1>7. QED BY <1>2, <1>5, <1>6 DEF PressIs, Alike

(* What FlushEnds does, with the slot of its PATCH free again.             *)
FlushTo(p, e) ==
    \/ /\ press[p].kind = "send" /\ PressIs(p, [press[p] EXCEPT !.pc = "post", !.slot = 0])
       /\ edits' = e /\ UNCHANGED onScreen
    \/ press[p].kind = "away" /\ press[p].asked # 0 /\ closeCard(p, e)
    \/ /\ (press[p].kind = "away" /\ press[p].asked = 0) \/ press[p].kind = "discard"
       /\ discardDraft(p, e)

LEMMA FlushGoes ==
    ASSUME ComposerConstants, ComposerTypeOK, NEW p \in Presses, FlushEnds(p)
    PROVE  \E e \in [Slots -> Edits] :
              /\ \A s \in Slots : e[s] = IF s = press[p].slot THEN NoEdit ELSE edits[s]
              /\ FlushTo(p, e) /\ press' \in [Presses -> Steps]
<1>1. PICK e : e = IF press[p].slot = 0 THEN edits ELSE [edits EXCEPT ![press[p].slot] = NoEdit]
  OBVIOUS
<1>2. press[p] \in Steps BY DEF ComposerTypeOK
<1>3. /\ e \in [Slots -> Edits]
      /\ \A s \in Slots : e[s] = IF s = press[p].slot THEN NoEdit ELSE edits[s]
  <2>1. press[p].slot = 0 \/ press[p].slot \in Slots BY <1>2 DEF Steps, Slots
  <2>2. 0 \notin Slots BY DEF Slots
  <2>3. edits \in [Slots -> Edits] BY DEF ComposerTypeOK
  <2>4. QED BY <1>1, <2>1, <2>2, <2>3, NoEditType
<1>4. CASE press[p].kind = "send"
  <2>1. PICK b : b = [press[p] EXCEPT !.pc = "post", !.slot = 0] OBVIOUS
  <2>2. 0 \in Texts BY DEF Texts, ComposerConstants
  <2>3. b \in Steps BY <1>2, <2>1, <2>2, StepType
  <2>4. Put(p, b) /\ edits' = e /\ UNCHANGED onScreen BY <1>1, <1>4, <2>1 DEF FlushEnds
  <2>5. QED BY <1>3, <1>4, <2>1, <2>3, <2>4, PutGoes DEF FlushTo
<1>5. CASE press[p].kind = "away" /\ press[p].asked # 0
  <2>1. closeCard(p, e) BY <1>1, <1>5 DEF FlushEnds
  <2>2. QED BY <1>3, <1>5, <2>1, CloseGoes DEF FlushTo
<1>6. CASE (press[p].kind = "away" /\ press[p].asked = 0) \/ press[p].kind = "discard"
  <2>1. discardDraft(p, e) BY <1>1, <1>6 DEF FlushEnds
  <2>2. QED BY <1>3, <1>6, <2>1, DiscardGoes DEF FlushTo
<1>7. QED BY <1>4, <1>5, <1>6 DEF FlushEnds

(* The steps at the server, of the pc before and after.                    *)
ServerGoes(p, from, to) ==
    /\ press[p].pc = from /\ PressIs(p, [press[p] EXCEPT !.pc = to])
    /\ press' \in [Presses -> Steps]

LEMMA PcGoes ==
    ASSUME ComposerConstants, ComposerTypeOK, NEW p \in Presses,
           NEW to \in AtServer \cup {"ok", "failed"},
           Put(p, [press[p] EXCEPT !.pc = to])
    PROVE  ServerGoes(p, press[p].pc, to)
<1>1. PICK b : b = [press[p] EXCEPT !.pc = to] OBVIOUS
<1>2. press[p] \in Steps BY DEF ComposerTypeOK
<1>3. 0 \in Texts BY DEF Texts, ComposerConstants
<1>4. b \in Steps BY <1>1, <1>2, <1>3, StepType
<1>5. QED BY <1>1, <1>4, PutGoes DEF ServerGoes

LEMMA PostGoes ==
    ASSUME ComposerConstants, ComposerTypeOK, NEW p \in Presses, PostArrives(p)
    PROVE  \/ ServerGoes(p, "post", "failed")
           \/ /\ draft # NoDraft /\ draft \in Drafts /\ draft.text # 0 /\ press[p].pc = "post"
              /\ PressIs(p, [press[p] EXCEPT !.pc = "sending", !.text = draft.text])
              /\ press' \in [Presses -> Steps]
<1>1. CASE draft = NoDraft \/ draft.text = 0
  BY <1>1, PcGoes DEF PostArrives
<1>2. CASE ~(draft = NoDraft \/ draft.text = 0)
  <2>1. PICK b : b = [press[p] EXCEPT !.pc = "sending", !.text = draft.text] OBVIOUS
  <2>2. press[p] \in Steps /\ draft \in Drafts BY <1>2 DEF ComposerTypeOK
  <2>3. b \in Steps
    <3>1. draft.text \in Texts BY <2>2 DEF Drafts
    <3>2. QED BY <2>1, <2>2, <3>1, StepType DEF AtServer
  <2>4. Put(p, b) BY <1>2, <2>1 DEF PostArrives
  <2>5. QED BY <1>2, <2>1, <2>2, <2>3, <2>4, PutGoes DEF PostArrives
<1>3. QED BY <1>1, <1>2

(* A message that has gone, with what stood in the card.                   *)
Message(p) == [at |-> press[p].at, asked |-> press[p].asked, text |-> press[p].text]

LEMMA SendsGoes ==
    ASSUME ComposerConstants, ComposerTypeOK, NEW p \in Presses, Sends(p)
    PROVE  \/ /\ ServerGoes(p, "sending", IF Happens("noReceipt") THEN "recorded" ELSE "accepted")
              /\ outbox' = outbox \cup {Message(p)}
           \/ ServerGoes(p, "sending", "failed") /\ outbox' = outbox
<1>1. ASSUME Put(p, [press[p] EXCEPT !.pc = IF Happens("noReceipt") THEN "recorded"
                                            ELSE "accepted"])
      PROVE  ServerGoes(p, press[p].pc, IF Happens("noReceipt") THEN "recorded" ELSE "accepted")
  BY <1>1, PcGoes DEF AtServer
<1>2. ASSUME Put(p, [press[p] EXCEPT !.pc = "failed"])
      PROVE  ServerGoes(p, press[p].pc, "failed")
  BY <1>2, PcGoes
<1>3. QED BY <1>1, <1>2 DEF Sends, Message

LEMMA ServerStepsGo ==
    ASSUME ComposerConstants, ComposerTypeOK, NEW p \in Presses
    PROVE  /\ Records(p) => ServerGoes(p, "accepted", "recorded")
           /\ DeletesSent(p) => ServerGoes(p, "recorded", "ok")
           /\ ServerStops(p) => ServerGoes(p, press[p].pc, "failed")
           /\ DeleteArrives(p) => /\ press[p].pc = "delete" /\ PressIs(p, NotPressed)
                                  /\ press' \in [Presses -> Steps]
<1>1. Records(p) => ServerGoes(p, "accepted", "recorded") BY PcGoes DEF Records, AtServer
<1>2. DeletesSent(p) => ServerGoes(p, "recorded", "ok") BY PcGoes DEF DeletesSent
<1>3. ServerStops(p) => ServerGoes(p, press[p].pc, "failed") BY PcGoes DEF ServerStops
<1>4. QED BY <1>1, <1>2, <1>3, NotPressedType, PutGoes DEF DeleteArrives

LEMMA SendAnsweredGoes ==
    ASSUME ComposerConstants, ComposerTypeOK, NEW p \in Presses, SendAnswered(p)
    PROVE  /\ press' \in [Presses -> Steps]
           /\ \/ /\ press[p].pc = "failed" /\ PressIs(p, NotPressed)
                 /\ UNCHANGED <<dock, card, edits>>
              \/ press[p].pc = "ok" /\ discardDraft(p, edits)
<1>1. edits \in [Slots -> Edits] BY DEF ComposerTypeOK
<1>2. discardDraft(p, edits) => press' \in [Presses -> Steps] BY <1>1, DiscardGoes
<1>3. Put(p, NotPressed) => PressIs(p, NotPressed) /\ press' \in [Presses -> Steps]
  BY NotPressedType, PutGoes
<1>4. QED BY <1>2, <1>3 DEF SendAnswered, onScreen

-----------------------------------------------------------------------------
(* Of every step: the types of what it writes.                             *)
LEMMA EditKeepsDraft ==
    ASSUME ComposerConstants, ComposerTypeOK, NEW s \in Slots, EditArrives(s)
    PROVE  /\ draft = NoDraft => draft' = NoDraft
           /\ draft # NoDraft => draft' \in Drafts /\ draft' # NoDraft
<1>1. edits[s] \in Edits BY DEF ComposerTypeOK
<1>2. PICK written :
        /\ written = [text |-> IF edits[s].text = Keep THEN draft.text ELSE edits[s].text,
                     open |-> IF edits[s].open = {} THEN draft.open ELSE TRUE \in edits[s].open,
                     rev |-> draft.rev + 1]
        /\ \/ draft' = IF draft = NoDraft THEN NoDraft ELSE written
           \/ draft' = draft
  BY DEF EditArrives
<1>3. CASE draft # NoDraft
  <2>1. draft \in Drafts BY <1>3 DEF ComposerTypeOK
  <2>2. (IF edits[s].text = Keep THEN draft.text ELSE edits[s].text) \in Texts
    BY <1>1, <2>1 DEF Edits, Drafts
  <2>3. (IF edits[s].open = {} THEN draft.open ELSE TRUE \in edits[s].open) \in BOOLEAN
    <3>1. draft.open \in BOOLEAN BY <2>1 DEF Drafts
    <3>2. (TRUE \in edits[s].open) \in BOOLEAN OBVIOUS
    <3>3. QED BY <3>1, <3>2
  <2>4. draft.rev + 1 \in Nat BY <2>1 DEF Drafts
  <2>5. written \in Drafts BY <1>2, <2>2, <2>3, <2>4 DEF Drafts
  <2>6. QED BY <1>2, <1>3, <2>1, <2>5 DEF ComposerConstants
<1>4. QED BY <1>2, <1>3

LEMMA DraftTypeStep ==
    ASSUME ComposerConstants, ComposerTypeOK, [ComposerNext]_composerVars
    PROVE  /\ draft' = NoDraft \/ draft' \in Drafts
           /\ draft = NoDraft => draft' = NoDraft
           /\ draft # NoDraft /\ draft' = NoDraft =>
                 \E p \in Presses : DeletesSent(p) \/ DeleteArrives(p)
<1>1. ASSUME NEW s \in Slots, EditArrives(s)
      PROVE  /\ draft = NoDraft => draft' = NoDraft
             /\ draft # NoDraft => draft' \in Drafts /\ draft' # NoDraft
  BY <1>1, EditKeepsDraft
<1>2. ASSUME NEW p \in Presses, DeletesSent(p) \/ DeleteArrives(p)
      PROVE  draft' = NoDraft \/ draft' = draft
  BY <1>2 DEF DeletesSent, DeleteArrives
<1>3. CASE UNCHANGED draft BY <1>3 DEF ComposerTypeOK
<1>4. QED
  BY <1>1, <1>2, <1>3
  DEF ComposerTypeOK, ComposerNext, Write, reopenCard, Squeeze, Mount, Autosave, ListRead,
         ListAnswered, Press, DeleteKept, FlushEnds, SendAnswered, PostArrives, Sends, Records,
         ServerStops, composerVars

LEMMA WriteGoes ==
    ASSUME ComposerConstants, ComposerTypeOK, Write
    PROVE  /\ card' \in Cards /\ typed' \in Texts /\ typed <= typed'
           /\ card'.saved = card.saved /\ card'.timer = TRUE /\ card'.text \in {0, typed'}
<1>1. card \in Cards BY DEF Write, ComposerTypeOK
<1>2. typed \in Nat /\ MaxTyped \in Nat /\ typed \in Texts /\ 0 \in Texts
  BY DEF ComposerTypeOK, ComposerConstants, Texts
<1>3. ASSUME NEW t \in Texts, card' = [card EXCEPT !.text = t, !.timer = TRUE]
      PROVE  /\ card' \in Cards /\ card'.saved = card.saved /\ card'.timer = TRUE
             /\ card'.text = t
  BY <1>1, <1>3 DEF Cards
<1>4. CASE typed < MaxTyped /\ typed' = typed + 1
           /\ card' = [card EXCEPT !.text = typed + 1, !.timer = TRUE]
  <2>1. typed + 1 \in Texts /\ typed <= typed' BY <1>2, <1>4 DEF Texts
  <2>2. QED BY <1>3, <1>4, <2>1
<1>5. CASE card' = [card EXCEPT !.text = 0, !.timer = TRUE] /\ typed' = typed
  <2>1. typed <= typed' BY <1>2, <1>5
  <2>2. QED BY <1>2, <1>3, <1>5, <2>1
<1>6. QED BY <1>4, <1>5 DEF Write

LEMMA ComposerTypeStep ==
    ASSUME ComposerConstants, ComposerTypeOK, [ComposerNext]_composerVars
    PROVE  ComposerTypeOK' /\ composerKinds' = composerKinds
<1>1. card = NoDraft \/ card \in Cards BY DEF ComposerTypeOK
<1>2. dock = NoDraft \/ dock \in DockCopies BY DEF ComposerTypeOK
<1>3. dock \in DockCopies => dock # NoDraft BY DEF ComposerConstants
<1>4. edits \in [Slots -> Edits] /\ press \in [Presses -> Steps] BY DEF ComposerTypeOK
<1>5. Merged(dock) = NoDraft \/ Merged(dock) \in DockCopies BY <1>2, MergeType
<1>6. Flushed(edits) \in [Slots -> Edits] BY <1>4, FlushType
<1>7. draft' = NoDraft \/ draft' \in Drafts BY DraftTypeStep
<1>8. RepActs => acts' \in 0..MaxActs
  BY DEF RepActs, ComposerTypeOK, ComposerConstants
<1>9. CASE Write
  <2>1. card' \in Cards /\ typed' \in Texts BY <1>9, WriteGoes
  <2>2. QED BY <1>7, <1>8, <1>9, <2>1 DEF Write, ComposerTypeOK, lists, mail
<1>10. CASE reopenCard
  <2>1. [dock EXCEPT !.open = TRUE] \in DockCopies BY <1>2, <1>10 DEF reopenCard, DockCopies
  <2>2. WithPatch(edits, Keep, {TRUE}) \in [Slots -> Edits]
    BY <1>4, PatchType, {TRUE} \in SUBSET BOOLEAN
  <2>3. QED BY <1>7, <1>8, <1>10, <2>1, <2>2 DEF reopenCard, ComposerTypeOK, lists, mail
<1>11. CASE Squeeze
  <2>1. press' \in [Presses -> Steps] /\ card' = NoDraft
    BY <1>4, <1>11, UnmountGoes DEF Squeeze
  <2>2. QED
    BY <1>5, <1>6, <1>7, <1>8, <1>11, <2>1 DEF Squeeze, ComposerTypeOK, lists, mail
<1>12. CASE Mount
  <2>1. card' \in Cards BY <1>2, <1>12 DEF Mount, Cards, DockCopies
  <2>2. QED BY <1>7, <1>12, <2>1 DEF Mount, ComposerTypeOK, rep, lists, mail
<1>13. CASE Autosave
  <2>1. card' \in Cards BY <1>1, <1>13 DEF Autosave, Cards
  <2>2. QED BY <1>5, <1>6, <1>7, <1>13, <2>1 DEF Autosave, ComposerTypeOK, rep, lists, mail
<1>14. CASE ListRead
  BY <1>7, <1>14 DEF ListRead, ComposerTypeOK, onScreen, rep, mail
<1>15. CASE ListAnswered
  <2>1. dock' = NoDraft \/ dock' \in DockCopies
    BY <1>2, <1>15 DEF ListAnswered, ComposerTypeOK, Drafts, DockCopies
  <2>2. QED BY <1>7, <1>15, <2>1 DEF ListAnswered, ComposerTypeOK, rep, mail
<1>16. ASSUME NEW s \in Slots, EditArrives(s)
       PROVE  ComposerTypeOK' /\ composerKinds' = composerKinds
  <2>1. edits[s] \in Edits /\ [edits[s] EXCEPT !.st = "answered"] \in Edits
    BY <1>4 DEF Edits
  <2>2. edits' \in [Slots -> Edits] BY <1>4, <1>16, <2>1, NoEditType DEF EditArrives
  <2>3. QED BY <1>7, <1>16, <2>2 DEF EditArrives, ComposerTypeOK, onScreen, rep, lists, mail
<1>17. ASSUME NEW p \in Presses, NEW kind \in {"send", "away", "discard"}, Press(p, kind)
       PROVE  ComposerTypeOK' /\ composerKinds' = composerKinds
  <2>1. press' \in [Presses -> Steps] /\ edits' \in [Slots -> Edits] /\ card' \in Cards
    BY <1>17, PressGoes
  <2>2. QED BY <1>5, <1>7, <1>8, <1>17, <2>1 DEF Press, ComposerTypeOK, lists, mail
<1>18. ASSUME NEW p \in Presses, DeleteKept(p)
       PROVE  ComposerTypeOK' /\ composerKinds' = composerKinds
  <2>1. press' \in [Presses -> Steps] BY <1>18, DeleteKeptGoes
  <2>2. QED BY <1>7, <1>8, <1>18, <2>1 DEF DeleteKept, ComposerTypeOK, onScreen, lists, mail
<1>19. ASSUME NEW p \in Presses, NEW e \in [Slots -> Edits], closeCard(p, e) \/ discardDraft(p, e)
       PROVE  /\ edits' \in [Slots -> Edits]
              /\ dock' = NoDraft \/ dock' \in DockCopies
              /\ card' = NoDraft \/ card' \in Cards
  BY <1>1, <1>2, <1>19, CloseGoes, DiscardGoes
<1>20. ASSUME NEW p \in Presses, FlushEnds(p)
       PROVE  ComposerTypeOK' /\ composerKinds' = composerKinds
  <2>1. PICK e \in [Slots -> Edits] : FlushTo(p, e) /\ press' \in [Presses -> Steps]
    BY <1>20, FlushGoes
  <2>2. /\ edits' \in [Slots -> Edits]
        /\ dock' = NoDraft \/ dock' \in DockCopies
        /\ card' = NoDraft \/ card' \in Cards
    BY <1>1, <1>2, <1>19, <2>1 DEF FlushTo, onScreen
  <2>3. QED BY <1>7, <1>20, <2>1, <2>2 DEF FlushEnds, ComposerTypeOK, rep, lists, mail
<1>21. ASSUME NEW p \in Presses, SendAnswered(p)
       PROVE  ComposerTypeOK' /\ composerKinds' = composerKinds
  <2>1. /\ press' \in [Presses -> Steps]
        /\ UNCHANGED <<dock, card, edits>> \/ discardDraft(p, edits)
    BY <1>21, SendAnsweredGoes
  <2>2. /\ edits' \in [Slots -> Edits]
        /\ dock' = NoDraft \/ dock' \in DockCopies
        /\ card' = NoDraft \/ card' \in Cards
    BY <1>1, <1>2, <1>4, <1>19, <2>1
  <2>3. QED BY <1>7, <1>21, <2>1, <2>2 DEF SendAnswered, ComposerTypeOK, rep, lists, mail
<1>22. ASSUME NEW p \in Presses, PostArrives(p)
       PROVE  ComposerTypeOK' /\ composerKinds' = composerKinds
  <2>1. press' \in [Presses -> Steps] BY <1>22, PostGoes DEF ServerGoes
  <2>2. QED BY <1>7, <1>22, <2>1 DEF PostArrives, ComposerTypeOK, onScreen, rep, lists, mail
<1>23. ASSUME NEW p \in Presses, Sends(p)
       PROVE  ComposerTypeOK' /\ composerKinds' = composerKinds
  <2>1. press' \in [Presses -> Steps] BY <1>23, SendsGoes DEF ServerGoes
  <2>2. Message(p) \in [at : 0..MaxActs, asked : Texts, text : Texts]
    BY <1>4 DEF Message, Steps
  <2>3. outbox' \subseteq [at : 0..MaxActs, asked : Texts, text : Texts]
    BY <1>23, <2>2, SendsGoes DEF ComposerTypeOK
  <2>4. QED BY <1>7, <1>23, <2>1, <2>3 DEF Sends, ComposerTypeOK, onScreen, rep, lists
<1>24. ASSUME NEW p \in Presses, Records(p)
       PROVE  ComposerTypeOK' /\ composerKinds' = composerKinds
  <2>1. press' \in [Presses -> Steps] BY <1>24, ServerStepsGo DEF ServerGoes
  <2>2. sent' \subseteq 0..MaxActs BY <1>4, <1>24 DEF Records, ComposerTypeOK, Steps
  <2>3. QED BY <1>7, <1>24, <2>1, <2>2 DEF Records, ComposerTypeOK, onScreen, rep, lists
<1>25. ASSUME NEW p \in Presses, DeletesSent(p) \/ ServerStops(p)
       PROVE  ComposerTypeOK' /\ composerKinds' = composerKinds
  <2>1. press' \in [Presses -> Steps] BY <1>25, ServerStepsGo DEF ServerGoes
  <2>2. QED
    BY <1>7, <1>25, <2>1
    DEF DeletesSent, ServerStops, ComposerTypeOK, onScreen, rep, lists, mail
<1>26. ASSUME NEW p \in Presses, DeleteArrives(p)
       PROVE  ComposerTypeOK' /\ composerKinds' = composerKinds
  <2>1. press' \in [Presses -> Steps] BY <1>26, ServerStepsGo
  <2>2. QED
    BY <1>7, <1>26, <2>1 DEF DeleteArrives, ComposerTypeOK, onScreen, rep, lists, mail
<1>27. CASE UNCHANGED composerVars
  BY <1>27 DEF composerVars, ComposerTypeOK, onScreen, rep, lists, mail
<1>28. QED
  BY <1>9, <1>10, <1>11, <1>12, <1>13, <1>14, <1>15, <1>16, <1>17, <1>18, <1>20, <1>21, <1>22,
     <1>23, <1>24, <1>25, <1>26, <1>27
  DEF ComposerNext

-----------------------------------------------------------------------------
(* Why a button has got so far.                                            *)
Accepted(at) == \E m \in outbox : m.at = at
Recorded(at) == Happens("noReceipt") \/ at \in sent

HasCause(b) ==
    /\ b.pc \in AtServer \cup {"post", "ok", "failed"} => b.kind = "send"
    /\ b.pc \in {"accepted", "recorded", "ok"} => Accepted(b.at)
    /\ b.pc \in {"recorded", "ok"} => Recorded(b.at)
    /\ b.pc = "delete" => \/ b.kind = "discard" \/ (b.kind = "away" /\ b.asked = 0)
                          \/ (b.kind = "send" /\ Accepted(b.at) /\ Recorded(b.at))
    /\ b.pc = "ok" => draft = NoDraft
    /\ b.pc # "idle" => b.kind \in composerKinds

CauseInv == \A p \in Presses : HasCause(press[p])

(* What has been accepted and recorded stays so, and a row that is gone.   *)
MailGrows ==
    /\ composerKinds' = composerKinds /\ (draft = NoDraft => draft' = NoDraft)
    /\ outbox \subseteq outbox' /\ sent \subseteq sent'

LEMMA MailGrowsStep ==
    ASSUME ComposerConstants, ComposerTypeOK, [ComposerNext]_composerVars
    PROVE  MailGrows
<1>1. composerKinds' = composerKinds /\ (draft = NoDraft => draft' = NoDraft)
  BY DraftTypeStep, ComposerTypeStep
<1>2. outbox \subseteq outbox' /\ sent \subseteq sent'
  BY DEF ComposerNext, Write, reopenCard, Squeeze, Mount, Autosave, ListRead,
         ListAnswered, Press, DeleteKept, FlushEnds, SendAnswered, PostArrives, Sends, Records,
         ServerStops, EditArrives, DeletesSent, DeleteArrives, composerVars, mail
<1>3. QED BY <1>1, <1>2 DEF MailGrows

LEMMA CauseStays ==
    ASSUME MailGrows, NEW b, HasCause(b), NEW a, Alike(a, b)
    PROVE  HasCause(a)'
BY DEF MailGrows, HasCause, Alike, Accepted, Recorded, Happens

LEMMA CauseOfOne ==
    ASSUME MailGrows, CauseInv, NEW p \in Presses, NEW b, PressIs(p, b), HasCause(b)'
    PROVE  CauseInv'
<1>1. ASSUME NEW q \in Presses \ {p} PROVE HasCause(press[q])'
  BY <1>1, CauseStays DEF PressIs, CauseInv
<1>2. HasCause(press[p])'
  BY DEF PressIs, HasCause, Alike, Accepted, Recorded
<1>3. QED BY <1>1, <1>2 DEF CauseInv

LEMMA NotPressedHasCause == HasCause(NotPressed)'
BY DEF NotPressed, HasCause, AtServer

LEMMA DiscardCause ==
    ASSUME ComposerConstants, ComposerTypeOK, MailGrows, CauseInv, NEW p \in Presses,
           NEW e \in [Slots -> Edits], discardDraft(p, e),
           \/ press[p].pc = "ok"
           \/ press[p].pc = "flush" /\ press[p].kind = "away" /\ press[p].asked = 0
           \/ press[p].pc = "flush" /\ press[p].kind = "discard"
    PROVE  CauseInv'
<1>1. CASE DeleteOut
  <2>1. PICK b : b = NotPressed OBVIOUS
  <2>2. PressIs(p, b) BY <1>1, <2>1, DiscardGoes
  <2>3. HasCause(b)' BY <2>1, NotPressedHasCause
  <2>4. QED BY <2>2, <2>3, CauseOfOne
<1>2. CASE ~DeleteOut
  <2>1. PICK b : b = [press[p] EXCEPT !.pc = "delete", !.slot = 0] OBVIOUS
  <2>2. PressIs(p, b) BY <1>2, <2>1, DiscardGoes
  <2>3. press[p] \in Steps /\ HasCause(press[p]) BY DEF ComposerTypeOK, CauseInv
  <2>4. b.pc = "delete" /\ b.kind = press[p].kind /\ b.asked = press[p].asked /\ b.at = press[p].at
    BY <2>1, <2>3 DEF Steps
  <2>5. HasCause(b)
    BY <2>3, <2>4 DEF HasCause, AtServer
  <2>6. HasCause(b)' BY <2>5, CauseStays DEF Alike
  <2>7. QED BY <2>2, <2>6, CauseOfOne
<1>3. QED BY <1>1, <1>2

LEMMA CauseStep ==
    ASSUME ComposerConstants, ComposerTypeOK, CauseInv, [ComposerNext]_composerVars
    PROVE  CauseInv'
<1>1. MailGrows /\ \A p \in Presses : press[p] \in Steps /\ HasCause(press[p])
  BY MailGrowsStep DEF ComposerTypeOK, CauseInv
<1>2. ASSUME ButtonsStay PROVE CauseInv'
  <2>1. ASSUME NEW p \in Presses PROVE HasCause(press[p])'
    <3>1. PICK a, b : a = press'[p] /\ b = press[p] OBVIOUS
    <3>2. Alike(a, b) BY <1>2, <3>1 DEF ButtonsStay
    <3>3. HasCause(a)' BY <1>1, <3>1, <3>2, CauseStays
    <3>4. QED BY <3>1, <3>3 DEF HasCause, Accepted, Recorded
  <2>2. QED BY <2>1 DEF CauseInv
<1>3. CASE UNCHANGED press BY <1>2, <1>3 DEF ButtonsStay, Alike
<1>4. CASE Squeeze
  <2>1. press \in [Presses -> Steps] /\ Unmount(press) BY <1>4 DEF Squeeze, ComposerTypeOK
  <2>2. QED BY <1>2, <2>1, UnmountGoes DEF ButtonsStay
<1>5. ASSUME NEW p \in Presses, NEW kind \in {"send", "away", "discard"}, Press(p, kind)
      PROVE  CauseInv'
  <2>1. PICK b : b = Pressed(kind) OBVIOUS
  <2>2. b.pc = "flush" /\ b.kind = kind BY <2>1 DEF Pressed
  <2>3. kind \in composerKinds' BY <1>1, <1>5 DEF Press, Happens, MailGrows
  <2>4. HasCause(b)' BY <2>2, <2>3 DEF HasCause, AtServer
  <2>5. PressIs(p, b) BY <1>5, <2>1, PressGoes
  <2>6. QED BY <1>1, <2>4, <2>5, CauseOfOne
<1>6. ASSUME NEW p \in Presses, DeleteKept(p) PROVE CauseInv'
  <2>1. PICK b : b = press'[p] OBVIOUS
  <2>2. PressIs(p, b) /\ b.pc = "flush" /\ b.kind = "discard"
    BY <1>6, <2>1, DeleteKeptGoes DEF PressIs, Alike
  <2>3. "discard" \in composerKinds' BY <1>1, <1>6 DEF DeleteKept, Happens, MailGrows
  <2>4. HasCause(b)' BY <2>2, <2>3 DEF HasCause, AtServer
  <2>5. QED BY <1>1, <2>2, <2>4, CauseOfOne
<1>7. ASSUME NEW p \in Presses, PressIs(p, NotPressed) PROVE CauseInv'
  <2>1. PICK b : b = NotPressed OBVIOUS
  <2>2. HasCause(b)' BY <2>1, NotPressedHasCause
  <2>3. QED BY <1>1, <1>7, <2>1, <2>2, CauseOfOne
<1>8. ASSUME NEW p \in Presses, FlushEnds(p) PROVE CauseInv'
  <2>1. PICK e \in [Slots -> Edits] : FlushTo(p, e) BY <1>8, FlushGoes
  <2>2. press[p].pc = "flush" BY <1>8 DEF FlushEnds
  <2>3. CASE press[p].kind = "send" /\ PressIs(p, [press[p] EXCEPT !.pc = "post", !.slot = 0])
    <3>1. PICK b : b = [press[p] EXCEPT !.pc = "post", !.slot = 0] OBVIOUS
    <3>2. b.pc = "post" /\ b.kind = "send" BY <1>1, <2>3, <3>1 DEF Steps
    <3>3. "send" \in composerKinds' BY <1>1, <2>2, <2>3 DEF HasCause, MailGrows
    <3>4. HasCause(b)' BY <3>2, <3>3 DEF HasCause, AtServer
    <3>5. QED BY <1>1, <2>3, <3>1, <3>4, CauseOfOne
  <2>4. CASE closeCard(p, e) BY <1>7, <2>4, CloseGoes
  <2>5. CASE /\ (press[p].kind = "away" /\ press[p].asked = 0) \/ press[p].kind = "discard"
             /\ discardDraft(p, e)
    BY <1>1, <2>2, <2>5, DiscardCause
  <2>6. QED BY <2>1, <2>3, <2>4, <2>5 DEF FlushTo
<1>9. ASSUME NEW p \in Presses, SendAnswered(p) PROVE CauseInv'
  <2>1. edits \in [Slots -> Edits] BY DEF ComposerTypeOK
  <2>2. QED BY <1>1, <1>7, <1>9, <2>1, SendAnsweredGoes, DiscardCause
<1>10. ASSUME NEW p \in Presses, NEW to \in AtServer \cup {"ok", "failed"},
              ServerGoes(p, press[p].pc, to), press[p].pc \in AtServer \cup {"post"},
              NEW at, at = press[p].at, to \in {"accepted", "recorded", "ok"} => Accepted(at)',
              to \in {"recorded", "ok"} => Recorded(at)', to = "ok" => draft' = NoDraft
       PROVE  CauseInv'
  <2>1. PICK b : b = [press[p] EXCEPT !.pc = to] OBVIOUS
  <2>2. b.pc = to /\ b.kind = press[p].kind /\ b.at = at BY <1>1, <1>10, <2>1 DEF Steps
  <2>3. press[p].kind = "send" /\ "send" \in composerKinds'
    BY <1>1, <1>10 DEF HasCause, MailGrows, AtServer
  <2>4. HasCause(b)' BY <1>10, <2>2, <2>3 DEF HasCause, AtServer
  <2>5. QED BY <1>1, <1>10, <2>1, <2>4, CauseOfOne DEF ServerGoes
<1>11. ASSUME NEW p \in Presses, PostArrives(p) PROVE CauseInv'
  <2>1. CASE ServerGoes(p, "post", "failed")
    <3>1. PICK at : at = press[p].at OBVIOUS
    <3>2. QED BY <1>10, <2>1, <3>1 DEF ServerGoes
  <2>2. CASE PressIs(p, [press[p] EXCEPT !.pc = "sending", !.text = draft.text])
    <3>1. PICK b : b = [press[p] EXCEPT !.pc = "sending", !.text = draft.text] OBVIOUS
    <3>2. b.pc = "sending" /\ b.kind = press[p].kind BY <1>1, <3>1 DEF Steps
    <3>3. press[p].kind = "send" /\ "send" \in composerKinds'
      BY <1>1, <1>11 DEF PostArrives, HasCause, MailGrows, AtServer
    <3>4. HasCause(b)' BY <3>2, <3>3 DEF HasCause, AtServer
    <3>5. QED BY <1>1, <2>2, <3>1, <3>4, CauseOfOne
  <2>3. QED BY <1>11, <2>1, <2>2, PostGoes
<1>12. ASSUME NEW p \in Presses, Sends(p) PROVE CauseInv'
  <2>1. PICK at : at = press[p].at OBVIOUS
  <2>2. CASE ServerGoes(p, "sending", "failed")
    <3>1. press[p].pc = "sending" /\ "sending" \in AtServer BY <2>2 DEF ServerGoes, AtServer
    <3>2. QED BY <1>10, <2>1, <2>2, <3>1
  <2>3. CASE /\ ServerGoes(p, "sending", IF Happens("noReceipt") THEN "recorded" ELSE "accepted")
             /\ outbox' = outbox \cup {Message(p)}
    <3>1. Accepted(at)'
      <4>1. Message(p) \in outbox' /\ Message(p).at = at BY <2>1, <2>3 DEF Message
      <4>2. QED BY <4>1 DEF Accepted
    <3>2. Happens("noReceipt") => Recorded(at)' BY <1>1 DEF Recorded, Happens, MailGrows
    <3>3. PICK to : to = IF Happens("noReceipt") THEN "recorded" ELSE "accepted" OBVIOUS
    <3>4. to \in AtServer /\ to # "ok" /\ (to = "recorded" => Happens("noReceipt"))
      BY <3>3 DEF AtServer
    <3>5. press[p].pc = "sending" /\ "sending" \in AtServer BY <2>3 DEF ServerGoes, AtServer
    <3>6. QED BY <1>10, <2>1, <2>3, <3>1, <3>2, <3>3, <3>4, <3>5
  <2>4. QED BY <1>12, <2>2, <2>3, SendsGoes
<1>13. ASSUME NEW p \in Presses, Records(p) PROVE CauseInv'
  <2>1. PICK at : at = press[p].at OBVIOUS
  <2>2. ServerGoes(p, "accepted", "recorded") BY <1>13, ServerStepsGo
  <2>3. Accepted(at)' /\ Recorded(at)'
    BY <1>1, <1>13, <2>1, <2>2
    DEF Records, ServerGoes, HasCause, Accepted, Recorded, MailGrows
  <2>4. press[p].pc = "accepted" /\ "accepted" \in AtServer /\ "recorded" \in AtServer
    BY <2>2 DEF ServerGoes, AtServer
  <2>5. QED BY <1>10, <2>1, <2>2, <2>3, <2>4
<1>14. ASSUME NEW p \in Presses, DeletesSent(p) PROVE CauseInv'
  <2>1. PICK at : at = press[p].at OBVIOUS
  <2>2. ServerGoes(p, "recorded", "ok") BY <1>14, ServerStepsGo
  <2>3. Accepted(at)' /\ Recorded(at)'
    BY <1>1, <2>1, <2>2 DEF ServerGoes, HasCause, Accepted, Recorded, MailGrows, Happens
  <2>4. draft' = NoDraft BY <1>14 DEF DeletesSent
  <2>5. press[p].pc = "recorded" /\ "recorded" \in AtServer BY <2>2 DEF ServerGoes, AtServer
  <2>6. QED BY <1>10, <2>1, <2>2, <2>3, <2>4, <2>5
<1>15. ASSUME NEW p \in Presses, ServerStops(p) PROVE CauseInv'
  <2>1. PICK at : at = press[p].at OBVIOUS
  <2>2. ServerGoes(p, press[p].pc, "failed") /\ press[p].pc \in AtServer
    BY <1>15, ServerStepsGo DEF ServerStops
  <2>3. QED BY <1>10, <2>1, <2>2
<1>16. ASSUME NEW p \in Presses, DeleteArrives(p) PROVE CauseInv'
  BY <1>7, <1>16, ServerStepsGo
<1>17. CASE \/ Write \/ reopenCard \/ Mount \/ Autosave \/ ListRead \/ ListAnswered
            \/ (\E s \in Slots : EditArrives(s)) \/ UNCHANGED composerVars
  BY <1>3, <1>17
  DEF Write, reopenCard, Mount, Autosave, ListRead, ListAnswered, EditArrives, composerVars
<1>18. QED
  BY <1>4, <1>5, <1>6, <1>8, <1>9, <1>11, <1>12, <1>13, <1>14, <1>15, <1>16, <1>17
  DEF ComposerNext

(* The row goes by a DELETE that has its cause, or after its message.      *)
LEMMA CauseGoes ==
    ASSUME ComposerConstants, ComposerTypeOK, CauseInv, [ComposerNext]_composerVars
    PROVE  [GoesForCause]_composerVars
<1>1. ASSUME NEW p \in Presses, DeletesSent(p) \/ DeleteArrives(p) PROVE GoesForCause
  <2>1. HasCause(press[p]) /\ press[p].pc \in {"recorded", "delete"}
    BY <1>1 DEF DeletesSent, DeleteArrives, CauseInv
  <2>2. QED BY <2>1 DEF HasCause, GoesForCause, Accepted, Recorded, AtServer
<1>2. QED BY <1>1, DraftTypeStep DEF GoesForCause

-----------------------------------------------------------------------------
(* One message, where the server does not stop and no button is pressed    *)
(* while it is under way: there is one Send, and after its message it does *)
(* not send again and no other comes before the row is gone.               *)
AtOnce == composerKinds \cap {"crash", "again"} = {}
HasGone == {"accepted", "recorded"}
OnceInv ==
    AtOnce =>
        /\ \A p, q \in Presses : press[p].kind = "send" /\ press[q].kind = "send" => p = q
        /\ outbox # {} => /\ \A p \in Presses : press[p].pc # "sending"
                          /\ draft = NoDraft \/ \E p \in Presses : press[p].pc \in HasGone
        /\ \A m, n \in outbox : m = n

SendingStays ==
    \A q \in Presses :
        /\ press'[q].kind = "send" => press[q].kind = "send"
        /\ press'[q].pc = "sending" => press[q].pc = "sending"
        /\ press[q].pc \in HasGone => press'[q].pc \in HasGone

LEMMA OnceStays ==
    ASSUME OnceInv, MailGrows, SendingStays, outbox' = outbox
    PROVE  OnceInv'
BY DEF OnceInv, MailGrows, SendingStays, AtOnce

LEMMA SendingOfOne ==
    ASSUME NEW p \in Presses, NEW b, PressIs(p, b), b.kind = "send" => press[p].kind = "send",
           b.pc # "sending", press[p].pc \in HasGone => b.pc \in HasGone
    PROVE  SendingStays
BY DEF PressIs, Alike, SendingStays, HasGone

LEMMA DiscardKeepsSending ==
    ASSUME ComposerConstants, ComposerTypeOK, NEW p \in Presses, NEW e \in [Slots -> Edits],
           discardDraft(p, e), press[p].pc \in {"ok", "flush"}
    PROVE  SendingStays
<1>1. NotPressed.kind = "none" /\ NotPressed.pc = "idle" BY DEF NotPressed
<1>2. PICK b : b = [press[p] EXCEPT !.pc = "delete", !.slot = 0] OBVIOUS
<1>3. press[p] \in Steps BY DEF ComposerTypeOK
<1>4. b.pc = "delete" /\ b.kind = press[p].kind BY <1>2, <1>3 DEF Steps
<1>5. press[p].pc \notin HasGone BY DEF HasGone
<1>6. CASE PressIs(p, NotPressed) BY <1>1, <1>5, <1>6, SendingOfOne
<1>7. CASE PressIs(p, b) BY <1>4, <1>5, <1>7, SendingOfOne
<1>8. QED BY <1>2, <1>6, <1>7, DiscardGoes

LEMMA OnceStep ==
    ASSUME ComposerConstants, ComposerTypeOK, CauseInv, OnceInv, [ComposerNext]_composerVars
    PROVE  OnceInv'
<1>1. MailGrows /\ \A p \in Presses : press[p] \in Steps /\ HasCause(press[p])
  BY MailGrowsStep DEF ComposerTypeOK, CauseInv
<1>2. NotPressed.kind = "none" /\ NotPressed.pc = "idle" BY DEF NotPressed
<1>3. CASE UNCHANGED <<press, outbox>> BY <1>1, <1>3, OnceStays DEF SendingStays
<1>4. CASE Squeeze
  <2>1. press \in [Presses -> Steps] /\ Unmount(press) /\ outbox' = outbox
    BY <1>4 DEF Squeeze, ComposerTypeOK, mail
  <2>2. QED BY <1>1, <2>1, UnmountGoes, OnceStays DEF SendingStays, Alike
<1>5. ASSUME NEW p \in Presses, NEW kind \in {"send", "away", "discard"}, Press(p, kind)
      PROVE  OnceInv'
  <2>1. PICK b : b = Pressed(kind) OBVIOUS
  <2>2. PressIs(p, b) /\ b.pc = "flush" /\ b.kind = kind /\ press[p].pc = "idle"
    BY <1>5, <2>1, PressGoes DEF Pressed
  <2>3. outbox' = outbox BY <1>5 DEF Press, mail
  <2>4. CASE kind # "send"
    <3>1. SendingStays BY <2>2, <2>4, SendingOfOne DEF HasGone
    <3>2. QED BY <1>1, <2>3, <3>1, OnceStays
  <2>5. CASE kind = "send" /\ AtOnce
    <3>1. \A q \in Presses : press[q].kind # "send" BY <1>5, <2>5 DEF Press, AtOnce, Happens
    <3>2. \A q \in Presses \ {p} : press'[q].kind # "send" BY <2>2, <3>1 DEF PressIs, Alike
    <3>3. \A q \in Presses : press'[q].pc = "sending" => press[q].pc = "sending"
      BY <2>2 DEF PressIs, Alike
    <3>4. \A q \in Presses : press[q].pc \in HasGone => press'[q].pc \in HasGone
      BY <2>2 DEF PressIs, Alike, HasGone
    <3>5. QED BY <1>1, <2>3, <2>5, <3>2, <3>3, <3>4 DEF OnceInv, MailGrows
  <2>6. CASE ~AtOnce BY <1>1, <2>6 DEF AtOnce, OnceInv, MailGrows
  <2>7. QED BY <2>4, <2>5, <2>6
<1>6. ASSUME NEW p \in Presses, DeleteKept(p) PROVE OnceInv'
  <2>1. outbox' = outbox BY <1>6 DEF DeleteKept, mail
  <2>2. SendingStays BY <1>6, DeleteKeptGoes DEF SendingStays, Alike, HasGone
  <2>3. QED BY <1>1, <2>1, <2>2, OnceStays
<1>7. ASSUME NEW p \in Presses, PressIs(p, NotPressed), press[p].pc \notin HasGone
      PROVE  SendingStays
  BY <1>2, <1>7, SendingOfOne
<1>8. ASSUME NEW p \in Presses, FlushEnds(p) PROVE OnceInv'
  <2>1. PICK e \in [Slots -> Edits] : FlushTo(p, e) BY <1>8, FlushGoes
  <2>2. press[p].pc = "flush" /\ outbox' = outbox /\ press[p].pc \notin HasGone
    BY <1>8 DEF FlushEnds, mail, HasGone
  <2>3. CASE press[p].kind = "send" /\ PressIs(p, [press[p] EXCEPT !.pc = "post", !.slot = 0])
    <3>1. PICK b : b = [press[p] EXCEPT !.pc = "post", !.slot = 0] OBVIOUS
    <3>2. b.pc = "post" BY <1>1, <3>1 DEF Steps
    <3>3. SendingStays BY <2>2, <2>3, <3>1, <3>2, SendingOfOne
    <3>4. QED BY <1>1, <2>2, <3>3, OnceStays
  <2>4. CASE closeCard(p, e) BY <1>1, <1>7, <2>2, <2>4, CloseGoes, OnceStays
  <2>5. CASE discardDraft(p, e) BY <1>1, <2>2, <2>5, DiscardKeepsSending, OnceStays
  <2>6. QED BY <2>1, <2>3, <2>4, <2>5 DEF FlushTo
<1>9. ASSUME NEW p \in Presses, SendAnswered(p) PROVE OnceInv'
  <2>1. edits \in [Slots -> Edits] BY DEF ComposerTypeOK
  <2>2. outbox' = outbox BY <1>9 DEF SendAnswered, mail
  <2>3. CASE press[p].pc = "failed" /\ PressIs(p, NotPressed)
    BY <1>1, <1>7, <2>2, <2>3, OnceStays DEF HasGone
  <2>4. CASE press[p].pc = "ok" /\ discardDraft(p, edits)
    BY <1>1, <2>1, <2>2, <2>4, DiscardKeepsSending, OnceStays
  <2>5. QED BY <1>9, <2>3, <2>4, SendAnsweredGoes
<1>10. ASSUME NEW p \in Presses, NEW to \in {"failed", "recorded"},
              ServerGoes(p, press[p].pc, to), press[p].pc \in HasGone => to = "recorded",
              outbox' = outbox
       PROVE  OnceInv'
  <2>1. PICK b : b = [press[p] EXCEPT !.pc = to] OBVIOUS
  <2>2. b.pc = to /\ b.kind = press[p].kind BY <1>1, <2>1 DEF Steps
  <2>3. SendingStays BY <1>10, <2>1, <2>2, SendingOfOne DEF ServerGoes, HasGone
  <2>4. QED BY <1>1, <1>10, <2>3, OnceStays
<1>11. ASSUME NEW p \in Presses, PostArrives(p) PROVE OnceInv'
  <2>1. outbox' = outbox /\ press[p].pc = "post" BY <1>11 DEF PostArrives, mail
  <2>2. CASE ServerGoes(p, "post", "failed") BY <1>10, <2>1, <2>2 DEF HasGone
  <2>3. CASE /\ draft # NoDraft /\ AtOnce
             /\ PressIs(p, [press[p] EXCEPT !.pc = "sending", !.text = draft.text])
    <3>1. press[p].kind = "send" BY <1>1, <2>1 DEF HasCause
    <3>2. \A q \in Presses : press[q].pc \in HasGone => press[q].kind = "send"
      BY <1>1 DEF HasCause, HasGone, AtServer
    <3>3. \A q \in Presses : press[q].pc \notin HasGone
      BY <2>1, <2>3, <3>1, <3>2 DEF OnceInv, HasGone
    <3>4. outbox = {} BY <2>3, <3>3 DEF OnceInv
    <3>5. PICK b : b = [press[p] EXCEPT !.pc = "sending", !.text = draft.text] OBVIOUS
    <3>6. b.kind = press[p].kind BY <1>1, <3>5 DEF Steps
    <3>7. \A q \in Presses : press'[q].kind = press[q].kind
      BY <2>3, <3>5, <3>6 DEF PressIs, Alike
    <3>8. QED BY <2>1, <2>3, <3>4, <3>7 DEF OnceInv
  <2>4. CASE ~AtOnce BY <1>1, <2>4 DEF AtOnce, OnceInv, MailGrows
  <2>5. QED BY <1>11, <2>2, <2>3, <2>4, PostGoes
<1>12. ASSUME NEW p \in Presses, Sends(p) PROVE OnceInv'
  <2>1. CASE ServerGoes(p, "sending", "failed") /\ outbox' = outbox
    BY <1>10, <2>1 DEF ServerGoes, HasGone
  <2>2. CASE /\ ServerGoes(p, "sending", IF Happens("noReceipt") THEN "recorded" ELSE "accepted")
             /\ outbox' = outbox \cup {Message(p)} /\ AtOnce
    <3>1. PICK to : to = IF Happens("noReceipt") THEN "recorded" ELSE "accepted" OBVIOUS
    <3>2. PICK b : b = [press[p] EXCEPT !.pc = to] OBVIOUS
    <3>3. b.pc \in HasGone /\ b.kind = press[p].kind
      BY <1>1, <3>1, <3>2 DEF Steps, HasGone
    <3>4. PressIs(p, b) /\ press[p].pc = "sending" BY <2>2, <3>1, <3>2 DEF ServerGoes
    <3>5. /\ press[p].kind = "send"
          /\ \A q \in Presses : press[q].pc = "sending" => press[q].kind = "send"
      BY <1>1, <3>4 DEF HasCause, AtServer
    <3>6. outbox = {} /\ \A q \in Presses \ {p} : press[q].pc # "sending"
      BY <2>2, <3>4, <3>5 DEF OnceInv
    <3>7. \A q \in Presses : press'[q].kind = press[q].kind BY <3>3, <3>4 DEF PressIs, Alike
    <3>8. press'[p].pc \in HasGone /\ \A q \in Presses : press'[q].pc # "sending"
      BY <3>3, <3>4, <3>6 DEF PressIs, Alike, HasGone
    <3>9. QED BY <2>2, <3>6, <3>7, <3>8 DEF OnceInv
  <2>3. CASE ~AtOnce BY <1>1, <2>3 DEF AtOnce, OnceInv, MailGrows
  <2>4. QED BY <1>12, <2>1, <2>2, <2>3, SendsGoes
<1>13. ASSUME NEW p \in Presses, Records(p) PROVE OnceInv'
  <2>1. ServerGoes(p, "accepted", "recorded") BY <1>13, ServerStepsGo
  <2>2. outbox' = outbox BY <1>13 DEF Records
  <2>3. QED BY <1>10, <2>1, <2>2 DEF ServerGoes
<1>14. ASSUME NEW p \in Presses, DeletesSent(p) PROVE OnceInv'
  <2>1. PICK b : b = [press[p] EXCEPT !.pc = "ok"] OBVIOUS
  <2>2. b.pc = "ok" /\ b.kind = press[p].kind BY <1>1, <2>1 DEF Steps
  <2>3. PressIs(p, b) BY <1>14, <2>1, ServerStepsGo DEF ServerGoes
  <2>4. \A q \in Presses : /\ press'[q].kind = press[q].kind
                           /\ press'[q].pc = "sending" => press[q].pc = "sending"
    BY <2>2, <2>3 DEF PressIs, Alike
  <2>5. draft' = NoDraft /\ outbox' = outbox BY <1>14 DEF DeletesSent, mail
  <2>6. QED BY <1>1, <2>4, <2>5 DEF OnceInv, AtOnce, MailGrows
<1>15. ASSUME NEW p \in Presses, ServerStops(p) PROVE OnceInv'
  BY <1>1, <1>15 DEF ServerStops, Happens, AtOnce, OnceInv, MailGrows
<1>16. ASSUME NEW p \in Presses, DeleteArrives(p) PROVE OnceInv'
  <2>1. press[p].pc = "delete" /\ PressIs(p, NotPressed) BY <1>16, ServerStepsGo
  <2>2. outbox' = outbox BY <1>16 DEF DeleteArrives, mail
  <2>3. QED BY <1>1, <1>7, <2>1, <2>2, OnceStays DEF HasGone
<1>17. CASE \/ Write \/ reopenCard \/ Mount \/ Autosave \/ ListRead \/ ListAnswered
            \/ (\E s \in Slots : EditArrives(s)) \/ UNCHANGED composerVars
  BY <1>3, <1>17
  DEF Write, reopenCard, Mount, Autosave, ListRead, ListAnswered, EditArrives, composerVars, mail
<1>18. QED
  BY <1>4, <1>5, <1>6, <1>8, <1>9, <1>11, <1>12, <1>13, <1>14, <1>15, <1>16, <1>17
  DEF ComposerNext

-----------------------------------------------------------------------------
(* Where a DELETE does not fail: the dock drops a draft for good, and lets *)
(* go of it before the row goes, but for the moment after a send.          *)
DockInv ==
    /\ dock = NoDraft => card = NoDraft
    /\ ~Happens("deleteFails") =>
         /\ fetch.st = "no" /\ (dock # NoDraft => ~DeleteOut)
         /\ draft = NoDraft /\ dock # NoDraft => \E p \in Presses : press[p].pc = "ok"
         /\ dock = NoDraft => draft = NoDraft \/ DeleteOut

PcsStay ==
    \A q \in Presses : /\ press'[q].pc = "delete" <=> press[q].pc = "delete"
                       /\ press[q].pc = "ok" => press'[q].pc = "ok"
DockStays ==
    /\ dock' = NoDraft <=> dock = NoDraft
    /\ dock' = NoDraft => card' = NoDraft
DraftStays == draft' = NoDraft <=> draft = NoDraft

LEMMA DropStays ==
    ASSUME DockInv, composerKinds' = composerKinds, PcsStay, DockStays, DraftStays, fetch' = fetch
    PROVE  DockInv'
BY DEF DockInv, PcsStay, DockStays, DraftStays, DeleteOut, Happens

LEMMA PcsOfOne ==
    ASSUME NEW p \in Presses, NEW b, PressIs(p, b), b.pc # "delete", press[p].pc # "delete",
           press[p].pc # "ok"
    PROVE  PcsStay
BY DEF PressIs, Alike, PcsStay

LEMMA MergeStays ==
    ASSUME ComposerConstants, ComposerTypeOK, dock' = Merged(dock)
    PROVE  dock' = NoDraft <=> dock = NoDraft
BY MergeType DEF ComposerTypeOK

LEMMA DropDiscards ==
    ASSUME ComposerConstants, ComposerTypeOK, DockInv, composerKinds' = composerKinds,
           NEW p \in Presses, NEW e \in [Slots -> Edits], discardDraft(p, e),
           press[p].pc \in {"ok", "flush"}, draft' = draft, fetch' = fetch
    PROVE  DockInv'
<1>1. press[p] \in Steps BY DEF ComposerTypeOK
<1>2. CASE DeleteOut
  <2>1. PressIs(p, NotPressed) /\ dock' = dock /\ card' = card BY <1>2, DiscardGoes
  <2>2. NotPressed.pc = "idle" BY DEF NotPressed
  <2>3. DeleteOut' BY <1>2, <2>1 DEF DeleteOut, PressIs, Alike
  <2>4. QED BY <1>2, <2>1, <2>3 DEF DockInv, Happens
<1>3. CASE ~DeleteOut
  <2>1. PICK b : b = [press[p] EXCEPT !.pc = "delete", !.slot = 0] OBVIOUS
  <2>2. b.pc = "delete" BY <1>1, <2>1 DEF Steps
  <2>3. PressIs(p, b) /\ dock' = NoDraft /\ card' = NoDraft BY <1>3, <2>1, DiscardGoes
  <2>4. DeleteOut' BY <2>2, <2>3 DEF DeleteOut, PressIs, Alike
  <2>5. QED BY <2>3, <2>4 DEF DockInv, Happens
<1>4. QED BY <1>2, <1>3

LEMMA DockStep ==
    ASSUME ComposerConstants, ComposerTypeOK, DockInv, [ComposerNext]_composerVars
    PROVE  DockInv'
<1>1. composerKinds' = composerKinds /\ \A p \in Presses : press[p] \in Steps
  BY ComposerTypeStep DEF ComposerTypeOK
<1>2. NotPressed.pc = "idle" BY DEF NotPressed
<1>3. dock = NoDraft => card = NoDraft BY DEF DockInv
<1>4. CASE Write \/ Mount
  <2>1. PcsStay /\ DraftStays /\ fetch' = fetch
    BY <1>4 DEF Write, Mount, PcsStay, DraftStays, lists
  <2>2. DockStays BY <1>3, <1>4 DEF Write, Mount, DockStays
  <2>3. QED BY <1>1, <2>1, <2>2, DropStays
<1>5. CASE reopenCard
  <2>1. PcsStay /\ DraftStays /\ fetch' = fetch BY <1>5 DEF reopenCard, PcsStay, DraftStays, lists
  <2>2. [dock EXCEPT !.open = TRUE] \in DockCopies
    BY <1>5 DEF reopenCard, DockCopies, ComposerTypeOK
  <2>3. DockStays BY <1>3, <1>5, <2>2 DEF reopenCard, DockStays, ComposerConstants
  <2>4. QED BY <1>1, <2>1, <2>3, DropStays
<1>6. CASE Squeeze
  <2>1. press \in [Presses -> Steps] /\ Unmount(press) BY <1>6 DEF Squeeze, ComposerTypeOK
  <2>2. PcsStay /\ card' = NoDraft BY <2>1, UnmountGoes DEF PcsStay, Alike
  <2>3. DraftStays /\ fetch' = fetch BY <1>6 DEF Squeeze, DraftStays, lists
  <2>4. DockStays BY <1>6, <2>2, MergeStays DEF Squeeze, DockStays
  <2>5. QED BY <1>1, <2>2, <2>3, <2>4, DropStays
<1>7. CASE Autosave
  <2>1. PcsStay /\ DraftStays /\ fetch' = fetch BY <1>7 DEF Autosave, PcsStay, DraftStays, lists
  <2>2. DockStays BY <1>3, <1>7, MergeStays DEF Autosave, DockStays
  <2>3. QED BY <1>1, <2>1, <2>2, DropStays
<1>8. CASE ListRead
  BY <1>1, <1>8 DEF ListRead, DockInv, Happens, onScreen
<1>9. CASE ListAnswered
  BY <1>1, <1>9 DEF ListAnswered, DockInv, Happens
<1>10. ASSUME NEW s \in Slots, EditArrives(s) PROVE DockInv'
  <2>1. PcsStay /\ DockStays /\ fetch' = fetch
    BY <1>3, <1>10 DEF EditArrives, PcsStay, DockStays, onScreen, lists
  <2>2. DraftStays
    BY <1>10, EditKeepsDraft DEF DraftStays
  <2>3. QED BY <1>1, <2>1, <2>2, DropStays
<1>11. ASSUME NEW p \in Presses, NEW kind \in {"send", "away", "discard"}, Press(p, kind)
       PROVE  DockInv'
  <2>1. PICK b : b = Pressed(kind) OBVIOUS
  <2>2. PressIs(p, b) /\ b.pc = "flush" /\ press[p].pc = "idle"
    BY <1>11, <2>1, PressGoes DEF Pressed
  <2>3. PcsStay BY <2>2, PcsOfOne
  <2>4. DraftStays /\ fetch' = fetch BY <1>11 DEF Press, DraftStays, lists
  <2>5. DockStays BY <1>3, <1>11, MergeStays DEF Press, DockStays
  <2>6. QED BY <1>1, <2>3, <2>4, <2>5, DropStays
<1>12. ASSUME NEW p \in Presses, DeleteKept(p) PROVE DockInv'
  <2>1. PcsStay BY <1>12, DeleteKeptGoes DEF PcsStay, Alike
  <2>2. DraftStays /\ DockStays /\ fetch' = fetch
    BY <1>3, <1>12 DEF DeleteKept, DraftStays, DockStays, onScreen, lists
  <2>3. QED BY <1>1, <2>1, <2>2, DropStays
<1>13. ASSUME NEW p \in Presses, FlushEnds(p) PROVE DockInv'
  <2>1. PICK e \in [Slots -> Edits] : FlushTo(p, e) BY <1>13, FlushGoes
  <2>2. press[p].pc = "flush" /\ draft' = draft /\ fetch' = fetch BY <1>13 DEF FlushEnds, lists
  <2>3. CASE PressIs(p, [press[p] EXCEPT !.pc = "post", !.slot = 0]) /\ UNCHANGED onScreen
    <3>1. PICK b : b = [press[p] EXCEPT !.pc = "post", !.slot = 0] OBVIOUS
    <3>2. b.pc = "post" BY <1>1, <3>1 DEF Steps
    <3>3. PcsStay BY <2>2, <2>3, <3>1, <3>2, PcsOfOne
    <3>4. DockStays BY <1>3, <2>3 DEF DockStays, onScreen
    <3>5. QED BY <1>1, <2>2, <3>3, <3>4, DropStays DEF DraftStays
  <2>4. CASE closeCard(p, e)
    <3>1. PcsStay BY <1>2, <2>2, <2>4, CloseGoes, PcsOfOne
    <3>2. DockStays BY <2>4, CloseGoes DEF DockStays
    <3>3. QED BY <1>1, <2>2, <3>1, <3>2, DropStays DEF DraftStays
  <2>5. CASE discardDraft(p, e) BY <1>1, <2>2, <2>5, DropDiscards
  <2>6. QED BY <2>1, <2>3, <2>4, <2>5 DEF FlushTo
<1>14. ASSUME NEW p \in Presses, SendAnswered(p) PROVE DockInv'
  <2>1. edits \in [Slots -> Edits] BY DEF ComposerTypeOK
  <2>2. draft' = draft /\ fetch' = fetch BY <1>14 DEF SendAnswered, lists
  <2>3. CASE press[p].pc = "failed" /\ PressIs(p, NotPressed) /\ UNCHANGED <<dock, card, edits>>
    <3>1. PcsStay BY <1>2, <2>3, PcsOfOne
    <3>2. DockStays BY <1>3, <2>3 DEF DockStays
    <3>3. QED BY <1>1, <2>2, <3>1, <3>2, DropStays DEF DraftStays
  <2>4. CASE press[p].pc = "ok" /\ discardDraft(p, edits) BY <1>1, <2>1, <2>2, <2>4, DropDiscards
  <2>5. QED BY <1>14, <2>3, <2>4, SendAnsweredGoes
<1>15. ASSUME NEW p \in Presses,
              NEW from \in AtServer \cup {"post"}, NEW to \in AtServer \cup {"failed"},
              ServerGoes(p, from, to), UNCHANGED <<draft, dock, card, fetch>>
       PROVE  DockInv'
  <2>1. PICK b : b = [press[p] EXCEPT !.pc = to] OBVIOUS
  <2>2. b.pc = to BY <1>1, <2>1 DEF Steps
  <2>3. PcsStay BY <1>15, <2>1, <2>2, PcsOfOne DEF ServerGoes, AtServer
  <2>4. DockStays BY <1>3, <1>15 DEF DockStays
  <2>5. QED BY <1>1, <1>15, <2>3, <2>4, DropStays DEF DraftStays
<1>16. ASSUME NEW p \in Presses, PostArrives(p) PROVE DockInv'
  <2>1. UNCHANGED <<draft, dock, card, fetch>> BY <1>16 DEF PostArrives, onScreen, lists
  <2>2. CASE ServerGoes(p, "post", "failed") BY <1>15, <2>1, <2>2
  <2>3. CASE /\ PressIs(p, [press[p] EXCEPT !.pc = "sending", !.text = draft.text])
             /\ press[p].pc = "post"
    <3>1. PICK b : b = [press[p] EXCEPT !.pc = "sending", !.text = draft.text] OBVIOUS
    <3>2. b.pc = "sending" BY <1>1, <3>1 DEF Steps
    <3>3. PcsStay BY <2>3, <3>1, <3>2, PcsOfOne
    <3>4. DockStays BY <1>3, <2>1 DEF DockStays
    <3>5. QED BY <1>1, <2>1, <3>3, <3>4, DropStays DEF DraftStays
  <2>4. QED BY <1>16, <2>2, <2>3, PostGoes
<1>17. ASSUME NEW p \in Presses, Sends(p) \/ Records(p) \/ ServerStops(p) PROVE DockInv'
  <2>1. UNCHANGED <<draft, dock, card, fetch>>
    BY <1>17 DEF Sends, Records, ServerStops, onScreen, lists
  <2>2. PICK from \in AtServer, to \in AtServer \cup {"failed"} : ServerGoes(p, from, to)
    BY <1>17, SendsGoes, ServerStepsGo DEF AtServer, ServerStops
  <2>3. QED BY <1>15, <2>1, <2>2
<1>18. ASSUME NEW p \in Presses, DeletesSent(p) PROVE DockInv'
  <2>1. PICK b : b = [press[p] EXCEPT !.pc = "ok"] OBVIOUS
  <2>2. b.pc = "ok" BY <1>1, <2>1 DEF Steps
  <2>3. PressIs(p, b) /\ press[p].pc = "recorded" BY <1>18, <2>1, ServerStepsGo DEF ServerGoes
  <2>4. \A q \in Presses : press'[q].pc = "delete" <=> press[q].pc = "delete"
    BY <2>2, <2>3 DEF PressIs, Alike
  <2>5. press'[p].pc = "ok" BY <2>2, <2>3 DEF PressIs, Alike
  <2>6. UNCHANGED <<dock, card, fetch>> /\ draft' = NoDraft
    BY <1>18 DEF DeletesSent, onScreen, lists
  <2>7. QED BY <1>1, <2>4, <2>5, <2>6 DEF DockInv, DeleteOut, Happens
<1>19. ASSUME NEW p \in Presses, DeleteArrives(p) PROVE DockInv'
  <2>1. press[p].pc = "delete" /\ PressIs(p, NotPressed) BY <1>19, ServerStepsGo
  <2>2. DeleteOut BY <2>1 DEF DeleteOut
  <2>3. UNCHANGED <<dock, card>> BY <1>19 DEF DeleteArrives, onScreen
  <2>4. ~Happens("deleteFails") => draft' = NoDraft /\ fetch' = fetch
    BY <1>19 DEF DeleteArrives, lists
  <2>5. QED BY <1>1, <2>2, <2>3, <2>4 DEF DockInv, Happens
<1>20. CASE UNCHANGED composerVars
  BY <1>1, <1>20 DEF composerVars, onScreen, lists, DockInv, DeleteOut, Happens
<1>21. QED
  BY <1>4, <1>5, <1>6, <1>7, <1>8, <1>9, <1>10, <1>11, <1>12, <1>13, <1>14, <1>16, <1>17, <1>18,
     <1>19, <1>20
  DEF ComposerNext

-----------------------------------------------------------------------------
(* The slots a PATCH takes when none is under way.                         *)
QuietOf(e) == \A s \in Slots : e[s] = NoEdit
OutEdit(text, open) == [st |-> "out", text |-> text, open |-> open]

LEMMA PatchTakesFirst ==
    ASSUME NEW e \in [Slots -> Edits], QuietOf(e), NEW t, NEW o
    PROVE  /\ WithPatch(e, t, o)[1] = OutEdit(t, o)
           /\ WithPatch(e, t, o)[2] = NoEdit /\ WithPatch(e, t, o)[3] = NoEdit
           /\ FirstFree(e) = 1
<1>1. 1 \in Slots /\ 2 \in Slots /\ 3 \in Slots /\ Slots \subseteq Nat BY DEF Slots
<1>2. e[1] = NoEdit /\ \A o1 \in 1..1 - 1 : e[o1] # NoEdit BY <1>1 DEF QuietOf
<1>3. ASSUME NEW s \in Slots, e[s] = NoEdit, \A o1 \in 1..s - 1 : e[o1] # NoEdit
      PROVE  s = 1
  <2>1. SUFFICES ASSUME s # 1 PROVE FALSE OBVIOUS
  <2>2. 1 \in 1..s - 1 BY <1>3, <2>1 DEF Slots
  <2>3. QED BY <1>2, <1>3, <2>2
<1>4. FirstFree(e) = 1 BY <1>1, <1>2, <1>3 DEF FirstFree
<1>5. QED BY <1>1, <1>4 DEF WithPatch, QuietOf, OutEdit

LEMMA PatchTakesSecond ==
    ASSUME NEW e \in [Slots -> Edits], e[1] # NoEdit, e[2] = NoEdit, e[3] = NoEdit, NEW t, NEW o
    PROVE  /\ WithPatch(e, t, o)[1] = e[1] /\ WithPatch(e, t, o)[2] = OutEdit(t, o)
           /\ WithPatch(e, t, o)[3] = NoEdit
<1>1. 1 \in Slots /\ 2 \in Slots /\ 3 \in Slots BY DEF Slots
<1>2. \A o1 \in 1..2 - 1 : e[o1] # NoEdit
  <2>1. \A o1 \in 1..2 - 1 : o1 = 1 OBVIOUS
  <2>2. QED BY <2>1
<1>3. ASSUME NEW s \in Slots, e[s] = NoEdit, \A o1 \in 1..s - 1 : e[o1] # NoEdit
      PROVE  s = 2
  <2>1. SUFFICES ASSUME s = 3 PROVE FALSE BY <1>3 DEF Slots
  <2>2. 2 \in 1..s - 1 BY <2>1
  <2>3. QED BY <1>3, <2>2
<1>4. FirstFree(e) = 2 BY <1>1, <1>2, <1>3 DEF FirstFree
<1>5. QED BY <1>1, <1>4 DEF WithPatch, OutEdit

LEMMA OutIsEdit == \A t, o : OutEdit(t, o) # NoEdit /\ OutEdit(t, o).st = "out"
                             /\ OutEdit(t, o).text = t /\ OutEdit(t, o).open = o
BY DEF OutEdit, NoEdit

-----------------------------------------------------------------------------
(* Where no PATCH overtakes another, of a draft that stands: one flush at  *)
(* a time, of a draft in the dock, and no other PATCH with it; one DELETE, *)
(* of a draft that is not in the dock; and no refetch but of such a draft. *)
OneFlush(p) ==
    press[p].pc = "flush" =>
        /\ dock # NoDraft
        /\ \A q \in Presses \ {p} : press[q].pc # "flush"
        /\ \A s \in Slots : IF s = press[p].slot THEN edits[s].st \in {"out", "answered"}
                            ELSE edits[s] = NoEdit
ScreenInv ==
    ~Happens("slow") /\ draft # NoDraft =>
        /\ \A p \in Presses : OneFlush(p)
        /\ \A p, q \in Presses : press[p].pc = "delete" /\ press[q].pc = "delete" => p = q
        /\ DeleteOut => dock = NoDraft /\ fetch.st = "no"
        /\ fetch.st # "no" => dock = NoDraft
        /\ fetch.st = "read" => fetch.data = draft /\ EditsLanded

(* Where the callbacks are over and no PATCH is under way, nobody flushes. *)
LEMMA CalmIsQuiet ==
    ASSUME ComposerTypeOK, ScreenInv, ~Happens("slow"), draft # NoDraft, Settled, Calm
    PROVE  EditsLanded /\ \A q \in Presses : press[q].pc # "flush"
<1>1. EditsLanded BY DEF Calm, EditsLanded
<1>2. ASSUME NEW q \in Presses, press[q].pc = "flush" PROVE FALSE
  <2>1. press[q].slot # 0 BY <1>2 DEF Settled
  <2>2. press[q].slot \in Slots BY <2>1 DEF ComposerTypeOK, Steps, Slots
  <2>3. edits[press[q].slot].st \in {"out", "answered"} BY <1>2, <2>2 DEF ScreenInv, OneFlush
  <2>4. QED BY <1>1, <2>2, <2>3 DEF EditsLanded, NoEdit
<1>3. QED BY <1>1, <1>2

LEMMA ScreenStays ==
    ASSUME ScreenInv, composerKinds' = composerKinds, UNCHANGED <<draft, dock, edits, fetch>>,
           \A q \in Presses : press'[q].pc \in {"flush", "delete"} =>
               press'[q].pc = press[q].pc /\ press'[q].slot = press[q].slot
    PROVE  ScreenInv'
BY DEF ScreenInv, OneFlush, DeleteOut, EditsLanded, Happens

LEMMA ScreenShows ==
    ASSUME \A q \in Presses : press'[q].pc # "delete", fetch'.st = "no",
           \A q \in Presses : press'[q].pc # "flush"
    PROVE  ScreenInv'
BY DEF ScreenInv, OneFlush, DeleteOut

LEMMA ScreenStep ==
    ASSUME ComposerConstants, ComposerTypeOK, CauseInv, DockInv, ScreenInv,
           [ComposerNext]_composerVars
    PROVE  ScreenInv'
<1>1. composerKinds' = composerKinds /\ (draft = NoDraft => draft' = NoDraft)
      /\ \A p \in Presses : press[p] \in Steps
  BY MailGrowsStep DEF MailGrows, ComposerTypeOK
<1>2. SUFFICES ASSUME ~Happens("slow"), draft # NoDraft, draft' # NoDraft PROVE ScreenInv'
  BY <1>1 DEF ScreenInv, Happens
<1>3. NotPressed.pc = "idle" BY DEF NotPressed
<1>4. dock # NoDraft =>
        fetch.st = "no" /\ \A q \in Presses : press[q].pc # "delete"
  BY <1>2 DEF ScreenInv, DeleteOut
<1>5. card # NoDraft => dock # NoDraft BY DEF DockInv
<1>6. Settled /\ Calm => EditsLanded /\ \A q \in Presses : press[q].pc # "flush" BY <1>2, CalmIsQuiet
<1>7. CASE Write \/ Mount \/ UNCHANGED composerVars
  <2>1. UNCHANGED <<draft, dock, edits, fetch, press>>
    BY <1>7 DEF Write, Mount, composerVars, onScreen, lists
  <2>2. QED BY <1>1, <2>1, ScreenStays
<1>8. CASE reopenCard \/ Autosave
  <2>1. Settled /\ Calm /\ dock # NoDraft /\ press' = press /\ fetch' = fetch
    BY <1>5, <1>8 DEF reopenCard, Autosave, RepActs, lists
  <2>2. QED BY <1>4, <1>6, <2>1, ScreenShows
<1>9. CASE Squeeze
  <2>1. press \in [Presses -> Steps] /\ Unmount(press) /\ Settled /\ Calm /\ fetch' = fetch
    BY <1>9 DEF Squeeze, ComposerTypeOK, RepActs, lists
  <2>2. dock # NoDraft BY <1>5, <1>9 DEF Squeeze
  <2>3. QED BY <1>4, <1>6, <2>1, <2>2, UnmountGoes, ScreenShows DEF Alike
<1>10. CASE ListRead
  <2>1. dock = NoDraft /\ EditsLanded BY <1>2, <1>10 DEF ListRead, ScreenInv, Calm, EditsLanded
  <2>2. ~DeleteOut BY <1>2, <1>10 DEF ListRead, ScreenInv
  <2>3. \A q \in Presses : press[q].pc # "flush" BY <1>2, <2>1 DEF ScreenInv, OneFlush
  <2>4. fetch' = [st |-> "read", data |-> draft] /\ UNCHANGED <<draft, dock, edits, press>>
    BY <1>10 DEF ListRead, onScreen
  <2>5. QED BY <2>1, <2>2, <2>3, <2>4 DEF ScreenInv, OneFlush, DeleteOut, EditsLanded
<1>11. CASE ListAnswered
  <2>1. dock = NoDraft /\ ~DeleteOut BY <1>2, <1>11 DEF ListAnswered, ScreenInv
  <2>2. \A q \in Presses : press[q].pc # "flush" BY <1>2, <2>1 DEF ScreenInv, OneFlush
  <2>3. fetch'.st = "no" /\ press' = press BY <1>11 DEF ListAnswered
  <2>4. QED BY <2>1, <2>2, <2>3, ScreenShows DEF DeleteOut
<1>12. ASSUME NEW s \in Slots, EditArrives(s) PROVE ScreenInv'
  <2>1. edits[s].st = "out" /\ UNCHANGED <<dock, press, fetch>> /\ edits[s] \in Edits
    BY <1>12 DEF EditArrives, onScreen, lists, ComposerTypeOK
  <2>2. edits[s] # NoEdit BY <2>1 DEF NoEdit
  <2>3. fetch.st # "read" BY <1>2, <2>2 DEF ScreenInv, EditsLanded
  <2>4. ASSUME NEW p \in Presses PROVE OneFlush(p)'
    <3>1. SUFFICES ASSUME press[p].pc = "flush" PROVE OneFlush(p)' BY <2>1 DEF OneFlush
    <3>2. OneFlush(p) BY <1>2 DEF ScreenInv
    <3>3. s = press[p].slot BY <2>2, <3>1, <3>2 DEF OneFlush
    <3>4. edits' = [edits EXCEPT ![s] = [edits[s] EXCEPT !.st = "answered"]]
      BY <1>12, <3>1, <3>3 DEF EditArrives
    <3>5. edits'[s].st = "answered" /\ \A t \in Slots \ {s} : edits'[t] = edits[t]
      BY <2>1, <3>4 DEF ComposerTypeOK, Edits
    <3>6. QED BY <2>1, <3>1, <3>2, <3>3, <3>5 DEF OneFlush
  <2>5. QED BY <1>2, <2>1, <2>3, <2>4 DEF ScreenInv, DeleteOut
<1>13. ASSUME NEW p \in Presses, NEW kind \in {"send", "away", "discard"}, Press(p, kind)
       PROVE  ScreenInv'
  <2>1. Settled /\ Calm /\ dock # NoDraft /\ fetch' = fetch
    BY <1>5, <1>13 DEF Press, RepActs, lists
  <2>2. PICK b : b = Pressed(kind) OBVIOUS
  <2>3. PressIs(p, b) /\ b.pc = "flush" /\ b.slot = IF Unsaved THEN FirstFree(edits) ELSE 0
    BY <1>13, <2>2, PressGoes DEF Pressed
  <2>4. /\ \A q \in Presses : press'[q].pc # "delete"
        /\ \A q \in Presses \ {p} : press'[q].pc # "flush"
    BY <1>4, <1>6, <2>1, <2>3 DEF PressIs, Alike
  <2>5. press'[p].slot = IF Unsaved THEN FirstFree(edits) ELSE 0 BY <2>3 DEF PressIs, Alike
  <2>6. dock' # NoDraft BY <1>13, <2>1, MergeStays DEF Press
  <2>7. \A s \in Slots : IF s = press'[p].slot THEN edits'[s].st \in {"out", "answered"}
                         ELSE edits'[s] = NoEdit
    <3>1. edits \in [Slots -> Edits] /\ QuietOf(edits) /\ edits' = Flushed(edits)
      BY <1>6, <1>13, <2>1 DEF Press, ComposerTypeOK, EditsLanded, QuietOf
    <3>2. CASE Unsaved
      <4>1. edits' = WithPatch(edits, card.text, {}) BY <3>1, <3>2 DEF Flushed
      <4>2. edits'[1].st = "out" /\ edits'[2] = NoEdit /\ edits'[3] = NoEdit /\ FirstFree(edits) = 1
        BY <3>1, <4>1, PatchTakesFirst, OutIsEdit
      <4>3. QED BY <2>5, <3>2, <4>2 DEF Slots
    <3>3. CASE ~Unsaved BY <2>5, <3>1, <3>3 DEF Flushed, QuietOf, Slots
    <3>4. QED BY <3>2, <3>3
  <2>8. QED BY <2>1, <1>4, <2>4, <2>6, <2>7 DEF ScreenInv, OneFlush, DeleteOut
<1>14. ASSUME NEW p \in Presses, DeleteKept(p) PROVE ScreenInv'
  <2>1. Settled /\ Calm /\ dock # NoDraft /\ UNCHANGED <<draft, dock, edits, fetch>>
    BY <1>14 DEF DeleteKept, RepActs, lists, onScreen
  <2>2. /\ press'[p].pc = "flush" /\ press'[p].slot = 0
        /\ \A q \in Presses : press'[q].pc # "delete"
        /\ \A q \in Presses \ {p} : press'[q].pc # "flush"
    BY <1>4, <1>6, <1>14, <2>1, DeleteKeptGoes DEF Alike
  <2>3. EditsLanded /\ 0 \notin Slots BY <1>6, <2>1 DEF Slots
  <2>4. QED BY <1>4, <2>1, <2>2, <2>3 DEF ScreenInv, OneFlush, DeleteOut, EditsLanded
<1>15. ASSUME NEW p \in Presses, FlushEnds(p) PROVE ScreenInv'
  <2>1. PICK e \in [Slots -> Edits] : FlushTo(p, e) BY <1>15, FlushGoes
  <2>2. press[p].pc = "flush" /\ fetch' = fetch BY <1>15 DEF FlushEnds, lists
  <2>3. dock # NoDraft /\ \A q \in Presses \ {p} : press[q].pc # "flush"
    BY <1>2, <2>2 DEF ScreenInv, OneFlush
  <2>4. ASSUME NEW b, PressIs(p, b), b.pc \notin {"flush", "delete"} PROVE ScreenInv'
    <3>1. \A q \in Presses : press'[q].pc \notin {"flush", "delete"}
      BY <1>4, <2>3, <2>4 DEF PressIs, Alike
    <3>2. QED BY <1>4, <2>2, <2>3, <3>1, ScreenShows
  <2>5. CASE PressIs(p, [press[p] EXCEPT !.pc = "post", !.slot = 0])
    <3>1. PICK b : b = [press[p] EXCEPT !.pc = "post", !.slot = 0] OBVIOUS
    <3>2. b.pc = "post" BY <1>1, <3>1 DEF Steps
    <3>3. QED BY <2>4, <2>5, <3>1, <3>2
  <2>6. CASE closeCard(p, e) BY <1>3, <2>4, <2>6, CloseGoes
  <2>7. CASE discardDraft(p, e)
    <3>1. ~DeleteOut BY <1>4, <2>3 DEF DeleteOut
    <3>2. PICK b : b = [press[p] EXCEPT !.pc = "delete", !.slot = 0] OBVIOUS
    <3>3. b.pc = "delete" BY <1>1, <3>2 DEF Steps
    <3>4. PressIs(p, b) /\ dock' = NoDraft BY <2>7, <3>1, <3>2, DiscardGoes
    <3>5. /\ \A q \in Presses \ {p} : press'[q].pc \notin {"flush", "delete"}
          /\ press'[p].pc = "delete"
      BY <1>4, <2>3, <3>3, <3>4 DEF PressIs, Alike
    <3>6. QED BY <1>4, <2>2, <2>3, <3>4, <3>5 DEF ScreenInv, OneFlush
  <2>8. QED BY <2>1, <2>5, <2>6, <2>7 DEF FlushTo
<1>16. ASSUME NEW p \in Presses, SendAnswered(p) PROVE ScreenInv'
  <2>1. press[p].pc # "ok" BY <1>2 DEF CauseInv, HasCause
  <2>2. PressIs(p, NotPressed) /\ UNCHANGED <<dock, card, edits>>
    BY <1>16, <2>1, SendAnsweredGoes
  <2>3. UNCHANGED <<draft, fetch>> BY <1>16 DEF SendAnswered, lists
  <2>4. QED BY <1>1, <1>3, <2>2, <2>3, ScreenStays DEF PressIs, Alike
<1>17. ASSUME NEW p \in Presses, NEW from, NEW to \in AtServer \cup {"failed"},
              ServerGoes(p, from, to), UNCHANGED <<draft, dock, edits, fetch>>
       PROVE  ScreenInv'
  <2>1. PICK b : b = [press[p] EXCEPT !.pc = to] OBVIOUS
  <2>2. b.pc = to BY <1>1, <2>1 DEF Steps
  <2>3. PressIs(p, b) /\ b.pc \notin {"flush", "delete"}
    BY <1>17, <2>1, <2>2 DEF ServerGoes, AtServer
  <2>4. QED BY <1>1, <1>17, <2>3, ScreenStays DEF PressIs, Alike
<1>18. ASSUME NEW p \in Presses, PostArrives(p) PROVE ScreenInv'
  <2>1. UNCHANGED <<draft, dock, edits, fetch>> BY <1>18 DEF PostArrives, onScreen, lists
  <2>2. CASE ServerGoes(p, "post", "failed") BY <1>17, <2>1, <2>2
  <2>3. CASE PressIs(p, [press[p] EXCEPT !.pc = "sending", !.text = draft.text])
    <3>1. PICK b : b = [press[p] EXCEPT !.pc = "sending", !.text = draft.text] OBVIOUS
    <3>2. b.pc = "sending" BY <1>1, <3>1 DEF Steps
    <3>3. QED BY <1>1, <2>1, <2>3, <3>1, <3>2, ScreenStays DEF PressIs, Alike
  <2>4. QED BY <1>18, <2>2, <2>3, PostGoes
<1>19. ASSUME NEW p \in Presses, Sends(p) \/ Records(p) \/ ServerStops(p) PROVE ScreenInv'
  <2>1. UNCHANGED <<draft, dock, edits, fetch>>
    BY <1>19 DEF Sends, Records, ServerStops, onScreen, lists
  <2>2. \E from \in AtServer, to \in AtServer \cup {"failed"} : ServerGoes(p, from, to)
    BY <1>19, SendsGoes, ServerStepsGo DEF AtServer, ServerStops
  <2>3. QED BY <1>17, <2>1, <2>2
<1>20. ASSUME NEW p \in Presses, DeletesSent(p) PROVE ScreenInv'
  BY <1>2, <1>20 DEF DeletesSent
<1>21. ASSUME NEW p \in Presses, DeleteArrives(p) PROVE ScreenInv'
  <2>1. press[p].pc = "delete" /\ PressIs(p, NotPressed) BY <1>21, ServerStepsGo
  <2>2. dock = NoDraft /\ fetch.st = "no" /\ \A q \in Presses \ {p} : press[q].pc # "delete"
    BY <1>2, <2>1 DEF ScreenInv, DeleteOut
  <2>3. \A q \in Presses : press[q].pc # "flush" BY <1>2, <2>2 DEF ScreenInv, OneFlush
  <2>4. \A q \in Presses : press'[q].pc \notin {"flush", "delete"}
    BY <1>3, <2>1, <2>2, <2>3 DEF PressIs, Alike
  <2>5. dock' = dock /\ fetch' = [st |-> "out", data |-> NoDraft]
    BY <1>2, <1>21 DEF DeleteArrives, onScreen
  <2>6. QED BY <2>2, <2>4, <2>5 DEF ScreenInv, OneFlush, DeleteOut
<1>22. QED
  BY <1>7, <1>8, <1>9, <1>10, <1>11, <1>12, <1>13, <1>14, <1>15, <1>16, <1>18, <1>19, <1>20, <1>21
  DEF ComposerNext

-----------------------------------------------------------------------------
(* Where a DELETE may fail, and nothing is sent: a draft that has gone has *)
(* nothing left, and one that stands without the dock is being deleted, is *)
(* being fetched, or is just what the last list showed.                    *)
MayFail == Happens("deleteFails") /\ ~Happens("slow") /\ ~Happens("send")
BackInv ==
    MayFail =>
        /\ draft = NoDraft =>
              dock = NoDraft /\ fetch.st = "no" /\ \A p \in Presses : press[p].pc = "idle"
        /\ draft # NoDraft /\ dock = NoDraft =>
              DeleteOut \/ fetch.st # "no" \/ (draft = listed /\ EditsLanded)

LEMMA BackStep ==
    ASSUME ComposerConstants, ComposerTypeOK, CauseInv, DockInv, ScreenInv, BackInv,
           [ComposerNext]_composerVars
    PROVE  BackInv'
<1>1. /\ composerKinds' = composerKinds /\ (draft = NoDraft => draft' = NoDraft)
      /\ \A p \in Presses : press[p] \in Steps
  BY MailGrowsStep DEF MailGrows, ComposerTypeOK
<1>2. SUFFICES ASSUME MayFail PROVE BackInv' BY <1>1 DEF BackInv, MayFail, Happens
<1>3. \A p \in Presses : press[p].pc \in {"idle", "flush", "delete"}
  <2>1. ASSUME NEW p \in Presses PROVE press[p].pc \in {"idle", "flush", "delete"}
    <3>1. press[p] \in Steps /\ HasCause(press[p]) BY <1>1 DEF CauseInv
    <3>2. "send" \notin composerKinds BY <1>2 DEF MayFail, Happens
    <3>3. QED BY <3>1, <3>2 DEF HasCause, Steps
  <2>2. QED BY <2>1
<1>4. card # NoDraft => dock # NoDraft BY DEF DockInv
<1>5. draft = NoDraft =>
        dock = NoDraft /\ fetch.st = "no" /\ \A p \in Presses : press[p].pc = "idle"
  BY <1>2 DEF BackInv
<1>6. ASSUME dock # NoDraft, dock' # NoDraft, draft' # NoDraft PROVE BackInv'
  BY <1>6 DEF BackInv
<1>7. CASE UNCHANGED <<draft, dock, edits, press, listed, fetch>>
  BY <1>1, <1>2, <1>7 DEF BackInv, MayFail, Happens, DeleteOut, EditsLanded
<1>8. CASE Write \/ Mount \/ UNCHANGED composerVars
  BY <1>7, <1>8 DEF Write, Mount, composerVars, onScreen, lists
<1>9. CASE reopenCard \/ Autosave \/ Squeeze
  <2>1. dock # NoDraft /\ draft' = draft
    BY <1>4, <1>9 DEF reopenCard, Autosave, Squeeze
  <2>2. dock' # NoDraft
    <3>1. CASE reopenCard
      <4>1. [dock EXCEPT !.open = TRUE] \in DockCopies
        BY <2>1 DEF DockCopies, ComposerTypeOK
      <4>2. QED BY <3>1, <4>1 DEF reopenCard, ComposerConstants
    <3>2. CASE Autosave \/ Squeeze BY <2>1, <3>2, MergeStays DEF Autosave, Squeeze
    <3>3. QED BY <1>9, <3>1, <3>2
  <2>3. QED BY <1>5, <1>6, <2>1, <2>2
<1>10. CASE ListRead
  <2>1. fetch'.st = "read" /\ UNCHANGED <<draft, dock, press>> /\ fetch.st # "no"
    BY <1>10 DEF ListRead, onScreen
  <2>2. QED BY <1>5, <2>1 DEF BackInv
<1>11. CASE ListAnswered
  <2>1. draft # NoDraft /\ fetch.st = "read" /\ UNCHANGED <<draft, edits, press>>
    BY <1>5, <1>11 DEF ListAnswered
  <2>2. dock = NoDraft /\ fetch.data = draft /\ EditsLanded
    BY <1>2, <2>1 DEF ScreenInv, MayFail
  <2>3. listed' = draft BY <1>11, <2>2 DEF ListAnswered
  <2>4. CASE draft = listed BY <2>1, <2>2, <2>3, <2>4 DEF BackInv, EditsLanded
  <2>5. CASE draft # listed
    <3>1. dock' = [text |-> draft.text, open |-> draft.open]
      BY <1>11, <2>1, <2>2, <2>5 DEF ListAnswered
    <3>2. dock' \in DockCopies BY <2>1, <3>1 DEF DockCopies, ComposerTypeOK, Drafts
    <3>3. QED BY <2>1, <3>2 DEF BackInv, ComposerConstants
  <2>6. QED BY <2>4, <2>5
<1>12. ASSUME NEW s \in Slots, EditArrives(s) PROVE BackInv'
  <2>1. edits[s].st = "out" /\ UNCHANGED <<dock, press, fetch>>
    BY <1>12 DEF EditArrives, onScreen, lists
  <2>2. ~EditsLanded BY <2>1 DEF EditsLanded, NoEdit
  <2>3. draft = NoDraft <=> draft' = NoDraft BY <1>12, EditKeepsDraft
  <2>4. QED BY <1>2, <2>1, <2>2, <2>3 DEF BackInv, DeleteOut
<1>13. ASSUME NEW p \in Presses, NEW kind \in {"send", "away", "discard"}, Press(p, kind)
       PROVE  BackInv'
  <2>1. dock # NoDraft /\ draft' = draft BY <1>4, <1>13 DEF Press
  <2>2. dock' # NoDraft BY <1>13, <2>1, MergeStays DEF Press
  <2>3. QED BY <1>5, <1>6, <2>1, <2>2
<1>14. ASSUME NEW p \in Presses, DeleteKept(p) PROVE BackInv'
  BY <1>5, <1>6, <1>14 DEF DeleteKept, onScreen
<1>15. ASSUME NEW p \in Presses, FlushEnds(p) PROVE BackInv'
  <2>1. PICK e \in [Slots -> Edits] : FlushTo(p, e) BY <1>15, FlushGoes
  <2>2. press[p].pc = "flush" /\ draft' = draft BY <1>15 DEF FlushEnds
  <2>3. draft # NoDraft BY <1>5, <2>2
  <2>4. dock # NoDraft BY <1>2, <2>2, <2>3 DEF ScreenInv, OneFlush, MayFail
  <2>5. CASE UNCHANGED onScreen BY <1>6, <2>2, <2>3, <2>4, <2>5 DEF onScreen
  <2>6. CASE closeCard(p, e) BY <1>6, <2>2, <2>3, <2>4, <2>6, CloseGoes
  <2>7. CASE discardDraft(p, e)
    <3>1. ~DeleteOut BY <1>2, <2>3, <2>4 DEF ScreenInv, MayFail
    <3>2. PICK b : b = [press[p] EXCEPT !.pc = "delete", !.slot = 0] OBVIOUS
    <3>3. b.pc = "delete" BY <1>1, <3>2 DEF Steps
    <3>4. PressIs(p, b) BY <2>7, <3>1, <3>2, DiscardGoes
    <3>5. DeleteOut' BY <3>3, <3>4 DEF PressIs, Alike, DeleteOut
    <3>6. QED BY <2>2, <2>3, <3>5 DEF BackInv
  <2>8. QED BY <2>1, <2>5, <2>6, <2>7 DEF FlushTo
<1>16. ASSUME NEW p \in Presses,
              press[p].pc \in AtServer \cup {"post", "ok", "failed"}
       PROVE  FALSE
  BY <1>3, <1>16 DEF AtServer
<1>17. ASSUME NEW p \in Presses,
              \/ SendAnswered(p) \/ PostArrives(p) \/ Sends(p) \/ Records(p) \/ DeletesSent(p)
              \/ ServerStops(p)
       PROVE  FALSE
  BY <1>16, <1>17
  DEF SendAnswered, PostArrives, Sends, Records, DeletesSent, ServerStops, AtServer
<1>18. ASSUME NEW p \in Presses, DeleteArrives(p) PROVE BackInv'
  <2>1. press[p].pc = "delete" /\ PressIs(p, NotPressed) BY <1>18, ServerStepsGo
  <2>2. draft # NoDraft BY <1>5, <2>1
  <2>3. dock = NoDraft /\ fetch.st = "no" /\ \A q \in Presses \ {p} : press[q].pc # "delete"
    BY <1>2, <2>1, <2>2 DEF ScreenInv, DeleteOut, MayFail
  <2>4. \A q \in Presses : press[q].pc # "flush"
    BY <1>2, <2>2, <2>3 DEF ScreenInv, OneFlush, MayFail
  <2>5. \A q \in Presses : press'[q].pc = "idle"
    BY <1>3, <2>1, <2>3, <2>4 DEF PressIs, Alike, NotPressed
  <2>6. dock' = NoDraft BY <1>18, <2>3 DEF DeleteArrives, onScreen
  <2>7. CASE draft' = NoDraft /\ fetch' = fetch BY <2>3, <2>5, <2>6, <2>7 DEF BackInv
  <2>8. CASE draft' = draft /\ fetch' = [st |-> "out", data |-> NoDraft]
    BY <2>2, <2>8 DEF BackInv
  <2>9. QED BY <1>18, <2>7, <2>8 DEF DeleteArrives, lists
<1>19. QED
  BY <1>8, <1>9, <1>10, <1>11, <1>12, <1>13, <1>14, <1>15, <1>17, <1>18 DEF ComposerNext

-----------------------------------------------------------------------------
(* Where no save fails or overtakes another: x and o are what the row will *)
(* hold once the PATCHes under way have arrived, and what the rep sees.    *)
SavesGo == ~Happens("saveFails") /\ ~Happens("slow")

WillHold(x, o) ==
    /\ \A s \in Slots : edits[s].st = "out" =>
           edits[s].text \in {Keep, x} /\ edits[s].open \in {{}, {o}}
    /\ draft.text = x \/ \E s \in Slots : edits[s].st = "out" /\ edits[s].text = x
    /\ draft.open = o \/ \E s \in Slots : edits[s].st = "out" /\ edits[s].open = {o}
Shows(x, o) ==
    /\ dock # NoDraft => dock.text = x /\ dock.open = o
    /\ card = NoDraft => x \in {0, typed}
    /\ card # NoDraft => /\ card.saved = x /\ card.text \in {0, typed}
                         /\ ~card.timer => card.text = x
ShownInv ==
    SavesGo /\ draft # NoDraft => \E x \in Texts, o \in BOOLEAN : WillHold(x, o) /\ Shows(x, o)

(* What is kept of a card that flushes.                                    *)
FlushedText(x) == IF card = NoDraft THEN x ELSE card.text

LEMMA NothingOutHolds ==
    ASSUME NEW x, NEW o, WillHold(x, o), \A s \in Slots : edits[s].st # "out"
    PROVE  draft.text = x /\ draft.open = o
BY DEF WillHold

LEMMA FlushHolds ==
    ASSUME ComposerConstants, ComposerTypeOK, NEW e \in [Slots -> Edits], QuietOf(e),
           NEW x \in Texts, NEW o, draft.text = x, draft.open = o, draft' = draft,
           card # NoDraft => card.saved = x, edits' = Flushed(e),
           NEW y, y = FlushedText(x)
    PROVE  WillHold(y, o)' /\ y \in Texts
<1>1. y \in Texts /\ y # Keep
  BY NoEditType DEF FlushedText, ComposerTypeOK, Cards
<1>2. CASE Unsaved
  <2>1. y = card.text /\ edits' = WithPatch(e, y, {}) BY <1>2 DEF FlushedText, Unsaved, Flushed
  <2>2. edits'[1] = OutEdit(y, {}) /\ edits'[2] = NoEdit /\ edits'[3] = NoEdit
    BY <2>1, PatchTakesFirst
  <2>3. edits'[1].st = "out" /\ edits'[1].text = y /\ edits'[1].open = {}
        /\ edits'[2].st = "none" /\ edits'[3].st = "none"
    BY <2>2, OutIsEdit DEF NoEdit
  <2>4. QED BY <1>1, <2>3 DEF WillHold, Slots
<1>3. CASE ~Unsaved
  <2>1. y = x /\ edits' = e BY <1>3 DEF FlushedText, Unsaved, Flushed
  <2>2. \A s \in Slots : edits'[s].st = "none" BY <2>1 DEF QuietOf, NoEdit
  <2>3. QED BY <1>1, <2>1, <2>2 DEF WillHold
<1>4. QED BY <1>2, <1>3

LEMMA KeepHolds ==
    ASSUME ComposerConstants, ComposerTypeOK, NEW e \in [Slots -> Edits], QuietOf(e),
           NEW x \in Texts, draft.text = x, draft' = draft,
           NEW open \in BOOLEAN, edits' = WithPatch(e, Keep, {open})
    PROVE  WillHold(x, open)'
<1>1. edits'[1] = OutEdit(Keep, {open}) /\ edits'[2] = NoEdit /\ edits'[3] = NoEdit
  BY PatchTakesFirst
<1>2. /\ edits'[1].st = "out" /\ edits'[1].text = Keep /\ edits'[1].open = {open}
      /\ edits'[2].st = "none" /\ edits'[3].st = "none"
  BY <1>1 DEF OutEdit, NoEdit
<1>3. ASSUME NEW s \in Slots, edits'[s].st = "out" PROVE s = 1
  BY <1>2, <1>3 DEF Slots
<1>4. \A s \in Slots : edits'[s].st = "out" =>
         edits'[s].text \in {Keep, x} /\ edits'[s].open \in {{}, {open}}
  <2>1. edits'[1].text \in {Keep, x} /\ edits'[1].open \in {{}, {open}} BY <1>2
  <2>2. QED BY <1>3, <2>1
<1>5. 1 \in Slots BY DEF Slots
<1>6. QED BY <1>2, <1>4, <1>5 DEF WillHold, Keep

LEMMA CloseHolds ==
    ASSUME ComposerConstants, ComposerTypeOK, NEW e \in [Slots -> Edits], QuietOf(e),
           NEW x \in Texts, NEW o, draft.text = x, draft.open = o, draft' = draft,
           card # NoDraft => card.saved = x, NEW shut \in BOOLEAN,
           edits' = Flushed(WithPatch(e, Keep, {shut})), NEW y, y = FlushedText(x)
    PROVE  WillHold(y, shut)' /\ y \in Texts
<1>1. y \in Texts /\ y # Keep
  BY NoEditType DEF FlushedText, ComposerTypeOK, Cards
<1>2. PICK f \in [Slots -> Edits] : f = WithPatch(e, Keep, {shut})
  BY PatchType
<1>3. f[1] = OutEdit(Keep, {shut}) /\ f[2] = NoEdit /\ f[3] = NoEdit
  BY <1>2, PatchTakesFirst
<1>4. /\ f[1] # NoEdit /\ f[1].st = "out" /\ f[1].text = Keep /\ f[1].open = {shut}
      /\ NoEdit.st = "none"
  BY <1>3 DEF OutEdit, NoEdit
<1>5. CASE Unsaved
  <2>1. y = card.text /\ edits' = WithPatch(f, y, {})
    BY <1>2, <1>5 DEF FlushedText, Unsaved, Flushed
  <2>2. edits'[1] = f[1] /\ edits'[2] = OutEdit(y, {}) /\ edits'[3] = NoEdit
    <3>1. /\ WithPatch(f, y, {})[1] = f[1] /\ WithPatch(f, y, {})[2] = OutEdit(y, {})
          /\ WithPatch(f, y, {})[3] = NoEdit
      BY <1>3, <1>4, PatchTakesSecond
    <3>2. QED BY <2>1, <3>1
  <2>3. edits'[2].st = "out" /\ edits'[2].text = y /\ edits'[2].open = {}
    BY <2>2 DEF OutEdit
  <2>4. /\ edits'[1].st = "out" /\ edits'[1].text = Keep /\ edits'[1].open = {shut}
        /\ edits'[3].st = "none"
    BY <1>4, <2>2
  <2>5. \A s \in Slots : edits'[s].st = "out" =>
           edits'[s].text \in {Keep, y} /\ edits'[s].open \in {{}, {shut}}
    <3>1. ASSUME NEW s \in Slots, edits'[s].st = "out" PROVE s = 1 \/ s = 2
      BY <2>4, <3>1 DEF Slots
    <3>2. edits'[1].text \in {Keep, y} /\ edits'[1].open \in {{}, {shut}} BY <2>4
    <3>3. edits'[2].text \in {Keep, y} /\ edits'[2].open \in {{}, {shut}} BY <2>3
    <3>4. QED BY <3>1, <3>2, <3>3
  <2>6. 1 \in Slots /\ 2 \in Slots BY DEF Slots
  <2>7. QED BY <1>1, <2>3, <2>4, <2>5, <2>6 DEF WillHold, Keep
<1>6. CASE ~Unsaved
  <2>1. y = x /\ edits' = WithPatch(e, Keep, {shut})
    BY <1>2, <1>6 DEF FlushedText, Unsaved, Flushed
  <2>2. QED BY <1>1, <2>1, KeepHolds
<1>7. QED BY <1>5, <1>6

LEMMA EditHolds ==
    ASSUME ComposerConstants, ComposerTypeOK, SavesGo, draft # NoDraft,
           NEW s \in Slots, EditArrives(s),
           NEW x \in Texts, NEW o \in BOOLEAN, WillHold(x, o)
    PROVE  WillHold(x, o)'
<1>1. x # Keep /\ {} # {o} BY NoEditType
<1>2. edits[s].st = "out" /\ edits[s].text \in {Keep, x} /\ edits[s].open \in {{}, {o}}
  BY DEF EditArrives, WillHold
<1>3. /\ draft'.text = IF edits[s].text = Keep THEN draft.text ELSE edits[s].text
      /\ draft'.open = IF edits[s].open = {} THEN draft.open ELSE TRUE \in edits[s].open
  <2>1. PICK written :
          /\ written = [text |-> IF edits[s].text = Keep THEN draft.text ELSE edits[s].text,
                       open |-> IF edits[s].open = {} THEN draft.open ELSE TRUE \in edits[s].open,
                       rev |-> draft.rev + 1]
          /\ draft' = written
    BY DEF EditArrives, SavesGo
  <2>2. QED BY <2>1
<1>4. \A t \in Slots \ {s} : edits'[t] = edits[t] BY DEF EditArrives, ComposerTypeOK
<1>5. edits'[s].st # "out"
  BY DEF EditArrives, ComposerTypeOK, NoEdit, Edits
<1>6. draft'.text = x \/ \E t \in Slots : edits'[t].st = "out" /\ edits'[t].text = x
  <2>1. CASE edits[s].text = x BY <1>1, <1>3, <2>1
  <2>2. CASE edits[s].text = Keep
    <3>1. CASE draft.text = x BY <1>3, <2>2, <3>1
    <3>2. CASE draft.text # x
      <4>1. PICK t \in Slots : edits[t].st = "out" /\ edits[t].text = x BY <3>2 DEF WillHold
      <4>2. t # s BY <1>1, <2>2, <4>1
      <4>3. QED BY <1>4, <4>1, <4>2
    <3>3. QED BY <3>1, <3>2
  <2>3. QED BY <1>2, <2>1, <2>2
<1>7. draft'.open = o \/ \E t \in Slots : edits'[t].st = "out" /\ edits'[t].open = {o}
  <2>1. CASE edits[s].open = {o}
    <3>1. (TRUE \in {o}) = o
      <4>1. CASE o = TRUE BY <4>1
      <4>2. CASE o = FALSE
        <5>1. (TRUE \in {o}) = (TRUE \in {FALSE}) BY <4>2
        <5>2. (TRUE \in {FALSE}) = FALSE OBVIOUS
        <5>3. QED BY <4>2, <5>1, <5>2
      <4>3. QED BY <4>1, <4>2
    <3>2. QED BY <1>1, <1>3, <2>1, <3>1
  <2>2. CASE edits[s].open = {}
    <3>1. CASE draft.open = o BY <1>3, <2>2, <3>1
    <3>2. CASE draft.open # o
      <4>1. PICK t \in Slots : edits[t].st = "out" /\ edits[t].open = {o} BY <3>2 DEF WillHold
      <4>2. t # s BY <1>1, <2>2, <4>1
      <4>3. QED BY <1>4, <4>1, <4>2
    <3>3. QED BY <3>1, <3>2
  <2>3. QED BY <1>2, <2>1, <2>2
<1>8. \A t \in Slots : edits'[t].st = "out" =>
         edits'[t].text \in {Keep, x} /\ edits'[t].open \in {{}, {o}}
  BY <1>4, <1>5 DEF WillHold
<1>9. QED BY <1>6, <1>7, <1>8 DEF WillHold, Keep

LEMMA ShownStep ==
    ASSUME ComposerConstants, ComposerTypeOK, CauseInv, DockInv, ScreenInv, ShownInv,
           [ComposerNext]_composerVars
    PROVE  ShownInv'
<1>1. /\ composerKinds' = composerKinds /\ (draft = NoDraft => draft' = NoDraft)
      /\ edits \in [Slots -> Edits]
  BY MailGrowsStep DEF MailGrows, ComposerTypeOK
<1>2. SUFFICES ASSUME SavesGo, draft # NoDraft, draft' # NoDraft PROVE ShownInv'
  BY <1>1 DEF ShownInv, SavesGo, Happens
<1>3. PICK x \in Texts, o \in BOOLEAN : WillHold(x, o) /\ Shows(x, o) BY <1>2 DEF ShownInv
<1>4. ASSUME NEW y \in Texts, NEW open \in BOOLEAN, WillHold(y, open)', Shows(y, open)'
      PROVE  ShownInv'
  BY <1>4 DEF ShownInv
<1>5. CASE UNCHANGED <<draft, edits, dock, card, typed>>
  <2>1. WillHold(x, o)' /\ Shows(x, o)' BY <1>3, <1>5 DEF WillHold, Shows
  <2>2. QED BY <1>4, <2>1
<1>6. card # NoDraft => dock # NoDraft BY DEF DockInv
<1>7. Settled /\ Calm => QuietOf(edits) /\ draft.text = x /\ draft.open = o
  <2>1. SUFFICES ASSUME Settled, Calm PROVE QuietOf(edits) /\ draft.text = x /\ draft.open = o
    OBVIOUS
  <2>2. EditsLanded BY <1>2, <2>1, CalmIsQuiet DEF SavesGo
  <2>3. \A s \in Slots : edits[s].st # "out" BY <2>2 DEF EditsLanded, NoEdit
  <2>4. QED BY <1>3, <2>2, <2>3, NothingOutHolds DEF EditsLanded, QuietOf
<1>8. PICK y : y = FlushedText(x) OBVIOUS
<1>9. (IF Unsaved THEN card.text ELSE x) = y /\ (card # NoDraft => y = card.text)
  BY <1>3, <1>8 DEF Shows, FlushedText, Unsaved
<1>10. dock # NoDraft => dock \in DockCopies /\ dock.text = x /\ dock.open = o
  BY <1>3 DEF Shows, ComposerTypeOK
<1>11. y \in {0, typed} BY <1>3, <1>8 DEF Shows, FlushedText
<1>12. ASSUME QuietOf(edits), draft.text = x, draft.open = o, draft' = draft,
              dock # NoDraft, edits' = Flushed(edits), dock' = Merged(dock)
       PROVE  /\ WillHold(y, o)' /\ y \in Texts
              /\ dock' # NoDraft /\ dock'.text = y /\ dock'.open = o
  <2>1. WillHold(y, o)' /\ y \in Texts
    BY <1>1, <1>3, <1>8, <1>12, FlushHolds DEF Shows
  <2>2. QED BY <1>9, <1>10, <1>12, <2>1, MergeType
<1>13. CASE Write
  <2>1. UNCHANGED <<draft, dock, edits>> /\ card # NoDraft BY <1>13 DEF Write
  <2>2. card'.saved = card.saved /\ card'.timer = TRUE /\ card'.text \in {0, typed'}
        /\ card' \in Cards
    BY <1>13, WriteGoes
  <2>3. WillHold(x, o)' /\ Shows(x, o)'
    BY <1>3, <2>1, <2>2 DEF WillHold, Shows, ComposerConstants
  <2>4. QED BY <1>4, <2>3
<1>14. CASE reopenCard
  <2>1. /\ Settled /\ Calm /\ edits' = WithPatch(edits, Keep, {TRUE}) /\ dock # NoDraft
        /\ UNCHANGED <<draft, card, typed>> /\ dock' = [dock EXCEPT !.open = TRUE]
    BY <1>14 DEF reopenCard, RepActs
  <2>2. PICK open \in BOOLEAN : open = TRUE OBVIOUS
  <2>3. WillHold(x, open)' BY <1>1, <1>3, <1>7, <2>1, <2>2, KeepHolds
  <2>4. dock'.text = x /\ dock'.open = open BY <1>10, <2>1, <2>2 DEF DockCopies
  <2>5. Shows(x, open)' BY <1>3, <2>1, <2>4 DEF Shows
  <2>6. QED BY <1>4, <2>3, <2>5
<1>15. CASE Squeeze
  <2>1. /\ Settled /\ Calm /\ edits' = Flushed(edits) /\ dock' = Merged(dock) /\ card # NoDraft
        /\ UNCHANGED <<draft, typed>> /\ card' = NoDraft
    BY <1>15 DEF Squeeze, RepActs, Unmount
  <2>2. WillHold(y, o)' /\ y \in Texts /\ dock'.text = y /\ dock'.open = o
    BY <1>6, <1>7, <1>12, <2>1
  <2>3. Shows(y, o)' BY <1>11, <2>1, <2>2 DEF Shows
  <2>4. QED BY <1>4, <2>2, <2>3
<1>16. CASE Mount
  <2>1. /\ UNCHANGED <<draft, dock, edits, typed>> /\ card = NoDraft /\ dock # NoDraft
        /\ card'.saved = dock.text /\ card'.text = dock.text
    BY <1>16 DEF Mount, rep
  <2>2. WillHold(x, o)' /\ Shows(x, o)' BY <1>3, <2>1 DEF WillHold, Shows
  <2>3. QED BY <1>4, <2>2
<1>17. ASSUME \/ Autosave
              \/ \E p \in Presses, kind \in {"send", "away", "discard"} : Press(p, kind)
       PROVE  ShownInv'
  <2>1. /\ Settled /\ Calm /\ edits' = Flushed(edits) /\ dock' = Merged(dock) /\ card # NoDraft
        /\ UNCHANGED <<draft, typed>>
    BY <1>17 DEF Autosave, Press, RepActs, rep
  <2>2. card \in Cards BY <2>1 DEF ComposerTypeOK
  <2>3. card'.saved = y /\ card'.text = y /\ card' # NoDraft
    <3>1. card'.saved = card.text /\ card'.text = card.text /\ card' \in Cards
      BY <1>17, <2>2, PressGoes DEF Autosave, Cards
    <3>2. QED BY <1>9, <2>1, <3>1 DEF ComposerConstants
  <2>4. WillHold(y, o)' /\ y \in Texts /\ dock'.text = y /\ dock'.open = o
    BY <1>6, <1>7, <1>12, <2>1
  <2>5. Shows(y, o)' BY <1>11, <2>1, <2>3, <2>4 DEF Shows
  <2>6. QED BY <1>4, <2>4, <2>5
<1>18. CASE ListRead BY <1>5, <1>18 DEF ListRead, onScreen, rep
<1>19. CASE ListAnswered
  <2>1. dock = NoDraft /\ fetch.data = draft /\ EditsLanded
    BY <1>2, <1>19 DEF ListAnswered, ScreenInv, SavesGo
  <2>2. card = NoDraft /\ \A s \in Slots : edits[s].st # "out"
    BY <1>6, <2>1 DEF EditsLanded, NoEdit
  <2>3. draft.text = x /\ draft.open = o BY <1>3, <2>2, NothingOutHolds
  <2>4. UNCHANGED <<draft, edits, card, typed>> BY <1>19 DEF ListAnswered, rep
  <2>5. dock' # NoDraft => dock'.text = x /\ dock'.open = o
    BY <1>19, <2>1, <2>3 DEF ListAnswered
  <2>6. WillHold(x, o)' /\ Shows(x, o)' BY <1>3, <2>2, <2>4, <2>5 DEF WillHold, Shows
  <2>7. QED BY <1>4, <2>6
<1>20. ASSUME NEW s \in Slots, EditArrives(s) PROVE ShownInv'
  <2>1. WillHold(x, o)' BY <1>2, <1>3, <1>20, EditHolds
  <2>2. UNCHANGED <<dock, card, typed>> BY <1>20 DEF EditArrives, onScreen, rep
  <2>3. Shows(x, o)' BY <1>3, <2>2 DEF Shows
  <2>4. QED BY <1>4, <2>1, <2>3
<1>21. ASSUME NEW p \in Presses, FlushEnds(p) PROVE ShownInv'
  <2>1. PICK e \in [Slots -> Edits] :
           /\ \A s \in Slots : e[s] = IF s = press[p].slot THEN NoEdit ELSE edits[s]
           /\ FlushTo(p, e)
    BY <1>21, FlushGoes
  <2>2. press[p].pc = "flush" /\ UNCHANGED <<draft, typed>> BY <1>21 DEF FlushEnds, rep
  <2>3. OneFlush(p) BY <1>2 DEF ScreenInv, SavesGo
  <2>4. QuietOf(e) /\ dock # NoDraft BY <2>1, <2>2, <2>3 DEF OneFlush, QuietOf
  <2>5. \A s \in Slots : edits[s].st # "out"
    <3>1. press[p].slot \in Slots => edits[press[p].slot].st = "answered"
      BY <1>21 DEF FlushEnds, Slots
    <3>2. QED BY <2>2, <2>3, <3>1 DEF OneFlush, NoEdit
  <2>6. draft.text = x /\ draft.open = o BY <1>3, <2>5, NothingOutHolds
  <2>7. card # NoDraft => card.saved = x BY <1>3 DEF Shows
  <2>8. CASE edits' = e /\ UNCHANGED onScreen
    <3>1. \A s \in Slots : edits'[s].st # "out" BY <2>4, <2>8 DEF QuietOf, NoEdit
    <3>2. WillHold(x, o)' /\ Shows(x, o)'
      BY <1>3, <2>2, <2>6, <2>8, <3>1 DEF WillHold, Shows, onScreen
    <3>3. QED BY <1>4, <3>2
  <2>9. CASE closeCard(p, e)
    <3>1. PICK shut \in BOOLEAN : shut = FALSE OBVIOUS
    <3>2. WillHold(y, shut)' /\ y \in Texts
      BY <1>3, <1>8, <2>2, <2>4, <2>6, <2>7, <2>9, <3>1, CloseGoes, CloseHolds
    <3>3. dock'.text = y /\ dock'.open = shut /\ card' = NoDraft
      BY <1>9, <1>10, <2>4, <2>9, <3>1, CloseGoes
    <3>4. Shows(y, shut)' BY <1>11, <2>2, <3>3 DEF Shows
    <3>5. QED BY <1>4, <3>2, <3>4
  <2>10. CASE discardDraft(p, e)
    <3>1. ~DeleteOut BY <1>2, <2>4 DEF ScreenInv, SavesGo
    <3>2. edits' = Flushed(e) /\ dock' = NoDraft /\ card' = NoDraft
      BY <2>10, <3>1, DiscardGoes
    <3>3. WillHold(y, o)' /\ y \in Texts
      BY <1>3, <1>8, <2>2, <2>4, <2>6, <2>7, <3>2, FlushHolds
    <3>4. Shows(y, o)' BY <1>11, <2>2, <3>2 DEF Shows
    <3>5. QED BY <1>4, <3>3, <3>4
  <2>11. QED BY <2>1, <2>8, <2>9, <2>10 DEF FlushTo
<1>22. ASSUME NEW p \in Presses, SendAnswered(p) PROVE ShownInv'
  <2>1. press[p].pc # "ok" BY <1>2 DEF CauseInv, HasCause
  <2>2. QED BY <1>5, <1>22, <2>1 DEF SendAnswered, onScreen, rep
<1>23. ASSUME NEW p \in Presses,
              \/ DeleteKept(p) \/ PostArrives(p) \/ Sends(p) \/ Records(p) \/ DeletesSent(p)
              \/ ServerStops(p) \/ DeleteArrives(p)
       PROVE  ShownInv'
  BY <1>2, <1>5, <1>23
  DEF DeleteKept, PostArrives, Sends, Records, DeletesSent, ServerStops, DeleteArrives,
      onScreen, rep
<1>24. CASE UNCHANGED composerVars BY <1>5, <1>24 DEF composerVars, onScreen, rep
<1>25. QED
  BY <1>13, <1>14, <1>15, <1>16, <1>17, <1>18, <1>19, <1>20, <1>21, <1>22, <1>23, <1>24
  DEF ComposerNext

-----------------------------------------------------------------------------
(* There too: what was asked for with Send comes to the server before the  *)
(* request that sends it, and only a later text overtakes it.              *)
Enough(x, asked) == x = 0 \/ x >= asked
HoldsEnough(asked) ==
    /\ Enough(draft.text, asked)
    /\ \A s \in Slots : edits[s].st = "out" /\ edits[s].text # Keep => Enough(edits[s].text, asked)
Asks(b) ==
    /\ b.pc = "sending" => b.text >= b.asked
    /\ draft # NoDraft =>
           /\ b.asked <= typed
           /\ b.pc = "post" => HoldsEnough(b.asked)
           /\ b.pc = "flush" /\ b.kind # "discard" /\ dock # NoDraft => dock.text = b.asked
AskedInv ==
    SavesGo => (\A p \in Presses : Asks(press[p])) /\ \A m \in outbox : m.text >= m.asked

(* What any step sends of the text is what stands in the card.             *)
EditsGrow ==
    \A s \in Slots : edits'[s].st = "out" =>
        edits'[s] = edits[s] \/ edits'[s].text = Keep \/ (Unsaved /\ edits'[s].text = card.text)

LEMMA PatchGrows ==
    ASSUME NEW e \in [Slots -> Edits], NEW t, NEW o, NEW s \in Slots
    PROVE  WithPatch(e, t, o)[s] = e[s] \/ WithPatch(e, t, o)[s].text = t
<1>1. OutEdit(t, o).text = t BY OutIsEdit
<1>2. CASE s = FirstFree(e) BY <1>1, <1>2 DEF WithPatch, OutEdit
<1>3. CASE s # FirstFree(e) BY <1>3 DEF WithPatch
<1>4. QED BY <1>2, <1>3

LEMMA FlushGrows ==
    ASSUME NEW e \in [Slots -> Edits], NEW s \in Slots
    PROVE  Flushed(e)[s] = e[s] \/ (Unsaved /\ Flushed(e)[s].text = card.text)
BY PatchGrows DEF Flushed

LEMMA EditsGrowStep ==
    ASSUME ComposerConstants, ComposerTypeOK, [ComposerNext]_composerVars
    PROVE  EditsGrow
<1>1. edits \in [Slots -> Edits] BY DEF ComposerTypeOK
<1>2. CASE edits' = edits BY <1>2 DEF EditsGrow
<1>3. CASE edits' = Flushed(edits) BY <1>1, <1>3, FlushGrows DEF EditsGrow
<1>4. CASE reopenCard BY <1>1, <1>4, PatchGrows DEF reopenCard, EditsGrow
<1>5. ASSUME NEW s \in Slots, EditArrives(s) PROVE EditsGrow
  BY <1>1, <1>5 DEF EditArrives, EditsGrow, NoEdit, Edits
<1>6. ASSUME NEW p \in Presses, FlushEnds(p) PROVE EditsGrow
  <2>1. PICK e \in [Slots -> Edits] :
           /\ \A s \in Slots : e[s] = IF s = press[p].slot THEN NoEdit ELSE edits[s]
           /\ FlushTo(p, e)
    BY <1>6, FlushGoes
  <2>2. \A s \in Slots : e[s] = edits[s] \/ e[s].st = "none" BY <2>1 DEF NoEdit
  <2>3. CASE edits' = e BY <2>2, <2>3 DEF EditsGrow
  <2>4. CASE edits' = Flushed(e) BY <2>2, <2>4, FlushGrows DEF EditsGrow
  <2>5. CASE edits' = Flushed(WithPatch(e, Keep, {FALSE}))
    <3>1. PICK f \in [Slots -> Edits] : f = WithPatch(e, Keep, {FALSE})
      BY PatchType, {FALSE} \in SUBSET BOOLEAN
    <3>2. \A s \in Slots : f[s] = e[s] \/ f[s].text = Keep BY <3>1, PatchGrows
    <3>3. \A s \in Slots : edits'[s] = f[s] \/ (Unsaved /\ edits'[s].text = card.text)
      BY <2>5, <3>1, FlushGrows
    <3>4. QED BY <2>2, <3>2, <3>3 DEF EditsGrow
  <2>6. QED BY <2>1, <2>3, <2>4, <2>5, CloseGoes, DiscardGoes DEF FlushTo
<1>7. ASSUME NEW p \in Presses, SendAnswered(p) PROVE EditsGrow
  BY <1>1, <1>2, <1>3, <1>7, SendAnsweredGoes, DiscardGoes
<1>8. QED
  BY <1>2, <1>3, <1>4, <1>5, <1>6, <1>7
  DEF ComposerNext, Write, Squeeze, Mount, Autosave, ListRead, ListAnswered, Press, DeleteKept,
      PostArrives, Sends, Records, DeletesSent, ServerStops, DeleteArrives, composerVars

(* While a button flushes, the dock's text stays.                          *)
LEMMA FlushKeepsDock ==
    ASSUME ComposerConstants, ComposerTypeOK, CauseInv, DockInv, ScreenInv, SavesGo,
           draft # NoDraft, [ComposerNext]_composerVars,
           NEW q \in Presses, press[q].pc = "flush", press'[q].pc = "flush"
    PROVE  dock # NoDraft /\ (dock' # NoDraft => dock'.text = dock.text)
<1>1. dock # NoDraft /\ \A p \in Presses \ {q} : press[p].pc # "flush"
  BY DEF ScreenInv, OneFlush, SavesGo
<1>2. ~(Settled /\ Calm) BY CalmIsQuiet DEF SavesGo
<1>3. CASE dock' = dock BY <1>1, <1>3
<1>4. CASE reopenCard BY <1>2, <1>4 DEF reopenCard, RepActs
<1>5. ASSUME NEW p \in Presses, FlushEnds(p) PROVE FALSE
  <2>1. PICK e \in [Slots -> Edits] : FlushTo(p, e) BY <1>5, FlushGoes
  <2>2. p = q BY <1>1, <1>5 DEF FlushEnds
  <2>3. ASSUME NEW b, b.pc # "flush", PressIs(p, b) PROVE FALSE
    BY <2>2, <2>3 DEF PressIs, Alike
  <2>4. press[p] \in Steps BY DEF ComposerTypeOK
  <2>5. PICK b : b = [press[p] EXCEPT !.pc = "post", !.slot = 0] OBVIOUS
  <2>6. PICK c : c = [press[p] EXCEPT !.pc = "delete", !.slot = 0] OBVIOUS
  <2>7. b.pc # "flush" /\ c.pc # "flush" /\ NotPressed.pc # "flush"
    BY <2>4, <2>5, <2>6 DEF Steps, NotPressed
  <2>8. PressIs(p, b) \/ PressIs(p, c) \/ PressIs(p, NotPressed)
    BY <2>1, <2>5, <2>6, CloseGoes, DiscardGoes DEF FlushTo
  <2>9. PICK d : d = NotPressed OBVIOUS
  <2>10. QED BY <2>3, <2>7, <2>8, <2>9
<1>6. ASSUME NEW p \in Presses, SendAnswered(p) PROVE dock' = dock
  <2>1. press[p].pc # "ok" BY DEF CauseInv, HasCause
  <2>2. QED BY <1>6, <2>1 DEF SendAnswered, onScreen
<1>7. CASE ListAnswered BY <1>1, <1>3, <1>7 DEF ListAnswered
<1>8. QED
  BY <1>2, <1>3, <1>4, <1>5, <1>6, <1>7
  DEF ComposerNext, Write, Squeeze, Mount, Autosave, ListRead, Press, DeleteKept, EditArrives,
      PostArrives, Sends, Records, DeletesSent, ServerStops, DeleteArrives, composerVars, onScreen,
      RepActs

LEMMA TextStep ==
    ASSUME ComposerConstants, ComposerTypeOK, [ComposerNext]_composerVars, draft' # NoDraft
    PROVE  /\ draft # NoDraft
           /\ \/ draft'.text = draft.text
              \/ \E s \in Slots : /\ edits[s].st = "out" /\ edits[s].text # Keep
                                  /\ draft'.text = edits[s].text
<1>1. draft # NoDraft BY MailGrowsStep DEF MailGrows
<1>2. CASE draft' = draft BY <1>1, <1>2
<1>3. ASSUME NEW s \in Slots, EditArrives(s), draft' # draft
      PROVE  /\ edits[s].st = "out"
             /\ draft'.text = IF edits[s].text = Keep THEN draft.text ELSE edits[s].text
  <2>1. PICK written :
          /\ written = [text |-> IF edits[s].text = Keep THEN draft.text ELSE edits[s].text,
                       open |-> IF edits[s].open = {} THEN draft.open ELSE TRUE \in edits[s].open,
                       rev |-> draft.rev + 1]
          /\ draft' = written /\ edits[s].st = "out"
    BY <1>1, <1>3 DEF EditArrives
  <2>2. QED BY <2>1
<1>4. ASSUME NEW p \in Presses, DeletesSent(p) \/ DeleteArrives(p) PROVE draft' = draft
  BY <1>4 DEF DeletesSent, DeleteArrives
<1>5. QED
  BY <1>1, <1>2, <1>3, <1>4
  DEF ComposerNext, Write, reopenCard, Squeeze, Mount, Autosave, ListRead, ListAnswered, Press,
      DeleteKept, FlushEnds, SendAnswered, PostArrives, Sends, Records, ServerStops, composerVars

LEMMA TypedGrows ==
    ASSUME ComposerConstants, ComposerTypeOK, [ComposerNext]_composerVars
    PROVE  typed \in Nat /\ typed' \in Nat /\ typed <= typed'
<1>1. typed \in Nat BY DEF ComposerTypeOK, Texts, ComposerConstants
<1>2. CASE Write
  <2>1. typed' \in Texts /\ typed <= typed' BY <1>2, WriteGoes
  <2>2. QED BY <1>1, <2>1 DEF Texts, ComposerConstants
<1>3. CASE typed' = typed BY <1>1, <1>3
<1>4. QED
  BY <1>2, <1>3
  DEF ComposerNext, reopenCard, Squeeze, Mount, Autosave, ListRead, ListAnswered, EditArrives,
      Press, DeleteKept, FlushEnds, SendAnswered, PostArrives, Sends, Records, DeletesSent,
      ServerStops, DeleteArrives, composerVars, rep

LEMMA AskStays ==
    ASSUME ComposerConstants, ComposerTypeOK, CauseInv, DockInv, ScreenInv, ShownInv, SavesGo,
           AskedInv, [ComposerNext]_composerVars,
           NEW q \in Presses, Alike(press'[q], press[q])
    PROVE  Asks(press[q])'
<1>1. PICK b \in Steps : b = press[q] BY DEF ComposerTypeOK
<1>2. Asks(b) BY <1>1 DEF AskedInv
<1>3. PICK a : a = press'[q] OBVIOUS
<1>4. Alike(a, b) BY <1>1, <1>3
<1>5. typed \in Nat /\ typed' \in Nat /\ typed <= typed' BY TypedGrows
<1>6. b.asked \in Nat BY DEF Steps, Texts
<1>7. CASE draft' = NoDraft BY <1>2, <1>3, <1>4, <1>7 DEF Asks, Alike
<1>8. CASE draft' # NoDraft
  <2>1. draft # NoDraft BY <1>8, TextStep
  <2>2. b.asked <= typed' BY <1>2, <1>5, <1>6, <2>1 DEF Asks
  <2>3. ASSUME b.pc = "post" PROVE HoldsEnough(b.asked)'
    <3>1. HoldsEnough(b.asked) BY <1>2, <2>1, <2>3 DEF Asks
    <3>2. Enough(draft'.text, b.asked) BY <1>8, <3>1, TextStep DEF HoldsEnough
    <3>3. card # NoDraft => Enough(card.text, b.asked)
      <4>1. card # NoDraft => card.text \in {0, typed} BY <2>1 DEF ShownInv, Shows
      <4>2. b.asked <= typed BY <1>2, <2>1 DEF Asks
      <4>3. QED BY <1>5, <1>6, <4>1, <4>2 DEF Enough
    <3>4. \A s \in Slots : edits'[s].st = "out" /\ edits'[s].text # Keep =>
             Enough(edits'[s].text, b.asked)
      BY <3>1, <3>3, EditsGrowStep DEF EditsGrow, HoldsEnough, Unsaved
    <3>5. QED BY <3>2, <3>4 DEF HoldsEnough, Enough, Keep
  <2>4. ASSUME b.pc = "flush", b.kind # "discard", dock' # NoDraft PROVE dock'.text = b.asked
    <3>1. press[q].pc = "flush" /\ press'[q].pc = "flush" BY <1>1, <1>3, <1>4, <2>4 DEF Alike
    <3>2. dock # NoDraft /\ dock'.text = dock.text BY <2>1, <2>4, <3>1, FlushKeepsDock
    <3>3. QED BY <1>2, <2>1, <2>4, <3>2 DEF Asks
  <2>5. b.pc = "sending" => b.text >= b.asked BY <1>2 DEF Asks
  <2>6. Asks(b)' BY <2>2, <2>3, <2>4, <2>5 DEF Asks
  <2>7. Asks(a)' BY <1>4, <2>6 DEF Asks, Alike
  <2>8. QED BY <1>3, <2>7 DEF Asks, HoldsEnough
<1>9. QED BY <1>7, <1>8

LEMMA AskedOfOne ==
    ASSUME ComposerConstants, ComposerTypeOK, CauseInv, DockInv, ScreenInv, ShownInv, SavesGo,
           AskedInv, [ComposerNext]_composerVars, NEW p \in Presses, NEW b, PressIs(p, b),
           Asks(b)', \A m \in outbox' \ outbox : m.text >= m.asked
    PROVE  AskedInv'
<1>1. ASSUME NEW q \in Presses \ {p} PROVE Asks(press[q])'
  BY <1>1, AskStays DEF PressIs
<1>2. Asks(press[p])'
  <2>1. PICK a : a = press'[p] OBVIOUS
  <2>2. Alike(a, b) BY <2>1 DEF PressIs
  <2>3. Asks(a)' BY <2>2 DEF Asks, Alike
  <2>4. QED BY <2>1, <2>3 DEF Asks, HoldsEnough
<1>3. \A m \in outbox' : m.text >= m.asked BY DEF AskedInv
<1>4. QED BY <1>1, <1>2, <1>3 DEF AskedInv

LEMMA AskedStep ==
    ASSUME ComposerConstants, ComposerTypeOK, CauseInv, DockInv, ScreenInv, ShownInv, AskedInv,
           [ComposerNext]_composerVars
    PROVE  AskedInv'
<1>1. /\ composerKinds' = composerKinds /\ (draft = NoDraft => draft' = NoDraft)
      /\ \A p \in Presses : press[p] \in Steps
  BY MailGrowsStep DEF MailGrows, ComposerTypeOK
<1>2. SUFFICES ASSUME SavesGo PROVE AskedInv' BY <1>1 DEF AskedInv, SavesGo, Happens
<1>3. typed \in Nat /\ typed' \in Nat /\ typed <= typed' BY TypedGrows
<1>4. ASSUME NEW p \in Presses, NEW b, PressIs(p, b), b.pc \notin {"sending", "post", "flush"},
             b.asked \in Nat, draft' # NoDraft => b.asked <= typed,
             \A m \in outbox' \ outbox : m.text >= m.asked
      PROVE  AskedInv'
  <2>1. Asks(b)' BY <1>3, <1>4 DEF Asks
  <2>2. QED BY <1>2, <1>4, <2>1, AskedOfOne
<1>5. ASSUME ButtonsStay, outbox' = outbox PROVE AskedInv'
  <2>1. \A q \in Presses : Asks(press[q])' BY <1>2, <1>5, AskStays DEF ButtonsStay
  <2>2. QED BY <1>2, <1>5, <2>1 DEF AskedInv
<1>6. ASSUME NEW p \in Presses
      PROVE  press[p].asked \in Nat /\ (draft # NoDraft => press[p].asked <= typed)
  BY <1>1, <1>2 DEF AskedInv, Asks, Steps, Texts
<1>7. NotPressed.pc = "idle" /\ NotPressed.asked = 0 BY DEF NotPressed
<1>8. ASSUME NEW p \in Presses, PressIs(p, NotPressed), outbox' = outbox PROVE AskedInv'
  <2>1. PICK b : b = NotPressed OBVIOUS
  <2>2. QED BY <1>3, <1>4, <1>7, <1>8, <2>1
<1>9. CASE Squeeze
  <2>1. press \in [Presses -> Steps] /\ Unmount(press) /\ outbox' = outbox
    BY <1>9 DEF Squeeze, ComposerTypeOK, mail
  <2>2. QED BY <1>5, <2>1, UnmountGoes DEF ButtonsStay
<1>10. ASSUME NEW p \in Presses, NEW kind \in {"send", "away", "discard"}, Press(p, kind)
       PROVE  AskedInv'
  <2>1. PICK b : b = Pressed(kind) OBVIOUS
  <2>2. PressIs(p, b) /\ b.pc = "flush" /\ b.asked = card.text
    BY <1>10, <2>1, PressGoes DEF Pressed
  <2>3. UNCHANGED <<draft, typed>> /\ outbox' = outbox /\ card # NoDraft /\ dock' = Merged(dock)
    BY <1>10 DEF Press, mail
  <2>4. ASSUME draft # NoDraft PROVE card.text <= typed /\ card.text \in Nat
    BY <1>2, <1>3, <2>3, <2>4 DEF ShownInv, Shows
  <2>5. ASSUME draft # NoDraft, dock' # NoDraft PROVE dock'.text = card.text
    <3>1. dock # NoDraft /\ dock \in DockCopies BY <2>3, <2>5, MergeStays DEF ComposerTypeOK
    <3>2. dock.text = card.saved BY <1>2, <2>3, <2>5, <3>1 DEF ShownInv, Shows
    <3>3. QED BY <2>3, <3>1, <3>2, MergeType DEF Unsaved
  <2>6. Asks(b)' BY <2>2, <2>3, <2>4, <2>5 DEF Asks
  <2>7. QED BY <1>2, <2>2, <2>3, <2>6, AskedOfOne
<1>11. ASSUME NEW p \in Presses, DeleteKept(p) PROVE AskedInv'
  <2>1. PICK b : b = press'[p] OBVIOUS
  <2>2. PressIs(p, b) /\ b.pc = "flush" /\ b.kind = "discard" /\ b.asked = 0
    BY <1>11, <2>1, DeleteKeptGoes DEF PressIs, Alike
  <2>3. outbox' = outbox BY <1>11 DEF DeleteKept, mail
  <2>4. Asks(b)' BY <1>3, <2>2 DEF Asks
  <2>5. QED BY <1>2, <2>2, <2>3, <2>4, AskedOfOne
<1>12. ASSUME NEW p \in Presses, NEW e \in [Slots -> Edits], discardDraft(p, e), outbox' = outbox
       PROVE  AskedInv'
  <2>1. CASE DeleteOut BY <1>8, <1>12, <2>1, DiscardGoes
  <2>2. CASE ~DeleteOut
    <3>1. PICK b : b = [press[p] EXCEPT !.pc = "delete", !.slot = 0] OBVIOUS
    <3>2. b.pc = "delete" /\ b.asked = press[p].asked BY <1>1, <3>1 DEF Steps
    <3>3. PressIs(p, b) BY <1>12, <2>2, <3>1, DiscardGoes
    <3>4. QED BY <1>1, <1>4, <1>6, <1>12, <3>2, <3>3
  <2>3. QED BY <2>1, <2>2
<1>13. ASSUME NEW p \in Presses, FlushEnds(p) PROVE AskedInv'
  <2>1. PICK e \in [Slots -> Edits] :
           /\ \A s \in Slots : e[s] = IF s = press[p].slot THEN NoEdit ELSE edits[s]
           /\ FlushTo(p, e)
    BY <1>13, FlushGoes
  <2>2. press[p].pc = "flush" /\ UNCHANGED <<draft, typed>> /\ outbox' = outbox
    BY <1>13 DEF FlushEnds, rep, mail
  <2>3. CASE /\ press[p].kind = "send" /\ PressIs(p, [press[p] EXCEPT !.pc = "post", !.slot = 0])
             /\ edits' = e /\ UNCHANGED onScreen
    <3>1. PICK b : b = [press[p] EXCEPT !.pc = "post", !.slot = 0] OBVIOUS
    <3>2. b.pc = "post" /\ b.asked = press[p].asked BY <1>1, <3>1 DEF Steps
    <3>3. ASSUME draft # NoDraft PROVE HoldsEnough(b.asked)'
      <4>1. OneFlush(p) BY <1>2, <3>3 DEF ScreenInv, SavesGo
      <4>2. dock # NoDraft /\ \A s \in Slots : edits'[s].st = "none"
        BY <2>1, <2>2, <2>3, <4>1 DEF OneFlush, NoEdit
      <4>3. \A s \in Slots : edits[s].st # "out"
        <5>1. press[p].slot \in Slots => edits[press[p].slot].st = "answered"
          BY <1>13 DEF FlushEnds, Slots
        <5>2. QED BY <2>2, <4>1, <5>1 DEF OneFlush, NoEdit
      <4>4. PICK x \in Texts, o \in BOOLEAN : WillHold(x, o) /\ Shows(x, o)
        BY <1>2, <3>3 DEF ShownInv
      <4>5. draft.text = x /\ dock.text = x BY <4>2, <4>3, <4>4, NothingOutHolds DEF Shows
      <4>6. dock.text = press[p].asked BY <1>2, <2>2, <2>3, <3>3, <4>2 DEF AskedInv, Asks
      <4>7. b.asked \in Nat /\ draft'.text = b.asked BY <1>6, <2>2, <3>2, <4>5, <4>6
      <4>8. QED BY <4>2, <4>7 DEF HoldsEnough, Enough
    <3>4. Asks(b)' BY <1>6, <2>2, <3>2, <3>3 DEF Asks
    <3>5. QED BY <1>2, <2>2, <2>3, <3>1, <3>4, AskedOfOne
  <2>4. CASE closeCard(p, e) BY <1>8, <2>2, <2>4, CloseGoes
  <2>5. CASE discardDraft(p, e) BY <1>12, <2>2, <2>5
  <2>6. QED BY <2>1, <2>3, <2>4, <2>5 DEF FlushTo
<1>14. ASSUME NEW p \in Presses, SendAnswered(p) PROVE AskedInv'
  <2>1. edits \in [Slots -> Edits] BY DEF ComposerTypeOK
  <2>2. outbox' = outbox BY <1>14 DEF SendAnswered, mail
  <2>3. QED BY <1>8, <1>12, <1>14, <2>1, <2>2, SendAnsweredGoes
<1>15. ASSUME NEW p \in Presses, NEW from,
              NEW to \in (AtServer \ {"sending"}) \cup {"ok", "failed"},
              ServerGoes(p, from, to), \A m \in outbox' \ outbox : m.text >= m.asked
       PROVE  AskedInv'
  <2>1. PICK b : b = [press[p] EXCEPT !.pc = to] OBVIOUS
  <2>2. b.pc = to /\ b.asked = press[p].asked BY <1>1, <2>1 DEF Steps
  <2>3. PressIs(p, b) /\ b.pc \notin {"sending", "post", "flush"}
    BY <1>15, <2>1, <2>2 DEF ServerGoes, AtServer
  <2>4. QED BY <1>1, <1>4, <1>6, <1>15, <2>2, <2>3
<1>16. ASSUME NEW p \in Presses, PostArrives(p) PROVE AskedInv'
  <2>1. outbox' = outbox /\ UNCHANGED <<draft, typed>> BY <1>16 DEF PostArrives, rep, mail
  <2>2. CASE ServerGoes(p, "post", "failed") BY <1>15, <2>1, <2>2
  <2>3. CASE /\ draft # NoDraft /\ draft \in Drafts /\ draft.text # 0 /\ press[p].pc = "post"
             /\ PressIs(p, [press[p] EXCEPT !.pc = "sending", !.text = draft.text])
    <3>1. PICK b : b = [press[p] EXCEPT !.pc = "sending", !.text = draft.text] OBVIOUS
    <3>2. b.pc = "sending" /\ b.asked = press[p].asked /\ b.text = draft.text
      BY <1>1, <3>1 DEF Steps
    <3>3. Enough(draft.text, press[p].asked) BY <1>2, <2>3 DEF AskedInv, Asks, HoldsEnough
    <3>4. Asks(b)' BY <1>6, <2>1, <2>3, <3>2, <3>3 DEF Asks, Enough
    <3>5. QED BY <1>2, <2>1, <2>3, <3>1, <3>4, AskedOfOne
  <2>4. QED BY <1>16, <2>2, <2>3, PostGoes
<1>17. ASSUME NEW p \in Presses, Sends(p) PROVE AskedInv'
  <2>1. press[p].pc = "sending" BY <1>17 DEF Sends
  <2>2. press[p].text >= press[p].asked BY <1>2, <2>1 DEF AskedInv, Asks
  <2>3. \A m \in outbox' \ outbox : m.text >= m.asked
    BY <1>17, <2>2, SendsGoes DEF Message
  <2>4. \E to \in {"recorded", "accepted", "failed"} : ServerGoes(p, "sending", to)
    BY <1>17, SendsGoes
  <2>5. QED BY <1>15, <2>3, <2>4 DEF AtServer
<1>18. ASSUME NEW p \in Presses, Records(p) \/ DeletesSent(p) \/ ServerStops(p) PROVE AskedInv'
  <2>1. outbox' = outbox BY <1>18 DEF Records, DeletesSent, ServerStops, mail
  <2>2. \E from \in AtServer, to \in {"recorded", "ok", "failed"} : ServerGoes(p, from, to)
    BY <1>18, ServerStepsGo DEF AtServer, ServerStops
  <2>3. QED BY <1>15, <2>1, <2>2 DEF AtServer
<1>19. ASSUME NEW p \in Presses, DeleteArrives(p) PROVE AskedInv'
  <2>1. outbox' = outbox BY <1>19 DEF DeleteArrives, mail
  <2>2. QED BY <1>8, <1>19, <2>1, ServerStepsGo
<1>20. CASE \/ Write \/ reopenCard \/ Mount \/ Autosave \/ ListRead \/ ListAnswered
            \/ (\E s \in Slots : EditArrives(s)) \/ UNCHANGED composerVars
  <2>1. press' = press /\ outbox' = outbox
    BY <1>20
    DEF Write, reopenCard, Mount, Autosave, ListRead, ListAnswered, EditArrives, composerVars, mail
  <2>2. QED BY <1>5, <2>1 DEF ButtonsStay, Alike
<1>21. QED
  BY <1>9, <1>10, <1>11, <1>13, <1>14, <1>16, <1>17, <1>18, <1>19, <1>20 DEF ComposerNext

-----------------------------------------------------------------------------
ComposerInv ==
    /\ ComposerTypeOK /\ CauseInv /\ OnceInv /\ DockInv /\ ScreenInv /\ BackInv
    /\ ShownInv /\ AskedInv

LEMMA ComposerStart == ASSUME ComposerConstants, ComposerInit PROVE ComposerInv
<1>1. composerKinds \subseteq ComposerKinds /\ acts \in 0..MaxActs
  BY DEF ComposerInit, ComposerConstants
<1>2. 0 \in Texts /\ 0 \in Nat BY DEF Texts, ComposerConstants
<1>3. draft \in Drafts /\ draft # NoDraft /\ draft.text = 0 /\ draft.open = TRUE
  <2>1. draft = [text |-> 0, open |-> TRUE, rev |-> 0] BY DEF ComposerInit
  <2>2. draft \in Drafts BY <1>2, <2>1 DEF Drafts
  <2>3. QED BY <2>1, <2>2 DEF ComposerConstants
<1>4. dock \in DockCopies /\ dock # NoDraft /\ dock.text = 0 /\ dock.open = TRUE
  <2>1. dock = [text |-> 0, open |-> TRUE] BY DEF ComposerInit
  <2>2. dock \in DockCopies BY <1>2, <2>1 DEF DockCopies
  <2>3. QED BY <2>1, <2>2 DEF ComposerConstants
<1>5. card \in Cards /\ card # NoDraft /\ card.text = 0 /\ card.saved = 0
  <2>1. card = [text |-> 0, saved |-> 0, timer |-> FALSE] BY DEF ComposerInit
  <2>2. card \in Cards BY <1>2, <2>1 DEF Cards
  <2>3. QED BY <2>1, <2>2 DEF ComposerConstants
<1>6. edits \in [Slots -> Edits] /\ \A s \in Slots : edits[s] = NoEdit
  BY NoEditType DEF ComposerInit
<1>7. press \in [Presses -> Steps] /\ \A p \in Presses : press[p] = NotPressed
  BY NotPressedType DEF ComposerInit
<1>8. NotPressed.pc = "idle" /\ NotPressed.kind = "none" /\ NotPressed.asked = 0 BY DEF NotPressed
<1>9. listed = NoDraft \/ listed \in Drafts BY <1>3 DEF ComposerInit
<1>10. fetch.st = "no" /\ fetch.data = NoDraft /\ outbox = {} /\ sent = {} /\ typed = 0
  BY DEF ComposerInit
<1>11. ComposerTypeOK
  BY <1>1, <1>2, <1>3, <1>4, <1>5, <1>6, <1>7, <1>9, <1>10 DEF ComposerTypeOK
<1>12. CauseInv BY <1>7, <1>8 DEF CauseInv, HasCause, AtServer
<1>13. OnceInv BY <1>7, <1>8, <1>10 DEF OnceInv
<1>14. DockInv /\ ScreenInv /\ BackInv
  BY <1>3, <1>4, <1>7, <1>8, <1>10 DEF DockInv, ScreenInv, OneFlush, BackInv, DeleteOut
<1>15. ShownInv
  <2>1. \A s \in Slots : edits[s].st = "none" BY <1>6 DEF NoEdit
  <2>2. PICK o \in BOOLEAN : o = TRUE OBVIOUS
  <2>3. WillHold(0, o) /\ Shows(0, o)
    BY <1>3, <1>4, <1>5, <2>1, <2>2 DEF WillHold, Shows
  <2>4. QED BY <1>2, <2>3 DEF ShownInv
<1>16. AskedInv BY <1>7, <1>8, <1>10 DEF AskedInv, Asks
<1>17. QED BY <1>11, <1>12, <1>13, <1>14, <1>15, <1>16 DEF ComposerInv

LEMMA ComposerStep ==
    ASSUME ComposerConstants, ComposerInv, [ComposerNext]_composerVars
    PROVE  ComposerInv' /\ [GoesForCause]_composerVars
BY ComposerTypeStep, CauseStep, CauseGoes, OnceStep, DockStep, ScreenStep, BackStep, ShownStep,
   AskedStep
DEF ComposerInv

(* What the parts of the invariant say of a draft.                         *)
LEMMA InvShowsDraft == ASSUME ComposerInv PROVE DraftIsShown
<1>1. ASSUME AtRest
      PROVE  /\ \A s \in Slots : edits[s].st = "none"
             /\ \A p \in Presses : press[p].pc = "idle"
             /\ EditsLanded /\ fetch.st = "no" /\ (card # NoDraft => ~card.timer)
  BY <1>1 DEF AtRest, NoEdit, NotPressed, EditsLanded
<1>2. SavesAreSound
  <2>1. SUFFICES ASSUME SavesGo PROVE SavesAreSound BY DEF SavesAreSound, SavesGo, Happens
  <2>2. ASSUME AtRest, draft # NoDraft, dock # NoDraft
        PROVE  /\ draft.text = (IF card = NoDraft THEN dock.text ELSE card.text)
               /\ draft.open = dock.open
    <3>1. PICK x \in Texts, o \in BOOLEAN : WillHold(x, o) /\ Shows(x, o)
      BY <2>1, <2>2 DEF ComposerInv, ShownInv
    <3>2. draft.text = x /\ draft.open = o BY <1>1, <2>2, <3>1, NothingOutHolds
    <3>3. QED BY <1>1, <2>2, <3>1, <3>2 DEF Shows
  <2>3. \A m \in outbox : m.text >= m.asked BY <2>1 DEF ComposerInv, AskedInv
  <2>4. QED BY <2>2, <2>3 DEF SavesAreSound
<1>3. DockIsTheRow
  <2>1. SUFFICES ASSUME "deleteFails" \in composerKinds => composerKinds \cap {"slow", "send"} = {},
                        AtRest
                 PROVE  /\ dock # NoDraft => draft # NoDraft
                        /\ draft # NoDraft /\ dock = NoDraft => draft = listed
    BY DEF DockIsTheRow
  <2>2. ~DeleteOut BY <1>1, <2>1 DEF DeleteOut
  <2>3. CASE Happens("deleteFails")
    BY <1>1, <2>1, <2>2, <2>3 DEF ComposerInv, BackInv, MayFail, Happens
  <2>4. CASE ~Happens("deleteFails")
    BY <1>1, <2>1, <2>2, <2>4 DEF ComposerInv, DockInv
  <2>5. QED BY <2>3, <2>4
<1>4. SentOnce
  <2>1. SUFFICES ASSUME AtOnce PROVE Cardinality(outbox) <= 1 BY DEF SentOnce, AtOnce
  <2>2. CASE outbox = {} BY <2>2, FS_EmptySet
  <2>3. CASE outbox # {}
    <3>1. PICK m \in outbox : TRUE BY <2>3
    <3>2. outbox = {m} BY <2>1, <3>1 DEF ComposerInv, OnceInv
    <3>3. Cardinality({m}) = 1 BY FS_Singleton
    <3>4. QED BY <3>2, <3>3
  <2>4. QED BY <2>2, <2>3
<1>5. QED BY <1>2, <1>3, <1>4 DEF DraftIsShown

LEMMA ComposerHolds == ComposerConstants => (ComposerSpec => []ComposerInv)
<1> SUFFICES ASSUME ComposerConstants PROVE ComposerSpec => []ComposerInv OBVIOUS
<1>1. ComposerInit => ComposerInv BY ComposerStart
<1>2. ComposerInv /\ [ComposerNext]_composerVars => ComposerInv' BY ComposerStep
<1>3. QED BY <1>1, <1>2, PTL DEF ComposerSpec

(* The row, the dock, the card, the PATCHes and the buttons keep their     *)
(* types, however they overlap.                                            *)
THEOREM ComposerTyped == ComposerConstants => (ComposerSpec => []ComposerTypeOK)
<1>1. ComposerInv => ComposerTypeOK BY DEF ComposerInv
<1>2. QED BY <1>1, ComposerHolds, PTL

(* However autosaves, buttons, refetches and the routes overlap: once      *)
(* nothing is under way the row, the dock and the card agree, a message    *)
(* has what stood in the card and goes once, and a row goes for a cause    *)
(* (ComposerCard.tsx, ComposerProvider.tsx, emailDrafts.ts, emailSend.ts). *)
THEOREM DraftIsKept == ComposerConstants => (ComposerSpec => DraftStands)
<1> SUFFICES ASSUME ComposerConstants PROVE ComposerSpec => DraftStands OBVIOUS
<1>1. ComposerInv /\ [ComposerNext]_composerVars => [GoesForCause]_composerVars BY ComposerStep
<1>2. ComposerInv => DraftIsShown BY InvShowsDraft
<1>3. QED BY <1>1, <1>2, ComposerHolds, PTL DEF ComposerSpec, DraftStands
=============================================================================
