------------------------------- MODULE Composer -------------------------------
(* One draft of an email: the card a rep types it in (ComposerCard), the   *)
(* dock that outlives the card (ComposerProvider), the row the routes of   *)
(* the server keep, and the message a send hands to the mail provider.     *)
(*                                                                         *)
(* The text, the subject and the recipients are one: a stamp that grows as *)
(* the rep types, 0 while all are blank. A request may arrive at any time  *)
(* after it has left; the browser runs one callback at a time.             *)
(***************************************************************************)
EXTENDS Naturals, FiniteSets

CONSTANTS
    NoDraft,
    Presses,            \* buttons of the rep that may be under way at once
    MaxTyped,           \* bound on what the rep types
    MaxActs,            \* bound on what the rep does in any of them
    ComposerInstances   \* the events of one behaviour, and how often the rep acts

(* "slow": a save may be overtaken by what leaves after it. "saveFails",   *)
(* "deleteFails": the request fails. "refuse": the provider does. "crash": *)
(* the server stops between two steps of a send. "again": a button is      *)
(* pressed while it is under way. "squeeze": no room for the card.         *)
(* "noReceipt": the mailbox accepts without an id (Microsoft).             *)
ComposerKinds == {"write", "send", "away", "discard", "squeeze", "slow", "saveFails",
                  "deleteFails", "refuse", "crash", "again", "noReceipt"}

VARIABLES
    composerKinds,  \* of this behaviour; never changes
    draft,          \* the row: its text, isOpen, and updatedAt; or NoDraft
    dock,           \* the provider's copy of it, or NoDraft
    card,           \* the mounted card: text, savedRef, the debounce; or NoDraft
    typed, acts,    \* what the rep has typed, and may do yet
    edits,          \* the PATCHes under way
    press,          \* how far each button is
    listed, fetch,  \* the list of drafts as last answered; its refetch
    outbox, sent    \* what the provider has accepted; the Email rows

rep == <<typed, acts>>
onScreen == <<dock, card>>
mail == <<outbox, sent>>
lists == <<listed, fetch>>
composerVars == <<composerKinds, draft, onScreen, rep, edits, press, lists, mail>>

Texts == 0..MaxTyped
Keep == MaxTyped + 1      \* the PATCH does not carry the text
Slots == 1..3             \* a bound on the PATCHes under way
NoEdit == [st |-> "none", text |-> Keep, open |-> {}]
NotPressed ==
    [kind |-> "none", pc |-> "idle", asked |-> 0, text |-> 0, slot |-> 0, at |-> 0, here |-> FALSE]
AtServer == {"sending", "accepted", "recorded"}

(* A card that was made by POST is in no list; one that was listed is.     *)
ComposerInit ==
    /\ \E i \in ComposerInstances : composerKinds = i.kinds /\ acts = i.acts
    /\ draft = [text |-> 0, open |-> TRUE, rev |-> 0]
    /\ dock = [text |-> 0, open |-> TRUE]
    /\ card = [text |-> 0, saved |-> 0, timer |-> FALSE]
    /\ typed = 0
    /\ edits = [s \in Slots |-> NoEdit]
    /\ press = [p \in Presses |-> NotPressed]
    /\ listed \in IF composerKinds = {} THEN {NoDraft} ELSE {NoDraft, draft}
    /\ fetch = [st |-> "no", data |-> NoDraft]
    /\ outbox = {} /\ sent = {}

Happens(kind) == kind \in composerKinds
FirstFree(e) == CHOOSE s \in Slots : e[s] = NoEdit /\ \A o \in 1..s - 1 : e[o] # NoEdit
Room == Cardinality({s \in Slots : edits[s] = NoEdit}) >= 2
Calm == Happens("slow") \/ \A s \in Slots : edits[s] = NoEdit

(* No callback is between two of its statements.                           *)
Settled == \A p \in Presses : ~(press[p].pc = "flush" /\ press[p].slot = 0)
RepActs == Settled /\ acts > 0 /\ acts' = acts - 1

-----------------------------------------------------------------------------
(* What the functions of the card and the provider do.                     *)

Unsaved == card # NoDraft /\ card.text # card.saved
WithPatch(e, text, open) ==
    [e EXCEPT ![FirstFree(e)] = [st |-> "out", text |-> text, open |-> open]]

(* flush: the key is marked saved before the PATCH is answered. saveDraft  *)
(* merges it into the dock's copy, if that is there.                       *)
Flushed(e) == IF Unsaved THEN WithPatch(e, card.text, {}) ELSE e

(* Mutant: the dock learns of a text from the answer to its PATCH.         *)
MergedLater(d) == d
Merged(d) == IF Unsaved /\ d # NoDraft THEN [d EXCEPT !.text = card.text] ELSE d

Put(p, step) == press' = [press EXCEPT ![p] = step]

(* The card leaves the screen and flushes on its way out. A card that is   *)
(* mounted later knows nothing of the buttons of this one.                 *)
Unmount(pr) ==
    /\ card' = NoDraft
    /\ press' = [q \in Presses |-> [pr[q] EXCEPT !.here = FALSE]]

closeCard(p, e) ==
    LET closed == IF dock = NoDraft THEN NoDraft ELSE [dock EXCEPT !.open = FALSE]
    IN  /\ dock' = Merged(closed)
        /\ edits' = Flushed(WithPatch(e, Keep, {FALSE}))
        /\ Unmount([press EXCEPT ![p] = NotPressed])

discardDraft(p, e) ==
    IF \E q \in Presses : press[q].pc = "delete"
    THEN Put(p, NotPressed) /\ edits' = e /\ UNCHANGED onScreen
    ELSE /\ dock' = NoDraft
         /\ edits' = Flushed(e)
         /\ Unmount([press EXCEPT ![p].pc = "delete", ![p].slot = 0])

-----------------------------------------------------------------------------
(* The rep.                                                                *)

Write ==
    /\ Happens("write") /\ RepActs /\ card # NoDraft
    /\ \/ /\ typed < MaxTyped /\ typed' = typed + 1
          /\ card' = [card EXCEPT !.text = typed + 1, !.timer = TRUE]
       \/ /\ card.text # 0 /\ card' = [card EXCEPT !.text = 0, !.timer = TRUE]
          /\ UNCHANGED typed
    /\ UNCHANGED <<composerKinds, draft, dock, edits, press, lists, mail>>

(* Every button flushes first. Send is disabled without a recipient, and   *)
(* while this card's request is under way (isPending).                     *)
Press(p, kind) ==
    /\ Happens(kind) /\ RepActs /\ Calm /\ Room /\ card # NoDraft /\ press[p] = NotPressed
    /\ Happens("again") \/ \A q \in Presses : press[q].kind # kind
    /\ kind = "send" =>
           /\ card.text # 0
           /\ ~\E q \in Presses : press[q].here /\ press[q].kind = "send"
                                  /\ press[q].pc \notin {"flush", "delete"}
    /\ Put(p, [kind |-> kind, pc |-> "flush", asked |-> card.text, text |-> 0, at |-> acts,
               slot |-> IF Unsaved THEN FirstFree(edits) ELSE 0, here |-> TRUE])
    /\ edits' = Flushed(edits) /\ dock' = Merged(dock)
    /\ card' = [card EXCEPT !.saved = card.text]
    /\ UNCHANGED <<composerKinds, draft, typed, lists, mail>>

(* The bin of a draft that has no card on the screen (CommandBar).         *)
DeleteKept(p) ==
    /\ Happens("discard") /\ RepActs /\ Calm
    /\ card = NoDraft /\ dock # NoDraft /\ press[p] = NotPressed
    /\ Put(p, [NotPressed EXCEPT !.kind = "discard", !.pc = "flush", !.at = acts])
    /\ UNCHANGED <<composerKinds, draft, onScreen, typed, edits, lists, mail>>

reopenCard ==
    /\ Happens("away") /\ RepActs /\ Calm /\ Room /\ dock # NoDraft /\ ~dock.open
    /\ dock' = [dock EXCEPT !.open = TRUE]
    /\ edits' = WithPatch(edits, Keep, {TRUE})
    /\ UNCHANGED <<composerKinds, draft, card, typed, press, lists, mail>>

(* The window has no room for the card; the dock's copy stays.             *)
Squeeze ==
    /\ Happens("squeeze") /\ RepActs /\ Calm /\ Room /\ card # NoDraft
    /\ dock' = Merged(dock) /\ edits' = Flushed(edits) /\ Unmount(press)
    /\ UNCHANGED <<composerKinds, draft, typed, lists, mail>>

-----------------------------------------------------------------------------
(* The browser, by itself.                                                 *)

(* A card is seeded with the dock's copy, and never reads it again.        *)
Mount ==
    /\ Settled /\ card = NoDraft /\ dock # NoDraft /\ dock.open
    /\ card' = [text |-> dock.text, saved |-> dock.text, timer |-> FALSE]
    /\ UNCHANGED <<composerKinds, draft, dock, rep, edits, press, lists, mail>>

(* 1200 ms after the last keystroke.                                       *)
Autosave ==
    /\ Settled /\ Calm /\ Room /\ card # NoDraft /\ card.timer
    /\ edits' = Flushed(edits) /\ dock' = Merged(dock)
    /\ card' = [card EXCEPT !.saved = card.text, !.timer = FALSE]
    /\ UNCHANGED <<composerKinds, draft, rep, press, lists, mail>>

(* The flush of a button is over, or had nothing to save. saveDraft shows  *)
(* a failure and goes on. What is blank is judged by what it was.          *)
FlushEnds(p) ==
    LET mine == press[p]
        e == IF mine.slot = 0 THEN edits ELSE [edits EXCEPT ![mine.slot] = NoEdit]
    IN  /\ mine.pc = "flush"
        /\ mine.slot # 0 => edits[mine.slot].st = "answered"
        /\ \/ mine.kind = "send" /\ Put(p, [mine EXCEPT !.pc = "post", !.slot = 0])
              /\ edits' = e /\ UNCHANGED onScreen
           \/ mine.kind = "away" /\ mine.asked # 0 /\ closeCard(p, e)
           \/ mine.kind = "away" /\ mine.asked = 0 /\ discardDraft(p, e)
           \/ mine.kind = "discard" /\ discardDraft(p, e)
        /\ UNCHANGED <<composerKinds, draft, rep, lists, mail>>

(* Mutant: the card is dropped whatever the answer was.                    *)
SendAnsweredDrops(p) ==
    /\ Settled /\ press[p].pc \in {"failed", "ok"} /\ Room /\ discardDraft(p, edits)
    /\ UNCHANGED <<composerKinds, draft, rep, lists, mail>>

(* Sent, the card is dropped, with a DELETE that finds no row; else it     *)
(* stays as it is.                                                         *)
SendAnswered(p) ==
    /\ Settled
    /\ \/ press[p].pc = "failed" /\ Put(p, NotPressed) /\ UNCHANGED <<onScreen, edits>>
       \/ press[p].pc = "ok" /\ Room /\ discardDraft(p, edits)
    /\ UNCHANGED <<composerKinds, draft, rep, lists, mail>>

(* The list is folded in when it differs from the one before; a row the    *)
(* dock has already stays as the dock has it.                              *)
ListAnswered ==
    /\ Settled /\ fetch.st = "read"
    /\ fetch' = [st |-> "no", data |-> NoDraft] /\ listed' = fetch.data
    /\ dock' = IF dock = NoDraft /\ fetch.data \notin {NoDraft, listed}
               THEN [text |-> fetch.data.text, open |-> fetch.data.open] ELSE dock
    /\ UNCHANGED <<composerKinds, draft, card, rep, edits, press, mail>>

-----------------------------------------------------------------------------
(* The server.                                                             *)

(* PATCH: updateMany writes the keys it was given, or nothing.             *)
EditArrives(s) ==
    LET edit == edits[s]
        awaited == \E p \in Presses : press[p].pc = "flush" /\ press[p].slot = s
        stored == [text |-> IF edit.text = Keep THEN draft.text ELSE edit.text,
                   open |-> IF edit.open = {} THEN draft.open ELSE TRUE \in edit.open,
                   rev |-> draft.rev + 1]
    IN  /\ edit.st = "out"
        /\ \/ draft' = IF draft = NoDraft THEN NoDraft ELSE stored
           \/ Happens("saveFails") /\ UNCHANGED draft
        /\ edits' = [edits EXCEPT ![s] = IF awaited THEN [edit EXCEPT !.st = "answered"]
                                         ELSE NoEdit]
        /\ UNCHANGED <<composerKinds, onScreen, rep, press, lists, mail>>

(* The send route reads the row it is to send.                             *)
PostArrives(p) ==
    /\ press[p].pc = "post"
    /\ Put(p, IF draft = NoDraft \/ draft.text = 0
              THEN [press[p] EXCEPT !.pc = "failed"]
              ELSE [press[p] EXCEPT !.pc = "sending", !.text = draft.text])
    /\ UNCHANGED <<composerKinds, draft, onScreen, rep, edits, lists, mail>>

(* sendDraftEmail: send, record, delete.                                   *)
Sends(p) ==
    /\ press[p].pc = "sending"
    /\ \/ /\ outbox' = outbox \cup {[at |-> press[p].at, asked |-> press[p].asked,
                                     text |-> press[p].text]}
          /\ Put(p, [press[p] EXCEPT !.pc = IF Happens("noReceipt") THEN "recorded"
                                            ELSE "accepted"])
       \/ Happens("refuse") /\ Put(p, [press[p] EXCEPT !.pc = "failed"]) /\ UNCHANGED outbox
    /\ UNCHANGED <<composerKinds, draft, onScreen, rep, edits, lists, sent>>

Records(p) ==
    /\ press[p].pc = "accepted"
    /\ sent' = sent \cup {press[p].at}
    /\ Put(p, [press[p] EXCEPT !.pc = "recorded"])
    /\ UNCHANGED <<composerKinds, draft, onScreen, rep, edits, lists, outbox>>

DeletesSent(p) ==
    /\ press[p].pc = "recorded"
    /\ draft' = NoDraft
    /\ Put(p, [press[p] EXCEPT !.pc = "ok"])
    /\ UNCHANGED <<composerKinds, onScreen, rep, edits, lists, mail>>

ServerStops(p) ==
    /\ Happens("crash") /\ press[p].pc \in AtServer
    /\ Put(p, [press[p] EXCEPT !.pc = "failed"])
    /\ UNCHANGED <<composerKinds, draft, onScreen, rep, edits, lists, mail>>

(* DELETE: a row that is gone already is a success. A failure refetches.   *)
DeleteArrives(p) ==
    /\ press[p].pc = "delete" /\ Put(p, NotPressed)
    /\ \/ draft' = NoDraft /\ UNCHANGED lists
       \/ /\ Happens("deleteFails") /\ fetch' = [st |-> "out", data |-> NoDraft]
          /\ UNCHANGED <<draft, listed>>
    /\ UNCHANGED <<composerKinds, onScreen, rep, edits, mail>>

ListRead ==
    /\ Calm /\ fetch.st = "out" /\ fetch' = [st |-> "read", data |-> draft]
    /\ UNCHANGED <<composerKinds, draft, onScreen, rep, edits, press, listed, mail>>

ComposerNext ==
    \/ Write \/ reopenCard \/ Squeeze \/ Mount \/ Autosave \/ ListRead \/ ListAnswered
    \/ \E s \in Slots : EditArrives(s)
    \/ \E p \in Presses :
          \/ \E kind \in {"send", "away", "discard"} : Press(p, kind)
          \/ DeleteKept(p) \/ FlushEnds(p) \/ SendAnswered(p) \/ PostArrives(p) \/ Sends(p)
          \/ Records(p) \/ DeletesSent(p) \/ ServerStops(p) \/ DeleteArrives(p)

ComposerSpec == ComposerInit /\ [][ComposerNext]_composerVars

-----------------------------------------------------------------------------
Drafts == [text : Texts, open : BOOLEAN, rev : Nat]
DockCopies == [text : Texts, open : BOOLEAN]
Cards == [text : Texts, saved : Texts, timer : BOOLEAN]
Edits == [st : {"none", "out", "answered"}, text : Texts \cup {Keep}, open : SUBSET BOOLEAN]
Steps ==
    [kind : {"none", "send", "away", "discard"}, asked : Texts, text : Texts,
     pc : AtServer \cup {"idle", "flush", "post", "ok", "failed", "delete"},
     slot : 0..3, at : 0..MaxActs, here : BOOLEAN]
ComposerTypeOK ==
    /\ composerKinds \subseteq ComposerKinds
    /\ draft = NoDraft \/ draft \in Drafts
    /\ dock = NoDraft \/ dock \in DockCopies
    /\ card = NoDraft \/ card \in Cards
    /\ typed \in Texts /\ acts \in 0..MaxActs
    /\ edits \in [Slots -> Edits] /\ press \in [Presses -> Steps]
    /\ listed = NoDraft \/ listed \in Drafts
    /\ fetch.st \in {"no", "out", "read"} /\ (fetch.data = NoDraft \/ fetch.data \in Drafts)
    /\ outbox \subseteq [at : 0..MaxActs, asked : Texts, text : Texts]
    /\ sent \subseteq 0..MaxActs

-----------------------------------------------------------------------------
(* What the rep sees is what is kept.                                      *)

AtRest ==
    /\ \A s \in Slots : edits[s] = NoEdit
    /\ \A p \in Presses : press[p] = NotPressed
    /\ fetch.st = "no" /\ (card # NoDraft => ~card.timer)

(* Where a save does not fail or overtake another: once nothing is under   *)
(* way, the row holds what the rep sees, and a message the provider has    *)
(* accepted has all that stood in the card when Send was pressed.          *)
SavesAreSound ==
    composerKinds \cap {"saveFails", "slow"} = {} =>
        /\ AtRest /\ draft # NoDraft /\ dock # NoDraft =>
               /\ draft.text = (IF card = NoDraft THEN dock.text ELSE card.text)
               /\ draft.open = dock.open
        /\ \A m \in outbox : m.text >= m.asked

(* A draft whose row stands is in the dock once nothing is under way, and  *)
(* no other is; but for a failed delete of a row the last list had shown   *)
(* just so. Of failed deletes it speaks where nothing is sent and no save  *)
(* is overtaken: a list may come after the row went, a save after the list.*)
DockIsTheRow ==
    ("deleteFails" \in composerKinds => composerKinds \cap {"slow", "send"} = {}) /\ AtRest =>
        /\ dock # NoDraft => draft # NoDraft
        /\ draft # NoDraft /\ dock = NoDraft => draft = listed

(* A draft goes out once: unless the server has stopped in between, or     *)
(* Send is pressed again before its request has left.                      *)
SentOnce == composerKinds \cap {"crash", "again"} = {} => Cardinality(outbox) <= 1

(* The three, of every state of a draft.                                   *)
DraftIsShown == SavesAreSound /\ DockIsTheRow /\ SentOnce

(* The row of a draft goes when the rep has said so, when it was put away  *)
(* blank, or after its message: and then the message is recorded, where    *)
(* the mailbox gave an id.                                                 *)
GoesForCause ==
    draft # NoDraft /\ draft' = NoDraft =>
        \E p \in Presses :
            \/ press[p].pc = "delete" /\ press[p].kind = "discard"
            \/ press[p].pc = "delete" /\ press[p].kind = "away" /\ press[p].asked = 0
            \/ /\ \E m \in outbox : m.at = press[p].at
               /\ Happens("noReceipt") \/ press[p].at \in sent

(* What the theorems ask of the constants.                                 *)
ComposerConstants ==
    /\ MaxTyped \in Nat /\ MaxActs \in Nat
    /\ NoDraft \notin Drafts /\ NoDraft \notin DockCopies /\ NoDraft \notin Cards
    /\ \A i \in ComposerInstances : i.kinds \subseteq ComposerKinds /\ i.acts \in 0..MaxActs

(* What a draft promises at any time.                                      *)
DraftStands == []DraftIsShown /\ [][GoesForCause]_composerVars

-----------------------------------------------------------------------------
(* What the repository says and the code does not do; TLC refutes each, see*)
(* the README.                                                             *)

(* SPEC-composer-send.md: a double-click sends one email.                  *)
DoubleClickSendsOnce == "crash" \notin composerKinds => Cardinality(outbox) <= 1

(* email.ts: no window where the body in flight differs from the body on   *)
(* screen.                                                                 *)
SentIsOnScreen == \A m \in outbox : m.text >= m.asked

(* useDeleteEmailDraft.ts: a card that still exists is not lost.           *)
FailedDeleteComesBack == AtRest /\ draft # NoDraft => dock # NoDraft

(* SPEC-composer-dock.md: never delete a draft on close.                   *)
WrittenIsNotDeleted ==
    [][draft # NoDraft /\ draft' = NoDraft /\ draft.text # 0 =>
          \E p \in Presses : press[p].kind \in {"send", "discard"}]_composerVars
=============================================================================
