------------------------------- MODULE Notices -------------------------------
(* The cards in the inboxes of an organisation's members: what a source    *)
(* fans out to them, folded into bundles (crm/notifications.ts), and what  *)
(* they archive (routes/notifications.ts).                                 *)
(*                                                                         *)
(* A fan-out is part of its source's transaction: it goes through the      *)
(* recipients in order, takes an advisory lock for each, looks for an open *)
(* card and adds to it or writes a new one.                                *)
(***************************************************************************)
EXTENDS Integers, SequencesExt, Rows

CONSTANTS
    CardIds,        \* row ids
    Senders,        \* concurrent transactions
    NoCard,         \* no row
    MaxBatched,     \* MAX_NOISY_BUNDLES_PER_RECIPIENT
    BatchWindow, BatchCap, \* BATCH_WINDOW_MS and BATCH_CAP_MS, in ticks
    LastTick,       \* the end of time; a bound
    NoticeInstances \* what one behaviour has: its kinds, and the events with
                    \* their verb, key and recipients, sorted

(* retry: a source's work is done again after it committed; later: time    *)
(* passes.                                                                 *)
NoticeKinds == {"send", "retry", "archive", "unarchive", "later"}

VARIABLES
    noticeKinds, \* what this behaviour has; never changes
    events,      \* event key -> verb, key (dedupeKey, batchKey or the object) and to
    clock,
    cards,       \* the committed rows: id -> to, lead (notificationObjectId),
                 \* objects, mode, open (archivedAt is null), made and touched
    told,        \* the events whose source has committed
    noticeWork   \* sender -> its transaction

noticeVars == <<noticeKinds, events, clock, cards, told, noticeWork>>

(* rest: the recipients to go; card: what was found for the first of them; *)
(* written: the rows written; locks: the advisory locks; now: when it took *)
(* the time.                                                               *)
NoNotice == [pc |-> "idle", event |-> NoCard, rest |-> <<>>, card |-> NoCard,
             written |-> NoRows, locks |-> {}, now |-> 0]
NoticePcs == {"idle", "find", "put", "commit"}

NoticesInit ==
    /\ \E i \in NoticeInstances : noticeKinds = i.kinds /\ events = i.events
    /\ clock = 0 /\ cards = NoRows /\ told = {}
    /\ noticeWork = [q \in Senders |-> NoNotice]

-----------------------------------------------------------------------------
IsAction(e) == events[e].verb \in {"mention", "assignment"}
IsNoisy(e) == events[e].verb = "comment"

Sees(task) == Over(task.written, cards)
FreshCards == CardIds \ (DOMAIN cards \cup UNION {DOMAIN noticeWork[q].written : q \in Senders})

NoticeGoes(q, task) ==
    noticeWork' = [noticeWork EXCEPT ![q] = task] /\ UNCHANGED <<noticeKinds, events, clock>>

(* On to the next recipient.                                               *)
NextReader(q, written) ==
    LET task == noticeWork[q] IN
    /\ NoticeGoes(q, [task EXCEPT !.rest = Tail(@), !.card = NoCard, !.written = Over(written, @),
                          !.pc = IF Len(task.rest) = 1 THEN "commit" ELSE "find"])
    /\ UNCHANGED <<cards, told>>

(* The event's object is upserted: who repeats an event waits for it.      *)
FanOut(q, e) ==
    /\ "send" \in noticeKinds /\ noticeWork[q].pc = "idle"
    /\ \A o \in Senders \ {q} : noticeWork[o].pc # "idle" => noticeWork[o].event # e
    /\ e \in told => "retry" \in noticeKinds
    /\ NoticeGoes(q, [NoNotice EXCEPT !.pc = "find", !.event = e, !.rest = events[e].to,
                                      !.now = clock])
    /\ UNCHANGED <<cards, told>>

(* Mutant: bundles are locked one by one, not with all of their reader's.  *)
LockPerKey(e, reader) == <<reader, events[e].key>>

LockOf(e, reader) == IF IsNoisy(e) THEN <<reader>> ELSE <<reader, events[e].key>>

(* The open cards an event would be folded into.                           *)
Matches(task) ==
    LET rows == Sees(task)
        e == task.event IN
    {c \in DOMAIN rows :
        /\ rows[c].to = Head(task.rest) /\ rows[c].open
        /\ events[rows[c].lead].key = events[e].key
        /\ IF IsNoisy(e)
           THEN /\ IsNoisy(rows[c].lead)
                /\ rows[c].made >= task.now - BatchCap /\ rows[c].touched >= task.now - BatchWindow
           ELSE IsAction(rows[c].lead)}

FindCard(q) ==
    LET task == noticeWork[q]
        l == LockOf(task.event, Head(task.rest)) IN
    /\ task.pc = "find" /\ (IsAction(task.event) \/ IsNoisy(task.event))
    /\ \A o \in Senders \ {q} : l \notin noticeWork[o].locks
    /\ \E c \in IF Matches(task) = {} THEN {NoCard} ELSE Matches(task) :
          NoticeGoes(q, [task EXCEPT !.pc = "put", !.card = c, !.locks = @ \cup {l}])
    /\ UNCHANGED <<cards, told>>

(* createMany with skipDuplicates: one row per event and reader.           *)
WriteCard(q, mode) ==
    LET task == noticeWork[q]
        rows == Sees(task)
        reader == Head(task.rest) IN
    IF \E c \in DOMAIN rows : rows[c].lead = task.event /\ rows[c].to = reader
    THEN NextReader(q, NoRows)
    ELSE /\ FreshCards # {}
         /\ NextReader(q, [c \in {CHOOSE c \in FreshCards : TRUE} |->
                [to |-> reader, lead |-> task.event, objects |-> {task.event}, mode |-> mode,
                 open |-> TRUE, made |-> clock, touched |-> clock]])

(* What carries no key is one card per event.                              *)
PutPlain(q) ==
    LET task == noticeWork[q] IN
    /\ task.pc = "find" /\ ~IsAction(task.event) /\ ~IsNoisy(task.event)
    /\ WriteCard(q, "immediate")

(* The rate: beyond so many bundles the rest goes into a digest.           *)
PutNew(q) ==
    LET task == noticeWork[q]
        rows == Sees(task)
        bundles == {c \in DOMAIN rows : /\ rows[c].to = Head(task.rest) /\ IsNoisy(rows[c].lead)
                                        /\ rows[c].made >= task.now - BatchCap} IN
    /\ task.pc = "put" /\ task.card = NoCard
    /\ WriteCard(q, IF IsAction(task.event) THEN "immediate"
                 ELSE IF Cardinality(bundles) >= MaxBatched THEN "digest" ELSE "batched")

(* An assignment becomes what its card is about.                           *)
Fold(q) ==
    LET task == noticeWork[q]
        e == task.event
        row == Sees(task)[task.card]
        wins == events[e].verb = "assignment" /\ events[row.lead].verb # "assignment" IN
    /\ task.pc = "put" /\ task.card # NoCard
    /\ IF e \in row.objects THEN NextReader(q, NoRows)
       ELSE /\ wins => \A c \in DOMAIN Sees(task) :
                          Sees(task)[c].lead = e => Sees(task)[c].to # row.to
            /\ NextReader(q, [c \in {task.card} |->
                           [row EXCEPT !.objects = @ \cup {e}, !.touched = clock,
                                       !.lead = IF wins THEN e ELSE @]])

NoticeCommit(q) ==
    LET task == noticeWork[q] IN
    /\ task.pc = "commit" /\ cards' = Sees(task) /\ told' = told \cup {task.event}
    /\ NoticeGoes(q, NoNotice)

(* The source fails, or a row would be led by an event that leads another. *)
NoticeRollback(q) ==
    /\ noticeWork[q].pc # "idle"
    /\ NoticeGoes(q, NoNotice) /\ UNCHANGED <<cards, told>>

(* PATCH of a card, by its reader: the row is locked, then updated.        *)
Lifecycle(action, open) ==
    /\ action \in noticeKinds
    /\ \E c \in DOMAIN cards :
          /\ \A q \in Senders : c \notin DOMAIN noticeWork[q].written
          /\ cards[c].open # open
          /\ cards' = [cards EXCEPT ![c] = [@ EXCEPT !.open = open, !.touched = clock]]
    /\ UNCHANGED <<noticeKinds, events, clock, told, noticeWork>>

Archive == Lifecycle("archive", FALSE)
Unarchive == Lifecycle("unarchive", TRUE)

Tick ==
    /\ "later" \in noticeKinds /\ clock < LastTick /\ clock' = clock + 1
    /\ UNCHANGED <<noticeKinds, events, cards, told, noticeWork>>

NoticesNext ==
    \/ \E q \in Senders :
          \/ \E e \in DOMAIN events : FanOut(q, e)
          \/ FindCard(q) \/ PutPlain(q) \/ PutNew(q) \/ Fold(q) \/ NoticeCommit(q) \/ NoticeRollback(q)
    \/ Archive \/ Unarchive \/ Tick

NoticesSpec == NoticesInit /\ [][NoticesNext]_noticeVars

-----------------------------------------------------------------------------
NoticesTypeOK ==
    /\ DOMAIN cards \subseteq CardIds /\ told \subseteq DOMAIN events /\ clock \in 0..LastTick
    /\ \A c \in DOMAIN cards :
          /\ cards[c].lead \in cards[c].objects /\ cards[c].objects \subseteq DOMAIN events
          /\ cards[c].mode \in {"immediate", "batched", "digest"}
          /\ cards[c].made <= cards[c].touched
    /\ \A q \in Senders : noticeWork[q].pc \in NoticePcs

SameAction(c, d) ==
    /\ cards[c].to = cards[d].to /\ IsAction(cards[c].lead) /\ IsAction(cards[d].lead)
    /\ events[cards[c].lead].key = events[cards[d].lead].key

(* What the theorems ask of the constants: who is told of nothing has no   *)
(* event.                                                                  *)
NoticeConstants ==
    /\ IsFiniteSet(CardIds) /\ NoCard \notin CardIds
    /\ MaxBatched \in Nat /\ BatchWindow \in Nat /\ BatchCap \in Nat /\ LastTick \in Nat
    /\ \A i \in NoticeInstances :
          /\ i.kinds \subseteq NoticeKinds
          /\ \A e \in DOMAIN i.events : i.events[e].to \in Seq(ToSet(i.events[e].to)) \ {<<>>}

(* One action of a colleague is one open card, which an assignment leads.  *)
OneOpenCard ==
    \A c, d \in DOMAIN cards :
       /\ "unarchive" \notin noticeKinds /\ SameAction(c, d) /\ cards[c].open /\ cards[d].open
          => c = d
       /\ events[cards[c].lead].verb = "mention" =>
          \A e \in cards[c].objects : events[e].verb # "assignment"

(* Who was to be told is told, and once, however events are repeated,      *)
(* unless cards are archived or bundles closed meanwhile.                  *)
EachIsToldOnce ==
    \A e \in DOMAIN events : \A reader \in ToSet(events[e].to) :
       LET about == {c \in DOMAIN cards : cards[c].to = reader /\ e \in cards[c].objects} IN
       /\ e \in told => about # {}
       /\ {"archive", "later"} \cap noticeKinds = {} => Cardinality(about) <= 1

(* Nobody gets more bundles than the limit within the time it is about.    *)
RateIsCapped ==
    \A c \in DOMAIN cards :
       Cardinality({d \in DOMAIN cards :
                       /\ cards[d].to = cards[c].to /\ cards[d].mode = "batched"
                       /\ cards[d].made \in cards[c].made - BatchCap .. cards[c].made}) <= MaxBatched

(* What concurrent fan-outs leave in the inboxes (crm/notifications.ts:    *)
(* 258-311, 312-372).                                                      *)
NoticesStand == OneOpenCard /\ EachIsToldOnce /\ RateIsCapped

-----------------------------------------------------------------------------
(* What the code says and does not do; TLC refutes it, see the README.     *)

(* schema.prisma: "retrying the same event can never give one person two   *)
(* inbox rows".                                                            *)
RetriedIsOneRow ==
    \A c, d \in DOMAIN cards :
       cards[c].to = cards[d].to /\ cards[c].objects \cap cards[d].objects # {} => c = d
=============================================================================
