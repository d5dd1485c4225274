------------------------------ MODULE CallPushes -----------------------------
(* A rep's browsers are told of a call or a voicemail, even in the         *)
(* background: the job that pushes one event to each subscription          *)
(* (jobs/callWebPush.ts), the claims that keep it from doing so twice, and *)
(* the subscriptions the rep withdraws (routes/webPushSubscriptions.ts).   *)
(***************************************************************************)
EXTENDS Integers, FiniteSets

CONSTANTS
    Devices,        \* the rep's subscriptions
    PushJobs,       \* the jobs a repeated callback queues for the one event
    MaxDeliveries   \* of a job: retryLimit + 1

(* refuse: the push service answers with an error; gone: with 404 or 410;  *)
(* lost: it delivers and its answer is lost; fault: the database fails;    *)
(* crash: a worker dies; expire: a slow one is taken for dead, and another *)
(* runs beside it; revoke: the rep turns the alerts off.                   *)
PushKinds == {"push", "refuse", "gone", "lost", "fault", "crash", "expire", "revoke"}

VARIABLES
    pushKinds,   \* what this behaviour has; never changes
    subscribed,  \* the subscriptions that are there
    deliveries,  \* WebPushDelivery: subscription -> "none", "claimed" or "delivered"
    shownTimes,  \* how often each browser showed the event
    pushWork     \* job -> its state, what is to do, and its deliveries

pushVars == <<pushKinds, subscribed, deliveries, shownTimes, pushWork>>

PushPcs == {"absent", "queued", "next", "send", "mark", "undo", "forget", "done", "failed"}

PushInit ==
    /\ pushKinds \subseteq PushKinds /\ subscribed = Devices
    /\ deliveries = [d \in Devices |-> "none"] /\ shownTimes = [d \in Devices |-> 0]
    /\ pushWork = [j \in PushJobs |-> [pc |-> "absent", todo |-> {}, tries |-> 0]]

-----------------------------------------------------------------------------
PushGoes(j, work) == pushWork' = [pushWork EXCEPT ![j] = work] /\ UNCHANGED pushKinds
PushTo(j, pc) == PushGoes(j, [pushWork[j] EXCEPT !.pc = pc])

(* The queue delivers a job that threw again, or gives it up.              *)
Thrown(j) == PushTo(j, IF pushWork[j].tries < MaxDeliveries THEN "queued" ELSE "failed")

(* A callback of the carrier, or its repetition.                           *)
PushQueue(j) ==
    /\ "push" \in pushKinds /\ pushWork[j].pc = "absent"
    /\ PushTo(j, "queued") /\ UNCHANGED <<subscribed, deliveries, shownTimes>>

Running(j) == pushWork[j].pc \in {"next", "send", "mark", "undo", "forget"}

(* One job of a key is active at a time. A rep with no browser left needs  *)
(* nothing.                                                                *)
PushStart(j) ==
    LET work == pushWork[j] IN
    /\ work.pc = "queued" /\ ("expire" \in pushKinds \/ \A i \in PushJobs : ~Running(i))
    /\ PushGoes(j, [pc |-> IF subscribed = {} THEN "done" ELSE "next",
                    todo |-> subscribed, tries |-> work.tries + 1])
    /\ UNCHANGED <<subscribed, deliveries, shownTimes>>

(* Mutant: the row is written, and nobody asks whether it was there.       *)
PushClaimAnew(j, d) ==
    LET work == pushWork[j] IN
    /\ work.pc = "next" /\ d \in work.todo
    /\ IF d \notin subscribed THEN Thrown(j) /\ UNCHANGED deliveries
       ELSE /\ deliveries' = [deliveries EXCEPT ![d] = "claimed"]
            /\ PushGoes(j, [pc |-> "send", todo |-> work.todo, tries |-> work.tries, to |-> d])
    /\ UNCHANGED <<subscribed, shownTimes>>

(* The claim is an insert that skips duplicates: a subscription that has   *)
(* one is passed over, one that is withdrawn fails the job.                *)
PushClaim(j, d) ==
    LET work == pushWork[j] IN
    /\ work.pc = "next" /\ d \in work.todo
    /\ IF d \notin subscribed THEN Thrown(j) /\ UNCHANGED deliveries
       ELSE IF deliveries[d] # "none"
       THEN /\ PushGoes(j, [work EXCEPT !.todo = @ \ {d}]) /\ UNCHANGED deliveries
       ELSE /\ deliveries' = [deliveries EXCEPT ![d] = "claimed"]
            /\ PushGoes(j, [pc |-> "send", todo |-> work.todo, tries |-> work.tries, to |-> d])
    /\ UNCHANGED <<subscribed, shownTimes>>

PushShown(j) ==
    /\ pushWork[j].pc = "send"
    /\ shownTimes' = [shownTimes EXCEPT ![pushWork[j].to] = @ + 1]
    /\ \E pc \in {"mark"} \cup (IF "lost" \in pushKinds THEN {"undo"} ELSE {}) : PushTo(j, pc)
    /\ UNCHANGED <<subscribed, deliveries>>

PushRefused(j) ==
    /\ pushWork[j].pc = "send"
    /\ \/ "refuse" \in pushKinds /\ PushTo(j, "undo")
       \/ "gone" \in pushKinds /\ PushTo(j, "forget")
    /\ UNCHANGED <<subscribed, deliveries, shownTimes>>

(* The row, if it is still there, becomes one that was delivered. A write  *)
(* that fails is caught like a refusal.                                    *)
PushMark(j) ==
    LET work == pushWork[j] IN
    /\ work.pc = "mark"
    /\ \/ /\ PushGoes(j, [pc |-> "next", todo |-> work.todo \ {work.to}, tries |-> work.tries])
          /\ deliveries' = [deliveries EXCEPT ![work.to] = IF @ = "none" THEN @ ELSE "delivered"]
       \/ "fault" \in pushKinds /\ PushTo(j, "undo") /\ UNCHANGED deliveries
    /\ UNCHANGED <<subscribed, shownTimes>>

(* Mutant: a refused claim is kept.                                        *)
PushUndoNothing(j) ==
    /\ pushWork[j].pc = "undo" /\ Thrown(j) /\ UNCHANGED <<subscribed, deliveries, shownTimes>>

(* The claim is given back if that succeeds, and the job throws.           *)
PushUndo(j) ==
    /\ pushWork[j].pc = "undo" /\ Thrown(j)
    /\ \/ deliveries' = [deliveries EXCEPT ![pushWork[j].to] = "none"]
       \/ "fault" \in pushKinds /\ UNCHANGED deliveries
    /\ UNCHANGED <<subscribed, shownTimes>>

Withdrawn(d) ==
    subscribed' = subscribed \ {d} /\ deliveries' = [deliveries EXCEPT ![d] = "none"]

(* A subscription that is gone goes, with its claims, and the job throws.  *)
PushForget(j) ==
    /\ pushWork[j].pc = "forget" /\ Thrown(j) /\ Withdrawn(pushWork[j].to) /\ UNCHANGED shownTimes

PushFinish(j) ==
    /\ pushWork[j].pc = "next" /\ pushWork[j].todo = {}
    /\ PushTo(j, "done") /\ UNCHANGED <<subscribed, deliveries, shownTimes>>

PushCrash(j) ==
    /\ "crash" \in pushKinds /\ Running(j) /\ Thrown(j)
    /\ UNCHANGED <<subscribed, deliveries, shownTimes>>

Unsubscribe(d) ==
    /\ "revoke" \in pushKinds /\ d \in subscribed /\ Withdrawn(d)
    /\ UNCHANGED <<pushKinds, shownTimes, pushWork>>

PushNext ==
    \/ \E j \in PushJobs :
          \/ PushQueue(j) \/ PushStart(j) \/ PushShown(j) \/ PushRefused(j)
          \/ PushMark(j) \/ PushUndo(j) \/ PushForget(j) \/ PushFinish(j) \/ PushCrash(j)
          \/ \E d \in Devices : PushClaim(j, d)
    \/ \E d \in Devices : Unsubscribe(d)

PushSpec == PushInit /\ [][PushNext]_pushVars

-----------------------------------------------------------------------------
PushTypeOK ==
    /\ subscribed \subseteq Devices /\ shownTimes \in [Devices -> 0..MaxDeliveries * Cardinality(PushJobs)]
    /\ deliveries \in [Devices -> {"none", "claimed", "delivered"}]
    /\ \A j \in PushJobs : pushWork[j].pc \in PushPcs /\ pushWork[j].tries \in 0..MaxDeliveries

(* What the theorems ask of the constants.                                 *)
PushConstants == IsFiniteSet(PushJobs) /\ MaxDeliveries \in Nat \ {0}

(* No browser shows an event twice, whatever is delivered again, unless it *)
(* is not known that it did; and a job that is done leaves no browser      *)
(* without it, unless a claim outlived its worker (callWebPush.ts:24-39).  *)
PushedOnce ==
    \A d \in Devices :
       /\ {"lost", "fault"} \cap pushKinds = {} => shownTimes[d] <= 1
       /\ {"crash", "fault", "expire"} \cap pushKinds = {} /\ d \in subscribed
          /\ (\E j \in PushJobs : pushWork[j].pc = "done") => shownTimes[d] >= 1

-----------------------------------------------------------------------------
(* What the code says and does not do; TLC refutes both, see the README.   *)

(* "The unique key makes Twilio's at-least-once callbacks safe to retry":  *)
(* the claim of a worker that died stays, and is passed over.              *)
DoneIsShown ==
    \A j \in PushJobs : pushWork[j].pc = "done" => \A d \in subscribed : shownTimes[d] >= 1

(* The claim of an event that was shown is given back when it cannot be    *)
(* marked.                                                                 *)
NeverTwice == \A d \in Devices : shownTimes[d] <= 1
=============================================================================
