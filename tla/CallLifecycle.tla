---------------------------- MODULE CallLifecycle ---------------------------
(* The life of a Call row: the dial transaction, the browser leg Twilio    *)
(* fetches TwiML for, Twilio's status callbacks, the hang-up route, the    *)
(* stale-call reaper and the rep's disposition, all writing one row.       *)
(*                                                                         *)
(* A handler holds what it read while other handlers run between its       *)
(* statements. Call rows are never deleted while a handler runs.           *)
(***************************************************************************)
EXTENDS Naturals, Sequences, FiniteSets

CONSTANTS
    OutboundCalls,   \* Call ids a dial may create; a bound on the dials
    InboundCalls,    \* Call ids an inbound webhook may create
    Outcomes,        \* how Twilio ends a call; a bound where not all four
    LoggedCalls,     \* those a rep logs an outcome for; a bound
    Reps,            \* members who dial
    Callees,         \* numbers they dial
    OwnNumbers,      \* the organisation's active phone numbers
    FirstHolder,     \* who holds each of them at the start
    Handlers,        \* concurrent requests
    Sweep,           \* the worker of the reaper's job
    Faults,          \* the failures this instance meets (FaultKinds)
    Nil

(* "reorder": callbacks of one call overtake each other. "duplicate": one  *)
(* is delivered again. "lost": one never arrives. "crash": a handler dies  *)
(* between two steps. "apiDown": Twilio's API answers the reaper with an   *)
(* error. "reassign": an admin moves numbers while calls are dialed.       *)
FaultKinds == {"reorder", "duplicate", "lost", "crash", "apiDown", "reassign"}

Calls == OutboundCalls \cup InboundCalls
Workers == Handlers \cup {Sweep}

ASSUME CallConstants ==
    /\ OutboundCalls \cap InboundCalls = {}
    /\ LoggedCalls \subseteq Calls
    /\ {"completed", "canceled"} \subseteq Outcomes
    /\ Outcomes \subseteq {"completed", "no-answer", "failed", "canceled"}
    /\ FirstHolder \in [OwnNumbers -> Reps \cup {Nil}]
    /\ Faults \subseteq FaultKinds
    /\ Nil \notin Reps \cup Callees \cup Calls
    /\ Sweep \notin Handlers

VARIABLES
    status,        \* call -> "none" before the row is created
    stamped,       \* call -> whether twilioCallSid is set
    ended,         \* call -> whether endedAt is set
    disposition,   \* call -> "none", "rep" (chosen) or "auto" (derived)
    stale,         \* call -> updatedAt is older than DIALED_STALE_MS
    userId,        \* call -> the member it belongs to
    toE164,        \* call -> the number dialed
    holder,        \* phone number -> assignedUserId
    leg,           \* call -> what Twilio is doing with it
    onMobile,      \* call -> an inbound call was forwarded to a mobile
    transit,       \* call -> its status callbacks under way, oldest first
    dialResult,    \* call -> the <Dial action> result Twilio is posting
    work           \* handler -> what it is in the middle of

rowVars == <<status, stamped, ended, disposition, stale, userId, toE164>>
twilioVars == <<leg, onMobile, transit, dialResult>>
vars == <<rowVars, holder, twilioVars, work>>

-----------------------------------------------------------------------------
(* "busy" is Twilio's fifth terminal status; a row treats it exactly as it *)
(* treats "no-answer", which stands for both.                              *)
IN_FLIGHT_STATUSES == {"queued", "ringing", "in-progress"}
TERMINAL_CALL_STATUSES == {"completed", "no-answer", "failed", "canceled"}
CallStatuses == IN_FLIGHT_STATUSES \cup TERMINAL_CALL_STATUSES
Legs == {"none", "connecting", "bridging", "ringing", "in-progress", "over"}
LiveLegs == {"connecting", "bridging", "ringing", "in-progress"}
Callbacks == {"ringing", "in-progress"} \cup TERMINAL_CALL_STATUSES

WorkPcs == {"idle", "dialLock", "dialCheck", "dialInsert", "hookUpdate", "hookDispose",
            "hangUpTwilio", "hangUpSettle", "reapFetch", "reapSettle"}
DialPcs == {"dialCheck", "dialInsert"}    \* the numbers are locked

(* numbers: matched by the dial's FOR UPDATE snapshot, then locked by it.  *)
(* seen: the callback's status, or the outcome the reaper will write.      *)
(* chosen: the disposition the callback's read of the row saw.             *)
Work == [pc : WorkPcs, call : Calls \cup {Nil}, rep : Reps \cup {Nil},
         to : Callees \cup {Nil}, numbers : SUBSET OwnNumbers,
         seen : CallStatuses \cup {"none"}, chosen : {"none", "rep", "auto"}]
NoWork == [pc |-> "idle", call |-> Nil, rep |-> Nil, to |-> Nil,
           numbers |-> {}, seen |-> "none", chosen |-> "none"]

Init ==
    /\ status = [c \in Calls |-> "none"]
    /\ stamped = [c \in Calls |-> FALSE]
    /\ ended = [c \in Calls |-> FALSE]
    /\ disposition = [c \in Calls |-> "none"]
    /\ stale = [c \in Calls |-> FALSE]
    /\ userId = [c \in Calls |-> Nil]
    /\ toE164 = [c \in Calls |-> Nil]
    /\ holder = FirstHolder
    /\ leg = [c \in Calls |-> "none"]
    /\ onMobile = [c \in Calls |-> FALSE]
    /\ transit = [c \in Calls |-> <<>>]
    /\ dialResult = [c \in Calls |-> "none"]
    /\ work = [h \in Workers |-> NoWork]

Begin(h, task) == work[h].pc = "idle" /\ work' = [work EXCEPT ![h] = task]
Proceed(h, pc) == work' = [work EXCEPT ![h].pc = pc]
Done(h) == work' = [work EXCEPT ![h] = NoWork]

InFlight(c) == status[c] \in IN_FLIGHT_STATUSES

(* Every write of the row refreshes updatedAt.                             *)
Write(c, newStatus) ==
    /\ status' = [status EXCEPT ![c] = newStatus]
    /\ ended' = [ended EXCEPT ![c] = @ \/ newStatus \in TERMINAL_CALL_STATUSES]
    /\ stale' = [stale EXCEPT ![c] = FALSE]

(* UPDATE ... WHERE status IN (in flight): the outcome of a call that is   *)
(* settled by then is left alone.                                          *)
SettleIfInFlight(c, outcome) ==
    IF InFlight(c) THEN Write(c, outcome) ELSE UNCHANGED <<status, ended, stale>>

Send(c, callback) == transit' = [transit EXCEPT ![c] = Append(@, callback)]

-----------------------------------------------------------------------------
(* POST /calls: the dial transaction.                                      *)

Locked == UNION {work[h].numbers : h \in {g \in Handlers : work[g].pc \in DialPcs}}

(* SELECT ... FOR UPDATE takes its snapshot of the caller's numbers ...    *)
DialSnapshot(h, u, n) ==
    /\ Begin(h, [NoWork EXCEPT !.pc = "dialLock", !.rep = u, !.to = n,
                   !.numbers = {p \in OwnNumbers : holder[p] = u}])
    /\ UNCHANGED <<rowVars, holder, twilioVars>>

(* Mutant: the numbers are read without FOR UPDATE.                        *)
DialLockWithoutLocks(h) ==
    /\ work[h].pc = "dialLock"
    /\ IF work[h].numbers = {} THEN Done(h) ELSE Proceed(h, "dialCheck")
    /\ UNCHANGED <<rowVars, holder, twilioVars>>

(* ... and returns once they are all unlocked, with those still hers.      *)
(* Without one the dial is refused: there is no number to dial from.       *)
DialLock(h) ==
    LET mine == {p \in work[h].numbers : holder[p] = work[h].rep} IN
    /\ work[h].pc = "dialLock"
    /\ work[h].numbers \cap Locked = {}
    /\ IF mine = {} THEN Done(h)
       ELSE work' = [work EXCEPT ![h].pc = "dialCheck", ![h].numbers = mine]
    /\ UNCHANGED <<rowVars, holder, twilioVars>>

AlreadyUp(u, n) ==
    \E c \in OutboundCalls : InFlight(c) /\ userId[c] = u /\ toE164[c] = n

DialCheck(h) ==
    /\ work[h].pc = "dialCheck"
    /\ ~AlreadyUp(work[h].rep, work[h].to)
    /\ Proceed(h, "dialInsert")
    /\ UNCHANGED <<rowVars, holder, twilioVars>>

DialInsert(h, c) ==
    /\ work[h].pc = "dialInsert"
    /\ c \in OutboundCalls /\ status[c] = "none"
    /\ status' = [status EXCEPT ![c] = "queued"]
    /\ userId' = [userId EXCEPT ![c] = work[h].rep]
    /\ toE164' = [toE164 EXCEPT ![c] = work[h].to]
    /\ Done(h)
    /\ UNCHANGED <<stamped, ended, disposition, stale, holder, twilioVars>>

(* A call already up, a number that is not selected or not the caller ID,  *)
(* a do-not-call entry, the calling hours: the transaction rolls back.     *)
DialRefused(h) ==
    /\ work[h].pc \in DialPcs \cup {"dialLock"}
    /\ Done(h)
    /\ UNCHANGED <<rowVars, holder, twilioVars>>

-----------------------------------------------------------------------------
(* Twilio's side of an outbound call, and POST /voice.                     *)

(* The rep's Device connects with the row's id, right away or never.       *)
BrowserConnects(c) ==
    /\ c \in OutboundCalls /\ status[c] # "none" /\ leg[c] = "none"
    /\ leg' = [leg EXCEPT ![c] = "connecting"]
    /\ UNCHANGED <<rowVars, holder, onMobile, transit, dialResult, work>>

(* Mutant: the SID is stamped on a row that is already settled as well.    *)
VoiceWebhookReopens(c) ==
    /\ leg[c] = "connecting"
    /\ Write(c, "ringing") /\ stamped' = [stamped EXCEPT ![c] = TRUE]
    /\ leg' = [leg EXCEPT ![c] = "bridging"]
    /\ UNCHANGED <<disposition, userId, toE164, holder, onMobile, transit,
                   dialResult, work>>

(* Mutant: the row rings, and the SID is left for the first callback.      *)
VoiceWebhookForgetsSid(c) ==
    /\ leg[c] = "connecting"
    /\ IF status[c] = "queued" THEN Write(c, "ringing") ELSE UNCHANGED <<status, ended, stale>>
    /\ leg' = [leg EXCEPT ![c] = "bridging"]
    /\ UNCHANGED <<stamped, disposition, userId, toE164, holder, onMobile, transit,
                   dialResult, work>>

(* Compare-and-set from "queued"; the bridge TwiML is answered either way. *)
VoiceWebhook(c) ==
    /\ leg[c] = "connecting"
    /\ IF status[c] = "queued"
       THEN Write(c, "ringing") /\ stamped' = [stamped EXCEPT ![c] = TRUE]
       ELSE UNCHANGED <<status, ended, stale, stamped>>
    /\ leg' = [leg EXCEPT ![c] = "bridging"]
    /\ UNCHANGED <<disposition, userId, toE164, holder, onMobile, transit,
                   dialResult, work>>

LegRings(c) ==
    /\ leg[c] = "bridging"
    /\ leg' = [leg EXCEPT ![c] = "ringing"]
    /\ Send(c, "ringing")
    /\ UNCHANGED <<rowVars, holder, onMobile, dialResult, work>>

LegAnswered(c) ==
    /\ leg[c] = "ringing"
    /\ leg' = [leg EXCEPT ![c] = "in-progress"]
    /\ Send(c, "in-progress")
    /\ UNCHANGED <<rowVars, holder, onMobile, dialResult, work>>

(* The rep's browser goes away before anything was dialed: no callback.    *)
LegAborts(c) ==
    /\ leg[c] \in {"connecting", "bridging"}
    /\ leg' = [leg EXCEPT ![c] = "over"]
    /\ UNCHANGED <<rowVars, holder, onMobile, transit, dialResult, work>>

LegOutcomes(c) == IF leg[c] = "in-progress" THEN {"completed"}
                  ELSE Outcomes \ {"completed"}

(* For an inbound call Twilio posts the result to <Dial action> as well.   *)
LegEnds(c, t) ==
    /\ leg[c] \in {"ringing", "in-progress"}
    /\ t \in LegOutcomes(c)
    /\ leg' = [leg EXCEPT ![c] = "over"]
    /\ Send(c, t)
    /\ dialResult' = IF c \in InboundCalls THEN [dialResult EXCEPT ![c] = t] ELSE dialResult
    /\ UNCHANGED <<rowVars, holder, onMobile, work>>

-----------------------------------------------------------------------------
(* Inbound calls.                                                          *)

(* POST /voice without a callId: the row is upserted on its CallSid, so a  *)
(* second delivery writes nothing, and the holder's browser rings.         *)
InboundArrives(c, p) ==
    /\ c \in InboundCalls /\ status[c] = "none" /\ holder[p] # Nil
    /\ Write(c, "ringing")
    /\ stamped' = [stamped EXCEPT ![c] = TRUE]
    /\ userId' = [userId EXCEPT ![c] = holder[p]]
    /\ leg' = [leg EXCEPT ![c] = "ringing"]
    /\ Send(c, "ringing")
    /\ UNCHANGED <<disposition, toE164, holder, onMobile, dialResult, work>>

(* POST /voice/inbound-result: the row takes the browser leg's result, or  *)
(* rings again on the member's mobile (which the caller may not wait for), *)
(* without a condition on what the row says by now.                        *)
InboundResult(c) ==
    LET result == dialResult[c] IN
    /\ result # "none"
    /\ dialResult' = [dialResult EXCEPT ![c] = "none"]
    /\ \/ Write(c, result) /\ UNCHANGED <<leg, onMobile, transit>>
       \/ /\ result # "completed" /\ ~onMobile[c]
          /\ Write(c, "ringing")
          /\ \/ UNCHANGED <<leg, onMobile, transit>>
             \/ /\ leg' = [leg EXCEPT ![c] = "ringing"]
                /\ onMobile' = [onMobile EXCEPT ![c] = TRUE]
                /\ Send(c, "ringing")
    /\ UNCHANGED <<stamped, disposition, userId, toE164, holder, work>>

-----------------------------------------------------------------------------
(* POST /voice/status.                                                     *)

Without(s, i) == SubSeq(s, 1, i - 1) \o SubSeq(s, i + 1, Len(s))

(* The i-th callback under way reaches a handler, which looks the row up   *)
(* by its SID: a row that has none is not found, and nothing is written.   *)
HookRead(h, c, i) ==
    /\ i \in 1..Len(transit[c])
    /\ i = 1 \/ "reorder" \in Faults
    /\ IF stamped[c]
       THEN Begin(h, [NoWork EXCEPT !.pc = "hookUpdate", !.call = c,
                        !.seen = transit[c][i], !.chosen = disposition[c]])
       ELSE work[h].pc = "idle" /\ UNCHANGED work
    /\ \/ transit' = [transit EXCEPT ![c] = Without(@, i)]
       \/ "duplicate" \in Faults /\ UNCHANGED transit
    /\ UNCHANGED <<rowVars, holder, leg, onMobile, dialResult>>

(* automaticDispositionValue: no-answer and failed always; a machine that  *)
(* answered, which Twilio may report with any of the others.               *)
AlwaysDisposed == {"no-answer", "failed"}

(* Mutant: Twilio's own word for a leg being set up is written as it is.   *)
HookUpdateUnmapped(h) ==
    LET c == work[h].call IN
    /\ work[h].pc = "hookUpdate"
    /\ Write(c, IF work[h].seen = "ringing" THEN "initiated" ELSE work[h].seen)
    /\ Done(h)
    /\ UNCHANGED <<stamped, disposition, userId, toE164, holder, twilioVars>>

HookUpdate(h) ==
    LET c == work[h].call IN
    /\ work[h].pc = "hookUpdate"
    /\ Write(c, work[h].seen)
    /\ \/ work[h].chosen = "none" /\ Proceed(h, "hookDispose")
       \/ /\ work[h].chosen # "none" \/ work[h].seen \notin AlwaysDisposed
          /\ Done(h)
    /\ UNCHANGED <<stamped, disposition, userId, toE164, holder, twilioVars>>

(* Mutant: the automatic outcome trusts the handler's earlier read.        *)
HookDisposeUnchecked(h) ==
    LET c == work[h].call IN
    /\ work[h].pc = "hookDispose"
    /\ disposition' = [disposition EXCEPT ![c] = "auto"]
    /\ stale' = [stale EXCEPT ![c] = FALSE]
    /\ Done(h)
    /\ UNCHANGED <<status, stamped, ended, userId, toE164, holder, twilioVars>>

(* Only a row without a disposition takes the automatic one; and none does *)
(* while the organisation has archived that disposition.                   *)
HookDispose(h) ==
    LET c == work[h].call IN
    /\ work[h].pc = "hookDispose"
    /\ \/ /\ disposition[c] = "none"
          /\ disposition' = [disposition EXCEPT ![c] = "auto"]
          /\ stale' = [stale EXCEPT ![c] = FALSE]
       \/ UNCHANGED <<disposition, stale>>
    /\ Done(h)
    /\ UNCHANGED <<status, stamped, ended, userId, toE164, holder, twilioVars>>

-----------------------------------------------------------------------------
(* DELETE /calls/:id: hang up.                                             *)

HangUpRead(h, c) ==
    /\ InFlight(c)                \* an ended call is answered 400
    /\ Begin(h, [NoWork EXCEPT !.call = c,
                   !.pc = IF stamped[c] THEN "hangUpTwilio" ELSE "hangUpSettle"])
    /\ UNCHANGED <<rowVars, holder, twilioVars>>

(* Twilio drops the leg and reports its end; or refuses, since the leg is  *)
(* over already or its API is down, and the request fails with no write.   *)
HangUpTwilio(h) ==
    LET c == work[h].call IN
    /\ work[h].pc = "hangUpTwilio"
    /\ \/ /\ leg[c] \in LiveLegs
          /\ leg' = [leg EXCEPT ![c] = "over"]
          /\ IF leg[c] \in {"ringing", "in-progress"}
             THEN \E t \in LegOutcomes(c) : Send(c, t) ELSE UNCHANGED transit
          /\ Proceed(h, "hangUpSettle")
       \/ UNCHANGED <<leg, transit>> /\ Done(h)
    /\ UNCHANGED <<rowVars, holder, onMobile, dialResult>>

HangUpSettle(h) ==
    /\ work[h].pc = "hangUpSettle"
    /\ SettleIfInFlight(work[h].call, "canceled")
    /\ Done(h)
    /\ UNCHANGED <<stamped, disposition, userId, toE164, holder, twilioVars>>

-----------------------------------------------------------------------------
(* reapStaleCallsJob.                                                      *)

(* Four hours without a write: longer than any leg rings before Twilio     *)
(* gives up on it, and a Device that has not connected by then never does. *)
Age(c) ==
    /\ InFlight(c) /\ ~stale[c]
    /\ leg[c] \in {"none", "in-progress", "over"} /\ dialResult[c] = "none"
    /\ stale' = [stale EXCEPT ![c] = TRUE]
    /\ leg' = IF leg[c] = "none" THEN [leg EXCEPT ![c] = "over"] ELSE leg
    /\ UNCHANGED <<status, stamped, ended, disposition, userId, toE164, holder,
                   onMobile, transit, dialResult, work>>

(* Mutant: a call that has no SID is not looked at.                        *)
ReapReadNeedsSid(c) ==
    /\ InFlight(c) /\ stale[c] /\ stamped[c]
    /\ Begin(Sweep, [NoWork EXCEPT !.call = c, !.seen = "failed", !.pc = "reapFetch"])
    /\ UNCHANGED <<rowVars, holder, twilioVars>>

(* Without a SID there is nothing to ask Twilio: the backstop is "failed". *)
ReapRead(c) ==
    /\ InFlight(c) /\ stale[c]
    /\ Begin(Sweep, [NoWork EXCEPT !.call = c, !.seen = "failed",
                   !.pc = IF stamped[c] THEN "reapFetch" ELSE "reapSettle"])
    /\ UNCHANGED <<rowVars, holder, twilioVars>>

(* Mutant: the reaper settles a call whatever Twilio answers.              *)
ReapFetchIgnoresLive ==
    /\ work[Sweep].pc = "reapFetch"
    /\ Proceed(Sweep, "reapSettle")
    /\ UNCHANGED <<rowVars, holder, twilioVars>>

(* A call Twilio still reports in flight is left for the next sweep.       *)
ReapFetch ==
    /\ work[Sweep].pc = "reapFetch"
    /\ \/ leg[work[Sweep].call] \in LiveLegs /\ Done(Sweep)
       \/ /\ leg[work[Sweep].call] = "over"
          /\ \E t \in Outcomes :
                work' = [work EXCEPT ![Sweep].pc = "reapSettle", ![Sweep].seen = t]
       \/ "apiDown" \in Faults /\ Proceed(Sweep, "reapSettle")
    /\ UNCHANGED <<rowVars, holder, twilioVars>>

(* Mutant: the outcome is written on a row that has been settled since.    *)
ReapSettleOverwrites ==
    /\ work[Sweep].pc = "reapSettle"
    /\ Write(work[Sweep].call, work[Sweep].seen)
    /\ Done(Sweep)
    /\ UNCHANGED <<stamped, disposition, userId, toE164, holder, twilioVars>>

ReapSettle ==
    /\ work[Sweep].pc = "reapSettle"
    /\ SettleIfInFlight(work[Sweep].call, work[Sweep].seen)
    /\ Done(Sweep)
    /\ UNCHANGED <<stamped, disposition, userId, toE164, holder, twilioVars>>

-----------------------------------------------------------------------------
(* PATCH /calls/:id/disposition.                                           *)
LogDisposition(c) ==
    /\ c \in LoggedCalls /\ status[c] # "none"
    /\ disposition' = [disposition EXCEPT ![c] = "rep"]
    /\ stale' = [stale EXCEPT ![c] = FALSE]
    /\ UNCHANGED <<status, stamped, ended, userId, toE164, holder, twilioVars, work>>

(* PATCH /phone-numbers/:id/assignment, as far as dials see it: a number   *)
(* that no dial has locked changes hands.                                  *)
Reassign(p, u) ==
    /\ "reassign" \in Faults
    /\ p \notin Locked
    /\ holder' = [holder EXCEPT ![p] = u]
    /\ UNCHANGED <<rowVars, twilioVars, work>>

LoseCallback(c) ==
    /\ "lost" \in Faults
    /\ transit[c] # <<>>
    /\ transit' = [transit EXCEPT ![c] = Tail(@)]
    /\ UNCHANGED <<rowVars, holder, leg, onMobile, dialResult, work>>

HandlerDies(h) ==
    /\ "crash" \in Faults
    /\ work[h].pc # "idle"
    /\ Done(h)
    /\ UNCHANGED <<rowVars, holder, twilioVars>>

-----------------------------------------------------------------------------
HandlerStep(h) ==
    \/ DialLock(h) \/ DialCheck(h) \/ (\E c \in Calls : DialInsert(h, c)) \/ DialRefused(h)
    \/ HookUpdate(h) \/ HookDispose(h)
    \/ HangUpTwilio(h) \/ HangUpSettle(h)

SweepStep == ReapFetch \/ ReapSettle

TwilioStep(c) ==
    \/ VoiceWebhook(c) \/ LegRings(c) \/ LegAborts(c)
    \/ \E t \in TERMINAL_CALL_STATUSES : LegEnds(c, t)
    \/ InboundResult(c)

Next ==
    \/ \E h \in Handlers :
         \/ HandlerStep(h)
         \/ \E u \in Reps, n \in Callees : DialSnapshot(h, u, n)
         \/ \E c \in Calls : HangUpRead(h, c) \/ \E i \in 1..Len(transit[c]) : HookRead(h, c, i)
    \/ \E c \in Calls :
         \/ ReapRead(c) \/ TwilioStep(c) \/ BrowserConnects(c) \/ LegAnswered(c)
         \/ Age(c) \/ LogDisposition(c) \/ LoseCallback(c)
         \/ \E p \in OwnNumbers : InboundArrives(c, p)
    \/ SweepStep
    \/ \E h \in Workers : HandlerDies(h)
    \/ \E p \in OwnNumbers, u \in Reps \cup {Nil} : Reassign(p, u)

Spec == Init /\ [][Next]_vars

(* Handlers run on and Postgres grants row locks in turn; Twilio ends each *)
(* call (it caps its length); a row nobody writes to grows stale, and the  *)
(* reaper, on its cron, comes back to whatever is stale.                   *)
Fairness ==
    /\ \A h \in Handlers : SF_vars(HandlerStep(h))
    /\ SF_vars(SweepStep)
    /\ \A c \in Calls :
         /\ SF_vars(TwilioStep(c))
         /\ WF_vars(Age(c))
         /\ SF_vars(ReapRead(c))
FairSpec == Spec /\ Fairness

-----------------------------------------------------------------------------
(* Every variable has its type.                                            *)
TypeOK ==
    /\ status \in [Calls -> CallStatuses \cup {"none"}]
    /\ stamped \in [Calls -> BOOLEAN]
    /\ ended \in [Calls -> BOOLEAN]
    /\ disposition \in [Calls -> {"none", "rep", "auto"}]
    /\ stale \in [Calls -> BOOLEAN]
    /\ userId \in [Calls -> Reps \cup {Nil}]
    /\ toE164 \in [Calls -> Callees \cup {Nil}]
    /\ holder \in [OwnNumbers -> Reps \cup {Nil}]
    /\ leg \in [Calls -> Legs]
    /\ onMobile \in [Calls -> BOOLEAN]
    /\ transit \in [Calls -> Seq(Callbacks)]
    /\ dialResult \in [Calls -> TERMINAL_CALL_STATUSES \cup {"none"}]
    /\ work \in [Workers -> Work]

(* Its row says it is in flight, and no handler has ended it yet.          *)
Ongoing(c) == InFlight(c) /\ ~ended[c]

(* calls.ts: two clicks arriving at once cannot both become calls. Of the  *)
(* calls that have not ended yet, one rep has at most one to a number.     *)
AtMostOneOngoingCall ==
    \A c, d \in OutboundCalls :
        /\ Ongoing(c) /\ Ongoing(d)
        /\ userId[c] = userId[d] /\ toE164[c] = toE164[d]
        => c = d

(* A call that is over, and its row says so, always has the time it ended, *)
(* whichever of the four writers settled it.                               *)
EndedHasTime == \A c \in Calls : status[c] \in TERMINAL_CALL_STATUSES => ended[c]

(* A row that rings carries the SID a hang-up needs to reach Twilio.       *)
RingingHasSid == \A c \in Calls : status[c] \in {"ringing", "in-progress"} => stamped[c]

(* However callbacks overtake each other, a row has what its status needs. *)
RowsAreComplete == EndedHasTime /\ RingingHasSid

(* reapStaleCalls.ts: a real outcome wins over a guess. Once a call has    *)
(* ended, only what Twilio itself reports changes what its row says:       *)
(* neither the reaper, the hang-up nor a late TwiML fetch does.            *)
OnlyTwilioReopens ==
    [][\A c \in Calls :
         status[c] \in TERMINAL_CALL_STATUSES /\ status'[c] # status[c]
         => \/ dialResult[c] # "none" /\ dialResult'[c] = "none"
            \/ \E h \in Handlers : /\ work[h].pc = "hookUpdate" /\ work[h].call = c
                                   /\ work'[h].pc # "hookUpdate"]_vars

(* twilioVoice.ts: automation never replaces the outcome a rep chose.      *)
RepOutcomeStays ==
    [][\A c \in Calls : disposition[c] = "rep" => disposition'[c] = "rep"]_vars

(* However callbacks, sweeps, hang-ups and reps overlap, what is settled   *)
(* stays: the end of a call unless Twilio itself takes it back, and the    *)
(* outcome a rep chose for it.                                             *)
OutcomesStay == OnlyTwilioReopens /\ RepOutcomeStays

(* reapStaleCalls.ts: the sweep never closes a conversation that goes on,  *)
(* as long as Twilio can be asked.                                         *)
ReaperSparesLiveCalls ==
    [][\A c \in Calls :
         /\ work[Sweep].pc = "reapSettle" /\ work'[Sweep].pc = "idle"
         /\ work[Sweep].call = c /\ status[c] # status'[c]
         => leg[c] \notin LiveLegs]_vars

(* calls.ts: a call that was hung up is not up any more.                   *)
CanceledIsDown ==
    \A c \in OutboundCalls :
        status[c] = "canceled" => leg[c] \notin {"bridging", "ringing", "in-progress"}

(* reapStaleCalls.ts: no row stays in flight forever, so no number becomes *)
(* undialable, whatever callbacks are lost.                                *)
CallsSettle == \A c \in Calls : InFlight(c) ~> ~InFlight(c)

(* What the repository says and the code does not keep; no run checks it,  *)
(* the README names an instance that refutes it.                           *)

(* callStatus.ts: a terminal status is one a call does not come back from. *)
TerminalIsFinal ==
    [][\A c \in Calls : status[c] \in TERMINAL_CALL_STATUSES
                         => status'[c] \in TERMINAL_CALL_STATUSES]_vars
-----------------------------------------------------------------------------
(* The inductive invariants behind the proofs about this module.           *)

(* Whoever is in the middle of something knows what it is about.           *)
KnownWork ==
    {w \in Work :
        /\ w.pc \in {"hookUpdate", "hookDispose", "hangUpTwilio", "hangUpSettle",
                     "reapFetch", "reapSettle"} => w.call \in Calls
        /\ w.pc = "hookUpdate" => w.seen \in Callbacks
        /\ w.pc \in {"reapFetch", "reapSettle"} => w.seen \in TERMINAL_CALL_STATUSES
        /\ w.pc \in DialPcs \cup {"dialLock"} => w.rep \in Reps /\ w.to \in Callees}
WorkNamesCalls == work \in [Workers -> KnownWork]

(* Everyone who can make a row ring has seen its SID: the callback that    *)
(* found the row by it, the result of an inbound call.                     *)
SidBehindRinging ==
    /\ RingingHasSid
    /\ \A c \in Calls : stamped[c] => status[c] # "none"
    /\ \A c \in Calls : dialResult[c] # "none" => stamped[c]
    /\ \A c \in InboundCalls : status[c] # "none" \/ leg[c] # "none" => stamped[c]
    /\ \A h \in Handlers : work[h].pc = "hookUpdate" => stamped[work[h].call]

(* Nobody reassigns numbers while calls are dialed.                        *)
NoReassign == "reassign" \notin Faults

(* A dial holds every number of its rep, so a rep has one dial at a time   *)
(* past the lock; and once past the check it has seen every call of hers.  *)
OneDialPerRep ==
    /\ holder = FirstHolder
    /\ \A h \in Handlers : work[h].pc \in DialPcs \cup {"dialLock"}
          => work[h].numbers = {p \in OwnNumbers : FirstHolder[p] = work[h].rep}
    /\ \A h \in Handlers : work[h].pc \in DialPcs => work[h].numbers # {}
    /\ \A g, h \in Handlers :
          work[g].pc \in DialPcs /\ work[h].pc \in DialPcs /\ work[g].rep = work[h].rep
          => g = h
    /\ \A h \in Handlers, c \in OutboundCalls :
          work[h].pc = "dialInsert" /\ Ongoing(c) /\ userId[c] = work[h].rep
          => toE164[c] # work[h].to

(* Twilio can be asked about a call.                                       *)
TwilioAnswers == "apiDown" \notin Faults

(* A row that nobody wrote to for hours belongs to a leg that was answered *)
(* or is over, and that will not be forwarded any more; so does the call   *)
(* the sweep has picked, and the one it is about to settle is over.        *)
ComesToAnEnd(c) == leg[c] \in {"in-progress", "over"} /\ dialResult[c] \in {"none", "completed"}
StaleComesToAnEnd ==
    /\ \A c \in Calls : status[c] = "none" => leg[c] = "none"
    /\ \A c \in Calls : stale[c] => ComesToAnEnd(c)
    /\ \A c \in Calls : InFlight(c) /\ ~stamped[c] => leg[c] \in {"none", "connecting", "over"}
    /\ work[Sweep].pc \in {"reapFetch", "reapSettle"} => ComesToAnEnd(work[Sweep].call)
    /\ work[Sweep].pc = "reapSettle" => leg[work[Sweep].call] = "over"
=============================================================================
