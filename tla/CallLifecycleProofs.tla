------------------------- MODULE CallLifecycleProofs ------------------------
(* Theorems about CallLifecycle, for any number of calls, members, numbers *)
(* and handlers and any combination of faults: type correctness, that what *)
(* a row says of a call agrees with its SID and end time, that a rep's     *)
(* outcome stays, that only Twilio reopens a call, and that a rep has one  *)
(* call to a number at a time.                                             *)
EXTENDS CallLifecycle, SequenceTheorems, TLAPS

(* A task that nobody has begun is a well-typed one.                       *)
LEMMA NoWorkType == NoWork \in KnownWork
BY DEF NoWork, KnownWork, Work, WorkPcs, CallStatuses, DialPcs

(* A handler that begins a task, or is done with one, knows what it is     *)
(* about afterwards as before.                                             *)
LEMMA BeginType ==
  ASSUME WorkNamesCalls, NEW h \in Workers, NEW task \in KnownWork, Begin(h, task)
  PROVE  WorkNamesCalls'
BY DEF Begin, WorkNamesCalls

LEMMA DoneType ==
  ASSUME WorkNamesCalls, NEW h \in Workers, Done(h)
  PROVE  WorkNamesCalls'
BY NoWorkType DEF Done, WorkNamesCalls

(* What a handler knows belongs to its types.                              *)
LEMMA WorkType ==
  ASSUME WorkNamesCalls
  PROVE  work \in [Workers -> Work]
BY DEF WorkNamesCalls, KnownWork

(* A write of a row leaves its columns well typed.                         *)
LEMMA WriteType ==
  ASSUME TypeOK, NEW c \in Calls, NEW s \in CallStatuses, Write(c, s)
  PROVE  /\ status' \in [Calls -> CallStatuses \cup {"none"}]
         /\ ended' \in [Calls -> BOOLEAN]
         /\ stale' \in [Calls -> BOOLEAN]
BY DEF TypeOK, Write

(* So does a write that is made only while the call is in flight.          *)
LEMMA SettleType ==
  ASSUME TypeOK, NEW c \in Calls, NEW s \in CallStatuses, SettleIfInFlight(c, s)
  PROVE  /\ status' \in [Calls -> CallStatuses \cup {"none"}]
         /\ ended' \in [Calls -> BOOLEAN]
         /\ stale' \in [Calls -> BOOLEAN]
BY WriteType DEF TypeOK, SettleIfInFlight

(* Sending, losing and delivering a callback leave the callbacks under way *)
(* well typed.                                                             *)
LEMMA SendType ==
  ASSUME TypeOK, NEW c \in Calls, NEW t \in Callbacks, Send(c, t)
  PROVE  transit' \in [Calls -> Seq(Callbacks)]
<1>1. Append(transit[c], t) \in Seq(Callbacks)
  BY DEF TypeOK
<1>2. QED
  BY <1>1 DEF TypeOK, Send

LEMMA WithoutType ==
  ASSUME NEW S, NEW s \in Seq(S), NEW i \in 1..Len(s)
  PROVE  Without(s, i) \in Seq(S)
<1>1. Len(s) \in Nat /\ \A j \in 1..Len(s) : s[j] \in S
  BY ElementOfSeq
<1>2. SubSeq(s, 1, i - 1) \in Seq(S)
  BY <1>1, SubSeqProperties
<1>3. SubSeq(s, i + 1, Len(s)) \in Seq(S)
  BY <1>1, SubSeqProperties
<1>4. QED
  BY <1>2, <1>3, ConcatProperties DEF Without

-----------------------------------------------------------------------------
(* One lemma per component: its steps preserve the types.                  *)

TypeInv == TypeOK /\ WorkNamesCalls

LEMMA DialTypes ==
  ASSUME TypeInv, NEW h \in Handlers,
         \/ \E u \in Reps, n \in Callees : DialSnapshot(h, u, n)
         \/ DialLock(h) \/ DialCheck(h) \/ (\E c \in Calls : DialInsert(h, c)) \/ DialRefused(h)
  PROVE  TypeInv'
<1>1. h \in Workers /\ work[h] \in KnownWork /\ work[h] \in Work
  BY DEF TypeInv, WorkNamesCalls, KnownWork, Workers
<1>2. ASSUME NEW u \in Reps, NEW n \in Callees, DialSnapshot(h, u, n) PROVE TypeInv'
  <2>1. [NoWork EXCEPT !.pc = "dialLock", !.rep = u, !.to = n,
           !.numbers = {p \in OwnNumbers : holder[p] = u}] \in KnownWork
    BY DEF NoWork, KnownWork, Work, WorkPcs, CallStatuses, DialPcs
  <2>2. WorkNamesCalls'
    BY <1>1, <1>2, <2>1, BeginType DEF DialSnapshot, TypeInv
  <2>3. QED
    BY <1>2, <2>2, WorkType DEF DialSnapshot, TypeInv, TypeOK, rowVars, twilioVars, WorkNamesCalls, KnownWork
<1>3. CASE DialLock(h)
  <2>1. ASSUME NEW m \in SUBSET OwnNumbers
        PROVE  [work[h] EXCEPT !.pc = "dialCheck", !.numbers = m] \in KnownWork
    BY <1>1, <1>3 DEF DialLock, KnownWork, Work, WorkPcs, DialPcs
  <2>2. {p \in work[h].numbers : holder[p] = work[h].rep} \in SUBSET OwnNumbers
    BY <1>1 DEF Work
  <2>3. WorkNamesCalls'
    BY <1>1, <1>3, <2>1, <2>2, DoneType DEF DialLock, TypeInv, WorkNamesCalls
  <2>4. QED
    BY <1>3, <2>3 DEF DialLock, TypeInv, TypeOK, rowVars, twilioVars, WorkNamesCalls, KnownWork
<1>4. CASE DialCheck(h)
  <2>1. [work[h] EXCEPT !.pc = "dialInsert"] \in KnownWork
    BY <1>1, <1>4 DEF DialCheck, KnownWork, Work, WorkPcs, DialPcs
  <2>2. WorkNamesCalls'
    BY <1>1, <1>4, <2>1 DEF DialCheck, Proceed, TypeInv, WorkNamesCalls
  <2>3. QED
    BY <1>4, <2>2 DEF DialCheck, TypeInv, TypeOK, rowVars, twilioVars, WorkNamesCalls, KnownWork
<1>5. ASSUME NEW c \in Calls, DialInsert(h, c) PROVE TypeInv'
  <2>1. WorkNamesCalls'
    BY <1>1, <1>5, DoneType DEF DialInsert, TypeInv
  <2>2. work[h].rep \in Reps /\ work[h].to \in Callees
    BY <1>1, <1>5 DEF DialInsert, KnownWork, DialPcs
  <2>3. QED
    BY <1>5, <2>1, <2>2 DEF DialInsert, TypeInv, TypeOK, rowVars, twilioVars, WorkNamesCalls, KnownWork,
                            CallStatuses, IN_FLIGHT_STATUSES
<1>6. CASE DialRefused(h)
  <2>1. WorkNamesCalls'
    BY <1>1, <1>6, DoneType DEF DialRefused, TypeInv
  <2>2. QED
    BY <1>6, <2>1 DEF DialRefused, TypeInv, TypeOK, rowVars, twilioVars, WorkNamesCalls, KnownWork
<1>7. QED
  BY <1>2, <1>3, <1>4, <1>5, <1>6

LEMMA HookTypes ==
  ASSUME TypeInv, NEW h \in Handlers,
         \/ \E c \in Calls : \E i \in 1..Len(transit[c]) : HookRead(h, c, i)
         \/ HookUpdate(h) \/ HookDispose(h)
  PROVE  TypeInv'
<1>1. h \in Workers /\ work[h] \in KnownWork /\ work[h] \in Work
  BY DEF TypeInv, WorkNamesCalls, KnownWork, Workers
<1>2. ASSUME NEW c \in Calls, NEW i \in 1..Len(transit[c]), HookRead(h, c, i) PROVE TypeInv'
  <2>1. transit[c] \in Seq(Callbacks) /\ transit[c][i] \in Callbacks
    BY ElementOfSeq DEF TypeInv, TypeOK
  <2>2. disposition[c] \in {"none", "rep", "auto"}
    BY DEF TypeInv, TypeOK
  <2>3. [NoWork EXCEPT !.pc = "hookUpdate", !.call = c,
           !.seen = transit[c][i], !.chosen = disposition[c]] \in KnownWork
    BY <2>1, <2>2 DEF NoWork, KnownWork, Work, WorkPcs, DialPcs, Callbacks, CallStatuses,
                      IN_FLIGHT_STATUSES
  <2>4. WorkNamesCalls'
    BY <1>1, <1>2, <2>3, BeginType DEF HookRead, TypeInv, WorkNamesCalls
  <2>5. transit' \in [Calls -> Seq(Callbacks)]
    <3>1. Without(transit[c], i) \in Seq(Callbacks)
      BY <2>1, WithoutType
    <3>2. QED
      BY <1>2, <3>1 DEF HookRead, TypeInv, TypeOK
  <2>6. QED
    BY <1>2, <2>4, <2>5 DEF HookRead, TypeInv, TypeOK, rowVars, WorkNamesCalls, KnownWork
<1>3. CASE HookUpdate(h)
  <2>1. work[h].call \in Calls /\ work[h].seen \in CallStatuses
    BY <1>1, <1>3 DEF HookUpdate, KnownWork, Callbacks, CallStatuses, IN_FLIGHT_STATUSES
  <2>2. [work[h] EXCEPT !.pc = "hookDispose"] \in KnownWork
    BY <1>1, <2>1 DEF KnownWork, Work, WorkPcs, DialPcs
  <2>3. WorkNamesCalls'
    BY <1>1, <1>3, <2>2, DoneType DEF HookUpdate, Proceed, TypeInv, WorkNamesCalls
  <2>4. QED
    BY <1>3, <2>1, <2>3, WriteType DEF HookUpdate, TypeInv, TypeOK, twilioVars, WorkNamesCalls, KnownWork
<1>4. CASE HookDispose(h)
  <2>1. work[h].call \in Calls
    BY <1>1, <1>4 DEF HookDispose, KnownWork
  <2>2. WorkNamesCalls'
    BY <1>1, <1>4, DoneType DEF HookDispose, TypeInv
  <2>3. QED
    BY <1>4, <2>1, <2>2 DEF HookDispose, TypeInv, TypeOK, twilioVars, WorkNamesCalls, KnownWork
<1>5. QED
  BY <1>2, <1>3, <1>4

LEMMA HangUpTypes ==
  ASSUME TypeInv, NEW h \in Handlers,
         (\E c \in Calls : HangUpRead(h, c)) \/ HangUpTwilio(h) \/ HangUpSettle(h)
  PROVE  TypeInv'
<1>1. h \in Workers /\ work[h] \in KnownWork /\ work[h] \in Work
  BY DEF TypeInv, WorkNamesCalls, KnownWork, Workers
<1>2. ASSUME NEW c \in Calls, HangUpRead(h, c) PROVE TypeInv'
  <2>1. [NoWork EXCEPT !.call = c,
           !.pc = IF stamped[c] THEN "hangUpTwilio" ELSE "hangUpSettle"] \in KnownWork
    BY DEF NoWork, KnownWork, Work, WorkPcs, CallStatuses, DialPcs
  <2>2. WorkNamesCalls'
    BY <1>1, <1>2, <2>1, BeginType DEF HangUpRead, TypeInv
  <2>3. QED
    BY <1>2, <2>2 DEF HangUpRead, TypeInv, TypeOK, rowVars, twilioVars, WorkNamesCalls, KnownWork
<1>3. CASE HangUpTwilio(h)
  <2>1. work[h].call \in Calls
    BY <1>1, <1>3 DEF HangUpTwilio, KnownWork
  <2>2. [work[h] EXCEPT !.pc = "hangUpSettle"] \in KnownWork
    BY <1>1, <2>1 DEF KnownWork, Work, WorkPcs, DialPcs
  <2>3. WorkNamesCalls'
    BY <1>1, <1>3, <2>2, DoneType DEF HangUpTwilio, Proceed, TypeInv, WorkNamesCalls
  <2>4. \A t \in LegOutcomes(work[h].call) : t \in Callbacks
    BY CallConstants DEF LegOutcomes, Callbacks, TERMINAL_CALL_STATUSES
  <2>5. transit' \in [Calls -> Seq(Callbacks)]
    BY <1>3, <2>1, <2>4, SendType DEF HangUpTwilio, TypeInv, TypeOK
  <2>6. leg' \in [Calls -> Legs]
    BY <1>3 DEF HangUpTwilio, TypeInv, TypeOK, Legs
  <2>7. QED
    BY <1>3, <2>3, <2>5, <2>6 DEF HangUpTwilio, TypeInv, TypeOK, rowVars, WorkNamesCalls, KnownWork
<1>4. CASE HangUpSettle(h)
  <2>1. work[h].call \in Calls
    BY <1>1, <1>4 DEF HangUpSettle, KnownWork
  <2>2. WorkNamesCalls'
    BY <1>1, <1>4, DoneType DEF HangUpSettle, TypeInv
  <2>3. "canceled" \in CallStatuses
    BY DEF CallStatuses, TERMINAL_CALL_STATUSES
  <2>4. QED
    BY <1>4, <2>1, <2>2, <2>3, SettleType DEF HangUpSettle, TypeInv, TypeOK, twilioVars, WorkNamesCalls, KnownWork
<1>5. QED
  BY <1>2, <1>3, <1>4

LEMMA SweepTypes ==
  ASSUME TypeInv, (\E c \in Calls : ReapRead(c)) \/ SweepStep
  PROVE  TypeInv'
<1>1. Sweep \in Workers /\ work[Sweep] \in KnownWork /\ work[Sweep] \in Work
  BY DEF TypeInv, WorkNamesCalls, KnownWork, Workers
<1>2. ASSUME NEW c \in Calls, ReapRead(c) PROVE TypeInv'
  <2>1. [NoWork EXCEPT !.call = c, !.seen = "failed",
           !.pc = IF stamped[c] THEN "reapFetch" ELSE "reapSettle"] \in KnownWork
    BY DEF NoWork, KnownWork, Work, WorkPcs, CallStatuses, DialPcs, TERMINAL_CALL_STATUSES
  <2>2. WorkNamesCalls'
    BY <1>1, <1>2, <2>1, BeginType DEF ReapRead, TypeInv
  <2>3. QED
    BY <1>2, <2>2 DEF ReapRead, TypeInv, TypeOK, rowVars, twilioVars, WorkNamesCalls, KnownWork
<1>3. CASE ReapFetch
  <2>1. ASSUME NEW t \in Outcomes
        PROVE  [work[Sweep] EXCEPT !.pc = "reapSettle", !.seen = t] \in KnownWork
    BY <1>1, <1>3, CallConstants
       DEF ReapFetch, KnownWork, Work, WorkPcs, DialPcs, CallStatuses, TERMINAL_CALL_STATUSES
  <2>2. [work[Sweep] EXCEPT !.pc = "reapSettle"] \in KnownWork
    BY <1>1, <1>3 DEF ReapFetch, KnownWork, Work, WorkPcs, DialPcs
  <2>3. WorkNamesCalls'
    BY <1>1, <1>3, <2>1, <2>2, DoneType DEF ReapFetch, Proceed, TypeInv, WorkNamesCalls
  <2>4. QED
    BY <1>3, <2>3 DEF ReapFetch, TypeInv, TypeOK, rowVars, twilioVars, WorkNamesCalls, KnownWork
<1>4. CASE ReapSettle
  <2>1. work[Sweep].call \in Calls /\ work[Sweep].seen \in CallStatuses
    BY <1>1, <1>4 DEF ReapSettle, KnownWork, CallStatuses
  <2>2. WorkNamesCalls'
    BY <1>1, <1>4, DoneType DEF ReapSettle, TypeInv
  <2>3. QED
    BY <1>4, <2>1, <2>2, SettleType DEF ReapSettle, TypeInv, TypeOK, twilioVars, WorkNamesCalls, KnownWork
<1>5. QED
  BY <1>2, <1>3, <1>4 DEF SweepStep

LEMMA TwilioTypes ==
  ASSUME TypeInv, NEW c \in Calls,
         TwilioStep(c) \/ BrowserConnects(c) \/ LegAnswered(c) \/ LoseCallback(c)
           \/ (\E p \in OwnNumbers : InboundArrives(c, p))
  PROVE  TypeInv'
<1>1. TERMINAL_CALL_STATUSES \subseteq CallStatuses /\ TERMINAL_CALL_STATUSES \subseteq Callbacks
  BY DEF CallStatuses, Callbacks
<1>2. "ringing" \in CallStatuses /\ {"ringing", "in-progress"} \subseteq Callbacks
  BY DEF CallStatuses, IN_FLIGHT_STATUSES, Callbacks
<1>3. CASE VoiceWebhook(c)
  BY <1>2, <1>3, WriteType
     DEF VoiceWebhook, TypeInv, TypeOK, WorkNamesCalls, Legs
<1>4. CASE LegRings(c) \/ LegAnswered(c)
  BY <1>2, <1>4, SendType
     DEF LegRings, LegAnswered, TypeInv, TypeOK, WorkNamesCalls, rowVars, Legs
<1>5. CASE LegAborts(c) \/ BrowserConnects(c)
  BY <1>5 DEF LegAborts, BrowserConnects, TypeInv, TypeOK, WorkNamesCalls, rowVars, Legs
<1>6. ASSUME NEW t \in TERMINAL_CALL_STATUSES, LegEnds(c, t) PROVE TypeInv'
  BY <1>1, <1>6, SendType DEF LegEnds, TypeInv, TypeOK, WorkNamesCalls, rowVars, Legs
<1>7. CASE InboundResult(c)
  <2>1. dialResult[c] \in TERMINAL_CALL_STATUSES
    BY <1>7 DEF InboundResult, TypeInv, TypeOK
  <2>2. /\ status' \in [Calls -> CallStatuses \cup {"none"}]
        /\ ended' \in [Calls -> BOOLEAN]
        /\ stale' \in [Calls -> BOOLEAN]
    BY <1>1, <1>2, <1>7, <2>1, WriteType DEF InboundResult, TypeInv
  <2>3. transit' \in [Calls -> Seq(Callbacks)]
    BY <1>2, <1>7, SendType DEF InboundResult, TypeInv, TypeOK
  <2>4. QED
    BY <1>7, <2>2, <2>3 DEF InboundResult, TypeInv, TypeOK, WorkNamesCalls, Legs
<1>8. CASE LoseCallback(c)
  <2>1. Tail(transit[c]) \in Seq(Callbacks)
    BY <1>8, HeadTailProperties DEF LoseCallback, TypeInv, TypeOK
  <2>2. QED
    BY <1>8, <2>1 DEF LoseCallback, TypeInv, TypeOK, WorkNamesCalls, rowVars
<1>9. ASSUME NEW p \in OwnNumbers, InboundArrives(c, p) PROVE TypeInv'
  BY <1>2, <1>9, WriteType, SendType
     DEF InboundArrives, TypeInv, TypeOK, WorkNamesCalls, Legs
<1>10. QED
  BY <1>3, <1>4, <1>5, <1>6, <1>7, <1>8, <1>9 DEF TwilioStep

LEMMA OtherTypes ==
  ASSUME TypeInv,
         \/ \E c \in Calls : Age(c) \/ LogDisposition(c)
         \/ \E h \in Workers : HandlerDies(h)
         \/ \E p \in OwnNumbers, u \in Reps \cup {Nil} : Reassign(p, u)
  PROVE  TypeInv'
<1>1. ASSUME NEW c \in Calls, Age(c) \/ LogDisposition(c) PROVE TypeInv'
  BY <1>1 DEF Age, LogDisposition, TypeInv, TypeOK, WorkNamesCalls, twilioVars, Legs
<1>2. ASSUME NEW h \in Workers, HandlerDies(h) PROVE TypeInv'
  <2>1. WorkNamesCalls'
    BY <1>2, DoneType DEF HandlerDies, TypeInv
  <2>2. QED
    BY <1>2, <2>1 DEF HandlerDies, TypeInv, TypeOK, rowVars, twilioVars, WorkNamesCalls, KnownWork
<1>3. ASSUME NEW p \in OwnNumbers, NEW u \in Reps \cup {Nil}, Reassign(p, u) PROVE TypeInv'
  BY <1>3 DEF Reassign, TypeInv, TypeOK, WorkNamesCalls, rowVars, twilioVars
<1>4. QED
  BY <1>1, <1>2, <1>3

LEMMA TypeStep ==
  ASSUME TypeInv, [Next]_vars
  PROVE  TypeInv'
<1>1. CASE Next
  BY <1>1, DialTypes, HookTypes, HangUpTypes, SweepTypes, TwilioTypes, OtherTypes
     DEF Next, HandlerStep
<1>2. CASE UNCHANGED vars
  BY <1>2 DEF vars, rowVars, twilioVars, TypeInv, TypeOK, WorkNamesCalls
<1>3. QED
  BY <1>1, <1>2

LEMMA TypeInit ==
  ASSUME Init
  PROVE  TypeInv
BY NoWorkType, CallConstants, EmptySeq
   DEF Init, TypeInv, TypeOK, WorkNamesCalls, KnownWork, Legs, CallStatuses

(* Every variable keeps its type, and whoever is in the middle of          *)
(* something knows which call it is about: between two statements of a     *)
(* handler nothing happens that makes what it holds meaningless.           *)
THEOREM TypeCorrect == Spec => [](TypeOK /\ WorkNamesCalls)
BY TypeInit, TypeStep, PTL DEF Spec, TypeInv

-----------------------------------------------------------------------------
(* Twilio's report of call d is taken in: the result of an inbound leg, or *)
(* a status callback that looked the row up before.                        *)
Reported(d) ==
    \/ dialResult[d] # "none" /\ dialResult'[d] = "none"
    \/ \E h \in Handlers : /\ work[h].pc = "hookUpdate" /\ work[h].call = d
                           /\ work'[h].pc # "hookUpdate"

(* What one step may do to the status and the end time of call d.          *)
RowStep(d) ==
    \/ status'[d] = status[d] /\ ended'[d] = ended[d]
    \/ \E h \in Handlers : DialInsert(h, d)
    \/ InFlight(d) /\ status'[d] = "ringing" /\ stamped'[d] /\ ended'[d] = ended[d]
    \/ InFlight(d) /\ status'[d] \in TERMINAL_CALL_STATUSES /\ ended'[d]
    \/ /\ status[d] = "none" /\ d \in InboundCalls
       /\ status'[d] = "ringing" /\ stamped'[d] /\ ended'[d] = ended[d]
    \/ /\ Reported(d)
       /\ status'[d] \in CallStatuses
       /\ ended'[d] = (ended[d] \/ status'[d] \in TERMINAL_CALL_STATUSES)

(* ... to its SID, its member and the number it dials ...                  *)
SidStep(d) ==
    /\ stamped[d] => stamped'[d]
    /\ stamped'[d] => stamped[d] \/ status'[d] # "none"
OwnerStep(d) ==
    \/ userId'[d] = userId[d] /\ toE164'[d] = toE164[d]
    \/ d \in InboundCalls
    \/ \E h \in Handlers : DialInsert(h, d)

(* ... and to Twilio's side of it.                                         *)
LegStep(d) ==
    /\ \/ leg'[d] = leg[d] \/ leg[d] # "none" \/ status[d] # "none"
       \/ d \in OutboundCalls \/ stamped'[d] \/ dialResult[d] # "none"
    /\ \/ dialResult'[d] = dialResult[d] \/ dialResult'[d] = "none"
       \/ d \in InboundCalls /\ leg[d] # "none"

CallStep(d) == RowStep(d) /\ SidStep(d) /\ OwnerStep(d) /\ LegStep(d)

(* A step that leaves the rows and Twilio alone is a call's stutter.       *)
LEMMA IdleStep ==
  ASSUME NEW d \in Calls, UNCHANGED <<rowVars, leg, dialResult>>
  PROVE  CallStep(d)
BY DEF CallStep, RowStep, SidStep, OwnerStep, LegStep, rowVars

(* A handler that is done is not in the middle of a callback any more.     *)
LEMMA DoneIsIdle ==
  ASSUME WorkNamesCalls, NEW h \in Workers, Done(h)
  PROVE  work'[h].pc = "idle"
BY DEF Done, WorkNamesCalls, NoWork

LEMMA HandlerCallStep ==
  ASSUME TypeInv, NEW h \in Handlers, NEW d \in Calls,
         \/ HandlerStep(h)
         \/ \E u \in Reps, n \in Callees : DialSnapshot(h, u, n)
         \/ \E c \in Calls : HangUpRead(h, c) \/ \E i \in 1..Len(transit[c]) : HookRead(h, c, i)
  PROVE  CallStep(d)
<1>1. h \in Workers /\ work[h] \in KnownWork
  BY DEF TypeInv, WorkNamesCalls, Workers
<1>2. CASE \/ \E u \in Reps, n \in Callees : DialSnapshot(h, u, n)
           \/ \E c \in Calls : HangUpRead(h, c) \/ \E i \in 1..Len(transit[c]) : HookRead(h, c, i)
           \/ DialLock(h) \/ DialCheck(h) \/ DialRefused(h)
  BY <1>2, IdleStep
     DEF DialSnapshot, HangUpRead, HookRead, DialLock, DialCheck, DialRefused, twilioVars
<1>3. ASSUME NEW c \in Calls, DialInsert(h, c) PROVE CallStep(d)
  <2>1. CASE c = d
    BY <1>3, <2>1 DEF DialInsert, CallStep, RowStep, SidStep, OwnerStep, LegStep, twilioVars,
                      TypeInv, TypeOK
  <2>2. CASE c # d
    BY <1>3, <2>2 DEF DialInsert, CallStep, RowStep, SidStep, OwnerStep, LegStep, twilioVars,
                      TypeInv, TypeOK
  <2>3. QED
    BY <2>1, <2>2
<1>4. CASE HookUpdate(h)
  <2>1. work[h].call \in Calls /\ work[h].seen \in CallStatuses
    BY <1>1, <1>4 DEF HookUpdate, KnownWork, Callbacks, CallStatuses, IN_FLIGHT_STATUSES
  <2>2. work'[h].pc # "hookUpdate"
    BY <1>1, <1>4, DoneIsIdle DEF HookUpdate, Proceed, TypeInv, WorkNamesCalls, KnownWork, Work
  <2>3. RowStep(d)
    <3>1. CASE work[h].call = d
      BY <1>4, <2>1, <2>2, <3>1 DEF HookUpdate, Write, RowStep, Reported, TypeInv, TypeOK
    <3>2. CASE work[h].call # d
      BY <1>4, <2>1, <3>2 DEF HookUpdate, Write, RowStep, TypeInv, TypeOK
    <3>3. QED
      BY <3>1, <3>2
  <2>4. QED
    BY <1>4, <2>3 DEF HookUpdate, CallStep, SidStep, OwnerStep, LegStep, twilioVars
<1>5. CASE HookDispose(h)
  BY <1>5 DEF HookDispose, CallStep, RowStep, SidStep, OwnerStep, LegStep, twilioVars
<1>6. CASE HangUpTwilio(h)
  <2>1. work[h].call \in Calls
    BY <1>1, <1>6 DEF HangUpTwilio, KnownWork
  <2>2. LegStep(d)
    BY <1>6, <2>1 DEF HangUpTwilio, LegStep, LiveLegs, TypeInv, TypeOK
  <2>3. QED
    BY <1>6, <2>2 DEF HangUpTwilio, CallStep, RowStep, SidStep, OwnerStep, rowVars
<1>7. CASE HangUpSettle(h)
  <2>1. work[h].call \in Calls
    BY <1>1, <1>7 DEF HangUpSettle, KnownWork
  <2>2. RowStep(d)
    BY <1>7, <2>1 DEF HangUpSettle, SettleIfInFlight, Write, RowStep, TypeInv, TypeOK,
                      TERMINAL_CALL_STATUSES
  <2>3. QED
    BY <1>7, <2>2 DEF HangUpSettle, CallStep, SidStep, OwnerStep, LegStep, twilioVars
<1>8. QED
  BY <1>2, <1>3, <1>4, <1>5, <1>6, <1>7 DEF HandlerStep

LEMMA SweepCallStep ==
  ASSUME TypeInv, NEW d \in Calls, (\E c \in Calls : ReapRead(c)) \/ SweepStep
  PROVE  CallStep(d)
<1>1. work[Sweep] \in KnownWork
  BY DEF TypeInv, WorkNamesCalls, Workers
<1>2. CASE (\E c \in Calls : ReapRead(c)) \/ ReapFetch
  BY <1>2, IdleStep DEF ReapRead, ReapFetch, twilioVars
<1>3. CASE ReapSettle
  <2>1. work[Sweep].call \in Calls /\ work[Sweep].seen \in TERMINAL_CALL_STATUSES
    BY <1>1, <1>3 DEF ReapSettle, KnownWork
  <2>2. RowStep(d)
    BY <1>3, <2>1 DEF ReapSettle, SettleIfInFlight, Write, RowStep, TypeInv, TypeOK
  <2>3. QED
    BY <1>3, <2>2 DEF ReapSettle, CallStep, SidStep, OwnerStep, LegStep, twilioVars
<1>4. QED
  BY <1>2, <1>3 DEF SweepStep

LEMMA TwilioCallStep ==
  ASSUME TypeInv, NEW c \in Calls, NEW d \in Calls,
         \/ TwilioStep(c) \/ BrowserConnects(c) \/ LegAnswered(c) \/ LoseCallback(c)
         \/ Age(c) \/ LogDisposition(c)
         \/ \E p \in OwnNumbers : InboundArrives(c, p)
  PROVE  CallStep(d)
<1>1. CASE VoiceWebhook(c)
  BY <1>1 DEF VoiceWebhook, Write, CallStep, RowStep, SidStep, OwnerStep, LegStep, TypeInv, TypeOK,
              InFlight, IN_FLIGHT_STATUSES, TERMINAL_CALL_STATUSES
<1>2. CASE LegRings(c) \/ LegAnswered(c) \/ LegAborts(c) \/ BrowserConnects(c)
  BY <1>2 DEF LegRings, LegAnswered, LegAborts, BrowserConnects, CallStep, RowStep, SidStep,
              OwnerStep, LegStep, rowVars, TypeInv, TypeOK
<1>3. ASSUME NEW t \in TERMINAL_CALL_STATUSES, LegEnds(c, t) PROVE CallStep(d)
  BY <1>3 DEF LegEnds, CallStep, RowStep, SidStep, OwnerStep, LegStep, rowVars, TypeInv, TypeOK
<1>4. CASE InboundResult(c)
  <2>1. dialResult[c] \in TERMINAL_CALL_STATUSES
    BY <1>4 DEF InboundResult, TypeInv, TypeOK
  <2>2. RowStep(d)
    BY <1>4, <2>1 DEF InboundResult, Write, RowStep, Reported, TypeInv, TypeOK, CallStatuses,
                      IN_FLIGHT_STATUSES
  <2>3. LegStep(d)
    BY <1>4 DEF InboundResult, LegStep, TypeInv, TypeOK
  <2>4. QED
    BY <1>4, <2>2, <2>3 DEF InboundResult, CallStep, SidStep, OwnerStep
<1>5. CASE LoseCallback(c)
  BY <1>5, IdleStep DEF LoseCallback
<1>6. CASE Age(c) \/ LogDisposition(c)
  BY <1>6 DEF Age, LogDisposition, CallStep, RowStep, SidStep, OwnerStep, LegStep, twilioVars,
              TypeInv, TypeOK, InFlight, IN_FLIGHT_STATUSES
<1>7. ASSUME NEW p \in OwnNumbers, InboundArrives(c, p) PROVE CallStep(d)
  BY <1>7 DEF InboundArrives, Write, CallStep, RowStep, SidStep, OwnerStep, LegStep, TypeInv, TypeOK,
              TERMINAL_CALL_STATUSES
<1>8. QED
  BY <1>1, <1>2, <1>3, <1>4, <1>5, <1>6, <1>7 DEF TwilioStep

(* Every step of the system is such a step of each call.                   *)
LEMMA EveryCallStep ==
  ASSUME TypeInv, [Next]_vars, NEW d \in Calls
  PROVE  CallStep(d)
<1>1. CASE Next
  <2>1. ASSUME NEW h \in Workers, HandlerDies(h) PROVE CallStep(d)
    BY <2>1, IdleStep DEF HandlerDies, twilioVars
  <2>2. ASSUME NEW p \in OwnNumbers, NEW u \in Reps \cup {Nil}, Reassign(p, u) PROVE CallStep(d)
    BY <2>2, IdleStep DEF Reassign, twilioVars
  <2>3. QED
    BY <1>1, <2>1, <2>2, HandlerCallStep, SweepCallStep, TwilioCallStep DEF Next
<1>2. CASE UNCHANGED vars
  BY <1>2, IdleStep DEF vars, twilioVars
<1>3. QED
  BY <1>1, <1>2

-----------------------------------------------------------------------------
(* A row that says its call is over has the time it ended, whichever of    *)
(* the writers settled it and however they overlap.                        *)
THEOREM EndedCallsHaveTime == Spec => []EndedHasTime
<1>1. Init => EndedHasTime
  BY DEF Init, EndedHasTime, TERMINAL_CALL_STATUSES
<1>2. TypeInv /\ EndedHasTime /\ [Next]_vars => EndedHasTime'
  <2> SUFFICES ASSUME TypeInv, EndedHasTime, [Next]_vars, NEW d \in Calls,
                      status'[d] \in TERMINAL_CALL_STATUSES
               PROVE  ended'[d]
    BY DEF EndedHasTime
  <2>1. CASE \E h \in Handlers : DialInsert(h, d)
    BY <2>1 DEF DialInsert, TypeInv, TypeOK, TERMINAL_CALL_STATUSES
  <2>2. RowStep(d)
    BY EveryCallStep DEF CallStep
  <2>3. "ringing" \notin TERMINAL_CALL_STATUSES
    BY DEF TERMINAL_CALL_STATUSES
  <2>4. QED
    BY <2>1, <2>2, <2>3 DEF RowStep, EndedHasTime
<1>3. QED
  BY <1>1, <1>2, TypeCorrect, PTL DEF Spec, TypeInv

-----------------------------------------------------------------------------
(* A callback in the middle of its work was there before the step, or has  *)
(* just found its row by its SID.                                          *)
LEMMA HookBegun ==
  ASSUME TypeInv, [Next]_vars, NEW g \in Handlers, work'[g].pc = "hookUpdate"
  PROVE  work'[g] = work[g] \/ stamped[work'[g].call]
<1>1. g \in Workers /\ work \in [Workers -> Work]
  BY WorkType DEF TypeInv, Workers
<1>2. ASSUME NEW h \in Workers, Done(h) PROVE work'[g] = work[g]
  BY <1>1, <1>2 DEF Done, NoWork
<1>3. ASSUME NEW h \in Workers, NEW pc, pc # "hookUpdate", Proceed(h, pc)
      PROVE  work'[g] = work[g]
  BY <1>1, <1>3 DEF Proceed, Work
<1>4. ASSUME NEW h \in Workers, NEW task, task.pc # "hookUpdate", Begin(h, task)
      PROVE  work'[g] = work[g]
  BY <1>1, <1>4 DEF Begin
<1>5. Handlers \subseteq Workers /\ Sweep \in Workers
  BY DEF Workers
<1>6. ASSUME NEW h \in Handlers, HandlerStep(h) PROVE work'[g] = work[g]
  <2>1. CASE DialLock(h)
    BY <1>1, <1>2, <1>5, <2>1 DEF DialLock, Work
  <2>2. CASE \/ DialCheck(h) \/ (\E c \in Calls : DialInsert(h, c)) \/ DialRefused(h)
             \/ HookUpdate(h) \/ HookDispose(h) \/ HangUpTwilio(h) \/ HangUpSettle(h)
    BY <1>2, <1>3, <1>5, <2>2
       DEF DialCheck, DialInsert, DialRefused, HookUpdate, HookDispose, HangUpTwilio, HangUpSettle
  <2>3. QED
    BY <1>6, <2>1, <2>2 DEF HandlerStep
<1>7. ASSUME NEW h \in Handlers, NEW u \in Reps, NEW n \in Callees, DialSnapshot(h, u, n)
      PROVE  work'[g] = work[g]
  BY <1>4, <1>5, <1>7 DEF DialSnapshot, NoWork
<1>8. ASSUME NEW h \in Handlers, NEW c \in Calls, HangUpRead(h, c)
      PROVE  work'[g] = work[g]
  BY <1>4, <1>5, <1>8 DEF HangUpRead, NoWork
<1>9. ASSUME NEW h \in Handlers, NEW c \in Calls, NEW i \in 1..Len(transit[c]), HookRead(h, c, i)
      PROVE  work'[g] = work[g] \/ stamped[work'[g].call]
  BY <1>1, <1>9 DEF HookRead, Begin, NoWork
<1>10. ASSUME NEW c \in Calls, ReapRead(c) PROVE work'[g] = work[g]
  BY <1>4, <1>5, <1>10 DEF ReapRead, NoWork
<1>11. CASE SweepStep
  BY <1>1, <1>2, <1>3, <1>5, <1>11 DEF SweepStep, ReapFetch, ReapSettle, Work
<1>12. ASSUME NEW c \in Calls,
              \/ TwilioStep(c) \/ BrowserConnects(c) \/ LegAnswered(c) \/ LoseCallback(c)
              \/ Age(c) \/ LogDisposition(c)
              \/ \E p \in OwnNumbers : InboundArrives(c, p)
       PROVE  work'[g] = work[g]
  BY <1>12 DEF TwilioStep, VoiceWebhook, LegRings, LegAborts, LegEnds, InboundResult,
               BrowserConnects, LegAnswered, LoseCallback, Age, LogDisposition, InboundArrives
<1>13. ASSUME NEW h \in Workers, HandlerDies(h) PROVE work'[g] = work[g]
  BY <1>2, <1>13 DEF HandlerDies
<1>14. ASSUME NEW p \in OwnNumbers, NEW u \in Reps \cup {Nil}, Reassign(p, u)
       PROVE  work'[g] = work[g]
  BY <1>14 DEF Reassign
<1>15. CASE UNCHANGED vars
  BY <1>15 DEF vars
<1>16. QED
  BY <1>6, <1>7, <1>8, <1>9, <1>10, <1>11, <1>12, <1>13, <1>14, <1>15 DEF Next

(* The parts of SidBehindRinging, one by one.                              *)
LEMMA SidStays ==
  ASSUME TypeInv, SidBehindRinging, [Next]_vars
  PROVE  SidBehindRinging'
<1>1. \A d \in Calls : CallStep(d)
  BY EveryCallStep
<1>2. ASSUME NEW d \in Calls, Reported(d) PROVE stamped[d]
  BY <1>2 DEF Reported, SidBehindRinging
<1>3. ASSUME NEW d \in Calls, \E h \in Handlers : DialInsert(h, d)
      PROVE  status'[d] = "queued" /\ status[d] = "none" /\ d \in OutboundCalls
  BY <1>3 DEF DialInsert, TypeInv, TypeOK
<1>4. RingingHasSid'
  <2> SUFFICES ASSUME NEW d \in Calls, status'[d] \in {"ringing", "in-progress"}
               PROVE  stamped'[d]
    BY DEF RingingHasSid
  <2>1. RowStep(d) /\ SidStep(d)
    BY <1>1 DEF CallStep
  <2>2. QED
    BY <1>2, <1>3, <2>1
       DEF RowStep, SidStep, SidBehindRinging, RingingHasSid, TERMINAL_CALL_STATUSES
<1>5. ASSUME NEW d \in Calls, stamped'[d] PROVE status'[d] # "none"
  <2>1. RowStep(d) /\ SidStep(d)
    BY <1>1 DEF CallStep
  <2>2. "none" \notin CallStatuses
    BY DEF CallStatuses, IN_FLIGHT_STATUSES, TERMINAL_CALL_STATUSES
  <2>3. QED
    BY <1>3, <1>5, <2>1, <2>2
       DEF RowStep, SidStep, SidBehindRinging, TERMINAL_CALL_STATUSES
<1>6. ASSUME NEW d \in Calls, dialResult'[d] # "none" PROVE stamped'[d]
  BY <1>1, <1>6 DEF CallStep, LegStep, SidStep, SidBehindRinging
<1>7. ASSUME NEW d \in InboundCalls, status'[d] # "none" \/ leg'[d] # "none"
      PROVE  stamped'[d]
  <2>1. d \in Calls /\ d \notin OutboundCalls
    BY CallConstants DEF Calls
  <2>2. RowStep(d) /\ SidStep(d) /\ LegStep(d)
    BY <1>1, <2>1 DEF CallStep
  <2>3. "none" \notin IN_FLIGHT_STATUSES
    BY DEF IN_FLIGHT_STATUSES
  <2>4. CASE status'[d] # "none"
    BY <1>2, <1>3, <2>1, <2>2, <2>3, <2>4 DEF RowStep, SidStep, SidBehindRinging, InFlight
  <2>5. CASE leg'[d] # "none"
    BY <2>1, <2>2, <2>5 DEF LegStep, SidStep, SidBehindRinging
  <2>6. QED
    BY <1>7, <2>4, <2>5
<1>8. ASSUME NEW h \in Handlers, work'[h].pc = "hookUpdate" PROVE stamped'[work'[h].call]
  <2>1. stamped[work'[h].call]
    BY <1>8, HookBegun DEF SidBehindRinging
  <2>2. work'[h].call \in Calls
    <3>1. WorkNamesCalls'
      BY TypeStep DEF TypeInv
    <3>2. QED
      BY <1>8, <3>1 DEF WorkNamesCalls, KnownWork, Workers
  <2>3. QED
    BY <1>1, <2>1, <2>2 DEF CallStep, SidStep
<1>9. QED
  BY <1>4, <1>5, <1>6, <1>7, <1>8 DEF SidBehindRinging

LEMMA SidInit ==
  ASSUME Init
  PROVE  SidBehindRinging
BY DEF Init, SidBehindRinging, RingingHasSid, NoWork, Calls, Workers

(* A row that rings carries the SID a hang-up needs to reach Twilio, under *)
(* every fault and with any number of overlapping handlers.                *)
THEOREM RingingCallsHaveSid == Spec => [](RingingHasSid /\ SidBehindRinging)
<1>1. SidBehindRinging => RingingHasSid
  BY DEF SidBehindRinging
<1>2. QED
  BY <1>1, SidInit, SidStays, TypeCorrect, PTL DEF Spec, TypeInv

-----------------------------------------------------------------------------
(* Once a call has ended, neither the sweep, the hang-up nor a late TwiML  *)
(* fetch changes what its row says: only a report of Twilio does.          *)
THEOREM OnlyReportsReopen == Spec => OnlyTwilioReopens
<1>1. TypeInv /\ [Next]_vars
        => [\A c \in Calls :
              status[c] \in TERMINAL_CALL_STATUSES /\ status'[c] # status[c] => Reported(c)]_vars
  <2> SUFFICES ASSUME TypeInv, [Next]_vars, NEW d \in Calls,
                      status[d] \in TERMINAL_CALL_STATUSES, status'[d] # status[d]
               PROVE  Reported(d)
    OBVIOUS
  <2>1. status[d] # "none" /\ ~InFlight(d)
    BY DEF TERMINAL_CALL_STATUSES, InFlight, IN_FLIGHT_STATUSES
  <2>2. RowStep(d)
    BY EveryCallStep DEF CallStep
  <2>3. QED
    BY <2>1, <2>2 DEF RowStep, DialInsert
<1>2. QED
  BY <1>1, TypeCorrect, PTL DEF Spec, TypeInv, OnlyTwilioReopens, Reported

(* Automation never replaces the outcome a rep chose, however late the     *)
(* callback that would.                                                    *)
THEOREM RepOutcomesStay == Spec => RepOutcomeStays
<1>1. TypeInv /\ [Next]_vars
        => [\A c \in Calls : disposition[c] = "rep" => disposition'[c] = "rep"]_vars
  <2> SUFFICES ASSUME TypeInv, Next, NEW d \in Calls, disposition[d] = "rep"
               PROVE  disposition'[d] = "rep"
    BY DEF vars, rowVars
  <2>1. ASSUME NEW h \in Handlers, HookDispose(h) PROVE disposition'[d] = "rep"
    BY <2>1 DEF HookDispose, TypeInv, TypeOK
  <2>2. ASSUME NEW c \in Calls, LogDisposition(c) PROVE disposition'[d] = "rep"
    BY <2>2 DEF LogDisposition, TypeInv, TypeOK
  <2>3. ASSUME NEW h \in Handlers,
               \/ \E u \in Reps, n \in Callees : DialSnapshot(h, u, n)
               \/ DialLock(h) \/ DialCheck(h) \/ (\E c \in Calls : DialInsert(h, c))
               \/ DialRefused(h)
               \/ (\E c \in Calls : HangUpRead(h, c)) \/ HangUpTwilio(h) \/ HangUpSettle(h)
               \/ \E c \in Calls : \E i \in 1..Len(transit[c]) : HookRead(h, c, i)
               \/ HookUpdate(h)
        PROVE  UNCHANGED disposition
    BY <2>3 DEF DialSnapshot, DialLock, DialCheck, DialInsert, DialRefused, HangUpRead,
                HangUpTwilio, HangUpSettle, HookRead, HookUpdate, rowVars
  <2>4. ASSUME NEW c \in Calls,
               \/ TwilioStep(c) \/ BrowserConnects(c) \/ LegAnswered(c) \/ LoseCallback(c)
               \/ Age(c) \/ ReapRead(c)
               \/ \E p \in OwnNumbers : InboundArrives(c, p)
        PROVE  UNCHANGED disposition
    BY <2>4 DEF TwilioStep, VoiceWebhook, LegRings, LegAborts, LegEnds, InboundResult,
                BrowserConnects, LegAnswered, LoseCallback, Age, ReapRead, InboundArrives, rowVars
  <2>5. ASSUME \/ SweepStep \/ \E h \in Workers : HandlerDies(h)
               \/ \E p \in OwnNumbers, u \in Reps \cup {Nil} : Reassign(p, u)
        PROVE  UNCHANGED disposition
    BY <2>5 DEF SweepStep, ReapFetch, ReapSettle, HandlerDies, Reassign, rowVars
  <2>6. QED
    BY <2>1, <2>2, <2>3, <2>4, <2>5 DEF Next, HandlerStep
<1>2. QED
  BY <1>1, TypeCorrect, PTL DEF Spec, TypeInv, RepOutcomeStays

(* So neither the end of a call nor a rep's outcome is undone by anything  *)
(* that overlaps it.                                                       *)
THEOREM OutcomesStand == Spec => OutcomesStay
BY OnlyReportsReopen, RepOutcomesStay DEF OutcomesStay

-----------------------------------------------------------------------------
(* An outbound call goes on only if it did before, or has just been dialed:*)
(* one that a late callback reopens keeps its end time, and a callback     *)
(* finds no row that is not there yet.                                     *)
LEMMA OngoingBefore ==
  ASSUME TypeInv, EndedHasTime, SidBehindRinging, NEW d \in OutboundCalls, CallStep(d),
         InFlight(d)', ~ended'[d], ~ \E h \in Handlers : DialInsert(h, d)
  PROVE  Ongoing(d)
<1>1. d \in Calls /\ d \notin InboundCalls
  BY CallConstants DEF Calls
<1>2. Reported(d) => stamped[d]
  BY <1>1 DEF Reported, SidBehindRinging
<1>3. stamped[d] => status[d] # "none"
  BY <1>1 DEF SidBehindRinging
<1>4. status[d] \in CallStatuses \cup {"none"} /\ (ended[d] \in BOOLEAN)
  BY <1>1 DEF TypeInv, TypeOK
<1>5. status[d] \in TERMINAL_CALL_STATUSES => ended[d]
  BY <1>1 DEF EndedHasTime
<1>6. RowStep(d)
  BY DEF CallStep
<1>7. QED
  BY <1>1, <1>2, <1>3, <1>4, <1>5, <1>6 DEF RowStep, InFlight, Ongoing, CallStatuses

(* A step of anything but a dial neither begins nor moves a dial.          *)
OtherStep ==
    \/ \E h \in Handlers :
         \/ HookUpdate(h) \/ HookDispose(h) \/ HangUpTwilio(h) \/ HangUpSettle(h)
         \/ \E c \in Calls : HangUpRead(h, c) \/ \E i \in 1..Len(transit[c]) : HookRead(h, c, i)
    \/ \E c \in Calls :
         \/ ReapRead(c) \/ TwilioStep(c) \/ BrowserConnects(c) \/ LegAnswered(c)
         \/ Age(c) \/ LogDisposition(c) \/ LoseCallback(c)
         \/ \E p \in OwnNumbers : InboundArrives(c, p)
    \/ SweepStep
    \/ \E h \in Handlers : DialRefused(h)
    \/ \E h \in Workers : HandlerDies(h)
    \/ UNCHANGED vars

LEMMA OtherKeepsDials ==
  ASSUME TypeInv, OtherStep, NEW g \in Handlers
  PROVE  /\ holder' = holder
         /\ work'[g] = work[g] \/ work'[g].pc \notin DialPcs \cup {"dialLock"}
<1> DEFINE Kept == work'[g] = work[g] \/ work'[g].pc \notin DialPcs \cup {"dialLock"}
<1>1. g \in Workers /\ Sweep \in Workers /\ Handlers \subseteq Workers /\ work \in [Workers -> Work]
  BY WorkType DEF TypeInv, Workers
<1>2. ASSUME NEW h \in Workers, Done(h) PROVE Kept
  BY <1>1, <1>2 DEF Done, NoWork, DialPcs
<1>3. ASSUME NEW h \in Workers, NEW pc, pc \notin DialPcs \cup {"dialLock"}, Proceed(h, pc)
      PROVE  Kept
  BY <1>1, <1>3 DEF Proceed, Work
<1>4. ASSUME NEW h \in Workers, NEW task, task.pc \notin DialPcs \cup {"dialLock"}, Begin(h, task)
      PROVE  Kept
  BY <1>1, <1>4 DEF Begin
<1>5. "hookDispose" \notin DialPcs \cup {"dialLock"} /\ "hangUpSettle" \notin DialPcs \cup {"dialLock"}
      /\ "reapSettle" \notin DialPcs \cup {"dialLock"}
  BY DEF DialPcs
<1>6. ASSUME NEW h \in Handlers,
             HookUpdate(h) \/ HookDispose(h) \/ HangUpTwilio(h) \/ HangUpSettle(h) \/ DialRefused(h)
      PROVE  Kept /\ holder' = holder
  BY <1>1, <1>2, <1>3, <1>5, <1>6
     DEF HookUpdate, HookDispose, HangUpTwilio, HangUpSettle, DialRefused, rowVars
<1>7. ASSUME NEW h \in Handlers, NEW c \in Calls,
             HangUpRead(h, c) \/ \E i \in 1..Len(transit[c]) : HookRead(h, c, i)
      PROVE  Kept /\ holder' = holder
  BY <1>1, <1>4, <1>7 DEF HangUpRead, HookRead, NoWork, DialPcs
<1>8. ASSUME NEW c \in Calls, ReapRead(c) PROVE Kept /\ holder' = holder
  BY <1>1, <1>4, <1>8 DEF ReapRead, NoWork, DialPcs
<1>9. CASE SweepStep
  <2>1. CASE ReapFetch
    <3>1. g # Sweep
      BY CallConstants
    <3>2. ASSUME NEW t \in Outcomes,
                 work' = [work EXCEPT ![Sweep].pc = "reapSettle", ![Sweep].seen = t]
          PROVE  Kept
      BY <1>1, <3>1, <3>2
    <3>3. Kept
      BY <1>1, <1>2, <1>3, <1>5, <2>1, <3>2 DEF ReapFetch
    <3>4. QED
      BY <2>1, <3>3 DEF ReapFetch
  <2>2. CASE ReapSettle
    BY <1>1, <1>2, <2>2 DEF ReapSettle
  <2>3. QED
    BY <1>9, <2>1, <2>2 DEF SweepStep
<1>10. ASSUME NEW c \in Calls,
              \/ TwilioStep(c) \/ BrowserConnects(c) \/ LegAnswered(c) \/ LoseCallback(c)
              \/ Age(c) \/ LogDisposition(c)
              \/ \E p \in OwnNumbers : InboundArrives(c, p)
       PROVE  Kept /\ holder' = holder
  BY <1>10 DEF TwilioStep, VoiceWebhook, LegRings, LegAborts, LegEnds, InboundResult,
               BrowserConnects, LegAnswered, LoseCallback, Age, LogDisposition, InboundArrives
<1>11. ASSUME NEW h \in Workers, HandlerDies(h) PROVE Kept /\ holder' = holder
  BY <1>2, <1>11 DEF HandlerDies
<1>12. CASE UNCHANGED vars
  BY <1>12 DEF vars, rowVars, twilioVars
<1>13. QED
  BY <1>6, <1>7, <1>8, <1>9, <1>10, <1>11, <1>12 DEF OtherStep

LEMMA OtherNeverDials ==
  ASSUME TypeInv, OtherStep, NEW d \in Calls
  PROVE  ~ \E h \in Handlers : DialInsert(h, d)
<1> SUFFICES ASSUME status[d] = "none", status'[d] = "queued" PROVE FALSE
  BY DEF DialInsert, TypeInv, TypeOK
<1>1. work \in [Workers -> KnownWork] /\ Handlers \subseteq Workers /\ Sweep \in Workers
  BY DEF TypeInv, WorkNamesCalls, Workers
<1>2. ASSUME NEW c \in Calls, NEW s, s # "queued", Write(c, s) PROVE FALSE
  BY <1>2 DEF Write, TypeInv, TypeOK
<1>3. "queued" \notin Callbacks /\ "queued" \notin TERMINAL_CALL_STATUSES
  BY DEF Callbacks, TERMINAL_CALL_STATUSES
<1>4. ASSUME NEW h \in Handlers, HookUpdate(h) PROVE FALSE
  BY <1>1, <1>2, <1>3, <1>4 DEF HookUpdate, KnownWork
<1>5. ASSUME NEW h \in Handlers, HangUpSettle(h) PROVE FALSE
  BY <1>1, <1>2, <1>5 DEF HangUpSettle, SettleIfInFlight, KnownWork
<1>6. ASSUME ReapSettle PROVE FALSE
  BY <1>1, <1>2, <1>3, <1>6 DEF ReapSettle, SettleIfInFlight, KnownWork
<1>7. ASSUME NEW c \in Calls, VoiceWebhook(c) \/ \E p \in OwnNumbers : InboundArrives(c, p)
      PROVE  FALSE
  BY <1>2, <1>7 DEF VoiceWebhook, InboundArrives
<1>8. ASSUME NEW c \in Calls, InboundResult(c) PROVE FALSE
  <2>1. dialResult[c] \in TERMINAL_CALL_STATUSES
    BY <1>8 DEF InboundResult, TypeInv, TypeOK
  <2>2. QED
    BY <1>2, <1>3, <1>8, <2>1 DEF InboundResult
<1>9. ASSUME \/ \E h \in Handlers :
                  \/ HookDispose(h) \/ HangUpTwilio(h) \/ DialRefused(h)
                  \/ \E c \in Calls :
                       HangUpRead(h, c) \/ \E i \in 1..Len(transit[c]) : HookRead(h, c, i)
             \/ \E c \in Calls :
                  \/ ReapRead(c) \/ LegRings(c) \/ LegAborts(c)
                  \/ \E t \in TERMINAL_CALL_STATUSES : LegEnds(c, t)
                  \/ BrowserConnects(c) \/ LegAnswered(c)
                  \/ Age(c) \/ LogDisposition(c) \/ LoseCallback(c)
             \/ ReapFetch \/ (\E h \in Workers : HandlerDies(h)) \/ UNCHANGED vars
      PROVE  UNCHANGED status
  BY <1>9 DEF HookDispose, HangUpTwilio, DialRefused, HangUpRead, HookRead, ReapRead, LegRings,
              LegAborts, LegEnds, BrowserConnects, LegAnswered, Age, LogDisposition, LoseCallback,
              ReapFetch, HandlerDies, vars, rowVars
<1>10. QED
  BY <1>4, <1>5, <1>6, <1>7, <1>8, <1>9 DEF OtherStep, TwilioStep, SweepStep

-----------------------------------------------------------------------------
(* The invariant behind the dials, and what a step keeps of it.            *)
DialInv == OneDialPerRep /\ AtMostOneOngoingCall

LEMMA OtherKeepsDialInv ==
  ASSUME TypeInv, EndedHasTime, SidBehindRinging, DialInv, OtherStep, [Next]_vars
  PROVE  DialInv'
<1>1. ASSUME NEW d \in OutboundCalls, InFlight(d)', ~ended'[d]
      PROVE  Ongoing(d) /\ userId'[d] = userId[d] /\ toE164'[d] = toE164[d]
  <2>1. d \in Calls /\ d \notin InboundCalls
    BY CallConstants DEF Calls
  <2>2. CallStep(d) /\ ~ \E h \in Handlers : DialInsert(h, d)
    BY <2>1, EveryCallStep, OtherNeverDials
  <2>3. QED
    BY <1>1, <2>1, <2>2, OngoingBefore DEF CallStep, OwnerStep
<1>2. AtMostOneOngoingCall'
  BY <1>1 DEF DialInv, AtMostOneOngoingCall, Ongoing
<1>3. holder' = holder
  BY DEF OtherStep, HookUpdate, HookDispose, HangUpTwilio, HangUpSettle,
     HangUpRead, HookRead, ReapRead, TwilioStep, VoiceWebhook, LegRings, LegAborts, LegEnds,
     InboundResult, BrowserConnects, LegAnswered, Age, LogDisposition, LoseCallback,
     InboundArrives, SweepStep, ReapFetch, ReapSettle, DialRefused, HandlerDies, vars, rowVars
<1>4. \A g \in Handlers : work'[g] = work[g] \/ work'[g].pc \notin DialPcs \cup {"dialLock"}
  BY OtherKeepsDials
<1>5. "dialInsert" \in DialPcs
  BY DEF DialPcs
<1>6. ASSUME NEW h \in Handlers, NEW c \in OutboundCalls,
             work'[h].pc = "dialInsert", InFlight(c)', ~ended'[c], userId'[c] = work'[h].rep
      PROVE  toE164'[c] # work'[h].to
  BY <1>1, <1>4, <1>5, <1>6 DEF DialInv, OneDialPerRep
<1>7. /\ \A h \in Handlers : work'[h].pc \in DialPcs \cup {"dialLock"}
           => work'[h].numbers = {p \in OwnNumbers : FirstHolder[p] = work'[h].rep}
      /\ \A h \in Handlers : work'[h].pc \in DialPcs => work'[h].numbers # {}
      /\ \A g, h \in Handlers :
           work'[g].pc \in DialPcs /\ work'[h].pc \in DialPcs /\ work'[g].rep = work'[h].rep
           => g = h
  BY <1>4 DEF DialInv, OneDialPerRep
<1>8. QED
  BY <1>2, <1>3, <1>6, <1>7 DEF DialInv, OneDialPerRep, Ongoing

(* Steps of a dial before its insert write no row.                         *)
LEMMA RowsKeepOngoing ==
  ASSUME UNCHANGED rowVars, AtMostOneOngoingCall
  PROVE  /\ AtMostOneOngoingCall'
         /\ \A c \in OutboundCalls : (InFlight(c)' /\ ~ended'[c]) = Ongoing(c)
         /\ userId' = userId /\ toE164' = toE164
BY DEF rowVars, AtMostOneOngoingCall, Ongoing, InFlight

LEMMA DialKeepsDialInv ==
  ASSUME TypeInv, DialInv, NEW h \in Handlers,
         \/ \E u \in Reps, n \in Callees : DialSnapshot(h, u, n)
         \/ DialLock(h) \/ DialCheck(h)
  PROVE  DialInv'
<1>1. h \in Workers /\ work \in [Workers -> Work] /\ Handlers \subseteq Workers
  BY WorkType DEF TypeInv, Workers
<1>2. UNCHANGED rowVars /\ holder' = holder
  BY DEF DialSnapshot, DialLock, DialCheck
<1>3. \A g \in Handlers : g # h => work'[g] = work[g]
  BY <1>1 DEF DialSnapshot, DialLock, DialCheck, Begin, Done, Proceed
<1>4. /\ AtMostOneOngoingCall'
      /\ \A c \in OutboundCalls : (InFlight(c)' /\ ~ended'[c]) = Ongoing(c)
      /\ userId' = userId /\ toE164' = toE164
  BY <1>2, RowsKeepOngoing DEF DialInv
<1>5. ASSUME NEW u \in Reps, NEW n \in Callees, DialSnapshot(h, u, n) PROVE DialInv'
  <2>1. /\ work'[h].pc = "dialLock" /\ work'[h].rep = u
        /\ work'[h].numbers = {p \in OwnNumbers : FirstHolder[p] = work'[h].rep}
    BY <1>1, <1>5 DEF DialSnapshot, Begin, NoWork, DialInv, OneDialPerRep
  <2>2. "dialLock" \notin DialPcs
    BY DEF DialPcs
  <2>3. QED
    BY <1>2, <1>3, <1>4, <2>1, <2>2 DEF DialInv, OneDialPerRep, Ongoing
<1>6. CASE DialLock(h)
  <2>1. CASE Done(h)
    <3>1. work'[h].pc \notin DialPcs \cup {"dialLock"}
      BY <1>1, <2>1 DEF Done, NoWork, DialPcs
    <3>2. "dialInsert" \in DialPcs
      BY DEF DialPcs
    <3>3. QED
      BY <1>2, <1>3, <1>4, <3>1, <3>2 DEF DialInv, OneDialPerRep, Ongoing
  <2>2. CASE ~Done(h)
    <3>1. {p \in work[h].numbers : holder[p] = work[h].rep} = work[h].numbers
      BY <1>6 DEF DialLock, DialInv, OneDialPerRep
    <3>2. /\ work[h].numbers # {} /\ work[h].numbers \cap Locked = {}
          /\ work'[h].pc = "dialCheck" /\ work'[h].rep = work[h].rep
          /\ work'[h].numbers = work[h].numbers
      BY <1>1, <1>6, <2>2, <3>1 DEF DialLock, Work
    <3>3. work[h].numbers = {p \in OwnNumbers : FirstHolder[p] = work[h].rep}
      BY <1>6 DEF DialLock, DialInv, OneDialPerRep
    <3>4. ASSUME NEW g \in Handlers, g # h, work[g].pc \in DialPcs, work[g].rep = work[h].rep
          PROVE  FALSE
      <4>1. work[g].numbers = work[h].numbers
        BY <3>3, <3>4 DEF DialInv, OneDialPerRep
      <4>2. work[g].numbers \subseteq Locked
        BY <3>4 DEF Locked
      <4>3. QED
        BY <3>2, <4>1, <4>2
    <3>5. "dialCheck" \in DialPcs /\ "dialCheck" # "dialInsert"
      BY DEF DialPcs
    <3>6. QED
      BY <1>2, <1>3, <1>4, <3>2, <3>3, <3>4, <3>5 DEF DialInv, OneDialPerRep, Ongoing
  <2>3. QED
    BY <2>1, <2>2
<1>7. CASE DialCheck(h)
  <2>1. /\ work[h].pc = "dialCheck" /\ work'[h].pc = "dialInsert"
        /\ work'[h].rep = work[h].rep /\ work'[h].to = work[h].to
        /\ work'[h].numbers = work[h].numbers
    BY <1>1, <1>7 DEF DialCheck, Proceed, Work
  <2>2. \A c \in OutboundCalls : Ongoing(c) /\ userId[c] = work[h].rep => toE164[c] # work[h].to
    BY <1>7 DEF DialCheck, AlreadyUp, Ongoing
  <2>3. {"dialCheck", "dialInsert"} \subseteq DialPcs
    BY DEF DialPcs
  <2>4. QED
    BY <1>2, <1>3, <1>4, <2>1, <2>2, <2>3 DEF DialInv, OneDialPerRep, Ongoing
<1>8. QED
  BY <1>5, <1>6, <1>7

LEMMA InsertKeepsDialInv ==
  ASSUME TypeInv, DialInv, NEW h \in Handlers, NEW c \in Calls, DialInsert(h, c)
  PROVE  DialInv'
<1>1. h \in Workers /\ work \in [Workers -> Work] /\ Handlers \subseteq Workers
  BY WorkType DEF TypeInv, Workers
<1>2. /\ c \in OutboundCalls /\ status[c] = "none" /\ work[h].pc = "dialInsert"
      /\ userId'[c] = work[h].rep /\ toE164'[c] = work[h].to
  BY DEF DialInsert, TypeInv, TypeOK
<1>3. ASSUME NEW d \in OutboundCalls, d # c
      PROVE  /\ (InFlight(d)' /\ ~ended'[d]) = Ongoing(d)
             /\ userId'[d] = userId[d] /\ toE164'[d] = toE164[d]
  <2>1. d \in Calls
    BY DEF Calls
  <2>2. status'[d] = status[d] /\ ended' = ended
    BY <1>3, <2>1 DEF DialInsert, TypeInv, TypeOK
  <2>3. userId'[d] = userId[d] /\ toE164'[d] = toE164[d]
    BY <1>3, <2>1 DEF DialInsert, TypeInv, TypeOK
  <2>4. QED
    BY <2>2, <2>3 DEF Ongoing, InFlight
<1>4. "dialInsert" \in DialPcs /\ "idle" \notin DialPcs \cup {"dialLock"}
  BY DEF DialPcs
<1>5. work'[h].pc = "idle" /\ \A g \in Handlers : g # h => work'[g] = work[g]
  BY <1>1 DEF DialInsert, Done, NoWork
<1>6. holder' = holder
  BY DEF DialInsert
<1>7. \A d \in OutboundCalls : Ongoing(d) /\ userId[d] = work[h].rep => toE164[d] # work[h].to
  BY <1>2 DEF DialInv, OneDialPerRep
<1>8. AtMostOneOngoingCall'
  <2> SUFFICES ASSUME NEW d \in OutboundCalls, NEW e \in OutboundCalls,
                      Ongoing(d)', Ongoing(e)',
                      userId'[d] = userId'[e], toE164'[d] = toE164'[e], d # e
               PROVE  FALSE
    BY DEF AtMostOneOngoingCall
  <2>1. CASE d # c /\ e # c
    BY <1>3, <2>1 DEF DialInv, AtMostOneOngoingCall, Ongoing
  <2>2. CASE d = c
    BY <1>2, <1>3, <1>7, <2>2 DEF Ongoing
  <2>3. CASE e = c
    BY <1>2, <1>3, <1>7, <2>3 DEF Ongoing
  <2>4. QED
    BY <2>1, <2>2, <2>3
<1>9. ASSUME NEW g \in Handlers, g # h, work[g].pc \in DialPcs
      PROVE  work[g].rep # work[h].rep
  BY <1>2, <1>4, <1>9 DEF DialInv, OneDialPerRep
<1>10. ASSUME NEW g \in Handlers, NEW d \in OutboundCalls,
              work'[g].pc = "dialInsert", Ongoing(d)', userId'[d] = work'[g].rep
       PROVE  toE164'[d] # work'[g].to
  <2>1. g # h /\ work'[g] = work[g]
    BY <1>5, <1>10
  <2>2. d # c
    BY <1>2, <1>4, <1>9, <1>10, <2>1
  <2>3. QED
    BY <1>3, <1>10, <2>1, <2>2 DEF DialInv, OneDialPerRep, Ongoing
<1>11. /\ \A g \in Handlers : work'[g].pc \in DialPcs \cup {"dialLock"}
            => work'[g].numbers = {p \in OwnNumbers : FirstHolder[p] = work'[g].rep}
       /\ \A g \in Handlers : work'[g].pc \in DialPcs => work'[g].numbers # {}
       /\ \A f, g \in Handlers :
            work'[f].pc \in DialPcs /\ work'[g].pc \in DialPcs /\ work'[f].rep = work'[g].rep
            => f = g
  BY <1>4, <1>5 DEF DialInv, OneDialPerRep
<1>12. QED
  BY <1>6, <1>8, <1>10, <1>11 DEF DialInv, OneDialPerRep

(* Two clicks arriving at once cannot both become calls: while nobody      *)
(* reassigns numbers, a rep has at most one ongoing call to a number,      *)
(* whatever callbacks, hang-ups, sweeps and crashes come between. The      *)
(* assumption is needed: README, "reassign".                               *)
THEOREM OneOngoingCall == NoReassign => (Spec => []AtMostOneOngoingCall)
<1> SUFFICES ASSUME NoReassign PROVE Spec => []AtMostOneOngoingCall
  OBVIOUS
<1>1. Init => DialInv
  BY CallConstants
     DEF Init, DialInv, OneDialPerRep, AtMostOneOngoingCall, Ongoing, InFlight, NoWork,
         DialPcs, Workers, Calls, IN_FLIGHT_STATUSES
<1>2. TypeInv /\ EndedHasTime /\ SidBehindRinging /\ DialInv /\ [Next]_vars => DialInv'
  <2> SUFFICES ASSUME TypeInv, EndedHasTime, SidBehindRinging, DialInv, [Next]_vars
               PROVE  DialInv'
    OBVIOUS
  <2>1. ~ \E p \in OwnNumbers, u \in Reps \cup {Nil} : Reassign(p, u)
    BY DEF Reassign, NoReassign
  <2>2. \/ OtherStep
        \/ \E h \in Handlers :
             \/ \E u \in Reps, n \in Callees : DialSnapshot(h, u, n)
             \/ DialLock(h) \/ DialCheck(h) \/ \E c \in Calls : DialInsert(h, c)
    BY <2>1 DEF Next, OtherStep, HandlerStep
  <2>3. QED
    BY <2>2, OtherKeepsDialInv, DialKeepsDialInv, InsertKeepsDialInv
<1>3. DialInv => AtMostOneOngoingCall
  BY DEF DialInv
<1>4. QED
  BY <1>1, <1>2, <1>3, TypeCorrect, EndedCallsHaveTime, RingingCallsHaveSid, PTL DEF Spec, TypeInv

-----------------------------------------------------------------------------
(* What one step may do to a call that is coming to an end.                *)
EndStep(d) ==
    /\ status'[d] = "none" => leg'[d] = "none"
    /\ ComesToAnEnd(d)
       => leg'[d] \in {"in-progress", "over"} /\ dialResult'[d] \in {"none", "completed"}
    /\ ComesToAnEnd(d) /\ leg[d] = "over" => leg'[d] = "over"
    /\ stale'[d] /\ ~stale[d]
       => leg'[d] \in {"in-progress", "over"} /\ dialResult'[d] \in {"none", "completed"}
    /\ status'[d] \in IN_FLIGHT_STATUSES /\ ~stamped'[d]
       => leg'[d] \in {"none", "connecting", "over"}

LEMMA IdleEndStep ==
  ASSUME StaleComesToAnEnd, NEW d \in Calls, UNCHANGED <<rowVars, leg, dialResult>>
  PROVE  EndStep(d)
BY DEF EndStep, ComesToAnEnd, InFlight, StaleComesToAnEnd, rowVars

(* A write that reopens or settles a row refreshes it, and one without a   *)
(* SID stays queued or leaves the calls in flight.                         *)
LEMMA WriteEndStep ==
  ASSUME TypeInv, SidBehindRinging, StaleComesToAnEnd, NEW d \in Calls, NEW c \in Calls,
         NEW s \in CallStatuses, Write(c, s), s \in TERMINAL_CALL_STATUSES \/ stamped'[c],
         UNCHANGED <<leg, dialResult>>, stamped'[d] = stamped[d]
  PROVE  EndStep(d)
<1>1. CASE c = d
  BY <1>1 DEF Write, EndStep, ComesToAnEnd, InFlight, StaleComesToAnEnd, TypeInv, TypeOK,
              CallStatuses, IN_FLIGHT_STATUSES, TERMINAL_CALL_STATUSES
<1>2. CASE c # d
  BY <1>2 DEF Write, EndStep, ComesToAnEnd, InFlight, StaleComesToAnEnd, TypeInv, TypeOK
<1>3. QED
  BY <1>1, <1>2

LEMMA HandlerEndStep ==
  ASSUME TypeInv, SidBehindRinging, StaleComesToAnEnd, NEW h \in Handlers, NEW d \in Calls,
         \/ HandlerStep(h)
         \/ \E u \in Reps, n \in Callees : DialSnapshot(h, u, n)
         \/ \E c \in Calls : HangUpRead(h, c) \/ \E i \in 1..Len(transit[c]) : HookRead(h, c, i)
  PROVE  EndStep(d)
<1>1. work[h] \in KnownWork
  BY DEF TypeInv, WorkNamesCalls, Workers
<1>2. CASE \/ \E u \in Reps, n \in Callees : DialSnapshot(h, u, n)
           \/ \E c \in Calls : HangUpRead(h, c) \/ \E i \in 1..Len(transit[c]) : HookRead(h, c, i)
           \/ DialLock(h) \/ DialCheck(h) \/ DialRefused(h)
  BY <1>2, IdleEndStep
     DEF DialSnapshot, HangUpRead, HookRead, DialLock, DialCheck, DialRefused, twilioVars
<1>3. ASSUME NEW c \in Calls, DialInsert(h, c) PROVE EndStep(d)
  BY <1>3 DEF DialInsert, EndStep, ComesToAnEnd, InFlight, StaleComesToAnEnd, TypeInv, TypeOK,
              twilioVars
<1>4. CASE HookUpdate(h)
  <2>1. work[h].call \in Calls /\ work[h].seen \in CallStatuses
    BY <1>1, <1>4 DEF HookUpdate, KnownWork, Callbacks, CallStatuses, IN_FLIGHT_STATUSES
  <2>2. stamped[work[h].call]
    BY <1>4 DEF HookUpdate, SidBehindRinging
  <2>3. QED
    BY <1>4, <2>1, <2>2, WriteEndStep DEF HookUpdate, twilioVars
<1>5. CASE HookDispose(h)
  BY ZenonT(40), <1>5 DEF HookDispose, EndStep, ComesToAnEnd, InFlight, StaleComesToAnEnd,
     TypeInv, TypeOK, twilioVars
<1>6. CASE HangUpTwilio(h)
  <2>1. work[h].call \in Calls
    BY <1>1, <1>6 DEF HangUpTwilio, KnownWork
  <2>2. leg'[d] = leg[d] \/ (leg[d] \in LiveLegs /\ leg'[d] = "over")
    BY <1>6, <2>1 DEF HangUpTwilio, TypeInv, TypeOK
  <2>3. QED
    BY <1>6, <2>2 DEF HangUpTwilio, EndStep, ComesToAnEnd, InFlight, StaleComesToAnEnd, rowVars,
                      LiveLegs
<1>7. CASE HangUpSettle(h)
  <2>1. work[h].call \in Calls
    BY <1>1, <1>7 DEF HangUpSettle, KnownWork
  <2>2. CASE Write(work[h].call, "canceled")
    BY <1>7, <2>1, <2>2, WriteEndStep
       DEF HangUpSettle, twilioVars, CallStatuses, TERMINAL_CALL_STATUSES
  <2>3. CASE UNCHANGED <<status, ended, stale>>
    BY <1>7, <2>3, IdleEndStep DEF HangUpSettle, twilioVars, rowVars
  <2>4. QED
    BY <1>7, <2>2, <2>3 DEF HangUpSettle, SettleIfInFlight
<1>8. QED
  BY <1>2, <1>3, <1>4, <1>5, <1>6, <1>7 DEF HandlerStep

LEMMA SweepEndStep ==
  ASSUME TypeInv, SidBehindRinging, StaleComesToAnEnd, NEW d \in Calls,
         (\E c \in Calls : ReapRead(c)) \/ SweepStep
  PROVE  EndStep(d)
<1>1. work[Sweep] \in KnownWork
  BY DEF TypeInv, WorkNamesCalls, Workers
<1>2. CASE (\E c \in Calls : ReapRead(c)) \/ ReapFetch
  BY <1>2, IdleEndStep DEF ReapRead, ReapFetch, twilioVars
<1>3. CASE ReapSettle
  <2>1. work[Sweep].call \in Calls /\ work[Sweep].seen \in TERMINAL_CALL_STATUSES
    BY <1>1, <1>3 DEF ReapSettle, KnownWork
  <2>2. CASE Write(work[Sweep].call, work[Sweep].seen)
    BY <1>3, <2>1, <2>2, WriteEndStep DEF ReapSettle, twilioVars, CallStatuses
  <2>3. CASE UNCHANGED <<status, ended, stale>>
    BY <1>3, <2>3, IdleEndStep DEF ReapSettle, twilioVars, rowVars
  <2>4. QED
    BY <1>3, <2>2, <2>3 DEF ReapSettle, SettleIfInFlight
<1>4. QED
  BY <1>2, <1>3 DEF SweepStep

LEMMA TwilioEndStep ==
  ASSUME TypeInv, SidBehindRinging, StaleComesToAnEnd, NEW c \in Calls, NEW d \in Calls,
         \/ TwilioStep(c) \/ BrowserConnects(c) \/ LegAnswered(c) \/ LoseCallback(c)
         \/ Age(c) \/ LogDisposition(c)
         \/ \E p \in OwnNumbers : InboundArrives(c, p)
  PROVE  EndStep(d)
<1>1. CASE VoiceWebhook(c)
  <2>1. status[c] # "none"
    BY <1>1 DEF VoiceWebhook, StaleComesToAnEnd
  <2>2. InFlight(c) /\ ~stamped[c] => status[c] = "queued"
    BY DEF InFlight, IN_FLIGHT_STATUSES, SidBehindRinging, RingingHasSid
  <2>3. CASE c = d
    BY <1>1, <2>1, <2>2, <2>3 DEF VoiceWebhook, Write, EndStep, ComesToAnEnd, InFlight,
       StaleComesToAnEnd, TypeInv, TypeOK, TERMINAL_CALL_STATUSES
  <2>4. CASE c # d
    BY <1>1, <2>4 DEF VoiceWebhook, Write, EndStep, ComesToAnEnd, InFlight, StaleComesToAnEnd,
       TypeInv, TypeOK
  <2>5. QED
    BY <2>3, <2>4
<1>2. CASE LegRings(c) \/ LegAnswered(c) \/ LegAborts(c) \/ BrowserConnects(c)
  <2>1. /\ status[c] # "none" /\ UNCHANGED <<rowVars, dialResult>>
        /\ leg[c] \notin {"in-progress", "over"}
        /\ \/ leg[c] = "bridging" /\ leg'[c] \in {"ringing", "over"}
           \/ leg[c] = "ringing" /\ leg'[c] = "in-progress"
           \/ leg'[c] \in {"connecting", "over"}
    BY <1>2 DEF LegRings, LegAnswered, LegAborts, BrowserConnects, StaleComesToAnEnd, TypeInv,
                TypeOK
  <2>2. c # d => leg'[d] = leg[d]
    BY <1>2 DEF LegRings, LegAnswered, LegAborts, BrowserConnects, TypeInv, TypeOK
  <2>3. CASE c = d
    BY <2>1, <2>3 DEF EndStep, ComesToAnEnd, InFlight, StaleComesToAnEnd, rowVars
  <2>4. CASE c # d
    BY <2>1, <2>2, <2>4 DEF EndStep, ComesToAnEnd, InFlight, StaleComesToAnEnd, rowVars
  <2>5. QED
    BY <2>3, <2>4
<1>3. ASSUME NEW t \in TERMINAL_CALL_STATUSES, LegEnds(c, t) PROVE EndStep(d)
  <2>1. /\ leg'[c] = "over" /\ status[c] # "none" /\ UNCHANGED rowVars
        /\ leg[c] = "in-progress" => t = "completed"
        /\ leg[c] \in {"ringing", "in-progress"}
        /\ dialResult'[c] \in {t, dialResult[c]}
    BY <1>3 DEF LegEnds, LegOutcomes, StaleComesToAnEnd, TypeInv, TypeOK
  <2>2. c # d => leg'[d] = leg[d] /\ dialResult'[d] = dialResult[d]
    BY <1>3 DEF LegEnds, TypeInv, TypeOK
  <2>3. CASE c = d
    BY <2>1, <2>3 DEF EndStep, ComesToAnEnd, InFlight, StaleComesToAnEnd, rowVars
  <2>4. CASE c # d
    BY <2>1, <2>2, <2>4 DEF EndStep, ComesToAnEnd, InFlight, StaleComesToAnEnd, rowVars
  <2>5. QED
    BY <2>3, <2>4
<1>4. CASE InboundResult(c)
  <2>1. dialResult[c] \in TERMINAL_CALL_STATUSES /\ stamped[c] /\ status[c] # "none"
    BY <1>4 DEF InboundResult, SidBehindRinging, TypeInv, TypeOK
  <2>2. CASE c = d
    BY <1>4, <2>1, <2>2 DEF InboundResult, Write, EndStep, ComesToAnEnd, InFlight,
       StaleComesToAnEnd, TypeInv, TypeOK, TERMINAL_CALL_STATUSES
  <2>3. CASE c # d
    BY <1>4, <2>3 DEF InboundResult, Write, EndStep, ComesToAnEnd, InFlight, StaleComesToAnEnd,
       TypeInv, TypeOK
  <2>4. QED
    BY <2>2, <2>3
<1>5. CASE LoseCallback(c)
  BY <1>5, IdleEndStep DEF LoseCallback
<1>6. CASE Age(c)
  BY <1>6 DEF Age, EndStep, ComesToAnEnd, InFlight, IN_FLIGHT_STATUSES, StaleComesToAnEnd,
              TypeInv, TypeOK
<1>7. CASE LogDisposition(c)
  BY <1>7 DEF LogDisposition, EndStep, ComesToAnEnd, InFlight, StaleComesToAnEnd, twilioVars,
              TypeInv, TypeOK
<1>8. ASSUME NEW p \in OwnNumbers, InboundArrives(c, p) PROVE EndStep(d)
  BY <1>8 DEF InboundArrives, Write, EndStep, ComesToAnEnd, InFlight, StaleComesToAnEnd,
              TypeInv, TypeOK
<1>9. QED
  BY <1>1, <1>2, <1>3, <1>4, <1>5, <1>6, <1>7, <1>8 DEF TwilioStep

LEMMA EveryEndStep ==
  ASSUME TypeInv, SidBehindRinging, StaleComesToAnEnd, [Next]_vars, NEW d \in Calls
  PROVE  EndStep(d)
<1>1. CASE Next
  <2>1. ASSUME NEW h \in Workers, HandlerDies(h) PROVE EndStep(d)
    BY <2>1, IdleEndStep DEF HandlerDies, twilioVars
  <2>2. ASSUME NEW p \in OwnNumbers, NEW u \in Reps \cup {Nil}, Reassign(p, u) PROVE EndStep(d)
    BY <2>2, IdleEndStep DEF Reassign, twilioVars
  <2>3. QED
    BY <1>1, <2>1, <2>2, HandlerEndStep, SweepEndStep, TwilioEndStep DEF Next
<1>2. CASE UNCHANGED vars
  BY <1>2, IdleEndStep DEF vars, twilioVars
<1>3. QED
  BY <1>1, <1>2

(* What the sweep has in hand was there before, or has just been read or   *)
(* asked about.                                                            *)
LEMMA SweepWork ==
  ASSUME TypeInv, [Next]_vars
  PROVE  \/ work'[Sweep] = work[Sweep]
         \/ work'[Sweep].pc = "idle"
         \/ \E c \in Calls :
              /\ ReapRead(c) /\ work'[Sweep].call = c
              /\ work'[Sweep].pc = IF stamped[c] THEN "reapFetch" ELSE "reapSettle"
         \/ ReapFetch /\ work'[Sweep].call = work[Sweep].call
<1> DEFINE Goal == \/ work'[Sweep] = work[Sweep]
                   \/ work'[Sweep].pc = "idle"
                   \/ \E c \in Calls :
                        /\ ReapRead(c) /\ work'[Sweep].call = c
                        /\ work'[Sweep].pc = IF stamped[c] THEN "reapFetch" ELSE "reapSettle"
                   \/ ReapFetch /\ work'[Sweep].call = work[Sweep].call
<1>1. Sweep \in Workers /\ Handlers \subseteq Workers /\ work \in [Workers -> Work]
  BY WorkType DEF TypeInv, Workers
<1>2. ASSUME NEW h \in Handlers,
             \/ HandlerStep(h)
             \/ \E u \in Reps, n \in Callees : DialSnapshot(h, u, n)
             \/ \E c \in Calls : HangUpRead(h, c) \/ \E i \in 1..Len(transit[c]) : HookRead(h, c, i)
      PROVE  work'[Sweep] = work[Sweep]
  <2>1. h # Sweep
    BY CallConstants
  <2>2. QED
    BY <1>1, <1>2, <2>1
       DEF HandlerStep, DialSnapshot, DialLock, DialCheck, DialInsert, DialRefused, HookRead,
           HookUpdate, HookDispose, HangUpRead, HangUpTwilio, HangUpSettle, Begin, Proceed, Done
<1>3. ASSUME NEW c \in Calls, ReapRead(c) PROVE Goal
  BY <1>1, <1>3 DEF ReapRead, Begin, NoWork
<1>4. CASE ReapFetch
  <2>1. CASE Done(Sweep)
    BY <1>1, <2>1 DEF Done, NoWork
  <2>2. CASE ~Done(Sweep)
    <3>1. work'[Sweep].call = work[Sweep].call
      BY <1>1, <1>4, <2>2 DEF ReapFetch, Proceed, Work
    <3>2. QED
      BY <1>4, <3>1
  <2>3. QED
    BY <2>1, <2>2
<1>5. ASSUME ReapSettle \/ \E h \in Workers : HandlerDies(h) PROVE Goal
  BY <1>1, <1>5 DEF ReapSettle, HandlerDies, Done, NoWork
<1>6. ASSUME \/ \E c \in Calls :
                  \/ TwilioStep(c) \/ BrowserConnects(c) \/ LegAnswered(c) \/ LoseCallback(c)
                  \/ Age(c) \/ LogDisposition(c)
                  \/ \E p \in OwnNumbers : InboundArrives(c, p)
             \/ \E p \in OwnNumbers, u \in Reps \cup {Nil} : Reassign(p, u)
             \/ UNCHANGED vars
      PROVE  work' = work
  BY <1>6 DEF TwilioStep, VoiceWebhook, LegRings, LegAborts, LegEnds, InboundResult,
              BrowserConnects, LegAnswered, LoseCallback, Age, LogDisposition, InboundArrives,
              Reassign, vars
<1>7. QED
  BY <1>2, <1>3, <1>4, <1>5, <1>6 DEF Next, SweepStep

LEMMA EndStays ==
  ASSUME TypeInv, SidBehindRinging, StaleComesToAnEnd, TwilioAnswers, [Next]_vars
  PROVE  StaleComesToAnEnd'
<1>1. \A d \in Calls : EndStep(d)
  BY EveryEndStep
<1>2. work[Sweep].pc \in {"reapFetch", "reapSettle"} => work[Sweep].call \in Calls
  BY DEF TypeInv, WorkNamesCalls, KnownWork, Workers
<1>3. ASSUME work'[Sweep].pc \in {"reapFetch", "reapSettle"}
      PROVE  /\ leg'[work'[Sweep].call] \in {"in-progress", "over"}
             /\ dialResult'[work'[Sweep].call] \in {"none", "completed"}
             /\ work'[Sweep].pc = "reapSettle" => leg'[work'[Sweep].call] = "over"
  <2>1. CASE work'[Sweep] = work[Sweep]
    BY <1>1, <1>2, <1>3, <2>1 DEF EndStep, StaleComesToAnEnd
  <2>2. ASSUME NEW c \in Calls, ReapRead(c), work'[Sweep].call = c,
               work'[Sweep].pc = IF stamped[c] THEN "reapFetch" ELSE "reapSettle"
        PROVE  /\ leg'[c] \in {"in-progress", "over"}
               /\ dialResult'[c] \in {"none", "completed"}
               /\ work'[Sweep].pc = "reapSettle" => leg'[c] = "over"
    <3>1. ComesToAnEnd(c) /\ (~stamped[c] => leg[c] = "over")
      BY <2>2 DEF ReapRead, StaleComesToAnEnd, ComesToAnEnd
    <3>2. QED
      BY <1>1, <2>2, <3>1 DEF EndStep
  <2>3. CASE ReapFetch /\ work'[Sweep].call = work[Sweep].call
    <3>1. work[Sweep].call \in Calls /\ ComesToAnEnd(work[Sweep].call)
      BY <1>2, <2>3 DEF ReapFetch, StaleComesToAnEnd
    <3>2. work'[Sweep].pc = "reapSettle" => leg[work[Sweep].call] = "over"
      <4>1. Done(Sweep) => work'[Sweep].pc = "idle"
        BY DoneIsIdle DEF TypeInv, Workers
      <4>2. QED
        BY <2>3, <4>1 DEF ReapFetch, TwilioAnswers
    <3>3. QED
      BY <1>1, <2>3, <3>1, <3>2 DEF EndStep
  <2>4. QED
    BY <1>3, <2>1, <2>2, <2>3, SweepWork
<1>4. QED
  BY <1>1, <1>3 DEF EndStep, StaleComesToAnEnd, ComesToAnEnd, InFlight

(* The sweep never closes a conversation that goes on: however it overlaps *)
(* callbacks, hang-ups and forwarding, and though it asked Twilio a step   *)
(* before it writes, a call it settles is over.                            *)
THEOREM SweepSparesLiveCalls == TwilioAnswers => (Spec => ReaperSparesLiveCalls)
<1> SUFFICES ASSUME TwilioAnswers PROVE Spec => ReaperSparesLiveCalls
  OBVIOUS
<1>1. Init => StaleComesToAnEnd
  BY DEF Init, StaleComesToAnEnd, InFlight, IN_FLIGHT_STATUSES, NoWork, Workers
<1>2. TypeInv /\ SidBehindRinging /\ StaleComesToAnEnd /\ [Next]_vars => StaleComesToAnEnd'
  BY EndStays
<1>3. StaleComesToAnEnd /\ [Next]_vars
        => [\A c \in Calls :
              /\ work[Sweep].pc = "reapSettle" /\ work'[Sweep].pc = "idle"
              /\ work[Sweep].call = c /\ status[c] # status'[c]
              => leg[c] \notin LiveLegs]_vars
  BY DEF StaleComesToAnEnd, LiveLegs
<1>4. QED
  BY <1>1, <1>2, <1>3, TypeCorrect, RingingCallsHaveSid, PTL
     DEF Spec, TypeInv, ReaperSparesLiveCalls
(* So the row of a call has what its status needs, the end time or the     *)
(* SID, whichever handler wrote it and whatever overtook it.               *)
THEOREM RowsStayComplete == Spec => []RowsAreComplete
<1>1. EndedHasTime /\ RingingHasSid => RowsAreComplete
  BY DEF RowsAreComplete
<1>2. QED
  BY <1>1, EndedCallsHaveTime, RingingCallsHaveSid, PTL
=============================================================================
