-------------------------------- MODULE Dialer --------------------------------
(* The dialer of one browser tab (DialerProvider, useCreateCall,           *)
(* useEndCall): what it shows of a call, while the Voice SDK reports on    *)
(* the browser's leg of it, the server is polled for the other leg, and    *)
(* requests of the rep are under way. JavaScript runs one callback at a    *)
(* time; between two of them anything may have happened.                   *)
(*                                                                         *)
(* The SDK and the server's Call row are external here: the events the     *)
(* code listens to, the statuses it reads. A poll is answered for the call *)
(* it asked about (the query's key), so it is one step.                    *)
(***************************************************************************)
CONSTANTS
    NoCall,
    Placed,              \* calls the rep places from this tab
    Ringing,             \* calls that ring it
    Elsewhere,           \* calls the rep has placed from another tab
    DialInstances        \* the calls of one behaviour, and what may happen in it

(* "end": the rep hangs up. "save": Save & Next. "blocked": Device.connect *)
(* throws. "conflict": a number that is being called already. "reload": a  *)
(* refresh of the tab.                                                     *)
DialKinds == {"call", "end", "save", "blocked", "conflict", "reload"}
DialCalls == Placed \cup Ringing \cup Elsewhere

VARIABLES
    dialKinds, dialCalls,   \* of this behaviour; never change
    phase, dialing,
    activeCall,             \* React state: the call that is shown
    callRef,                \* the call whose SDK object the tab holds
    incomingCallRef,        \* the one that waits for the rep's answer
    canceledRef, terminalRef,
    leg,                    \* call -> its SDK object in this tab
    callRow,                \* call -> the status of its row
    post,                   \* call -> its POST: what was found, or how far it is
    ending                  \* call -> its DELETE

shown == <<phase, dialing, activeCall>>
refs == <<callRef, incomingCallRef, canceledRef, terminalRef>>
dialVars == <<dialKinds, dialCalls, shown, refs, leg, callRow, post, ending>>

InFlight == {"queued", "in-progress"}
CallPhases == {"idle", "ringing", "in-progress", "completed"}
OnCall == {"ringing", "in-progress"}
Legs == {"none", "connecting", "ringing", "offered", "accepting", "open", "closing", "closed"}
Post == [pc : {"idle", "sent", "made", "conflict"}, call : DialCalls \cup {NoCall},
         status : InFlight]
NoPost == [pc |-> "idle", call |-> NoCall, status |-> "queued"]

DialInit ==
    /\ \E i \in DialInstances : dialKinds = i.kinds /\ dialCalls = i.calls
    /\ phase = "idle" /\ dialing = FALSE /\ activeCall = NoCall
    /\ callRef = NoCall /\ incomingCallRef = NoCall
    /\ canceledRef = FALSE /\ terminalRef = FALSE
    /\ leg = [c \in DialCalls |-> "none"]
    /\ callRow = [c \in DialCalls |-> IF c \in Elsewhere THEN "queued" ELSE "none"]
    /\ post = [c \in Placed |-> NoPost]
    /\ ending = [c \in DialCalls |-> "idle"]

-----------------------------------------------------------------------------
(* What the provider's functions do.                                       *)

startCall(c) ==
    /\ canceledRef' = FALSE /\ terminalRef' = FALSE
    /\ activeCall' = c /\ phase' = "ringing" /\ dialing' = TRUE

adoptCall(c, status) ==
    /\ activeCall' = c /\ dialing' = TRUE
    /\ phase' = IF status = "in-progress" THEN "in-progress" ELSE "ringing"
    /\ UNCHANGED refs

connectCall == phase' = "in-progress" /\ UNCHANGED <<dialing, activeCall>>

endCall ==
    /\ terminalRef' = TRUE /\ callRef' = NoCall
    /\ phase' = "completed" /\ dialing' = FALSE
    /\ UNCHANGED <<activeCall, incomingCallRef, canceledRef>>

finishCall == IF terminalRef THEN UNCHANGED <<shown, refs>> ELSE endCall

reset ==
    /\ phase' = "idle" /\ dialing' = FALSE /\ activeCall' = NoCall /\ callRef' = NoCall
    /\ UNCHANGED <<canceledRef, terminalRef>>

Becomes(c, state) == leg' = [leg EXCEPT ![c] = state]

-----------------------------------------------------------------------------
(* Placing a call: useCreateCall.                                          *)

(* The keypad's button, while no call is up and no POST of its own is.     *)
PlaceCall(c) ==
    /\ c \in dialCalls /\ ~dialing /\ phase \notin OnCall
    /\ \A d \in Placed : post[d].pc = "idle"
    /\ callRow[c] = "none"
    /\ post' = [post EXCEPT ![c].pc = "sent"]
    /\ UNCHANGED <<dialKinds, dialCalls, shown, refs, leg, callRow, ending>>

(* The server makes the row, or finds one in flight to the same number.    *)
ServePost(c) ==
    /\ post[c].pc = "sent"
    /\ \/ /\ post' = [post EXCEPT ![c].pc = "made"]
          /\ callRow' = [callRow EXCEPT ![c] = "queued"]
       \/ /\ "conflict" \in dialKinds
          /\ \E d \in dialCalls : callRow[d] \in InFlight
                /\ post' = [post EXCEPT ![c] = [pc |-> "conflict", call |-> d,
                                                status |-> callRow[d]]]
          /\ UNCHANGED callRow
    /\ UNCHANGED <<dialKinds, dialCalls, shown, refs, leg, ending>>

(* onSuccess starts the call and the Device, onError adopts the other one. *)
PostAnswered(c) ==
    /\ post' = [post EXCEPT ![c] = NoPost]
    /\ \/ /\ post[c].pc = "made"
          /\ startCall(c) /\ Becomes(c, "connecting")
          /\ UNCHANGED <<callRef, incomingCallRef>>
       \/ /\ post[c].pc = "conflict"
          /\ adoptCall(post[c].call, post[c].status) /\ UNCHANGED leg
    /\ UNCHANGED <<dialKinds, dialCalls, callRow, ending>>

(* placeDeviceCall, once Device.connect has answered.                      *)
Connected(c) ==
    /\ leg[c] = "connecting"
    /\ IF canceledRef
       THEN Becomes(c, "closed") /\ UNCHANGED callRef
       ELSE Becomes(c, "ringing") /\ callRef' = c
    /\ UNCHANGED <<dialKinds, dialCalls, shown, incomingCallRef, canceledRef, terminalRef,
                   callRow, post, ending>>

NotConnected(c) ==
    /\ "blocked" \in dialKinds /\ leg[c] = "connecting"
    /\ Becomes(c, "closed") /\ reset
    /\ UNCHANGED <<dialKinds, dialCalls, incomingCallRef, callRow, post, ending>>

(* The SDK's 'accept' of a placed call, which comes before the server can  *)
(* know how the call went on, and every way it ends.                       *)
PlacedAccepted(c) ==
    /\ leg[c] = "ringing" /\ callRow[c] \in InFlight
    /\ Becomes(c, "open") /\ connectCall
    /\ UNCHANGED <<dialKinds, dialCalls, refs, callRow, post, ending>>

PlacedOver(c) ==
    /\ c \in Placed /\ leg[c] \in {"ringing", "open", "closing"}
    /\ Becomes(c, "closed") /\ finishCall
    /\ UNCHANGED <<dialKinds, dialCalls, callRow, post, ending>>

-----------------------------------------------------------------------------
(* A call that rings this tab. The SDK offers none while a call is up.     *)

receiveIncomingCall(c) ==
    /\ c \in dialCalls /\ callRow[c] = "none"
    /\ \A d \in DialCalls : leg[d] \in {"none", "connecting", "offered", "closing", "closed"}
    /\ callRow' = [callRow EXCEPT ![c] = "queued"]
    /\ Becomes(c, "offered")
    /\ incomingCallRef' = c /\ callRef' = c /\ startCall(c)
    /\ UNCHANGED <<dialKinds, dialCalls, post, ending>>

acceptIncomingCall(c) ==
    /\ incomingCallRef = c /\ callRef = c /\ leg[c] = "offered"
    /\ activeCall = c /\ phase = "ringing"
    /\ incomingCallRef' = NoCall /\ Becomes(c, "accepting")
    /\ UNCHANGED <<dialKinds, dialCalls, shown, callRef, canceledRef, terminalRef, callRow,
                   post, ending>>

(* Mutant: whichever call the tab holds by now.                            *)
ClearedAnyway(c) == incomingCallRef' = NoCall /\ reset

(* clearIncomingCall: only for the call the tab still holds.               *)
Cleared(c) ==
    IF callRef = c THEN incomingCallRef' = NoCall /\ reset ELSE UNCHANGED <<shown, refs>>

rejectIncomingCall(c) ==
    /\ incomingCallRef = c /\ callRef = c /\ leg[c] = "offered"
    /\ activeCall = c /\ phase = "ringing"
    /\ Becomes(c, "closed") /\ Cleared(c)
    /\ UNCHANGED <<dialKinds, dialCalls, callRow, post, ending>>

IncomingAccepted(c) ==
    /\ leg[c] = "accepting" /\ Becomes(c, "open")
    /\ IF callRef = c
       THEN incomingCallRef' = NoCall /\ connectCall
            /\ UNCHANGED <<callRef, canceledRef, terminalRef>>
       ELSE UNCHANGED <<shown, refs>>
    /\ UNCHANGED <<dialKinds, dialCalls, callRow, post, ending>>

(* 'cancel' and 'reject' clear the call; 'disconnect' and 'error' clear    *)
(* one that still waits and finish one that does not.                      *)
IncomingOver(c) ==
    /\ c \in Ringing /\ leg[c] \in {"offered", "accepting", "open", "closing"}
    /\ Becomes(c, "closed")
    /\ \/ (leg[c] = "offered" \/ incomingCallRef = c) /\ Cleared(c)
       \/ /\ leg[c] # "offered" /\ incomingCallRef # c
          /\ IF callRef = c THEN finishCall ELSE UNCHANGED <<shown, refs>>
    /\ UNCHANGED <<dialKinds, dialCalls, callRow, post, ending>>

-----------------------------------------------------------------------------
(* End, Save & Next, the poll, a refresh.                                  *)

(* useEndCall marks the cancellation before the DELETE leaves. A call that *)
(* waits for an answer has other buttons.                                  *)
cancelCall(c) ==
    /\ "end" \in dialKinds
    /\ activeCall = c /\ phase \in OnCall /\ ~(c \in Ringing /\ phase = "ringing")
    /\ ending[c] = "idle"
    /\ canceledRef' = TRUE
    /\ leg' = IF callRef = NoCall THEN leg
              ELSE [leg EXCEPT ![callRef] = IF @ = "closed" THEN @ ELSE "closing"]
    /\ ending' = [ending EXCEPT ![c] = "sent"]
    /\ UNCHANGED <<dialKinds, dialCalls, shown, callRef, incomingCallRef, terminalRef, callRow,
                   post>>

(* DELETE /calls/:id settles a call in flight and refuses another.         *)
ServeEnd(c) ==
    /\ ending[c] = "sent"
    /\ \/ /\ callRow[c] \in InFlight
          /\ callRow' = [callRow EXCEPT ![c] = "over"]
          /\ ending' = [ending EXCEPT ![c] = "done"]
       \/ ending' = [ending EXCEPT ![c] = "refused"] /\ UNCHANGED callRow
    /\ UNCHANGED <<dialKinds, dialCalls, shown, refs, leg, post>>

EndAnswered(c) ==
    /\ ending[c] \in {"done", "refused"}
    /\ ending' = [ending EXCEPT ![c] = "idle"]
    /\ IF ending[c] = "done" THEN endCall ELSE UNCHANGED <<shown, refs>>
    /\ UNCHANGED <<dialKinds, dialCalls, leg, callRow, post>>

(* The outcome may be picked and saved as long as a call is shown.         *)
SaveAndNext ==
    /\ "save" \in dialKinds /\ activeCall # NoCall
    /\ reset
    /\ UNCHANGED <<dialKinds, dialCalls, incomingCallRef, leg, callRow, post, ending>>

(* Mutant: a call that never connected is not looked for any more.         *)
PollConnectedOnly ==
    /\ dialing /\ activeCall # NoCall /\ phase = "in-progress"
    /\ callRow[activeCall] = "over" /\ finishCall
    /\ UNCHANGED <<dialKinds, dialCalls, leg, callRow, post, ending>>

(* The poll of the shown call's detail, and the effect on its answer.      *)
Poll ==
    /\ dialing /\ activeCall # NoCall
    /\ \/ callRow[activeCall] = "in-progress" /\ connectCall /\ UNCHANGED refs
       \/ callRow[activeCall] = "over" /\ finishCall
    /\ UNCHANGED <<dialKinds, dialCalls, leg, callRow, post, ending>>

(* The refs and the requests are lost; sessionStorage has the call that    *)
(* was up, if there was one.                                               *)
Reload ==
    /\ "reload" \in dialKinds
    /\ IF dialing /\ activeCall # NoCall /\ phase \in OnCall THEN UNCHANGED shown
       ELSE phase' = "idle" /\ dialing' = FALSE /\ activeCall' = NoCall
    /\ callRef' = NoCall /\ incomingCallRef' = NoCall /\ canceledRef' = FALSE /\ terminalRef' = FALSE
    /\ leg' = [c \in DialCalls |-> IF leg[c] = "none" THEN "none" ELSE "closed"]
    /\ post' = [c \in Placed |-> NoPost]
    /\ ending' = [c \in DialCalls |-> "idle"]
    /\ UNCHANGED <<dialKinds, dialCalls, callRow>>

(* Twilio and the stale-call reaper move a row on, whatever the tab does.  *)
RowMoves(c) ==
    /\ c \in dialCalls /\ callRow[c] \in InFlight
    /\ callRow' = [callRow EXCEPT ![c] = IF @ = "queued" THEN "in-progress" ELSE "over"]
    /\ UNCHANGED <<dialKinds, dialCalls, shown, refs, leg, post, ending>>

RowEnds(c) ==
    /\ c \in dialCalls /\ callRow[c] \in InFlight
    /\ callRow' = [callRow EXCEPT ![c] = "over"]
    /\ UNCHANGED <<dialKinds, dialCalls, shown, refs, leg, post, ending>>

LegStep(c) ==
    \/ Connected(c) \/ NotConnected(c) \/ PlacedAccepted(c) \/ PlacedOver(c)
    \/ IncomingAccepted(c) \/ IncomingOver(c)

DialNext ==
    \/ \E c \in Placed : PlaceCall(c) \/ ServePost(c) \/ PostAnswered(c)
    \/ \E c \in Ringing :
          receiveIncomingCall(c) \/ acceptIncomingCall(c) \/ rejectIncomingCall(c)
    \/ \E c \in DialCalls :
          LegStep(c) \/ cancelCall(c) \/ ServeEnd(c) \/ EndAnswered(c) \/ RowMoves(c) \/ RowEnds(c)
    \/ SaveAndNext \/ Poll \/ Reload

DialSpec == DialInit /\ [][DialNext]_dialVars

(* The tab polls, the SDK answers and no call lasts for ever.              *)
DialFairness ==
    /\ WF_dialVars(Poll)
    /\ \A c \in DialCalls : WF_dialVars(LegStep(c)) /\ WF_dialVars(RowEnds(c))

-----------------------------------------------------------------------------
(* What the behaviours need of the constants: no call is the null, a call  *)
(* is of one direction, and instances are of these calls and kinds.        *)
DialConstants ==
    /\ NoCall \notin DialCalls
    /\ Placed \cap Ringing = {} /\ Elsewhere \cap (Placed \cup Ringing) = {}
    /\ DialInstances \subseteq [kinds : SUBSET DialKinds, calls : SUBSET DialCalls]

(* Every variable has its type.                                            *)
DialTypeOK ==
    /\ [kinds |-> dialKinds, calls |-> dialCalls] \in DialInstances
    /\ phase \in CallPhases /\ dialing \in BOOLEAN
    /\ activeCall \in DialCalls \cup {NoCall}
    /\ callRef \in DialCalls \cup {NoCall} /\ incomingCallRef \in DialCalls \cup {NoCall}
    /\ canceledRef \in BOOLEAN /\ terminalRef \in BOOLEAN
    /\ leg \in [DialCalls -> Legs]
    /\ callRow \in [DialCalls -> {"none", "over"} \cup InFlight]
    /\ post \in [Placed -> Post]
    /\ ending \in [DialCalls -> {"idle", "sent", "done", "refused"}]

(* A rep whose microphone is on the line of a call that goes on is shown   *)
(* that call, with the button that hangs it up, whichever of the SDK, the  *)
(* poll and the DELETE spoke last, and however late Device.connect did.    *)
OpenLineIsShown ==
    \A c \in DialCalls : leg[c] = "open" /\ callRow[c] \in InFlight =>
        phase \in OnCall /\ dialing /\ activeCall = c

(* Behaviours of which that is true: no Save & Next during a call, no End  *)
(* if there is a second call, and no second call of the tab beside one     *)
(* that it places; the README has what the others show.                    *)
OneAtATime(i) ==
    /\ "save" \notin i.kinds
    /\ "end" \in i.kinds => \A c, d \in i.calls : c = d
    /\ \A c \in i.calls \cap Placed : \A d \in i.calls \cap (Placed \cup Ringing) : c = d
OneCallAtATime == \A i \in DialInstances : OneAtATime(i)

(* dialerContext.ts: the server-status poll ends the call the dialer shows *)
(* once Twilio reports a terminal status.                                  *)
ShownCallEnds == dialing ~> ~dialing
=============================================================================
