----------------------------- MODULE MCLiveness -----------------------------
(* What must happen in the end: small instances, for TLC, of the           *)
(* components whose properties need fairness. They share no state here;    *)
(* one behaviour is one of a single component, the others idle.            *)
EXTENDS TLC

CONSTANTS Nil, s1, s2, u1, u2, n1, rep1, p1, i1, i2, y1, a1, a2, b1,
    NumberRows, Numbers, Users, Sessions, AdminSessions, UserOf, NumberJobIds, Sids,
    ProvisionRetryLimit, ReleaseRetryLimit, NumberFaults,
    OutboundCalls, InboundCalls, Outcomes, LoggedCalls, Reps, Callees, OwnNumbers,
    FirstHolder, Handlers, Sweep, CallFaults,
    RecordedCalls, Voicemails, PlannedCalls, JobIds, JobRetries, RecordingFaults,
    GrantRequests, MaxTokens, MaxRows, GrantKindSets,
    MaxMail, PageSize, MaxSaves, CapInstances,
    Greetings, Members, GreetKindSets,
    Owners, CallerNames, Patches, NameWorkers, MaxRegistrations, MaxNameJobs, NameKindSets,
    Placed, Ringing, Elsewhere, DialInstances,
    OrgUsers, FirstRole, Teams, Rosters, Invitations, MaxLinks, OrgRequests, KindSets

VARIABLES
    active,       \* the component of this behaviour; never changes
    numberStatus, assignedUserId, isActiveForOutbound, twilioSid, e164, boughtFor, rented,
    numberJobs, req,
    callStatus, stamped, ended, disposition, stale, userId, toE164, holder, leg, onMobile,
    transit, dialResult, work,
    gone, recordingUrl, recordingStatus, transcriptStatus, speaker, audio, object, notices,
    deletion, jobs,
    grantKinds, rotates, rowId, rows, status, stored, fresh, scopes, valid, minted, allows,
    inFlight, grantWork,
    capKinds, capMail, arrived, cursor, importAt, policy, saves, purges, records, rematches,
    row, key, links, count, hold, capWork, readOnce, cut,
    greetKinds, gstatus, storageKey, sources, mp3s, postPc, gjob, tries, jobPc, delPc,
    delKey, acting,
    nameKinds, owner, chosen, requested, callerName, nameStatus, requestId, registrations,
    patch, nameJobs, registering,
    dialKinds, dialCalls, phase, dialing, activeCall, callRef, incomingCallRef, canceledRef,
    terminalRef, dialLeg, callRow, post, ending,
    kinds, roles, isActive, currentOrg, lead, roster, archived, invitation, invitee, offer,
    link, orgWork

PN == INSTANCE PhoneNumbers
        WITH status <- numberStatus, jobs <- numberJobs, Rows <- NumberRows,
             JobIds <- NumberJobIds, Faults <- NumberFaults
CL == INSTANCE CallLifecycle WITH status <- callStatus, Faults <- CallFaults
RC == INSTANCE Recordings
        WITH Calls <- RecordedCalls, RetryLimit <- JobRetries, Faults <- RecordingFaults
MG == INSTANCE MailGrants WITH NoRefresh <- Nil
MC == INSTANCE MailCapture
GR == INSTANCE Greetings WITH RetryLimit <- JobRetries
CN == INSTANCE CallerNames WITH NameRetryLimit <- JobRetries, Null <- Nil
DL == INSTANCE Dialer WITH leg <- dialLeg, NoCall <- Nil
OM == INSTANCE Members WITH Users <- OrgUsers, Requests <- OrgRequests, work <- orgWork

OneTabEach == s1 :> u1 @@ s2 :> u2
HoldsFirst == n1 :> rep1
TwoAdmins == a1 :> "admin" @@ a2 :> "admin" @@ b1 :> "basic"

Captures == {[kinds |-> {}, mail |-> 0],
             [kinds |-> {"sync", "rematch", "purge"}, mail |-> 1],
             [kinds |-> {"sync", "import", "rematch"}, mail |-> 1]}

Dials == {[kinds |-> {}, calls |-> {}],
          [kinds |-> {"call", "end", "blocked", "reload"}, calls |-> {p1}],
          [kinds |-> {"call", "reload"}, calls |-> {i1, i2}],
          [kinds |-> {"call", "end", "reload"}, calls |-> {i1}],
          [kinds |-> {"call", "conflict", "reload"}, calls |-> {p1, y1}]}

-----------------------------------------------------------------------------
numbers == <<numberStatus, assignedUserId, isActiveForOutbound, twilioSid, e164, boughtFor,
             rented, numberJobs, req>>
calls == <<callStatus, stamped, ended, disposition, stale, userId, toE164, holder, leg,
           onMobile, transit, dialResult, work>>
recordings == <<gone, recordingUrl, recordingStatus, transcriptStatus, speaker, audio,
                object, notices, deletion, jobs>>
grants == <<grantKinds, rotates, rowId, rows, status, stored, fresh, scopes, valid, minted,
            allows, inFlight, grantWork>>
capture == <<capKinds, capMail, arrived, cursor, importAt, policy, saves, purges, records,
             rematches, row, key, links, count, hold, capWork, readOnce, cut>>
greeting == <<greetKinds, gstatus, storageKey, sources, mp3s, postPc, gjob, tries, jobPc,
              delPc, delKey, acting>>
names == <<nameKinds, owner, chosen, requested, callerName, nameStatus, requestId,
           registrations, patch, nameJobs, registering>>
dialer == <<dialKinds, dialCalls, phase, dialing, activeCall, callRef, incomingCallRef,
            canceledRef, terminalRef, dialLeg, callRow, post, ending>>
organisation == <<kinds, roles, isActive, currentOrg, lead, roster, archived, invitation,
                  invitee, offer, link, orgWork>>

(* The components with a set of kinds are idle when it is empty; the other *)
(* three have nothing to do, and no fair action, before their first        *)
(* request.                                                                *)
Init ==
    /\ active \in {"numbers", "calls", "recordings", "grants", "capture", "greeting", "names",
                  "dialer", "organisation"}
    /\ grantKinds \in GrantKindSets /\ (grantKinds # {} <=> active = "grants")
    /\ capKinds \in {c.kinds : c \in CapInstances} /\ (capKinds # {} <=> active = "capture")
    /\ greetKinds \in GreetKindSets /\ (greetKinds # {} <=> active = "greeting")
    /\ nameKinds \in NameKindSets /\ (nameKinds # {} <=> active = "names")
    /\ dialKinds \in {d.kinds : d \in DialInstances} /\ (dialKinds # {} <=> active = "dialer")
    /\ kinds \in KindSets /\ (kinds # {} <=> active = "organisation")
    /\ PN!Init /\ CL!Init /\ RC!Init /\ MG!GrantsInit /\ MC!CapInit /\ GR!GreetInit /\ CN!NamesInit /\ DL!DialInit
    /\ OM!Init

Next ==
    /\ UNCHANGED active
    /\ \/ active = "numbers" /\ PN!Next
          /\ UNCHANGED <<calls, recordings, grants, capture, greeting, names, dialer, organisation>>
       \/ active = "calls" /\ CL!Next
          /\ UNCHANGED <<numbers, recordings, grants, capture, greeting, names, dialer, organisation>>
       \/ active = "recordings" /\ RC!Next
          /\ UNCHANGED <<numbers, calls, grants, capture, greeting, names, dialer, organisation>>
       \/ active = "grants" /\ MG!GrantNext
          /\ UNCHANGED <<numbers, calls, recordings, capture, greeting, names, dialer, organisation>>
       \/ active = "capture" /\ MC!CapNext
          /\ UNCHANGED <<numbers, calls, recordings, grants, greeting, names, dialer, organisation>>
       \/ active = "greeting" /\ GR!GreetNext
          /\ UNCHANGED <<numbers, calls, recordings, grants, capture, names, dialer, organisation>>
       \/ active = "names" /\ CN!NameNext
          /\ UNCHANGED <<numbers, calls, recordings, grants, capture, greeting, dialer, organisation>>
       \/ active = "dialer" /\ DL!DialNext
          /\ UNCHANGED <<numbers, calls, recordings, grants, capture, greeting, names, organisation>>
       \/ active = "organisation" /\ OM!Next
          /\ UNCHANGED <<numbers, calls, recordings, grants, capture, greeting, names, dialer>>

Spec == Init /\ [][Next]_<<active, numbers, calls, recordings, grants,
                             capture, greeting, names, dialer, organisation>>

-----------------------------------------------------------------------------
(* The properties of the components, by their names, each under the        *)
(* fairness of its own component.                                          *)

DecisionsAreCarriedOut == PN!DecisionsAreCarriedOut
CallsSettle == CL!Fairness => CL!CallsSettle
RecordingsSettle == RC!Fairness => RC!RecordingsSettle
RevocationIsNoticed == MG!GrantFairness => MG!RevocationIsNoticed
MailSettles == MC!CapFairness => MC!MailSettles
UploadEnds == GR!GreetFairness => GR!UploadEnds
NamesSettle == CN!NameFairness => CN!NamesSettle
ShownCallEnds == DL!DialFairness => DL!ShownCallEnds
RequestsEnd == OM!MemberFairness => OM!RequestsEnd
=============================================================================
