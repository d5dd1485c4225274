------------------------------ MODULE MailGrants ------------------------------
(* The grant of one mailbox: refreshes that share one promise, the forced  *)
(* refresh that does not, consents, the Test button and the disconnect,    *)
(* each acting on a row it read before it asked the provider.              *)
(*                                                                         *)
(* A provider that rotates gives a new refresh token with every refresh    *)
(* and takes the old one back. The server is one process.                  *)
(***************************************************************************)
EXTENDS Naturals, FiniteSets

CONSTANTS
    GrantRequests,  \* concurrent requests and jobs
    MaxTokens,      \* refresh tokens the provider mints; a bound
    MaxRows,        \* connection rows made, one after another; a bound
    GrantKindSets,  \* the sets of request kinds of which one behaviour has one
    NoRefresh

GrantKinds == {"lazy", "force", "consent", "test", "disconnect", "revoke"}
Statuses == {"none", "connected", "limited", "revoked", "error"}
Scopes == {"full", "part"}

VARIABLES
    grantKinds,  \* the kinds of requests of this behaviour; never changes
    rotates,     \* the provider rotates refresh tokens; never changes
    rowId,       \* which OAuthConnection row there is, 0: none
    rows,        \* rows made so far
    status,      \* its status; "revoked" is error with code token_revoked
    stored,      \* its refresh token
    fresh,       \* its access token is comfortably in date
    scopes,      \* its scopes
    valid,       \* the refresh tokens the provider accepts
    minted,      \* how many it has given out
    allows,      \* the scopes it grants now
    inFlight,    \* the request whose promise the callers share, or NoRefresh
    grantWork    \* request -> what it is in the middle of

rowVars == <<rowId, rows, status, stored, fresh, scopes>>
providerVars == <<valid, minted, allows>>
grantVars == <<grantKinds, rotates, rowVars, providerVars, inFlight, grantWork>>

GrantWork == [pc : {"idle", "trade", "store", "mark", "save", "probe", "verdict"},
              kind : GrantKinds \cup {"none"}, seen : 0..MaxRows, token : 0..MaxTokens,
              report : Scopes, verdict : Statuses]
NoGrantWork == [pc |-> "idle", kind |-> "none", seen |-> 0, token |-> 0,
                report |-> "full", verdict |-> "none"]

(* evaluateGrant: a scope that was withheld makes the connection limited.  *)
StatusFor(granted) == IF granted = "full" THEN "connected" ELSE "limited"

GrantsInit ==
    /\ grantKinds \in GrantKindSets /\ rotates \in BOOLEAN
    /\ rowId = 1 /\ rows = 1 /\ stored = 1 /\ fresh = FALSE
    /\ scopes \in Scopes /\ status = StatusFor(scopes)
    /\ grantKinds = {} => ~rotates /\ scopes = "full"
    /\ valid = {1} /\ minted = 1 /\ allows = scopes
    /\ inFlight = NoRefresh
    /\ grantWork = [r \in GrantRequests |-> NoGrantWork]

GrantStarts(r, kind, pc) ==
    /\ kind \in grantKinds /\ grantWork[r].pc = "idle"
    /\ grantWork' = [grantWork EXCEPT ![r] =
          [NoGrantWork EXCEPT !.pc = pc, !.kind = kind, !.seen = rowId, !.token = stored,
                              !.report = scopes]]
(* The promise is forgotten when it settles, however it settles.           *)
Settles(r) ==
    /\ grantWork' = [grantWork EXCEPT ![r] = NoGrantWork]
    /\ inFlight' = IF inFlight = r THEN NoRefresh ELSE inFlight

-----------------------------------------------------------------------------
(* Mutant: every caller refreshes for itself.                              *)
LazyReadUnshared(r) ==
    /\ rowId # 0 /\ ~fresh
    /\ GrantStarts(r, "lazy", "trade")
    /\ UNCHANGED <<grantKinds, rotates, rowVars, providerVars, inFlight>>

(* withFreshAccessToken, by a caller that finds no promise to share.       *)
LazyRead(r) ==
    /\ inFlight = NoRefresh /\ rowId # 0 /\ ~fresh
    /\ GrantStarts(r, "lazy", "trade")
    /\ inFlight' = r
    /\ UNCHANGED <<grantKinds, rotates, rowVars, providerVars>>

(* refreshConnection, the Refresh button.                                  *)
ForceRead(r) ==
    /\ rowId # 0
    /\ GrantStarts(r, "force", "trade")
    /\ UNCHANGED <<grantKinds, rotates, rowVars, providerVars, inFlight>>

(* refreshGrant: what the provider does with the token, and answers.       *)
Trade(r) ==
    LET t == grantWork[r].token
        got == IF rotates THEN minted + 1 ELSE t IN
    /\ grantWork[r].pc = "trade"
    /\ IF t \in valid
       THEN /\ got <= MaxTokens
            /\ valid' = (valid \ {t}) \cup {got}
            /\ minted' = IF rotates THEN got ELSE minted
            /\ grantWork' = [grantWork EXCEPT ![r].pc = "store", ![r].token = got,
                                              ![r].report = allows]
       ELSE /\ grantWork' = [grantWork EXCEPT ![r].pc = "mark"]
            /\ UNCHANGED <<valid, minted>>
    /\ UNCHANGED <<grantKinds, rotates, rowVars, allows, inFlight>>

(* Mutant: a promise that was rejected stays in the map.                   *)
TradeBlipsKeepsPromise(r) ==
    /\ grantWork[r].pc = "trade"
    /\ grantWork' = [grantWork EXCEPT ![r] = NoGrantWork]
    /\ UNCHANGED <<grantKinds, rotates, rowVars, providerVars, inFlight>>

(* The provider cannot be reached: the row is left alone.                  *)
TradeBlips(r) ==
    /\ grantWork[r].pc = "trade"
    /\ Settles(r)
    /\ UNCHANGED <<grantKinds, rotates, rowVars, providerVars>>

(* Only a forced refresh judges the scopes again.                          *)
Store(r) ==
    LET task == grantWork[r] IN
    /\ task.pc = "store"
    /\ IF rowId = task.seen
       THEN /\ stored' = task.token /\ fresh' = TRUE
            /\ scopes' = IF task.kind = "force" THEN task.report ELSE scopes
            /\ status' = IF task.kind = "force" THEN StatusFor(task.report) ELSE status
       ELSE UNCHANGED <<stored, fresh, scopes, status>>
    /\ Settles(r)
    /\ UNCHANGED <<grantKinds, rotates, rowId, rows, providerVars>>

MarkRevoked(r) ==
    /\ grantWork[r].pc = "mark"
    /\ status' = IF rowId = grantWork[r].seen THEN "revoked" ELSE status
    /\ Settles(r)
    /\ UNCHANGED <<grantKinds, rotates, rowId, rows, stored, fresh, scopes, providerVars>>

-----------------------------------------------------------------------------
(* The OAuth callback: the code is exchanged, then saved by saveConnection.*)
ConsentExchange(r, granted) ==
    /\ minted < MaxTokens
    /\ "consent" \in grantKinds /\ grantWork[r].pc = "idle"
    /\ grantWork' = [grantWork EXCEPT ![r] =
          [NoGrantWork EXCEPT !.pc = "save", !.kind = "consent", !.token = minted + 1,
                              !.report = granted]]
    /\ valid' = valid \cup {minted + 1} /\ minted' = minted + 1 /\ allows' = granted
    /\ UNCHANGED <<grantKinds, rotates, rowVars, inFlight>>

ConsentSave(r) ==
    LET task == grantWork[r] IN
    /\ task.pc = "save" /\ (rowId = 0 => rows < MaxRows)
    /\ rowId' = IF rowId = 0 THEN rows + 1 ELSE rowId
    /\ rows' = IF rowId = 0 THEN rows + 1 ELSE rows
    /\ stored' = task.token /\ fresh' = TRUE
    /\ scopes' = task.report /\ status' = StatusFor(task.report)
    /\ Settles(r)
    /\ UNCHANGED <<grantKinds, rotates, providerVars>>

(* A repair that fails stamps the row it was to repair.                    *)
ConsentFails ==
    /\ "consent" \in grantKinds /\ rowId # 0
    /\ status' = "error"
    /\ UNCHANGED <<grantKinds, rotates, rowId, rows, stored, fresh, scopes, providerVars,
                   inFlight, grantWork>>

-----------------------------------------------------------------------------
(* The Test button: the scopes it read, the probes, the verdict.           *)
TestRead(r) ==
    /\ rowId # 0
    /\ GrantStarts(r, "test", "probe")
    /\ UNCHANGED <<grantKinds, rotates, rowVars, providerVars, inFlight>>

(* A probe uses the fresh token or the promise under way; or the refresh   *)
(* of its own is refused.                                                  *)
Probe(r, verdict) ==
    /\ grantWork[r].pc = "probe"
    /\ fresh \/ (inFlight = NoRefresh /\ stored \notin valid)
    /\ verdict \in IF valid = {} \/ ~fresh THEN {"revoked"}
                   ELSE {StatusFor(grantWork[r].report), "error"}
    /\ grantWork' = [grantWork EXCEPT ![r].pc = "verdict", ![r].verdict = verdict]
    /\ UNCHANGED <<grantKinds, rotates, rowVars, providerVars, inFlight>>

TestWrite(r) ==
    /\ grantWork[r].pc = "verdict"
    /\ status' = IF rowId = grantWork[r].seen THEN grantWork[r].verdict ELSE status
    /\ Settles(r)
    /\ UNCHANGED <<grantKinds, rotates, rowId, rows, stored, fresh, scopes, providerVars>>

Disconnect ==
    /\ "disconnect" \in grantKinds /\ rowId # 0
    /\ rowId' = 0 /\ status' = "none"
    /\ UNCHANGED <<grantKinds, rotates, rows, stored, fresh, scopes, providerVars, inFlight,
                   grantWork>>

(* The rep takes the grant back at the provider; its access token dies.    *)
Revoke ==
    /\ "revoke" \in grantKinds /\ valid # {}
    /\ valid' = {}
    /\ UNCHANGED <<grantKinds, rotates, rowVars, minted, allows, inFlight, grantWork>>

(* An hour passes; or an administrator grants the missing scope.           *)
AccessExpires ==
    /\ fresh /\ fresh' = FALSE
    /\ UNCHANGED <<grantKinds, rotates, rowId, rows, status, stored, scopes, providerVars,
                   inFlight, grantWork>>
AdminGrants ==
    /\ allows = "part" /\ allows' = "full"
    /\ UNCHANGED <<grantKinds, rotates, rowVars, valid, minted, inFlight, grantWork>>

-----------------------------------------------------------------------------
Answer(r) ==
    \/ Trade(r) \/ Store(r) \/ MarkRevoked(r) \/ ConsentSave(r) \/ TestWrite(r)
    \/ \E verdict \in Statuses : Probe(r, verdict)

GrantNext ==
    \/ \E r \in GrantRequests :
          \/ LazyRead(r) \/ ForceRead(r) \/ TestRead(r) \/ Answer(r) \/ TradeBlips(r)
          \/ \E granted \in Scopes : ConsentExchange(r, granted)
    \/ ConsentFails \/ Disconnect \/ Revoke \/ AccessExpires \/ AdminGrants

GrantSpec == GrantsInit /\ [][GrantNext]_grantVars

(* The sync job asks for a token every few minutes, an access token lives  *)
(* an hour, and a provider that cannot be reached is reached in the end.   *)
GrantFairness ==
    /\ WF_grantVars(AccessExpires)
    /\ SF_grantVars(\E r \in GrantRequests : LazyRead(r))
    /\ \A r \in GrantRequests : SF_grantVars(Answer(r))

-----------------------------------------------------------------------------
(* Each variable keeps its type; a shared promise is one that is under way.*)
GrantTypeOK ==
    /\ grantKinds \in GrantKindSets /\ rotates \in BOOLEAN
    /\ rowId \in {0, rows} /\ rows \in 1..MaxRows
    /\ status \in Statuses /\ (status = "none" <=> rowId = 0)
    /\ stored \in 1..MaxTokens /\ fresh \in BOOLEAN /\ scopes \in Scopes
    /\ valid \subseteq 1..MaxTokens /\ minted \in 1..MaxTokens /\ allows \in Scopes
    /\ inFlight \in GrantRequests \cup {NoRefresh}
    /\ inFlight # NoRefresh => grantWork[inFlight].kind = "lazy"
    /\ grantWork \in [GrantRequests -> GrantWork]

(* Refreshes alone never make a working grant look revoked, though the     *)
(* provider takes each token back when it is used: the shared promise of   *)
(* withFreshAccessToken. Without the forced refresh, which does not share  *)
(* it, and without consents; see the README.                               *)
RevokedIsDead ==
    grantKinds \cap {"force", "consent"} = {} => (status = "revoked" => stored \notin valid)

(* The refresh token that works is never lost by a refresh: when none is   *)
(* under way, the stored one is what the provider accepts.                 *)
GrantIsKept ==
    grantKinds \cap {"force", "consent"} = {} =>
        \/ rowId = 0 \/ valid = {} \/ stored \in valid
        \/ \E r \in GrantRequests : grantWork[r].pc = "store" /\ grantWork[r].token \in valid

(* The row and the provider agree on what the grant is worth.              *)
GrantIsUsable == RevokedIsDead /\ GrantIsKept

(* A connection that was removed is not brought back by an answer that was *)
(* under way: only a consent makes a row.                                  *)
GoneStaysGone == rowId' \notin {0, rowId} => rows' = rows + 1

(* Refreshes, revocations, consents and removals in any order leave the    *)
(* row saying what the provider does.                                      *)
StaysUsable == GrantIsUsable' /\ GoneStaysGone
GrantStands == [][StaysUsable]_grantVars

(* What the theorems ask of the constants.                                 *)
GrantConstants ==
    NoRefresh \notin GrantRequests /\ MaxTokens \in Nat \ {0} /\ MaxRows \in Nat \ {0}

(* A grant that was taken back is noticed: the row says so in the end, or  *)
(* is gone.                                                                *)
RevocationIsNoticed ==
    "consent" \notin grantKinds => (valid = {} ~> (status = "revoked" \/ rowId = 0))

-----------------------------------------------------------------------------
(* What the code says and does not do; TLC refutes each, see the README.   *)

(* oauthConnections.ts: two callers must not both refresh.                 *)
NeverFalselyRevoked == status = "revoked" => stored \notin valid

(* oauthConnections.ts: a repair that succeeds clears what it repairs.     *)
RepairStays ==
    [][(status # "revoked" /\ status' = "revoked") => stored \notin valid]_grantVars
=============================================================================
