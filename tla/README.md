# maincar-2, specified and verified

maincar-2 is a CRM with a built-in dialer. A Node server (Express, Prisma over
Postgres, pg-boss for background jobs) buys phone numbers from Twilio, places
and receives calls, keeps their recordings in S3, has them transcribed, and
holds the CRM around it; a React client drives it. This directory holds TLA+
specifications of the parts of the server and the client where the order of
steps decides whether they are right, the TLC configurations that check them, and proofs that
TLAPS checks. All paths below are under `src/`.

## 1. The system

### Components

| Component | State it keeps | Operations | What is hard | Status |
|---|---|---|---|---|
| Phone numbers (`server/src/routes/phoneNumbers.ts`, `jobs/provisionNumber.ts`, `jobs/releaseNumber.ts`) | `PhoneNumber` rows: status, holder, caller-id flag, Twilio SID | buy, activate, assign, release; two jobs | read-committed races, compensating writes, answers of Twilio that are lost, jobs delivered twice | modelled, but for caller names |
| Call lifecycle (`routes/calls.ts`, `routes/twilioVoice.ts`, `lib/callStatus.ts`, `jobs/reapStaleCalls.ts`) | `Call` rows: status, SID, end time, disposition | dial, webhooks, hang-up, disposition, sweep | callbacks that overtake each other, reads that are stale when used, row locks | modelled, but for read routes and TwiML |
| Recordings and transcripts (`jobs/uploadRecording.ts`, `uploadVoicemail.ts`, `transcribeRecording.ts`, `transcribeVoicemail.ts`, `routes/callSpeakers.ts`, `routes/voicemails.ts`) | recording and transcript status, S3 objects, speakers | upload, transcribe, correct, delete | at-least-once jobs, crashes between two steps, deletions meanwhile | modelled |
| Job queue (`jobs/queue.ts`) | pg-boss jobs | send, work, retry, expire | everything a handler sees twice | inside the modules that have jobs |
| Caller names (`jobs/reconcileCallerName.ts`, `PATCH /phone-numbers/:id/caller-name`) | the name a number shows, its status, the carrier's request id | ask, submit, poll, reassign the number | a crash between submission and record, an older job beside a newer request | modelled |
| Members, roles, teams, invitations (`routes/members.ts`, `team.ts`, `teams.ts`, `invitations.ts`, `roles.ts`) | memberships, rosters, invitations | change role, remove, edit a team, invite, claim, switch | the last administrator, row locks taken in two orders, a claim beside a revocation | modelled, but for profiles and settings |
| OAuth connections, mailboxes (`lib/mail/oauthConnections.ts`, `mailAccounts.ts`, `connectionTest.ts`) | tokens, the primary mailbox | consent, refresh, test, switch, disconnect | refreshes that share a promise, an answer for a row that has changed, two primaries | modelled, but for the signed redirect |
| Mail and calendar capture (`jobs/mailSync.ts`, `mailBackfill.ts`, `mailRematch.ts`, `capturePurge.ts`) | cursors, messages, links, holds | sync, import, rematch, purge | two importers and a purge at once, a cursor that must skip nothing | mail modelled; meetings and push subscriptions not |
| Voicemail greetings and drops (`routes/voicemailGreeting.ts`, `voicemailDrops.ts`, their jobs) | greeting and drop rows, objects | upload, convert, transcribe, activate, promote, replace, delete | a source deleted before its product is named, two members at once | modelled |
| Client dialer (`vite/src/components/dialer/DialerProvider.tsx` and its hooks) | phase, refs, active call | dial, answer, hang up, poll, refresh | answers and events in any order | modelled, but for timer, tones and the greenroom |
| Client composer (`vite/src/components/composer/ComposerProvider.tsx`, `ComposerCard.tsx`, `hooks/email`, `server/src/routes/email.ts`, `lib/mail/sendEmail.ts`) | the card, the dock's copy, the row of a draft, the message at the provider | type, autosave, put away, reopen, discard, send | a save, a send and a delete under way at once, each decided on what was read before | modelled, but for creation, templates and signatures |
| Saved views, lists (`routes/savedViews.ts`, `crm/savedViewService.ts`, `routes/lists.ts`) | views and defaults; entries and ranks | choose a default, delete, restore, share; add, move, reorder | two choices at once, ranks computed from ranks that change | modelled, but for the order of views and the values of entries |
| Comments on calls (`routes/callComments.ts`) | comments, tombstones, reactions | reply, edit, delete, react | a reply that arrives while its root is deleted | modelled, but for the creation of roots |
| A person's phones and addresses (`routes/people.ts`) | rows with a position and a primary flag | add, change, remove, reconcile | a transaction writes an order of the rows it saw, over rows it did not | modelled |
| Records of custom objects (`routes/records.ts`, `objects.ts`, `attributes.ts`, `crm/attributeValueMigrations.ts`, `fieldHistory.ts`) | a bag of values, links, history | edit, bulk edit, change of a field to one value, trash | the bag is read before it is locked; three tables follow it | modelled for one reference field; not options, unique fields, imports |
| Record grid (`vite/src/components/crm/RecordGrid.tsx`) | the rows fetched, the edits over them, undo and redo | edit, undo, redo, replace, roll back | an edit is shown before it is saved, and others follow it | modelled |
| Feed of an account (`routes/notes.ts`, `tasks.ts`, `deals.ts`, `nextSteps.ts`, `crm/activityFeed.ts`) | a note, a task, a deal, a call's next steps; a line of history for each | edit, attach, complete, move, save, trash | the line is written from what was read before the transaction | modelled for four sources; not the reads of the feed |
| Notifications (`crm/notifications.ts`, `routes/notifications.ts`) | cards, bundles, the events behind them | fan out, fold, archive | two fan-outs to one reader, repeated events, a reader who archives meanwhile | modelled, but for reading and snooze |
| Pushes of calls (`jobs/callWebPush.ts`, `routes/webPushSubscriptions.ts`) | subscriptions, one claim per event and browser | claim, send, mark, give back, withdraw | a claim outlives its worker, an answer is lost | modelled |
| Columns of people, companies, deals (`companies.ts`, `deals.ts`) | wide rows | one transaction per request | — | not modelled |
| Reporting, authentication, provider adapters, other client pages, scripts, migrations | — | — | data or I/O, no concurrent state of their own | not modelled |

### How they interact

A route answers a request and leaves slow work to a job: it writes a row, sends
a job, and undoes the write if the send throws. pg-boss delivers a job at least
once, retries it while its budget lasts, and may give a job that still runs to a
second worker. Twilio calls back through webhooks, in no guaranteed order. All
of them meet in rows of Postgres, whose isolation is read committed: a statement
sees what was committed when it began, waits for row locks, and checks its
`WHERE` again on what it finds. The code's defence is the compare-and-set
(`updateMany` with the expected status in its filter) and, in a few places,
`FOR UPDATE`. The specifications are about whether these are enough.

Calls depend on phone numbers through the rows a dial locks, recordings on calls
through the recording callback. The modules keep these as a small interface
(`holder` in `CallLifecycle`, `audio` in `Recordings`). A caller name belongs to a
number that the routes of `PhoneNumbers` hand over (`Reassign` in `CallerNames`);
the browser's dialer sees the server's call as a row that moves (`callRow` in
`Dialer`), its composer the row of a draft that its own requests write; a mailbox sends with the grant of its connection (`connection` in
`Mailboxes`, the whole of `MailGrants`), and capture reads through it. The grid is
composed with the records it edits: `GridEdits` extends `RecordFields`, and its
requests are that module's PATCHes. The other components share no state.

## 2. The modules

| Module | What it is |
|---|---|
| `PhoneNumbers` | the number table, its four routes, its two jobs, Twilio as a shop |
| `PhoneNumbersProofs` | its theorems |
| `CallLifecycle` | the `Call` row under every handler that writes its status |
| `CallLifecycleProofs` | its theorems |
| `Recordings` | audio, transcripts, speakers, deleted voicemails |
| `AudioCustody` | what `Recordings` promises, without jobs: somebody always has the audio |
| `RecordingsProofs` | the theorems of `Recordings`, the refinement of `AudioCustody` among them |
| `Members`, `MembersProofs` | memberships, teams, invitations, the switch of organisation; its theorems |
| `Mailboxes`, `MailGrants`, `MailCapture` | a rep's mailboxes; the grant behind one; the mail captured through one |
| `Greetings`, `VoicemailDrops` | the two libraries of audio a member uploads |
| `MailProofs` | the theorems of `Mailboxes`, `MailGrants`, `MailCapture` and `Composer` |
| `Services` | the eight components between a rep and the providers side by side: mailboxes, grants, capture, composer, caller names, dialer, greetings, drops |
| `CallServicesProofs` | the theorems of `CallerNames`, `Dialer`, `Greetings` and `VoicemailDrops`, and of `Services` as a whole |
| `CallerNames` | the name of one number, at the carrier and in its row |
| `Dialer` | what one browser tab shows of a call |
| `Composer` | one draft of an e-mail, from the keystroke to the provider |
| `SavedViews` | the views of one object and their defaults |
| `CallComments`, `ListEntries` | the discussion of one call; one list and its order |
| `Notices`, `AccountFeed`, `CallPushes` | the inboxes of the members; the history of an account; the push of one event to a rep's browsers |
| `Workspace` | what the members of an organization share, side by side: `Members`, `SavedViews`, `CallComments`, `ListEntries`, `WorkspaceRecords`, `AccountFeed`, `CallPushes` |
| `WorkspaceProofs` | the theorems of `SavedViews`, `CallComments`, `ListEntries`, `AccountFeed` and `CallPushes`, and of `Workspace` as a whole |
| `PersonContacts` | the phones, or the addresses, of one person |
| `RecordFields`, `GridEdits` | the values, links and history of records; the grid of one tab over them |
| `Rows` | rows by their id, and a transaction's writes over what is committed |
| `WorkspaceRecords`, `RecordsProofs` | `PersonContacts`, `RecordFields` with `GridEdits`, and `Notices` together: what must hold of the three, `RecordsStand`; the theorems of each and of that |
| `MCPhoneNumbers`, `MCCallLifecycle`, `MCRecordings`, `MCMembers` | definitions for TLC: who sends which request, who holds which number, symmetry |
| `MCServices`, `MCWorkspace`, `MCLiveness` | instances of `Services` and `Workspace`; the components with a liveness property, hosted the same way |

Common conventions. An action is one database statement, or one call to Twilio,
S3 or the queue, together with the code up to the next one: between two such
steps any other actor may run. A handler in the middle of something is a record
(`req`, `work`, `jobs`) whose `pc` names its next step and whose other fields
are the values it has read. Failures are constants: each instance names the
`Faults` it meets, so that a run says what it assumes. The operators that are
preceded by "Mutant:" are not part of the specification; each is a plausible
bug in the definition after it, which the checks must catch.

### PhoneNumbers

`status`, `assignedUserId`, `isActiveForOutbound`, `twilioSid` and `e164` are
columns; `rented` and `boughtFor` are Twilio's books; `req` holds each request,
with the rows its snapshot matched (`targets`) and the locks of its open
transaction (`held`).

- Buy: `BuyCheck`, `BuyCreate`, `BuyEnqueue`, `BuyUndo`.
- Activate: `ActivateFind`, then, in a transaction, `ActivateSnapshot` and
  `ActivateClear` (one `UPDATE`: its snapshot, then its locks) and `ActivateSet`.
- Assign: `AssignFind`, `AssignSet`.
- Release: `ReleaseStart` .. `ReleaseCas` in a transaction, `ReleaseEnqueue`,
  `ReleaseUndo`.
- Jobs: `ProvisionPick` .. `ProvisionRecord` and `ReleasePick` .. `ReleaseRemove`.
- Faults: crash of the server or of a worker, lost answers of Twilio, a send
  that throws though it stored the job, expiry, a failing undo.

### CallLifecycle

`status`, `stamped` (the SID is set), `ended`, `disposition`, `stale` and
`userId`, `toE164` are the row; `leg`, `transit`, `dialResult` are Twilio.
The dial is `DialSnapshot`, `DialLock`, `DialCheck`, `DialInsert`; callbacks are
`HookRead`, `HookUpdate`, `HookDispose`; the hang-up `HangUpRead`,
`HangUpTwilio`, `HangUpSettle`; the sweep `ReapRead`, `ReapFetch`,
`ReapSettle`. `VoiceWebhook` is one action: what it reads and writes of the row
is decided by its one conditional update. "busy" is merged with "no-answer":
every handler treats them alike.

### Recordings

An item is a call or a voicemail. `audio` is what Twilio has, `object` what S3
has, `recordingUrl`, `recordingStatus`, `transcriptStatus` the row, `speaker`
the outside speaker of a call. The upload is `UploadPick`, `UploadFetch`,
`UploadPut`, `UploadRecord`, `UploadChain`, `UploadCleanup`; the transcription
`TranscribePick`, `TranscribeCall`, then for a call `PersistLock` and
`PersistCommit` (the transaction of `persistFinalTranscript`, which locks the
row with its first write and reads the speakers before it writes them), for a
voicemail `PersistVoicemail`. The two upload jobs differ in the filter of their
compare-and-set and in that a voicemail has no recording status: both are the
same actions, with `recordingStatus` a function on calls only. `known` is
whether the pass found the speaker when it read: a known speaker is updated
under `manualOverride: false`, a missing one is created.

### AudioCustody

Four sets of recordings: with Twilio, in our store, named by their row, deleted
by a person. `Record`, `Copy`, `Name`, `GiveUp`, `Delete`, `Erase` are all that
may happen to them. `Recordings` implements it under the mapping `Custody`
(`audio`, `object`, `recordingUrl`, `gone`): jobs, attempts, crashes and
transcripts stutter. It is the promise in one page; what it adds to `NoAudioIsLost`
is that no step does two of these at once, or one of them in the wrong order.

### Members

`roles`, `isActive`, `currentOrg` are a membership, `lead`, `roster`, `archived`
a team, `invitation`, `invitee`, `offer`, `link` an invitation. A request is a
record in `work`. `CountSnapshot`, `CountLock`, `CountDone` are
`lockAndCountActiveAdmins`: the rows a `FOR UPDATE` matched, their locks one by
one, and the count of those that still match. `RemoveLock` takes the target
before the administrators and `TeamLock` takes a roster, so two requests may wait
for each other: `DeadlockVictim` is Postgres rolling one of them back.

### Mailboxes, MailGrants, MailCapture

`Mailboxes` holds what a transaction has written and not committed in `mailWork`;
others see it when it commits, and wait for the rows. `MailGrants` has the tokens
as numbers: `stored` is in the row, `valid` is what the provider accepts,
`inFlight` is the promise that `withFreshAccessToken` shares. A request reads the
row (`LazyRead`, `ForceRead`, `TestRead`, `ConsentExchange`), is answered, and
writes to a row that may be gone or another one. `MailCapture` numbers messages
by arrival; `cursor` is the cursor of the changes or of the first read, `row` and
`key` what is stored and under which of the two keys, `links` and `count` the
attachment to a record and the record's counter, `hold` the mail nobody was known
for. Each job reads a page (`SyncRead`), looks rows up (`SyncLook`) and stores
them (`SyncStore`).

### Greetings, VoicemailDrops

An object in storage and a row change one after the other, never together:
`sources` and `mp3s`, or `webm` and `mp3` with the version they hold, are the
storage. The jobs are cut at every call of storage and of the database. In
`Greetings` two deliveries of a conversion may overlap ("overlap"); a member's
activation holds the lock of the organisation (`acting`). In `VoicemailDrops`
every change of the library locks all its rows first; audio is a version number,
so that what is played, transcribed and uploaded last can be told apart.
`convert` counts the conversions a drop has waiting; `converting[1]` is the
delivery that holds its lease, and with "overlap" `converting[2]` is one that
outlived its lease (`ConvertOverruns`) and goes on while the queue hands the job
out again. Without "overlap" the conversions of a library run one after another,
as the one worker takes them; so do its transcriptions, in every instance.

### CallerNames

`requested`, `callerName`, `nameStatus`, `requestId` are columns, `registrations`
the carrier's books. Each write of the job is a compare-and-set on what it read,
so a request or a handover meanwhile makes it do nothing. The job that polls is
sent with a delay by the one before.

### Dialer

`phase`, `dialing`, `activeCall` are React state, `callRef`, `incomingCallRef`,
`canceledRef`, `terminalRef` the refs a callback reads, `leg` the Voice SDK's
connection, `callRow` the server's row as a poll finds it. One action is one
callback of JavaScript.

### Composer

`card` is the mounted `ComposerCard`: what is typed, what `savedRef` holds, and
whether the debounce runs. `dock` is the provider's copy, which outlives the card
and seeds the next one (`Mount`); `draft` the row. The text, the subject and the
recipients are one stamp that grows as the rep types, 0 when all are blank.
`edits` are the PATCHes under way, `press` how far a button is. Each button
flushes first (`Press`) and goes on when the answer is there (`FlushEnds`):
`closeCard` or `discardDraft`, or the POST of a send, which the server takes
through `PostArrives`, `Sends`, `Records`, `DeletesSent`. `ListAnswered` is the
merge of a list into the dock; it happens only when the list differs from the
last one, for the query client keeps the object of an equal answer.

`DraftStands` compares the three copies once nothing is under way (`AtRest`). Of
deletes that fail it speaks where nothing is sent and no save is overtaken. With a
send, a refetch that read the row may be answered after the message went and the
row with it: the dock then shows a draft that is gone. With a save that is
overtaken, the row may change after the list was read, and no refetch brings it.

### SavedViews, CallComments, ListEntries

Each is small: rows, and what each request has read and locked. `LockAndClear`
and `SetDefault` are the two statements of `POST /:id/default` under the lock on
the object. `ReplyLock`, `DeleteLock` and `ReactLock` take the one row lock a
discussion has. `MoveLock`, `MoveRead` and `MoveWrite` are a sparse move:
`NextRank` is the rank between two neighbours, `Spread` the ranks when there is
none; an addition waits for no row lock, so a row may be there that a reorder has
not locked.

### PersonContacts

`contacts` are the committed rows, `contactWork` a transaction with what it has
written (`mine`, `dropped`): `Seen` lays the one over the other, as read committed
does (`Over`, of `Rows`). A statement starts on the rows it sees (`ShiftBegins`,
`DemoteBegins`) and ends when it has their locks (`ShiftRows`, `DemoteRows`); a
position that is entered or left is `barred` to others until the commit, as by the
unique index. `FindRows` is the common head of `reconcilePhoneOrder` and
`reconcilePrimary`; of phones it works out the place of each row (`Order`: the
chosen one first, before the others those with a lower position), which
`ShiftRows` and `Arrange` write; addresses go `Promote`, `DemoteRows`.

### RecordFields, GridEdits

`bag` is `valuesJson`, `recordLinks` the `RecordLink` rows of the reference field,
`logged` the newest `FieldHistory` row of each field. `PatchRead` is what a PATCH
reads before its transaction, `PatchLock` its update getting the row, with the
links it then sees, `PatchCommit` the rest of the transaction. `CollapseLock` and
`CollapseUpdate` are the two statements that lock rows when a field becomes
single: the second takes all that have a value by then, and only the rows of the
first get their history and their links (`CollapseCommit`).

In `GridEdits` a cell shows `edits` over `fetched`. A request remembers what the
cell showed when it began (`prior`), and puts it back when it fails (`Lands`); on
its way it is a PATCH of `RecordFields` (`Arrives`, `Serves`). Undo and redo are
edits with the two stacks (`Replays`); find and replace paints (`ReplaceCells`).

### Notices, AccountFeed, CallPushes

A fan-out (`FanOut`) goes through the recipients in order: `FindCard` takes the
advisory lock of a reader and looks for an open card, `PutNew`, `PutPlain` or
`Fold` writes, and nothing is seen of it before `NoticeCommit`. `told` are the events
whose source committed; time is a few ticks, and `BatchWindow` and `BatchCap`
count them. The snooze and the reading of a card decide nothing here.

In `AccountFeed` each route reads (`NoteRead`, `TaskRead`, `DealRead`), and its
transaction begins later (`NoteBegin`, `TaskCommit`, `DealCommit`, `SaveBegin`)
from what was read. `feed` holds the lines as the feed's reads find them.

`CallPushes` is the loop of `deliverCallWebPush`, cut at each of its writes and at
the push itself. Two callbacks queue the one event twice (`PushJobs`); a job that
threw is delivered again while its budget lasts.

## 3. What is checked

Each run is named after its configuration.

| Run | Bounds | What it shows |
|---|---|---|
| `PhoneNumbersSafety` | 2 members (one an administrator), 2 rows, 1 number, 2 jobs, 2 SIDs, failing undo | one caller id per member; Twilio's books and the rows agree (`BooksAgree`: nothing is rented that no row or job knows, what is active is rented, a number is active once) |
| `PhoneNumbersFaults` | 1 row, 2 jobs, 2 SIDs, every fault | types; rows are complete: an active row has its SID, a caller id has a holder |
| `CallLifecycleDials` | 2 calls, 1 rep, 1 callee, 2 handlers | one ongoing call of a rep to a number |
| `CallLifecycleCallbacks` | 1 outbound or 1 inbound call (`OneCall`), 2 handlers, reordered, doubled and lost callbacks, crashes, reassignment | types; what rings has a SID, what ended has its time; a rep's outcome stays and only Twilio's reports take a call out of a terminal status (`OutcomesStay`); the sweep settles no live call |
| `RecordingsSafety` | 1 planned call, 1 that is not (recorded alone, `UnplannedAlone`), 1 voicemail, 2 jobs, every fault | the audio is never lost and no planned call written off (`NoAudioIsLost`), finished steps are not taken back and corrections stay (`FinishedStays`), also while a voicemail is deleted; `AudioCustody` is implemented |
| `Workspace` | 2 requests at a time; 2 administrators, 1 member, 1 team, 1 invitation; 2 views of 2 owners; 1 root and 2 replies; 3 records of a list, ranks in -4..4; 3 phones or addresses; 2 records of 1 field and 2 references; 3 edits and 3 undos; 3 events, 2 readers and 4 cards; 1 note, task, deal and call; 2 browsers, 2 jobs of 2 deliveries | an organisation keeps an administrator and a team its active lead; nobody joins but by an open invitation, once; one default view per audience; no reply is lost with its root; a moved entry ends where it was put; a person's phones stand in one order, the first and no other primary, what a record refers to is linked back, after failures, undos and redos the grid shows what is stored, who was to be told is told, once, in bundles that are capped (`RecordsStand`); no browser shows a call twice or misses it (`PushedOnce`); the feed says what its rows say (`FeedIsTrue`) |
| `Services` | 2 requests or workers; 3 accounts; 4 tokens; 2 messages, 2 saves of the settings; 2 greetings; 2 drops of 3 versions; 2 owners, 2 names; 3 calls of a tab; 2 buttons, 3 PATCHes and 6 acts of a rep on one draft (fewer where requests overtake each other, buttons are pressed twice or the server stops) | a rep can send; a grant stands; mail is stored once, none is passed over, and what is purged stays gone (`MailStands`); what a rep sees of a draft is what is kept, it goes out once and whole, and its row goes only when the rep said so or after its message is recorded (`DraftStands`); callers hear one greeting, and hear it; a library has one default and, where conversions do not overlap (two of its instances let them: an upload and a replacement), its audio; the name that is shown is registered; an open line is shown |
| `Liveness` | the components that have a liveness property, one at a time, the smallest instances: 1 row and lost answers; 1 call and lost, reordered callbacks while Twilio may be unreachable; 2 recorded calls, 3 jobs; a grant; 1 message; 2 greetings; 1 name, failing carrier; 3 calls of a tab; 2 administrators and 1 member, 2 requests | what was decided of a number is carried out, calls and recordings settle, a revoked grant is noticed, purges and rematches reach what they must, an upload ends, a name is decided, the dialer leaves a call that is over, a member's request ends although two may deadlock |

Hosts. `Services`, `Workspace` and `Liveness` each check components that share no
state. The union of their behaviours is the union of the components': `Init`
chooses the one that has something to do (its set of kinds of operations is not
empty), the others stay in one state. So the state spaces add and do not
multiply. `Services` and `Workspace` are also proved about as a whole (section 5).
A set of kinds is also what keeps an instance small: the sets in a
configuration are the combinations in which something can go wrong, such as an
import beside a sync, or a promotion beside two removals. A property that says
"without the import" holds for the sets without it, and the second table below
says what happens with it.

Why these bounds are enough to be interesting. Two requests are what every race
of the routes takes; the third actor of a race is a job or a callback, which has
its own slots. Two rows are needed for two caller ids, two defaults, two active
greetings, and for the row that a release leaves behind and a purchase that
follows it; three accounts for a mailbox that is promoted in place of one while
another is chosen; three entries for a move between two; three versions for a
replacement that overtakes a conversion. One retry makes every branch of the retry
budget happen: first delivery, last delivery, dropped. Two job slots let a job
run beside its expired twin, or beside the job it chains. Where a slot bound
could hide a step (no slot is free), a smaller instance only disables the
enqueue; the theorems below have no such bound. Ranks beyond `MaxRank` are not
moved to. `Outcomes` and `LoggedCalls` thin out the dial run, whose property does
not depend on how a call ends. In `Liveness` one worker polls caller names: two
would only repeat each other. Deadlock is not checked: a server whose requests
are answered and whose jobs are done may well stop, and in these instances the
rows run out.

Symmetry is used for rows, job slots, SIDs, handlers, requests, workers and calls
where no property of the run tells them apart, and never in a run with liveness.

### Disagreements with what the repository says

Four runs end in a counterexample; `PROJECT.json` quotes the statement each
refutes.

| Run | What happens |
|---|---|
| `PhoneNumbersTwoTabs` | two requests of one member each clear the rows they see and set their own: two caller ids |
| `CallLifecycleHangUp` | a hang-up without a SID cancels a call that is then dialed |
| `RecordingsLostChain` | a crash after the compare-and-set: the redelivery believes all is done, no transcript ever |
| `MembersLastAdmin` | a removal goes by the role it read before its transaction (`members.ts:307`): its target was basic then, is promoted meanwhile, and counts when the other administrator is demoted; the removal takes the last administrator away without a count; `members.ts:46-47` says there always is one |

TLC refutes more statements of the code's comments with the same modules. They
have no configuration here; each is seen by giving the run in the second column
the property and the faults of the third, instead of its own.

| Statement | From the run | With | What happens |
|---|---|---|---|
| `jobs/releaseNumber.ts:57-59`: a half-released number "must not silently become somebody's caller ID again" | `PhoneNumbersSafety` | `GivenUpReleaseIsSilent`, no fault | an activation that read the row before the release sets the flag of a number whose release is given up |
| `routes/phoneNumbers.ts:185-186`: "a failed row is a purchase that never happened" | `PhoneNumbersFaults` | `FailedWasNeverBought`, `lostAnswer` | the purchase went through, its answer did not, the retry is refused: a failed row for a number that is billed |
| `jobs/releaseNumber.ts:51-52`: "the org is still renting the number" | `PhoneNumbersFaults` | `ActiveIsRented`, `lostAnswer` | the release went through, its answers did not: an active row for a number that is gone |
| `jobs/releaseNumber.ts:140-143`: the guard against a second delivery | `PhoneNumbersFaults` | `KeptNumberIsNotReleased`, `expire` | a slow release job releases what its redelivery gave up |
| `routes/phoneNumbers.ts:998-1000`: the release keeps its retries "even if this request, this process, or their browser goes away" | `Liveness` | `DecisionsAreCarriedOut`, `crash` | a crash between the status and the enqueue: "releasing" for ever |
| `lib/callStatus.ts:33`: "The statuses a call does not come back from" | `CallLifecycleCallbacks` | `TerminalIsFinal`, no fault | a late status callback reopens a settled call |
| `routes/calls.ts:846-847`: the count "cannot miss a row a racing request is mid-insert" | `CallLifecycleDials` | `AtMostOneOngoingCall`, two numbers, `FirstHolder <- HoldsFirst`, `reassign` | numbers that change hands between snapshot and lock let two dials through |
| `routes/voicemails.ts:140`, `:162-163`: deletes "one voicemail and its audio" | `RecordingsSafety` | `DeletedLeavesNoAudio`, no fault | an upload leaves its object behind a deleted voicemail |

The same of the components in the hosts. "With" names the property of the module
and the set of kinds that refutes it.

| Statement | Module | With | What happens |
|---|---|---|---|
| `schema.prisma:408-409`: a lead has "a matching TeamMember row" | `Members` | `LeadOnRoster`, team | two edits of one team: one replaces the roster, the other names a lead from the roster it read |
| `routes/team.ts:493-495`: a second invitation "would leave two live links" | `Members` | `OneLiveLink`, invite | two administrators invite one address at once: both looked first |
| `routes/team.ts:568-569`: a leaked link "stops working the moment the admin presses the button" | `Members` | `OldLinksAreDead`, invite | a claim that found the invitation by the old link goes through |
| `routes/invitations.ts:165-167`: "They are a member either way" | `Members` | `ClaimedIsMember`, remove and invite | the invitation was revoked, not claimed, between the look and the claim |
| nobody is left in an organisation they cannot open | `Members` | `CurrentOrgIsOpen`, remove and switch | the switch was checked before the removal and is written after it |
| `lib/mail/mailAccounts.ts:141-142`, `:168-169`: "never end with two primaries or with none" | `Mailboxes` | `AtMostOnePrimary`, connect | two first consents both count none and are both primary |
| `lib/mail/mailAccounts.ts:201`: "NEVER left with mailboxes and no primary" | `Mailboxes` | `NeverWithoutSender`, switch and disconnect | the mailbox that is being made the sender is disconnected meanwhile |
| a consent ends with a mailbox | `Mailboxes` | `GrantHasMailbox`, connect and disconnect | a disconnection between the connection and the mailbox of one consent |
| `lib/mail/oauthConnections.ts:244`: two callers "must NOT both refresh" | `MailGrants` | `NeverFalselyRevoked`, force and lazy | the forced refresh does not share the promise: one of the two uses a token that was taken back, and the row says "revoked" (`:349`) for a grant that works |
| `lib/mail/oauthConnections.ts:452`: a repair clears what it repaired | `MailGrants` | `RepairStays`, consent and lazy | a refresh that began before the consent fails after it and marks the new grant |
| `jobs/queue.ts:150`, `schema.prisma:2525`: idempotent by mailbox and message id | `MailCapture` | `NeverTwoRows`, sync and import | the two give a message two keys and look before either writes |
| `jobs/mailSync.ts:100-101`: a replay "must not resurrect" what was purged | `MailCapture` | `NeverResurrected`, sync, import and purge | the import stores a second row of a purged message |
| `schema.prisma:2514`: an exclusion removes a message from every read | `MailCapture` | `PurgedIsUnlinked`, sync and purge | a purged row keeps a link |
| every message is read | `MailCapture` | `CursorNeverSkips`, sync of 2 | a page of changes is cut at its limit (`googleMail.ts:487-500` asks for no next page), and the cursor goes on behind it |
| the hold is for mail nobody is known for | `MailCapture` | `HeldIsUnknown`, sync and rematch | the record was created between the match and the hold, and its rematch was already over |
| `jobs/transcodeGreeting.ts:40`: safe under at-least-once delivery | `Greetings` | `AlwaysPlayable`, post and overlap | an overlapping delivery deletes the file the other has settled |
| `routes/voicemailGreeting.ts:244`: "hide first, then clean private objects" | `Greetings` | `DeletedIsGone`, post and delete | a conversion puts its file after the clean-up |
| an upload does not spin | `Greetings` | `UploadAlwaysEnds`, post and crash | the server dies between the status and the enqueue (`:189`) |
| `jobs/transcodeVoicemailDrop.ts:35-36`: a delivery is "idempotent once conversion has settled" | `VoicemailDrops` | `AlwaysHasAudio`, create and overlap, replace and overlap | deliveries of one drop share the key of the MP3: the one that loses the compare-and-set (`:72`, `:82`), or finds its source gone and gives up (`:96`), deletes the file that the other's row names |
| a drop plays what was uploaded last | `VoicemailDrops` | `PlaysTheNewest`, replace | the job of the upload before settles the row with its own audio |
| a transcript is of the audio | `VoicemailDrops` | `TranscriptIsOfAudio`, replace | the transcription of the older audio ends last |
| a drop can be played once its jobs are done | `VoicemailDrops` | `PlayableAtRest`, replace and giveUp | a conversion that gave up leaves the row without audio |
| `dependencies/callerNameRegistration.ts:44-45`: no "second carrier registration" | `CallerNames` | `OneRegistrationPerName`, ask and crash, or expire | the carrier's answer is lost with the worker, and the redelivery registers again |
| a name is decided | `CallerNames` | `NamesSettle`, ask and sendFails, or crash | the delayed poll is lost, and nothing else asks |
| `vite/src/components/dialer/dialerContext.ts:112-115`: the poll ends a call that is over | `Dialer` | `ShownCallEnds`, call and conflict, two placed calls | `adoptCall` (`DialerProvider.tsx:174-185`) does not reset `terminalRef`, so the end of the adopted call is taken for one already seen |
| an open line is shown | `Dialer` | `OpenLineIsShown`, call, two placed calls or a placed and a ringing one | the listeners of a call that went away (`DialerProvider.tsx:479-486`) do not ask which call the dialer shows, and take the next one off the screen |
| `SPEC-composer-send.md:39`: "a double-click sends one email" | `Composer` | `DoubleClickSendsOnce`, write, send, slow and again | the second click falls into the awaited flush, while `isSending` (`ComposerCard.tsx:341`) is not yet true: two POSTs read the same row |
| `routes/email.ts:396-397`: "no window where the body in flight differs from the body on screen" | `Composer` | `SentIsOnScreen`, write, send and slow, or saveFails | an older autosave arrives after the flush, or the flush failed and `saveDraft` swallowed it: the send takes the row as it is |
| `ComposerProvider.tsx:149-151`: a failed delete "brings the row back" | `Composer` | `FailedDeleteComesBack`, discard and deleteFails | the list that is read again equals the last one, so its object stays the same and the merge does not run |
| `SPEC-composer-dock.md:282`: never "Delete a draft on close" | `Composer` | `WrittenIsNotDeleted`, write and away | the rep puts an erased card away and goes on typing during the flush; what is blank is judged by the text at the press |
| `routes/savedViews.ts:286-287`: two requests "cannot both clear the audience and then each select themselves" | `SavedViews` | `OneDefaultEvenShared`, default and share | a view that becomes the default while its visibility changes takes the flag to an audience that has one |
| `routes/lists.ts:735-736`: the lock "keeps two dialers from choosing the same midpoint" | `ListEntries` | `MovesNeverTie`, move | both ask for the place between the same two neighbours, one after the other, and get the same middle |
| `routes/lists.ts:815-816`: an entry cannot be "added between validation and the position writes" | `ListEntries` | `ReorderIsOfAll`, add and reorder | an insertion waits for no row lock |
| `routes/people.ts:305`: a person with a value has "EXACTLY one" primary | `PersonContacts` | `ExactlyOnePrimary`, patch of addresses | two requests each clear the rows they see: two primaries; with two removals, none |
| `schema.prisma`, `PersonPhone.position`: "durable, contiguous" | `PersonContacts` | `Contiguous`, post and delete of phones | an addition that saw the row being removed puts its own behind it |
| `schema.prisma`, `PersonEmail.isPrimary`: "at most one true per person" | `PersonContacts` | `OnePrimaryEmail`, patch of addresses | as above |
| `routes/records.ts:415-418`: "a value and its history can never disagree" | `RecordFields` | `HistoryAgrees`, patch | the bag, and what its history is a difference to, were read before the transaction: the value goes back to what a request read, and no row says so |
| `crm/attributeValueMigrations.ts:147`: "reverse-reference reads stay aligned" | `RecordFields` | `LinksAreAligned`, collapse and create, or bulk | a record filled between the two statements is cut to one value and keeps its links; a bulk edit writes none |
| `crm/valuesValidator.ts:331`: a field that is not multi "does not take a list of values" | `RecordFields` | `SingleHoldsOne`, patch and collapse | the PATCH was validated when the field was still multi |
| `RecordGrid.tsx:243-245`: an edit "persists through the object route, rolls back on failure" | `GridEdits` | `GridIsPersisted`, edit and replace; or edit, fail and overlap; or edit and lost | find and replace (`:1070-1080`) paints the cells and sends nothing; the fallback of an edit is another one that fails as well; an edit whose answer is lost is taken back though it was saved |
| `schema.prisma:3214`: "Retrying the same event can never give one person two inbox rows" | `Notices` | `RetriedIsOneRow`, send, retry and archive | the first card was archived, so the repeated event is led by a card of its own or folded into another |
| `routes/notes.ts:461-462`: "a line for a trashed note would be a line nothing stands behind" | `AccountFeed` | `TrashedHasNoLine`, edit, attach and trash | a change of links alone neither updates nor locks the note, and writes its line after the trash removed it |
| the line of a note quotes it | `AccountFeed` | `LineQuotesNote`, edit and attach | the line of a change of links quotes the body that was read before |
| `routes/tasks.ts:478-480`: re-completing a task "keeps the ORIGINAL doneAt" | `AccountFeed` | `DoneAtStays`, done | two completions both read an open task |
| `routes/deals.ts:408-409`: a deal can "never end up on a stage outside its pipeline" | `AccountFeed` | `StageInPipeline`, stage and pipeline | one request changes the stage, the other the pipeline, each checked with what the other replaces |
| `routes/deals.ts:491-493`: nor can "a committed move disappear from the account history" | `AccountFeed` | `MoveIsRecorded`, stage | a request back to the stage it read, while another moved the deal, counts as no move |
| `schema.prisma:342-343`: the key makes callbacks "safe to retry" | `CallPushes` | `DoneIsShown`, push and crash | the claim of a worker that died is passed over: no push, and no error |
| an event is shown once | `CallPushes` | `NeverTwice`, push and lost, or fault | the claim of an event that was shown is given back when its answer or its mark fails |
| `routes/lists.ts:590-591`: never "a duplicate row or an error" | `ListEntries` | `AddNeverFails`, add and remove | the entry that came in between is gone when it is read back |

## 4. Fairness

Liveness is claimed only for what the code schedules. Steps of a request or a job
that has begun are fair: Node goes on with a handler, pg-boss polls its queues,
and Postgres grants a contended row lock to its waiters in turn, so a step that
keeps becoming possible is taken. Nobody is obliged to start a request, no fault
has to happen. `Liveness` hosts nine components, so each of its properties is an
implication from the fairness of its own component.

| Fairness | What the code justifies it with |
|---|---|
| `PhoneNumbers!Fairness`, `Recordings!Fairness` | requests and jobs that have begun go on; Twilio delivers a recording callback at least once |
| `CallLifecycle!Fairness` | the clock, the cron of the sweep and Twilio (which caps the length of a call); not the delivery of a status callback, which may be lost: what settles a call then is the sweep |
| `Members!MemberFairness`, strong on `TransactionStep` | a transaction gets its locks or is rolled back |
| `MailGrants!GrantFairness` | access tokens expire, the sync asks for one every five minutes, the provider answers |
| `MailCapture!CapFairness` | a rematch and a purge that are queued are worked |
| `Greetings!GreetFairness` | the steps of an upload and of its job |
| `CallerNames!NameFairness` | the job and the request; the carrier decides in the end |
| `Dialer!DialFairness` | the poll of every 2.5 seconds; the SDK reports what it began; calls end |

Strong rather than weak fairness is needed where a lock held by another handler,
or a job slot taken by another job, disables a step for a while, again and again.
`RecordingsLostChain` fails under this fairness: the work is lost, not merely
late.

## 5. What is proved

The theorems hold for every number of members, rows, calls, jobs, mailboxes,
browsers, views and retries and, where no hypothesis says otherwise, for every
set of faults and of kinds of request. They are proved of the specifications
that TLC checks. Those of `Services` and `Workspace` follow from those of their
parts: a step of the whole is a step of one part that leaves the variables of the
others alone (`EachServiceRuns`, `EachPartRuns`), so each part runs as it does
alone.

What they assume of the constants is written down and evaluated by TLC in every
run. `ConstantsAssumption`, `CallConstants`, `RecordingConstants` and
`MemberConstants` are assumptions of their modules. `MailConstants`,
`GrantConstants`, `CapConstants`, `NameConstants`, `GreetConstants`,
`DropConstants`, `DialConstants` and `ComposerConstants`, together
`ServiceConstants`, and `CommentConstants`, `ListConstants`, `FieldConstants`,
`GridConstants`, `ContactConstants`, `NoticeConstants`, `FeedConstants` and
`PushConstants`, together `WorkspaceConstants`, are hypotheses, which `MCServices`
and `MCWorkspace` assume of the values they give. They say that a null is no row,
that a bound is a number, that each grant has its own account, that the drops of
the start have a recording, that no instance has more mail than `MaxMail`, that a
list has no more records than there are ranks, that the first part of a value is a
value, that a person starts with its phones in order, that an event has somebody to
tell, that a push has finitely many jobs. `SavedViews` needs nothing.
Five theorems need more than that, and section 3 or the argument below says for
each what happens without it: `OneRequestPerUser`, `NoReassign`, `TwilioAnswers`,
`OneCallAtATime` and, for the books, that the carrier and the database answer.

| Theorem | Statement | Argument |
|---|---|---|
| `PhoneNumbersProofs!TypeCorrect` | `Spec => [](TypeOK /\ WorkNamesRows)` | inductive as it stands; `WorkNamesRows` says that whoever is in the middle of something names a row, without which a function would be applied outside its domain |
| `RowsStayComplete` | `Spec => []RowsAreComplete` | from two others. `ActiveRowsHaveSid`: by `SidBehindActive`, everyone who is about to write "active" (the undo of a release, a job that gives up, a purchase) has seen a SID, and SIDs only appear. `CallerIdsHaveHolders`: by `FoundIsLive`, what the undo writes back is what the release found, and that was a live row |
| `CallerIdIsUnique` | `OneRequestPerUser => (Spec => []AtMostOneCallerId)` | `ActivationCoversOthers`: an activation about to set its row has every other caller id of its member among the rows it clears; a second request of the same member breaks it, as `PhoneNumbersTwoTabs` shows, and an administrator's reassignment does not |
| `BooksStand` | `Faults \subseteq {"undoFails"} => (Spec => []BooksAgree)` | two invariants. `OwnersInv`: one route or job at a time takes a row through what is between two statuses, the status it left there says so, and a route that gives up undoes only its own. `BooksInv`: Twilio rents a number for one row, and each SID it rents is known to that row or to the one job that is about to write it. With lost answers neither holds, and no theorem claims it: a number is rented that nobody knows (section 3) |
| `KeptNumbersStay` | the same of `KeptNumberIsNotReleased`, an action property | `OwnersInv`: a job asks Twilio to take a number back only while its row says "releasing" |
| `CallLifecycleProofs!TypeCorrect` | `Spec => [](TypeOK /\ WorkNamesCalls)` | inductive together; `WorkNamesCalls` says what a handler that has read something knows about it |
| `RowsStayComplete` | `Spec => []RowsAreComplete` | from two others. `EndedCallsHaveTime`: every writer of a terminal status goes through `Write`, and nothing clears an end time. `RingingCallsHaveSid`: by `SidBehindRinging`, the callback that is about to write "ringing" found the row by its SID, an inbound row has one from its first write, a posted dial result belongs to one |
| `OnlyReportsReopen`, `RepOutcomesStay` | action properties | one step per writer, from what it checks at the moment it writes |
| `OutcomesStand` | `Spec => OutcomesStay` | the two together, as the run checks them |
| `OneOngoingCall` | `NoReassign => (Spec => []AtMostOneOngoingCall)` | `OneDialPerRep`: a dial past its snapshot holds every number of its rep, so two dials of one rep are never both past the lock, and one past its check has seen every call of hers; reassignment breaks it, as section 3 says |
| `SweepSparesLiveCalls` | `TwilioAnswers => (Spec => ReaperSparesLiveCalls)` | `StaleComesToAnEnd`: a row nobody wrote to for hours belongs to a leg that was answered or is over and is not forwarded any more, and stays so until somebody writes; what Twilio said of it a step ago still holds when the sweep writes. Where Twilio cannot be asked, the sweep's fallback closes calls that are up |
| `RecordingsProofs!TypeCorrect` | `Spec => []TypeOK` | one step per action |
| `AudioNeverLost` | `Spec => []AudioIsKept` | `AudioInv`: our copy is there before the row names it, the row names it before Twilio's goes, and an object is deleted only behind a deleted voicemail; `AudioIsKept` alone says nothing of a job in the middle of this |
| `NoPlannedCallIsSkipped` | `Spec => []PlannedIsNotSkipped` | the same invariant: a transcription exists only for an item whose row names our copy |
| `NoRecordingIsLost` | `Spec => []NoAudioIsLost` | the two together, as the run checks them |
| `FinishedStepsStay` | `Spec => FinishedStays` | from `StoredRecordingsStay` and `TranscriptsStay` (every writer's guard, from the type invariant) and `CorrectionsStay` |
| `CorrectionsStay` | `Spec => ManualSpeakerStays` | `SpeakerInv`: one final pass at a time holds a call's row, and a speaker that exists is known to it; so the branch that creates never meets a corrected one |
| `CustodyIsKept` | `Spec => KeepsCustody`: `Recordings` implements `AudioCustody` | `AudioInv` again: under it every step is one step of the abstract specification or changes none of its four sets |
| `MembersProofs!TypeCorrect` | `Spec => []TypeOK` | inductive with what a request that has read something knows (`Knows`); that no two requests hold one membership row is part of it |
| `LeadersRemain` | `Spec => []LeadersStay` | `MemberInv`: a demotion or a removal has counted the administrators under the locks it still holds, so that one it does not hold remains (`HasCounted`); a removal that has passed its look at the teams holds the row a roster would need (`RemovesNoLead`) |
| `JoinsByOpenInvitation` | `Spec => JoinsOnce` | the same invariant: a claim writes what the invitation it found offers, and its update matches an open one only |
| `MailProofs!MailTyped` | `MailConstants => (MailSpec => []MailTypeOK)` | inductive with `DeletesItsBoxes`: no two transactions delete one mailbox |
| `RepCanSend` | `MailConstants => (MailSpec => []CanSend)` | `MailInv`: a switch that has cleared the flags (`ClearsAll`) ends with the one mailbox it saw (`SeesBox`), a disconnection holds every mailbox of its grant. One sender at most without consents and one at least without disconnections: section 3 shows what each does to the other half |
| `GrantTyped`, `GrantRemainsUsable` | `GrantConstants =>` `(GrantSpec => []GrantTypeOK)`, `(GrantSpec => GrantStands)` | `GrantInv`: where nobody but the shared promise refreshes, who trades the stored token is alone, what it got is the one token the provider accepts until it is stored (`StoredIsValid`), and who is about to write "revoked" has seen the grant dead (`TaskIsAlone`). Where a refresh is forced or a consent comes between, the first half makes no claim, and section 3 says why; that only a consent makes a row again holds of every step |
| `CaptureTyped`, `MailIsKept` | `CapConstants =>` `(CapSpec => []CapTypeOK)`, `(CapSpec => MailStands)` | `CapInv`: who attaches adds to a counter as many as it adds links, who purges takes off what it takes away, so the counter is the number of the links (a fact of finite sets at every step); the cursor, and the one that the sync at work will save, leave no message below them that was not read or is not in its page (`CursorInv`, `Covers`); where no import runs, every row, every held message and every rematch goes by the key the sync gives it, so a message has one row (`KeysAreOne`), and who finds it purged leaves it so |
| `ComposerTyped`, `DraftIsKept` | `ComposerConstants =>` `(ComposerSpec => []ComposerTypeOK)`, `(ComposerSpec => DraftStands)` | `ComposerInv`, one part for each thing that is promised, each with the faults under which it holds. `CauseInv`: how far a button has come says what was accepted, recorded and decided at the press. `OnceInv`: there is one Send, and after its message no other comes before the row is gone. `ScreenInv`: one flush at a time, of a draft that is in the dock, and one DELETE of a draft that is not. `DockInv`, `BackInv`: when the dock has let go of a draft, somebody is about to delete or to fetch it, or the last list showed it. `ShownInv`: there is a text and a state that the row will have once the PATCHes under way have arrived, and that the dock and the card show already (`WillHold`, `Shows`); at rest, they are equal. `AskedInv`: the row a POST is on its way to holds at least what stood in the card at the press |
| `CallServicesProofs!NamesTyped` | `NameConstants => (NamesSpec => []NamesTypeOK)` | part of the next one |
| `NamesStand` | `NameConstants => (NamesSpec => []ShownIsRegistered)` | `NamesInv`: what a worker is about to record is what the carrier has (`AttemptKnows`), the carrier forgets nothing (`RegistrationsGrow`), and the row takes an answer only while it still asks for that name and request |
| `DialTyped` | `DialConstants => (DialSpec => []DialTypeOK)` | one step per action |
| `MicrophoneIsShown` | `DialConstants /\ OneCallAtATime => (DialSpec => []OpenLineIsShown)` | `DialInv`: the legs, the request of a placed call and the end of a call fit what the tab shows of it (`LegsFit`, `PostsFit`, `EndsFit`). `OneCallAtATime` is about the instance: no saved draft of an outcome beside the call, at most one call where the rep hangs up, and no second call that this tab places or that rings beside one it places; section 3 shows the listeners of one call taking the next off the screen. Without hang-ups, any number of calls may ring |
| `GreetTyped` | `GreetConstants => (GreetSpec => []GreetTypeOK)` | part of the next one |
| `GreetingsHold` | `GreetConstants => (GreetSpec => GreetingStands)` | `GreetInv`: one member activates at a time, and what is active beside the candidate is what this activation will retire (`LockInv`); where deliveries do not overlap, one that runs is of a greeting that is not settled yet, and its MP3 stays until somebody deletes the greeting (`PlayInv`). With overlapping deliveries the theorem keeps what it says of activation and deletion and makes no claim of the audio: section 3 |
| `DropsTyped`, `LibraryHolds` | `DropConstants =>` `(DropSpec => []DropTypeOK)`, `(DropSpec => LibraryStands)` | `DropInv`: no two transactions have one row locked, and a row that is locked is there, so that a deletion, which has locked another drop beside its own, leaves one (`LibraryInv`); where deliveries do not overlap, the one at work settles a drop that still waits for it, and its MP3 is there from the put on (`AudioInv`); whatever is at work names a drop, and a transcription is counted among its jobs (`WorkIsKnown`). With overlapping deliveries the theorem keeps the one default and the last drop and makes no claim of the audio: section 3. The invariant says what a drop that is not committed yet may have left behind, without which a new row could name the audio of an older one |
| `ServicesTyped`, `ServicesStand` | `ServiceConstants =>` `(ServicesSpec => []ServicesTypeOK)`, `(ServicesSpec => ...)`: every property of the run `Services` | `EachServiceRuns` and the theorems of the eight parts |
| `WorkspaceProofs!ViewsTyped`, `EachAudienceHasOneDefault` | `ViewsSpec => []ViewsTypeOK`, `ViewsSpec => []OneDefaultView` | `ViewsInv`: a choice of the default is alone between its two statements (the lock on the object), and the rows it holds are all the defaults of its audience, so that who deletes, restores or chooses beside it waits for it; where views change their visibility the property makes no claim |
| `CommentsTyped`, `DiscussionStands` | `CommentConstants =>` `(CommentsSpec => []CommentsTypeOK)`, `(CommentsSpec => ThreadStands)` | `CommentsInv`: one request at a time has a row locked (`AloneOn`), and what it saw under the lock is still so: the root is there, the leaf has no replies |
| `ListTyped`, `MovesArePlaced` | `ListConstants =>` `(ListSpec => []ListTypeOK)`, `(ListSpec => MovedIsPlaced)` | `ListInv`: whoever has rows locked is alone on them (`LocksAreApart`), so that a move's neighbours keep their ranks until it writes, and what it is going to write fits them (`PlanPlaces`). Where there is a rank between the two this is arithmetic (`NextRankPlaces`); where the list is spread out, who comes after another has more entries before it (`PlacesGrow`, a fact of finite sets and a strict order), so the places, and the ranks made of them, keep the order (`SpreadPlaces`) |
| `FeedTyped`, `HistoryIsTrue` | `FeedConstants =>` `(FeedSpec => []FeedTypeOK)`, `(FeedSpec => []FeedIsTrue)` | `FeedInv`: one update at a time has the note locked (`OneEdits`), one save at a time the call (`OneSaves`), and no moment a request goes by is still to come (`MomentsPassed`), so that the line it writes is of what it wrote |
| `EachBrowserIsToldOnce` | `PushSpec => []PushedOnce` | `PushInv`: who holds the claim of a browser is the only one and has not shown it yet, and nobody claims what was shown (`ShownAtMostOnce`); a browser that a job has left behind was shown or is claimed by a job at work (`ShownAtLeastOnce`). Where an answer or a write may be lost, or a claim outlives its worker, `PushedOnce` makes no claim, and section 3 says why |
| `PushTyped` | `PushConstants => (PushSpec => []PushTypeOK)` | `RoundsInv`: that a browser is shown an event no more often than the jobs are delivered. A delivery of a job may show a browser once (`MayShow`); the pairs of a job and a delivery that had their chance (`Past`) only become more, and become more with every showing, so the showings are no more than they are |
| `WorkspaceTyped`, `WorkspaceStands` | `WorkspaceConstants =>` `(WorkspaceSpec => []WorkspaceTypeOK)`, `(WorkspaceSpec => ...)`: every other property of the run `Workspace` | `EachPartRuns` and the theorems of the nine parts |
| `RecordsProofs!RecordsTyped`, `LinksFollowValues` | `FieldConstants =>` `(RecordsSpec => []RecordsTypeOK)`, `(RecordsSpec => []ReferencesAreLinked)` | `RecordsInv`: who has rows locked is alone on them and they are not trashed (`RowsAreApart`, `HoldsRows`); the links a PATCH saw under the lock are those there are when it commits, so what it leaves are those of its bag; who makes a field single cuts only rows that had a value, and writes links only for rows that it still holds. That the bag itself may be an old one does not matter to the links, and section 3 shows what it does to the history |
| `GridTyped`, `GridIsTrue` | `GridConstants =>` `(GridSpec => [](RecordsTypeOK /\ GridTypeOK))`, `(GridSpec => [](ReferencesAreLinked /\ GridShowsStored))` | `GridInv`: `RecordsInv`, for the steps of the grid's requests are steps of `RecordFields`, and `Carries`: beside the one edit under way the cells show what is stored, and what it would be taken back to is stored until the server writes. Where edits overlap, answers are lost or cells are replaced, `GridShowsStored` makes no claim: section 3 |
| `ContactsTyped`, `PhonesStayInOrder` | `ContactConstants =>` `(ContactsSpec => []ContactsTypeOK)`, `(ContactsSpec => []PhonesInOrder)` | `OrderInv`, by where a transaction is. Up to its shift it keeps the place of its one row, adds one behind the last or drops one (`Keeps`, `Adds`, `Drops`), and then the rows it sees have as many places as there are rows; from the shift on every row is its own (`OwnsAll`), so nobody else has written one, and what it found when it looked is still what it sees (`Found`); who changes a row that went meanwhile changes nothing (`Missed`). No two write one row, and none that adds has the place of another that adds: the unique index makes the later of two wait, and fail. That an order of the rows it sees gives each place once is a fact of finite sets and a strict order (`OrderOrders`, `OrderFills`). Where phones are added beside removals, and for addresses, the property makes no claim, and section 3 shows why |
| `NoticesTyped`, `NoticesGoOnStanding` | `NoticeConstants =>` `(NoticesSpec => []NoticesTypeOK)`, `(NoticesSpec => []NoticesStand)` | `NoticeInv`: it says of the committed cards, and of the rows each fan-out sees with its own, that none doubles another (`Apart`), that the bundles within each stretch of time are capped for each reader (`Capped`), and that whoever the fan-out has passed was told (`IsTold`). What makes these two views agree when one commits: a row is written under the advisory lock of its reader, or by the one transaction that is about its event (`Busy`), no two have a lock or an event in common (`AreApart`), and a card that somebody folded into goes on in what he wrote of it (`Follows`). So a card that could be doubled, or a bundle that would be one too many, is seen by who could do it |
| `ObjectTyped`, `RecordsGoOnStanding` | `GridConstants => (ObjectSpec => [](RecordsTypeOK /\ GridTypeOK))`, `ContactConstants /\ GridConstants /\ NoticeConstants =>` `(ContactsSpec /\ ObjectSpec /\ NoticesSpec => []RecordsStand)` | the three above for components that share no state; `ObjectSpec` are the records, with the grid or with other requests, whose invariant (`ObjectInv`) is `RecordsInv` and, with the grid, `GridInv` |

Proofs are one lemma per group of actions, then an induction step that cites
them; temporal reasoning is left to the last step of a theorem. Each inductive
invariant was model-checked before it was proved.

What stays with TLC:

- everything about liveness (fairness and `ENABLED` are out of the provers'
  reach);
- what is refuted, in section 3.

No module declares a recursive operator.

## 6. What is left out, and why

- Reads, formatting, authorization beyond the roles that decide an outcome,
  logging and analytics: not part of what the properties tell apart.
- The text of the TwiML, of a transcript, of a message, of a comment; how a
  provider answers is a choice between success, a transient and a permanent
  failure.
- Rows that are deleted with their organization while a job runs.
- The unique indexes are part of a model where the code lets them decide (one
  row per mailbox and message key, one entry per record of a list, one phone per
  position). Where the code's own lock has to do it, as for the one active
  greeting, the index behind it is left out, so that a run shows the lock
  suffices.
- The creation of a draft and the cap on open ones, a reload of the page, the
  switch to another organisation; templates, signatures and the choice of a
  mailbox only fill in what is typed.
- Root comments on a call; the snooze and the reading of a card; the order of the
  saved views in their switcher; the values of a list entry: one transaction
  each, beside nothing that reads them meanwhile.
- Meetings are captured by the same jobs as mail, and are not modelled twice; the
  renewal of push subscriptions only makes a sync start sooner.
- The columns of people, companies and deals, options and unique fields of
  records, imports; reporting, authentication, provider adapters, pages of the
  client other than the dialer, the composer and the grid: wide rows with one
  statement or one transaction per request, data without control, or I/O.
- Known gaps without a property, because nothing in the repository promises
  otherwise. An upload of a voicemail that gives up, the last failed write of a
  voicemail's transcript and a worker that dies in its last attempt each leave a
  row pending. A purchase whose answer was lost (`jobs/provisionNumber.ts:186`)
  retries with a number that is no longer for sale. Settings of capture that were
  saved before a crash start no purge; a consent or a new person whose enqueue was
  lost starts no import and no rematch.
- A write of the database that itself throws in the job that polls the carrier
  (`jobs/reconcileCallerName.ts:101,136`): the job fails and is retried, and after
  its last attempt the name stays as it is.

## 7. Plan

In this order:

1. `JobQueue`: the at-least-once queue as an abstract specification of its own (a
   job is delivered until a delivery returns or the budget is spent), which the
   job variables of `PhoneNumbers` and `Recordings` refine.
2. `CallPromise`: an abstract life of a call (dialed, up, over) implemented by
   `CallLifecycle` but for the late callback that refutes `TerminalIsFinal`.
