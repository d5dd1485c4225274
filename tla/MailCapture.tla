----------------------------- MODULE MailCapture -----------------------------
(* How mail becomes CRM activity: the sync that follows a mailbox's cursor,*)
(* the import of its history, the rematch of mail nobody was known for,    *)
(* and the purge of what the settings exclude.                             *)
(*                                                                         *)
(* Mail is numbered in the order it arrives; the provider's history id is  *)
(* the number of the latest. Each message has one correspondent, who is in *)
(* the CRM or not. A page is read before the transaction that stores it;   *)
(* the transaction looks rows up and then writes them, read committed, and *)
(* locks a row it attaches before it looks at its links.                   *)
(***************************************************************************)
EXTENDS Integers, FiniteSets

CONSTANTS
    MaxMail,       \* messages that arrive at most; a bound
    PageSize,      \* messages in a page of the sync
    MaxSaves,      \* changes of the settings; a bound
    CapInstances   \* [kinds, mail]: the activities that one behaviour has,
                   \* and how many messages arrive in it

CapKinds == {"sync", "import", "rematch", "purge"}
Mail == 1..MaxMail
(* The Message-ID a row is given depends on the job that makes it: the     *)
(* unique key of Email tells the two apart, so a message has two rows at   *)
(* most.                                                                   *)
Paths == {"sync", "import"}
Rows == Mail \X {1, 2}
(* "paging": the pages below a message are left, the delta is to start at  *)
(* seed. "delta": what is after seed.                                      *)
Cursors == [mode : {"none", "paging", "delta"}, below : 0..MaxMail, seed : 0..MaxMail]
NoCursor == [mode |-> "none", below |-> 0, seed |-> 0]

VARIABLES
    capKinds,   \* the activities of this behaviour; never changes
    capMail,    \* the messages of this behaviour; never changes
    arrived,    \* messages in the mailbox
    cursor,     \* MailAccount.mailSyncCursor
    importAt,   \* the message the next page of the import has, 0: complete
    policy,     \* the messages the settings exclude
    saves,      \* changes of the settings so far
    purges,     \* purge jobs: the settings each was queued with
    records,    \* the messages whose correspondent is in the CRM
    rematches,  \* the rematch jobs of new records
    row,        \* Email rows: none, live, or gone (deletedAt)
    key,        \* the Message-ID of the row
    links,      \* the rows that have an ActivityLink to their record
    count,      \* activityCount of the record
    hold,       \* UnmatchedActivity: the row it would make, or "none"
    capWork,    \* job -> what it is in the middle of
    readOnce,   \* messages a stored page has had; history
    cut         \* messages beyond the end of a delta page; history

jobVars == <<purges, rematches, capWork>>
settingVars == <<policy, saves>>
activityVars == <<row, key, links, count, hold>>
historyVars == <<readOnce, cut>>
capVars == <<capKinds, capMail, arrived, cursor, importAt, settingVars, jobVars, records,
             activityVars, historyVars>>

CapWork == [pc : {"idle", "look", "store"}, page : SUBSET Mail, next : Cursors,
            drop : SUBSET Mail, matched : SUBSET Mail, found : SUBSET Rows,
            held : Paths \cup {"none"}, beyond : SUBSET Mail]
Idle == [pc |-> "idle", page |-> {}, next |-> NoCursor, drop |-> {}, matched |-> {},
         found |-> {}, held |-> "none", beyond |-> {}]

RowsOf(m) == {r \in {m} \X {1, 2} : row[r] # "none"}
Keyed(m, path) == {r \in RowsOf(m) : key[r] = path}
NewRowsOf(ms) == {<<m, IF row[<<m, 1>>] = "none" THEN 1 ELSE 2>> : m \in ms}
CapGoes(job, task) == capWork' = [capWork EXCEPT ![job] = task]
Begins(job, task) == job \in capKinds /\ capWork[job].pc = "idle" /\ CapGoes(job, task)
(* findFirst: one row of each message that has one.                        *)
FirstOf(page, found) ==
    /\ \A r \in found : row[r] # "none"
    /\ \A m \in page : Cardinality({r \in found : r[1] = m}) = IF RowsOf(m) = {} THEN 0 ELSE 1

CapInit ==
    /\ \E inst \in CapInstances : capKinds = inst.kinds /\ capMail = inst.mail
    /\ arrived \in 0..capMail
    /\ cursor = NoCursor /\ importAt = arrived
    /\ policy = {} /\ saves = 0 /\ purges = {} /\ rematches = {}
    /\ records \in {{}, {1}} /\ (capKinds = {} => arrived = 0 /\ records = {})
    /\ row = [r \in Rows |-> "none"] /\ key = [r \in Rows |-> "none"] /\ links = {}
    /\ count = [m \in Mail |-> 0] /\ hold = [m \in Mail |-> "none"]
    /\ capWork = [j \in CapKinds |-> Idle]
    /\ readOnce = {} /\ cut = {}

-----------------------------------------------------------------------------
(* attachEmailMatchInTx, on the rows of one transaction. new: rows it has  *)
(* inserted; rekeyed: those it gave the key of path, which no other row of *)
(* the message has; attached: those it links to their record, counted if   *)
(* fresh.                                                                  *)
Attach(new, rekeyed, path, attached) ==
    /\ \A r \in new : Keyed(r[1], path) = {}
    /\ \A r \in rekeyed : Keyed(r[1], path) \subseteq {r}
    /\ row' = [r \in Rows |-> IF r \in new THEN "live" ELSE row[r]]
    /\ key' = [r \in Rows |-> IF r \in new \cup rekeyed THEN path ELSE key[r]]
    /\ links' = links \cup attached
    /\ count' = [m \in Mail |-> count[m] + Cardinality({r \in attached \ links : r[1] = m})]

-----------------------------------------------------------------------------
(* listMessagesSince of Gmail: without a cursor, the latest page, and the  *)
(* history id of now as the seed of the delta; then page by page down;     *)
(* then deltas, each of which moves on to the history id of now.           *)

PageBelow(b) == {m \in 1..(b - 1) : m >= b - PageSize}

Paging(b, seed) ==
    IF b - PageSize <= 1 THEN [mode |-> "delta", below |-> 0, seed |-> seed]
    ELSE [mode |-> "paging", below |-> b - PageSize, seed |-> seed]

Reads(page, next, beyond) ==
    Begins("sync", [Idle EXCEPT !.pc = "look", !.page = page, !.next = next,
                                !.drop = page \cap policy, !.beyond = beyond])

(* syncMailAccount: the settings, the cursor and a page, one after another.*)
(* A delta the provider has forgotten (CursorExpiredError) is read as if   *)
(* there was no cursor.                                                    *)
SyncRead ==
    /\ \/ /\ cursor.mode \in {"none", "delta"}
          /\ Reads(PageBelow(arrived + 1), Paging(arrived + 1, arrived), {})
       \/ /\ cursor.mode = "paging"
          /\ Reads(PageBelow(cursor.below), Paging(cursor.below, cursor.seed), {})
       \/ /\ cursor.mode = "delta" /\ cursor.seed < arrived
          /\ LET end == IF cursor.seed + PageSize < arrived THEN cursor.seed + PageSize
                        ELSE arrived IN
             Reads((cursor.seed + 1)..end, [cursor EXCEPT !.seed = arrived],
                   (end + 1)..arrived)
    /\ UNCHANGED <<capKinds, capMail, arrived, cursor, importAt, settingVars, purges, rematches,
                   records, activityVars, historyVars>>

(* Mutant: a purged row is written again, and is live.                     *)
SyncLookRevives ==
    LET task == capWork["sync"] IN
    /\ task.pc = "look"
    /\ CapGoes("sync", [task EXCEPT !.pc = "store", !.matched = records \cap task.page])
    /\ row' = [r \in Rows |-> IF r[1] \in task.page /\ row[r] = "gone" THEN "live" ELSE row[r]]
    /\ UNCHANGED <<capKinds, capMail, arrived, cursor, importAt, settingVars, purges, rematches,
                   records, key, links, count, hold, historyVars>>

(* Each message's correspondent and its row; a row that was purged is not  *)
(* brought back.                                                           *)
SyncLook ==
    LET task == capWork["sync"] IN
    /\ task.pc = "look"
    /\ \E found \in SUBSET (task.page \X {1, 2}) :
          /\ FirstOf(task.page, found)
          /\ CapGoes("sync", [task EXCEPT !.pc = "store", !.matched = records \cap task.page,
                !.found = found,
                !.drop = @ \cup {m \in task.page : \E r \in found : r[1] = m /\ row[r] = "gone"}])
    /\ UNCHANGED <<capKinds, capMail, arrived, cursor, importAt, settingVars, purges, rematches,
                   records, activityVars, historyVars>>

(* persistMessage of each, and the cursor, in one transaction. A row that  *)
(* was found is written over, its Message-ID too.                          *)
SyncStore ==
    LET task == capWork["sync"]
        kept == task.page \ task.drop
        seen == {r[1] : r \in task.found}
        new == NewRowsOf((kept \cap task.matched) \ seen) IN
    /\ task.pc = "store"
    /\ Attach(new, {r \in task.found : r[1] \in kept}, "sync",
              new \cup {r \in task.found : r[1] \in kept \cap task.matched})
    /\ hold' = [m \in Mail |-> IF m \in kept \ (task.matched \cup seen) THEN "sync" ELSE hold[m]]
    /\ cursor' = task.next
    /\ readOnce' = readOnce \cup task.page /\ cut' = cut \cup task.beyond
    /\ CapGoes("sync", Idle)
    /\ UNCHANGED <<capKinds, capMail, arrived, importAt, settingVars, purges, rematches,
                   records>>

-----------------------------------------------------------------------------
(* mailBackfillJob: one page, one message here; no settings. The next page *)
(* is queued after the transaction, or this job is delivered again.        *)

ImportRead ==
    /\ importAt > 0
    /\ Begins("import", [Idle EXCEPT !.pc = "look", !.page = {importAt}])
    /\ UNCHANGED <<capKinds, capMail, arrived, cursor, importAt, settingVars, purges, rematches,
                   records, activityVars, historyVars>>

ImportLook ==
    LET task == capWork["import"] IN
    /\ task.pc = "look"
    /\ \E found \in SUBSET (task.page \X {1, 2}) :
          /\ FirstOf(task.page, found)
          /\ CapGoes("import", [task EXCEPT !.pc = "store", !.matched = records \cap task.page,
                                         !.found = found])
    /\ UNCHANGED <<capKinds, capMail, arrived, cursor, importAt, settingVars, purges, rematches,
                   records, activityVars, historyVars>>

(* No match: held, whether or not it has a row. A row: left as it is.      *)
ImportStore ==
    LET task == capWork["import"]
        new == NewRowsOf(task.matched \ {r[1] : r \in task.found}) IN
    /\ task.pc = "store"
    /\ Attach(new, {}, "import", new)
    /\ hold' = [m \in Mail |-> IF m \in task.page \ task.matched THEN "import" ELSE hold[m]]
    /\ importAt' = importAt - 1
    /\ CapGoes("import", Idle)
    /\ UNCHANGED <<capKinds, capMail, arrived, cursor, settingVars, purges, rematches, records,
                   historyVars>>

-----------------------------------------------------------------------------
(* POST people, companies: a record, and the job that looks for its mail.  *)
RecordCreated(m) ==
    /\ "rematch" \in capKinds /\ m \in 1..arrived \ records
    /\ records' = records \cup {m} /\ rematches' = rematches \cup {m}
    /\ UNCHANGED <<capKinds, capMail, arrived, cursor, importAt, settingVars, purges,
                   activityVars, capWork, historyVars>>

(* rematchMailActivityJob: the hold and the recent rows, outside of the    *)
(* transaction; rows that were purged are among them.                      *)
RematchRead(m) ==
    /\ m \in rematches
    /\ Begins("rematch", [Idle EXCEPT !.pc = "store", !.page = {m}, !.held = hold[m],
                                      !.found = RowsOf(m)])
    /\ UNCHANGED <<capKinds, capMail, arrived, cursor, importAt, settingVars, purges, rematches,
                   records, activityVars, historyVars>>

(* createHeldEmailInTx finds a row by the Message-ID of the hold, or makes *)
(* it. The job may be delivered again after it has committed.              *)
RematchStore ==
    LET task == capWork["rematch"]
        held == {m \in task.page : task.held # "none"}
        new == NewRowsOf({m \in held : Keyed(m, task.held) = {}}) IN
    /\ task.pc = "store"
    /\ Attach(new, {}, task.held, new \cup task.found \cup UNION {Keyed(m, task.held) : m \in held})
    /\ hold' = [m \in Mail |-> IF m \in held THEN "none" ELSE hold[m]]
    /\ rematches' \in {rematches, rematches \ task.page}
    /\ CapGoes("rematch", Idle)
    /\ UNCHANGED <<capKinds, capMail, arrived, cursor, importAt, settingVars, purges, records,
                   historyVars>>

-----------------------------------------------------------------------------
(* PATCH settings/capture: an exclusion that is added queues a purge with  *)
(* the settings as they are then; one that is removed changes nothing else.*)
Exclude(m) ==
    /\ "purge" \in capKinds /\ saves < MaxSaves /\ m \in 1..capMail \ policy
    /\ policy' = policy \cup {m} /\ saves' = saves + 1
    /\ purges' = purges \cup {policy'}
    /\ UNCHANGED <<capKinds, capMail, arrived, cursor, importAt, rematches, records,
                   activityVars, capWork, historyVars>>

Allow(m) ==
    /\ "purge" \in capKinds /\ saves < MaxSaves /\ m \in policy
    /\ policy' = policy \ {m} /\ saves' = saves + 1
    /\ UNCHANGED <<capKinds, capMail, arrived, cursor, importAt, jobVars, records, activityVars,
                   historyVars>>

(* capturePurgeJob: the live rows, then each that is still live, with its  *)
(* links and what they counted.                                            *)
PurgeRead(rule) ==
    /\ Begins("purge", [Idle EXCEPT !.pc = "store", !.page = rule,
                          !.found = {r \in Rows : row[r] = "live" /\ r[1] \in rule}])
    /\ UNCHANGED <<capKinds, capMail, arrived, cursor, importAt, settingVars, purges, rematches,
                   records, activityVars, historyVars>>

(* Mutant: a purge that meets a newer version of the settings stands down. *)
PurgeStoreStale ==
    LET task == capWork["purge"]
        gone == {r \in task.found : row[r] = "live" /\ task.page = policy} IN
    /\ task.pc = "store"
    /\ row' = [r \in Rows |-> IF r \in gone THEN "gone" ELSE row[r]]
    /\ links' = links \ gone
    /\ count' = [m \in Mail |-> count[m] - Cardinality({r \in gone \cap links : r[1] = m})]
    /\ purges' = purges \ {task.page}
    /\ CapGoes("purge", Idle)
    /\ UNCHANGED <<capKinds, capMail, arrived, cursor, importAt, settingVars, rematches,
                   records, key, hold, historyVars>>

PurgeStore ==
    LET task == capWork["purge"]
        gone == {r \in task.found : row[r] = "live"} IN
    /\ task.pc = "store"
    /\ row' = [r \in Rows |-> IF r \in gone THEN "gone" ELSE row[r]]
    /\ links' = links \ gone
    /\ count' = [m \in Mail |-> count[m] - Cardinality({r \in gone \cap links : r[1] = m})]
    /\ purges' \in {purges, purges \ {task.page}}
    /\ CapGoes("purge", Idle)
    /\ UNCHANGED <<capKinds, capMail, arrived, cursor, importAt, settingVars, rematches,
                   records, key, hold, historyVars>>

-----------------------------------------------------------------------------
Arrives ==
    /\ capKinds # {} /\ arrived < capMail /\ arrived' = arrived + 1
    /\ UNCHANGED <<capKinds, capMail, cursor, importAt, settingVars, jobVars, records,
                   activityVars, historyVars>>

(* The transaction fails, a unique key is taken or the database is away,   *)
(* and the queue delivers the job again.                                   *)
JobFails(job) ==
    /\ capWork[job].pc # "idle"
    /\ CapGoes(job, Idle)
    /\ UNCHANGED <<capKinds, capMail, arrived, cursor, importAt, settingVars, purges,
                   rematches, records, activityVars, historyVars>>

CapNext ==
    \/ Arrives \/ SyncRead \/ SyncLook \/ SyncStore
    \/ ImportRead \/ ImportLook \/ ImportStore \/ RematchStore \/ PurgeStore
    \/ \E m \in Mail : RecordCreated(m) \/ RematchRead(m) \/ Exclude(m) \/ Allow(m)
    \/ \E rule \in purges : PurgeRead(rule)
    \/ \E job \in CapKinds : JobFails(job)

CapSpec == CapInit /\ [][CapNext]_capVars

(* A job that is queued is delivered until one delivery succeeds, none is  *)
(* given up.                                                               *)
CapFairness == \A m \in Mail :
    /\ SF_capVars(RematchRead(m))
    /\ SF_capVars(RematchStore /\ m \in capWork["rematch"].page)
    /\ SF_capVars(\E rule \in purges : m \in rule /\ PurgeRead(rule))
    /\ SF_capVars(PurgeStore /\ m \in capWork["purge"].page)

-----------------------------------------------------------------------------
(* Each variable keeps its type; a record never counts less than nothing.  *)
CapTypeOK ==
    /\ [kinds |-> capKinds, mail |-> capMail] \in CapInstances
    /\ arrived \in 0..MaxMail /\ cursor \in Cursors /\ importAt \in 0..MaxMail
    /\ policy \subseteq Mail /\ saves \in 0..MaxSaves /\ purges \subseteq SUBSET Mail
    /\ records \subseteq Mail /\ rematches \subseteq records
    /\ row \in [Rows -> {"none", "live", "gone"}] /\ key \in [Rows -> Paths \cup {"none"}]
    /\ links \subseteq Rows
    /\ count \in [Mail -> Nat] /\ hold \in [Mail -> Paths \cup {"none"}]
    /\ capWork \in [CapKinds -> CapWork]
    /\ readOnce \subseteq 1..arrived /\ cut \subseteq 1..arrived

(* A record's activityCount is the number of its links, however sync,      *)
(* import, rematch, purge and their redeliveries overlap: attaching locks  *)
(* the row before it reads its links (crmMatch.ts), and the purge wins it  *)
(* by a compare-and-set (capturePurge.ts).                                 *)
CountsMatchLinks ==
    \A m \in Mail : count[m] = Cardinality({r \in links : r[1] = m})

(* Re-reading a message updates its row: a mailbox has one row of it.      *)
(* Without the import, which gives its rows another key; see the README.   *)
OneRowPerMessage ==
    "import" \notin capKinds => \A m \in Mail : Cardinality(RowsOf(m)) <= 1

(* What the jobs have stored is counted once and stored once.              *)
StoredOnce == CountsMatchLinks /\ OneRowPerMessage

(* The cursor passes over no message: what arrives while the first read is *)
(* paging is in the delta that follows, an expired cursor starts again.    *)
(* Except what a delta page was too short for; see the README.             *)
CursorSkipsNothing == cursor.mode = "delta" => 1..cursor.seed \subseteq readOnce \cup cut

(* A message that was purged never gets a live row again, not from a       *)
(* replay nor after the exclusion was lifted (mailSync.ts). Without the    *)
(* import; see the README.                                                 *)
PurgedStaysGone ==
    \A m \in Mail : "import" \notin capKinds /\ (\E r \in RowsOf(m) : row[r] = "gone")
        => \A r \in {m} \X {1, 2} : row'[r] = "live" => row[r] = "live"

(* Sync, import, rematch and purge at once: nothing that arrived is passed *)
(* over, and what is stored is stored once.                                *)
NothingIsLost == StoredOnce /\ CursorSkipsNothing
MailStands == []NothingIsLost /\ [][PurgedStaysGone]_capVars

(* What the theorems ask of the constants.                                 *)
CapConstants ==
    /\ MaxMail \in Nat \ {0} /\ PageSize \in Nat \ {0} /\ MaxSaves \in Nat
    /\ CapInstances \subseteq [kinds : SUBSET CapKinds, mail : 0..MaxMail]

(* The purge of an added exclusion reaches every row that is live before   *)
(* it begins, also when the settings have changed again since.             *)
PurgeReachesAll ==
    \A r \in Rows :
        (row[r] = "live" /\ capWork["purge"].pc = "idle" /\ \E rule \in purges : r[1] \in rule)
            ~> row[r] = "gone"

(* Mail that is held when the rematch of its correspondent has yet to begin *)
(* becomes activity.                                                       *)
HeldIsAttached ==
    \A m \in Mail :
        (hold[m] # "none" /\ m \in rematches /\ capWork["rematch"].pc = "idle") ~> RowsOf(m) # {}

(* What a person has asked of the mail is done to all of it.               *)
MailSettles == PurgeReachesAll /\ HeldIsAttached

-----------------------------------------------------------------------------
(* What the code says and does not do; TLC refutes each, see the README.   *)

(* queue.ts: "writes are idempotent by mailbox + provider message id".     *)
NeverTwoRows == \A m \in Mail : Cardinality(RowsOf(m)) <= 1

(* mailSync.ts: a replay "must not resurrect a source that was deliberately*)
(* purged".                                                                *)
NeverResurrected ==
    [][\A m \in Mail : (\E r \in RowsOf(m) : row[r] = "gone")
          => \A r \in {m} \X {1, 2} : row'[r] = "live" => row[r] = "live"]_capVars

(* schema.prisma: an exclusion removes the message from every read.        *)
PurgedIsUnlinked == \A r \in Rows : row[r] = "gone" => r \notin links

(* googleMail.ts: every message is read.                                   *)
CursorNeverSkips == cursor.mode = "delta" => 1..cursor.seed \subseteq readOnce

(* mailSync.ts: the hold is for mail nobody is known for.                  *)
HeldIsUnknown == \A m \in Mail : (hold[m] # "none" /\ m \in records) ~> RowsOf(m) # {}
=============================================================================
