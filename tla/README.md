# TLA+ specifications of telephony_data

`telephony_data` is the data service of the telephony subsystem: SIM cards, APN
profiles, operator keys, global network parameters, text and multimedia messages.
Other processes reach it through DataShare URIs; it keeps everything in SQLite
databases (the RDB library) and preference files; a companion extension written in
ArkTS backs up, restores and repairs the message database.  The specifications here
model the parts of it whose correctness depends on the order of steps: which database
file is in use, what a transaction left open does, statements of two threads falling
between each other, crashes, and storage operations that fail.

Source paths are relative to `src/`.  Line numbers of every definition are in
`PROJECT.json`, `map`.

## 1. The system

### 1.1 Components

| Component | State it keeps | Operations | Specification |
|---|---|---|---|
| Message store selection and migration: `sms_mms/src/rdb_sms_mms_helper.cpp` (`Init`, `MoveDbFileToEl2`, `HandleFile`, `BackupEl1ToEL2`, `CreatSql`, `ChangeStoreToEl5AndMoveData`), `rdb_sms_mms_base_helper.cpp`, `sms_mms_observer.cpp`, `sms_mms_ability.cpp` (`DoInit`) | three database files (EL1 `sms_mms.db`, EL1 `sms_mms_el1.db`, EL2 `sms_mms.db`), four handles, the preference `move_to_el2_result` and a global that mirrors it | start-up, migration, the switch at the first unlock, Insert and Delete on the current store | `SmsStoreMigration` |
| Sessions, messages and parts: `sms_mms_ability.cpp`, `rdb_sms_mms_helper.cpp`, triggers of `rdb_sms_mms_callback.cpp` | tables `session`, `sms_mms_info`, `rcs_info`, `mms_part`, `sms_mms_favorite` | insert, update, delete, BATCH_MARK_READ, SINGLE_MARK_READ, DELETE_SESSION, CLEAN_INVALID_SESSION | `SmsSession` |
| SIM cards: `sim/src/sim_ability.cpp`, `rdb_sim_helper.cpp`, transactions of `common/src/rdb_base_helper.cpp` | table `sim_info`, the transaction stack of the connection | insert, delete, SET_CARD | `SimDefaultCard`, `DefaultCardRegister` |
| SIM schema: `sim/src/rdb_sim_callback.cpp` | schema version | creation, ALTER TABLE per version | `SchemaUpgrade` |
| APN profiles: `pdp_profile/src/*` | table `pdp_profile`, preferences for the file checksum of an operator and the preferred APN of a card | INIT (BatchInsert), insert, update, delete, RESET, SET_PREFER; creation and upgrades of the store | `ApnProfile`, `SchemaUpgrade` |
| APN password encryption: `apn_encryption_util.cpp`, `pdp_result_set_bridge.cpp` | a key in the key store | encrypt on write, decrypt on read, fall-backs | `ApnPassword` |
| Operator keys: `opkey/src/*`, `opkey_version/src/*` | table `opkey_info` filled from a configuration file, its digest | load at creation and on OPKEY_INIT when the digest changed, insert, update, delete; read-only version | `ConfigLoader` |
| Global parameters: `global_params/src/*` | `num_match`, `ecc_data` and their digests | load at creation and at every opening; no edits | `ConfigLoader` |
| Parser and digests: `common/src/parser_util.cpp`, `preferences_util.cpp` | digest and temporary digest of each file | `IsDigestChanged`, `RefreshDigest`, `ClearTempDigest` | `ConfigLoader` |
| DataShare dispatcher: `common/src/telephony_datashare_stub_impl.cpp` | one pointer and one mutex per ability | dispatch by URI, lazy creation, change notification | `MessageRequests`; observers not modelled |
| Message schema: `rdb_sms_mms_callback.cpp`, `sms_mms_tables.cpp`, `rdb_sms_mms_base_helper.cpp` | schema version, the backup beside the store | creation, upgrade chain, repair and backup in `OnOpen`, restore of a rebuilt file | `SchemaUpgrade`; triggers in `SmsSession` |
| Retry and batch insert: `sms_mms_ability.cpp`, `rdb_sms_mms_helper.cpp` | `lock_`, a transaction of the current store | `InsertRetry`, `ProcessRdbUpdate`, `Delete`, `BatchInsertSmsMmsInfo` | `MessageRequests` |
| Backup and restore extension: `entry/src/main/ets/backup/**` | the same files and flag, from another process; maps from old to new ids | `onBackupEx`, `onRelease`, `onRestoreEx`, copying of sessions, messages, RCS messages, parts, favourites | file operations in `SmsStoreMigration`; sessions, messages and RCS messages in `NextCopy`; parts, favourites and the copies from other systems (`DbHelper`) not modelled |
| Rollback backup: `entry/.../backup/rollback/*` | copied rows | batch copy on an upgrade that may be rolled back | not modelled |
| Work scheduler: `entry/.../WorkScheduler/*` | none of its own | deletes a broken EL1 file, backs up or restores EL2 after an integrity check | not modelled |
| Compression, audit, notification: `rdb_sms_mms_util.cpp`, `zip_util.cpp`, `hi_audit` | files outside the databases | input and output | not modelled: nothing above depends on it |

### 1.2 How they interact

* A client call enters `TelephonyDataShareStubImpl` on a binder thread.  The URI selects
  an ability, created on first use under a mutex of its own.  An ability checks the
  permission, checks `IsInitOk`, takes its `lock_` for Insert, Update and Delete (not for
  Query, INIT of APNs or the mark-read requests) and calls its helper.
* Each helper has one RDB connection.  `BeginTransaction`, `Commit` and `RollBack` act on
  that connection, hence on whatever transaction is open on it, whoever opened it.
* `PreferencesUtil` changes a value in memory and flushes the file asynchronously.  A crash
  in between brings back the old value; another process reads only what was flushed.
* The message ability registers an observer with the common event service after `DoInit`
  returned; the event of the first unlock makes `ChangeStoreToEl5AndMoveData` replace
  `store_` while binder threads use it.
* The backup extension runs in its own process and touches the same three files and the
  same flag with no lock in common with the data ability.

### 1.3 What is hard in it, and what makes it correct

Every hazard is listed in `PROJECT.json`, `hazards`, at the line where it bites.

* *Store selection.*  Several steps on several files with a flag flushed late, two
  processes, crashes and reboots anywhere.  Correct when no acknowledged message is lost,
  no deleted message returns, SUCCESS on disk is never ahead of the copy, and clients
  always write to the one store of record.
* *Sessions.*  Requests of several SQL statements without a transaction, some without the
  lock, triggers that recount.  Correct when the counter never hides an unread row, no
  message is left without its session, and a part a favourite refers to is kept.
* *Default cards.*  A two-statement change in a transaction whose early returns skip the
  RollBack.  Correct when there is at most one default of a kind, a confirmed default
  survives, and success means what the header says.
* *APN profiles.*  INIT without the lock against RESET with it, on one connection; rows
  deleted outside the transaction that reloads them; a checksum that says "loaded".
  Correct when a recorded checksum implies the profiles of that file are on disk, and when
  edits by the user survive reloads.
* *Configuration loading.*  Digest before load, promotion after.  Correct when a digest on
  disk implies the rows of that file are on disk too.
* *Dispatcher.*  Lazy creation from several threads, an unsynchronised first test in
  `GetOpkeyVersionAbility`, a test of what the ability returned that means another thing for
  each call.  Correct when all calls are given one ability and no change goes unannounced.
* *Upgrades.*  Some hundred statements outside any transaction, failures that are only
  logged, steps that decide by what an earlier attempt left, a backup that may be older
  than the code.  Correct when whatever did not fail is there at the end, rows are moved
  once, and a damaged store comes back from its backup with all it held.
* *APN passwords.*  A key that any failing look-up replaces, fall-backs that store nothing,
  queries that decide by a column clients set.  Correct when a profile shows its own
  password or none, and none a client gave is in the table in the clear.
* *Restoring a backup.*  Rows are merged into a live store, page by page, over snapshots of
  it, with per-row failures swallowed, updates nobody waits for, restarts from nothing.
  Correct when nothing is there twice however often it is repeated, sessions are found by
  number, no group is mixed with another, old drafts stay, counters end right, and the report is honest.
* *Retries and batches.*  A request pauses and repeats its statement under `lock_`; a batch
  spans a change of `store_`; a mark-read falls between the statements of a batch.  Correct
  when a batch is there whole or not at all, what was confirmed stays, nothing is there
  twice, no transaction is left behind, and every call is answered.

## 2. Plan

Most important behaviour first.  "Done" modules are described in section 3.

| # | Module | Composes / refines | Runs and bounds | Theorems |
|---|---|---|---|---|
| A | `SmsStoreMigration` (done) | data ability, observer, extension in one state | 2 messages, 2 faults | done: types and four safety properties |
| B | `SmsSession` (done) | the abilities' threads over one database | 2 runs, see 3.2; larger instances (two overlapping markings) are left to the proofs | done: types and all four properties |
| C | `SimDefaultCard` (done) | refines `DefaultCardRegister` | 2 cards, 2 kinds, 2 faults | done: types, two properties, refinement |
| D | `ApnProfile` (done) | INIT, RESET and edits on one connection | 1 operator, 2 file versions, 2 threads, 1 fault | done: all three properties |
| E | `ConfigLoader` (done) | opkey and global parameters over one preference file | one store at a time, 2 contents, 2 faults; see 3.6 | done: types, digest implies rows, a clean load loads |
| F | `SchemaUpgrade` over `SchemaSteps` (done) | creation, upgrade, repair, backup and restore of three stores | versions as in the source, 4 messages, 1 fault and 1 damage; see 3.7 | done: all six properties |
| G | `MessageRequests` (done) | stub, ability, retry, batch and the switch of `store_` of A | 2 threads, 2 rows, 2 calls, 2 faults; see 3.8 | done: all but liveness |
| H | `ApnPassword` (done) | client, table and key store | 2 rows, 3 passwords, 2 faults; see 3.9 | done: types and all three properties |
| I | `NextCopy` (done for sessions, messages, RCS messages) | the extension beside the data ability | 1 backup, 2 stores, 2 restores, 2 troubles; see 3.5 | done: all eight properties |
| J | parts and favourites of a restore, `DbHelper`, rollback, `WorkScheduler` | | left; see section 7 | |

Modules to be proved about use recursive functions or folds, never a recursive operator.

## 3. The modules and what the runs show

### 3.1 `SmsStoreMigration`

Files are the members of `files`; `rows[f]` is the set of messages in file `f`.  `orphan`
is the EL1 file after another process has unlinked it under an open handle.  `prefMem` and
`prefDisk` are the flag as this process reads it and as flushed.  `pc` walks through
`RdbSmsMmsHelper::Init` one storage operation at a time (`backup`, `copy`, `delete`,
`save` are `HandleFile` and `BackupEl1ToEL2`; `openEl1`, `openLt`, `openEl2` the opening of
stores); handlers that touch one resource are one action.  Each storage operation has a
parameter `ok`; a failure costs one of `MaxFaults`.  `Crash(reboot)` may happen between
any two steps.  `Subscribe`, `Mount` and `OnMounted` are the observer and the first unlock,
which may come at any time, also in the middle of `Init`.  The actions from
`CopyEl2ToEl1ForClone` on belong to the extension.

*Exposures.*  Three things undermine the flag, and `exposed` remembers them: a crash that
leaves `FAIL` or the default on disk while EL2 is already in use, a preference file that
cannot be read (`ObtainInt` then answers the default), and a restore that migrates on its
own without saving the flag.  Behind an exposure the next start may copy an old or empty
EL1 over EL2; the properties are stated for behaviours before one.  The exposures are kept
in the model, are reachable, and are not assumed away: the list is the result.

| Run | Properties | Shows |
|---|---|---|
| `migration` | `NoAckedLost`, `NoResurrection`, `DurableSuccessMeansMoved`, `OneStoreOfRecord`, `UnlockSwitchesStore` | two messages (one present before, one that arrives while files are mixed, or both at once) and two faults (one per phase of a migration and its repetition); once faults have run out, an announced unlock moves a process from the temporary file to EL2 |
| `missed_mount` | `StartedLockedReachesEl2` | a comment of the source that the code does not do; see section 6 |

*Fairness* (`FairSpec`).  Weak fairness of the steps of `Init`, of the subscription and of
the handler of the event: the first two are straight-line code of a running thread, the
third is a delivery the common event service makes.  Nothing is assumed of unlocks,
flushes, clients or crashes.

### 3.2 `SmsSession`

`rows` holds the two message tables, `unread_count` the counter of each session.  `Put` is
an insert or update together with the trigger it fires (the triggers fire for unread rows
and recount both tables; they count blocked rows as well; deletes have no trigger).
Clients' single-statement requests are one action each and need `Free`, i.e. that no
DELETE_SESSION holds `lock_`.  DELETE_SESSION is seven actions, each of which may fail and
ends the request.  Each member of `Readers` is a thread with a mark-read request, which
holds no lock: its statements fall between everything else.

*Abstractions.*  Telephone numbers are sessions: a batch marking names one session, the
notices or all.  Adding a favourite, in the code an insert into `sms_mms_favorite` and
updates of the parts and of `is_collect` sent by the client, is one action.  A client does
not insert a message with an id whose parts or favourite exist already.  Left out are two
generic calls of a client: a delete of a row of `session` itself
(sms_mms_ability.cpp:1019), which would leave its messages as DELETE_SESSION never does, and
an update that sets `unread_count`.

*History variables.*  `raced` marks sessions which got an unread row between the two halves
of a marking; the counter of such a session does hide the row until the next recount.
`dropped` marks sessions CLEAN_INVALID_SESSION deleted, `strays` rows that appeared when
their session was already gone, `chargedBefore` favourites' parts that an earlier
DELETE_SESSION had decremented already.  Each is an order of calls the code does not
exclude, reachable in the model.

| Run | Constants | Properties |
|---|---|---|
| `session` | 2 sessions (one a notice), 1 RCS message, 1 reader, 1 failing statement | `UnreadNotUndercounted`, `NoOrphanMessage`, `NoOrphanRcs` |
| `session_parts` | 1 session, 2 messages, 2 parts, 1 failing statement | `FavoritePartKept` |

Two sessions tell a covered one from another; one reader overlaps with every client and
with DELETE_SESSION; a part of an RCS message and one of an MMS message exercise both keys; one failure is enough
to stop a request half-way and let it be sent again.  The theorems of section 4 cover every
number of each.

### 3.3 `SimDefaultCard` and `DefaultCardRegister`

`view` is the table as the connection sees it, `disk` as a crash leaves it, `stack` the
tables that the open transactions found.  `SET_CARD` is the actions `SetCard`,
`BeginTransaction`, `UpdateCardStateByType`, `SetFlag`, `Commit`, `RollBack`; Insert and
Delete of a card happen between calls because they share `lock_`.  Whether the RDB library
lets transactions nest is not in this repository; `nests` is chosen at the start and every
property holds for both answers.  `DefaultCardRegister` is the promise: a register of one
card or none per kind which changes for one kind at a time.  `Default(disk)` maps the table
to it, so `RegisterSpec` says that on disk clearing and setting are never seen apart.

`default_card` checks `AtMostOneDefault`, `AckedDurable` and `RegisterSpec` for two cards, two kinds, two faults and one transaction left open when a
call begins (two open at once inside the call).  Two cards and kinds are needed for a wrong
card or kind to be visible; two faults give a failing commit with a failing rollback.

`MaxOpen` bounds only how many transactions are open when a call starts.  Card ids are not
reused because the column is AUTOINCREMENT.

### 3.4 `ApnProfile`

`view` holds the tables `pdp_profile` and `temp_pdp_profile` as the one connection sees
them, `disk` as a crash leaves them, `stack` what each open transaction found; `nests` is
as in 3.3.  A row is an id, an operator key, a profile and where it comes from: a version
of the operator's file, or `User` for `edited_status` 1.  `pref` is the checksum of an
operator's file and the preferred profile id of its card, `prefDisk` the same as flushed.
A checksum is a version of the file: a system update (`Crash(TRUE)`) brings the next one.

Each member of `Threads` may be in INIT (`InitAPNDatabase` of one slot, no lock), in RESET
of one operator (`ResetApn`, `DeleteOpkey`, then the same load as INIT) or in RESET of
everything (`ResetApnAll` to `RenameTable`); the last two exclude each other and the
clients' edits by `lock_` (`Free`).  `BeginTransaction`, `ClearData`, `Insert`, `Commit`
and `RollBack` are shared by the three, and every statement of a thread falls into
whatever transaction is open, whoever opened it.  Each may fail, at most `MaxFaults` times;
what cannot succeed (a table is missing, a transaction does not nest, none is open) fails
for free.

*Abstractions.*  A card stands for its operator key.  The UNIQUE columns are the operator,
the profile and `edited_status`.  INIT compares the checksum and reads the file in one
step; where the file cannot be read nothing happens.  Client updates are those that set
`edited_status`, of one row at a time; one that breaks UNIQUE is refused.

*History variables.*  `edits` are the edited profiles clients were told of while no
transaction was open.  `taken`, in a table, are entries of a file that clients changed or
deleted since it was loaded.  `exposed` remembers what undermines two of the properties;
each cause is reachable and each one is necessary, i.e. without it TLC finds the property
violated:

* the checksum no longer means "loaded" after the insert of an entry or `ClearData` failed
  (both results are ignored), after a RESET of one operator failed or died once its rows
  were gone, after INIT and RESET of everything overlapped (the lock is not taken by INIT),
  after `DeleteProfiles` failed, and after a transaction began inside another one;
* the preferred id may denote another profile after `DeleteProfiles` failed in a RESET of
  everything, and when it was chosen among rows that are rolled back later.

| Run | Properties | Shows |
|---|---|---|
| `apn` | `EditsSurvive`, `ChecksumMeansLoaded`, `PreferredIsChosen` | two threads in any of the three operations, edits, a crash or an update anywhere, one failure; no cause excuses the loss of a confirmed edit |

Two threads are the least that overlap; two versions give a file that changes; two ids are
an entry of the file and an edited row, or the same entry loaded twice; the theorems below
cover every other size.

### 3.5 `NextCopy`

`old` is the backup as three sequences, in the order of their ids; `session`, `sms` and
`rcs` are the tables of the new phone, `seq` their AUTOINCREMENT counters.  `pc` names the
table being copied or the step of the clean-up after it, `pos` the next row, `todo` what
the step has planned and not yet written.  `mem` holds what `NextDbHelper.ets` keeps in
module-level maps and instance fields: the snapshots read before each table, the maps from
old to new ids and groups, `SESSION_DROP_DRAFT`, the counts reported.  `pending` are the
`updateSms` calls issued without `await`.

One row is one action: `MergeSession` and `InsertSessionItem`, `QueryMmsTable`,
`QueryRcsTable` with `GetSmsMmsInfoItemFromRcsInfo`.  An operation may return -1 (the row is
counted as failed), a query may fail and then reads as empty, an exception ends a page
(`PageFails`), and the extension may die (`Crash`).  `UpdateSms` is an update that was not
awaited; it runs at any later time, or never.  `StartDrafts` to `UpdateSessionMsgCount` are
the clean-up.  `Receive` is the data ability, which inserts a message it received, between
any two steps; the triggers of the store run with every insert.

*Abstractions.*  A message is known by its key (number, direction, time), the only thing
the code compares.  A telephone number is a model value of which only the last seven digits
are told apart (`LastDigits`).  Content columns are left out.  The two updates that a
matched session may need are one step, of which one may fail.  Each restore is a new
process, so its maps are empty; the offsets of the preference file are read but nothing in
this repository saves them, so paging starts at 0.  Sessions are not deleted meanwhile, and
a received message has a time of its own.  `WellFormed` says what a phone's store satisfies:
one session for a telephone, unique keys, no time after `Now`, ids without gaps (that the
counters start at the greatest id is all that matters).  `WellFormedBackup` adds for
the old phone that `has_draft` is right and that an RCS row belongs to one message at most,
the one of its key; of the groups nothing is assumed.  What both phones have is
a draft on both or on neither, and is in a session of its receiver on both
(`DraftAssumption`).

The code adds `failCount` to `mmsFailed` at the end of a page (NextDbHelper.ets:1701), the model
at each failure: they differ when an exception ends the page, which sets `err` in both.

*Groups.*  RCS messages are grouped by their old group, all others by `start_time` alone
(NextDbHelper.ets:1662-1694), whatever group they were in.  `GroupsKept` says just that: copied
messages share a group exactly if one restore copied them as one `Sending`, an RCS group or
a time.  A message to several receivers therefore stays one if its rows have one time, as rows
sent at once do; unrelated messages of one time are merged, and a group of different times
is split.  Nobody else is drawn in: no message of another restore, none the new phone had
before, none received while no restore was under way.  A message received meanwhile may be,
since the greatest group is read once: from then on received messages are excused
(`ReceivedMeanwhile`), and all others still keep apart.

*What the properties leave out.*  An RCS row without a message is given one by each restore
that meets it, so two such messages may have one key; and one such may stand beside a message
of its key that the new phone had, or after a failure beside any.  `NoDuplicateMessage`
excuses these and nothing else.  `RcsLinked` and `ReportHonest` leave out drafts, which the
clean-up may delete.  `OldDraftKept` leaves out
(`MergedAlone`) sessions that another old session became as well, which is the finding of
section 6, and those whose last digits another session has.  There a second restore may
merge the old session into the other of the two (`sessionMap.keys()` has no fixed order,
which the model leaves open), and the draft that the first one copied is found by its key and
stays where it is.

*History variables.*  `flaws` holds `failed`, the restores in which an operation failed;
`blind`, whether a query read as empty; `late`, whether a message was received before the
copying had ended or opened a session; `stale`, the sessions written after their counters
were.  Rows of `sms` carry the old row and the restore they came from (`from`, `run`).
Each property excuses no more of these than it needs.  Two hazards are thereby shown, not
excluded: after a query that read as empty messages, sessions and groups may be there twice
(`NoDuplicateMessage`, `OneSessionPerTel` and `GroupsKept` stop at `blind`; `MessageInItsSession` and
`ReportHonest` hold all the same), and a message received meanwhile may share the group of
a restored one.

| Run | Properties | Shows |
|---|---|---|
| `next_copy` | `NoDuplicateMessage`, `OneSessionPerTel`, `MessageInItsSession`, `GroupsKept`, `RcsLinked`, `OldDraftKept`, `CountsRight`, `ReportHonest` | the same backup restored up to twice, two troubles (failures, crashes, exceptions, received messages) anywhere |
| `next_copy_draft` | `EveryOldDraftKept` | a comment of the source that the code does not do, without any trouble; see section 6 |

Two restores are the least that repeat; two troubles leave one restore half done and
disturb the next one.  The backup and the stores of `MCNextCopy` hold a session with the same number, one with the
same last digits only, drafts on both sides of one conversation, a message of the backup
that is there already, an RCS message, a sending to two receivers, a message stuck in
sending that has the same time but another group, a draft of another time in the group of
that one, an RCS row without a message, and a counter that was wrong before.

### 3.6 `ConfigLoader`

Two stores, `global_params` with the tables `num_match` and `ecc_data` and `opkey` with
`opkey_info`.  A table maps each entry, i.e. each value of the UNIQUE columns, to its row:
missing, of a content of the file, changed or deleted by a client.  `view`, `disk`, `open`
and `nests` are as in 3.3; `pref` and `prefDisk` hold a digest and a temporary digest per
table, all in one preference file.  A digest is the content it was computed from.

`DoInit` opens a store, which queues the loads of `OnCreate` (if its creation is not
durable) and of `OnOpen`; `InitOpKeyDatabase` is OPKEY_INIT.  A load is `Parse` (the digest
is compared, the file read, for global parameters the temporary digest stored),
`ClearData`, `BeginTransaction`, `Insert` or `BatchInsert`, `Commit`, `Save` (the digest is
promoted or stored).  Each may fail.  The two kinds of load differ in the code as they do in
the actions: global parameters ignore the result of every insert and drop the temporary
digest on an error; operator keys stop at the first error; neither rolls back.
`EditOpKey` is a client's edit, excluded from loads by `lock_`; the global parameters
refuse edits.  `Flush` writes the preferences some time later; `DeleteProfiles` is the part
of a RESET of all APN profiles that deletes the file, digests of other tables included;
`CustChanged` gives a table another file, as the parameters of the operator's directory and
an update do, also back to an earlier content; `Crash` may come anywhere.

*Abstractions.*  A preference is changed in memory without fail; only its flush may be
lost.  Promotion (store the digest, drop the temporary one) is one step.  A file does not
change while it is being loaded.  That the version of a store is set after `OnCreate`, and
becomes durable with the open transaction, is how the RDB library is used here.

*History variables.*  `broken[t]` are the digests that no longer mean "loaded" for `t`: those
on record when a load fails after its `ClearData`, or dies, and the one of a load that
inserts only some rows or begins inside a transaction left open; what a crash undid; what a
load of `OnCreate` finds on record and does not replace.  Each is reachable and needed.
`clean` says that nothing failed since the loading of a store began.

`config_loader` checks `DigestMeansLoaded` and `CleanLoadLoads`, for
one store or the other, one entry, two contents alternating, two faults and one
transaction left open.  The two stores share no table, connection or digest, and the
deletion of the digests is there for each; one fault leaves a transaction open or a load
half done, the second disturbs the load that follows; the theorems cover every size, and
both stores at once.

### 3.7 `SchemaSteps` and `SchemaUpgrade`

`SchemaSteps` lists the statements of the creation and of every version step of the three
stores that have any: what each makes (a table, a column, an index or a trigger), what it
needs and what it drops.  `SchemaUpgrade` opens one store: `Open` finds a file of some
version or a damaged one, `OnCreate`, `VersionUpTo` and the four steps with data of their
own (`VersionUpToTwelve` with `RcsInfoInsertSmsMmsInfo`, `CreateFavoriteTable` with
`GetHistoryFavoriteItem`, `VersionUpTo26`, `PdpUpToFour`) run, `SetVersion` is what the RDB
library does after the callback; `OnOpen` then looks for missing columns and tables of a
message store, makes them and backs the store up, and `TryRestore` replaces a rebuilt store
by its backup.  A function with `n` statements is one action: it runs some of them, one may
fail, and the process may die behind any (`Outcomes`).  No statement is in a transaction, so
that what ran stays.

*Abstractions.*  Columns that every release has, types and default values are left out.  A
message is in `sms_mms_info` never, once or more than once (`Count`).  The file of an earlier
release has that release's schema.  A message received later is one row, or a pair of rows
where it is an RCS message; the pair cannot be inserted into a store without the column
`rcs_id`, which an old backup restored in place is (`Receive`).

*History variables.*  `failed` and `unrepaired` hold what a failing statement should have
made; `saved` the messages a backup held and nobody removed; `flaws` the misfortunes behind
which a property is not stated: step 12 died or failed in its copying, or a query answered
"no such column"; the favourites could not be read; the rebuild was not followed by the
restore; something of a new store had to be repaired; the backup of an upgraded store was
not made; step 26 could not delete the messages of no session.

`schema_upgrade` checks `SchemaComplete` (an open store has all its release
promises except what a statement failed to make), `RcsListedOnce`, `FavouritesCarriedOnce`,
`OpenStoreCurrent`, `BackedUpNotLost` and `BackedUpServed`: files of the
releases before each step with data, two that an upgrade left half done, the SIM and APN
stores, one failure or death anywhere and one damage to the file on top.  One failure is
enough because a step never undoes another one: what fails is missing until `OnOpen`
repairs it, and a second death only shortens the same sequence once more; the
theorems, on all six properties, hold for any number and for every release.

### 3.8 `MessageRequests`

Each member of `Clients` is a binder thread with one call at a time.  `pc` walks through the
stub and the ability: `FindVersionAbility`, `LockVersion` and `CreateVersionAbility` are the
double test of `GetOpkeyVersionAbility`; `Check` the permission, the URI and `IsInitOk` with
the `DoInit` it may run; `TakeLock` and `Return` the scope of `lock_`; `Run` a statement with
the retry of `InsertRetry`, `ProcessRdbUpdate` and `Delete`, `Wake` the end of the pause;
`Begin`, `InsertNext`, `Commit`, `RollBack` the batch insert, whose transaction is on
whatever `store_` is at each of its statements; `NotifyChange` the announcement.  A mark-read
takes no lock.  `ChangeRdbStoreToEl2` is the unlock, `Crash` the death of the process, both
anywhere.  Statements are atomic because `RdbSmsMmsBaseHelper` holds a mutex for each.

*Abstractions.*  A row is a number of copies and a read flag.  The rows of an insert are
new.  An operation of a call answers `ok`, one of the six codes that are retried, or another
one.  What happens in the databases at the unlock is in `SmsStoreMigration`; the sessions in
`SmsSession`.

*History variables.*  `acked`, `marked` and `gone` are the rows for which the code was told
that they were inserted, marked or deleted; a mark-read inside another call's transaction
does not count, it shares that call's fate.  `spoiled` says that a transaction was left open,
by the unlock in the middle of a batch (its commit then reaches the other file) or by a
failing RollBack; what follows on that file is then lost by a crash.  Both are reachable.

`requests` checks `NothingUndone`, `BatchAtomic`, `InsertedOnce`, `OneVersionAbility`,
 `NoSilentChange` and `RequestAnswered`: two threads
overlap, two rows make a batch that can stop half-way, two calls are one of each
thread or two in a row, two faults exhaust `RETRY_TIMES` or give a failing batch with a
failing RollBack.  The run ends when all calls are made, hence no check for deadlock;
`RequestAnswered` sees a call that hangs.

*Fairness* (`FairSpec`).  Weak fairness of every thread: it is scheduled.  `lock_` promises
no order, but calls are finite, so that none is passed by for ever.

### 3.9 `ApnPassword`

A profile's `auth_pwd` is a text or a blob sealed with one of the keys; `key` is the one in
the key store, `keys` how many there were.  `LoadProfile` is a row of an operator's file, in
the clear; `Insert` and `UpdatePassword` go through `NeedUpdateValuesBucket` and
`EncryptData`, which asks for the key, makes one on any answer but success, and stores an
empty blob when sealing fails or its result does not fit.  `Refused` is a statement that
fails when the key is already replaced.  `Query` is what a client is shown: rows whose
`edited` is set are opened, and when one was opened the rewritten result ends at a NULL
cell.

*History variables.*  `chosen` is the password last given to a row, `fromFile` the rows that
have theirs from a file, `spoiled` those whose password was given up: sealing failed or it
was too long, a failing key store replaced the key under it, or `edited` does not agree with
where the password came from.

`apn_password` checks `PasswordReadBack`, `NeverAnother` and `NoPasswordInClear`.
Two rows show one row read beside another; of three passwords one is too long and two tell
"its own" from "another's"; two faults replace a key twice.  The theorems cover every size.

### 3.10 Checks of the checks

Beside a definition of the code there may be a variant with a plausible mistake (for
instance `NotCleared` beside `Cleared`).  Nothing in the specification uses it;
`PROJECT.json`, `mutants`, names for each property of each passing run a variant which,
put in the definition's place, makes TLC report that property violated.

## 4. What is proved

TLAPS checks the following for every value of the constants, from the named assumptions
`SessionAssumption`, `MaxFaultsAssumption`, `CardAssumption`, `ApnAssumption`, `ConfigAssumption`,
`SchemaAssumption`, `PasswordAssumption`, `NextCopyAssumption`, `DraftAssumption` and
`BoundsAssumption` only.

`SmsStoreMigrationProofs`: `TypeCorrect`; `MigrationInvariant`; and from it `NoMessageLost`,
`NoMessageResurrected`, `SuccessMeansMoved`, `SingleStoreOfRecord`.  None of the four is
inductive: whether a copy may overwrite EL2 depends on the flag in memory, on the handles
and on where `Init` stands.  `MigrationInv` adds `HandlesInv` (a handle to EL1 means EL2 is
not yet in use), `FlagInv` (steps that copy run only before EL2 is in use; SUCCESS in memory
whenever on disk) and `ContentsInv` (while EL1 may still be copied it holds every message
that is not in the temporary file, and nothing else; once EL2 counts, EL2 does).

`SimDefaultCardProofs`: `TypeCorrect`, `CardInvariant`, `DefaultsUnique`,
`ConfirmedSurvives`, `RegisterRefinement`.  The invariant `CardInv` carries uniqueness to
every table a RollBack can bring back (`UniqueStack`), fixes how many transactions are open
and what the innermost one saved (`OpenTransactions`), and relates the running call to the
table it has prepared (`CallProgress`).  Typing needs it too: that a RollBack finds a
transaction is not a matter of types.  The refinement maps a commit to `Set`, a deletion to
`Remove` and everything else to a stutter.

`ApnProofs`: `UserEditsSurvive`, `PreferredStaysChosen`, `ChecksumsTellTheRows`, each
with an invariant that is inductive on top of the one before.  `EditsSurvive` speaks of the disk alone and is not
inductive: a commit puts the connection's view there and a RollBack puts back what a
transaction found.  The invariant therefore says that the view, the disk and every entry
of `stack` have all confirmed edits (`KeptInv`), which loading keeps because `ClearData`
spares edited rows and an entry of a file is never UNIQUE-equal to one; and that one thread
at most is in RESET and that during a RESET of everything, which drops the table, there
are no confirmed edits to lose (`LockInv`).

`PreferredIsChosen` needs to know why an id is not given twice although the counter of a
rebuilt table starts again and a RollBack brings an older counter back.  `PreferInv` says that
in every table, seen, on disk or saved by a transaction, ids are unique and not above the
counter (`IdsGiven`) and a chosen id denotes what was chosen or nothing (`Fits`), that a
choice is made among rows that are on disk (`StackInv`), and that a RESET of everything, which
starts the ids again, has forgotten the choices in memory and on disk (`Forgets`).

`ChecksumMeansLoaded` speaks of the disk, but a checksum is stored after the commit and from
the file as it was read before.  `CheckInv` says, until one of the causes in `exposed`: one
thread owns the one transaction (`Owned`); beside a RESET of everything there is no INIT and
no checksum (`Alone`); a thread that loads has in the connection's tables what it has loaded so
far, entries that clients changed or deleted excepted, unless a RESET of the same operator
deletes it again and will load it anew (`Claims`); and where the checksum is on record, or
about to be stored, the rows are on disk and in the view, with the same exception
(`Settled`).  The two exceptions are why INIT, which takes no lock, may run beside RESET.

`ConfigLoaderProofs`: `LoaderInvariant`, and from it `TypeCorrect` and `DigestTrusted`.
`DigestMeansLoaded` is not inductive: between the clearing of a table and the promotion of
the digest the rows on disk are neither the old nor the new ones, and the digest of before is
still on record.  `LoaderInv` therefore says of a load at each of its steps which
transaction it holds, that the rows it has inserted (before the commit) or committed (after
it) are those of its content unless an insert failed or the transaction is nested in one
left open, and that a temporary digest is its own, or gone together with the digest when
the preferences were deleted (`LoadProgress`).  The proof has one lemma per action; the
lemma `LoadStep` shows once that tables and loads other than the one a step works on keep
what they had, and `ErrorKeeps` treats the failures past `ClearData` together.

`CleanInvariant`, and from it `CleanStartLoads`: a load that met no failure has every file it
was to load in the store.  `CleanInv` follows the list of the load: the tables behind it are
loaded (`Settled`), the one it is at is read from the content the file has now.  Where the
digest agreed and the file was skipped, that the rows are there is `DigestMeansLoaded`, so
this invariant stands on the first.

`SchemaUpgradeProofs`: `UpgradeIsSafe`, and from it `OpensCurrent`, `BackupKept`,
`BackupRestored`.  That an open store is current is not inductive: a restore puts the backup
in its place, whatever version that has.  `UpgradeInv` says where a backup older than the
code can stand: beside a store that waits for its upgrade, or in an opening that has upgraded
it and is bound to renew it (`VersionKept`); and that what a backup held is in every store
but one that was rebuilt and not yet restored, which is never backed up (`RowsKept`).

On top of it `UpgradeCarries`, and from that `RcsCarriedOnce` and `FavouritesCarried`: that
steps 12 and 34 move rows once although neither is in a transaction, both are repeated after a
death, and a store may be replaced by a backup of before the step.  The code decides by the
schema, and so does `CarryInv`: a file without the column `rcs_id` has no row of an RCS message
in `sms_mms_info` (`Sound`), one with it has them all once (`ListedOnce`); a file without the
table of favourites has none in it, one with it has them all once (`MarkedOnce`).  Between the
statement that makes the column or the table and the copying that follows it neither holds;
`AboutToCopy` and `AboutToFill` say what does.  The lemmas about lists of statements show that
no other step makes or drops either of the two objects.

`SchemaCompletes`, and from it `SchemaIsComplete`: whatever release a store comes from, however
often its upgrade died and began anew, whatever failed, and whether a backup took its place,
an open store of the present version has the schema of a new one, but for what a failed
statement was about.  The property says nothing of a store on its way, and an upgrade that
begins anew runs old steps on a newer schema: they drop the view, indexes, triggers and a
column and make them again, some in an older form.  `SchemaInv` says of a file of version v
(`Fits`) that what it lacks is made by the steps after v or is gone, that is a failed statement
was about it (`Upgradable`); of one that is being upgraded the same of the step it is at, and
still of its version, from which it starts again if it dies (`OnTheWay`); of a new file that
nothing of a table that exists is missing (`Begun`), since `CREATE TABLE IF NOT EXISTS` would
not add it; and of a file of the present version that it may lack only what `OnOpen` looks
for, because a death in its repair may leave an index or the view dropped and not made again
(`Loose`), until `OnOpen` has run to its end (`Full`).
A step keeps this when every object it makes is there after it, or was in a statement that
failed (`Brings`, `RunBrings`), and when it drops nothing that it does not make again, but for
the old triggers (`Steady`).  All steps do but 7, which leaves an existing view as it is; the
later steps renew it.  The proofs go through all 35, 5 and 4 steps and the three lists that
create a store (`SmsMade2To7` and its like, `TidySteps`, `CreationMade`, `ReleaseIs`), and through the statements
`OnOpen` chooses by what it finds (`FieldsDo`, `ComponentsDo`).

`ApnProofs`: `PasswordInvariant`, and from it `PasswordTypes`, `PasswordsReadBack`,
`NoOtherPassword`, `ClientPasswordsSealed`.  What a query shows depends on the key a blob was
sealed with, of which the properties say nothing.  `PasswordInv` adds that a
blob is of the row's chosen password (`OwnOrNone`), and that a row which was not given up
has no password and the empty text, or the text of a file with `edited` unset, or its own
password sealed with the present key with `edited` set (`InOrder`).

`MessageRequestsProofs`: `RequestInvariant`, and from it `TypeCorrect`, `ToldHolds`,
`BatchInsertIsAtomic`, `RetryInsertsOnce`, `TransactionsEnd` and `ChangesAnnounced`;
`VersionAbilityIsOne` from the small invariant `VersionInv`.  None of the properties sees
what makes it hold.  `RequestInv` therefore says where `lock_` and a transaction can be
(`Control`); that in every version of a database a roll-back can bring back, a row is there
once and what a call is still to insert is nowhere (`Once`); which rows are a batch's
(`Known`); that rolling back the batch under way takes its rows away and nothing else, that
nothing was told of them yet, and that any other batch is settled (`Faithful`, as long as
nothing is spoiled); and what the stub's test of a result relies on (`Announced`).  The
lemmas `Steady`, `Reverting`, `Beginning`, `Committing`, `BatchInserting` and
`SingleStatement` show `Faithful` once for each kind of step, and the actions cite them.

`SmsSessionProofs`: `TypeCorrect`, `OrphanInvariant` and from it `NoOrphanMessages` and
`NoOrphanRcsRows`, `UnreadNeverHidden`, `FavoritesKeepParts`.  A marking sets the counter of
its sessions to 0 by its last statement, so that the counters are safe only if the tables it
has passed hold no unread row of them by then: `CountInv` says so for every marking under
way and every session that is not raced (`Marked`).  `OrphanInv` says what each statement of a
DELETE_SESSION has left (`DeletedSoFar`: blocked rows only, by the time the session goes)
and that the two rows of an RCS message name one session (`RowsInv`), since the rows of
`rcs_info` are found through the others.  `ChargedSoFar` says at which statement a part
shared with a favourite can be unshared: after the deletion for its column.  The lemmas
`OrphansKept` and `CountKept` treat at once all steps that only remove or mark rows.

`NextCopyProofs`: six invariants beside `Shape`, which is what is needed of types.  One
lemma for each step says what it may change (`MmsEffect`, `IntegrateEffect` and so on;
`CalmEffect` covers the steps that leave messages and maps alone), and the invariants are
proved from those.

* `SessionInvariant`, and from it `SessionsStayDistinct`, `MessagesInTheirSessions`.  A
  session may be renamed by a later one with the same last digits, after the snapshot and
  after messages went into it; `SessionInv` follows each entry of the snapshot and of
  `rawSession` through the renamings.
* `GroupInvariant`, and from it `GroupsStayTogether`: the two group maps are injective, apart
  from each other and not above `maxGroup`, give every row of this restore its group, and
  hold the group of no other row but of one received meanwhile.
* `KeyInvariant`, and from it `MessagesNotDuplicated`.  That a message is not copied twice
  rests on a snapshot read before the first message; `KeysRead` says until the
  end of the table that every row has its key there, was copied since, or is later than the
  backup.  `AllMapped` and `Unmapped` tell when an RCS row is given a message although the
  backup has one of its key: after a failure only.
* `DoneInvariant`, and from it `SuccessIsTrue`: what was passed without an error is there,
  found by its key or inserted.  It may be deleted again only as a draft, and `RowsDraftless`
  says that no row of its key is one.
* `LinkInvariant`, on top of those two, and from it `RcsMessagesLinked`.  The link is
  written by an update nobody waits for, perhaps of an earlier restore's making and with
  message ids read before; `PendingFits` says that any update on its way writes a right link,
  `AllLinked` that a passed RCS row is linked or in such an update.
* `CountInvariant`, and from it `CountersRight`: between the resetting of all counters and
  the last write a counter is right or its right value is in `todo`.
* `DraftInvariant`, and from it `OldDraftsKept`.  The draft to stay is chosen while the
  messages are copied and the others are deleted later, by session and time.  `Kept` says of
  the session that one old session alone became that it has the drafts passed so far and
  `draftMap` the latest time among them (`Gathered`), then that the deletions still to come
  spare it (`Planned`), then that it alone is left.  A draft that an earlier restore had
  copied counts as passed only if it is in that same session, which is `DraftsHome`; and
  `AllMerged` says that without a failure every old session became one.

*Model-checked only*: `UnlockSwitchesStore` and `RequestAnswered`, which are liveness;
the violated statements of section 6.  The type invariants of
`ApnProfile`, `NextCopy` and `SchemaUpgrade` are stated in the modules; no run lists them and
they are not proved.  What the proofs need of types is in the invariants (`TablesTyped` and
`TasksTyped`, `Shape`, the first lines of `UpgradeInv`).

## 5. Bounds and assumptions in one place

* `MaxFaults`, in `ApnPassword` `MaxKeyFaults`: storage operations or statements that fail in
  one behaviour.
* `MaxOpen`: transactions open when a SET_CARD starts or an APN or configuration
  transaction begins.
* `MaxVersion`, `MaxId`: contents of the configuration and APN files, values of `profile_id`.
* `Entries`, `AskedFor`: entries of a configuration file, sets of stores in use together.
* `MaxRequests`: calls in a behaviour of `MessageRequests`; `MaxKeys`: keys generated in one
  of `ApnPassword`.
* `MaxTroubles`, `MaxRuns`: failures, crashes and received messages in one behaviour of
  `NextCopy`, and restores of the backup; `PageSize` is a constant of the code made small;
  `Now` is later than every time in the data.
* Crashes, reboots, calls, flushes are not counted; finiteness comes from ids that are not
  reused (`sent`, `created`, `given`).
* A backup replaces its target; a failing one leaves the target as it was or with some of
  the rows.  Opening a file creates it.  Deleting a database another process holds open
  leaves that process with an unlinked file.
* EL2 is not accessible before the first unlock after a reboot and stays so afterwards.

## 6. Where the code and its comments disagree

| Run | Code | Comment |
|---|---|---|
| `missed_mount` | the subscription comes after `DoInit` has chosen the temporary file | sms_mms_ability.cpp:202: a process started before the unlock must hear of it |
| `next_copy_draft` | a second old session merged into the same new one, by the last digits, replaces the decision to keep the old draft | NextDbHelper.ets:55: where both phones have a draft the old one is kept |

Met while modelling and not given a run: SET_CARD answers 0 although its second Update
failed, which is logged and committed (rdb_sim_helper.cpp:127), while rdb_sim_helper.h:61
says that 0 is success; INIT of the APNs answers 0, success by rdb_pdp_profile_helper.h:52
and 57, after a RESET whose process died between the deletion of the rows and the loading,
because the checksum is still recorded (pdp_profile_ability.cpp:683); `CreatSql` compares the EL2 path with itself, so
that its check for EL1 is dead, while its comment (rdb_sms_mms_helper.cpp:187) says EL2 must
not be opened while EL1 exists; `ChangeStoreToEl5AndMoveData` copies nothing, while
rdb_sms_mms_helper.h:213 says that it changes the store and copies the data;
`HandleDirJudgement` logs that EL2 exists and
copies all the same, while its comment (rdb_sms_mms_helper.cpp:1238) says there is nothing
to migrate then; after a SET_CARD that left its transaction open, later calls answer 0
without anything reaching the disk where transactions nest; OPKEY_INIT answers 0 for an unchanged
file, while rdb_opkey_helper.h:47 says that only an answer greater than 0 is success.

Further behaviour on which no comment takes a stand: deleting messages
does not recount; a DELETE_SESSION between the two inserts of an RCS message leaves its
`rcs_info` row; a DELETE_SESSION sent again after it failed takes a second reference of the
parts; a part tied by both `msg_id` and `rcs_id` is decremented and then deleted by one
request although a favourite refers to it; the MMS parts of blocked messages are deleted
while the message stays; the restore's `BackupEl1ToEl2` copies EL1 over an EL2 file it has
seen to exist, while the comment of its caller (NewDbHelper.ets:1373) asks for the opposite.

Of the restore in `NextDbHelper.ets`, likewise: a message whose session could not be copied
gets session -1, and as its key is then known no later restore moves it; an exception that
ends a page is not counted, so that a restore may report no failure and yet have skipped
rows (`ReportHonest` therefore asks for the callback too); an RCS row without a message gets
one from every restore; a query that fails reads as an empty store and everything is copied
a second time; the triggers count an unread RCS message in both tables while the last step
of the restore counts it once; an `updateSms` that was not awaited may run after the
counting or be lost; group ids continue from a maximum read once, so that a message received
meanwhile may end up in the group of a restored one; messages other than RCS are grouped by
`start_time`, so that unrelated ones of one time become one group and a group of different
times several, and the count of a session, which is that of its groups, changes with them.

Of the configuration loads: where transactions do not nest, one failing commit of operator
keys makes every later OPKEY_INIT of the process fail at `BeginTransaction`, after it has
cleared the table inside the transaction left open; clients' edits made meanwhile are
confirmed and lost by a crash; and a load that fails leaves the digest of the previous
content, so that its rows stay away if the file goes back to that content.

## 7. What is not modelled

* Queries change nothing; only what a query shows of an APN password is modelled
  (`ApnPassword`).  Permissions and URIs are a choice between answers; JSON parsing and
  logging carry no state.
* The tables of the message database without rules across tables (`mms_protocol`,
  `sms_subsection`, SMC, risk URLs, chatbots) are plain inserts and deletes; their schema is
  in `SchemaSteps`.  The rows of `pse_base_station` likewise.
* `RowCopy` and the functions it calls (rdb_sms_mms_helper.cpp:1323-2526) are called by
  nobody in the repository; of the callbacks, `AlterRcsInfoTableForcely` and
  `processUpdateSessionSendState` neither.
* The observers of the message ability other than the one of the unlock, and how the
  DataShare framework delivers an announcement: outside this repository.
* That a processor may show another thread the pointer of a new ability before its contents,
  in the double test of `GetOpkeyVersionAbility`: the model is sequentially consistent.
* Parts, PDUs, favourites and chatbots of a restore, and the copies from the older formats
  (`copyData/DbHelper`, `database/DbHelper`): they follow the pattern of `NextCopy` on
  further tables; the hazard of their maps is listed without a property.
* The rollback backup copies rows into a database of its own and is read by no code here.
  The work scheduler acts on counts of tables and integrity checks, i.e. on judgements about
  data that a model would have to choose freely.
* Compression, audit log and change notification to other services are input and output.

## 8. Running

    tlc -workers 2 -config MCSimDefaultCard.cfg MCSimDefaultCard
    tlapm SimDefaultCardProofs.tla

Every `.cfg` names its run in `PROJECT.json`, `runs`.
