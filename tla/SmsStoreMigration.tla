------------------------- MODULE SmsStoreMigration -------------------------
(***************************************************************************)
(* Which database file holds the messages.  The message store moved from   *)
(* the EL1 area (readable before the first unlock) to the EL2 area         *)
(* (mounted by the first unlock); RdbSmsMmsHelper migrates an old file at  *)
(* start-up, remembers the result in a preference that is flushed          *)
(* asynchronously, and opens one of three files: EL1 sms_mms.db (not       *)
(* migrated), EL1 sms_mms_el1.db (migrated, EL2 not yet mounted) or EL2    *)
(* sms_mms.db.  The backup extension, a process of its own, copies and     *)
(* deletes the same files.  Either process may die between any two steps.  *)
(***************************************************************************)
EXTENDS Naturals

CONSTANTS
  Msgs,         (* Messages clients may insert.                            *)
  MaxFaults     (* Bound: database operations that fail in a behaviour.    *)

ASSUME MaxFaultsAssumption == MaxFaults \in Nat

(* "orphan" is EL1 sms_mms.db once it is unlinked while a handle of the    *)
(* data ability still refers to it.                                        *)
Dbs == {"el1", "el2", "lt", "orphan"}
Handles == Dbs \union {"null"}
MoveResults == {"default", "fail", "success"}
Exposures == {"crash", "preferences", "restore"}

InitSteps == {"backup", "copy", "delete", "save", "openEl1", "openLt", "openEl2"}

VARIABLES
  files,            (* The database files that exist.                      *)
  rows,             (* The messages in each.                               *)
  prefMem,          (* move_to_el2_result as this process reads it.        *)
  prefDisk,         (* move_to_el2_result as flushed.                      *)
  mounted,          (* The EL2 area is mounted.                            *)
  pc,               (* Where DoInit stands; "off" when no process runs.    *)
  store,            (* store_                                              *)
  storeE,           (* storeE_                                             *)
  storeEl1,         (* storeEl1_                                           *)
  storeLT,          (* storeLT_                                            *)
  moveToEl2Result,  (* The global of rdb_sms_mms_helper.cpp.               *)
  subscribed,       (* SECOND_MOUNTED is subscribed to.                    *)
  eventPending,     (* SECOND_MOUNTED is published and not yet handled.    *)
  restorePc,        (* The backup extension restoring a clone.             *)
  faults,           (* Operations that failed so far.                      *)
  sent, acked,      (* Messages inserted; those of them not deleted since. *)
  el2Live,          (* History: EL2 became the database of record.         *)
  exposed           (* History: what undermined the migration flag.        *)

disk    == <<files, rows, prefDisk>>
handles == <<store, storeE, storeEl1, storeLT, moveToEl2Result>>
events  == <<mounted, subscribed, eventPending>>
history == <<sent, acked, el2Live, exposed>>
vars    == <<disk, prefMem, pc, handles, events, restorePc, faults, history>>

(* Opening a database creates it when it is absent.                        *)
OpenFile(db) == files' = files \union {db}

(* An operation of the storage layer fails.                                *)
Fault == faults < MaxFaults /\ faults' = faults + 1
NoFault == UNCHANGED faults

(* Variants of the operators below with a plausible mistake in them, to    *)
(* show that the properties can tell.                                      *)
BackupMerges(target, contents) ==
  /\ files' = files \union {target}
  /\ rows' = [rows EXCEPT ![target] = @ \union contents]
AlwaysSuccess(value) == prefMem' = "success"
FlagUnchecked == TRUE
El1IsLt == store' = storeLT /\ storeEl1' = storeLT /\ UNCHANGED el2Live
StoreKept == store' = store /\ storeEl1' = "null" /\ el2Live' = TRUE

(* Backup replaces the whole target file by the source's contents.         *)
BackupTo(target, contents) ==
  /\ files' = files \union {target}
  /\ rows' = [rows EXCEPT ![target] = contents]

(* HandlePreferences: the value is in memory now, on disk when flushed.    *)
HandlePreferences(value) == prefMem' = value

-----------------------------------------------------------------------------
(* A fresh device has no message database; an upgraded one has the EL1     *)
(* file with the messages received so far.                                 *)
Init ==
  /\ \E old \in SUBSET Msgs :
       /\ files \in IF old = {} THEN {{}, {"el1"}} ELSE {{"el1"}}
       /\ rows = [d \in Dbs |-> IF d = "el1" THEN old ELSE {}]
       /\ sent = old /\ acked = old
  /\ prefMem = "default" /\ prefDisk = "default"
  /\ mounted \in BOOLEAN
  /\ pc = "off"
  /\ store = "null" /\ storeE = "null" /\ storeEl1 = "null" /\ storeLT = "null"
  /\ moveToEl2Result = FALSE
  /\ subscribed = FALSE /\ eventPending = FALSE
  /\ restorePc = "off"
  /\ faults = 0
  /\ el2Live = FALSE /\ exposed = {}

(* Where Init continues when MoveDbFileToEl2 returns false.                *)
NotMoved == IF moveToEl2Result THEN "openLt" ELSE "openEl1"

(* MoveDbFileToEl2 up to the backup.  An unreadable preference file yields *)
(* the default value.                                                      *)
ReadMoveResult(readable) ==
  LET value == IF readable THEN prefMem ELSE "default" IN
  /\ pc \in {"off", "failed"}
  /\ IF readable THEN NoFault ELSE Fault
  /\ \/ /\ value = "success"
        /\ moveToEl2Result' = TRUE /\ pc' = "openLt"
        /\ UNCHANGED prefMem
     \/ /\ value = "fail"
        /\ pc' = "backup"
        /\ UNCHANGED <<prefMem, moveToEl2Result>>
     \/ /\ value = "default" /\ "el1" \notin files
        /\ HandlePreferences("success")
        /\ moveToEl2Result' = TRUE /\ pc' = "openLt"
     \/ /\ value = "default" /\ "el1" \in files
        /\ pc' = IF mounted THEN "backup" ELSE NotMoved
        /\ UNCHANGED <<prefMem, moveToEl2Result>>
  /\ exposed' = IF ~readable /\ prefMem = "success"
                THEN exposed \union {"preferences"} ELSE exposed
  /\ UNCHANGED <<disk, store, storeE, storeEl1, storeLT, events, restorePc,
                 sent, acked, el2Live>>

(* BackupEl1ToEl2: ForceCreateEl1RdbStore creates an empty file if there   *)
(* is none; on failure HandleFile saves FAIL.                              *)
OpenEl1ForBackup(ok) ==
  /\ pc = "backup"
  /\ \/ /\ ok /\ NoFault
        /\ OpenFile("el1") /\ storeEl1' = "el1"
        /\ pc' = "copy"
        /\ UNCHANGED prefMem
     \/ /\ ~ok /\ Fault
        /\ storeEl1' = "null" /\ HandlePreferences("fail")
        /\ pc' = NotMoved
        /\ UNCHANGED files
  /\ UNCHANGED <<rows, prefDisk, store, storeE, storeLT, moveToEl2Result,
                 events, restorePc, history>>

(* Backup of EL1 into EL2, then FreeRdbStoreEl1.  It needs both files; the *)
(* handle is gone if OnMounted ran since.  A failure leaves the target as  *)
(* it was or with part of the rows.                                        *)
CopyEl1ToEl2(ok) ==
  LET possible == mounted /\ storeEl1 # "null" IN
  /\ pc = "copy"
  /\ \/ /\ ok /\ possible /\ NoFault
        /\ BackupTo("el2", rows[storeEl1])
        /\ pc' = "delete"
        /\ UNCHANGED prefMem
     \/ /\ ~ok /\ (IF possible THEN Fault ELSE NoFault)
        /\ \/ UNCHANGED <<files, rows>>
           \/ possible /\ \E part \in SUBSET rows[storeEl1] : BackupTo("el2", part)
        /\ HandlePreferences("fail") /\ pc' = NotMoved
  /\ storeEl1' = "null"
  /\ UNCHANGED <<prefDisk, store, storeE, storeLT, moveToEl2Result, events,
                 restorePc, history>>

(* DeleteRdb of the EL1 file: an error is only logged.                     *)
DeleteEl1(ok) ==
  /\ pc = "delete"
  /\ IF ok
     THEN /\ NoFault
          /\ files' = files \ {"el1"}
          /\ rows' = [rows EXCEPT !["el1"] = {}]
          /\ el2Live' = TRUE
     ELSE Fault /\ UNCHANGED <<files, rows, el2Live>>
  /\ pc' = "save"
  /\ UNCHANGED <<prefMem, prefDisk, handles, events, restorePc, sent, acked, exposed>>

(* HandleFile saves SUCCESS and Init takes note.                           *)
SaveSuccess ==
  /\ pc = "save"
  /\ HandlePreferences("success")
  /\ moveToEl2Result' = TRUE
  /\ pc' = "openLt"
  /\ UNCHANGED <<disk, store, storeE, storeEl1, storeLT, events, restorePc,
                 faults, history>>

(* Init without migration: every handle refers to the EL1 file.            *)
OpenEl1(ok) ==
  /\ pc = "openEl1"
  /\ \/ /\ ok /\ NoFault
        /\ OpenFile("el1")
        /\ storeEl1' = "el1" /\ store' = "el1" /\ storeLT' = "el1" /\ storeE' = "null"
        /\ pc' = "ready"
     \/ /\ ~ok /\ Fault
        /\ storeEl1' = "null" /\ pc' = "failed"
        /\ UNCHANGED <<files, store, storeLT, storeE>>
  /\ UNCHANGED <<rows, prefDisk, prefMem, moveToEl2Result, events, restorePc, history>>

(* Init after migration, first file: CreateLtDataBase unless it is ready.  *)
OpenLt(ok) ==
  /\ pc = "openLt"
  /\ \/ /\ storeLT # "null" /\ ok /\ NoFault
        /\ UNCHANGED <<files, storeLT>>
     \/ /\ storeLT = "null" /\ ok /\ NoFault
        /\ OpenFile("lt") /\ storeLT' = "lt"
     \/ /\ storeLT = "null" /\ ~ok /\ Fault
        /\ UNCHANGED <<files, storeLT>>
  /\ pc' = "openEl2"
  /\ UNCHANGED <<rows, prefDisk, prefMem, store, storeE, storeEl1, moveToEl2Result,
                 events, restorePc, history>>

(* CreatSql: reuse storeE_ or open the EL2 file, which must be mounted.    *)
CreatSql(ok) ==
  \/ /\ storeE # "null" /\ ok /\ NoFault
     /\ UNCHANGED <<files, storeE>>
  \/ /\ storeE = "null" /\ ok /\ mounted /\ NoFault
     /\ OpenFile("el2") /\ storeE' = "el2"
  \/ /\ storeE = "null" /\ ~ok /\ (IF mounted THEN Fault ELSE NoFault)
     /\ UNCHANGED <<files, storeE>>

ChangeRdbStoreToEl2 == store' = storeE' /\ storeEl1' = "null" /\ el2Live' = TRUE
ChangeRdbStoreToLT == store' = storeLT /\ storeEl1' = "null" /\ UNCHANGED el2Live

(* Init after migration, second file, and the choice of store_.            *)
OpenEl2(ok) ==
  /\ pc = "openEl2"
  /\ CreatSql(ok)
  /\ \/ ok /\ ChangeRdbStoreToEl2 /\ pc' = "ready"
     \/ ~ok /\ storeLT # "null" /\ ChangeRdbStoreToLT /\ pc' = "ready"
     \/ /\ ~ok /\ storeLT = "null" /\ pc' = "failed"
        /\ UNCHANGED <<store, storeEl1, el2Live>>
  /\ UNCHANGED <<rows, prefDisk, prefMem, storeLT, moveToEl2Result, events,
                 restorePc, sent, acked, exposed>>

-----------------------------------------------------------------------------
(* The preferences library writes the value out after Flush.               *)
FlushPreferences ==
  /\ prefDisk # prefMem
  /\ prefDisk' = prefMem
  /\ UNCHANGED <<files, rows, prefMem, pc, handles, events, restorePc, faults, history>>

(* The observer subscribes once the ability exists, whatever Init gave.    *)
Subscribe ==
  /\ pc \in {"failed", "ready"} /\ ~subscribed
  /\ subscribed' = TRUE
  /\ UNCHANGED <<disk, prefMem, pc, handles, mounted, eventPending, restorePc,
                 faults, history>>

(* The first unlock; only those subscribed by then get the event.          *)
Mount ==
  /\ ~mounted
  /\ mounted' = TRUE
  /\ eventPending' = subscribed
  /\ UNCHANGED <<disk, prefMem, pc, handles, subscribed, restorePc, faults, history>>

(* OnReceiveEvent: ChangeStoreToEl5AndMoveData, which moves no data.       *)
OnMounted(ok) ==
  /\ eventPending
  /\ eventPending' = FALSE
  /\ \/ /\ ~moveToEl2Result /\ ok /\ NoFault
        /\ UNCHANGED <<files, handles, el2Live>>
     \/ /\ moveToEl2Result /\ CreatSql(ok)
        /\ IF ok THEN ChangeRdbStoreToEl2 ELSE UNCHANGED <<store, storeEl1, el2Live>>
        /\ UNCHANGED <<storeLT, moveToEl2Result>>
  /\ UNCHANGED <<rows, prefDisk, prefMem, pc, mounted, subscribed, restorePc,
                 sent, acked, exposed>>

(* Insert and Delete of a message by a client, after IsInitOk.             *)
Insert(m) ==
  /\ pc = "ready" /\ store # "null" /\ m \notin sent
  /\ rows' = [rows EXCEPT ![store] = @ \union {m}]
  /\ sent' = sent \union {m} /\ acked' = acked \union {m}
  /\ UNCHANGED <<files, prefDisk, prefMem, pc, handles, events, restorePc, faults,
                 el2Live, exposed>>

Delete(m) ==
  /\ pc = "ready" /\ store # "null" /\ m \in rows[store]
  /\ rows' = [rows EXCEPT ![store] = @ \ {m}]
  /\ acked' = acked \ {m}
  /\ UNCHANGED <<files, prefDisk, prefMem, pc, handles, events, restorePc, faults,
                 sent, el2Live, exposed>>

(* The data ability's process dies; a reboot also unmounts EL2 and stops   *)
(* the extension.  The flag is undermined when the file on disk lags and   *)
(* the next start will copy EL1, or an empty EL1, over a live EL2.         *)
FlagBehind == el2Live /\ prefDisk # "success" /\ ("el1" \in files \/ prefDisk = "fail")

Crash(reboot) ==
  /\ pc # "off"
  /\ pc' = "off"
  /\ prefMem' = prefDisk
  /\ store' = "null" /\ storeE' = "null" /\ storeEl1' = "null" /\ storeLT' = "null"
  /\ moveToEl2Result' = FALSE
  /\ subscribed' = FALSE /\ eventPending' = FALSE
  /\ files' = files \ {"orphan"}
  /\ rows' = [rows EXCEPT !["orphan"] = {}]
  /\ IF reboot THEN mounted' = FALSE /\ restorePc' = "off"
               ELSE UNCHANGED <<mounted, restorePc>>
  /\ exposed' = IF FlagBehind THEN exposed \union {"crash"} ELSE exposed
  /\ UNCHANGED <<prefDisk, faults, sent, acked, el2Live>>

-----------------------------------------------------------------------------
(* The backup extension reads the flag from disk.                          *)
isDbMigrationSuccess == prefDisk = "success"

(* onBackupEx: EL2 copied over EL1 so that the clone's archive has it.     *)
CopyEl2ToEl1ForClone ==
  /\ isDbMigrationSuccess /\ mounted /\ "el2" \in files
  /\ BackupTo("el1", rows["el2"])
  /\ UNCHANGED <<prefDisk, prefMem, pc, handles, events, restorePc, faults, history>>

(* Unlinking EL1: handles of the data ability keep the old file.           *)
Unlinked(h) == IF h = "el1" THEN "orphan" ELSE h

UnlinkEl1 ==
  LET held == "el1" \in {store, storeEl1, storeLT} IN
  /\ files' = (files \ {"el1"}) \union (IF held THEN {"orphan"} ELSE {})
  /\ rows' = [rows EXCEPT !["el1"] = {},
                          !["orphan"] = IF held THEN rows["el1"] ELSE @]
  /\ store' = Unlinked(store)
  /\ storeEl1' = Unlinked(storeEl1)
  /\ storeLT' = Unlinked(storeLT)

(* onRelease: the copy made for the clone is deleted.                      *)
OnRelease ==
  /\ isDbMigrationSuccess /\ "el1" \in files
  /\ UnlinkEl1
  /\ UNCHANGED <<prefDisk, prefMem, pc, storeE, moveToEl2Result, events,
                 restorePc, faults, history>>

(* BackupEl1ToEl2 of the restore: EL1 is copied unless the flag is set.    *)
RestoreCopy ==
  /\ restorePc = "off" /\ mounted
  /\ ~isDbMigrationSuccess /\ "el1" \in files
  /\ BackupTo("el2", rows["el1"])
  /\ restorePc' = "copied"
  /\ exposed' = exposed \union {"restore"}
  /\ UNCHANGED <<prefDisk, prefMem, pc, handles, events, faults, sent, acked, el2Live>>

(* The copy is complete, so EL1 is deleted; an error is only logged.       *)
RestoreDeleteEl1(ok) ==
  /\ restorePc = "copied"
  /\ IF ok THEN NoFault /\ UnlinkEl1
           ELSE Fault /\ UNCHANGED <<files, rows, store, storeEl1, storeLT>>
  /\ restorePc' = "live"
  /\ el2Live' = TRUE
  /\ UNCHANGED <<prefDisk, prefMem, pc, storeE, moveToEl2Result, events, sent,
                 acked, exposed>>

(* Nothing to copy, or the copy failed: the EL2 file is opened anyway.     *)
RestoreOpenEl2(ok) ==
  /\ restorePc = "off" /\ mounted
  /\ \/ ok /\ (isDbMigrationSuccess \/ "el1" \notin files) /\ NoFault
     \/ ~ok /\ ~isDbMigrationSuccess /\ "el1" \in files /\ Fault
  /\ OpenFile("el2")
  /\ restorePc' = "live"
  /\ el2Live' = TRUE
  /\ exposed' = IF isDbMigrationSuccess THEN exposed ELSE exposed \union {"restore"}
  /\ UNCHANGED <<rows, prefDisk, prefMem, pc, handles, events, sent, acked>>

(* A message of the old device is restored.                                *)
RestoreInsert(m) ==
  /\ restorePc = "live" /\ m \notin sent
  /\ rows' = [rows EXCEPT !["el2"] = @ \union {m}]
  /\ sent' = sent \union {m} /\ acked' = acked \union {m}
  /\ UNCHANGED <<files, prefDisk, prefMem, pc, handles, events, restorePc, faults,
                 el2Live, exposed>>

RestoreEnd ==
  /\ restorePc # "off"
  /\ restorePc' = "off"
  /\ UNCHANGED <<disk, prefMem, pc, handles, events, faults, history>>

-----------------------------------------------------------------------------
InitStep ==
  \/ SaveSuccess
  \/ \E ok \in BOOLEAN :
       \/ OpenEl1ForBackup(ok) \/ CopyEl1ToEl2(ok) \/ DeleteEl1(ok)
       \/ OpenEl1(ok) \/ OpenLt(ok) \/ OpenEl2(ok)

Client == \E m \in Msgs : Insert(m) \/ Delete(m)

Extension ==
  \/ CopyEl2ToEl1ForClone \/ OnRelease
  \/ RestoreCopy \/ RestoreEnd
  \/ \E ok \in BOOLEAN : RestoreDeleteEl1(ok) \/ RestoreOpenEl2(ok)
  \/ \E m \in Msgs : RestoreInsert(m)

Next ==
  \/ \E readable \in BOOLEAN : ReadMoveResult(readable)
  \/ InitStep
  \/ FlushPreferences
  \/ Subscribe
  \/ Mount
  \/ \E ok \in BOOLEAN : OnMounted(ok)
  \/ Client
  \/ \E reboot \in BOOLEAN : Crash(reboot)
  \/ Extension

Spec == Init /\ [][Next]_vars

(* A thread that runs keeps running, the subscription is a call it makes,  *)
(* and the common event service delivers what it published.  Nothing else  *)
(* is promised: clients, unlocks, crashes and flushes come when they come. *)
Fairness ==
  /\ WF_vars(InitStep)
  /\ WF_vars(Subscribe)
  /\ WF_vars(\E ok \in BOOLEAN : OnMounted(ok))

FairSpec == Spec /\ Fairness

-----------------------------------------------------------------------------
FaultsInBound == faults \in 0..MaxFaults

TypeOK ==
  /\ files \in SUBSET Dbs
  /\ rows \in [Dbs -> SUBSET Msgs]
  /\ prefMem \in MoveResults /\ prefDisk \in MoveResults
  /\ mounted \in BOOLEAN
  /\ pc \in InitSteps \union {"off", "failed", "ready"}
  /\ store \in Handles
  /\ storeE \in {"null", "el2"}
  /\ storeEl1 \in {"null", "el1", "orphan"}
  /\ storeLT \in {"null", "lt", "el1", "orphan"}
  /\ moveToEl2Result \in BOOLEAN
  /\ subscribed \in BOOLEAN /\ eventPending \in BOOLEAN
  /\ restorePc \in {"off", "copied", "live"}
  /\ FaultsInBound
  /\ sent \in SUBSET Msgs /\ acked \in SUBSET Msgs
  /\ el2Live \in BOOLEAN
  /\ exposed \in SUBSET Exposures

(* Unless the flag was undermined (by a crash that left it behind a live   *)
(* EL2, by an unreadable preference file, or by a restore that migrated on *)
(* its own), no acknowledged message disappears from the files, whatever   *)
(* fails or dies between backup, deletion and the save of the flag.        *)
NoAckedLost ==
  exposed = {} => acked \subseteq rows["el1"] \union rows["el2"] \union rows["lt"]

(* Then, too, the EL2 store shows no message a client has deleted: no old  *)
(* EL1 contents come back over it.                                         *)
NoResurrection ==
  exposed = {} /\ store = "el2" => rows["el2"] \subseteq acked

(* The flag on disk is what the backup extension trusts when it overwrites *)
(* or deletes EL1: SUCCESS on disk means nothing is left only in EL1, even *)
(* when EL1 could not be deleted.                                          *)
DurableSuccessMeansMoved ==
  exposed = {} /\ prefDisk = "success" => acked \subseteq rows["el2"] \union rows["lt"]

(* Clients never write to EL1 once EL2 is the database of record, nor to   *)
(* an unlinked file: the messages do not split over two stores.            *)
OneStoreOfRecord ==
  exposed = {} => /\ store = "el1" => ~el2Live /\ prefDisk # "success"
                  /\ store # "orphan"

(* The inductive invariant behind the four properties above.               *)
HandlesInv ==
  /\ "orphan" \notin {store, storeEl1, storeLT}
  /\ store = "el1" => pc = "ready" /\ ~el2Live /\ prefMem # "success" /\ "el1" \in files
  /\ storeEl1 = "el1" => pc \in {"copy", "ready"} /\ prefMem # "success"
  /\ storeLT = "el1" => pc = "ready" /\ prefMem # "success"
  /\ store = "el2" => el2Live

FlagInv ==
  /\ prefDisk = "success" \/ moveToEl2Result => prefMem = "success"
  /\ pc \in {"openLt", "openEl2"} => moveToEl2Result
  /\ pc \in {"backup", "copy", "delete", "openEl1"} => ~el2Live /\ prefMem # "success"
  /\ el2Live => \/ prefMem = "success" \/ pc = "save"
                \/ pc = "off" /\ prefMem = "default" /\ "el1" \notin files
  /\ restorePc # "off" => restorePc = "live" /\ el2Live

(* While EL1 may still be copied, it is complete; once EL2 counts, EL2 is. *)
El1Counts == ~el2Live /\ prefDisk # "success"
El2Counts == el2Live \/ prefMem = "success" \/ pc \in {"delete", "save"}

ContentsInv ==
  /\ "el1" \notin files => rows["el1"] = {}
  /\ El1Counts => /\ acked \subseteq rows["el1"] \union rows["lt"]
                  /\ rows["el1"] \subseteq acked
                  /\ "el1" \notin files => rows["el2"] = {}
  /\ El2Counts => /\ acked \subseteq rows["el2"] \union rows["lt"]
                  /\ rows["el2"] \subseteq acked
  /\ rows["lt"] \intersect (rows["el1"] \union rows["el2"]) = {}
  /\ acked \subseteq sent
  /\ \A d \in Dbs : rows[d] \subseteq sent

MigrationInv == exposed = {} => HandlesInv /\ FlagInv /\ ContentsInv

(* What the observer is for: a subscribed process that works on the        *)
(* temporary file leaves it when the unlock is announced, if the storage   *)
(* layer has stopped failing.                                              *)
UnlockSwitchesStore ==
  (eventPending /\ pc = "ready" /\ store = "lt" /\ faults = MaxFaults)
     ~> (store = "el2" \/ pc = "off")

-----------------------------------------------------------------------------
(* A statement of a comment, for comparison with the code.                 *)

(* sms_mms_ability.cpp:202, of DoInit: a process started before the unlock *)
(* must hear of the second mount, or it may fail to access EL2.            *)
StartedLockedReachesEl2 ==
  (mounted /\ pc = "ready" /\ store = "lt") ~> (store = "el2" \/ pc = "off")
=============================================================================
