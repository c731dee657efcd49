---------------------- MODULE SmsStoreMigrationProofs ----------------------
(***************************************************************************)
(* Proofs about SmsStoreMigration, for every set of messages and every     *)
(* number of faults.                                                       *)
(***************************************************************************)
EXTENDS SmsStoreMigration, TLAPS

(* Every reachable state is well typed.                                    *)
LEMMA TypeInit == Init => TypeOK
<1> SUFFICES ASSUME Init PROVE TypeOK
  OBVIOUS
<1>1. FaultsInBound
  BY MaxFaultsAssumption DEF Init, FaultsInBound
<1>2. QED
  BY <1>1 DEF Init, TypeOK, Dbs, Handles, MoveResults, Exposures, InitSteps

(* The number of faults stays within its bound.                            *)
LEMMA FaultsBounded ==
  ASSUME TypeOK, Fault \/ NoFault
  PROVE  FaultsInBound'
BY MaxFaultsAssumption DEF TypeOK, FaultsInBound, Fault, NoFault

(* A step of the system keeps the state well typed.                        *)
LEMMA TypeNext == TypeOK /\ [Next]_vars => TypeOK'
<1> SUFFICES ASSUME TypeOK, [Next]_vars PROVE TypeOK'
  OBVIOUS
<1> USE DEF TypeOK, Dbs, Handles, MoveResults, Exposures, InitSteps
<1>1. ASSUME NEW readable \in BOOLEAN, ReadMoveResult(readable) PROVE TypeOK'
  <2>1. Fault \/ NoFault
    BY <1>1 DEF ReadMoveResult, HandlePreferences
  <2>2. FaultsInBound'
    BY <2>1, FaultsBounded
  <2>3. exposed' \in SUBSET Exposures
    BY <1>1 DEF ReadMoveResult, HandlePreferences, history
  <2>4. moveToEl2Result' \in BOOLEAN
    BY <1>1 DEF ReadMoveResult, HandlePreferences
  <2>5. QED
    BY <1>1, <2>2, <2>3, <2>4 DEF ReadMoveResult, HandlePreferences, NotMoved, disk, handles, events, history
<1>2. ASSUME NEW ok \in BOOLEAN, OpenEl1ForBackup(ok) PROVE TypeOK'
  <2>1. Fault \/ NoFault
    BY <1>2 DEF OpenEl1ForBackup, HandlePreferences
  <2>2. FaultsInBound'
    BY <2>1, FaultsBounded
  <2>3. files' \in SUBSET Dbs
    BY <1>2 DEF OpenEl1ForBackup, HandlePreferences, OpenFile, disk
  <2>4. QED
    BY <1>2, <2>2, <2>3 DEF OpenEl1ForBackup, HandlePreferences, NotMoved, disk, handles, events, history
<1>3. ASSUME NEW ok \in BOOLEAN, CopyEl1ToEl2(ok) PROVE TypeOK'
  <2>1. Fault \/ NoFault
    BY <1>3 DEF CopyEl1ToEl2, HandlePreferences
  <2>2. FaultsInBound'
    BY <2>1, FaultsBounded
  <2>3. files' \in SUBSET Dbs
    BY <1>3 DEF CopyEl1ToEl2, HandlePreferences, BackupTo, disk
  <2>4. rows' \in [Dbs -> SUBSET Msgs]
    BY <1>3 DEF CopyEl1ToEl2, HandlePreferences, BackupTo, disk
  <2>5. QED
    BY <1>3, <2>2, <2>3, <2>4 DEF CopyEl1ToEl2, HandlePreferences, NotMoved, disk, handles, events, history
<1>4. ASSUME NEW ok \in BOOLEAN, DeleteEl1(ok) PROVE TypeOK'
  <2>1. Fault \/ NoFault
    BY <1>4 DEF DeleteEl1
  <2>2. FaultsInBound'
    BY <2>1, FaultsBounded
  <2>3. files' \in SUBSET Dbs
    BY <1>4 DEF DeleteEl1, disk
  <2>4. rows' \in [Dbs -> SUBSET Msgs]
    BY <1>4 DEF DeleteEl1, disk
  <2>5. el2Live' \in BOOLEAN
    BY <1>4 DEF DeleteEl1
  <2>6. QED
    BY <1>4, <2>2, <2>3, <2>4, <2>5 DEF DeleteEl1, disk, handles, events, history
<1>5. ASSUME SaveSuccess PROVE TypeOK'
  BY <1>5 DEF FaultsInBound, SaveSuccess, HandlePreferences, disk, handles, events, history
<1>6. ASSUME NEW ok \in BOOLEAN, OpenEl1(ok) PROVE TypeOK'
  <2>1. Fault \/ NoFault
    BY <1>6 DEF OpenEl1
  <2>2. FaultsInBound'
    BY <2>1, FaultsBounded
  <2>3. files' \in SUBSET Dbs
    BY <1>6 DEF OpenEl1, OpenFile, disk
  <2>4. QED
    BY <1>6, <2>2, <2>3 DEF OpenEl1, disk, handles, events, history
<1>7. ASSUME NEW ok \in BOOLEAN, OpenLt(ok) PROVE TypeOK'
  <2>1. Fault \/ NoFault
    BY <1>7 DEF OpenLt
  <2>2. FaultsInBound'
    BY <2>1, FaultsBounded
  <2>3. files' \in SUBSET Dbs
    BY <1>7 DEF OpenLt, OpenFile, disk
  <2>4. QED
    BY <1>7, <2>2, <2>3 DEF OpenLt, disk, handles, events, history
<1>8. ASSUME NEW ok \in BOOLEAN, OpenEl2(ok) PROVE TypeOK'
  <2>1. Fault \/ NoFault
    BY <1>8 DEF OpenEl2, CreatSql
  <2>2. FaultsInBound'
    BY <2>1, FaultsBounded
  <2>3. files' \in SUBSET Dbs
    BY <1>8 DEF OpenEl2, CreatSql, OpenFile, disk
  <2>4. el2Live' \in BOOLEAN
    BY <1>8 DEF OpenEl2, CreatSql, ChangeRdbStoreToEl2, ChangeRdbStoreToLT
  <2>5. store' \in Handles /\ storeE' \in {"null", "el2"} /\ storeEl1' \in {"null", "el1", "orphan"}
    BY <1>8 DEF OpenEl2, CreatSql, ChangeRdbStoreToEl2, ChangeRdbStoreToLT
  <2>6. QED
    BY <1>8, <2>2, <2>3, <2>4, <2>5 DEF OpenEl2, disk, handles, events, history
<1>9. ASSUME FlushPreferences PROVE TypeOK'
  BY <1>9 DEF FaultsInBound, FlushPreferences, disk, handles, events, history
<1>10. ASSUME Subscribe PROVE TypeOK'
  BY <1>10 DEF FaultsInBound, Subscribe, disk, handles, events, history
<1>11. ASSUME Mount PROVE TypeOK'
  BY <1>11 DEF FaultsInBound, Mount, disk, handles, events, history
<1>12. ASSUME NEW ok \in BOOLEAN, OnMounted(ok) PROVE TypeOK'
  <2>1. Fault \/ NoFault
    BY <1>12 DEF OnMounted, CreatSql
  <2>2. FaultsInBound'
    BY <2>1, FaultsBounded
  <2>3. files' \in SUBSET Dbs
    BY <1>12 DEF OnMounted, CreatSql, OpenFile, disk
  <2>4. el2Live' \in BOOLEAN /\ moveToEl2Result' \in BOOLEAN
    BY <1>12 DEF OnMounted, CreatSql, ChangeRdbStoreToEl2, handles
  <2>5. /\ store' \in Handles /\ storeE' \in {"null", "el2"}
        /\ storeEl1' \in {"null", "el1", "orphan"}
        /\ storeLT' \in {"null", "lt", "el1", "orphan"}
    BY <1>12 DEF OnMounted, CreatSql, ChangeRdbStoreToEl2, handles
  <2>6. QED
    BY <1>12, <2>2, <2>3, <2>4, <2>5 DEF OnMounted, disk, handles, events, history
<1>13. ASSUME NEW m \in Msgs, Insert(m) PROVE TypeOK'
  BY <1>13 DEF FaultsInBound, Insert, disk, handles, events, history
<1>14. ASSUME NEW m \in Msgs, Delete(m) PROVE TypeOK'
  BY <1>14 DEF FaultsInBound, Delete, disk, handles, events, history
<1>15. ASSUME NEW reboot \in BOOLEAN, Crash(reboot) PROVE TypeOK'
  BY <1>15 DEF FaultsInBound, Crash, FlagBehind, disk, handles, events, history
<1>16. ASSUME CopyEl2ToEl1ForClone PROVE TypeOK'
  BY <1>16 DEF FaultsInBound, CopyEl2ToEl1ForClone, isDbMigrationSuccess, BackupTo, disk, handles, events, history
<1>17. ASSUME OnRelease PROVE TypeOK'
  BY <1>17 DEF FaultsInBound, OnRelease, isDbMigrationSuccess, UnlinkEl1, Unlinked, disk, handles, events, history
<1>18. ASSUME RestoreCopy PROVE TypeOK'
  BY <1>18 DEF FaultsInBound, RestoreCopy, isDbMigrationSuccess, BackupTo, disk, handles, events, history
<1>19. ASSUME NEW ok \in BOOLEAN, RestoreDeleteEl1(ok) PROVE TypeOK'
  <2>1. Fault \/ NoFault
    BY <1>19 DEF RestoreDeleteEl1
  <2>2. FaultsInBound'
    BY <2>1, FaultsBounded
  <2>3. files' \in SUBSET Dbs
    BY <1>19 DEF RestoreDeleteEl1, UnlinkEl1, Unlinked, disk
  <2>4. rows' \in [Dbs -> SUBSET Msgs]
    BY <1>19 DEF RestoreDeleteEl1, UnlinkEl1, Unlinked, disk
  <2>5. QED
    BY <1>19, <2>2, <2>3, <2>4 DEF RestoreDeleteEl1, UnlinkEl1, Unlinked, disk, handles, events, history
<1>20. ASSUME NEW ok \in BOOLEAN, RestoreOpenEl2(ok) PROVE TypeOK'
  <2>1. Fault \/ NoFault
    BY <1>20 DEF RestoreOpenEl2
  <2>2. FaultsInBound'
    BY <2>1, FaultsBounded
  <2>3. files' \in SUBSET Dbs
    BY <1>20 DEF RestoreOpenEl2, OpenFile, disk
  <2>4. exposed' \in SUBSET Exposures
    BY <1>20 DEF RestoreOpenEl2, history
  <2>5. QED
    BY <1>20, <2>2, <2>3, <2>4 DEF RestoreOpenEl2, isDbMigrationSuccess, disk, handles, events, history
<1>21. ASSUME NEW m \in Msgs, RestoreInsert(m) PROVE TypeOK'
  BY <1>21 DEF FaultsInBound, RestoreInsert, disk, handles, events, history
<1>22. ASSUME RestoreEnd PROVE TypeOK'
  BY <1>22 DEF FaultsInBound, RestoreEnd, disk, handles, events, history
<1>23. CASE UNCHANGED vars
  BY <1>23 DEF FaultsInBound, vars, disk, handles, events, history
<1>24. QED
  BY <1>1, <1>2, <1>3, <1>4, <1>5, <1>6, <1>7, <1>8, <1>9, <1>10, <1>11, <1>12, <1>13, <1>14, <1>15, <1>16, <1>17, <1>18, <1>19, <1>20, <1>21, <1>22, <1>23 DEF Next, InitStep, Client, Extension

(* The types of all variables hold in every reachable state.               *)
THEOREM TypeCorrect == Spec => []TypeOK
<1>1. QED
  BY TypeInit, TypeNext, PTL DEF Spec

-----------------------------------------------------------------------------
(* The inductive invariant holds initially.                                *)
LEMMA MigrationInit == Init => MigrationInv
BY DEF Init, MigrationInv, HandlesInv, FlagInv, ContentsInv, El1Counts, El2Counts, Dbs

(* Each step preserves it.                                                 *)
LEMMA MigrationNext == TypeOK /\ MigrationInv /\ [Next]_vars => MigrationInv'
<1> SUFFICES ASSUME TypeOK, MigrationInv, [Next]_vars PROVE MigrationInv'
  OBVIOUS
<1> USE DEF MigrationInv, HandlesInv, FlagInv, ContentsInv, El1Counts, El2Counts,
            TypeOK, Dbs, Handles, MoveResults, InitSteps
<1>1. ASSUME NEW readable \in BOOLEAN, ReadMoveResult(readable) PROVE MigrationInv'
  BY <1>1 DEF ReadMoveResult, HandlePreferences, NotMoved, NoFault, Fault, disk, handles, events, history
<1>2. ASSUME NEW ok \in BOOLEAN, OpenEl1ForBackup(ok) PROVE MigrationInv'
  BY <1>2 DEF OpenEl1ForBackup, HandlePreferences, NotMoved, OpenFile, NoFault, Fault, disk, handles, events, history
<1>3. ASSUME NEW ok \in BOOLEAN, CopyEl1ToEl2(ok) PROVE MigrationInv'
  BY <1>3 DEF CopyEl1ToEl2, HandlePreferences, NotMoved, BackupTo, NoFault, Fault, disk, handles, events, history
<1>4. ASSUME NEW ok \in BOOLEAN, DeleteEl1(ok) PROVE MigrationInv'
  BY <1>4 DEF DeleteEl1, NoFault, Fault, disk, handles, events, history
<1>5. ASSUME SaveSuccess PROVE MigrationInv'
  BY <1>5 DEF SaveSuccess, HandlePreferences, disk, handles, events, history
<1>6. ASSUME NEW ok \in BOOLEAN, OpenEl1(ok) PROVE MigrationInv'
  BY <1>6 DEF OpenEl1, OpenFile, NoFault, Fault, disk, handles, events, history
<1>7. ASSUME NEW ok \in BOOLEAN, OpenLt(ok) PROVE MigrationInv'
  BY <1>7 DEF OpenLt, OpenFile, NoFault, Fault, disk, handles, events, history
<1>8. ASSUME NEW ok \in BOOLEAN, OpenEl2(ok) PROVE MigrationInv'
  BY <1>8 DEF OpenEl2, CreatSql, ChangeRdbStoreToEl2, ChangeRdbStoreToLT, OpenFile, NoFault, Fault, disk, handles, events, history
<1>9. ASSUME FlushPreferences PROVE MigrationInv'
  BY <1>9 DEF FlushPreferences, disk, handles, events, history
<1>10. ASSUME Subscribe PROVE MigrationInv'
  BY <1>10 DEF Subscribe, disk, handles, events, history
<1>11. ASSUME Mount PROVE MigrationInv'
  BY <1>11 DEF Mount, disk, handles, events, history
<1>12. ASSUME NEW ok \in BOOLEAN, OnMounted(ok) PROVE MigrationInv'
  BY <1>12 DEF OnMounted, CreatSql, ChangeRdbStoreToEl2, OpenFile, NoFault, Fault, disk, handles, events, history
<1>13. ASSUME NEW m \in Msgs, Insert(m) PROVE MigrationInv'
  <2> USE <1>13 DEF Insert, disk, handles, events, history
  <2>1. CASE exposed # {}
    BY <2>1
  <2>2. CASE exposed = {} /\ store = "el1"
    <3>1. HandlesInv' /\ FlagInv'
      BY <2>2
    <3>2. rows'["el1"] = rows["el1"] \union {m} /\ rows'["el2"] = rows["el2"]
          /\ rows'["lt"] = rows["lt"] /\ rows'["orphan"] = rows["orphan"]
      BY <2>2
    <3>3. m \notin rows["lt"] /\ ~El2Counts /\ "el1" \in files
      BY <2>2
    <3>4. ContentsInv'
      <4>1. rows'["el1"] \subseteq acked'
        BY <2>2, <3>2
      <4>2. acked' \subseteq rows'["el1"] \union rows'["lt"]
        BY <2>2, <3>2
      <4>3. rows'["lt"] \intersect (rows'["el1"] \union rows'["el2"]) = {}
        BY <2>2, <3>2, <3>3
      <4>4. \A d \in Dbs : rows'[d] \subseteq sent'
        BY <2>2, <3>2
      <4>5. QED
        BY <2>2, <3>2, <3>3, <4>1, <4>2, <4>3, <4>4
    <3>5. QED
      BY <3>1, <3>4
  <2>3. CASE exposed = {} /\ store = "el2"
    BY <2>3
  <2>4. CASE exposed = {} /\ store = "lt"
    BY <2>4
  <2>5. QED
    BY <2>1, <2>2, <2>3, <2>4
<1>14. ASSUME NEW m \in Msgs, Delete(m) PROVE MigrationInv'
  BY <1>14 DEF Delete, disk, handles, events, history
<1>15. ASSUME NEW reboot \in BOOLEAN, Crash(reboot) PROVE MigrationInv'
  BY <1>15 DEF Crash, FlagBehind, disk, handles, events, history
<1>16. ASSUME CopyEl2ToEl1ForClone PROVE MigrationInv'
  BY <1>16 DEF CopyEl2ToEl1ForClone, isDbMigrationSuccess, BackupTo, disk, handles, events, history
<1>17. ASSUME OnRelease PROVE MigrationInv'
  BY <1>17 DEF OnRelease, isDbMigrationSuccess, UnlinkEl1, Unlinked, disk, handles, events, history
<1>18. ASSUME RestoreCopy PROVE MigrationInv'
  BY <1>18 DEF RestoreCopy, isDbMigrationSuccess, BackupTo, disk, handles, events, history
<1>19. ASSUME NEW ok \in BOOLEAN, RestoreDeleteEl1(ok) PROVE MigrationInv'
  BY <1>19 DEF RestoreDeleteEl1, UnlinkEl1, Unlinked, NoFault, Fault, disk, handles, events, history
<1>20. ASSUME NEW ok \in BOOLEAN, RestoreOpenEl2(ok) PROVE MigrationInv'
  BY <1>20 DEF RestoreOpenEl2, isDbMigrationSuccess, OpenFile, NoFault, Fault, disk, handles, events, history
<1>21. ASSUME NEW m \in Msgs, RestoreInsert(m) PROVE MigrationInv'
  BY <1>21 DEF RestoreInsert, disk, handles, events, history
<1>22. ASSUME RestoreEnd PROVE MigrationInv'
  BY <1>22 DEF RestoreEnd, disk, handles, events, history
<1>23. CASE UNCHANGED vars
  BY <1>23 DEF vars, disk, handles, events, history
<1>24. QED
  BY <1>1, <1>2, <1>3, <1>4, <1>5, <1>6, <1>7, <1>8, <1>9, <1>10, <1>11, <1>12, <1>13, <1>14, <1>15, <1>16, <1>17, <1>18, <1>19, <1>20, <1>21, <1>22, <1>23 DEF Next, InitStep, Client, Extension

(* The invariant of the migration holds in every reachable state.          *)
THEOREM MigrationInvariant == Spec => []MigrationInv
<1>1. QED
  BY MigrationInit, MigrationNext, TypeCorrect, PTL DEF Spec

(* Whatever fails or dies during a migration, no acknowledged message is   *)
(* lost unless the migration flag was undermined.                          *)
THEOREM NoMessageLost == Spec => []NoAckedLost
<1>1. TypeOK /\ MigrationInv => NoAckedLost
  BY DEF TypeOK, MigrationInv, FlagInv, ContentsInv, El1Counts, El2Counts, NoAckedLost, MoveResults
<1>2. QED
  BY <1>1, TypeCorrect, MigrationInvariant, PTL

(* The EL2 store never shows a deleted message again.                      *)
THEOREM NoMessageResurrected == Spec => []NoResurrection
<1>1. MigrationInv => NoResurrection
  BY DEF MigrationInv, HandlesInv, ContentsInv, El2Counts, NoResurrection
<1>2. QED
  BY <1>1, MigrationInvariant, PTL

(* SUCCESS on disk means that EL1 holds nothing EL2 lacks.                 *)
THEOREM SuccessMeansMoved == Spec => []DurableSuccessMeansMoved
<1>1. MigrationInv => DurableSuccessMeansMoved
  BY DEF MigrationInv, FlagInv, ContentsInv, El2Counts, DurableSuccessMeansMoved
<1>2. QED
  BY <1>1, MigrationInvariant, PTL

(* Clients never write to EL1 after EL2 took over, or to an unlinked file. *)
THEOREM SingleStoreOfRecord == Spec => []OneStoreOfRecord
<1>1. MigrationInv => OneStoreOfRecord
  BY DEF MigrationInv, HandlesInv, FlagInv, OneStoreOfRecord
<1>2. QED
  BY <1>1, MigrationInvariant, PTL
=============================================================================
