------------------------------- MODULE ApnProofs ------------------------------
(***************************************************************************)
(* Three facts about the profiles, each with an inductive invariant of its *)
(* own on top of the one before.  A confirmed edit survives: every table   *)
(* the connection sees, a crash leaves or a RollBack brings back has it.   *)
(* The preferred profile_id denotes in all of these what was chosen.  And  *)
(* the checksum on record, or about to be, stands for rows on disk.  Then  *)
(* the passwords, a model of their own, for any profiles and passwords and *)
(* however often the key store fails or replaces its key.                  *)
(***************************************************************************)
EXTENDS ApnProfile, ApnPassword, FiniteSetTheorems, TLAPS

AnyRow == [id : Nat, opkey : Opkeys \union {Common}, profile : Profiles, version : Nat]
AnyTable == [there : BOOLEAN, rows : SUBSET AnyRow, last : Nat, taken : SUBSET (Opkeys \X Profiles)]
Db == [pdp_profile : AnyTable, temp : AnyTable]
Task == [kind : Kinds, step : Steps, opkey : Opkeys \union {Common}, todo : SUBSET Profiles]

TablesTyped == view \in Db /\ disk \in Db /\ stack \in Seq(Db)
TasksTyped == /\ run \in [Threads -> Task]
              /\ file \in Nat \ {0}
              /\ edits \subseteq (Opkeys \union {Common}) \X Profiles

Resets == {"reset", "resetAll"}

(* One thread holds lock_; a RESET of everything has given up the edits.   *)
LockInv ==
  /\ \A t, u \in Threads : run[t].kind \in Resets /\ run[u].kind \in Resets => t = u
  /\ \A t \in Threads : run[t].step \in {"create", "drop", "rename"} => run[t].kind = "resetAll"
  /\ \A t \in Threads : run[t].step = "delete" => run[t].kind = "reset"
  /\ \A t \in Threads : run[t].kind = "resetAll" => edits = {}

(* The tables s still have every confirmed edit.                           *)
Has(s, e) == \E r \in s.pdp_profile.rows : <<r.opkey, r.profile>> = e /\ r.version = User
Kept(s, es) == \A e \in es : Has(s, e)

KeptInv == /\ Kept(view, edits) /\ Kept(disk, edits)
           /\ \A i \in 1..Len(stack) : Kept(stack[i], edits)

IInv == TablesTyped /\ TasksTyped /\ LockInv /\ KeptInv

-----------------------------------------------------------------------------
(* What the table operations return.                                       *)
LEMMA InsertedTable ==
  ASSUME NEW tbl \in AnyTable, NEW o \in Opkeys \union {Common}, NEW p \in Profiles, NEW v \in Nat
  PROVE  /\ Inserted(tbl, o, p, v) \in AnyTable
         /\ \A r \in tbl.rows : r.version = User /\ <<r.opkey, r.profile>> # <<o, p>>
              => r \in Inserted(tbl, o, p, v).rows
         /\ v # User => \A r \in tbl.rows : r.version = User => r \in Inserted(tbl, o, p, v).rows
         /\ \E r \in Inserted(tbl, o, p, v).rows : <<r.opkey, r.profile>> = <<o, p>> /\ r.version = v
<1> DEFINE row == [id |-> tbl.last + 1, opkey |-> o, profile |-> p, version |-> v]
           same == {r \in tbl.rows : r.opkey = o /\ r.profile = p /\ r.version = v}
           took == IF v = User THEN tbl.taken ELSE tbl.taken \ {<<o, p>>}
<1>1. row \in AnyRow
  BY DEF AnyRow, AnyTable, row
<1>2. Inserted(tbl, o, p, v) =
        [tbl EXCEPT !.rows = (tbl.rows \ same) \union {row}, !.last = tbl.last + 1, !.taken = took]
  BY Zenon DEF Inserted
<1> HIDE DEF row, same, took
<1>3. Inserted(tbl, o, p, v) = [there |-> tbl.there, rows |-> (tbl.rows \ same) \union {row},
                                last |-> tbl.last + 1, taken |-> took]
  BY <1>2 DEF AnyTable
<1>4. /\ (tbl.rows \ same) \union {row} \in SUBSET AnyRow
      /\ tbl.there \in BOOLEAN /\ tbl.last + 1 \in Nat
      /\ took \in SUBSET (Opkeys \X Profiles)
  BY <1>1 DEF AnyTable, took
<1>5. Inserted(tbl, o, p, v) \in AnyTable
  BY <1>3, <1>4 DEF AnyTable
<1>6. Inserted(tbl, o, p, v).rows = (tbl.rows \ same) \union {row}
  BY <1>3
<1>7. row.opkey = o /\ row.profile = p /\ row.version = v
  BY DEF row
<1>8. \A r \in same : r.version = v /\ <<r.opkey, r.profile>> = <<o, p>>
  BY DEF same
<1> QED BY <1>5, <1>6, <1>7, <1>8

LEMMA DeletedTable ==
  ASSUME NEW tbl \in AnyTable, NEW gone
  PROVE  Deleted(tbl, gone) \in AnyTable /\ Deleted(tbl, gone).rows = tbl.rows \ gone
BY DEF Deleted, AnyTable

LEMMA TakenTable ==
  ASSUME NEW tbl \in AnyTable, NEW r \in tbl.rows
  PROVE  Taken(tbl, r) \in AnyTable /\ Taken(tbl, r).rows = tbl.rows
<1>1. r.opkey # Common => <<r.opkey, r.profile>> \in Opkeys \X Profiles
  BY DEF AnyTable, AnyRow
<1> QED BY <1>1 DEF Taken, AnyTable

LEMMA EmptyTable == \A b \in BOOLEAN : Empty(b) \in AnyTable
BY DEF Empty, AnyTable

(* The store's operations keep the tables typed.                           *)
LEMMA ExecuteTyped ==
  ASSUME TablesTyped, NEW tables \in Db, Execute(tables), UNCHANGED stack
  PROVE  TablesTyped'
BY DEF TablesTyped, Execute

LEMMA ChangeTyped ==
  ASSUME view \in Db, NEW tbl \in AnyTable
  PROVE  /\ [view EXCEPT !.pdp_profile = tbl] \in Db
         /\ [view EXCEPT !.pdp_profile = tbl].pdp_profile = tbl
         /\ [view EXCEPT !.temp = tbl] \in Db
         /\ [view EXCEPT !.temp = tbl].pdp_profile = view.pdp_profile
BY DEF Db

-----------------------------------------------------------------------------
(* What a thread's next step keeps.                                        *)
LEMMA TaskLemma ==
  ASSUME TasksTyped, LockInv, NEW t \in Threads, NEW task \in Task,
         run' = [run EXCEPT ![t] = task],
         UNCHANGED file, edits' \subseteq edits,
         task.kind \in Resets => run[t].kind \in Resets \/ Free,
         task.step \in {"create", "drop", "rename"} => task.kind = "resetAll",
         task.step = "delete" => task.kind = "reset",
         task.kind = "resetAll" => run[t].kind = "resetAll" \/ edits' = {}
  PROVE  TasksTyped' /\ LockInv'
<1>1. /\ run'[t] = task
      /\ \A u \in Threads \ {t} : run'[u] = run[u]
      /\ run' \in [Threads -> Task]
  BY DEF TasksTyped
<1>2. TasksTyped'
  BY <1>1 DEF TasksTyped
<1>3. ASSUME NEW u \in Threads, NEW w \in Threads,
             run'[u].kind \in Resets, run'[w].kind \in Resets
      PROVE  u = w
  BY <1>1, <1>3 DEF LockInv, Free, Resets
<1>4. \A u \in Threads : run'[u].step \in {"create", "drop", "rename"} => run'[u].kind = "resetAll"
  BY <1>1 DEF LockInv
<1>5. \A u \in Threads : run'[u].step = "delete" => run'[u].kind = "reset"
  BY <1>1 DEF LockInv
<1>6. \A u \in Threads : run'[u].kind = "resetAll" => edits' = {}
  BY <1>1 DEF LockInv
<1> QED BY <1>2, <1>3, <1>4, <1>5, <1>6 DEF LockInv

LEMMA GoLemma ==
  ASSUME TasksTyped, LockInv, NEW t \in Threads, NEW s \in Steps, Go(t, s),
         UNCHANGED file, edits' \subseteq edits,
         s \in {"create", "drop", "rename"} => run[t].kind = "resetAll",
         s # "delete"
  PROVE  TasksTyped' /\ LockInv'
<1>0. Idle \in Task /\ Idle.kind = "none" /\ Idle.step = "idle"
  BY DEF Idle, Task, Kinds, Steps
<1>1. CASE s = "idle"
  <2>1. run' = [run EXCEPT ![t] = Idle]
    BY <1>1 DEF Go, Return
  <2> QED BY <2>1, <1>0, TaskLemma DEF Resets
<1>2. CASE s # "idle"
  <2> DEFINE task == [run[t] EXCEPT !.step = s]
  <2>1. run' = [run EXCEPT ![t] = task]
    BY <1>2 DEF Go
  <2>2. task \in Task /\ task.kind = run[t].kind /\ task.step = s
    BY DEF Task, TasksTyped
  <2> HIDE DEF task
  <2> QED BY <2>1, <2>2, TaskLemma DEF Resets
<1> QED BY <1>1, <1>2

LEMMA ReturnLemma ==
  ASSUME TasksTyped, LockInv, NEW t \in Threads, Return(t), UNCHANGED file, edits' \subseteq edits
  PROVE  TasksTyped' /\ LockInv'
<1>1. Go(t, "idle") /\ "idle" \in Steps
  BY DEF Go, Steps
<1> QED BY <1>1, GoLemma

(* A statement's effect on the edits.                                      *)
LEMMA KeptLess ==
  ASSUME NEW s, NEW es, Kept(s, es), NEW fs \in SUBSET es
  PROVE  Kept(s, fs)
BY DEF Kept

LEMMA ExecuteKeeps ==
  ASSUME TablesTyped, KeptInv, NEW tables \in Db, Execute(tables), UNCHANGED stack,
         Kept(tables, edits'), stack # <<>> => edits' \subseteq edits
  PROVE  TablesTyped' /\ KeptInv'
<1>1. TablesTyped'
  BY ExecuteTyped
<1>2. CASE stack = <<>>
  <2>1. view' = tables /\ disk' = tables /\ stack' = <<>>
    BY <1>2 DEF Execute
  <2> QED BY <1>1, <2>1 DEF KeptInv
<1>3. CASE stack # <<>>
  <2>1. view' = tables /\ disk' = disk /\ stack' = stack
    BY <1>3 DEF Execute
  <2>2. Kept(disk, edits') /\ \A i \in 1..Len(stack) : Kept(stack[i], edits')
    BY <1>3, KeptLess DEF KeptInv
  <2> QED BY <1>1, <2>1, <2>2 DEF KeptInv
<1> QED BY <1>2, <1>3

LEMMA NothingExecuted ==
  ASSUME TablesTyped, KeptInv, UNCHANGED <<view, disk, stack>>, edits' \subseteq edits
  PROVE  TablesTyped' /\ KeptInv'
<1>1. Kept(view, edits') /\ Kept(disk, edits') /\ \A i \in 1..Len(stack) : Kept(stack[i], edits')
  BY KeptLess DEF KeptInv
<1> QED BY <1>1 DEF KeptInv, TablesTyped

-----------------------------------------------------------------------------
(* One lemma per step of a thread.                                         *)
LEMMA StartSteps ==
  ASSUME IInv, NEW t \in Threads,
         \/ \E o \in Opkeys : InitAPNDatabase(t, o) \/ ResetApn(t, o)
         \/ \E ok \in BOOLEAN : ResetApnAll(t, ok)
  PROVE  IInv'
<1> USE DEF IInv
<1>1. ASSUME NEW o \in Opkeys, InitAPNDatabase(t, o) PROVE IInv'
  <2> DEFINE task == [kind |-> "init", step |-> "begin", opkey |-> o, todo |-> Profiles]
  <2>1. task \in Task /\ task.kind \notin Resets /\ task.step = "begin" /\ task.kind = "init"
    BY DEF Task, Kinds, Steps, Resets
  <2>2. run' = [run EXCEPT ![t] = task] /\ UNCHANGED <<view, disk, stack, file, edits>>
    BY <1>1 DEF InitAPNDatabase, db
  <2> HIDE DEF task
  <2>3. TasksTyped' /\ LockInv'
    BY <2>1, <2>2, TaskLemma
  <2> QED BY <2>2, <2>3, NothingExecuted
<1>2. ASSUME NEW o \in Opkeys, ResetApn(t, o) PROVE IInv'
  <2> DEFINE task == [kind |-> "reset", step |-> "delete", opkey |-> o, todo |-> Profiles]
  <2>1. task \in Task /\ task.step = "delete" /\ task.kind = "reset"
    BY DEF Task, Kinds, Steps
  <2>2. /\ run' = [run EXCEPT ![t] = task] /\ UNCHANGED <<view, disk, stack, file, edits>>
        /\ Free
    BY <1>2 DEF ResetApn, db
  <2> HIDE DEF task
  <2>3. TasksTyped' /\ LockInv'
    BY <2>1, <2>2, TaskLemma
  <2> QED BY <2>2, <2>3, NothingExecuted
<1>3. ASSUME NEW ok \in BOOLEAN, ResetApnAll(t, ok) PROVE IInv'
  <2> DEFINE task == [kind |-> "resetAll", step |-> "begin", opkey |-> Common, todo |-> Profiles]
  <2>1. task \in Task /\ task.step = "begin" /\ task.kind = "resetAll"
    BY DEF Task, Kinds, Steps
  <2>2. /\ run' = [run EXCEPT ![t] = task] /\ UNCHANGED <<view, disk, stack, file>>
        /\ Free /\ edits' = {}
    BY <1>3 DEF ResetApnAll, db
  <2> HIDE DEF task
  <2>3. TasksTyped' /\ LockInv'
    BY <2>1, <2>2, TaskLemma
  <2> QED BY <2>2, <2>3, NothingExecuted
<1> QED BY <1>1, <1>2, <1>3

LEMMA StatementStep ==
  ASSUME IInv, NEW t \in Threads, NEW ok \in BOOLEAN,
         \/ DeleteOpkey(t, ok) \/ ClearData(t, ok) \/ CreateTemp(t, ok)
         \/ DropTable(t, ok) \/ RenameTable(t, ok)
  PROVE  IInv'
<1> USE DEF IInv
<1> DEFINE tbl == view.pdp_profile
<1>0. view \in Db /\ tbl \in AnyTable /\ view.temp \in AnyTable
  BY DEF TablesTyped, Db
<1> HIDE DEF tbl
<1>1. CASE DeleteOpkey(t, ok)
  <2> DEFINE o == run[t].opkey
             del == Deleted(tbl, {r \in tbl.rows : r.opkey = o})
             tables == [view EXCEPT !.pdp_profile = del]
  <2>1. TasksTyped' /\ LockInv'
    <3>1. Go(t, "parse") /\ UNCHANGED file /\ edits' \subseteq edits /\ "parse" \in Steps
      BY <1>1 DEF DeleteOpkey, Steps
    <3> QED BY <3>1, GoLemma
  <2>2. CASE ok
    <3>1. Execute(tables) /\ edits' = edits \ ({o} \X Profiles) /\ UNCHANGED stack
      BY <1>1, <2>2 DEF DeleteOpkey, tbl
    <3>2. del \in AnyTable /\ del.rows = tbl.rows \ {r \in tbl.rows : r.opkey = o}
      BY <1>0, DeletedTable
    <3>3. tables \in Db /\ tables.pdp_profile = del
      BY <1>0, <3>2, ChangeTyped
    <3>4. Kept(tables, edits')
      <4> SUFFICES ASSUME NEW e \in edits, e \notin {o} \X Profiles
                   PROVE  Has(tables, e)
        BY <3>1 DEF Kept
      <4>1. PICK r \in tbl.rows : <<r.opkey, r.profile>> = e /\ r.version = User
        BY DEF KeptInv, Kept, Has, tbl
      <4>2. r.profile \in Profiles
        BY <1>0 DEF AnyTable, AnyRow
      <4>3. r.opkey # o
        BY <4>1, <4>2
      <4> QED BY <3>2, <3>3, <4>1, <4>3 DEF Has
    <3> HIDE DEF tables
    <3> QED BY <2>1, <3>1, <3>3, <3>4, ExecuteKeeps
  <2>3. CASE ~ok
    <3>1. UNCHANGED <<view, disk, stack, edits>>
      BY <1>1, <2>3 DEF DeleteOpkey
    <3> QED BY <2>1, <3>1, NothingExecuted
  <2> QED BY <2>2, <2>3
<1>2. CASE ClearData(t, ok)
  <2> DEFINE del == Deleted(tbl, Unedited(tbl, run[t].opkey))
             tables == [view EXCEPT !.pdp_profile = del]
  <2>1. TasksTyped' /\ LockInv'
    <3>1. Go(t, "load") /\ UNCHANGED <<file, edits>> /\ "load" \in Steps
      BY <1>2 DEF ClearData, Steps
    <3> QED BY <3>1, GoLemma
  <2>2. CASE ok
    <3>1. Execute(tables) /\ UNCHANGED <<edits, stack>>
      BY <1>2, <2>2 DEF ClearData, tbl
    <3>2. del \in AnyTable /\ \A r \in tbl.rows : r.version = User => r \in del.rows
      BY <1>0, DeletedTable DEF Unedited
    <3>3. tables \in Db /\ tables.pdp_profile = del
      BY <1>0, <3>2, ChangeTyped
    <3>4. Kept(tables, edits')
      BY <3>1, <3>2, <3>3 DEF KeptInv, Kept, Has, tbl
    <3> HIDE DEF tables
    <3> QED BY <2>1, <3>1, <3>3, <3>4, ExecuteKeeps
  <2>3. CASE ~ok
    <3>1. UNCHANGED <<view, disk, stack, edits>>
      BY <1>2, <2>3 DEF ClearData
    <3> QED BY <2>1, <3>1, NothingExecuted
  <2> QED BY <2>2, <2>3
<1>3. CASE CreateTemp(t, ok)
  <2>1. TasksTyped' /\ LockInv'
    <3>1. (Go(t, "parse") \/ Return(t)) /\ UNCHANGED <<file, edits>> /\ "parse" \in Steps
      BY <1>3 DEF CreateTemp, Steps
    <3> QED BY <3>1, GoLemma, ReturnLemma
  <2>2. CASE ok
    <3> DEFINE temp == [view.temp EXCEPT !.there = TRUE]
               tables == [view EXCEPT !.temp = temp]
    <3>1. Execute([view EXCEPT !.temp.there = TRUE]) /\ UNCHANGED <<edits, stack>>
      BY <1>3, <2>2 DEF CreateTemp
    <3>2. temp \in AnyTable
      BY <1>0 DEF AnyTable
    <3>3. tables = [view EXCEPT !.temp.there = TRUE]
      BY <1>0 DEF Db
    <3>4. tables \in Db /\ tables.pdp_profile = view.pdp_profile
      BY <1>0, <3>2, ChangeTyped
    <3>5. Kept(tables, edits')
      BY <3>1, <3>4 DEF KeptInv, Kept, Has
    <3> HIDE DEF tables
    <3> QED BY <2>1, <3>1, <3>3, <3>4, <3>5, ExecuteKeeps
  <2>3. CASE ~ok
    <3>1. UNCHANGED <<view, disk, stack, edits>>
      BY <1>3, <2>3 DEF CreateTemp
    <3> QED BY <2>1, <3>1, NothingExecuted
  <2> QED BY <2>2, <2>3
<1>4. CASE DropTable(t, ok)
  <2>1. run[t].kind = "resetAll" /\ edits = {}
    BY <1>4 DEF DropTable, At, LockInv
  <2>2. TasksTyped' /\ LockInv'
    <3>1. /\ Go(t, "rename") \/ Go(t, "rollback")
          /\ UNCHANGED <<file, edits>> /\ {"rename", "rollback"} \subseteq Steps
      BY <1>4 DEF DropTable, Steps
    <3> QED BY <2>1, <3>1, GoLemma
  <2>3. CASE ok
    <3> DEFINE tables == [view EXCEPT !.pdp_profile = Empty(FALSE)]
    <3>1. Execute(tables) /\ UNCHANGED <<edits, stack>>
      BY <1>4, <2>3 DEF DropTable
    <3>2. tables \in Db
      BY <1>0, EmptyTable, ChangeTyped
    <3>3. Kept(tables, edits')
      BY <2>1, <3>1 DEF Kept
    <3> HIDE DEF tables
    <3> QED BY <2>2, <3>1, <3>2, <3>3, ExecuteKeeps
  <2>4. CASE ~ok
    <3>1. UNCHANGED <<view, disk, stack, edits>>
      BY <1>4, <2>4 DEF DropTable
    <3> QED BY <2>2, <3>1, NothingExecuted
  <2> QED BY <2>3, <2>4
<1>5. CASE RenameTable(t, ok)
  <2>1. run[t].kind = "resetAll" /\ edits = {}
    BY <1>5 DEF RenameTable, At, LockInv
  <2>2. TasksTyped' /\ LockInv'
    <3>1. /\ Go(t, "commit") \/ Go(t, "rollback")
          /\ UNCHANGED <<file, edits>> /\ {"commit", "rollback"} \subseteq Steps
      BY <1>5 DEF RenameTable, Steps
    <3> QED BY <3>1, GoLemma
  <2>3. CASE ok
    <3> DEFINE tables == [pdp_profile |-> view.temp, temp |-> Empty(FALSE)]
    <3>1. Execute(tables) /\ UNCHANGED <<edits, stack>>
      BY <1>5, <2>3 DEF RenameTable
    <3>2. tables \in Db
      BY <1>0, EmptyTable DEF Db
    <3>3. Kept(tables, edits')
      BY <2>1, <3>1 DEF Kept
    <3> HIDE DEF tables
    <3> QED BY <2>2, <3>1, <3>2, <3>3, ExecuteKeeps
  <2>4. CASE ~ok
    <3>1. UNCHANGED <<view, disk, stack, edits>>
      BY <1>5, <2>4 DEF RenameTable
    <3> QED BY <2>2, <3>1, NothingExecuted
  <2> QED BY <2>3, <2>4
<1> QED BY <1>1, <1>2, <1>3, <1>4, <1>5

LEMMA ParseStep ==
  ASSUME IInv, NEW t \in Threads, NEW ok \in BOOLEAN, ParserPdpProfileJson(t, ok)
  PROVE  IInv'
<1> USE DEF IInv
<1>1. /\ Go(t, "load") \/ Go(t, "rollback") \/ Go(t, "begin") \/ Return(t)
      /\ UNCHANGED <<view, disk, stack, file, edits>>
      /\ {"load", "rollback", "begin"} \subseteq Steps
  BY DEF ParserPdpProfileJson, Steps, db
<1>2. TasksTyped' /\ LockInv'
  BY <1>1, GoLemma, ReturnLemma
<1> QED BY <1>1, <1>2, NothingExecuted

LEMMA SaveStep ==
  ASSUME IInv, NEW t \in Threads, SetPreferApnConfChecksum(t)
  PROVE  IInv'
<1> USE DEF IInv
<1>1. Return(t) /\ UNCHANGED <<view, disk, stack, file, edits>>
  BY DEF SetPreferApnConfChecksum, db
<1>2. TasksTyped' /\ LockInv'
  BY <1>1, ReturnLemma
<1> QED BY <1>1, <1>2, NothingExecuted

LEMMA BeginStep ==
  ASSUME IInv, NEW t \in Threads, NEW ok \in BOOLEAN, BeginTransaction(t, ok)
  PROVE  IInv'
<1> USE DEF IInv
<1>1. UNCHANGED <<view, disk, file, edits>>
  BY DEF BeginTransaction
<1>2. TasksTyped' /\ LockInv'
  <2>1. /\ \/ Go(t, IF run[t].kind = "resetAll" THEN "create" ELSE "clear")
           \/ Return(t)
        /\ {"create", "clear"} \subseteq Steps
    BY DEF BeginTransaction, Steps
  <2> QED BY <2>1, <1>1, GoLemma, ReturnLemma
<1>3. CASE UNCHANGED stack
  BY <1>1, <1>2, <1>3, NothingExecuted
<1>4. CASE stack' = <<view>> \o stack
  <2>1. <<view>> \in Seq(Db) /\ stack \in Seq(Db)
    BY DEF TablesTyped
  <2>2. stack' \in Seq(Db)
    BY <1>4, <2>1
  <2>3. Len(stack') = Len(stack) + 1 /\ Len(stack) \in Nat
    BY <1>4, <2>1
  <2>4. \A i \in 1..Len(stack') : stack'[i] = IF i = 1 THEN view ELSE stack[i - 1]
    BY <1>4, <2>1
  <2>5. \A i \in 1..Len(stack') : Kept(stack'[i], edits)
    <3> SUFFICES ASSUME NEW i \in 1..Len(stack') PROVE Kept(stack'[i], edits)
      OBVIOUS
    <3>1. CASE i = 1
      BY <3>1, <2>4 DEF KeptInv
    <3>2. CASE i # 1
      <4>1. i - 1 \in 1..Len(stack) /\ stack'[i] = stack[i - 1]
        BY <3>2, <2>3, <2>4
      <4> QED BY <4>1 DEF KeptInv
    <3> QED BY <3>1, <3>2
  <2>6. TablesTyped' /\ KeptInv'
    BY <1>1, <2>2, <2>5 DEF TablesTyped, KeptInv
  <2> QED BY <1>2, <2>6
<1> QED BY <1>3, <1>4 DEF BeginTransaction

(* Taking the head off the stack.                                          *)
LEMMA TailLemma ==
  ASSUME TablesTyped, KeptInv, stack # <<>>
  PROVE  /\ Head(stack) \in Db /\ Tail(stack) \in Seq(Db)
         /\ Kept(Head(stack), edits)
         /\ \A i \in 1..Len(Tail(stack)) : Kept(Tail(stack)[i], edits)
<1>1. stack \in Seq(Db) /\ Len(stack) \in Nat \ {0}
  BY DEF TablesTyped
<1>2. Head(stack) = stack[1] /\ 1 \in 1..Len(stack)
  BY <1>1
<1>3. Tail(stack) \in Seq(Db) /\ Len(Tail(stack)) = Len(stack) - 1
  BY <1>1
<1>4. \A i \in 1..Len(Tail(stack)) : i + 1 \in 1..Len(stack) /\ Tail(stack)[i] = stack[i + 1]
  BY <1>1, <1>3
<1>5. Head(stack) \in Db
  BY <1>1, <1>2
<1> QED BY <1>2, <1>3, <1>4, <1>5 DEF KeptInv

LEMMA CommitStep ==
  ASSUME IInv, NEW t \in Threads, NEW ok \in BOOLEAN, Commit(t, ok)
  PROVE  IInv'
<1> USE DEF IInv
<1>1. UNCHANGED <<view, file, edits>>
  BY DEF Commit
<1>2. TasksTyped' /\ LockInv'
  <2>1. /\ Go(t, AfterCommit(run[t].kind, ok))
        /\ AfterCommit(run[t].kind, ok) \in {"rollback", "idle", "save"}
        /\ {"rollback", "idle", "save"} \subseteq Steps
    BY DEF Commit, AfterCommit, Steps
  <2> QED BY <2>1, <1>1, GoLemma
<1>3. CASE UNCHANGED <<stack, disk>>
  BY <1>1, <1>2, <1>3, NothingExecuted
<1>4. CASE stack # <<>> /\ stack' = Tail(stack) /\ disk' = IF Len(stack) = 1 THEN view ELSE disk
  <2>1. disk' = view \/ disk' = disk
    BY <1>4
  <2>2. TablesTyped'
    BY <1>1, <1>4, <2>1, TailLemma DEF TablesTyped
  <2>3. KeptInv'
    BY <1>1, <1>4, <2>1, TailLemma DEF KeptInv
  <2> QED BY <1>2, <2>2, <2>3
<1> QED BY <1>3, <1>4 DEF Commit

LEMMA RollBackStep ==
  ASSUME IInv, NEW t \in Threads, NEW ok \in BOOLEAN, RollBack(t, ok)
  PROVE  IInv'
<1> USE DEF IInv
<1>1. UNCHANGED <<disk, file, edits>>
  BY DEF RollBack
<1>2. TasksTyped' /\ LockInv'
  <2>1. Return(t)
    BY DEF RollBack
  <2> QED BY <2>1, <1>1, ReturnLemma
<1>3. CASE UNCHANGED <<view, stack>>
  BY <1>1, <1>2, <1>3, NothingExecuted
<1>4. CASE stack # <<>> /\ view' = Head(stack) /\ stack' = Tail(stack)
  <2>1. TablesTyped'
    BY <1>1, <1>4, TailLemma DEF TablesTyped
  <2>2. KeptInv'
    BY <1>1, <1>4, TailLemma DEF KeptInv
  <2> QED BY <1>2, <2>1, <2>2
<1> QED BY <1>3, <1>4 DEF RollBack

LEMMA InsertStep ==
  ASSUME IInv, NEW t \in Threads, NEW p \in Profiles, NEW ok \in BOOLEAN, Insert(t, p, ok)
  PROVE  IInv'
<1> USE DEF IInv
<1> DEFINE left == run[t].todo \ {p}
           step == IF left # {} THEN "load"
                   ELSE IF run[t].kind = "resetAll" THEN "drop" ELSE "commit"
           task == [run[t] EXCEPT !.todo = left, !.step = step]
           o == run[t].opkey
<1>1. TasksTyped' /\ LockInv'
  <2>1. run' = [run EXCEPT ![t] = task] /\ UNCHANGED <<file, edits>>
    BY DEF Insert, TasksTyped
  <2>2. step \in Steps /\ left \subseteq Profiles /\ run[t] \in Task
    BY DEF TasksTyped, Task, Steps
  <2>3. /\ task \in Task /\ task.kind = run[t].kind
        /\ task.step \in {"load", "commit"} \/ (task.step = "drop" /\ task.kind = "resetAll")
    BY <2>2 DEF Task
  <2> HIDE DEF task
  <2> QED BY <2>1, <2>3, TaskLemma DEF Resets
<1>2. view \in Db /\ view.pdp_profile \in AnyTable /\ view.temp \in AnyTable
  BY DEF TablesTyped, Db
<1>3. o \in Opkeys \union {Common} /\ file \in Nat /\ file # User
  BY DEF TasksTyped, Task, User
<1>4. CASE ok /\ run[t].kind = "resetAll"
  <2> DEFINE tbl == Inserted(view.temp, o, p, file)
             tables == [view EXCEPT !.temp = tbl]
  <2>1. Execute(tables) /\ UNCHANGED <<edits, stack>>
    BY <1>4 DEF Insert
  <2>2. tbl \in AnyTable
    BY <1>2, <1>3, InsertedTable
  <2> HIDE DEF tbl
  <2>3. tables \in Db /\ tables.pdp_profile = view.pdp_profile
    BY <1>2, <2>2, ChangeTyped
  <2>4. Kept(tables, edits')
    BY <2>1, <2>3 DEF KeptInv, Kept, Has
  <2> HIDE DEF tables
  <2> QED BY <1>1, <2>1, <2>3, <2>4, ExecuteKeeps
<1>5. CASE ok /\ run[t].kind # "resetAll"
  <2> DEFINE tbl == Inserted(view.pdp_profile, o, p, file)
             tables == [view EXCEPT !.pdp_profile = tbl]
  <2>1. Execute(tables) /\ UNCHANGED <<edits, stack>>
    BY <1>5 DEF Insert
  <2>2. tbl \in AnyTable /\ \A r \in view.pdp_profile.rows : r.version = User => r \in tbl.rows
    BY <1>2, <1>3, InsertedTable
  <2> HIDE DEF tbl
  <2>3. tables \in Db /\ tables.pdp_profile = tbl
    BY <1>2, <2>2, ChangeTyped
  <2>4. Kept(tables, edits')
    BY <2>1, <2>2, <2>3 DEF KeptInv, Kept, Has
  <2> HIDE DEF tables
  <2> QED BY <1>1, <2>1, <2>3, <2>4, ExecuteKeeps
<1>6. CASE ~ok
  <2>1. UNCHANGED <<view, disk, stack, edits>>
    BY <1>6 DEF Insert
  <2> QED BY <1>1, <2>1, NothingExecuted
<1> QED BY <1>4, <1>5, <1>6

-----------------------------------------------------------------------------
(* The clients' steps, under lock_.                                        *)
LEMMA ClientTasks ==
  ASSUME TasksTyped, LockInv, UNCHANGED <<run, file>>,
         \/ edits' \subseteq edits
         \/ Free /\ edits' \subseteq (Opkeys \union {Common}) \X Profiles
  PROVE  TasksTyped' /\ LockInv'
<1>1. TasksTyped'
  BY DEF TasksTyped
<1>2. \A t \in Threads : run[t].kind = "resetAll" => edits' = {}
  BY DEF LockInv, Free
<1> QED BY <1>1, <1>2 DEF LockInv

LEMMA InsertEditedStep ==
  ASSUME IInv, NEW o \in Opkeys, NEW p \in Profiles, InsertEdited(o, p)
  PROVE  IInv'
<1> USE DEF IInv
<1> DEFINE tbl == Inserted(view.pdp_profile, o, p, User)
           tables == [view EXCEPT !.pdp_profile = tbl]
<1>1. /\ Execute(tables) /\ UNCHANGED <<stack, run, file>> /\ Free
      /\ edits' = IF stack = <<>> THEN edits \union {<<o, p>>} ELSE edits
  BY DEF InsertEdited, Confirmed
<1>2. TasksTyped' /\ LockInv'
  <2>1. edits' \subseteq (Opkeys \union {Common}) \X Profiles
    BY <1>1 DEF TasksTyped
  <2> QED BY <1>1, <2>1, ClientTasks
<1>3. view \in Db /\ view.pdp_profile \in AnyTable /\ User \in Nat
  BY DEF TablesTyped, Db, User
<1>4. /\ tbl \in AnyTable
      /\ \A r \in view.pdp_profile.rows :
           r.version = User /\ <<r.opkey, r.profile>> # <<o, p>> => r \in tbl.rows
      /\ \E r \in tbl.rows : <<r.opkey, r.profile>> = <<o, p>> /\ r.version = User
  BY <1>3, InsertedTable
<1> HIDE DEF tbl
<1>5. tables \in Db /\ tables.pdp_profile = tbl
  BY <1>3, <1>4, ChangeTyped
<1>6. Kept(tables, edits')
  <2> SUFFICES ASSUME NEW e \in edits' PROVE Has(tables, e)
    BY DEF Kept
  <2>1. CASE e = <<o, p>>
    BY <2>1, <1>4, <1>5 DEF Has
  <2>2. CASE e # <<o, p>>
    <3>1. e \in edits
      BY <2>2, <1>1
    <3>2. PICK r \in view.pdp_profile.rows : <<r.opkey, r.profile>> = e /\ r.version = User
      BY <3>1 DEF KeptInv, Kept, Has
    <3> QED BY <2>2, <3>2, <1>4, <1>5 DEF Has
  <2> QED BY <2>1, <2>2
<1> HIDE DEF tables
<1> QED BY <1>1, <1>2, <1>5, <1>6, ExecuteKeeps

LEMMA UpdateStep ==
  ASSUME IInv, NEW r \in view.pdp_profile.rows, UpdateApn(r)
  PROVE  IInv'
<1> USE DEF IInv
<1> DEFINE old == Taken(view.pdp_profile, r)
           new == [r EXCEPT !.version = User]
           tbl == [old EXCEPT !.rows = (@ \ {r}) \union {new}]
           tables == [view EXCEPT !.pdp_profile = tbl]
<1>1. /\ Execute(tables) /\ UNCHANGED <<stack, run, file>> /\ Free /\ r.version # User
      /\ edits' = IF stack = <<>> THEN edits \union {<<r.opkey, r.profile>>} ELSE edits
  BY DEF UpdateApn, Confirmed
<1>2. view \in Db /\ view.pdp_profile \in AnyTable /\ User \in Nat
  BY DEF TablesTyped, Db, User
<1>3. r \in AnyRow
  BY <1>2 DEF AnyTable
<1>4. new \in AnyRow /\ new.opkey = r.opkey /\ new.profile = r.profile /\ new.version = User
  BY <1>2, <1>3 DEF AnyRow
<1>5. old \in AnyTable /\ old.rows = view.pdp_profile.rows
  BY <1>2, TakenTable
<1> HIDE DEF old, new
<1>6. tbl \in AnyTable /\ tbl.rows = (view.pdp_profile.rows \ {r}) \union {new}
  BY <1>4, <1>5 DEF AnyTable
<1> HIDE DEF tbl
<1>7. TasksTyped' /\ LockInv'
  <2>1. edits' \subseteq (Opkeys \union {Common}) \X Profiles
    BY <1>1, <1>3 DEF TasksTyped, AnyRow
  <2> QED BY <1>1, <2>1, ClientTasks
<1>8. tables \in Db /\ tables.pdp_profile = tbl
  BY <1>2, <1>6, ChangeTyped
<1>9. Kept(tables, edits')
  <2> SUFFICES ASSUME NEW e \in edits' PROVE Has(tables, e)
    BY DEF Kept
  <2>1. CASE e = <<r.opkey, r.profile>>
    BY <2>1, <1>4, <1>6, <1>8 DEF Has
  <2>2. CASE e # <<r.opkey, r.profile>>
    <3>1. e \in edits
      BY <2>2, <1>1
    <3>2. PICK q \in view.pdp_profile.rows : <<q.opkey, q.profile>> = e /\ q.version = User
      BY <3>1 DEF KeptInv, Kept, Has
    <3> QED BY <3>2, <1>1, <1>6, <1>8 DEF Has
  <2> QED BY <2>1, <2>2
<1> HIDE DEF tables
<1> QED BY <1>1, <1>7, <1>8, <1>9, ExecuteKeeps

LEMMA DeleteStep ==
  ASSUME IInv, NEW r \in view.pdp_profile.rows, DeleteApn(r)
  PROVE  IInv'
<1> USE DEF IInv
<1> DEFINE old == Taken(view.pdp_profile, r)
           tbl == Deleted(old, {r})
           tables == [view EXCEPT !.pdp_profile = tbl]
<1>1. /\ Execute(tables) /\ UNCHANGED <<stack, run, file>>
      /\ edits' = IF r.version = User THEN edits \ {<<r.opkey, r.profile>>} ELSE edits
  BY DEF DeleteApn
<1>2. view \in Db /\ view.pdp_profile \in AnyTable
  BY DEF TablesTyped, Db
<1>3. old \in AnyTable /\ old.rows = view.pdp_profile.rows
  BY <1>2, TakenTable
<1> HIDE DEF old
<1>4. tbl \in AnyTable /\ tbl.rows = view.pdp_profile.rows \ {r}
  BY <1>3, DeletedTable
<1> HIDE DEF tbl
<1>5. TasksTyped' /\ LockInv'
  BY <1>1, ClientTasks
<1>6. tables \in Db /\ tables.pdp_profile = tbl
  BY <1>2, <1>4, ChangeTyped
<1>7. Kept(tables, edits')
  <2> SUFFICES ASSUME NEW e \in edits' PROVE Has(tables, e)
    BY DEF Kept
  <2>1. PICK q \in view.pdp_profile.rows : <<q.opkey, q.profile>> = e /\ q.version = User
    BY <1>1 DEF KeptInv, Kept, Has
  <2>2. q # r
    BY <1>1, <2>1
  <2> QED BY <2>1, <2>2, <1>4, <1>6 DEF Has
<1> HIDE DEF tables
<1> QED BY <1>1, <1>5, <1>6, <1>7, ExecuteKeeps

LEMMA QuietStep ==
  ASSUME IInv, UNCHANGED <<view, disk, stack, run, file, edits>>
  PROVE  IInv'
<1> QED BY ClientTasks, NothingExecuted DEF IInv

LEMMA CrashStep ==
  ASSUME IInv, NEW updated \in BOOLEAN, Crash(updated)
  PROVE  IInv'
<1> USE DEF IInv
<1>1. /\ view' = disk /\ disk' = disk /\ stack' = <<>> /\ edits' = edits
      /\ file' = IF updated THEN file + 1 ELSE file
      /\ run' = [t \in Threads |-> Idle]
  BY DEF Crash
<1>2. Idle \in Task /\ Idle.kind = "none" /\ Idle.step = "idle"
  BY DEF Idle, Task, Kinds, Steps
<1>3. TasksTyped'
  <2>1. file' \in Nat \ {0}
    BY <1>1 DEF TasksTyped
  <2> QED BY <1>1, <1>2, <2>1 DEF TasksTyped
<1>4. LockInv'
  BY <1>1, <1>2 DEF LockInv, Resets
<1>5. TablesTyped' /\ KeptInv'
  BY <1>1 DEF TablesTyped, KeptInv
<1> QED BY <1>3, <1>4, <1>5

-----------------------------------------------------------------------------
LEMMA InitDataTyped ==
  ASSUME NEW S \in SUBSET Profiles, NEW tbl \in InitData(S)
  PROVE  tbl \in AnyTable
<1>1. IsFiniteSet(S) /\ Cardinality(S) \in Nat
  BY FS_Subset, FS_CardinalityType, ApnAssumption
<1>2. PICK ids \in Bijection(S, 1..Cardinality(S)) :
        tbl = [Empty(TRUE) EXCEPT
                 !.rows = {[id |-> ids[p], opkey |-> Common, profile |-> p, version |-> 1] : p \in S},
                 !.last = Cardinality(S)]
  BY Zenon DEF InitData
<1>3. ids \in [S -> 1..Cardinality(S)]
  BY DEF Bijection, Injection
<1> DEFINE rows == {[id |-> ids[p], opkey |-> Common, profile |-> p, version |-> 1] : p \in S}
<1>4. rows \in SUBSET AnyRow
  BY <1>1, <1>3 DEF AnyRow
<1>5. tbl = [Empty(TRUE) EXCEPT !.rows = rows, !.last = Cardinality(S)]
  BY <1>2
<1> HIDE DEF rows
<1>6. Empty(TRUE) \in AnyTable
  BY EmptyTable
<1> QED BY <1>1, <1>4, <1>5, <1>6 DEF AnyTable

LEMMA InitIInv == Init => IInv
<1> SUFFICES ASSUME Init PROVE IInv
  OBVIOUS
<1>0. PICK S \in SUBSET Profiles :
        \E tbl \in InitData(S) : view = [pdp_profile |-> tbl, temp |-> Empty(FALSE)]
  BY DEF Init
<1>1. PICK tbl \in InitData(S) : view = [pdp_profile |-> tbl, temp |-> Empty(FALSE)]
  BY <1>0
<1>2. view \in Db
  BY <1>1, InitDataTyped, EmptyTable DEF Db
<1>3. disk = view /\ stack = <<>> /\ file = 1 /\ edits = {} /\ run = [t \in Threads |-> Idle]
  BY DEF Init
<1>4. Idle \in Task /\ Idle.kind = "none" /\ Idle.step = "idle"
  BY DEF Idle, Task, Kinds, Steps
<1>5. TablesTyped
  BY <1>2, <1>3 DEF TablesTyped
<1>6. TasksTyped
  BY <1>3, <1>4 DEF TasksTyped
<1>7. LockInv
  BY <1>3, <1>4 DEF LockInv, Resets
<1>8. KeptInv
  BY <1>3 DEF KeptInv, Kept
<1> QED BY <1>5, <1>6, <1>7, <1>8 DEF IInv

LEMMA NextIInv == IInv /\ [Next]_vars => IInv'
<1> SUFFICES ASSUME IInv, [Next]_vars PROVE IInv'
  OBVIOUS
<1>1. ASSUME NEW t \in Threads, Thread(t) PROVE IInv'
  BY <1>1, StartSteps, StatementStep, ParseStep, SaveStep, BeginStep, CommitStep, RollBackStep,
     InsertStep DEF Thread
<1>2. ASSUME NEW o \in Opkeys, NEW r \in view.pdp_profile.rows, SetPreferApn(o, r) PROVE IInv'
  BY <1>2, QuietStep DEF SetPreferApn, db
<1>3. CASE Client
  BY <1>2, <1>3, InsertEditedStep, UpdateStep, DeleteStep DEF Client
<1>4. CASE FlushPreferences
  BY <1>4, QuietStep DEF FlushPreferences, db
<1>5. ASSUME NEW updated \in BOOLEAN, Crash(updated) PROVE IInv'
  BY <1>5, CrashStep
<1>6. CASE UNCHANGED vars
  BY <1>6, QuietStep DEF vars, db
<1> QED BY <1>1, <1>3, <1>4, <1>5, <1>6 DEF Next

(* A client's profile, once confirmed, is not lost by loading the files,   *)
(* by RESET of another operator, by a rolled back or half-done transaction *)
(* of any thread, nor by a crash.                                          *)
THEOREM UserEditsSurvive == Spec => []EditsSurvive
<1>1. IInv => EditsSurvive
  BY DEF IInv, KeptInv, Kept, Has, EditsSurvive
<1> QED BY <1>1, InitIInv, NextIInv, PTL DEF Spec

-----------------------------------------------------------------------------
(* The store of the preferences, and what a transaction goes back to: the  *)
(* first one found the database as the file has it.                        *)
Choice == [id : Nat, of : {Common} \union (Opkeys \X Profiles)]
Prefs == [checksum : [Opkeys -> Nat], prefer : [Opkeys -> Choice]]
PrefsTyped == pref \in Prefs /\ prefDisk \in Prefs
StackInv == IF stack = <<>> THEN view = disk ELSE stack[Len(stack)] = disk

(* A row's id is its own, and not above the counter of its table.          *)
IdsGiven(tbl) ==
  /\ \A r \in tbl.rows : r.id \in 1..tbl.last
  /\ \A r, q \in tbl.rows : r.id = q.id => r = q

(* The chosen ids of q denote in the table what was chosen, or nothing;    *)
(* and no later row gets one of them.                                      *)
Fits(tbl, q) ==
  \A o \in Opkeys :
    \/ q.prefer[o] = NoProfile
    \/ /\ q.prefer[o].id <= tbl.last
       /\ \A r \in tbl.rows : r.id = q.prefer[o].id => <<r.opkey, r.profile>> = q.prefer[o].of

(* The tables s, for the preferences p and d, unless they are excused.     *)
Denotes(s, p, d, excused) ==
  /\ IdsGiven(s.pdp_profile) /\ IdsGiven(s.temp)
  /\ excused \/ (Fits(s.pdp_profile, p) /\ Fits(s.pdp_profile, d))

Excused == "preferred" \in exposed
TablesDenote ==
  /\ Denotes(view, pref, prefDisk, Excused) /\ Denotes(disk, pref, prefDisk, Excused)
  /\ \A i \in 1..Len(stack) : Denotes(stack[i], pref, prefDisk, Excused)

(* A RESET of everything has forgotten the preferred profiles.             *)
Forgotten(q) == \A o \in Opkeys : q.prefer[o] = NoProfile
Forgets ==
  \A t \in Threads : run[t].kind = "resetAll" => Excused \/ (Forgotten(pref) /\ Forgotten(prefDisk))

PreferInv == PrefsTyped /\ StackInv /\ TablesDenote /\ Forgets

(* What a change of a table leaves of these.                               *)
Follows(new, tbl) ==
  IdsGiven(tbl) => IdsGiven(new) /\ \A q \in Prefs : Fits(tbl, q) => Fits(new, q)

LEMMA SomeFollow ==
  ASSUME NEW tbl \in AnyTable, NEW new, new.rows \subseteq tbl.rows, new.last = tbl.last
  PROVE  Follows(new, tbl)
BY DEF Follows, IdsGiven, Fits

LEMMA InsertedFollows ==
  ASSUME NEW tbl \in AnyTable, NEW o \in Opkeys \union {Common}, NEW p \in Profiles, NEW v \in Nat
  PROVE  Follows(Inserted(tbl, o, p, v), tbl)
<1> DEFINE row == [id |-> tbl.last + 1, opkey |-> o, profile |-> p, version |-> v]
           same == {r \in tbl.rows : r.opkey = o /\ r.profile = p /\ r.version = v}
           took == IF v = User THEN tbl.taken ELSE tbl.taken \ {<<o, p>>}
           new == Inserted(tbl, o, p, v)
<1>1. new = [tbl EXCEPT !.rows = (tbl.rows \ same) \union {row}, !.last = tbl.last + 1, !.taken = took]
  BY Zenon DEF Inserted
<1> HIDE DEF same, took
<1>2. row.id = tbl.last + 1
  OBVIOUS
<1> HIDE DEF row, new
<1>3. new.rows = (tbl.rows \ same) \union {row} /\ new.last = tbl.last + 1 /\ tbl.last \in Nat
  BY <1>1 DEF AnyTable
<1>4. ASSUME IdsGiven(tbl) PROVE IdsGiven(new)
  <2>1. \A r \in tbl.rows : r.id \in 1..(tbl.last + 1) /\ r.id # tbl.last + 1
    BY <1>3, <1>4 DEF IdsGiven
  <2>2. \A r \in new.rows : r.id \in 1..new.last
    BY <1>2, <1>3, <2>1
  <2>3. \A r, q \in new.rows : r.id = q.id => r = q
    BY <1>2, <1>3, <1>4, <2>1 DEF IdsGiven
  <2> QED BY <2>2, <2>3 DEF IdsGiven
<1>5. ASSUME NEW q \in Prefs, Fits(tbl, q) PROVE Fits(new, q)
  <2> SUFFICES ASSUME NEW x \in Opkeys, q.prefer[x] # NoProfile
               PROVE  /\ q.prefer[x].id <= new.last
                      /\ \A r \in new.rows : r.id = q.prefer[x].id => <<r.opkey, r.profile>> = q.prefer[x].of
    BY DEF Fits
  <2>1. /\ q.prefer[x].id <= tbl.last /\ q.prefer[x].id \in Nat
        /\ \A r \in tbl.rows : r.id = q.prefer[x].id => <<r.opkey, r.profile>> = q.prefer[x].of
    BY <1>5 DEF Fits, Prefs, Choice
  <2>2. q.prefer[x].id <= new.last /\ row.id # q.prefer[x].id
    BY <1>2, <1>3, <2>1
  <2> QED BY <1>3, <2>1, <2>2
<1> QED BY <1>4, <1>5 DEF Follows, new

LEMMA UpdatedFollows ==
  ASSUME NEW tbl \in AnyTable, NEW r \in tbl.rows, NEW new, NEW row,
         new.rows = (tbl.rows \ {r}) \union {row}, new.last = tbl.last,
         row.id = r.id, row.opkey = r.opkey, row.profile = r.profile
  PROVE  Follows(new, tbl)
<1>1. ASSUME IdsGiven(tbl) PROVE IdsGiven(new)
  <2>1. \A q \in new.rows : q.id \in 1..new.last
    BY <1>1 DEF IdsGiven
  <2>2. \A q \in tbl.rows \ {r} : q.id # row.id
    BY <1>1 DEF IdsGiven
  <2>3. \A p, q \in new.rows : p.id = q.id => p = q
    BY <1>1, <2>2 DEF IdsGiven
  <2> QED BY <2>1, <2>3 DEF IdsGiven
<1>2. ASSUME NEW q \in Prefs, Fits(tbl, q) PROVE Fits(new, q)
  BY <1>2 DEF Fits
<1> QED BY <1>1, <1>2 DEF Follows

LEMMA EmptyGiven == \A b : IdsGiven(Empty(b))
BY DEF IdsGiven, Empty

LEMMA ForgottenFits == ASSUME NEW tbl, NEW q, Forgotten(q) PROVE Fits(tbl, q)
BY DEF Forgotten, Fits

-----------------------------------------------------------------------------
(* The tables, where the preferences stay as they are.                     *)
LEMMA DenotesStays ==
  ASSUME NEW s, Denotes(s, pref, prefDisk, Excused), exposed \subseteq exposed',
         \A o \in Opkeys : pref'.prefer[o] \in {pref.prefer[o], NoProfile},
         \A o \in Opkeys : prefDisk'.prefer[o] \in {prefDisk.prefer[o], pref.prefer[o], NoProfile}
  PROVE  Denotes(s, pref', prefDisk', Excused')
<1>1. Excused => Excused'
  BY DEF Excused
<1>2. Fits(s.pdp_profile, pref) => Fits(s.pdp_profile, pref')
  BY DEF Fits
<1>3. Fits(s.pdp_profile, pref) /\ Fits(s.pdp_profile, prefDisk) => Fits(s.pdp_profile, prefDisk')
  BY DEF Fits
<1>4. Excused' \/ (Fits(s.pdp_profile, pref') /\ Fits(s.pdp_profile, prefDisk'))
  <2>1. Excused \/ (Fits(s.pdp_profile, pref) /\ Fits(s.pdp_profile, prefDisk))
    BY Zenon DEF Denotes
  <2> QED BY <2>1, <1>1, <1>2, <1>3, Zenon
<1>5. IdsGiven(s.pdp_profile) /\ IdsGiven(s.temp)
  BY Zenon DEF Denotes
<1> QED BY <1>4, <1>5, Zenon DEF Denotes

LEMMA DenotesChanged ==
  ASSUME NEW s, NEW new, Denotes(s, pref, prefDisk, Excused), PrefsTyped,
         Follows(new.pdp_profile, s.pdp_profile), Follows(new.temp, s.temp)
  PROVE  Denotes(new, pref, prefDisk, Excused)
BY DEF Denotes, Follows, PrefsTyped

LEMMA StackKept ==
  ASSUME StackInv, NEW tables, Execute(tables), UNCHANGED stack
  PROVE  StackInv'
BY DEF StackInv, Execute

LEMMA ForgetsKept ==
  ASSUME Forgets, exposed \subseteq exposed', \A u \in Threads : run'[u].kind = "resetAll" => run[u].kind = "resetAll",
         \A o \in Opkeys : pref'.prefer[o] \in {pref.prefer[o], NoProfile},
         \A o \in Opkeys : prefDisk'.prefer[o] \in {prefDisk.prefer[o], pref.prefer[o], NoProfile}
  PROVE  Forgets'
BY DEF Forgets, Forgotten, Excused

(* A statement, and a step without one.                                    *)
LEMMA PreferExecuted ==
  ASSUME PreferInv, NEW tables, Execute(tables), UNCHANGED <<stack, pref, prefDisk>>, exposed \subseteq exposed',
         Denotes(tables, pref, prefDisk, Excused),
         \A u \in Threads : run'[u].kind = "resetAll" => run[u].kind = "resetAll"
  PROVE  PreferInv'
<1>1. StackInv' /\ PrefsTyped' /\ Forgets'
  BY StackKept, ForgetsKept DEF PreferInv, PrefsTyped
<1>2. /\ Denotes(tables, pref', prefDisk', Excused') /\ Denotes(disk, pref', prefDisk', Excused')
      /\ \A i \in 1..Len(stack) : Denotes(stack[i], pref', prefDisk', Excused')
  BY DenotesStays DEF PreferInv, TablesDenote
<1>3. view' = tables /\ disk' \in {disk, tables} /\ stack' = stack
  BY DEF Execute
<1>4. TablesDenote'
  BY <1>2, <1>3 DEF TablesDenote
<1> QED BY <1>1, <1>4 DEF PreferInv

LEMMA TablesStay ==
  ASSUME PreferInv, UNCHANGED <<view, disk, stack>>, exposed \subseteq exposed',
         \A o \in Opkeys : pref'.prefer[o] \in {pref.prefer[o], NoProfile},
         \A o \in Opkeys : prefDisk'.prefer[o] \in {prefDisk.prefer[o], pref.prefer[o], NoProfile}
  PROVE  StackInv' /\ TablesDenote'
<1>1. StackInv'
  BY DEF PreferInv, StackInv
<1>2. /\ Denotes(view, pref', prefDisk', Excused') /\ Denotes(disk, pref', prefDisk', Excused')
      /\ \A i \in 1..Len(stack) : Denotes(stack[i], pref', prefDisk', Excused')
  BY DenotesStays DEF PreferInv, TablesDenote
<1> QED BY <1>1, <1>2 DEF TablesDenote

LEMMA PreferQuiet ==
  ASSUME PreferInv, UNCHANGED <<view, disk, stack>>, PrefsTyped', exposed \subseteq exposed',
         \A o \in Opkeys : pref'.prefer[o] \in {pref.prefer[o], NoProfile},
         \A o \in Opkeys : prefDisk'.prefer[o] \in {prefDisk.prefer[o], pref.prefer[o], NoProfile},
         \A u \in Threads : run'[u].kind = "resetAll" => run[u].kind = "resetAll"
  PROVE  PreferInv'
BY TablesStay, ForgetsKept DEF PreferInv

LEMMA PreferSame ==
  ASSUME PreferInv, UNCHANGED <<view, disk, stack, pref, prefDisk>>, exposed \subseteq exposed',
         \A u \in Threads : run'[u].kind = "resetAll" => run[u].kind = "resetAll"
  PROVE  PreferInv'
<1>1. PrefsTyped'
  BY DEF PreferInv, PrefsTyped
<1> QED BY <1>1, PreferQuiet

(* Who runs a RESET of everything.                                         *)
LEMMA GoKinds ==
  ASSUME TasksTyped, NEW t \in Threads, NEW s, Go(t, s) \/ Return(t)
  PROVE  \A u \in Threads : run'[u].kind = "resetAll" => run[u].kind = "resetAll"
<1>1. Idle.kind = "none"
  BY DEF Idle
<1>2. CASE run' = [run EXCEPT ![t] = Idle]
  BY <1>1, <1>2 DEF TasksTyped
<1>3. CASE run' = [run EXCEPT ![t].step = s]
  BY <1>3 DEF TasksTyped, Task
<1> QED BY <1>2, <1>3 DEF Go, Return

LEMMA TablesAre ==
  ASSUME IInv
  PROVE  /\ view \in Db /\ view.pdp_profile \in AnyTable /\ view.temp \in AnyTable
         /\ disk \in Db /\ stack \in Seq(Db)
BY DEF IInv, TablesTyped, Db

LEMMA SameFollows == \A tbl : Follows(tbl, tbl)
BY DEF Follows

LEMMA PdpFollows ==
  ASSUME IInv, PreferInv, NEW tbl \in AnyTable, Follows(tbl, view.pdp_profile)
  PROVE  Denotes([view EXCEPT !.pdp_profile = tbl], pref, prefDisk, Excused)
<1> DEFINE new == [view EXCEPT !.pdp_profile = tbl]
<1>1. new.pdp_profile = tbl /\ new.temp = view.temp
  BY TablesAre DEF Db
<1>2. Denotes(view, pref, prefDisk, Excused) /\ PrefsTyped
  BY DEF PreferInv, TablesDenote
<1> HIDE DEF new
<1>3. Denotes(new, pref, prefDisk, Excused)
  BY <1>1, <1>2, DenotesChanged, SameFollows
<1> QED BY <1>3 DEF new

LEMMA TempFollows ==
  ASSUME IInv, PreferInv, NEW tbl \in AnyTable, Follows(tbl, view.temp)
  PROVE  Denotes([view EXCEPT !.temp = tbl], pref, prefDisk, Excused)
<1> DEFINE new == [view EXCEPT !.temp = tbl]
<1>1. new.temp = tbl /\ new.pdp_profile = view.pdp_profile
  BY TablesAre DEF Db
<1>2. Denotes(view, pref, prefDisk, Excused) /\ PrefsTyped
  BY DEF PreferInv, TablesDenote
<1> HIDE DEF new
<1>3. Denotes(new, pref, prefDisk, Excused)
  BY <1>1, <1>2, DenotesChanged, SameFollows
<1> QED BY <1>3 DEF new

LEMMA PreferStart ==
  ASSUME IInv, PreferInv, NEW t \in Threads,
         \/ \E o \in Opkeys : InitAPNDatabase(t, o) \/ ResetApn(t, o)
         \/ \E ok \in BOOLEAN : ResetApnAll(t, ok)
  PROVE  PreferInv'
<1>0. run \in [Threads -> Task] /\ pref \in Prefs /\ prefDisk \in Prefs
  BY DEF IInv, TasksTyped, PreferInv, PrefsTyped
<1>1. ASSUME NEW o \in Opkeys, InitAPNDatabase(t, o) PROVE PreferInv'
  <2>1. /\ UNCHANGED <<view, disk, stack, pref, prefDisk>> /\ exposed \subseteq exposed'
        /\ run' = [run EXCEPT ![t] = [kind |-> "init", step |-> "begin", opkey |-> o, todo |-> Profiles]]
    BY <1>1 DEF InitAPNDatabase, db, Expose
  <2>2. \A u \in Threads : run'[u].kind = "resetAll" => run[u].kind = "resetAll"
    BY <1>0, <2>1
  <2> QED BY <2>1, <2>2, PreferSame
<1>2. ASSUME NEW o \in Opkeys, ResetApn(t, o) PROVE PreferInv'
  <2>1. /\ UNCHANGED <<view, disk, stack, prefDisk, exposed>>
        /\ pref' = [pref EXCEPT !.prefer[o] = NoProfile]
        /\ run' = [run EXCEPT ![t] = [kind |-> "reset", step |-> "delete", opkey |-> o, todo |-> Profiles]]
    BY <1>2 DEF ResetApn, db
  <2>2. \A u \in Threads : run'[u].kind = "resetAll" => run[u].kind = "resetAll"
    BY <1>0, <2>1
  <2>3. NoProfile \in Choice
    BY DEF NoProfile, Choice
  <2>4. pref' \in Prefs /\ \A x \in Opkeys : pref'.prefer[x] \in {pref.prefer[x], NoProfile}
    BY <1>0, <2>1, <2>3 DEF Prefs
  <2>5. PrefsTyped'
    BY <1>0, <2>1, <2>4 DEF PrefsTyped
  <2>6. \A x \in Opkeys : prefDisk'.prefer[x] \in {prefDisk.prefer[x], pref.prefer[x], NoProfile}
    BY <2>1
  <2> QED BY <2>1, <2>2, <2>4, <2>5, <2>6, PreferQuiet
<1>3. ASSUME NEW ok \in BOOLEAN, ResetApnAll(t, ok) PROVE PreferInv'
  <2>1. UNCHANGED <<view, disk, stack>> /\ exposed \subseteq exposed'
    BY <1>3 DEF ResetApnAll, db
  <2>2. \/ Excused' /\ UNCHANGED <<pref, prefDisk>>
        \/ pref' = NoPref /\ prefDisk' = NoPref
    BY <1>3 DEF ResetApnAll, DeleteProfiles, Excused
  <2>3. NoPref \in Prefs /\ \A x \in Opkeys : NoPref.prefer[x] = NoProfile
    BY DEF NoPref, Prefs, NoProfile, Choice, NoChecksum
  <2>4. PrefsTyped'
    BY <1>0, <2>2, <2>3 DEF PrefsTyped
  <2>5. StackInv' /\ TablesDenote'
    BY <2>1, <2>2, <2>3, TablesStay
  <2>6. Forgets'
    BY <2>2, <2>3 DEF Forgets, Forgotten
  <2> QED BY <2>4, <2>5, <2>6 DEF PreferInv
<1> QED BY <1>1, <1>2, <1>3

LEMMA PreferStatement ==
  ASSUME IInv, PreferInv, NEW t \in Threads, NEW ok \in BOOLEAN,
         \/ DeleteOpkey(t, ok) \/ ClearData(t, ok) \/ CreateTemp(t, ok)
         \/ DropTable(t, ok) \/ RenameTable(t, ok)
  PROVE  PreferInv'
<1> DEFINE tbl == view.pdp_profile
<1>0. tbl \in AnyTable /\ view \in Db /\ view.temp \in AnyTable /\ TasksTyped /\ LockInv
  BY TablesAre DEF IInv
<1> HIDE DEF tbl
<1>1. \A u \in Threads : run'[u].kind = "resetAll" => run[u].kind = "resetAll"
  BY <1>0, GoKinds DEF DeleteOpkey, ClearData, CreateTemp, DropTable, RenameTable
<1>2. UNCHANGED <<stack, pref, prefDisk>> /\ exposed \subseteq exposed'
  BY DEF DeleteOpkey, ClearData, CreateTemp, DropTable, RenameTable, Expose
<1>3. CASE ~ok
  <2>1. UNCHANGED <<view, disk>>
    BY <1>3 DEF DeleteOpkey, ClearData, CreateTemp, DropTable, RenameTable
  <2> QED BY <1>1, <1>2, <2>1, PreferSame
<1>4. ASSUME NEW gone, Execute([view EXCEPT !.pdp_profile = Deleted(tbl, gone)]) PROVE PreferInv'
  <2>1. Deleted(tbl, gone).last = tbl.last
    BY <1>0 DEF Deleted, AnyTable
  <2>2. Deleted(tbl, gone) \in AnyTable /\ Follows(Deleted(tbl, gone), tbl)
    BY <1>0, <2>1, DeletedTable, SomeFollow
  <2>3. Denotes([view EXCEPT !.pdp_profile = Deleted(tbl, gone)], pref, prefDisk, Excused)
    BY <2>2, PdpFollows DEF tbl
  <2> QED BY <1>1, <1>2, <1>4, <2>3, PreferExecuted
<1>5. CASE ok /\ DeleteOpkey(t, ok)
  BY <1>4, <1>5 DEF DeleteOpkey, tbl
<1>6. CASE ok /\ ClearData(t, ok)
  BY <1>4, <1>6 DEF ClearData, tbl
<1>7. CASE ok /\ CreateTemp(t, ok)
  <2> DEFINE temp == [view.temp EXCEPT !.there = TRUE]
  <2>1. Execute([view EXCEPT !.temp.there = TRUE])
    BY <1>7 DEF CreateTemp
  <2>2. temp \in AnyTable /\ temp.rows = view.temp.rows /\ temp.last = view.temp.last
    BY <1>0 DEF AnyTable
  <2>3. [view EXCEPT !.temp = temp] = [view EXCEPT !.temp.there = TRUE]
    BY <1>0 DEF Db
  <2> HIDE DEF temp
  <2>4. Follows(temp, view.temp)
    BY <1>0, <2>2, SomeFollow
  <2>5. Denotes([view EXCEPT !.temp = temp], pref, prefDisk, Excused)
    BY <2>2, <2>4, TempFollows
  <2> QED BY <1>1, <1>2, <2>1, <2>3, <2>5, PreferExecuted
<1>8. CASE ok /\ (DropTable(t, ok) \/ RenameTable(t, ok))
  <2>1. run[t].kind = "resetAll"
    BY <1>0, <1>8 DEF LockInv, DropTable, RenameTable, At
  <2>2. Excused \/ (Forgotten(pref) /\ Forgotten(prefDisk))
    BY <2>1 DEF PreferInv, Forgets
  <2>3. ASSUME NEW s, IdsGiven(s.pdp_profile), IdsGiven(s.temp)
        PROVE  Denotes(s, pref, prefDisk, Excused)
    BY <2>2, <2>3, ForgottenFits DEF Denotes
  <2>4. IdsGiven(view.pdp_profile) /\ IdsGiven(view.temp)
    BY DEF PreferInv, TablesDenote, Denotes
  <2>5. CASE DropTable(t, ok)
    <3> DEFINE new == [view EXCEPT !.pdp_profile = Empty(FALSE)]
    <3>1. Execute(new)
      BY <1>8, <2>5 DEF DropTable
    <3>2. new.pdp_profile = Empty(FALSE) /\ new.temp = view.temp
      BY <1>0 DEF Db
    <3> HIDE DEF new
    <3>3. Denotes(new, pref, prefDisk, Excused)
      BY <2>3, <2>4, <3>2, EmptyGiven
    <3> QED BY <1>1, <1>2, <3>1, <3>3, PreferExecuted
  <2>6. CASE RenameTable(t, ok)
    <3> DEFINE new == [pdp_profile |-> view.temp, temp |-> Empty(FALSE)]
    <3>1. Execute(new)
      BY <1>8, <2>6 DEF RenameTable
    <3>2. new.pdp_profile = view.temp /\ new.temp = Empty(FALSE)
      OBVIOUS
    <3> HIDE DEF new
    <3>3. Denotes(new, pref, prefDisk, Excused)
      BY <2>3, <2>4, <3>2, EmptyGiven
    <3> QED BY <1>1, <1>2, <3>1, <3>3, PreferExecuted
  <2> QED BY <1>8, <2>5, <2>6
<1> QED BY <1>3, <1>5, <1>6, <1>7, <1>8

LEMMA PreferInsert ==
  ASSUME IInv, PreferInv, NEW t \in Threads, NEW p \in Profiles, NEW ok \in BOOLEAN, Insert(t, p, ok)
  PROVE  PreferInv'
<1> DEFINE o == run[t].opkey
<1>0. /\ view.pdp_profile \in AnyTable /\ view.temp \in AnyTable
      /\ run \in [Threads -> Task] /\ run[t] \in Task /\ file \in Nat
  BY TablesAre DEF IInv, TasksTyped
<1>1. o \in Opkeys \union {Common}
  BY <1>0 DEF Task
<1>2. UNCHANGED <<stack, pref, prefDisk>> /\ exposed \subseteq exposed'
  BY DEF Insert, Expose
<1>3. \A u \in Threads : run'[u].kind = "resetAll" => run[u].kind = "resetAll"
  BY <1>0 DEF Insert, Task
<1>4. CASE ~ok
  <2>1. UNCHANGED <<view, disk>>
    BY <1>4 DEF Insert
  <2> QED BY <1>2, <1>3, <2>1, PreferSame
<1>5. CASE ok /\ run[t].kind = "resetAll"
  <2> DEFINE tbl == Inserted(view.temp, o, p, file)
  <2>1. Execute([view EXCEPT !.temp = tbl])
    BY <1>5 DEF Insert
  <2>2. tbl \in AnyTable /\ Follows(tbl, view.temp)
    BY <1>0, <1>1, InsertedTable, InsertedFollows
  <2> HIDE DEF tbl
  <2>3. Denotes([view EXCEPT !.temp = tbl], pref, prefDisk, Excused)
    BY <2>2, TempFollows
  <2> QED BY <1>2, <1>3, <2>1, <2>3, PreferExecuted
<1>6. CASE ok /\ run[t].kind # "resetAll"
  <2> DEFINE tbl == Inserted(view.pdp_profile, o, p, file)
  <2>1. Execute([view EXCEPT !.pdp_profile = tbl])
    BY <1>6 DEF Insert
  <2>2. tbl \in AnyTable /\ Follows(tbl, view.pdp_profile)
    BY <1>0, <1>1, InsertedTable, InsertedFollows
  <2> HIDE DEF tbl
  <2>3. Denotes([view EXCEPT !.pdp_profile = tbl], pref, prefDisk, Excused)
    BY <2>2, PdpFollows
  <2> QED BY <1>2, <1>3, <2>1, <2>3, PreferExecuted
<1> QED BY <1>4, <1>5, <1>6

LEMMA PreferQuietSteps ==
  ASSUME IInv, PreferInv, NEW t \in Threads, NEW ok \in BOOLEAN,
         ParserPdpProfileJson(t, ok) \/ SetPreferApnConfChecksum(t)
  PROVE  PreferInv'
<1>0. TasksTyped /\ pref \in Prefs /\ prefDisk \in Prefs
  BY DEF IInv, PreferInv, PrefsTyped
<1>1. CASE ParserPdpProfileJson(t, ok)
  <2>1. \A u \in Threads : run'[u].kind = "resetAll" => run[u].kind = "resetAll"
    BY <1>0, <1>1, GoKinds DEF ParserPdpProfileJson
  <2>2. UNCHANGED <<view, disk, stack, pref, prefDisk>> /\ exposed \subseteq exposed'
    BY <1>1 DEF ParserPdpProfileJson, db, Expose
  <2> QED BY <2>1, <2>2, PreferSame
<1>2. CASE SetPreferApnConfChecksum(t)
  <2>1. \A u \in Threads : run'[u].kind = "resetAll" => run[u].kind = "resetAll"
    BY <1>0, <1>2, GoKinds DEF SetPreferApnConfChecksum
  <2>2. /\ UNCHANGED <<view, disk, stack, prefDisk, exposed>>
        /\ pref' = [pref EXCEPT !.checksum[run[t].opkey] = file]
    BY <1>2 DEF SetPreferApnConfChecksum, db
  <2>3. file \in Nat
    BY DEF IInv, TasksTyped
  <2>4. pref' \in Prefs /\ pref'.prefer = pref.prefer
    BY <1>0, <2>2, <2>3 DEF Prefs
  <2>5. PrefsTyped'
    BY <1>0, <2>2, <2>4 DEF PrefsTyped
  <2> QED BY <2>1, <2>2, <2>4, <2>5, PreferQuiet
<1> QED BY <1>1, <1>2

(* Beginning and ending a transaction.                                     *)
LEMMA PreferBegin ==
  ASSUME IInv, PreferInv, NEW t \in Threads, NEW ok \in BOOLEAN, BeginTransaction(t, ok)
  PROVE  PreferInv'
<1>1. \A u \in Threads : run'[u].kind = "resetAll" => run[u].kind = "resetAll"
  BY GoKinds DEF BeginTransaction, IInv
<1>2. UNCHANGED <<view, disk, pref, prefDisk>> /\ exposed \subseteq exposed'
  BY DEF BeginTransaction, Expose
<1>3. CASE UNCHANGED stack
  BY <1>1, <1>2, <1>3, PreferSame
<1>4. CASE stack' = <<view>> \o stack
  <2>1. <<view>> \in Seq(Db) /\ stack \in Seq(Db)
    BY TablesAre
  <2>2. Len(stack') = Len(stack) + 1 /\ Len(stack) \in Nat
    BY <1>4, <2>1
  <2>3. \A i \in 1..Len(stack') : stack'[i] = IF i = 1 THEN view ELSE stack[i - 1]
    BY <1>4, <2>1
  <2>4. StackInv'
    <3>1. CASE stack = <<>>
      <4>1. Len(stack') = 1 /\ stack'[1] = view
        BY <2>2, <2>3, <3>1
      <4>2. view = disk
        BY <3>1 DEF PreferInv, StackInv
      <4> QED BY <1>2, <4>1, <4>2 DEF StackInv
    <3>2. CASE stack # <<>>
      <4>1. Len(stack) # 0
        BY <2>1, <3>2
      <4>2. Len(stack') \in 1..Len(stack') /\ Len(stack') # 1 /\ Len(stack') - 1 = Len(stack)
        BY <2>2, <4>1
      <4>3. stack'[Len(stack')] = stack[Len(stack)]
        BY <2>3, <4>2
      <4>4. stack[Len(stack)] = disk
        BY <3>2 DEF PreferInv, StackInv
      <4>5. stack' # <<>>
        BY <4>2, <2>2
      <4> QED BY <1>2, <4>3, <4>4, <4>5 DEF StackInv
    <3> QED BY <3>1, <3>2
  <2>5. /\ Denotes(view, pref', prefDisk', Excused') /\ Denotes(disk, pref', prefDisk', Excused')
        /\ \A i \in 1..Len(stack) : Denotes(stack[i], pref', prefDisk', Excused')
    BY <1>2, DenotesStays DEF PreferInv, TablesDenote
  <2>6. \A i \in 1..Len(stack') : i = 1 \/ i - 1 \in 1..Len(stack)
    BY <2>2
  <2>7. \A i \in 1..Len(stack') : Denotes(stack'[i], pref', prefDisk', Excused')
    BY <2>3, <2>5, <2>6
  <2>8. TablesDenote'
    BY <1>2, <2>5, <2>7 DEF TablesDenote
  <2>9. Forgets' /\ PrefsTyped'
    BY <1>1, <1>2, ForgetsKept DEF PreferInv, PrefsTyped
  <2> QED BY <2>4, <2>8, <2>9 DEF PreferInv
<1> QED BY <1>3, <1>4 DEF BeginTransaction

LEMMA TailStack ==
  ASSUME IInv, PreferInv, stack # <<>>
  PROVE  /\ Head(stack) = stack[1] /\ 1 \in 1..Len(stack)
         /\ Tail(stack) \in Seq(Db) /\ Len(Tail(stack)) = Len(stack) - 1
         /\ \A i \in 1..Len(Tail(stack)) : i + 1 \in 1..Len(stack) /\ Tail(stack)[i] = stack[i + 1]
         /\ Len(stack) = 1 => Tail(stack) = <<>> /\ Head(stack) = disk
         /\ Len(stack) # 1 => Tail(stack) # <<>> /\ Tail(stack)[Len(Tail(stack))] = disk
<1>1. stack \in Seq(Db) /\ Len(stack) \in Nat \ {0}
  BY TablesAre
<1>2. Tail(stack) \in Seq(Db) /\ Len(Tail(stack)) = Len(stack) - 1
  BY <1>1
<1>3. \A i \in 1..Len(Tail(stack)) : i + 1 \in 1..Len(stack) /\ Tail(stack)[i] = stack[i + 1]
  BY <1>1, <1>2
<1>4. stack[Len(stack)] = disk
  BY DEF PreferInv, StackInv
<1>5. CASE Len(stack) = 1
  BY <1>1, <1>2, <1>3, <1>4, <1>5
<1>6. CASE Len(stack) # 1
  <2>1. Len(Tail(stack)) \in 1..Len(Tail(stack)) /\ Len(Tail(stack)) + 1 = Len(stack)
    BY <1>1, <1>2, <1>6
  <2>2. Tail(stack)[Len(Tail(stack))] = disk
    BY <1>3, <1>4, <2>1
  <2>3. Tail(stack) # <<>>
    BY <2>1, <1>2
  <2> QED BY <1>1, <1>2, <1>3, <1>6, <2>2, <2>3
<1> QED BY <1>5, <1>6

LEMMA PreferEnd ==
  ASSUME IInv, PreferInv, NEW t \in Threads, NEW ok \in BOOLEAN, Commit(t, ok) \/ RollBack(t, ok)
  PROVE  PreferInv'
<1>1. \A u \in Threads : run'[u].kind = "resetAll" => run[u].kind = "resetAll"
  BY GoKinds DEF Commit, RollBack, IInv
<1>2. UNCHANGED <<pref, prefDisk>> /\ exposed \subseteq exposed'
  BY DEF Commit, RollBack, Expose
<1>3. Forgets' /\ PrefsTyped'
  BY <1>1, <1>2, ForgetsKept DEF PreferInv, PrefsTyped
<1>4. /\ Denotes(view, pref', prefDisk', Excused') /\ Denotes(disk, pref', prefDisk', Excused')
      /\ \A i \in 1..Len(stack) : Denotes(stack[i], pref', prefDisk', Excused')
  BY <1>2, DenotesStays DEF PreferInv, TablesDenote
<1>5. CASE UNCHANGED <<view, disk, stack>>
  BY <1>1, <1>2, <1>5, PreferSame
<1>6. CASE stack # <<>> /\ stack' = Tail(stack)
  <2>1. \A i \in 1..Len(stack') : Denotes(stack'[i], pref', prefDisk', Excused')
    BY <1>4, <1>6, TailStack
  <2>2. CASE Commit(t, ok)
    <3>1. view' = view /\ disk' = IF Len(stack) = 1 THEN view ELSE disk
      BY <1>6, <2>2 DEF Commit
    <3>2. StackInv'
      <4>1. CASE Len(stack) = 1
        BY <1>6, <3>1, <4>1, TailStack DEF StackInv
      <4>2. CASE Len(stack) # 1
        BY <1>6, <3>1, <4>2, TailStack DEF StackInv
      <4> QED BY <4>1, <4>2
    <3>3. TablesDenote'
      BY <1>4, <2>1, <3>1 DEF TablesDenote
    <3> QED BY <1>3, <3>2, <3>3 DEF PreferInv
  <2>3. CASE RollBack(t, ok)
    <3>1. view' = Head(stack) /\ disk' = disk
      BY <1>6, <2>3 DEF RollBack
    <3>2. StackInv'
      <4>1. CASE Len(stack) = 1
        BY <1>6, <3>1, <4>1, TailStack DEF StackInv
      <4>2. CASE Len(stack) # 1
        BY <1>6, <3>1, <4>2, TailStack DEF StackInv
      <4> QED BY <4>1, <4>2
    <3>3. Denotes(view', pref', prefDisk', Excused')
      BY <1>4, <1>6, <3>1, TailStack
    <3>4. TablesDenote'
      BY <1>4, <2>1, <3>1, <3>3 DEF TablesDenote
    <3> QED BY <1>3, <3>2, <3>4 DEF PreferInv
  <2> QED BY <2>2, <2>3
<1> QED BY <1>5, <1>6 DEF Commit, RollBack

(* The clients' steps.                                                     *)
LEMMA PreferEdit ==
  ASSUME IInv, PreferInv, NEW tbl \in AnyTable, Follows(tbl, view.pdp_profile),
         Execute([view EXCEPT !.pdp_profile = tbl]), UNCHANGED <<stack, pref, prefDisk, run, exposed>>
  PROVE  PreferInv'
<1>1. Denotes([view EXCEPT !.pdp_profile = tbl], pref, prefDisk, Excused)
  BY PdpFollows
<1> QED BY <1>1, PreferExecuted

LEMMA PreferClient ==
  ASSUME IInv, PreferInv,
         \/ \E o \in Opkeys, p \in Profiles : InsertEdited(o, p)
         \/ \E r \in view.pdp_profile.rows : UpdateApn(r) \/ DeleteApn(r)
  PROVE  PreferInv'
<1>0. view.pdp_profile \in AnyTable /\ User \in Nat
  BY TablesAre DEF User
<1>1. ASSUME NEW o \in Opkeys, NEW p \in Profiles, InsertEdited(o, p) PROVE PreferInv'
  <2> DEFINE tbl == Inserted(view.pdp_profile, o, p, User)
  <2>1. tbl \in AnyTable /\ Follows(tbl, view.pdp_profile)
    BY <1>0, InsertedTable, InsertedFollows
  <2>2. Execute([view EXCEPT !.pdp_profile = tbl]) /\ UNCHANGED <<stack, pref, prefDisk, run, exposed>>
    BY <1>1 DEF InsertEdited
  <2> HIDE DEF tbl
  <2> QED BY <2>1, <2>2, PreferEdit
<1>2. ASSUME NEW r \in view.pdp_profile.rows
      PROVE  /\ Taken(view.pdp_profile, r) \in AnyTable
             /\ Taken(view.pdp_profile, r).rows = view.pdp_profile.rows
             /\ Taken(view.pdp_profile, r).last = view.pdp_profile.last
  BY <1>0, TakenTable DEF Taken, AnyTable
<1>3. ASSUME NEW r \in view.pdp_profile.rows, UpdateApn(r) PROVE PreferInv'
  <2> DEFINE old == Taken(view.pdp_profile, r)
             new == [r EXCEPT !.version = User]
             tbl == [old EXCEPT !.rows = (@ \ {r}) \union {new}]
  <2>1. /\ Execute([view EXCEPT !.pdp_profile = tbl]) /\ UNCHANGED <<stack, pref, prefDisk, run, exposed>>
    BY <1>3 DEF UpdateApn
  <2>2. r \in AnyRow
    BY <1>0 DEF AnyTable
  <2>3. new \in AnyRow /\ new.opkey = r.opkey /\ new.profile = r.profile /\ new.id = r.id
    BY <1>0, <2>2 DEF AnyRow
  <2> HIDE DEF old, new
  <2>4. old \in AnyTable /\ old.rows = view.pdp_profile.rows /\ old.last = view.pdp_profile.last
    BY <1>2 DEF old
  <2>5. /\ tbl \in AnyTable /\ tbl.rows = (view.pdp_profile.rows \ {r}) \union {new}
        /\ tbl.last = view.pdp_profile.last
    BY <2>3, <2>4 DEF AnyTable
  <2> HIDE DEF tbl
  <2>6. Follows(tbl, view.pdp_profile)
    BY <1>0, <2>3, <2>5, UpdatedFollows
  <2> QED BY <2>1, <2>5, <2>6, PreferEdit
<1>4. ASSUME NEW r \in view.pdp_profile.rows, DeleteApn(r) PROVE PreferInv'
  <2> DEFINE old == Taken(view.pdp_profile, r)
             tbl == Deleted(old, {r})
  <2>1. /\ Execute([view EXCEPT !.pdp_profile = tbl]) /\ UNCHANGED <<stack, pref, prefDisk, run, exposed>>
    BY <1>4 DEF DeleteApn
  <2> HIDE DEF old
  <2>2. old \in AnyTable /\ old.rows = view.pdp_profile.rows /\ old.last = view.pdp_profile.last
    BY <1>2 DEF old
  <2>3. tbl \in AnyTable /\ tbl.rows = view.pdp_profile.rows \ {r} /\ tbl.last = view.pdp_profile.last
    BY <2>2, DeletedTable DEF Deleted, AnyTable
  <2> HIDE DEF tbl
  <2>4. Follows(tbl, view.pdp_profile)
    BY <1>0, <2>3, SomeFollow
  <2> QED BY <2>1, <2>3, <2>4, PreferEdit
<1> QED BY <1>1, <1>3, <1>4

LEMMA PreferChosen ==
  ASSUME IInv, PreferInv, NEW o \in Opkeys, NEW r \in view.pdp_profile.rows, SetPreferApn(o, r)
  PROVE  PreferInv'
<1> DEFINE given == [id |-> r.id, of |-> <<o, r.profile>>]
<1>1. /\ UNCHANGED <<view, disk, stack, prefDisk, run>> /\ r.opkey = o /\ Free
      /\ pref' = [pref EXCEPT !.prefer[o] = given]
      /\ exposed' = IF stack # <<>> THEN exposed \union {"preferred"} ELSE exposed
  BY DEF SetPreferApn, db, Expose
<1>2. given \in Choice /\ given.id = r.id /\ given.of = <<r.opkey, r.profile>>
  <2>1. r \in AnyRow
    BY TablesAre DEF AnyTable
  <2>2. r.id \in Nat /\ r.profile \in Profiles
    BY <2>1 DEF AnyRow
  <2> QED BY <1>1, <2>2 DEF Choice
<1> HIDE DEF given
<1>3. /\ pref' \in Prefs /\ pref'.prefer[o] = given
      /\ \A x \in Opkeys \ {o} : pref'.prefer[x] = pref.prefer[x]
  BY <1>1, <1>2 DEF PreferInv, PrefsTyped, Prefs
<1>4. PrefsTyped'
  BY <1>1, <1>3 DEF PreferInv, PrefsTyped
<1>5. StackInv'
  BY <1>1 DEF PreferInv, StackInv
<1>6. Forgets'
  BY <1>1 DEF Forgets, Free
<1>7. CASE stack = <<>>
  <2>1. view = disk /\ Denotes(view, pref, prefDisk, Excused) /\ Excused' = Excused
    BY <1>1, <1>7 DEF PreferInv, StackInv, TablesDenote, Excused
  <2>2. r.id <= view.pdp_profile.last /\ \A q \in view.pdp_profile.rows : q.id = r.id => q = r
    BY <2>1 DEF Denotes, IdsGiven
  <2>3. Fits(view.pdp_profile, pref) => Fits(view.pdp_profile, pref')
    BY <1>2, <1>3, <2>2 DEF Fits
  <2>4. Denotes(view, pref', prefDisk', Excused')
    BY <1>1, <2>1, <2>3, Zenon DEF Denotes
  <2>5. \A i \in 1..Len(stack) : Denotes(stack[i], pref', prefDisk', Excused')
    <3>1. Len(stack) = 0
      BY <1>7
    <3> QED BY <3>1
  <2>6. TablesDenote'
    BY <1>1, <2>1, <2>4, <2>5 DEF TablesDenote
  <2> QED BY <1>4, <1>5, <1>6, <2>6 DEF PreferInv
<1>8. CASE stack # <<>>
  <2>1. Excused'
    BY <1>1, <1>8 DEF Excused
  <2>2. \A s : Denotes(s, pref, prefDisk, Excused) => Denotes(s, pref', prefDisk', Excused')
    BY <2>1 DEF Denotes
  <2>3. TablesDenote'
    BY <1>1, <2>2 DEF PreferInv, TablesDenote
  <2> QED BY <1>4, <1>5, <1>6, <2>3 DEF PreferInv
<1> QED BY <1>7, <1>8

LEMMA PreferCrash ==
  ASSUME IInv, PreferInv, NEW updated \in BOOLEAN, Crash(updated)
  PROVE  PreferInv'
<1>1. /\ view' = disk /\ disk' = disk /\ stack' = <<>> /\ pref' = prefDisk /\ prefDisk' = prefDisk
      /\ run' = [t \in Threads |-> Idle] /\ exposed \subseteq exposed'
  BY DEF Crash, Expose
<1>2. PrefsTyped' /\ StackInv'
  BY <1>1 DEF PreferInv, PrefsTyped, StackInv
<1>3. Forgets'
  BY <1>1 DEF Forgets, Idle
<1>4. Denotes(disk, prefDisk, prefDisk, Excused')
  BY <1>1 DEF PreferInv, TablesDenote, Denotes, Excused
<1>5. Len(stack') = 0
  BY <1>1
<1>6. TablesDenote'
  BY <1>1, <1>4, <1>5 DEF TablesDenote
<1> QED BY <1>2, <1>3, <1>6 DEF PreferInv

LEMMA InitDataGiven ==
  ASSUME NEW S \in SUBSET Profiles, NEW tbl \in InitData(S)
  PROVE  IdsGiven(tbl)
<1>1. IsFiniteSet(S) /\ Cardinality(S) \in Nat
  BY FS_Subset, FS_CardinalityType, ApnAssumption
<1>2. PICK ids \in Bijection(S, 1..Cardinality(S)) :
        tbl = [Empty(TRUE) EXCEPT
                 !.rows = {[id |-> ids[p], opkey |-> Common, profile |-> p, version |-> 1] : p \in S},
                 !.last = Cardinality(S)]
  BY Zenon DEF InitData
<1>3. ids \in [S -> 1..Cardinality(S)] /\ \A p, q \in S : ids[p] = ids[q] => p = q
  BY DEF Bijection, Injection, IsInjective
<1> DEFINE rows == {[id |-> ids[p], opkey |-> Common, profile |-> p, version |-> 1] : p \in S}
<1>4. \A r \in rows : r.id \in 1..Cardinality(S)
  BY <1>1, <1>3
<1>5. \A r, q \in rows : r.id = q.id => r = q
  BY <1>3
<1>6. tbl = [Empty(TRUE) EXCEPT !.rows = rows, !.last = Cardinality(S)]
  BY <1>2
<1> HIDE DEF rows
<1>7. tbl.rows = rows /\ tbl.last = Cardinality(S)
  BY <1>6 DEF Empty
<1> QED BY <1>4, <1>5, <1>7 DEF IdsGiven

LEMMA InitPrefer == Init => PreferInv
<1> SUFFICES ASSUME Init PROVE PreferInv
  OBVIOUS
<1>0. PICK S \in SUBSET Profiles :
        \E tbl \in InitData(S) : view = [pdp_profile |-> tbl, temp |-> Empty(FALSE)]
  BY DEF Init
<1>1. PICK tbl \in InitData(S) : view = [pdp_profile |-> tbl, temp |-> Empty(FALSE)]
  BY <1>0
<1>2. /\ disk = view /\ stack = <<>> /\ pref = NoPref /\ prefDisk = NoPref
      /\ run = [t \in Threads |-> Idle]
  BY DEF Init
<1>3. NoPref \in Prefs /\ Forgotten(NoPref)
  BY DEF NoPref, Prefs, NoProfile, Choice, NoChecksum, Forgotten
<1>4. Denotes(view, pref, prefDisk, Excused)
  BY <1>1, <1>2, <1>3, InitDataGiven, EmptyGiven, ForgottenFits DEF Denotes
<1>5. Len(stack) = 0
  BY <1>2
<1>6. TablesDenote
  BY <1>2, <1>4, <1>5 DEF TablesDenote
<1>7. PrefsTyped /\ StackInv /\ Forgets
  BY <1>2, <1>3 DEF PrefsTyped, StackInv, Forgets
<1> QED BY <1>6, <1>7 DEF PreferInv

LEMMA NextPrefer == IInv /\ PreferInv /\ [Next]_vars => PreferInv'
<1> SUFFICES ASSUME IInv, PreferInv, [Next]_vars PROVE PreferInv'
  OBVIOUS
<1>1. ASSUME NEW t \in Threads, Thread(t) PROVE PreferInv'
  BY <1>1, PreferStart, PreferStatement, PreferInsert, PreferQuietSteps, PreferBegin, PreferEnd DEF Thread
<1>2. CASE Client
  BY <1>2, PreferClient, PreferChosen DEF Client
<1>3. CASE FlushPreferences
  <2>1. UNCHANGED <<view, disk, stack, pref, run, exposed>> /\ prefDisk' = pref
    BY <1>3 DEF FlushPreferences, db
  <2>2. PrefsTyped'
    BY <2>1 DEF PreferInv, PrefsTyped
  <2> QED BY <2>1, <2>2, PreferQuiet
<1>4. ASSUME NEW updated \in BOOLEAN, Crash(updated) PROVE PreferInv'
  BY <1>4, PreferCrash
<1>5. CASE UNCHANGED vars
  BY <1>5, PreferSame DEF vars, db
<1> QED BY <1>1, <1>2, <1>3, <1>4, <1>5 DEF Next

(* The profile_id stored as preferred never comes to denote a profile      *)
(* that was not the one chosen: whatever transactions are rolled back or   *)
(* left open, and although the ids start again at one in a rebuilt table.  *)
THEOREM PreferredStaysChosen == Spec => []PreferredIsChosen
<1>1. IInv /\ PreferInv => PreferredIsChosen
  <2> SUFFICES ASSUME IInv, PreferInv, "preferred" \notin exposed, NEW o \in Opkeys,
                      NEW r \in view.pdp_profile.rows, r.id = pref.prefer[o].id
               PROVE  <<r.opkey, r.profile>> = pref.prefer[o].of
    BY DEF PreferredIsChosen
  <2>1. IdsGiven(view.pdp_profile) /\ Fits(view.pdp_profile, pref)
    BY DEF PreferInv, TablesDenote, Denotes, Excused
  <2>2. view.pdp_profile.last \in Nat /\ NoProfile.id = 0
    BY TablesAre DEF AnyTable, NoProfile
  <2>3. r.id # 0
    BY <2>1, <2>2 DEF IdsGiven
  <2> QED BY <2>1, <2>2, <2>3 DEF Fits
<1>2. Init => IInv /\ PreferInv
  BY InitIInv, InitPrefer
<1>3. IInv /\ PreferInv /\ [Next]_vars => IInv' /\ PreferInv'
  BY NextIInv, NextPrefer
<1> QED BY <1>1, <1>2, <1>3, PTL DEF Spec

-----------------------------------------------------------------------------
(* What a checksum stands for.  The operator's rows are those of version v *)
(* of its file, but for entries still to do and what clients took.         *)
Partial(tbl, o, todo, v) ==
  /\ tbl.there
  /\ \A r \in tbl.rows : r.opkey = o => r.version \in {v, User}
  /\ \A p \in Profiles \ todo :
       \/ <<o, p>> \in tbl.taken
       \/ \E r \in tbl.rows : r.opkey = o /\ r.profile = p /\ r.version = v
Preserves(new, tbl, o, v) ==
  \A todo \in SUBSET Profiles : Partial(tbl, o, todo, v) => Partial(new, o, todo, v)

(* The steps of each call.                                                 *)
Loads == {"init", "reset"}
TaskOK(task) ==
  /\ task.kind \in Loads => task.opkey \in Opkeys
  /\ task.kind = "init" => task.step \in {"begin", "clear", "load", "commit", "rollback", "save"}
  /\ task.kind = "reset" =>
       task.step \in {"delete", "parse", "begin", "clear", "load", "commit", "rollback", "save"}
  /\ task.kind = "resetAll" => task.step \notin {"idle", "delete", "clear", "save"}
  /\ task.kind = "none" => task.step = "idle"
  /\ task.kind \in Loads /\ task.step \in {"delete", "parse", "begin", "clear"} => task.todo = Profiles
  /\ task.kind \in Loads /\ task.step = "commit" => task.todo = {}
StepsInv == \A t \in Threads : TaskOK(run[t])

(* Files only get newer.                                                   *)
Sums == \A o \in Opkeys : pref.checksum[o] <= file /\ prefDisk.checksum[o] <= file

(* One thread at a time has a transaction of its own.                      *)
InTransaction(task) ==
  \/ task.step \in {"clear", "load", "commit", "create", "drop", "rename", "rollback"}
  \/ task.step = "parse" /\ task.kind = "resetAll"
Owned ==
  /\ Len(stack) <= 1
  /\ \A t \in Threads : InTransaction(run[t]) => stack # <<>>
  /\ \A t, u \in Threads : InTransaction(run[t]) /\ InTransaction(run[u]) => u = t

(* A RESET of everything has forgotten the checksums, and no INIT is under *)
(* way that could record one.                                              *)
Unrecorded == \A o \in Opkeys : pref.checksum[o] = NoChecksum /\ prefDisk.checksum[o] = NoChecksum
Alone ==
  (\E t \in Threads : run[t].kind = "resetAll") =>
    /\ \A u \in Threads : run[u].kind # "init"
    /\ Unrecorded

(* RESET of the operator, which has rows to load; and INIT, loading them.  *)
Renewing(o) == \E t \in Threads : run[t].kind = "reset" /\ run[t].opkey = o /\ run[t].step # "save"
Loading(o) == \E t \in Threads : run[t].kind = "init" /\ run[t].opkey = o /\ run[t].step = "load"

(* What a thread has loaded is there, unless RESET deletes it again.       *)
Claim(task) ==
  task.kind \in Loads /\ task.step \in {"load", "commit"} =>
    \/ Partial(view.pdp_profile, task.opkey, task.todo, file)
    \/ task.kind = "init" /\ Renewing(task.opkey)
Claims == \A t \in Threads : Claim(run[t])

(* The checksum is recorded, or will be; then the rows are there.          *)
Due(o) == \/ pref.checksum[o] = file \/ prefDisk.checksum[o] = file
          \/ \E t \in Threads : run[t].opkey = o /\ run[t].step = "save"
Settled(o) ==
  Due(o) => /\ Partial(disk.pdp_profile, o, {}, file) \/ Renewing(o)
            /\ Partial(view.pdp_profile, o, {}, file) \/ Renewing(o) \/ Loading(o)

Sound == Owned /\ Alone /\ Claims /\ \A o \in Opkeys : Settled(o)
CheckInv == StepsInv /\ Sums /\ ("checksum" \notin exposed => Sound)

(* The operations of the tables.                                           *)
LEMMA InsertedPartial ==
  ASSUME NEW tbl \in AnyTable, NEW x \in Opkeys \union {Common}, NEW p \in Profiles, NEW v \in Nat,
         NEW o, NEW f, NEW todo, Partial(tbl, o, todo, f)
  PROVE  /\ x # o \/ (v = User /\ f # User) => Partial(Inserted(tbl, x, p, v), o, todo, f)
         /\ x = o /\ v = f /\ f # User => Partial(Inserted(tbl, x, p, v), o, todo \ {p}, f)
<1> DEFINE row == [id |-> tbl.last + 1, opkey |-> x, profile |-> p, version |-> v]
           same == {r \in tbl.rows : r.opkey = x /\ r.profile = p /\ r.version = v}
           took == IF v = User THEN tbl.taken ELSE tbl.taken \ {<<x, p>>}
           new == Inserted(tbl, x, p, v)
<1>1. new = [tbl EXCEPT !.rows = (tbl.rows \ same) \union {row}, !.last = tbl.last + 1, !.taken = took]
  BY Zenon DEF Inserted
<1>2. row.opkey = x /\ row.profile = p /\ row.version = v
  OBVIOUS
<1>3. \A r \in same : r.opkey = x /\ r.profile = p /\ r.version = v
  OBVIOUS
<1>4. /\ \A q : x # o \/ v = User \/ p # q => (<<o, q>> \in tbl.taken => <<o, q>> \in took)
  OBVIOUS
<1> HIDE DEF same, took, row, new
<1>5. new.rows = (tbl.rows \ same) \union {row} /\ new.taken = took /\ new.there = tbl.there
  BY <1>1 DEF AnyTable
<1>6. CASE x # o \/ (v = User /\ f # User)
  <2>1. \A r \in new.rows : r.opkey = o => r.version \in {f, User}
    BY <1>2, <1>5, <1>6 DEF Partial
  <2>2. \A q \in Profiles : <<o, q>> \in tbl.taken => <<o, q>> \in new.taken
    BY <1>4, <1>5, <1>6
  <2>3. \A r \in tbl.rows : r.opkey = o /\ r.version = f => r \in new.rows
    BY <1>3, <1>5, <1>6
  <2>4. Partial(new, o, todo, f)
    BY <1>5, <2>1, <2>2, <2>3 DEF Partial
  <2> QED BY <1>6, <2>4 DEF new
<1>7. CASE x = o /\ v = f /\ f # User
  <2>1. \A r \in new.rows : r.opkey = o => r.version \in {f, User}
    BY <1>2, <1>5, <1>7 DEF Partial
  <2>2. \A q \in Profiles \ {p} : <<o, q>> \in tbl.taken => <<o, q>> \in new.taken
    BY <1>4, <1>5
  <2>3. \A r \in tbl.rows : r.profile # p => r \in new.rows
    BY <1>3, <1>5
  <2>4. row \in new.rows
    BY <1>5
  <2>5. \A q \in Profiles \ (todo \ {p}) :
          <<o, q>> \in new.taken \/ \E r \in new.rows : r.opkey = o /\ r.profile = q /\ r.version = f
    <3> TAKE q \in Profiles \ (todo \ {p})
    <3>1. CASE q = p
      BY <1>2, <1>7, <2>4, <3>1
    <3>2. CASE q # p
      BY <2>2, <2>3, <3>2 DEF Partial
    <3> QED BY <3>1, <3>2
  <2>6. Partial(new, o, todo \ {p}, f)
    BY <1>5, <2>1, <2>5 DEF Partial
  <2> QED BY <1>7, <2>6 DEF new
<1> QED BY <1>6, <1>7

LEMMA DeletedPartial ==
  ASSUME NEW tbl \in AnyTable, NEW gone, NEW o, NEW f, \A r \in gone : r.opkey # o
  PROVE  Preserves(Deleted(tbl, gone), tbl, o, f)
BY DEF Preserves, Partial, Deleted, AnyTable

LEMMA ClearedPartial ==
  ASSUME NEW tbl \in AnyTable, NEW o, NEW f, tbl.there
  PROVE  Partial(Deleted(tbl, Unedited(tbl, o)), o, Profiles, f)
BY DEF Partial, Deleted, Unedited, AnyTable

LEMMA TakenIs ==
  ASSUME NEW tbl \in AnyTable, NEW r \in tbl.rows
  PROVE  /\ Taken(tbl, r).there = tbl.there
         /\ tbl.taken \subseteq Taken(tbl, r).taken
         /\ r.version # User /\ r.opkey # Common => <<r.opkey, r.profile>> \in Taken(tbl, r).taken
<1> DEFINE took == IF r.version = User \/ r.opkey = Common THEN tbl.taken
                   ELSE tbl.taken \union {<<r.opkey, r.profile>>}
<1>1. Taken(tbl, r) = [tbl EXCEPT !.taken = took]
  BY Zenon DEF Taken
<1>2. tbl.taken \subseteq took /\ (r.version # User /\ r.opkey # Common => <<r.opkey, r.profile>> \in took)
  OBVIOUS
<1> HIDE DEF took
<1> QED BY <1>1, <1>2 DEF AnyTable

LEMMA UpdatedPartial ==
  ASSUME NEW tbl \in AnyTable, NEW r \in tbl.rows, NEW new, NEW gone, NEW o \in Opkeys, NEW f, f # User,
         new.there = Taken(tbl, r).there, new.taken = Taken(tbl, r).taken,
         new.rows = (tbl.rows \ {r}) \union gone,
         \A q \in gone : q.version = User
  PROVE  Preserves(new, tbl, o, f)
<1> SUFFICES ASSUME NEW todo \in SUBSET Profiles, Partial(tbl, o, todo, f) PROVE Partial(new, o, todo, f)
  BY DEF Preserves
<1>1. new.there /\ tbl.taken \subseteq new.taken
  BY TakenIs DEF Partial
<1>2. \A q \in new.rows : q.opkey = o => q.version \in {f, User}
  BY DEF Partial
<1>3. ASSUME NEW p \in Profiles \ todo
      PROVE  <<o, p>> \in new.taken \/ \E q \in new.rows : q.opkey = o /\ q.profile = p /\ q.version = f
  <2>1. CASE <<o, p>> \in tbl.taken
    BY <1>1, <2>1
  <2>2. CASE \E q \in tbl.rows : q.opkey = o /\ q.profile = p /\ q.version = f
    <3>1. PICK q \in tbl.rows : q.opkey = o /\ q.profile = p /\ q.version = f
      BY <2>2
    <3>2. CASE q = r
      <4>1. r.version # User /\ r.opkey # Common
        BY <3>1, <3>2, ApnAssumption
      <4> QED BY <3>1, <3>2, <4>1, TakenIs
    <3>3. CASE q # r
      BY <3>1, <3>3
    <3> QED BY <3>2, <3>3
  <2> QED BY <1>3, <2>1, <2>2 DEF Partial
<1> QED BY <1>1, <1>2, <1>3 DEF Partial

-----------------------------------------------------------------------------
(* What the next step of one thread leaves of these.                       *)
LEMMA OthersStay ==
  ASSUME TasksTyped, NEW t \in Threads, NEW task, run' = [run EXCEPT ![t] = task]
  PROVE  run'[t] = task /\ \A u \in Threads \ {t} : run'[u] = run[u]
BY DEF TasksTyped

LEMMA StepsKept ==
  ASSUME TasksTyped, StepsInv, NEW t \in Threads, NEW task, run' = [run EXCEPT ![t] = task], TaskOK(task)
  PROVE  StepsInv'
BY OthersStay DEF StepsInv

LEMMA RenewingKept ==
  ASSUME TasksTyped, NEW t \in Threads, NEW task, run' = [run EXCEPT ![t] = task], NEW o,
         run[t].kind = "reset" /\ run[t].step # "save" =>
           task.kind = "reset" /\ task.opkey = run[t].opkey /\ task.step # "save"
  PROVE  Renewing(o) => Renewing(o)'
<1> SUFFICES ASSUME NEW u \in Threads, run[u].kind = "reset", run[u].opkey = o, run[u].step # "save"
             PROVE  \E w \in Threads : run'[w].kind = "reset" /\ run'[w].opkey = o /\ run'[w].step # "save"
  BY DEF Renewing
<1> QED BY OthersStay

LEMMA LoadingKept ==
  ASSUME TasksTyped, NEW t \in Threads, NEW task, run' = [run EXCEPT ![t] = task], NEW o,
         run[t].kind = "init" /\ run[t].step = "load" =>
           task.kind = "init" /\ task.opkey = run[t].opkey /\ task.step = "load"
  PROVE  Loading(o) => Loading(o)'
<1> SUFFICES ASSUME NEW u \in Threads, run[u].kind = "init", run[u].opkey = o, run[u].step = "load"
             PROVE  \E w \in Threads : run'[w].kind = "init" /\ run'[w].opkey = o /\ run'[w].step = "load"
  BY DEF Loading
<1> QED BY OthersStay

LEMMA DueKept ==
  ASSUME TasksTyped, NEW t \in Threads, NEW task, run' = [run EXCEPT ![t] = task], NEW o,
         UNCHANGED file, pref'.checksum[o] = pref.checksum[o], prefDisk'.checksum[o] = prefDisk.checksum[o],
         task.step = "save" => run[t].step = "save" /\ task.opkey = run[t].opkey
  PROVE  Due(o)' => Due(o)
<1> SUFFICES ASSUME NEW u \in Threads, run'[u].opkey = o, run'[u].step = "save"
             PROVE  \E w \in Threads : run[w].opkey = o /\ run[w].step = "save"
  BY DEF Due
<1> QED BY OthersStay

LEMMA OwnedKept ==
  ASSUME TasksTyped, Owned, NEW t \in Threads, NEW task, run' = [run EXCEPT ![t] = task],
         Len(stack') <= 1,
         InTransaction(task) => stack' # <<>> /\ (InTransaction(run[t]) \/ stack = <<>>),
         stack' = stack \/ InTransaction(run[t]) \/ stack = <<>>
  PROVE  Owned'
<1>1. run'[t] = task /\ \A u \in Threads \ {t} : run'[u] = run[u]
  BY OthersStay
<1>2. \A u \in Threads \ {t} : InTransaction(run[u]) => stack # <<>> /\ ~InTransaction(run[t])
  BY DEF Owned
<1>3. \A u \in Threads : InTransaction(run'[u]) => stack' # <<>>
  BY <1>1, <1>2
<1>4. ASSUME NEW u \in Threads, NEW w \in Threads, InTransaction(run'[u]), InTransaction(run'[w])
      PROVE  u = w
  BY <1>1, <1>2, <1>4 DEF Owned
<1> QED BY <1>3, <1>4 DEF Owned

LEMMA AloneKept ==
  ASSUME TasksTyped, Alone, NEW t \in Threads, NEW task, run' = [run EXCEPT ![t] = task],
         task.kind = "resetAll" => run[t].kind = "resetAll",
         task.kind = "init" => run[t].kind = "init",
         (\E u \in Threads : run[u].kind = "resetAll") => UNCHANGED <<pref.checksum, prefDisk.checksum>>
  PROVE  Alone'
<1> SUFFICES ASSUME NEW w \in Threads, run'[w].kind = "resetAll"
             PROVE  (\A u \in Threads : run'[u].kind # "init") /\ Unrecorded'
  BY DEF Alone
<1>1. run'[t] = task /\ \A u \in Threads \ {t} : run'[u] = run[u]
  BY OthersStay
<1>2. \E u \in Threads : run[u].kind = "resetAll"
  BY <1>1
<1>3. (\A u \in Threads : run[u].kind # "init") /\ Unrecorded
  BY <1>2 DEF Alone
<1> QED BY <1>1, <1>2, <1>3 DEF Unrecorded

LEMMA ClaimsKept ==
  ASSUME TasksTyped, LockInv, Owned, Claims, NEW t \in Threads, NEW task, run' = [run EXCEPT ![t] = task],
         UNCHANGED file, Claim(run[t])',
         \A u \in Threads : run[u].todo \in SUBSET Profiles,
         InTransaction(run[t]) \/
           \A o : /\ Renewing(o) => Renewing(o)'
                  /\ \/ Preserves(view'.pdp_profile, view.pdp_profile, o, file)
                     \/ run[t].kind = "reset" /\ Renewing(o)
  PROVE  Claims'
<1> SUFFICES ASSUME NEW u \in Threads, u # t, run[u].kind \in Loads, run[u].step \in {"load", "commit"}
             PROVE  Claim(run[u])'
  <2>1. \A u \in Threads \ {t} : run'[u] = run[u]
    BY OthersStay
  <2>2. \A u \in Threads \ {t} : Claim(run[u])'
    BY <2>1 DEF Claim
  <2> QED BY <2>2 DEF Claims
<1>1. run'[u] = run[u]
  BY OthersStay
<1>2. ~InTransaction(run[t])
  BY DEF Owned, InTransaction
<1> DEFINE o == run[u].opkey
<1>3. /\ Renewing(o) => Renewing(o)'
      /\ \/ Preserves(view'.pdp_profile, view.pdp_profile, o, file)
         \/ run[t].kind = "reset" /\ Renewing(o)
  BY <1>2
<1>4. Partial(view.pdp_profile, o, run[u].todo, file) \/ (run[u].kind = "init" /\ Renewing(o))
  BY DEF Claims, Claim
<1>5. run[t].kind = "reset" => run[u].kind = "init"
  BY DEF LockInv, Loads, Resets
<1>6. \/ Partial(view'.pdp_profile, o, run[u].todo, file)
      \/ run[u].kind = "init" /\ Renewing(o)'
  <2>1. CASE run[u].kind = "init" /\ Renewing(o)
    BY <1>3, <2>1
  <2>2. CASE Partial(view.pdp_profile, o, run[u].todo, file)
    BY <1>3, <1>5, <2>2 DEF Preserves
  <2> QED BY <1>4, <2>1, <2>2
<1> QED BY <1>1, <1>6 DEF Claim

LEMMA TaskIs ==
  ASSUME IInv, NEW t \in Threads
  PROVE  /\ TasksTyped /\ run \in [Threads -> Task] /\ run[t] \in Task
         /\ run[t].kind \in Kinds /\ run[t].step \in Steps
         /\ run[t].opkey \in Opkeys \union {Common} /\ run[t].todo \in SUBSET Profiles
         /\ file \in Nat \ {0}
BY DEF IInv, TasksTyped, Task

LEMMA GoTask ==
  ASSUME TasksTyped, NEW t \in Threads, NEW s, Go(t, s)
  PROVE  \E task : /\ run' = [run EXCEPT ![t] = task]
                   /\ s = "idle" => task.kind = "none" /\ task.step = "idle"
                   /\ s # "idle" => /\ task.kind = run[t].kind /\ task.opkey = run[t].opkey
                                    /\ task.todo = run[t].todo /\ task.step = s
<1>1. CASE s = "idle"
  BY <1>1 DEF Go, Return, Idle
<1>2. CASE s # "idle"
  <2> DEFINE task == [run[t] EXCEPT !.step = s]
  <2>1. run' = [run EXCEPT ![t] = task]
    BY <1>2 DEF Go
  <2>2. task.kind = run[t].kind /\ task.opkey = run[t].opkey /\ task.todo = run[t].todo /\ task.step = s
    BY DEF TasksTyped, Task
  <2> HIDE DEF task
  <2> QED BY <1>2, <2>1, <2>2
<1> QED BY <1>1, <1>2

LEMMA SumsKept ==
  ASSUME Sums, UNCHANGED <<pref.checksum, prefDisk.checksum, file>> PROVE Sums'
BY DEF Sums

(* A step of RESET of everything: every other thread is idle.              *)
LEMMA SoundAlone ==
  ASSUME IInv, StepsInv, Sound, NEW t \in Threads, run[t].kind = "resetAll",
         NEW task, run' = [run EXCEPT ![t] = task], TaskOK(task), task.kind \in {"resetAll", "none"},
         UNCHANGED <<pref.checksum, prefDisk.checksum, file>>,
         Len(stack') <= 1, InTransaction(task) => stack' # <<>>
  PROVE  Sound'
<1>1. run'[t] = task /\ \A u \in Threads \ {t} : run'[u] = run[u]
  BY OthersStay DEF IInv
<1>2. \A u \in Threads \ {t} : run[u].kind = "none" /\ run[u].step = "idle"
  <2> TAKE u \in Threads \ {t}
  <2>1. run[u].kind \in Kinds /\ run[u].kind # "init" /\ run[u].kind \notin Resets
    BY TaskIs DEF Sound, Alone, IInv, LockInv, Resets
  <2>2. run[u].kind = "none"
    BY <2>1 DEF Kinds, Resets
  <2> QED BY <2>2 DEF StepsInv, TaskOK
<1>3. Unrecorded'
  BY DEF Sound, Alone, Unrecorded
<1>4. \A u \in Threads : run'[u].kind \notin Loads /\ run'[u].step # "save"
  BY <1>1, <1>2 DEF Loads, TaskOK
<1>5. Alone'
  BY <1>3, <1>4 DEF Alone, Loads
<1>6. \A u \in Threads \ {t} : ~InTransaction(run'[u])
  BY <1>1, <1>2 DEF InTransaction
<1>7. Owned'
  BY <1>1, <1>6 DEF Owned
<1>8. Claims'
  BY <1>4 DEF Claims, Claim
<1>9. file' # NoChecksum
  BY TaskIs DEF NoChecksum
<1>10. \A o \in Opkeys : Settled(o)'
  BY <1>3, <1>4, <1>9 DEF Settled, Due, Unrecorded
<1> QED BY <1>5, <1>7, <1>8, <1>10 DEF Sound

LEMMA SettledStays ==
  ASSUME NEW o, Settled(o), UNCHANGED <<view, disk, file>>, Due(o)' => Due(o),
         Renewing(o) => Renewing(o)', Loading(o) => Loading(o)'
  PROVE  Settled(o)'
BY DEF Settled

(* A step that leaves the tables alone.                                    *)
LEMMA SoundQuiet ==
  ASSUME IInv, Sound, NEW t \in Threads, NEW task, run' = [run EXCEPT ![t] = task],
         UNCHANGED <<view, disk, stack, file>>, Alone', Claim(run[t])',
         InTransaction(task) => InTransaction(run[t]),
         \A o \in Opkeys : Due(o)' => Due(o),
         \A o : (Renewing(o) => Renewing(o)') /\ (Loading(o) => Loading(o)')
  PROVE  Sound'
<1>1. Owned'
  BY OwnedKept DEF IInv, Sound, Owned
<1>2. Claims'
  <2>1. \A o : Preserves(view'.pdp_profile, view.pdp_profile, o, file)
    BY DEF Preserves
  <2>2. \A u \in Threads : run[u].todo \in SUBSET Profiles
    BY TaskIs
  <2> QED BY <2>1, <2>2, ClaimsKept DEF IInv, Sound
<1>3. \A o \in Opkeys : Settled(o)'
  BY SettledStays DEF Sound
<1> QED BY <1>1, <1>2, <1>3 DEF Sound

(* A statement on the profiles.                                            *)
LEMMA SettledExecuted ==
  ASSUME IInv, StackInv, NEW tbl, Execute([view EXCEPT !.pdp_profile = tbl]), UNCHANGED file,
         NEW o, Settled(o), Due(o)' => Due(o),
         Renewing(o) => Renewing(o)', Loading(o) => Loading(o)',
         Renewing(o)' \/ Preserves(tbl, view.pdp_profile, o, file)
  PROVE  Settled(o)'
<1>1. view'.pdp_profile = tbl
  BY TablesAre DEF Execute, Db
<1>2. CASE Renewing(o)'
  BY <1>2 DEF Settled
<1>3. CASE ~Renewing(o)'
  <2>0. {} \in SUBSET Profiles
    OBVIOUS
  <2>1. Partial(view.pdp_profile, o, {}, file) => Partial(view'.pdp_profile, o, {}, file')
    BY <1>1, <1>3, <2>0 DEF Preserves
  <2>2. \/ disk' = disk
        \/ disk = view /\ disk' = view'
    BY DEF Execute, StackInv
  <2>3. Partial(disk.pdp_profile, o, {}, file) => Partial(disk'.pdp_profile, o, {}, file')
    BY <2>1, <2>2
  <2> QED BY <1>3, <2>1, <2>3 DEF Settled
<1> QED BY <1>2, <1>3

-----------------------------------------------------------------------------
(* One lemma per step of a thread.                                         *)
LEMMA SameSums ==
  ASSUME PreferInv, NEW o \in Opkeys, NEW given, pref' = [pref EXCEPT !.prefer[o] = given]
  PROVE  pref'.checksum = pref.checksum
BY DEF PreferInv, PrefsTyped, Prefs

LEMMA CheckInitStart ==
  ASSUME IInv, PreferInv, CheckInv, NEW t \in Threads, NEW o \in Opkeys, InitAPNDatabase(t, o)
  PROVE  CheckInv'
<1> DEFINE task == [kind |-> "init", step |-> "begin", opkey |-> o, todo |-> Profiles]
<1>1. /\ run[t] = Idle /\ run' = [run EXCEPT ![t] = task]
      /\ UNCHANGED <<view, disk, stack, pref, prefDisk, file>>
      /\ exposed' = IF Overlaps(t, "resetAll") THEN exposed \union {"checksum"} ELSE exposed
  BY DEF InitAPNDatabase, db, Expose
<1>2. TaskOK(task) /\ ~InTransaction(task) /\ task.kind = "init" /\ task.step = "begin"
  BY DEF TaskOK, InTransaction, Loads
<1> HIDE DEF task
<1>3. TasksTyped /\ run[t].kind = "none" /\ run[t].step = "idle"
  BY <1>1, TaskIs DEF Idle
<1>4. StepsInv' /\ Sums'
  BY <1>1, <1>2, <1>3, StepsKept, SumsKept DEF CheckInv
<1>5. ASSUME "checksum" \notin exposed' PROVE Sound'
  <2>1. Sound /\ ~Overlaps(t, "resetAll")
    BY <1>1, <1>5 DEF CheckInv
  <2>2. run'[t] = task /\ \A u \in Threads \ {t} : run'[u] = run[u]
    BY <1>1, <1>3, OthersStay
  <2>3. Alone'
    BY <1>2, <2>1, <2>2 DEF Alone, Overlaps
  <2>4. Claim(run[t])'
    BY <1>2, <2>2 DEF Claim
  <2>5. \A x : (Renewing(x) => Renewing(x)') /\ (Loading(x) => Loading(x)')
    BY <1>1, <1>3, RenewingKept, LoadingKept
  <2>6. \A x \in Opkeys : Due(x)' => Due(x)
    BY <1>1, <1>2, <1>3, DueKept
  <2> QED BY <1>1, <1>2, <2>1, <2>3, <2>4, <2>5, <2>6, SoundQuiet
<1> QED BY <1>4, <1>5 DEF CheckInv

LEMMA CheckResetStart ==
  ASSUME IInv, PreferInv, CheckInv, NEW t \in Threads, NEW o \in Opkeys, ResetApn(t, o)
  PROVE  CheckInv'
<1> DEFINE task == [kind |-> "reset", step |-> "delete", opkey |-> o, todo |-> Profiles]
<1>1. /\ run[t] = Idle /\ run' = [run EXCEPT ![t] = task]
      /\ UNCHANGED <<view, disk, stack, prefDisk, file, exposed>>
      /\ pref'.checksum = pref.checksum
  BY SameSums DEF ResetApn, db
<1>2. TaskOK(task) /\ ~InTransaction(task) /\ task.kind = "reset" /\ task.step = "delete"
  BY DEF TaskOK, InTransaction, Loads
<1> HIDE DEF task
<1>3. TasksTyped /\ run[t].kind = "none" /\ run[t].step = "idle"
  BY <1>1, TaskIs DEF Idle
<1>4. StepsInv' /\ Sums'
  BY <1>1, <1>2, <1>3, StepsKept, SumsKept DEF CheckInv
<1>5. ASSUME "checksum" \notin exposed' PROVE Sound'
  <2>1. Sound
    BY <1>1, <1>5 DEF CheckInv
  <2>2. run'[t] = task /\ \A u \in Threads \ {t} : run'[u] = run[u]
    BY <1>1, <1>3, OthersStay
  <2>3. Alone'
    BY <1>1, <1>2, <1>3, <2>1, AloneKept DEF Sound
  <2>4. Claim(run[t])'
    BY <1>2, <2>2 DEF Claim
  <2>5. \A x : (Renewing(x) => Renewing(x)') /\ (Loading(x) => Loading(x)')
    BY <1>1, <1>3, RenewingKept, LoadingKept
  <2>6. \A x \in Opkeys : Due(x)' => Due(x)
    BY <1>1, <1>2, <1>3, DueKept
  <2> QED BY <1>1, <1>2, <2>1, <2>3, <2>4, <2>5, <2>6, SoundQuiet
<1> QED BY <1>4, <1>5 DEF CheckInv

LEMMA CheckResetAllStart ==
  ASSUME IInv, PreferInv, CheckInv, NEW t \in Threads, NEW ok \in BOOLEAN, ResetApnAll(t, ok)
  PROVE  CheckInv'
<1> DEFINE task == [kind |-> "resetAll", step |-> "begin", opkey |-> Common, todo |-> Profiles]
<1>1. /\ run[t] = Idle /\ Free /\ run' = [run EXCEPT ![t] = task]
      /\ UNCHANGED <<view, disk, stack, file>>
      /\ exposed \subseteq exposed'
      /\ Overlaps(t, "init") \/ ~ok => "checksum" \in exposed'
      /\ \/ pref' = NoPref /\ prefDisk' = NoPref
         \/ ~ok /\ UNCHANGED <<pref, prefDisk>>
  BY DEF ResetApnAll, DeleteProfiles, db
<1>2. TaskOK(task) /\ ~InTransaction(task) /\ task.kind = "resetAll" /\ task.step = "begin"
  BY DEF TaskOK, InTransaction, Loads
<1> HIDE DEF task
<1>3. TasksTyped /\ file \in Nat \ {0}
  BY TaskIs
<1>4. \A o \in Opkeys : NoPref.checksum[o] = NoChecksum /\ NoChecksum = 0
  BY DEF NoPref, NoChecksum
<1>5. Sums'
  BY <1>1, <1>3, <1>4 DEF CheckInv, Sums
<1>6. StepsInv'
  BY <1>1, <1>2, <1>3, StepsKept DEF CheckInv
<1>7. ASSUME "checksum" \notin exposed' PROVE Sound'
  <2>1. Sound /\ ~Overlaps(t, "init") /\ Unrecorded'
    BY <1>1, <1>4, <1>7 DEF CheckInv, Unrecorded
  <2>2. run'[t] = task /\ \A u \in Threads \ {t} : run'[u] = run[u]
    BY <1>1, <1>3, OthersStay
  <2>3. \A u \in Threads \ {t} : run[u].kind = "none"
    BY <1>1, <2>1, TaskIs DEF Overlaps, Free, Kinds
  <2>4. \A u \in Threads : run'[u].kind \notin Loads /\ run'[u].step # "save" /\ ~InTransaction(run'[u])
    BY <1>2, <2>2, <2>3 DEF CheckInv, StepsInv, TaskOK, Loads, InTransaction
  <2>5. Owned'
    BY <1>1, <2>1, <2>4 DEF Sound, Owned
  <2>6. Alone'
    BY <2>1, <2>4 DEF Alone, Loads
  <2>7. Claims'
    BY <2>4 DEF Claims, Claim
  <2>8. \A o \in Opkeys : Settled(o)'
    BY <1>1, <1>3, <1>4, <2>1, <2>4 DEF Settled, Due, Unrecorded
  <2> QED BY <2>5, <2>6, <2>7, <2>8 DEF Sound
<1> QED BY <1>5, <1>6, <1>7 DEF CheckInv

LEMMA CheckDelete ==
  ASSUME IInv, PreferInv, CheckInv, NEW t \in Threads, NEW ok \in BOOLEAN, DeleteOpkey(t, ok)
  PROVE  CheckInv'
<1> DEFINE o == run[t].opkey
           tbl == Deleted(view.pdp_profile, {r \in view.pdp_profile.rows : r.opkey = o})
<1>0. TasksTyped /\ run[t].kind = "reset" /\ run[t].step = "delete" /\ o \in Opkeys /\ run[t].todo = Profiles
  BY TaskIs DEF DeleteOpkey, At, IInv, LockInv, CheckInv, StepsInv, TaskOK, Loads
<1>1. /\ Go(t, "parse") /\ UNCHANGED <<stack, pref, prefDisk, file, exposed>>
      /\ \/ Execute([view EXCEPT !.pdp_profile = tbl])
         \/ UNCHANGED <<view, disk>>
  BY DEF DeleteOpkey
<1>2. PICK task : /\ run' = [run EXCEPT ![t] = task]
                  /\ task.kind = "reset" /\ task.opkey = o /\ task.todo = Profiles /\ task.step = "parse"
  BY <1>0, <1>1, GoTask
<1>3. TaskOK(task) /\ ~InTransaction(task)
  BY <1>0, <1>2 DEF TaskOK, Loads, InTransaction
<1>4. StepsInv' /\ Sums'
  BY <1>0, <1>1, <1>2, <1>3, StepsKept, SumsKept DEF CheckInv
<1>5. ASSUME "checksum" \notin exposed' PROVE Sound'
  <2>1. Sound
    BY <1>1, <1>5 DEF CheckInv
  <2>2. run'[t] = task
    BY <1>0, <1>2, OthersStay
  <2>3. Alone'
    BY <1>0, <1>1, <1>2, <2>1, AloneKept DEF Sound
  <2>4. Claim(run[t])'
    BY <1>2, <2>2 DEF Claim
  <2>5. \A x : (Renewing(x) => Renewing(x)') /\ (Loading(x) => Loading(x)')
    BY <1>0, <1>2, RenewingKept, LoadingKept
  <2>6. \A x \in Opkeys : Due(x)' => Due(x)
    BY <1>0, <1>1, <1>2, DueKept
  <2>7. Renewing(o)
    BY <1>0 DEF Renewing
  <2>8. CASE UNCHANGED <<view, disk>>
    BY <1>1, <1>2, <1>3, <2>1, <2>3, <2>4, <2>5, <2>6, <2>8, SoundQuiet
  <2>9. CASE Execute([view EXCEPT !.pdp_profile = tbl])
    <3>1. \A x : x # o => Preserves(tbl, view.pdp_profile, x, file)
      BY TablesAre, DeletedPartial
    <3> HIDE DEF tbl
    <3>2. view'.pdp_profile = tbl
      BY <2>9, TablesAre DEF Execute, Db
    <3>3. Owned'
      BY <1>0, <1>1, <1>2, <1>3, <2>1, OwnedKept DEF Sound, Owned
    <3>4. \A x : Preserves(view'.pdp_profile, view.pdp_profile, x, file) \/ (run[t].kind = "reset" /\ Renewing(x))
      BY <1>0, <2>7, <3>1, <3>2
    <3>5. \A u \in Threads : run[u].todo \in SUBSET Profiles
      BY TaskIs
    <3>6. Claims'
      BY <1>0, <1>1, <1>2, <2>1, <2>4, <2>5, <3>4, <3>5, ClaimsKept DEF IInv, Sound
    <3>7. ASSUME NEW x \in Opkeys PROVE Settled(x)'
      <4>1. Renewing(x)' \/ Preserves(tbl, view.pdp_profile, x, file)
        BY <2>5, <2>7, <3>1
      <4> QED BY <1>1, <2>1, <2>5, <2>6, <2>9, <4>1, SettledExecuted DEF Sound, PreferInv
    <3> QED BY <2>3, <3>3, <3>6, <3>7 DEF Sound
  <2> QED BY <1>1, <2>8, <2>9
<1> QED BY <1>4, <1>5 DEF CheckInv

(* The steps of RESET of everything.                                       *)
LEMMA CheckAlone ==
  ASSUME IInv, CheckInv, NEW t \in Threads, run[t].kind = "resetAll",
         NEW s \in {"create", "parse", "load", "drop", "rename", "commit", "rollback", "idle"},
         Go(t, s), UNCHANGED <<pref, prefDisk, file>>, exposed \subseteq exposed',
         "checksum" \notin exposed' /\ Owned => Len(stack') <= 1 /\ (s # "idle" => stack' # <<>>)
  PROVE  CheckInv'
<1>0. TasksTyped
  BY TaskIs
<1>1. PICK task : /\ run' = [run EXCEPT ![t] = task]
                  /\ s = "idle" => task.kind = "none" /\ task.step = "idle"
                  /\ s # "idle" => task.kind = "resetAll" /\ task.step = s
  BY <1>0, GoTask
<1>2. TaskOK(task) /\ task.kind \in {"resetAll", "none"} /\ (InTransaction(task) => s # "idle")
  BY <1>1 DEF TaskOK, Loads, InTransaction
<1>3. StepsInv' /\ Sums'
  BY <1>0, <1>1, <1>2, StepsKept, SumsKept DEF CheckInv
<1>4. ASSUME "checksum" \notin exposed' PROVE Sound'
  BY <1>1, <1>2, <1>4, SoundAlone DEF CheckInv, Sound
<1> QED BY <1>3, <1>4 DEF CheckInv

LEMMA CheckRebuild ==
  ASSUME IInv, CheckInv, NEW t \in Threads, NEW ok \in BOOLEAN,
         CreateTemp(t, ok) \/ DropTable(t, ok) \/ RenameTable(t, ok)
  PROVE  CheckInv'
<1>1. run[t].kind = "resetAll" /\ InTransaction(run[t])
  BY DEF CreateTemp, DropTable, RenameTable, At, IInv, LockInv, InTransaction
<1>2. UNCHANGED <<stack, pref, prefDisk, file, exposed>>
  BY DEF CreateTemp, DropTable, RenameTable
<1>3. Owned => Len(stack') <= 1 /\ stack' # <<>>
  BY <1>1, <1>2 DEF Owned
<1>4. \/ Go(t, "parse") \/ Go(t, "idle") \/ Go(t, "rename") \/ Go(t, "rollback") \/ Go(t, "commit")
  BY DEF CreateTemp, DropTable, RenameTable, Go
<1> QED BY <1>1, <1>2, <1>3, <1>4, CheckAlone

LEMMA CheckParse ==
  ASSUME IInv, PreferInv, CheckInv, NEW t \in Threads, NEW ok \in BOOLEAN, ParserPdpProfileJson(t, ok)
  PROVE  CheckInv'
<1>0. TasksTyped /\ run[t].step = "parse"
  BY TaskIs DEF ParserPdpProfileJson, At
<1>1. UNCHANGED <<view, disk, stack, pref, prefDisk, file>> /\ exposed \subseteq exposed'
  BY DEF ParserPdpProfileJson, db, Expose
<1>2. CASE run[t].kind = "resetAll"
  <2>1. Go(t, "load") \/ Go(t, "rollback")
    BY <1>2 DEF ParserPdpProfileJson
  <2>2. Owned => Len(stack') <= 1 /\ stack' # <<>>
    BY <1>0, <1>1, <1>2 DEF Owned, InTransaction
  <2> QED BY <1>1, <1>2, <2>1, <2>2, CheckAlone
<1>3. CASE run[t].kind # "resetAll"
  <2>0. run[t].kind = "reset" /\ run[t].opkey \in Opkeys /\ run[t].todo = Profiles
    BY <1>0, <1>3, TaskIs DEF CheckInv, StepsInv, TaskOK, Loads, Kinds
  <2>1. /\ ok => Go(t, "begin")
        /\ ~ok => Go(t, "idle") /\ "checksum" \in exposed'
    BY <2>0, <1>3 DEF ParserPdpProfileJson, Go, Expose
  <2>2. PICK task :
          /\ run' = [run EXCEPT ![t] = task]
          /\ ok => task.kind = "reset" /\ task.step = "begin" /\ task.opkey = run[t].opkey /\ task.todo = Profiles
          /\ ~ok => task.kind = "none" /\ task.step = "idle"
    <3>1. CASE ok
      BY <1>0, <2>0, <2>1, <3>1, GoTask
    <3>2. CASE ~ok
      BY <1>0, <2>1, <3>2, GoTask
    <3> QED BY <3>1, <3>2
  <2>3. TaskOK(task) /\ ~InTransaction(task)
    BY <2>0, <2>2 DEF TaskOK, Loads, InTransaction
  <2>4. StepsInv' /\ Sums'
    BY <1>0, <1>1, <2>2, <2>3, StepsKept, SumsKept DEF CheckInv
  <2>5. ASSUME "checksum" \notin exposed' PROVE Sound'
    <3>1. Sound /\ ok
      BY <1>1, <2>1, <2>5 DEF CheckInv
    <3>2. run'[t] = task
      BY <1>0, <2>2, OthersStay
    <3>3. Alone'
      BY <1>0, <1>1, <2>0, <2>2, <3>1, AloneKept DEF Sound
    <3>4. Claim(run[t])'
      BY <2>2, <3>1, <3>2 DEF Claim
    <3>5. \A x : (Renewing(x) => Renewing(x)') /\ (Loading(x) => Loading(x)')
      BY <1>0, <2>0, <2>2, <3>1, RenewingKept, LoadingKept
    <3>6. \A x \in Opkeys : Due(x)' => Due(x)
      BY <1>0, <1>1, <2>2, DueKept
    <3> QED BY <1>1, <2>2, <2>3, <3>1, <3>3, <3>4, <3>5, <3>6, SoundQuiet
  <2> QED BY <2>4, <2>5 DEF CheckInv
<1> QED BY <1>2, <1>3

LEMMA CheckBegin ==
  ASSUME IInv, PreferInv, CheckInv, NEW t \in Threads, NEW ok \in BOOLEAN, BeginTransaction(t, ok)
  PROVE  CheckInv'
<1>0. TasksTyped /\ run[t].step = "begin" /\ stack \in Seq(Db)
  BY TaskIs, TablesAre DEF BeginTransaction, At
<1>1. UNCHANGED <<view, disk, pref, prefDisk, file>> /\ exposed \subseteq exposed'
  BY DEF BeginTransaction, Expose
<1>2. \/ /\ stack' = <<view>> \o stack
         /\ Go(t, IF run[t].kind = "resetAll" THEN "create" ELSE "clear")
         /\ stack # <<>> => "checksum" \in exposed'
      \/ /\ UNCHANGED stack /\ Go(t, "idle")
         /\ run[t].kind = "reset" => "checksum" \in exposed'
  BY DEF BeginTransaction, Expose, Go
<1>3. ASSUME stack = <<>>, stack' = <<view>> \o stack PROVE Len(stack') = 1 /\ stack' # <<>>
  BY <1>3
<1>4. CASE run[t].kind = "resetAll"
  <2>1. CASE stack' = <<view>> \o stack /\ Go(t, "create") /\ (stack # <<>> => "checksum" \in exposed')
    BY <1>1, <1>3, <1>4, <2>1, CheckAlone
  <2>2. CASE UNCHANGED stack /\ Go(t, "idle")
    BY <1>1, <1>4, <2>2, CheckAlone DEF Owned
  <2> QED BY <1>2, <1>4, <2>1, <2>2
<1>5. CASE run[t].kind # "resetAll"
  <2>0. run[t].kind \in Loads /\ run[t].opkey \in Opkeys /\ run[t].todo = Profiles
    BY <1>0, <1>5, TaskIs DEF CheckInv, StepsInv, TaskOK, Loads, Kinds
  <2>1. CASE stack' = <<view>> \o stack /\ Go(t, "clear") /\ (stack # <<>> => "checksum" \in exposed')
    <3>1. PICK task : /\ run' = [run EXCEPT ![t] = task]
                      /\ task.kind = run[t].kind /\ task.opkey = run[t].opkey /\ task.todo = Profiles
                      /\ task.step = "clear"
      BY <1>0, <2>0, <2>1, GoTask
    <3>2. TaskOK(task)
      BY <2>0, <3>1 DEF TaskOK, Loads
    <3>3. StepsInv' /\ Sums'
      BY <1>0, <1>1, <3>1, <3>2, StepsKept, SumsKept DEF CheckInv
    <3>4. ASSUME "checksum" \notin exposed' PROVE Sound'
      <4>1. Sound /\ stack = <<>> /\ Len(stack') = 1 /\ stack' # <<>>
        BY <1>1, <1>3, <2>1, <3>4 DEF CheckInv
      <4>2. run'[t] = task
        BY <1>0, <3>1, OthersStay
      <4>3. Owned'
        <5>1. Len(stack') <= 1 /\ Owned
          BY <4>1 DEF Sound
        <5>2. run' = [run EXCEPT ![t] = task]
          BY <3>1
        <5> QED BY <1>0, <4>1, <5>1, <5>2, OwnedKept
      <4>4. Alone'
        BY <1>0, <1>1, <3>1, <4>1, AloneKept DEF Sound
      <4>5. Claim(run[t])'
        BY <3>1, <4>2 DEF Claim
      <4>6. \A x : (Renewing(x) => Renewing(x)') /\ (Loading(x) => Loading(x)')
        BY <1>0, <2>0, <3>1, RenewingKept, LoadingKept
      <4>7. \A x \in Opkeys : Due(x)' => Due(x)
        BY <1>0, <1>1, <3>1, DueKept
      <4>8. \A x : Preserves(view'.pdp_profile, view.pdp_profile, x, file)
        BY <1>1 DEF Preserves
      <4>9. \A u \in Threads : run[u].todo \in SUBSET Profiles
        BY TaskIs
      <4>10. Claims'
        BY <1>0, <1>1, <3>1, <4>1, <4>5, <4>6, <4>8, <4>9, ClaimsKept DEF IInv, Sound
      <4>11. \A x \in Opkeys : Settled(x)'
        BY <1>1, <4>1, <4>6, <4>7, SettledStays DEF Sound
      <4> QED BY <4>3, <4>4, <4>10, <4>11 DEF Sound
    <3> QED BY <3>3, <3>4 DEF CheckInv
  <2>2. CASE UNCHANGED stack /\ Go(t, "idle") /\ (run[t].kind = "reset" => "checksum" \in exposed')
    <3>1. PICK task : run' = [run EXCEPT ![t] = task] /\ task.kind = "none" /\ task.step = "idle"
      BY <1>0, <2>2, GoTask
    <3>2. TaskOK(task) /\ ~InTransaction(task)
      BY <3>1 DEF TaskOK, Loads, InTransaction
    <3>3. StepsInv' /\ Sums'
      BY <1>0, <1>1, <3>1, <3>2, StepsKept, SumsKept DEF CheckInv
    <3>4. ASSUME "checksum" \notin exposed' PROVE Sound'
      <4>1. Sound /\ run[t].kind = "init"
        BY <1>1, <2>0, <2>2, <3>4 DEF CheckInv, Loads
      <4>2. run'[t] = task
        BY <1>0, <3>1, OthersStay
      <4>4. Alone'
        BY <1>0, <1>1, <3>1, <4>1, AloneKept DEF Sound
      <4>5. Claim(run[t])'
        BY <3>1, <4>2 DEF Claim
      <4>6. \A x : (Renewing(x) => Renewing(x)') /\ (Loading(x) => Loading(x)')
        BY <1>0, <3>1, <4>1, RenewingKept, LoadingKept
      <4>7. \A x \in Opkeys : Due(x)' => Due(x)
        BY <1>0, <1>1, <3>1, DueKept
      <4> QED BY <1>1, <2>2, <3>1, <3>2, <4>1, <4>4, <4>5, <4>6, <4>7, SoundQuiet
    <3> QED BY <3>3, <3>4 DEF CheckInv
  <2> QED BY <1>2, <1>5, <2>1, <2>2
<1> QED BY <1>4, <1>5

LEMMA CheckClear ==
  ASSUME IInv, PreferInv, CheckInv, NEW t \in Threads, NEW ok \in BOOLEAN, ClearData(t, ok)
  PROVE  CheckInv'
<1> DEFINE o == run[t].opkey
           tbl == Deleted(view.pdp_profile, Unedited(view.pdp_profile, o))
<1>0. TasksTyped /\ run[t].kind \in Loads /\ run[t].step = "clear" /\ o \in Opkeys /\ run[t].todo = Profiles
  BY TaskIs DEF ClearData, At, CheckInv, StepsInv, TaskOK, Loads, Kinds
<1>1. /\ Go(t, "load") /\ UNCHANGED <<stack, pref, prefDisk, file>> /\ exposed \subseteq exposed'
      /\ \/ view.pdp_profile.there /\ Execute([view EXCEPT !.pdp_profile = tbl])
         \/ "checksum" \in exposed'
  BY DEF ClearData, Expose
<1>2. PICK task : /\ run' = [run EXCEPT ![t] = task] /\ task.kind = run[t].kind
                  /\ task.opkey = o /\ task.todo = Profiles /\ task.step = "load"
  BY <1>0, <1>1, GoTask
<1>3. TaskOK(task) /\ InTransaction(task) /\ InTransaction(run[t])
  BY <1>0, <1>2 DEF TaskOK, Loads, InTransaction
<1>4. StepsInv' /\ Sums'
  BY <1>0, <1>1, <1>2, <1>3, StepsKept, SumsKept DEF CheckInv
<1>5. ASSUME "checksum" \notin exposed' PROVE Sound'
  <2>1. /\ Sound /\ Execute([view EXCEPT !.pdp_profile = tbl])
        /\ Partial(tbl, o, Profiles, file)
    BY <1>1, <1>5, TablesAre, ClearedPartial DEF CheckInv
  <2>2. run'[t] = task
    BY <1>0, <1>2, OthersStay
  <2>3. Alone'
    BY <1>0, <1>1, <1>2, <2>1, AloneKept DEF Sound, Loads
  <2>4. stack # <<>>
    BY <1>3, <2>1 DEF Sound, Owned
  <2>5. \A x : (Renewing(x) => Renewing(x)') /\ (Loading(x) => Loading(x)')
    BY <1>0, <1>2, RenewingKept, LoadingKept
  <2>6. \A x \in Opkeys : Due(x)' => Due(x)
    BY <1>0, <1>1, <1>2, DueKept
  <2>7. \A x : x # o => Preserves(tbl, view.pdp_profile, x, file)
    BY TablesAre, DeletedPartial DEF Unedited
  <2> HIDE DEF tbl
  <2>8. view'.pdp_profile = tbl /\ disk' = disk
    BY <2>1, <2>4, TablesAre DEF Execute, Db
  <2>9. Claim(run[t])'
    BY <1>1, <1>2, <2>1, <2>2, <2>8 DEF Claim
  <2>10. \A u \in Threads : run[u].todo \in SUBSET Profiles
    BY TaskIs
  <2>11. Claims'
    BY <1>0, <1>1, <1>2, <1>3, <2>1, <2>9, <2>10, ClaimsKept DEF IInv, Sound
  <2>12. Owned'
    BY <1>0, <1>1, <1>2, <1>3, <2>1, <2>4, OwnedKept DEF Sound, Owned
  <2>13. ASSUME NEW x \in Opkeys PROVE Settled(x)'
    <3>1. CASE x = o
      <4>1. Renewing(x)' \/ Loading(x)'
        BY <1>0, <1>2, <2>2, <3>1 DEF Renewing, Loading, Loads
      <4>2. Due(x) => Partial(disk.pdp_profile, x, {}, file) \/ Renewing(x)
        BY <2>1 DEF Sound, Settled
      <4>3. Due(x)' => Partial(disk'.pdp_profile, x, {}, file') \/ Renewing(x)'
        BY <1>1, <2>5, <2>6, <2>8, <4>2
      <4> QED BY <4>1, <4>3 DEF Settled
    <3>2. CASE x # o
      BY <1>1, <2>1, <2>5, <2>6, <2>7, <3>2, SettledExecuted DEF Sound, PreferInv
    <3> QED BY <3>1, <3>2
  <2> QED BY <2>3, <2>11, <2>12, <2>13 DEF Sound
<1> QED BY <1>4, <1>5 DEF CheckInv

LEMMA CheckInsert ==
  ASSUME IInv, PreferInv, CheckInv, NEW t \in Threads, NEW p \in Profiles, NEW ok \in BOOLEAN,
         Insert(t, p, ok)
  PROVE  CheckInv'
<1> DEFINE o == run[t].opkey
           left == run[t].todo \ {p}
           step == IF left # {} THEN "load" ELSE IF run[t].kind = "resetAll" THEN "drop" ELSE "commit"
           task == [run[t] EXCEPT !.todo = left, !.step = step]
           tbl == Inserted(view.pdp_profile, o, p, file)
<1>0. TasksTyped /\ run[t].step = "load" /\ run[t] \in Task /\ file \in Nat \ {0} /\ p \in run[t].todo
  BY TaskIs DEF Insert, At
<1>1. /\ run' = [run EXCEPT ![t] = task]
      /\ UNCHANGED <<stack, pref, prefDisk, file>> /\ exposed \subseteq exposed'
  BY <1>0 DEF Insert, TasksTyped, Expose
<1>2. task.kind = run[t].kind /\ task.opkey = o /\ task.todo = left /\ task.step = step
  BY <1>0 DEF Task
<1>3. TaskOK(task)
  BY <1>0, <1>2 DEF CheckInv, StepsInv, TaskOK, Loads
<1> HIDE DEF task
<1>4. InTransaction(task) /\ InTransaction(run[t])
  BY <1>0, <1>2 DEF InTransaction
<1>5. StepsInv' /\ Sums'
  BY <1>0, <1>1, <1>3, StepsKept, SumsKept DEF CheckInv
<1>6. CASE run[t].kind = "resetAll"
  <2>1. ASSUME "checksum" \notin exposed' PROVE Sound'
    <3>1. Sound
      BY <1>1, <2>1 DEF CheckInv
    <3>2. Len(stack') <= 1 /\ stack' # <<>>
      BY <1>1, <1>4, <3>1 DEF Sound, Owned
    <3>3. task.kind = "resetAll" /\ UNCHANGED <<pref.checksum, prefDisk.checksum, file>>
      BY <1>1, <1>2, <1>6
    <3>4. StepsInv
      BY DEF CheckInv
    <3> QED BY <1>1, <1>3, <1>6, <3>1, <3>2, <3>3, <3>4, SoundAlone
  <2> QED BY <1>5, <2>1 DEF CheckInv
<1>7. CASE run[t].kind # "resetAll"
  <2>0. run[t].kind \in Loads /\ o \in Opkeys
    BY <1>0, <1>7, TaskIs DEF CheckInv, StepsInv, TaskOK, Loads, Kinds
  <2>1. Execute([view EXCEPT !.pdp_profile = tbl]) \/ "checksum" \in exposed'
    BY <1>7 DEF Insert, Expose
  <2>2. ASSUME "checksum" \notin exposed' PROVE Sound'
    <3>1. Sound /\ Execute([view EXCEPT !.pdp_profile = tbl])
      BY <1>1, <2>1, <2>2 DEF CheckInv
    <3>2. run'[t] = task
      BY <1>0, <1>1, OthersStay
    <3>3. Alone'
      BY <1>0, <1>1, <1>2, <2>0, <3>1, AloneKept DEF Sound, Loads
    <3>4. stack # <<>>
      BY <1>4, <3>1 DEF Sound, Owned
    <3>5. \A x : Renewing(x) => Renewing(x)'
      BY <1>0, <1>1, <1>2, RenewingKept
    <3>6. \A x \in Opkeys : Due(x)' => Due(x)
      BY <1>0, <1>1, <1>2, DueKept
    <3>7. \A x, todo : /\ x # o /\ Partial(view.pdp_profile, x, todo, file) => Partial(tbl, x, todo, file)
                       /\ Partial(view.pdp_profile, o, todo, file) => Partial(tbl, o, todo \ {p}, file)
      BY <1>0, <2>0, TablesAre, InsertedPartial DEF User
    <3> HIDE DEF tbl
    <3>8. view'.pdp_profile = tbl /\ disk' = disk
      BY <3>1, <3>4, TablesAre DEF Execute, Db
    <3>9. \/ Partial(view.pdp_profile, o, run[t].todo, file)
          \/ run[t].kind = "init" /\ Renewing(o)
      BY <1>0, <2>0, <3>1 DEF Sound, Claims, Claim
    <3>10. ASSUME NEW x, x = run[t].opkey
           PROVE  \/ Partial(view'.pdp_profile, x, left, file')
                  \/ task.kind = "init" /\ Renewing(x)'
      BY <1>1, <1>2, <3>5, <3>7, <3>8, <3>9, <3>10
    <3>11. Claim(run[t])'
      BY <1>2, <3>2, <3>10 DEF Claim
    <3>12. \A u \in Threads : run[u].todo \in SUBSET Profiles
      BY TaskIs
    <3>13. Claims'
      BY <1>0, <1>1, <1>4, <3>1, <3>11, <3>12, ClaimsKept DEF IInv, Sound
    <3>14. Owned'
      BY <1>0, <1>1, <1>4, <3>1, <3>4, OwnedKept DEF Sound, Owned
    <3>15. ASSUME NEW x \in Opkeys PROVE Settled(x)'
      <4>1. Due(x)' => Partial(disk'.pdp_profile, x, {}, file') \/ Renewing(x)'
        BY <1>1, <3>1, <3>5, <3>6, <3>8 DEF Sound, Settled
      <4>2. CASE x = o
        <5>1. CASE left = {}
          <6>1. Partial(view'.pdp_profile, x, {}, file') \/ Renewing(x)
            BY <1>1, <3>7, <3>8, <3>9, <4>2, <5>1
          <6> QED BY <3>5, <4>1, <6>1 DEF Settled
        <5>2. CASE left # {}
          <6>1. task.step = "load"
            BY <1>2, <5>2
          <6>2. Renewing(x)' \/ Loading(x)'
            BY <1>2, <2>0, <3>2, <4>2, <6>1 DEF Renewing, Loading, Loads
          <6> QED BY <4>1, <6>2 DEF Settled
        <5> QED BY <5>1, <5>2
      <4>3. CASE x # o
        <5>1. Loading(x) => Loading(x)'
          <6> SUFFICES ASSUME NEW u \in Threads, run[u].kind = "init", run[u].opkey = x, run[u].step = "load"
                       PROVE  run'[u] = run[u]
            BY DEF Loading
          <6> QED BY <1>0, <1>1, <4>3, OthersStay
        <5>2. Partial(view.pdp_profile, x, {}, file) => Partial(view'.pdp_profile, x, {}, file')
          BY <1>1, <3>7, <3>8, <4>3
        <5>3. Due(x)' => Partial(view.pdp_profile, x, {}, file) \/ Renewing(x) \/ Loading(x)
          BY <3>1, <3>6 DEF Sound, Settled
        <5> QED BY <3>5, <4>1, <5>1, <5>2, <5>3 DEF Settled
      <4> QED BY <4>2, <4>3
    <3> QED BY <3>3, <3>13, <3>14, <3>15 DEF Sound
  <2> QED BY <1>5, <2>2 DEF CheckInv
<1> QED BY <1>6, <1>7

LEMMA EndFacts ==
  ASSUME IInv, PreferInv, Owned, NEW t \in Threads, InTransaction(run[t])
  PROVE  /\ stack # <<>> /\ Len(stack) = 1 /\ Head(stack) = disk
         /\ Tail(stack) = <<>> /\ Len(Tail(stack)) <= 1
<1>1. stack # <<>> /\ Len(stack) <= 1 /\ stack \in Seq(Db)
  BY TablesAre DEF Owned
<1>2. Len(stack) \in Nat \ {0}
  BY <1>1
<1>3. Len(stack) = 1
  <2>1. \A n \in Nat \ {0} : n <= 1 => n = 1
    OBVIOUS
  <2> QED BY <1>1, <1>2, <2>1
<1>4. Tail(stack) = <<>> /\ Head(stack) = disk
  BY <1>1, <1>3, TailStack
<1>5. Len(Tail(stack)) <= 1
  <2>1. Len(<<>>) <= 1
    OBVIOUS
  <2> QED BY <1>4, <2>1
<1> QED BY <1>1, <1>3, <1>4, <1>5

LEMMA CheckCommit ==
  ASSUME IInv, PreferInv, CheckInv, NEW t \in Threads, NEW ok \in BOOLEAN, Commit(t, ok)
  PROVE  CheckInv'
<1>0. TasksTyped /\ run[t].step = "commit" /\ InTransaction(run[t])
  BY TaskIs DEF Commit, At, InTransaction
<1>1. /\ UNCHANGED <<view, pref, prefDisk, file, exposed>>
      /\ \/ /\ ok /\ stack' = Tail(stack) /\ disk' = IF Len(stack) = 1 THEN view ELSE disk
            /\ Go(t, IF run[t].kind = "resetAll" THEN "idle" ELSE "save")
         \/ ~ok /\ UNCHANGED <<stack, disk>> /\ Go(t, "rollback")
  BY DEF Commit, AfterCommit
<1>2. CASE run[t].kind = "resetAll"
  <2>1. CASE ok
    <3>1. Owned => Len(stack') <= 1
      BY <1>0, <1>1, <2>1, EndFacts
    <3>2. Go(t, "idle")
      BY <1>1, <1>2, <2>1
    <3> QED BY <1>1, <1>2, <3>1, <3>2, CheckAlone
  <2>2. CASE ~ok
    <3>1. Owned => Len(stack') <= 1 /\ stack' # <<>>
      BY <1>0, <1>1, <2>2 DEF Owned
    <3> QED BY <1>1, <1>2, <2>2, <3>1, CheckAlone
  <2> QED BY <2>1, <2>2
<1>3. CASE run[t].kind # "resetAll"
  <2>0. run[t].kind \in Loads /\ run[t].opkey \in Opkeys /\ run[t].todo = {}
    BY <1>0, <1>3, TaskIs DEF CheckInv, StepsInv, TaskOK, Loads, Kinds
  <2>1. CASE ~ok
    <3>1. PICK task : /\ run' = [run EXCEPT ![t] = task]
                      /\ task.kind = run[t].kind /\ task.opkey = run[t].opkey /\ task.step = "rollback"
      BY <1>0, <1>1, <2>1, GoTask
    <3>2. TaskOK(task)
      BY <2>0, <3>1 DEF TaskOK, Loads
    <3>3. StepsInv' /\ Sums'
      BY <1>0, <1>1, <3>1, <3>2, StepsKept, SumsKept DEF CheckInv
    <3>4. ASSUME "checksum" \notin exposed' PROVE Sound'
      <4>1. Sound
        BY <1>1, <3>4 DEF CheckInv
      <4>2. run'[t] = task
        BY <1>0, <3>1, OthersStay
      <4>3. Alone'
        BY <1>0, <1>1, <2>0, <3>1, <4>1, AloneKept DEF Sound, Loads
      <4>4. Claim(run[t])'
        BY <3>1, <4>2 DEF Claim
      <4>5. \A x : (Renewing(x) => Renewing(x)') /\ (Loading(x) => Loading(x)')
        BY <1>0, <3>1, RenewingKept, LoadingKept
      <4>6. \A x \in Opkeys : Due(x)' => Due(x)
        BY <1>0, <1>1, <3>1, DueKept
      <4> QED BY <1>0, <1>1, <2>1, <3>1, <4>1, <4>3, <4>4, <4>5, <4>6, SoundQuiet
    <3> QED BY <3>3, <3>4 DEF CheckInv
  <2>2. CASE ok
    <3>1. PICK task : /\ run' = [run EXCEPT ![t] = task]
                      /\ task.kind = run[t].kind /\ task.opkey = run[t].opkey /\ task.step = "save"
      BY <1>0, <1>1, <1>3, <2>2, GoTask
    <3>2. TaskOK(task) /\ ~InTransaction(task)
      BY <2>0, <3>1 DEF TaskOK, Loads, InTransaction
    <3>3. StepsInv' /\ Sums'
      BY <1>0, <1>1, <3>1, <3>2, StepsKept, SumsKept DEF CheckInv
    <3>4. ASSUME "checksum" \notin exposed' PROVE Sound'
      <4>1. Sound /\ Owned
        BY <1>1, <3>4 DEF CheckInv, Sound
      <4>2. run'[t] = task /\ \A u \in Threads \ {t} : run'[u] = run[u]
        BY <1>0, <3>1, OthersStay
      <4>3. Alone'
        BY <1>0, <1>1, <2>0, <3>1, <4>1, AloneKept DEF Sound, Loads
      <4>4. Claim(run[t])'
        BY <3>1, <4>2 DEF Claim
      <4>5. /\ stack' = <<>> /\ Len(stack') <= 1 /\ disk' = view /\ view' = view /\ file' = file
        BY <1>0, <1>1, <2>2, <4>1, EndFacts
      <4>6. Owned'
        BY <1>0, <3>1, <3>2, <4>1, <4>5, OwnedKept
      <4>7. \A u \in Threads : run[u].todo \in SUBSET Profiles
        BY TaskIs
      <4>8. Claims'
        BY <1>0, <1>1, <3>1, <4>1, <4>4, <4>7, ClaimsKept DEF IInv, Sound
      <4>9. ASSUME NEW x \in Opkeys PROVE Settled(x)'
        <5>1. CASE x = run[t].opkey
          <6>1. Partial(view.pdp_profile, x, {}, file) \/ (run[t].kind = "init" /\ Renewing(x))
            BY <1>0, <2>0, <4>1, <5>1 DEF Sound, Claims, Claim
          <6>2. run[t].kind = "init" /\ Renewing(x) => Renewing(x)'
            BY <1>0, <3>1, RenewingKept
          <6> QED BY <4>5, <6>1, <6>2 DEF Settled
        <5>2. CASE x # run[t].opkey
          <6>1. Renewing(x) => Renewing(x)'
            <7> SUFFICES ASSUME NEW u \in Threads, run[u].kind = "reset", run[u].opkey = x, run[u].step # "save"
                         PROVE  run'[u] = run[u]
              BY DEF Renewing
            <7> QED BY <4>2, <5>2
          <6>2. ~Loading(x)
            BY <1>0, <4>1, <5>2 DEF Loading, Owned, InTransaction
          <6>3. Due(x)' => Due(x)
            <7> SUFFICES ASSUME NEW u \in Threads, run'[u].opkey = x, run'[u].step = "save"
                         PROVE  run'[u] = run[u]
              BY <1>1 DEF Due
            <7> QED BY <3>1, <4>2, <5>2
          <6>4. Due(x) => Partial(view.pdp_profile, x, {}, file) \/ Renewing(x)
            BY <4>1, <6>2 DEF Sound, Settled
          <6> QED BY <4>5, <6>1, <6>3, <6>4 DEF Settled
        <5> QED BY <5>1, <5>2
      <4> QED BY <4>3, <4>6, <4>8, <4>9 DEF Sound
    <3> QED BY <3>3, <3>4 DEF CheckInv
  <2> QED BY <2>1, <2>2
<1> QED BY <1>2, <1>3

LEMMA CheckRollBack ==
  ASSUME IInv, PreferInv, CheckInv, NEW t \in Threads, NEW ok \in BOOLEAN, RollBack(t, ok)
  PROVE  CheckInv'
<1>0. TasksTyped /\ run[t].step = "rollback" /\ InTransaction(run[t])
  BY TaskIs DEF RollBack, At, InTransaction
<1>1. /\ UNCHANGED <<disk, pref, prefDisk, file>> /\ Go(t, "idle") /\ exposed \subseteq exposed'
      /\ run[t].kind = "reset" => "checksum" \in exposed'
      /\ \/ view' = Head(stack) /\ stack' = Tail(stack)
         \/ UNCHANGED <<view, stack>>
  BY DEF RollBack, Go, Expose
<1>2. CASE run[t].kind = "resetAll"
  <2>1. Owned => Len(stack') <= 1
    <3>1. CASE stack' = Tail(stack)
      BY <1>0, <3>1, EndFacts
    <3>2. CASE UNCHANGED stack
      BY <3>2 DEF Owned
    <3> QED BY <1>1, <3>1, <3>2
  <2> QED BY <1>1, <1>2, <2>1, CheckAlone
<1>3. CASE run[t].kind # "resetAll"
  <2>0. run[t].kind \in Loads
    BY <1>0, <1>3, TaskIs DEF CheckInv, StepsInv, TaskOK, Loads, Kinds
  <2>1. PICK task : run' = [run EXCEPT ![t] = task] /\ task.kind = "none" /\ task.step = "idle"
    BY <1>0, <1>1, GoTask
  <2>2. TaskOK(task) /\ ~InTransaction(task)
    BY <2>1 DEF TaskOK, Loads, InTransaction
  <2>3. StepsInv' /\ Sums'
    BY <1>0, <1>1, <2>1, <2>2, StepsKept, SumsKept DEF CheckInv
  <2>4. ASSUME "checksum" \notin exposed' PROVE Sound'
    <3>1. Sound /\ Owned /\ run[t].kind = "init"
      BY <1>1, <2>0, <2>4 DEF CheckInv, Sound, Loads
    <3>2. run'[t] = task
      BY <1>0, <2>1, OthersStay
    <3>3. Alone'
      BY <1>0, <1>1, <2>1, <3>1, AloneKept DEF Sound
    <3>4. Claim(run[t])'
      BY <2>1, <3>2 DEF Claim
    <3>5. \A x : (Renewing(x) => Renewing(x)') /\ (Loading(x) => Loading(x)')
      BY <1>0, <2>1, <3>1, RenewingKept, LoadingKept
    <3>6. \A x \in Opkeys : Due(x)' => Due(x)
      BY <1>0, <1>1, <2>1, DueKept
    <3>7. CASE UNCHANGED <<view, stack>>
      BY <1>1, <2>1, <2>2, <3>1, <3>3, <3>4, <3>5, <3>6, <3>7, SoundQuiet
    <3>8. CASE view' = Head(stack) /\ stack' = Tail(stack)
      <4>1. view' = disk /\ disk' = disk /\ file' = file /\ Len(stack') <= 1
        BY <1>0, <1>1, <3>1, <3>8, EndFacts
      <4>2. Owned'
        BY <1>0, <2>1, <2>2, <3>1, <4>1, OwnedKept
      <4>3. \A u \in Threads : run[u].todo \in SUBSET Profiles
        BY TaskIs
      <4>4. Claims'
        BY <1>0, <1>1, <2>1, <3>1, <3>4, <4>3, ClaimsKept DEF IInv, Sound
      <4>5. \A x \in Opkeys : Settled(x)'
        BY <3>1, <3>5, <3>6, <4>1 DEF Sound, Settled
      <4> QED BY <3>3, <4>2, <4>4, <4>5 DEF Sound
    <3> QED BY <1>1, <3>7, <3>8
  <2> QED BY <2>3, <2>4 DEF CheckInv
<1> QED BY <1>2, <1>3

LEMMA CheckSave ==
  ASSUME IInv, PreferInv, CheckInv, NEW t \in Threads, SetPreferApnConfChecksum(t)
  PROVE  CheckInv'
<1>0. TasksTyped /\ run[t].step = "save" /\ pref \in Prefs /\ file \in Nat
  BY TaskIs DEF SetPreferApnConfChecksum, At, PreferInv, PrefsTyped
<1>1. /\ UNCHANGED <<view, disk, stack, prefDisk, file, exposed>> /\ Go(t, "idle")
      /\ pref' = [pref EXCEPT !.checksum[run[t].opkey] = file]
  BY DEF SetPreferApnConfChecksum, db, Go
<1>2. run[t].kind \in Loads /\ run[t].opkey \in Opkeys
  BY <1>0, TaskIs DEF CheckInv, StepsInv, TaskOK, Loads, Kinds
<1>3. PICK task : run' = [run EXCEPT ![t] = task] /\ task.kind = "none" /\ task.step = "idle"
  BY <1>0, <1>1, GoTask
<1>4. TaskOK(task) /\ ~InTransaction(task)
  BY <1>3 DEF TaskOK, Loads, InTransaction
<1>5. \A x \in Opkeys : pref'.checksum[x] = IF x = run[t].opkey THEN file ELSE pref.checksum[x]
  BY <1>0, <1>1, <1>2 DEF Prefs
<1>6. Sums'
  BY <1>0, <1>1, <1>5 DEF CheckInv, Sums
<1>7. StepsInv'
  BY <1>0, <1>3, <1>4, StepsKept DEF CheckInv
<1>8. ASSUME "checksum" \notin exposed' PROVE Sound'
  <2>1. Sound
    BY <1>1, <1>8 DEF CheckInv
  <2>2. run'[t] = task /\ \A u \in Threads \ {t} : run'[u] = run[u]
    BY <1>0, <1>3, OthersStay
  <2>3. ~\E u \in Threads : run[u].kind = "resetAll"
    BY <1>2, <2>1 DEF Sound, Alone, Loads, IInv, LockInv, Resets
  <2>4. Alone'
    BY <1>0, <1>3, <2>1, <2>3, AloneKept DEF Sound
  <2>5. Claim(run[t])'
    BY <1>3, <2>2 DEF Claim
  <2>6. \A x : (Renewing(x) => Renewing(x)') /\ (Loading(x) => Loading(x)')
    BY <1>0, <1>3, RenewingKept, LoadingKept
  <2>7. ASSUME NEW x \in Opkeys, Due(x)' PROVE Due(x)
    <3>1. CASE x = run[t].opkey
      BY <1>0, <3>1 DEF Due
    <3>2. CASE x # run[t].opkey
      <4>1. pref'.checksum[x] = pref.checksum[x] /\ prefDisk'.checksum[x] = prefDisk.checksum[x]
        BY <1>1, <1>5, <3>2
      <4> QED BY <1>0, <1>1, <1>3, <2>7, <4>1, DueKept
    <3> QED BY <3>1, <3>2
  <2> QED BY <1>1, <1>3, <1>4, <2>1, <2>4, <2>5, <2>6, <2>7, SoundQuiet
<1> QED BY <1>6, <1>7, <1>8 DEF CheckInv

-----------------------------------------------------------------------------
(* The clients' steps, the preferences library's, and a crash.             *)
LEMMA CheckEdit ==
  ASSUME IInv, PreferInv, CheckInv, NEW tbl, Execute([view EXCEPT !.pdp_profile = tbl]),
         UNCHANGED <<stack, pref, prefDisk, file, run, exposed>>,
         \A o \in Opkeys : Preserves(tbl, view.pdp_profile, o, file)
  PROVE  CheckInv'
<1>1. StepsInv' /\ Sums'
  BY DEF CheckInv, StepsInv, Sums
<1>2. ASSUME "checksum" \notin exposed' PROVE Sound'
  <2>1. Sound
    BY <1>2 DEF CheckInv
  <2>2. Owned' /\ Alone'
    BY <2>1 DEF Sound, Owned, Alone, Unrecorded
  <2>3. \A o : (Renewing(o)' <=> Renewing(o)) /\ (Loading(o)' <=> Loading(o)) /\ (Due(o)' <=> Due(o))
    BY DEF Renewing, Loading, Due
  <2>4. view'.pdp_profile = tbl
    BY TablesAre DEF Execute, Db
  <2>5. ASSUME NEW t \in Threads PROVE Claim(run[t])'
    <3> SUFFICES ASSUME run[t].kind \in Loads, run[t].step \in {"load", "commit"}
                 PROVE  \/ Partial(view'.pdp_profile, run[t].opkey, run[t].todo, file)
                        \/ run[t].kind = "init" /\ Renewing(run[t].opkey)
      <4>1. Renewing(run[t].opkey)' <=> Renewing(run[t].opkey)
        BY DEF Renewing
      <4> QED BY <4>1 DEF Claim
    <3>1. run[t].opkey \in Opkeys /\ run[t].todo \in SUBSET Profiles
      BY TaskIs DEF CheckInv, StepsInv, TaskOK
    <3>2. \/ Partial(view.pdp_profile, run[t].opkey, run[t].todo, file)
          \/ run[t].kind = "init" /\ Renewing(run[t].opkey)
      BY <2>1 DEF Sound, Claims, Claim
    <3>3. Partial(view.pdp_profile, run[t].opkey, run[t].todo, file)
            => Partial(view'.pdp_profile, run[t].opkey, run[t].todo, file)
      BY <2>4, <3>1 DEF Preserves
    <3> QED BY <3>2, <3>3
  <2>6. \A o \in Opkeys : Settled(o)'
    BY <2>1, <2>3, SettledExecuted DEF Sound, PreferInv
  <2> QED BY <2>2, <2>5, <2>6 DEF Sound, Claims
<1> QED BY <1>1, <1>2 DEF CheckInv

LEMMA CheckClient ==
  ASSUME IInv, PreferInv, CheckInv,
         \/ \E o \in Opkeys, p \in Profiles : InsertEdited(o, p)
         \/ \E r \in view.pdp_profile.rows : UpdateApn(r) \/ DeleteApn(r)
  PROVE  CheckInv'
<1>0. view.pdp_profile \in AnyTable /\ User \in Nat /\ file # User
  BY TablesAre DEF User, IInv, TasksTyped
<1>1. ASSUME NEW o \in Opkeys, NEW p \in Profiles, InsertEdited(o, p) PROVE CheckInv'
  <2> DEFINE tbl == Inserted(view.pdp_profile, o, p, User)
  <2>1. /\ Execute([view EXCEPT !.pdp_profile = tbl])
        /\ UNCHANGED <<stack, pref, prefDisk, file, run, exposed>>
    BY <1>1 DEF InsertEdited
  <2>2. \A x \in Opkeys : Preserves(tbl, view.pdp_profile, x, file)
    BY <1>0, InsertedPartial DEF Preserves
  <2> HIDE DEF tbl
  <2> QED BY <2>1, <2>2, CheckEdit
<1>2. ASSUME NEW r \in view.pdp_profile.rows
      PROVE  /\ Taken(view.pdp_profile, r) \in AnyTable
             /\ Taken(view.pdp_profile, r).rows = view.pdp_profile.rows
  BY <1>0, TakenTable
<1>3. ASSUME NEW r \in view.pdp_profile.rows, UpdateApn(r) PROVE CheckInv'
  <2> DEFINE old == Taken(view.pdp_profile, r)
             new == [r EXCEPT !.version = User]
             tbl == [old EXCEPT !.rows = (@ \ {r}) \union {new}]
  <2>1. /\ Execute([view EXCEPT !.pdp_profile = tbl])
        /\ UNCHANGED <<stack, pref, prefDisk, file, run, exposed>>
    BY <1>3 DEF UpdateApn
  <2>2. new.version = User
    BY <1>0 DEF AnyTable, AnyRow
  <2> HIDE DEF old, new
  <2>3. old \in AnyTable /\ old.rows = view.pdp_profile.rows
    BY <1>2 DEF old
  <2>4. /\ tbl.rows = (view.pdp_profile.rows \ {r}) \union {new}
        /\ tbl.there = old.there /\ tbl.taken = old.taken
    BY <2>3 DEF AnyTable
  <2> HIDE DEF tbl
  <2>5. \A x \in Opkeys : Preserves(tbl, view.pdp_profile, x, file)
    BY <1>0, <2>2, <2>4, UpdatedPartial DEF old
  <2> QED BY <2>1, <2>5, CheckEdit
<1>4. ASSUME NEW r \in view.pdp_profile.rows, DeleteApn(r) PROVE CheckInv'
  <2> DEFINE old == Taken(view.pdp_profile, r)
             tbl == Deleted(old, {r})
  <2>1. /\ Execute([view EXCEPT !.pdp_profile = tbl])
        /\ UNCHANGED <<stack, pref, prefDisk, file, run, exposed>>
    BY <1>4 DEF DeleteApn
  <2> HIDE DEF old
  <2>2. old \in AnyTable /\ old.rows = view.pdp_profile.rows
    BY <1>2 DEF old
  <2>0. PICK none : none = {}
    OBVIOUS
  <2>3. /\ tbl.rows = (view.pdp_profile.rows \ {r}) \union none
        /\ tbl.there = old.there /\ tbl.taken = old.taken
    BY <2>0, <2>2 DEF Deleted, AnyTable
  <2> HIDE DEF tbl
  <2>4. \A x \in Opkeys : Preserves(tbl, view.pdp_profile, x, file)
    BY <1>0, <2>0, <2>3, UpdatedPartial DEF old
  <2> QED BY <2>1, <2>4, CheckEdit
<1> QED BY <1>1, <1>3, <1>4

(* Nothing but the preferences changes, and no checksum that was not there.*)
LEMMA CheckPreferences ==
  ASSUME IInv, CheckInv, UNCHANGED <<view, disk, stack, file, run>>, exposed \subseteq exposed',
         pref'.checksum = pref.checksum,
         prefDisk'.checksum = prefDisk.checksum \/ prefDisk'.checksum = pref.checksum
  PROVE  CheckInv'
<1>1. StepsInv' /\ Sums'
  BY DEF CheckInv, StepsInv, Sums
<1>2. ASSUME "checksum" \notin exposed' PROVE Sound'
  <2>1. Sound
    BY <1>2 DEF CheckInv
  <2>2. Owned' /\ Alone'
    BY <2>1 DEF Sound, Owned, Alone, Unrecorded
  <2>3. \A o : (Renewing(o)' <=> Renewing(o)) /\ (Loading(o)' <=> Loading(o)) /\ (Due(o)' => Due(o))
    BY DEF Renewing, Loading, Due
  <2>4. Claims'
    BY <2>1 DEF Sound, Claims, Claim, Renewing
  <2>5. \A o \in Opkeys : Settled(o)'
    BY <2>1, <2>3, SettledStays DEF Sound
  <2> QED BY <2>2, <2>4, <2>5 DEF Sound
<1> QED BY <1>1, <1>2 DEF CheckInv

LEMMA CheckCrash ==
  ASSUME IInv, PreferInv, CheckInv, NEW updated \in BOOLEAN, Crash(updated)
  PROVE  CheckInv'
<1>1. /\ view' = disk /\ disk' = disk /\ stack' = <<>> /\ pref' = prefDisk /\ prefDisk' = prefDisk
      /\ file' = IF updated THEN file + 1 ELSE file
      /\ run' = [t \in Threads |-> Idle] /\ exposed \subseteq exposed'
      /\ (\E t \in Threads : run[t].kind = "reset") => "checksum" \in exposed'
  BY DEF Crash, Expose
<1>2. \A t \in Threads : run'[t].kind = "none" /\ run'[t].step = "idle"
  BY <1>1 DEF Idle
<1>3. file \in Nat /\ \A o \in Opkeys : prefDisk.checksum[o] \in Nat /\ prefDisk.checksum[o] <= file
  BY DEF IInv, TasksTyped, PreferInv, PrefsTyped, Prefs, CheckInv, Sums
<1>4. StepsInv'
  BY <1>2 DEF StepsInv, TaskOK, Loads
<1>5. \A o \in Opkeys : prefDisk.checksum[o] <= file' /\ (prefDisk.checksum[o] = file' => file' = file)
  BY <1>1, <1>3
<1>6. Sums'
  BY <1>1, <1>5 DEF Sums
<1>7. ASSUME "checksum" \notin exposed' PROVE Sound'
  <2>1. Sound /\ ~\E t \in Threads : run[t].kind = "reset"
    BY <1>1, <1>7 DEF CheckInv
  <2>2. Owned'
    <3>1. Len(<<>>) <= 1
      OBVIOUS
    <3> QED BY <1>1, <1>2, <3>1 DEF Owned, InTransaction
  <2>3. Alone' /\ Claims'
    BY <1>2 DEF Alone, Claims, Claim, Loads
  <2>4. ASSUME NEW o \in Opkeys, Due(o)' PROVE Partial(disk.pdp_profile, o, {}, file') /\ view' = disk'
    <3>1. prefDisk.checksum[o] = file'
      BY <1>1, <1>2, <2>4 DEF Due
    <3>2. file' = file /\ Due(o)
      BY <1>5, <3>1 DEF Due
    <3> QED BY <1>1, <2>1, <3>2 DEF Sound, Settled, Renewing
  <2>5. \A o \in Opkeys : Settled(o)'
    BY <1>1, <2>4 DEF Settled
  <2> QED BY <2>2, <2>3, <2>5 DEF Sound
<1> QED BY <1>4, <1>6, <1>7 DEF CheckInv

LEMMA InitCheck == Init => CheckInv
<1> SUFFICES ASSUME Init PROVE CheckInv
  OBVIOUS
<1>1. /\ stack = <<>> /\ pref = NoPref /\ prefDisk = NoPref /\ file = 1
      /\ run = [t \in Threads |-> Idle]
  BY DEF Init
<1>2. \A t \in Threads : run[t].kind = "none" /\ run[t].step = "idle"
  BY <1>1 DEF Idle
<1>3. \A o \in Opkeys : pref.checksum[o] = 0 /\ prefDisk.checksum[o] = 0
  BY <1>1 DEF NoPref, NoChecksum
<1>4. StepsInv /\ Sums
  BY <1>1, <1>2, <1>3 DEF StepsInv, TaskOK, Loads, Sums
<1>5. Len(<<>>) <= 1
  OBVIOUS
<1>6. Owned /\ Alone /\ Claims
  BY <1>1, <1>2, <1>5 DEF Owned, InTransaction, Alone, Claims, Claim, Loads
<1>7. \A o \in Opkeys : Settled(o)
  BY <1>1, <1>2, <1>3 DEF Settled, Due
<1> QED BY <1>4, <1>6, <1>7 DEF CheckInv, Sound

LEMMA NextCheck == IInv /\ PreferInv /\ CheckInv /\ [Next]_vars => CheckInv'
<1> SUFFICES ASSUME IInv, PreferInv, CheckInv, [Next]_vars PROVE CheckInv'
  OBVIOUS
<1>1. ASSUME NEW t \in Threads, Thread(t) PROVE CheckInv'
  BY <1>1, CheckInitStart, CheckResetStart, CheckResetAllStart, CheckSave, CheckDelete, CheckBegin,
     CheckClear, CheckRebuild, CheckParse, CheckCommit, CheckRollBack, CheckInsert DEF Thread
<1>2. ASSUME NEW o \in Opkeys, NEW r \in view.pdp_profile.rows, SetPreferApn(o, r) PROVE CheckInv'
  <2>1. /\ UNCHANGED <<view, disk, stack, file, run, prefDisk>> /\ exposed \subseteq exposed'
        /\ pref'.checksum = pref.checksum
    BY <1>2, SameSums DEF SetPreferApn, db, Expose
  <2> QED BY <2>1, CheckPreferences
<1>3. CASE Client
  BY <1>2, <1>3, CheckClient DEF Client
<1>4. CASE FlushPreferences
  BY <1>4, CheckPreferences DEF FlushPreferences, db
<1>5. ASSUME NEW updated \in BOOLEAN, Crash(updated) PROVE CheckInv'
  BY <1>5, CheckCrash
<1>6. CASE UNCHANGED vars
  BY <1>6, CheckPreferences DEF vars, db
<1> QED BY <1>1, <1>3, <1>4, <1>5, <1>6 DEF Next

(* INIT skips a file only if the operator's rows on disk are those of that *)
(* version of it: a recorded checksum never outlives them, through crashes,*)
(* updates of the files, edits, rolled back and orphaned transactions.     *)
THEOREM ChecksumsTellTheRows == Spec => []ChecksumMeansLoaded
<1>1. IInv /\ PreferInv /\ CheckInv => ChecksumMeansLoaded
  <2> SUFFICES ASSUME CheckInv, "checksum" \notin exposed, NEW o \in Opkeys, pref.checksum[o] = file
               PROVE  \/ \E t \in Threads : run[t].kind = "reset" /\ run[t].opkey = o
                      \/ Loaded(disk.pdp_profile, o, file)
    BY DEF ChecksumMeansLoaded
  <2>1. Partial(disk.pdp_profile, o, {}, file) \/ Renewing(o)
    BY DEF CheckInv, Sound, Settled, Due
  <2>2. Partial(disk.pdp_profile, o, {}, file) => Loaded(disk.pdp_profile, o, file)
    BY DEF Partial, Loaded
  <2> QED BY <2>1, <2>2 DEF Renewing
<1>2. Init => IInv /\ PreferInv /\ CheckInv
  BY InitIInv, InitPrefer, InitCheck
<1>3. IInv /\ PreferInv /\ CheckInv /\ [Next]_vars => IInv' /\ PreferInv' /\ CheckInv'
  BY NextIInv, NextPrefer, NextCheck
<1> QED BY <1>1, <1>2, <1>3, PTL DEF Spec

-----------------------------------------------------------------------------
(* The passwords.                                                          *)

(* A row in which nothing was given up holds the password it was given, in *)
(* the form in which a query will look for it.                             *)
InOrder(r) ==
  \/ chosen[r] = NoPwd /\ auth_pwd[r] = Text(NoPwd)
  \/ r \in fromFile /\ r \notin edited /\ auth_pwd[r] = Text(chosen[r])
  \/ /\ chosen[r] # NoPwd /\ r \notin fromFile /\ r \in edited
     /\ auth_pwd[r] = Sealed(chosen[r], key)

(* Any other holds that password too, or nothing.                          *)
OwnOrNone(r) == auth_pwd[r] = NoBlob \/ auth_pwd[r].pwd = chosen[r]

(* The inductive invariant: the queries' answers follow from it, but do    *)
(* not say which key a row's password is sealed with.                      *)
RowsInOrder ==
  /\ \A r \in there : OwnOrNone(r)
  /\ \A r \in there \ spoiled : InOrder(r)
PasswordInv == PasswordTypeOK /\ RowsInOrder /\ NoPasswordInClear

-----------------------------------------------------------------------------
(* What the key store and the sealing leave behind.                        *)
LEMMA KeyReadyType ==
  ASSUME PasswordTypeOK, NEW n \in {0, 1}, KeyReady(n)
  PROVE  /\ keys' \in 0..MaxKeys /\ key' \in 1..keys'
         /\ key' # key => key = 0 \/ n = 1
  BY PasswordAssumption, SMT DEF PasswordTypeOK, KeyReady, KeepKey, GenerateKey

LEMMA FaultsType ==
  ASSUME PasswordTypeOK, NEW n \in 0..2, Faults(n)
  PROVE  keyFaults' \in 0..MaxKeyFaults /\ (n # 0 => keyFaults' # keyFaults)
  BY PasswordAssumption, SMT DEF PasswordTypeOK, Faults

(* What a bucket with the password p becomes in a row: the empty text, the *)
(* sealed password or, when something failed or it is too long, nothing.   *)
LEMMA BucketForms ==
  ASSUME PasswordInv, NEW r \in Rows, NEW p \in Pwds \union {NoPwd},
         NeedUpdateValuesBucket(r, p)
  PROVE  /\ keys' \in 0..MaxKeys /\ key' \in 0..keys' /\ keyFaults' \in 0..MaxKeyFaults
         /\ key' # key => key = 0 \/ keyFaults' # keyFaults
         /\ \E v : /\ auth_pwd' = [auth_pwd EXCEPT ![r] = v]
                   /\ \/ p = NoPwd /\ v = Text(NoPwd)
                      \/ p # NoPwd /\ v = Sealed(p, key') /\ key' \in 1..keys'
                      \/ p # NoPwd /\ v = NoBlob /\ (keyFaults' # keyFaults \/ p \in LongPwds)
<1> USE DEF PasswordInv
<1>1. CASE p = NoPwd
  <2>1. auth_pwd' = [auth_pwd EXCEPT ![r] = Text(NoPwd)] /\ KeepKey /\ Faults(0)
    BY <1>1 DEF NeedUpdateValuesBucket
  <2>2. keyFaults' \in 0..MaxKeyFaults
    BY <2>1, FaultsType
  <2>3. keys' \in 0..MaxKeys /\ key' \in 0..keys' /\ key' = key
    BY <2>1 DEF KeepKey, PasswordTypeOK
  <2> QED BY <1>1, <2>1, <2>2, <2>3
<1>2. CASE p # NoPwd
  <2>1. EncryptData(r, p)
    BY <1>2 DEF NeedUpdateValuesBucket
  <2>2. ASSUME NEW n \in {0, 1}, KeyReady(n), Faults(n),
               auth_pwd' = [auth_pwd EXCEPT ![r] = Fitting(p, key')]
        PROVE  /\ keys' \in 0..MaxKeys /\ key' \in 0..keys' /\ keyFaults' \in 0..MaxKeyFaults
               /\ key' # key => key = 0 \/ keyFaults' # keyFaults
               /\ \/ Fitting(p, key') = Sealed(p, key') /\ key' \in 1..keys'
                  \/ Fitting(p, key') = NoBlob /\ p \in LongPwds
    <3>1. /\ keys' \in 0..MaxKeys /\ key' \in 1..keys' /\ (key' # key => key = 0 \/ n = 1)
      BY <2>2, KeyReadyType
    <3>2. n \in 0..2
      OBVIOUS
    <3>3. keyFaults' \in 0..MaxKeyFaults /\ (n # 0 => keyFaults' # keyFaults)
      BY <2>2, <3>2, FaultsType
    <3>4. key' \in 0..keys'
      BY <3>1
    <3> QED BY <3>1, <3>3, <3>4 DEF Fitting
  <2>3. ASSUME NEW n \in {0, 1}, KeyReady(n), Faults(n + 1)
        PROVE  /\ keys' \in 0..MaxKeys /\ key' \in 0..keys' /\ keyFaults' \in 0..MaxKeyFaults
               /\ keyFaults' # keyFaults
    <3>1. /\ keys' \in 0..MaxKeys /\ key' \in 1..keys'
      BY <2>3, KeyReadyType
    <3>2. n + 1 \in 0..2 /\ n + 1 # 0
      OBVIOUS
    <3>3. keyFaults' \in 0..MaxKeyFaults /\ keyFaults' # keyFaults
      BY <2>3, <3>2, FaultsType
    <3> QED BY <3>1, <3>3
  <2>4. ASSUME KeepKey, Faults(1)
        PROVE  /\ keys' \in 0..MaxKeys /\ key' \in 0..keys' /\ keyFaults' \in 0..MaxKeyFaults
               /\ key' = key /\ keyFaults' # keyFaults
    BY <2>4, FaultsType DEF KeepKey, PasswordTypeOK
  <2> QED BY <1>2, <2>1, <2>2, <2>3, <2>4 DEF EncryptData
<1> QED BY <1>1, <1>2

(* Rows a replaced key leaves unreadable are given up, so that the others  *)
(* stay in order.                                                          *)
LEMMA OthersInOrder ==
  ASSUME PasswordInv, key' # key => key = 0 \/ keyFaults' # keyFaults,
         NEW q \in there \ (spoiled \union Replaced)
  PROVE  \/ chosen[q] = NoPwd /\ auth_pwd[q] = Text(NoPwd)
         \/ q \in fromFile /\ q \notin edited /\ auth_pwd[q] = Text(chosen[q])
         \/ /\ chosen[q] # NoPwd /\ q \notin fromFile /\ q \in edited
            /\ auth_pwd[q] = Sealed(chosen[q], key')
<1>1. InOrder(q) /\ auth_pwd[q] \in Values /\ chosen[q] \in Pwds \union {NoPwd}
  BY DEF PasswordInv, RowsInOrder, PasswordTypeOK
<1>2. CASE auth_pwd[q] = Sealed(chosen[q], key) /\ chosen[q] # NoPwd
  <2>1. key # 0
    BY <1>1, <1>2, PasswordAssumption DEF Values, Texts, Blobs, NoBlob, Sealed
  <2>2. auth_pwd[q].form = "blob"
    BY <1>2 DEF Sealed
  <2>3. key' = key
    BY <2>1, <2>2 DEF Replaced
  <2> QED BY <1>1, <2>3 DEF InOrder
<1> QED BY <1>1, <1>2 DEF InOrder

-----------------------------------------------------------------------------
LEMMA InitPasswordInv == PasswordInit => PasswordInv
  BY PasswordAssumption
     DEF PasswordInit, PasswordInv, PasswordTypeOK, RowsInOrder, NoPasswordInClear, Values, Texts, Text

(* Inserts and updates with a password.                                    *)
LEMMA GivePasswordInv ==
  ASSUME PasswordInv, NEW r \in Rows, NEW p \in Pwds \union {NoPwd},
         Give(r, p), there' = there \union {r},
         edited' \in SUBSET Rows, \A q \in Rows \ {r} : q \in edited' <=> q \in edited,
         typed' \in SUBSET Rows
  PROVE  PasswordInv'
<1>1. /\ keys' \in 0..MaxKeys /\ key' \in 0..keys' /\ keyFaults' \in 0..MaxKeyFaults
      /\ key' # key => key = 0 \/ keyFaults' # keyFaults
  BY BucketForms DEF Give
<1>2. PICK v : /\ auth_pwd' = [auth_pwd EXCEPT ![r] = v]
               /\ \/ p = NoPwd /\ v = Text(NoPwd)
                  \/ p # NoPwd /\ v = Sealed(p, key') /\ key' \in 1..keys'
                  \/ p # NoPwd /\ v = NoBlob /\ (keyFaults' # keyFaults \/ p \in LongPwds)
  BY BucketForms DEF Give
<1>3. /\ chosen' = [chosen EXCEPT ![r] = p] /\ fromFile' = fromFile \ {r}
      /\ GivenUp(r, p)
  BY DEF Give
<1>4. v \in Values
  <2>1. 1..keys' \subseteq 1..MaxKeys
    BY <1>1, PasswordAssumption
  <2> QED BY <1>2, <2>1 DEF Values, Texts, Blobs, Text, Sealed
<1>5. PasswordTypeOK'
  <2>1. spoiled' \in SUBSET Rows
    BY <1>3 DEF PasswordInv, PasswordTypeOK, GivenUp, With, Replaced
  <2>2. auth_pwd' \in [Rows -> Values]
    BY <1>2, <1>4 DEF PasswordInv, PasswordTypeOK
  <2>3. chosen' \in [Rows -> Pwds \union {NoPwd}] /\ fromFile' \in SUBSET Rows
    BY <1>3 DEF PasswordInv, PasswordTypeOK
  <2> QED BY <1>1, <2>1, <2>2, <2>3 DEF PasswordInv, PasswordTypeOK
<1>6. auth_pwd'[r] = v /\ chosen'[r] = p
  BY <1>2, <1>3 DEF PasswordInv, PasswordTypeOK
<1>7. \A q \in Rows \ {r} : auth_pwd'[q] = auth_pwd[q] /\ chosen'[q] = chosen[q]
  BY <1>2, <1>3 DEF PasswordInv, PasswordTypeOK
<1>8. there \subseteq Rows
  BY DEF PasswordInv, PasswordTypeOK
<1>9. \A q \in there' : OwnOrNone(q)'
  <2>1. OwnOrNone(r)'
    BY <1>2, <1>6 DEF OwnOrNone, Text, Sealed
  <2> QED BY <2>1, <1>7, <1>8 DEF PasswordInv, RowsInOrder, OwnOrNone
<1>10. NoPasswordInClear'
  <2>1. v.form = "text" => v.pwd = NoPwd
    BY <1>2 DEF Text, Sealed, NoBlob
  <2> QED BY <2>1, <1>3, <1>6, <1>7, <1>8 DEF PasswordInv, NoPasswordInClear
<1>11. ASSUME NEW q \in there' \ spoiled'
       PROVE  InOrder(q)'
  <2>1. CASE q = r
    <3>1. v = NoBlob /\ p # NoPwd => keyFaults' # keyFaults \/ p \in LongPwds
      BY <1>2 DEF NoBlob, Sealed
    <3>2. r \notin spoiled'
      BY <2>1, <1>11
    <3>3. p # NoPwd => v # NoBlob /\ r \in edited'
      BY <1>3, <1>6, <3>1, <3>2 DEF GivenUp, With
    <3> QED BY <1>2, <1>3, <1>6, <2>1, <3>3 DEF InOrder
  <2>2. CASE q # r
    <3>1. q \in there \ (spoiled \union Replaced)
      BY <1>3, <2>2, <1>11 DEF GivenUp, With
    <3>2. \/ chosen[q] = NoPwd /\ auth_pwd[q] = Text(NoPwd)
          \/ q \in fromFile /\ q \notin edited /\ auth_pwd[q] = Text(chosen[q])
          \/ /\ chosen[q] # NoPwd /\ q \notin fromFile /\ q \in edited
             /\ auth_pwd[q] = Sealed(chosen[q], key')
      BY <1>1, <3>1, OthersInOrder
    <3>3. (q \in fromFile' <=> q \in fromFile) /\ (q \in edited' <=> q \in edited)
      BY <1>3, <1>8, <3>1, <2>2
    <3> QED BY <1>7, <1>8, <2>2, <3>1, <3>2, <3>3 DEF InOrder
  <2> QED BY <2>1, <2>2
<1> QED BY <1>5, <1>9, <1>10, <1>11 DEF PasswordInv, RowsInOrder

LEMMA LoadPasswordInv ==
  ASSUME PasswordInv, NEW r \in Rows, NEW p \in Pwds \union {NoPwd}, LoadProfile(r, p)
  PROVE  PasswordInv'
<1> USE DEF PasswordInv, LoadProfile, keystore
<1>1. Text(p) \in Values
  BY DEF Values, Texts, Text
<1>2. PasswordTypeOK'
  BY <1>1 DEF PasswordTypeOK
<1>3. auth_pwd'[r] = Text(p) /\ chosen'[r] = p
  BY DEF PasswordTypeOK
<1>4. \A q \in Rows \ {r} : auth_pwd'[q] = auth_pwd[q] /\ chosen'[q] = chosen[q]
  BY DEF PasswordTypeOK
<1>5. there \subseteq Rows
  BY DEF PasswordTypeOK
<1>6. ASSUME NEW q \in there' PROVE OwnOrNone(q)'
  BY <1>3, <1>4, <1>5 DEF RowsInOrder, OwnOrNone, Text
<1>7. ASSUME NEW q \in there' \ spoiled' PROVE InOrder(q)'
  BY <1>3, <1>4, <1>5 DEF RowsInOrder, InOrder
<1>8. NoPasswordInClear'
  BY <1>3, <1>4, <1>5 DEF NoPasswordInClear
<1> QED BY <1>2, <1>6, <1>7, <1>8 DEF RowsInOrder

LEMMA OtherPasswordInv ==
  ASSUME PasswordInv, NEW r \in Rows, NEW isEdited \in BOOLEAN, UpdateOther(r, isEdited)
  PROVE  PasswordInv'
<1> USE DEF PasswordInv, UpdateOther, keystore
<1>1. edited' \in SUBSET Rows /\ spoiled' \in SUBSET Rows
  BY DEF PasswordTypeOK, With
<1>2. PasswordTypeOK'
  BY <1>1 DEF PasswordTypeOK
<1>3. \A q \in there' : OwnOrNone(q)'
  BY DEF RowsInOrder, OwnOrNone
<1>4. ASSUME NEW q \in there' \ spoiled' PROVE InOrder(q)'
  <2>1. q \in there \ spoiled /\ InOrder(q)
    BY <1>4 DEF RowsInOrder
  <2>2. CASE q # r
    BY <2>1, <2>2 DEF InOrder, With
  <2>3. CASE q = r
    <3>1. chosen[r] = NoPwd \/ (r \in fromFile) # isEdited
      BY <1>4, <2>3
    <3> QED BY <2>1, <2>3, <3>1 DEF InOrder, With
  <2> QED BY <2>2, <2>3
<1>5. NoPasswordInClear'
  BY DEF NoPasswordInClear
<1> QED BY <1>2, <1>3, <1>4, <1>5 DEF RowsInOrder

LEMMA RefusedPasswordInv ==
  ASSUME PasswordInv, Refused
  PROVE  PasswordInv'
<1> USE DEF PasswordInv
<1>1. PICK n \in {0, 1} : KeyReady(n) /\ Faults(n + 1)
  BY DEF Refused
<1>2. /\ keys' \in 0..MaxKeys /\ key' \in 1..keys'
  BY <1>1, KeyReadyType
<1>3. n + 1 \in 0..2 /\ n + 1 # 0
  OBVIOUS
<1>4. keyFaults' \in 0..MaxKeyFaults /\ keyFaults' # keyFaults
  BY <1>1, <1>3, FaultsType
<1>5. spoiled' = spoiled \union Replaced /\ UNCHANGED <<table, chosen, fromFile>>
  BY DEF Refused
<1>6. PasswordTypeOK'
  BY <1>2, <1>4, <1>5 DEF PasswordTypeOK, table, Replaced
<1>7. \A q \in there' : OwnOrNone(q)'
  BY <1>5 DEF table, RowsInOrder, OwnOrNone
<1>8. ASSUME NEW q \in there' \ spoiled' PROVE InOrder(q)'
  <2>1. q \in there \ (spoiled \union Replaced)
    BY <1>5, <1>8 DEF table
  <2> QED BY <1>4, <1>5, <2>1, OthersInOrder DEF InOrder, table
<1>9. NoPasswordInClear'
  BY <1>5 DEF NoPasswordInClear, table
<1> QED BY <1>6, <1>7, <1>8, <1>9 DEF RowsInOrder

LEMMA NextPasswordInv == PasswordInv /\ [PasswordNext]_passwordVars => PasswordInv'
<1> SUFFICES ASSUME PasswordInv, [PasswordNext]_passwordVars PROVE PasswordInv'
  OBVIOUS
<1>1. ASSUME NEW r \in Rows, NEW p \in Pwds \union {NoPwd}, NEW isEdited \in BOOLEAN,
             UpdatePassword(r, p, isEdited)
      PROVE  PasswordInv'
  <2>1. Give(r, p) /\ there' = there \union {r}
    BY <1>1 DEF UpdatePassword
  <2>2. /\ edited' \in SUBSET Rows /\ typed' \in SUBSET Rows
        /\ \A q \in Rows \ {r} : q \in edited' <=> q \in edited
    BY <1>1 DEF UpdatePassword, With, PasswordInv, PasswordTypeOK
  <2> QED BY <2>1, <2>2, GivePasswordInv
<1>2. ASSUME NEW r \in Rows, NEW p \in Pwds \union {NoPwd}, NEW isEdited \in BOOLEAN,
             NEW isTyped \in BOOLEAN, InsertPassword(r, p, isEdited, isTyped)
      PROVE  PasswordInv'
  <2>1. Give(r, p) /\ there' = there \union {r}
    BY <1>2 DEF InsertPassword
  <2>2. /\ edited' \in SUBSET Rows /\ typed' \in SUBSET Rows
        /\ \A q \in Rows \ {r} : q \in edited' <=> q \in edited
    BY <1>2 DEF InsertPassword, With, PasswordInv, PasswordTypeOK
  <2> QED BY <2>1, <2>2, GivePasswordInv
<1>3. ASSUME NEW r \in Rows, Delete(r)
      PROVE  PasswordInv'
  <2> USE <1>3 DEF PasswordInv, Delete, keystore, history
  <2>1. PasswordTypeOK'
    BY DEF PasswordTypeOK
  <2>2. RowsInOrder'
    BY DEF RowsInOrder, OwnOrNone, InOrder
  <2> QED BY <2>1, <2>2 DEF NoPasswordInClear
<1>4. CASE UNCHANGED passwordVars
  BY <1>4 DEF PasswordInv, passwordVars, table, keystore, history, PasswordTypeOK, RowsInOrder, OwnOrNone,
              InOrder, NoPasswordInClear
<1> QED BY <1>1, <1>2, <1>3, <1>4, LoadPasswordInv, OtherPasswordInv, RefusedPasswordInv DEF PasswordNext

-----------------------------------------------------------------------------
(* What the invariant says of queries.                                     *)
LEMMA InOrderReadBack == PasswordInv => PasswordReadBack
<1> SUFFICES ASSUME PasswordInv, NEW r \in there, r \notin spoiled, r \in typed
             PROVE  Query(r) = chosen[r]
  BY DEF PasswordReadBack
<1>1. InOrder(r) /\ ~Cut(r)
  BY DEF PasswordInv, RowsInOrder, Cut
<1> QED BY <1>1 DEF InOrder, Query, Opens, DecryptData, Text, Sealed

LEMMA OwnOrNoneShown == PasswordInv => NeverAnother
<1> SUFFICES ASSUME PasswordInv, NEW r \in there
             PROVE  Query(r) \in {chosen[r], NoPwd, "sealed", "cut"}
  BY DEF NeverAnother
<1>1. OwnOrNone(r)
  BY DEF PasswordInv, RowsInOrder
<1> QED BY <1>1 DEF OwnOrNone, NoBlob, Query, Opens, DecryptData

(* The invariant holds in every state, and with it what it consists of.    *)
THEOREM PasswordInvariant == PasswordSpec => []PasswordInv
  BY InitPasswordInv, NextPasswordInv, PTL DEF PasswordSpec

(* What a row holds is text or sealed with a key that was generated.       *)
THEOREM PasswordTypes == PasswordSpec => []PasswordTypeOK
<1>1. PasswordInv => PasswordTypeOK
  BY DEF PasswordInv
<1> QED BY <1>1, PasswordInvariant, PTL

(* A client reads back the password it gave or that of the file, unless    *)
(* the key store failed, the password was too long or edited was wrong.    *)
THEOREM PasswordsReadBack == PasswordSpec => []PasswordReadBack
  BY InOrderReadBack, PasswordInvariant, PTL

(* Whatever fails in the key store, and whichever keys it replaces, no row *)
(* shows a password of another row or one it had before.                   *)
THEOREM NoOtherPassword == PasswordSpec => []NeverAnother
  BY OwnOrNoneShown, PasswordInvariant, PTL

(* No password that came from a client is kept in the clear, not even when *)
(* sealing it failed.                                                      *)
THEOREM ClientPasswordsSealed == PasswordSpec => []NoPasswordInClear
<1>1. PasswordInv => NoPasswordInClear
  BY DEF PasswordInv
<1> QED BY <1>1, PasswordInvariant, PTL
===============================================================================
