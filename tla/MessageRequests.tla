-------------------------- MODULE MessageRequests --------------------------
(***************************************************************************)
(* Requests to the message ability.  Every client call runs on a thread of *)
(* its own: the DataShare stub finds the ability that owns the URI, the    *)
(* ability checks the caller and its database, takes lock_ (a mark-read    *)
(* does not), runs its statements, each of them atomic under the mutex of  *)
(* RdbSmsMmsBaseHelper, with one retry after 500 ms for six error codes,   *)
(* and the stub announces the change.  A batch insert is a transaction of  *)
(* whatever store_ is at each of its statements.  Meanwhile the unlock may *)
(* move store_ from the EL1 file to the EL2 file, and the process may die. *)
(***************************************************************************)
EXTENDS Naturals, Sequences

CONSTANTS
  Clients,      (* Threads that serve calls.                               *)
  Msgs,         (* Rows clients may insert.                                *)
  MaxRequests,  (* Bound: calls in a behaviour.                            *)
  MaxFaults     (* Bound: operations of the system that fail.              *)

ASSUME BoundsAssumption == MaxRequests \in Nat /\ MaxFaults \in Nat

Dbs == {"lt", "el2"}
Kinds == {"insert", "update", "delete", "batch", "markRead", "version"}
Tables == {"common", "smc", "lt"}
Codes == {"ok", "retryable", "fatal", "denied", "error"}

RETRY_TIMES == 2

VARIABLES
  rows,         (* What each database holds, uncommitted changes included. *)
  open,         (* Its open transactions: what each rolls back to.         *)
  store,        (* store_                                                  *)
  storeLT,      (* storeLT_                                                *)
  lock,         (* Who holds lock_ of the ability.                         *)
  pc,           (* Where each call stands.                                 *)
  kind, table,  (* What it asks for.                                       *)
  msgs,         (* The rows it is about.                                   *)
  put,          (* The rows it has changed, each with its database.        *)
  tries,        (* retryTimes                                              *)
  result,       (* What the ability returns.                               *)
  versionAbility,   (* opkeyVersionAbility_; 0 is null.                    *)
  versionMutex,     (* Who holds opkeyVersionMutex_.                       *)
  served,       (* History: the version abilities calls were given.        *)
  sent,         (* History: rows of the insert calls made.                 *)
  batches,      (* History: the rows of each batch call.                   *)
  acked, marked, gone,  (* History: rows inserted, marked read and deleted *)
                        (* for which the code was told so.                 *)
  spoiled,      (* History: how a transaction was left open.               *)
  requests, faults

data     == <<rows, open>>
handles  == <<store, storeLT>>
call     == <<kind, table, msgs>>
progress == <<put, tries, result>>
version  == <<versionAbility, versionMutex, served>>
history  == <<sent, batches, acked, marked, gone, spoiled>>
vars     == <<data, handles, lock, pc, call, progress, version, history,
              requests, faults>>

Goto(c, place) == pc' = [pc EXCEPT ![c] = place]
Answer(c, code) == result' = [result EXCEPT ![c] = code]

Fault == faults < MaxFaults /\ faults' = faults + 1
NoFault == UNCHANGED faults

(* A row and its read flag.                                                *)
Absent == [copies |-> 0, read |-> FALSE]
Contents == [Msgs -> [copies : Nat, read : BOOLEAN]]

Inserted(db, m) == [db EXCEPT ![m] = [copies |-> @.copies + 1, read |-> FALSE]]
Marked(db, m) == [db EXCEPT ![m] = [copies |-> @.copies, read |-> @.copies > 0]]

(* Variants with a plausible mistake, to show that the properties can tell.*)
RemovedOnce(db, m) == [db EXCEPT ![m] = [copies |-> @.copies - 1, read |-> FALSE]]
RetriesAll(code) == TRUE
LocksUnlessBatch(c) ==
  /\ pc[c] = "lock"
  /\ IF kind[c] = "batch" THEN UNCHANGED lock ELSE lock = {} /\ lock' = {c}
UnlocksOnSuccess(c) == lock' = IF result[c] = "ok" THEN lock \ {c} ELSE lock
AnnouncesZero(c) == result[c] = "ok" /\ kind[c] # "insert"
OnFailureReturn(c) == Goto(c, "return")
NeverFound == FALSE

Removed(db, m) == [db EXCEPT ![m] = Absent]

Inserting(c) == kind[c] \in {"insert", "batch"}

Changed(c, db, m) ==
  CASE Inserting(c)        -> Inserted(db, m)
    [] kind[c] = "delete"  -> Removed(db, m)
    [] OTHER               -> Marked(db, m)

-----------------------------------------------------------------------------
(* A thread that serves no call.                                           *)
NoCall == [kind |-> "version", table |-> "common", result |-> "error"]

(* The process starts on databases with rows from before.                  *)
Unread == [copies |-> 1, read |-> FALSE]

Init ==
  /\ \E old \in [Msgs -> Dbs \union {"null"}] :
       /\ rows = [d \in Dbs |-> [m \in Msgs |-> IF old[m] = d THEN Unread ELSE Absent]]
       /\ sent = {m \in Msgs : old[m] # "null"}
       /\ acked = {p \in Dbs \X Msgs : old[p[2]] = p[1]}
  /\ open = [d \in Dbs |-> <<>>]
  /\ store = "null" /\ storeLT = "null"
  /\ lock = {}
  /\ pc = [c \in Clients |-> "idle"]
  /\ kind = [c \in Clients |-> NoCall.kind]
  /\ table = [c \in Clients |-> NoCall.table]
  /\ msgs = [c \in Clients |-> {}]
  /\ put = [c \in Clients |-> {}]
  /\ tries = [c \in Clients |-> 0]
  /\ result = [c \in Clients |-> NoCall.result]
  /\ versionAbility = 0 /\ versionMutex = {} /\ served = {}
  /\ batches = {} /\ marked = {} /\ gone = {}
  /\ spoiled = {}
  /\ requests = 0 /\ faults = 0

(* A call arrives at the stub.  Inserted rows are new; updates, deletes    *)
(* and mark-reads are about a row that some call inserts.                  *)
Request(c, k, t, S) ==
  /\ pc[c] = "idle" /\ requests < MaxRequests
  /\ \/ k = "insert" /\ (\E m \in Msgs \ sent : S = {m})
     \/ k = "batch" /\ t = "common" /\ S \subseteq Msgs \ sent /\ S # {}
     \/ k \in {"update", "delete"} /\ t # "smc" /\ (\E m \in sent : S = {m})
     \/ k = "markRead" /\ t = "common" /\ (\E m \in sent : S = {m})
     \/ k = "version" /\ t = "common" /\ S = {}
  /\ Goto(c, IF k = "version" THEN "owner" ELSE "check")
  /\ kind' = [kind EXCEPT ![c] = k]
  /\ table' = [table EXCEPT ![c] = t]
  /\ msgs' = [msgs EXCEPT ![c] = S]
  /\ UNCHANGED progress
  /\ sent' = IF k \in {"insert", "batch"} THEN sent \union S ELSE sent
  /\ batches' = IF k = "batch" THEN batches \union {S} ELSE batches
  /\ requests' = requests + 1
  /\ UNCHANGED <<data, handles, lock, version, acked, marked, gone, spoiled, faults>>

(* A call ends, and with it the thread's local variables.                  *)
End(c) ==
  /\ Goto(c, "idle")
  /\ kind' = [kind EXCEPT ![c] = NoCall.kind]
  /\ table' = [table EXCEPT ![c] = NoCall.table]
  /\ msgs' = [msgs EXCEPT ![c] = {}]
  /\ put' = [put EXCEPT ![c] = {}]
  /\ tries' = [tries EXCEPT ![c] = 0]
  /\ Answer(c, NoCall.result)

-----------------------------------------------------------------------------
(* GetOpkeyVersionAbility: the pointer is tested without the mutex, and    *)
(* again with it before it is set; whoever finds it set returns it.  The   *)
(* other abilities are tested and set under their mutex only.              *)
TakeVersion(c, ability) == served' = served \union {ability} /\ End(c)

FindVersionAbility(c) ==
  /\ pc[c] = "owner"
  /\ IF versionAbility # 0
     THEN TakeVersion(c, versionAbility)
     ELSE Goto(c, "create") /\ UNCHANGED <<call, progress, served>>
  /\ UNCHANGED <<data, handles, lock, versionAbility, versionMutex, history,
                 requests, faults>>

IsCreated == versionAbility # 0

LockVersion(c) ==
  /\ pc[c] = "create" /\ versionMutex = {}
  /\ IF IsCreated
     THEN TakeVersion(c, versionAbility) /\ UNCHANGED versionMutex
     ELSE /\ versionMutex' = {c} /\ Goto(c, "reset")
          /\ UNCHANGED <<call, progress, served>>
  /\ UNCHANGED <<data, handles, lock, versionAbility, history, requests, faults>>

(* A new ability: no other has its number.                                 *)
CreateVersionAbility(c) ==
  /\ pc[c] = "reset"
  /\ versionAbility' = versionAbility + 1
  /\ TakeVersion(c, versionAbility')
  /\ versionMutex' = versionMutex \ {c}
  /\ UNCHANGED <<data, handles, lock, history, requests, faults>>

-----------------------------------------------------------------------------
(* IsInitOk and the DoInit it runs: some file must open.  The EL2 file     *)
(* does not before the unlock; SmsStoreMigration has the details.          *)
DoInit ==
  \E lt \in {storeLT, "lt"}, el2 \in {"null", "el2"} :
    /\ IF lt = "null" THEN Fault ELSE NoFault
    /\ storeLT' = lt
    /\ store' = IF el2 # "null" THEN el2 ELSE lt

(* The checks before lock_: the caller's permission, its URI, the          *)
(* database.  An insert into the LT tables goes on without the latter.     *)
Check(c) ==
  /\ pc[c] = "check"
  /\ \/ /\ \E code \in {"denied", "error"} : Answer(c, code)
        /\ Goto(c, "return")
        /\ NoFault /\ UNCHANGED handles
     \/ /\ IF store = "null" THEN DoInit ELSE NoFault /\ UNCHANGED handles
        /\ IF store' = "null" /\ ~(kind[c] = "insert" /\ table[c] = "lt")
           THEN Goto(c, "return")
           ELSE Goto(c, IF kind[c] = "markRead" THEN "run" ELSE "lock")
        /\ UNCHANGED result
  /\ UNCHANGED <<data, lock, call, put, tries, version, history, requests>>

HoldsLock(c) == pc[c] = "lock" /\ lock = {} /\ lock' = {c}

TakeLock(c) ==
  /\ HoldsLock(c)
  /\ Goto(c, IF kind[c] = "batch" THEN "begin" ELSE "run")
  /\ UNCHANGED <<data, handles, call, progress, version, history, requests, faults>>

(* BeginTransaction, nested in one that was left open or refused for it.   *)
Begin(c) ==
  /\ pc[c] = "begin"
  /\ \/ /\ NoFault
        /\ open' = [open EXCEPT ![store] = <<rows[store]>> \o @]
        /\ Goto(c, "run")
        /\ UNCHANGED result
     \/ /\ IF open[store] = <<>> THEN Fault ELSE NoFault
        /\ Answer(c, "fatal") /\ Goto(c, "return")
        /\ UNCHANGED open
  /\ UNCHANGED <<rows, handles, lock, call, put, tries, version, history, requests>>

Target(c) == IF table[c] = "lt" THEN storeLT ELSE store

IsRetryable(code) == code = "retryable"

(* InsertLT and the insert of an SMC are not retried.                      *)
Retries(c) ==
  \/ kind[c] = "insert" /\ table[c] = "common"
  \/ kind[c] \in {"update", "delete"}

(* What the statement's success tells the code.  A mark-read is not under  *)
(* lock_: one that falls into another call's transaction shares its fate.  *)
Told(c, db, m) ==
  LET pair == <<db, m>>
      present == rows[db][m].copies > 0
      joins == kind[c] = "markRead" /\ open[db] # <<>>
  IN
  /\ acked' = IF kind[c] = "insert" THEN acked \union {pair}
              ELSE IF kind[c] = "delete" THEN acked \ {pair} ELSE acked
  /\ marked' = IF kind[c] \in {"update", "markRead"} /\ present /\ ~joins
               THEN marked \union {pair}
               ELSE IF kind[c] = "delete" THEN marked \ {pair} ELSE marked
  /\ gone' = IF kind[c] = "delete" /\ present THEN gone \union {pair} ELSE gone

(* A statement: it succeeds, or fails without effect.                      *)
Statement(c, m, code) ==
  LET db == Target(c) IN
  IF code = "ok"
  THEN /\ db # "null" /\ NoFault
       /\ rows' = [rows EXCEPT ![db] = Changed(c, @, m)]
       /\ put' = [put EXCEPT ![c] = @ \union {<<db, m>>}]
       /\ Told(c, db, m)
  ELSE /\ code \in {"retryable", "fatal"}
       /\ IF db = "null" THEN code = "fatal" /\ NoFault ELSE Fault
       /\ UNCHANGED <<rows, put, acked, marked, gone>>

(* InsertRetry, ProcessRdbUpdate, Delete: once more after a pause for the  *)
(* listed codes, lock_ held all the while.                                 *)
Run(c, code) ==
  LET again == Retries(c) /\ IsRetryable(code) /\ tries[c] + 1 < RETRY_TIMES IN
  /\ pc[c] = "run" /\ kind[c] # "batch"
  /\ \E m \in msgs[c] : Statement(c, m, code)
  /\ tries' = [tries EXCEPT ![c] = IF Retries(c) /\ IsRetryable(code) THEN @ + 1 ELSE @]
  /\ Answer(c, code)
  /\ Goto(c, IF again THEN "sleep" ELSE "return")
  /\ UNCHANGED <<open, handles, lock, call, version, sent, batches, spoiled, requests>>

Wake(c) ==
  /\ pc[c] = "sleep"
  /\ Goto(c, "run")
  /\ UNCHANGED <<data, handles, lock, call, progress, version, history, requests, faults>>

(* BatchInsertSmsMmsInfo, between Begin and Commit: a row that fails sends *)
(* the whole batch back, with its code.                                    *)
Pending(c) == {m \in msgs[c] : \A d \in Dbs : <<d, m>> \notin put[c]}

OnFailure(c) == Goto(c, "rollback")

InsertNext(c, code) ==
  /\ pc[c] = "run" /\ kind[c] = "batch"
  /\ \E m \in Pending(c) : Statement(c, m, code)
  /\ IF code = "ok" THEN UNCHANGED result ELSE Answer(c, code)
  /\ IF code = "ok" THEN Goto(c, "run") ELSE OnFailure(c)
  /\ UNCHANGED <<open, handles, lock, call, tries, version, sent, batches, spoiled,
                 requests>>

(* CommitTransactionAction.  Without a transaction, because store_ moved   *)
(* on since Begin, Commit may report anything.                             *)
Commit(c, code) ==
  /\ pc[c] = "run" /\ kind[c] = "batch" /\ Pending(c) = {}
  /\ Answer(c, code)
  /\ \/ /\ code = "ok" /\ NoFault
        /\ open' = IF open[store] = <<>> THEN open ELSE [open EXCEPT ![store] = Tail(@)]
        /\ acked' = acked \union put[c]
        /\ Goto(c, "return")
     \/ /\ code = "fatal"
        /\ IF open[store] = <<>> THEN NoFault ELSE Fault
        /\ OnFailure(c)
        /\ UNCHANGED <<open, acked>>
  /\ UNCHANGED <<rows, handles, lock, call, put, tries, version, sent, batches,
                 marked, gone, spoiled, requests>>

(* RollBack, whose own result nobody looks at.                             *)
RollBack(c) ==
  /\ pc[c] = "rollback"
  /\ Goto(c, "return")
  /\ \/ /\ open[store] = <<>> /\ NoFault
        /\ UNCHANGED <<data, spoiled>>
     \/ /\ open[store] # <<>> /\ NoFault
        /\ rows' = [rows EXCEPT ![store] = Head(open[store])]
        /\ open' = [open EXCEPT ![store] = Tail(@)]
        /\ UNCHANGED spoiled
     \/ /\ open[store] # <<>> /\ Fault
        /\ spoiled' = spoiled \union {"rollback"}
        /\ UNCHANGED data
  /\ UNCHANGED <<handles, lock, call, progress, version, sent, batches, acked,
                 marked, gone, requests>>

-----------------------------------------------------------------------------
ReleasesLock(c) == lock' = lock \ {c}

(* The stub's test of what the ability returned.  An insert returns the    *)
(* row's id, which stays -1 unless it succeeds; the others return the code.*)
Announces(c) ==
  /\ result[c] # "error"
  /\ kind[c] = "insert" => result[c] \in {"ok", "denied"}

(* The ability returns; lock_ goes with the scope.                         *)
Return(c) ==
  /\ pc[c] = "return"
  /\ ReleasesLock(c)
  /\ IF Announces(c) THEN Goto(c, "notify") /\ UNCHANGED <<call, progress>>
                     ELSE End(c)
  /\ UNCHANGED <<data, handles, version, history, requests, faults>>

(* NotifyChange: whether it reached the observers is only logged.          *)
NotifyChange(c) ==
  /\ pc[c] = "notify"
  /\ End(c)
  /\ UNCHANGED <<data, handles, lock, version, history, requests, faults>>

(* OnMounted: store_ refers to the EL2 file from here on.  A transaction   *)
(* under way on the file it referred to is left open there.                *)
ChangeRdbStoreToEl2 ==
  /\ store = "lt"
  /\ store' = "el2"
  /\ spoiled' = IF open["lt"] = <<>> THEN spoiled ELSE spoiled \union {"switch"}
  /\ UNCHANGED <<data, storeLT, lock, pc, call, progress, version, sent, batches,
                 acked, marked, gone, requests, faults>>

(* The process dies: what was not committed never was.                     *)
Committed(d) == IF open[d] = <<>> THEN rows[d] ELSE open[d][Len(open[d])]

Crash ==
  /\ store # "null"
  /\ rows' = [d \in Dbs |-> Committed(d)]
  /\ open' = [d \in Dbs |-> <<>>]
  /\ store' = "null" /\ storeLT' = "null"
  /\ lock' = {}
  /\ pc' = [c \in Clients |-> "idle"]
  /\ kind' = [c \in Clients |-> NoCall.kind]
  /\ table' = [c \in Clients |-> NoCall.table]
  /\ msgs' = [c \in Clients |-> {}]
  /\ put' = [c \in Clients |-> {}]
  /\ tries' = [c \in Clients |-> 0]
  /\ result' = [c \in Clients |-> NoCall.result]
  /\ versionAbility' = 0 /\ versionMutex' = {} /\ served' = {}
  /\ UNCHANGED <<history, requests, faults>>

-----------------------------------------------------------------------------
Step(c) ==
  \/ FindVersionAbility(c) \/ LockVersion(c) \/ CreateVersionAbility(c)
  \/ Check(c) \/ TakeLock(c)
  \/ Begin(c) \/ RollBack(c)
  \/ \E code \in Codes : Run(c, code) \/ InsertNext(c, code) \/ Commit(c, code)
  \/ Wake(c)
  \/ Return(c) \/ NotifyChange(c)

Next ==
  \/ \E c \in Clients :
       \/ \E k \in Kinds, t \in Tables, S \in SUBSET Msgs : Request(c, k, t, S)
       \/ Step(c)
  \/ ChangeRdbStoreToEl2
  \/ Crash

Spec == Init /\ [][Next]_vars

(* A thread that can run does run.  There are finitely many calls, so that *)
(* lock_, which promises no order, cannot pass one by for ever.            *)
Fairness == \A c \in Clients : WF_vars(Step(c))

FairSpec == Spec /\ Fairness

-----------------------------------------------------------------------------
Places == {"idle", "owner", "create", "reset", "check", "lock", "begin", "run",
           "sleep", "rollback", "return", "notify"}
Rows == Dbs \X Msgs

(* Everything has its type.                                                *)
TypeOK ==
  /\ rows \in [Dbs -> Contents]
  /\ open \in [Dbs -> Seq(Contents)]
  /\ store \in Dbs \union {"null"}
  /\ storeLT \in {"lt", "null"}
  /\ lock \in SUBSET Clients
  /\ pc \in [Clients -> Places]
  /\ kind \in [Clients -> Kinds]
  /\ table \in [Clients -> Tables]
  /\ msgs \in [Clients -> SUBSET Msgs]
  /\ put \in [Clients -> SUBSET Rows]
  /\ tries \in [Clients -> Nat]
  /\ result \in [Clients -> Codes]
  /\ versionAbility \in Nat /\ versionMutex \in SUBSET Clients /\ served \in SUBSET Nat
  /\ sent \in SUBSET Msgs /\ batches \in SUBSET SUBSET Msgs
  /\ acked \in SUBSET Rows /\ marked \in SUBSET Rows /\ gone \in SUBSET Rows
  /\ spoiled \in SUBSET {"rollback", "switch"}
  /\ requests \in 0..MaxRequests /\ faults \in 0..MaxFaults

(* What was reported inserted, marked read or deleted stays so, through    *)
(* roll-backs of other calls, the unlock and crashes, unless a batch left  *)
(* its transaction open: then later changes die with it.                   *)
NothingUndone ==
  spoiled = {} =>
    /\ \A p \in acked : rows[p[1]][p[2]].copies > 0
    /\ \A p \in marked : rows[p[1]][p[2]].read
    /\ \A p \in gone : rows[p[1]][p[2]].copies = 0

Stored == {m \in Msgs : \E d \in Dbs : rows[d][m].copies > 0}
Deleted == {p[2] : p \in gone}

(* A batch whose call is over has inserted all its rows or none, whatever  *)
(* failed, crashed or ran in between.                                      *)
BatchAtomic ==
  spoiled = {} =>
    \A B \in batches :
      \/ \E c \in Clients : pc[c] # "idle" /\ kind[c] = "batch" /\ msgs[c] = B
      \/ B \subseteq Stored \union Deleted
      \/ B \intersect (Stored \union Deleted) = {}

(* A retry inserts nothing that is there: no row is ever there twice.      *)
InsertedOnce ==
  \A m \in Msgs :
    /\ \A d \in Dbs : rows[d][m].copies <= 1
    /\ rows["lt"][m].copies = 0 \/ rows["el2"][m].copies = 0

(* A transaction is open only while the batch that began it holds lock_:   *)
(* no path leaves one behind except those recorded in spoiled.             *)
TransactionsClosed ==
  spoiled = {} =>
    \A d \in Dbs :
      open[d] # <<>> =>
        /\ d = store /\ Len(open[d]) = 1
        /\ \E c \in lock : kind[c] = "batch" /\ pc[c] \in {"run", "rollback"}

(* All calls of one process are given one version ability.                 *)
OneVersionAbility == \A a, b \in served : a = b

(* A call that changed rows ends with an announcement, whatever it returns *)
(* (unless the process dies first).                                        *)
NoSilentChange ==
  [][\A c \in Clients :
       pc[c] = "return" /\ pc'[c] = "idle" /\ store' = store => put[c] = {}]_vars

(* Every call is answered: lock_ is released on every path, and the pauses *)
(* and retries end.  Calls are finitely many, so that all are answered if  *)
(* and only if again and again none is under way.                          *)
RequestAnswered == []<>(\A c \in Clients : pc[c] = "idle")

=============================================================================
