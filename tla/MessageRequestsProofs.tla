----------------------- MODULE MessageRequestsProofs -----------------------
(***************************************************************************)
(* Proofs about the requests to the message ability, for any number of     *)
(* threads, rows, calls and failures, wherever the unlock and the death of *)
(* the process fall.                                                       *)
(***************************************************************************)
EXTENDS MessageRequests, TLAPS

(* Where the calls stand.  lock_ has one holder, and who changes rows or   *)
(* has a transaction holds it, but for a mark-read; only an insert into    *)
(* the LT tables gets that far without a store.                            *)
Locked == {"begin", "run", "sleep", "rollback"}
Writing == Locked \union {"lock"}

KindAt(c) ==
  /\ pc[c] \in {"idle", "owner", "create", "reset"} <=> kind[c] = "version"
  /\ pc[c] \in {"begin", "rollback"} => kind[c] = "batch"
  /\ pc[c] = "sleep" => kind[c] # "batch"
  /\ pc[c] \in {"lock", "sleep"} => kind[c] # "markRead"
  /\ kind[c] \in {"batch", "markRead"} => table[c] = "common"

LockAt(c) ==
  /\ c \in lock => pc[c] \in Locked \union {"return"} /\ kind[c] # "markRead"
  /\ pc[c] \in Locked /\ kind[c] # "markRead" => c \in lock

StoreAt(c) == pc[c] \in Writing /\ store = "null" => kind[c] = "insert" /\ table[c] = "lt"

Control ==
  /\ \A a, b \in lock : a = b
  /\ \A c \in Clients : KindAt(c) /\ LockAt(c) /\ StoreAt(c)
  /\ store = "null" => \A d \in Dbs : open[d] = <<>>

(* All versions of a database that a reader or a roll-back may come to see:*)
(* in them a row is there once at most, and in one database only.          *)
Held(d) == {rows[d]} \union {open[d][i] : i \in 1..Len(open[d])}

OnceRows ==
  /\ \A d \in Dbs, m \in Msgs : \A s \in Held(d) :
       /\ s[m].copies <= 1
       /\ s[m].copies > 0 => m \in sent
       /\ s[m].read => s[m].copies > 0
  /\ \A m \in Msgs, d, e \in Dbs : \A s \in Held(d), t \in Held(e) :
       s[m].copies > 0 /\ t[m].copies > 0 => d = e

(* What a call that inserts is still to insert is nowhere, and no two such *)
(* calls insert the same row.                                              *)
BeforeEnd == {"check"} \union Writing
NowhereIn(m) == \A d \in Dbs : \A s \in Held(d) : s[m].copies = 0

Empty(c) ==
  \/ pc[c] \notin {"run", "rollback", "return", "notify"}
  \/ pc[c] = "run" /\ kind[c] # "batch"
OnceCall(c) ==
  /\ msgs[c] \subseteq sent
  /\ \A p \in put[c] : p[2] \in msgs[c]
  /\ Inserting(c) /\ pc[c] \in BeforeEnd => \A m \in Pending(c) : NowhereIn(m)
  /\ Empty(c) => put[c] = {}
Disjoint ==
  \A a, b \in Clients : a # b /\ Inserting(a) /\ Inserting(b) => msgs[a] \intersect msgs[b] = {}

Once == OnceRows /\ (\A c \in Clients : OnceCall(c)) /\ Disjoint

(* The rows of batches, and those the code was told of.                    *)
ToldOf == {p[2] : p \in acked \union marked \union gone}

Known ==
  /\ ToldOf \subseteq sent
  /\ \A B \in batches : B \subseteq sent
  /\ \A A, B \in batches : A = B \/ A \intersect B = {}
  /\ \A c \in Clients : /\ kind[c] = "batch" => msgs[c] \in batches
                        /\ kind[c] = "insert" => \A B \in batches : msgs[c] \intersect B = {}

(* A batch in its transaction: a roll-back takes its rows away and leaves  *)
(* all others as they are.                                                 *)
InBatch(c) == kind[c] = "batch" /\ pc[c] \in {"run", "rollback"}
Revertible(c) ==
  /\ Len(open[store]) = 1
  /\ \A m \in msgs[c] :
       open[store][1][m].copies = 0 /\ \A d \in Dbs \ {store} : rows[d][m].copies = 0
  /\ \A m \in Msgs \ msgs[c] :
       /\ open[store][1][m].copies = rows[store][m].copies
       /\ <<store, m>> \in marked => open[store][1][m].read
  /\ \A p \in put[c] : rows[p[1]][p[2]].copies > 0

Seen == Stored \union Deleted
Settled(B) == B \subseteq Seen \/ B \intersect Seen = {}

(* As long as no transaction was left open: nobody has been told anything  *)
(* of the rows of an insert under way; only a batch under way has a        *)
(* transaction, one that can be rolled back without loss; what was told    *)
(* holds; and a batch that is not under way is settled.                    *)
Faithful ==
  /\ \A c \in Clients : Inserting(c) /\ pc[c] \in BeforeEnd => msgs[c] \intersect ToldOf = {}
  /\ \A d \in Dbs : open[d] # <<>> => d = store /\ \E c \in Clients : InBatch(c)
  /\ \A c \in Clients : InBatch(c) => Revertible(c)
  /\ \A p \in acked : rows[p[1]][p[2]].copies > 0
  /\ \A p \in marked : rows[p[1]][p[2]].read
  /\ \A p \in gone : rows[p[1]][p[2]].copies = 0
  /\ \A B \in batches : Settled(B) \/ \E c \in Clients : InBatch(c) /\ msgs[c] = B

(* What the stub's test of the result relies on.                           *)
Announced ==
  \A c \in Clients :
    /\ pc[c] = "rollback" => result[c] # "error"
    /\ pc[c] = "return" /\ put[c] # {} =>
         result[c] # "error" /\ (kind[c] = "insert" => result[c] = "ok")

RequestInv ==
  /\ TypeOK /\ Control /\ Once /\ Known /\ Announced
  /\ spoiled = {} => Faithful

(* All version abilities a process has given out are the one it has; one   *)
(* thread at a time makes one, and only where there is none.               *)
VersionInv ==
  /\ served \subseteq {versionAbility}
  /\ \A c \in Clients : pc[c] = "reset" => versionMutex = {c} /\ versionAbility = 0
  /\ versionAbility = 0 => served = {}

-----------------------------------------------------------------------------
(* What Begin, Commit and RollBack do to a stack of open transactions.     *)
LEMMA Pushed ==
  ASSUME NEW S, NEW s \in Seq(S), NEW x \in S
  PROVE  /\ <<x>> \o s \in Seq(S) /\ Len(<<x>> \o s) = Len(s) + 1
         /\ (<<x>> \o s)[1] = x
         /\ \A i \in 1..Len(s) + 1 : (<<x>> \o s)[i] \in {x} \union {s[j] : j \in 1..Len(s)}
  OBVIOUS

LEMMA Popped ==
  ASSUME NEW S, NEW s \in Seq(S), s # <<>>
  PROVE  /\ Tail(s) \in Seq(S) /\ Len(s) \in Nat \ {0} /\ Len(Tail(s)) = Len(s) - 1
         /\ Head(s) = s[1] /\ s[1] \in S /\ s[Len(s)] \in S
         /\ \A i \in 1..Len(s) - 1 : Tail(s)[i] = s[i + 1]
  OBVIOUS

-----------------------------------------------------------------------------
(* Types.                                                                  *)
LEMMA ChangedInserting ==
  ASSUME NEW c, Inserting(c), NEW db, NEW m
  PROVE  Changed(c, db, m) = Inserted(db, m)
BY DEF Changed, Inserting

LEMMA ContentsKept ==
  ASSUME NEW db \in Contents, NEW m \in Msgs, NEW c \in Clients
  PROVE  Changed(c, db, m) \in Contents
<1>1. Inserted(db, m) \in Contents /\ Removed(db, m) \in Contents /\ Marked(db, m) \in Contents
  BY DEF Contents, Inserted, Removed, Marked, Absent
<1> QED BY <1>1 DEF Changed

LEMMA EndType ==
  ASSUME TypeOK, NEW c \in Clients, End(c)
  PROVE  /\ pc' \in [Clients -> Places] /\ kind' \in [Clients -> Kinds]
         /\ table' \in [Clients -> Tables] /\ msgs' \in [Clients -> SUBSET Msgs]
         /\ put' \in [Clients -> SUBSET Rows] /\ tries' \in [Clients -> Nat]
         /\ result' \in [Clients -> Codes]
  BY DEF TypeOK, End, Goto, Answer, NoCall, Places, Kinds, Tables, Codes

LEMMA FaultType ==
  ASSUME TypeOK, Fault \/ NoFault
  PROVE  faults' \in 0..MaxFaults
  BY BoundsAssumption DEF TypeOK, Fault, NoFault

LEMMA TypeInit == Init => TypeOK
<1> SUFFICES ASSUME Init PROVE TypeOK
  OBVIOUS
<1>1. rows \in [Dbs -> Contents]
  <2>1. PICK old \in [Msgs -> Dbs \union {"null"}] :
          rows = [d \in Dbs |-> [m \in Msgs |-> IF old[m] = d THEN Unread ELSE Absent]]
    BY DEF Init
  <2> QED BY <2>1 DEF Contents, Unread, Absent
<1>2. sent \in SUBSET Msgs /\ acked \in SUBSET Rows
  BY DEF Init, Rows
<1>3. open \in [Dbs -> Seq(Contents)]
  BY DEF Init
<1> QED
  BY <1>1, <1>2, <1>3, BoundsAssumption
  DEF Init, TypeOK, NoCall, Places, Kinds, Tables, Codes

LEMMA StatementType ==
  ASSUME TypeOK, NEW c \in Clients, NEW m \in Msgs, NEW code \in Codes, Statement(c, m, code)
  PROVE  /\ rows' \in [Dbs -> Contents] /\ put' \in [Clients -> SUBSET Rows]
         /\ acked' \in SUBSET Rows /\ marked' \in SUBSET Rows /\ gone' \in SUBSET Rows
         /\ faults' \in 0..MaxFaults
<1> DEFINE db == Target(c)
<1>0. db \in Dbs \union {"null"}
  BY DEF TypeOK, Target, Dbs
<1>1. CASE code = "ok"
  <2>1. db \in Dbs /\ NoFault /\ Told(c, db, m)
        /\ rows' = [rows EXCEPT ![db] = Changed(c, @, m)]
        /\ put' = [put EXCEPT ![c] = @ \union {<<db, m>>}]
    BY <1>0, <1>1 DEF Statement
  <2>2. Changed(c, rows[db], m) \in Contents
    BY <2>1, ContentsKept DEF TypeOK
  <2>3. <<db, m>> \in Rows
    BY <2>1 DEF Rows
  <2>4. acked' \in SUBSET Rows
    BY <2>1, <2>3 DEF Told, TypeOK
  <2>5. marked' \in SUBSET Rows
    BY <2>1, <2>3 DEF Told, TypeOK
  <2>6. gone' \in SUBSET Rows
    BY <2>1, <2>3 DEF Told, TypeOK
  <2>7. rows' \in [Dbs -> Contents]
    BY <2>1, <2>2 DEF TypeOK
  <2>8. put' \in [Clients -> SUBSET Rows]
    BY <2>1, <2>3 DEF TypeOK
  <2> QED BY <2>1, <2>4, <2>5, <2>6, <2>7, <2>8, FaultType
<1>2. CASE code # "ok"
  <2>1. (Fault \/ NoFault) /\ UNCHANGED <<rows, put, acked, marked, gone>>
    BY <1>2 DEF Statement
  <2> QED BY <2>1, FaultType DEF TypeOK
<1> QED BY <1>1, <1>2

LEMMA CrashType == ASSUME TypeOK, Crash PROVE TypeOK'
<1>1. rows' \in [Dbs -> Contents]
  <2>1. ASSUME NEW d \in Dbs PROVE Committed(d) \in Contents
    BY Popped DEF TypeOK, Committed
  <2> QED BY <2>1 DEF Crash
<1>2. open' \in [Dbs -> Seq(Contents)]
  BY DEF Crash
<1> QED
  BY <1>1, <1>2 DEF Crash, TypeOK, history, NoCall, Places, Kinds, Tables, Codes

LEMMA TypeStep ==
  ASSUME TypeOK, Control, Next
  PROVE  TypeOK'
<1>1. ASSUME NEW c \in Clients, NEW k \in Kinds, NEW t \in Tables, NEW S \in SUBSET Msgs,
             Request(c, k, t, S)
      PROVE  TypeOK'
  <2>1. pc' \in [Clients -> Places] /\ kind' \in [Clients -> Kinds] /\ table' \in [Clients -> Tables]
        /\ msgs' \in [Clients -> SUBSET Msgs]
    BY <1>1 DEF Request, TypeOK, Goto, Places
  <2>2. sent' \in SUBSET Msgs /\ batches' \in SUBSET SUBSET Msgs
    BY <1>1 DEF Request, TypeOK
  <2>3. requests' \in 0..MaxRequests
    BY <1>1, BoundsAssumption DEF Request, TypeOK
  <2> QED BY <1>1, <2>1, <2>2, <2>3 DEF Request, TypeOK, data, handles, version, progress
<1>2. ASSUME NEW c \in Clients, FindVersionAbility(c) PROVE TypeOK'
  BY <1>2, EndType
  DEF FindVersionAbility, TakeVersion, TypeOK, Goto, Places, data, handles, history, call, progress
<1>3. ASSUME NEW c \in Clients, LockVersion(c) PROVE TypeOK'
  <2>1. CASE IsCreated
    BY <1>3, <2>1, EndType DEF LockVersion, TakeVersion, TypeOK, data, handles, history
  <2>2. CASE ~IsCreated
    <3>1. versionMutex' = {c} /\ Goto(c, "reset") /\ UNCHANGED <<call, progress, served>>
      BY <1>3, <2>2 DEF LockVersion
    <3> QED
      BY <1>3, <3>1 DEF LockVersion, TypeOK, Goto, Places, data, handles, history, call, progress
  <2> QED BY <2>1, <2>2
<1>4. ASSUME NEW c \in Clients, CreateVersionAbility(c) PROVE TypeOK'
  BY <1>4, EndType
  DEF CreateVersionAbility, TakeVersion, TypeOK, data, handles, history, call, progress
<1>5. ASSUME NEW c \in Clients, Check(c) PROVE TypeOK'
  <2>1. store' \in Dbs \union {"null"} /\ storeLT' \in {"lt", "null"} /\ (Fault \/ NoFault)
    BY <1>5 DEF Check, DoInit, handles, TypeOK, Dbs
  <2>2. pc' \in [Clients -> Places] /\ result' \in [Clients -> Codes]
    BY <1>5 DEF Check, Goto, Answer, TypeOK, Places, Codes
  <2> QED BY <1>5, <2>1, <2>2, FaultType DEF Check, TypeOK, data, call, version, history
<1>6. ASSUME NEW c \in Clients, TakeLock(c) PROVE TypeOK'
  BY <1>6 DEF TakeLock, HoldsLock, TypeOK, Goto, Places, data, handles, call, progress, version, history
<1>7. ASSUME NEW c \in Clients, Begin(c) PROVE TypeOK'
  <2>1. store \in Dbs
    BY <1>7 DEF Begin, Control, KindAt, StoreAt, TypeOK, Writing, Locked
  <2>2. <<rows[store]>> \o open[store] \in Seq(Contents)
    BY <2>1, Pushed DEF TypeOK
  <2>3. open' \in [Dbs -> Seq(Contents)] /\ (Fault \/ NoFault)
    BY <1>7, <2>1, <2>2 DEF Begin, TypeOK
  <2>4. pc' \in [Clients -> Places] /\ result' \in [Clients -> Codes]
    BY <1>7 DEF Begin, Goto, Answer, TypeOK, Places, Codes
  <2> QED BY <1>7, <2>3, <2>4, FaultType DEF Begin, TypeOK, handles, call, version, history
<1>8. ASSUME NEW c \in Clients, RollBack(c) PROVE TypeOK'
  <2>1. store \in Dbs
    BY <1>8 DEF RollBack, Control, KindAt, StoreAt, TypeOK, Writing, Locked
  <2>2. rows' \in [Dbs -> Contents] /\ open' \in [Dbs -> Seq(Contents)]
    <3>1. CASE UNCHANGED data
      BY <3>1 DEF TypeOK, data
    <3>2. CASE /\ open[store] # <<>>
               /\ rows' = [rows EXCEPT ![store] = Head(open[store])]
               /\ open' = [open EXCEPT ![store] = Tail(@)]
      <4>1. Head(open[store]) \in Contents /\ Tail(open[store]) \in Seq(Contents)
        BY <2>1, <3>2, Popped DEF TypeOK
      <4> QED BY <3>2, <4>1 DEF TypeOK
    <3> QED BY <1>8, <3>1, <3>2 DEF RollBack
  <2>4. (Fault \/ NoFault) /\ spoiled' \in SUBSET {"rollback", "switch"}
    BY <1>8 DEF RollBack, TypeOK
  <2>3. pc' \in [Clients -> Places]
    BY <1>8 DEF RollBack, Goto, TypeOK, Places
  <2> QED BY <1>8, <2>2, <2>3, <2>4, FaultType DEF RollBack, TypeOK, handles, call, progress, version
<1>9. ASSUME NEW c \in Clients, NEW code \in Codes, Run(c, code) PROVE TypeOK'
  <2>1. PICK m \in msgs[c] : Statement(c, m, code)
    BY <1>9 DEF Run
  <2>2. m \in Msgs
    BY <2>1 DEF TypeOK
  <2>3. pc' \in [Clients -> Places] /\ result' \in [Clients -> Codes] /\ tries' \in [Clients -> Nat]
    BY <1>9 DEF Run, Goto, Answer, TypeOK, Places, Codes
  <2>4. TypeOK /\ rows' \in [Dbs -> Contents] /\ put' \in [Clients -> SUBSET Rows]
        /\ acked' \in SUBSET Rows /\ marked' \in SUBSET Rows /\ gone' \in SUBSET Rows
        /\ faults' \in 0..MaxFaults
    BY <2>1, <2>2, StatementType
  <2> QED BY <1>9, <2>3, <2>4 DEF Run, TypeOK, handles, call, version
<1>10. ASSUME NEW c \in Clients, NEW code \in Codes, InsertNext(c, code) PROVE TypeOK'
  <2>1. PICK m \in Pending(c) : Statement(c, m, code)
    BY <1>10 DEF InsertNext
  <2>2. m \in Msgs
    BY <2>1 DEF TypeOK, Pending
  <2>3. pc' \in [Clients -> Places] /\ result' \in [Clients -> Codes]
    BY <1>10 DEF InsertNext, OnFailure, Goto, Answer, TypeOK, Places, Codes
  <2>4. TypeOK /\ rows' \in [Dbs -> Contents] /\ put' \in [Clients -> SUBSET Rows]
        /\ acked' \in SUBSET Rows /\ marked' \in SUBSET Rows /\ gone' \in SUBSET Rows
        /\ faults' \in 0..MaxFaults
    BY <2>1, <2>2, StatementType
  <2> QED BY <1>10, <2>3, <2>4 DEF InsertNext, TypeOK, handles, call, version
<1>11. ASSUME NEW c \in Clients, NEW code \in Codes, Commit(c, code) PROVE TypeOK'
  <2>1. store \in Dbs
    BY <1>11 DEF Commit, Control, KindAt, StoreAt, TypeOK, Writing, Locked
  <2>2. (Fault \/ NoFault) /\ acked' \in SUBSET Rows
    BY <1>11 DEF Commit, TypeOK
  <2>4. open' \in [Dbs -> Seq(Contents)]
    <3>1. CASE open[store] = <<>> \/ code = "fatal"
      BY <1>11, <3>1 DEF Commit, TypeOK
    <3>2. CASE open[store] # <<>> /\ code # "fatal"
      <4>1. open' = [open EXCEPT ![store] = Tail(@)]
        BY <1>11, <3>2 DEF Commit
      <4>2. Tail(open[store]) \in Seq(Contents)
        BY <2>1, <3>2, Popped DEF TypeOK
      <4> QED BY <4>1, <4>2 DEF TypeOK
    <3> QED BY <3>1, <3>2
  <2>3. pc' \in [Clients -> Places] /\ result' \in [Clients -> Codes]
    BY <1>11 DEF Commit, OnFailure, Goto, Answer, TypeOK, Places, Codes
  <2> QED BY <1>11, <2>2, <2>3, <2>4, FaultType DEF Commit, TypeOK, handles, call, version
<1>12. ASSUME NEW c \in Clients, Wake(c) PROVE TypeOK'
  BY <1>12 DEF Wake, TypeOK, Goto, Places, data, handles, call, progress, version, history
<1>13. ASSUME NEW c \in Clients, Return(c) PROVE TypeOK'
  BY <1>13, EndType
  DEF Return, ReleasesLock, TypeOK, Goto, Places, data, handles, version, history, call, progress
<1>14. ASSUME NEW c \in Clients, NotifyChange(c) PROVE TypeOK'
  BY <1>14, EndType DEF NotifyChange, TypeOK, data, handles, version, history
<1>15. ASSUME ChangeRdbStoreToEl2 PROVE TypeOK'
  BY <1>15 DEF ChangeRdbStoreToEl2, TypeOK, Dbs, data, call, progress, version
<1>16. ASSUME Crash PROVE TypeOK'
  BY <1>16, CrashType
<1> QED
  BY <1>1, <1>2, <1>3, <1>4, <1>5, <1>6, <1>7, <1>8, <1>9, <1>10, <1>11, <1>12, <1>13, <1>14,
     <1>15, <1>16 DEF Next, Step

-----------------------------------------------------------------------------
(* The calls' places and the lock.                                         *)
LEMMA ControlInit == Init => Control
  BY DEF Init, Control, KindAt, LockAt, StoreAt, NoCall, Writing, Locked

LEMMA InDbs ==
  ASSUME TypeOK, Control, NEW c \in Clients, pc[c] \in {"begin", "run", "rollback"}, kind[c] = "batch"
  PROVE  store \in Dbs /\ c \in lock
BY DEF Control, StoreAt, LockAt, TypeOK, Writing, Locked

LEMMA ControlEnd ==
  ASSUME TypeOK, Control, NEW c \in Clients, End(c), UNCHANGED <<open, store>>,
         (lock' = lock /\ c \notin lock) \/ lock' = lock \ {c}
  PROVE  Control'
BY DEF End, Goto, NoCall, Control, KindAt, LockAt, StoreAt, TypeOK, Writing, Locked

(* A call that goes on to a place that suits what it is and holds.         *)
LEMMA ControlGoto ==
  ASSUME TypeOK, Control, NEW c \in Clients, NEW place, Goto(c, place),
         UNCHANGED <<kind, table, lock, store>>, open' = open \/ store # "null",
         KindAt(c)' /\ LockAt(c)' /\ StoreAt(c)'
  PROVE  Control'
<1>1. \A b \in Clients : b # c => pc'[b] = pc[b]
  BY DEF Goto, TypeOK
<1>2. ASSUME NEW b \in Clients, b # c PROVE KindAt(b)' /\ LockAt(b)' /\ StoreAt(b)'
  <2>1. KindAt(b) /\ LockAt(b) /\ StoreAt(b)
    BY DEF Control
  <2>2. pc'[b] = pc[b]
    BY <1>1, <1>2
  <2> QED BY <2>1, <2>2 DEF KindAt, LockAt, StoreAt
<1>3. \A b \in Clients : KindAt(b)' /\ LockAt(b)' /\ StoreAt(b)'
  BY <1>2
<1>4. \A a, b \in lock' : a = b
  BY DEF Control
<1>5. store' = "null" => \A d \in Dbs : open'[d] = <<>>
  BY DEF Control
<1> QED BY <1>3, <1>4, <1>5 DEF Control

LEMMA ControlStep ==
  ASSUME TypeOK, Control, Next
  PROVE  Control'
<1> USE DEF KindAt, LockAt, StoreAt
<1>1. ASSUME NEW c \in Clients, NEW k \in Kinds, NEW t \in Tables, NEW S \in SUBSET Msgs,
             Request(c, k, t, S)
      PROVE  Control'
  BY <1>1 DEF Request, Control, TypeOK, Goto, Kinds, Writing, Locked, data, handles
<1>2. ASSUME NEW c \in Clients, FindVersionAbility(c) PROVE Control'
  <2>1. CASE versionAbility # 0
    BY <1>2, <2>1, ControlEnd DEF FindVersionAbility, TakeVersion, Control, Locked, data, handles
  <2>2. CASE versionAbility = 0
    <3>1. pc[c] = "owner" /\ Goto(c, "create") /\ UNCHANGED <<kind, table, lock, store, open>>
      BY <1>2, <2>2 DEF FindVersionAbility, data, handles, call
    <3>2. KindAt(c)' /\ LockAt(c)' /\ StoreAt(c)'
      BY <3>1 DEF Control, TypeOK, Goto, Writing, Locked
    <3> QED BY <3>1, <3>2, ControlGoto
  <2> QED BY <2>1, <2>2
<1>3. ASSUME NEW c \in Clients, LockVersion(c) PROVE Control'
  <2>1. CASE IsCreated
    BY <1>3, <2>1, ControlEnd DEF LockVersion, TakeVersion, Control, Locked, data, handles
  <2>2. CASE ~IsCreated
    <3>1. pc[c] = "create" /\ Goto(c, "reset") /\ UNCHANGED <<kind, table, lock, store, open>>
      BY <1>3, <2>2 DEF LockVersion, data, handles, call
    <3>2. KindAt(c)' /\ LockAt(c)' /\ StoreAt(c)'
      BY <3>1 DEF Control, TypeOK, Goto, Writing, Locked
    <3> QED BY <3>1, <3>2, ControlGoto
  <2> QED BY <2>1, <2>2
<1>4. ASSUME NEW c \in Clients, CreateVersionAbility(c) PROVE Control'
  BY <1>4, ControlEnd DEF CreateVersionAbility, TakeVersion, Control, Locked, data, handles
<1>5. ASSUME NEW c \in Clients, Check(c) PROVE Control'
  <2>1. /\ UNCHANGED <<kind, table, open, lock>>
        /\ store = "null" \/ store' = store
        /\ \/ Goto(c, "return")
           \/ /\ store' = "null" => kind[c] = "insert" /\ table[c] = "lt"
              /\ Goto(c, IF kind[c] = "markRead" THEN "run" ELSE "lock")
    BY <1>5 DEF Check, handles, data, call
  <2>2. CASE Goto(c, "return")
    BY <1>5, <2>1, <2>2 DEF Check, Control, TypeOK, Goto, Writing, Locked
  <2>3. CASE /\ store' = "null" => kind[c] = "insert" /\ table[c] = "lt"
             /\ Goto(c, IF kind[c] = "markRead" THEN "run" ELSE "lock")
    BY <1>5, <2>1, <2>3 DEF Check, Control, TypeOK, Goto, Writing, Locked
  <2> QED BY <2>1, <2>2, <2>3
<1>6. ASSUME NEW c \in Clients, TakeLock(c) PROVE Control'
  BY <1>6 DEF TakeLock, HoldsLock, Control, TypeOK, Goto, Writing, Locked, data, handles, call
<1>7. ASSUME NEW c \in Clients, Begin(c) PROVE Control'
  <2>1. pc[c] = "begin" /\ kind[c] = "batch" /\ UNCHANGED <<store, lock, kind, table>>
    BY <1>7 DEF Begin, handles, call, Control
  <2>2. store \in Dbs
    BY <2>1, InDbs
  <2>3. PICK place \in {"run", "return"} : Goto(c, place)
    BY <1>7 DEF Begin
  <2> QED BY <2>1, <2>2, <2>3 DEF Control, TypeOK, Goto, Writing, Locked, Dbs
<1>8. ASSUME NEW c \in Clients, RollBack(c) PROVE Control'
  BY <1>8 DEF RollBack, Control, TypeOK, Goto, Writing, Locked, data, handles, call
<1>9. ASSUME NEW c \in Clients, NEW code \in Codes, Run(c, code) PROVE Control'
  BY <1>9 DEF Run, Retries, Control, TypeOK, Goto, Kinds, Writing, Locked, handles, call
<1>10. ASSUME NEW c \in Clients, NEW code \in Codes, InsertNext(c, code) PROVE Control'
  <2>1. Goto(c, "run") \/ Goto(c, "rollback")
    BY <1>10 DEF InsertNext, OnFailure
  <2>2. pc[c] = "run" /\ kind[c] = "batch" /\ UNCHANGED <<open, store, lock, kind, table>>
    BY <1>10 DEF InsertNext, handles, call
  <2>3. CASE Goto(c, "run")
    <3>1. KindAt(c)' /\ LockAt(c)' /\ StoreAt(c)'
      BY <2>2, <2>3 DEF Control, TypeOK, Goto, Writing, Locked
    <3> QED BY <2>2, <2>3, <3>1, ControlGoto
  <2>4. CASE Goto(c, "rollback")
    <3>1. KindAt(c)' /\ LockAt(c)' /\ StoreAt(c)'
      BY <2>2, <2>4 DEF Control, TypeOK, Goto, Writing, Locked
    <3> QED BY <2>2, <2>4, <3>1, ControlGoto
  <2> QED BY <2>1, <2>3, <2>4
<1>11. ASSUME NEW c \in Clients, NEW code \in Codes, Commit(c, code) PROVE Control'
  <2>1. pc[c] = "run" /\ kind[c] = "batch" /\ UNCHANGED <<store, lock, kind, table>>
    BY <1>11 DEF Commit, handles, call
  <2>2. store \in Dbs /\ store # "null"
    <3>1. store \in Dbs
      BY <2>1, InDbs
    <3> QED BY <3>1 DEF Dbs
  <2>3. PICK place \in {"return", "rollback"} : Goto(c, place)
    BY <1>11 DEF Commit, OnFailure
  <2>4. KindAt(c)' /\ LockAt(c)' /\ StoreAt(c)'
    BY <2>1, <2>2, <2>3 DEF Control, TypeOK, Goto, Writing, Locked
  <2> QED BY <2>1, <2>2, <2>3, <2>4, ControlGoto
<1>12. ASSUME NEW c \in Clients, Wake(c) PROVE Control'
  BY <1>12 DEF Wake, Control, TypeOK, Goto, Writing, Locked, data, handles, call
<1>13. ASSUME NEW c \in Clients, Return(c) PROVE Control'
  BY <1>13 DEF Return, ReleasesLock, End, Control, TypeOK, Goto, NoCall, Writing, Locked,
               data, handles, call
<1>14. ASSUME NEW c \in Clients, NotifyChange(c) PROVE Control'
  BY <1>14, ControlEnd DEF NotifyChange, Control, Locked, data, handles
<1>15. ASSUME ChangeRdbStoreToEl2 PROVE Control'
  BY <1>15 DEF ChangeRdbStoreToEl2, Control, TypeOK, data, call, Writing, Locked
<1>16. ASSUME Crash PROVE Control'
  BY <1>16 DEF Crash, Control, NoCall, Writing, Locked
<1> QED
  BY <1>1, <1>2, <1>3, <1>4, <1>5, <1>6, <1>7, <1>8, <1>9, <1>10, <1>11, <1>12, <1>13, <1>14,
     <1>15, <1>16 DEF Next, Step

-----------------------------------------------------------------------------
(* The versions of a database.                                             *)
LEMMA HeldSame ==
  ASSUME UNCHANGED data, NEW d \in Dbs
  PROVE  Held(d)' = Held(d)
BY DEF Held, data

LEMMA HeldType ==
  ASSUME TypeOK, NEW d \in Dbs
  PROVE  Held(d) \subseteq Contents /\ rows[d] \in Held(d)
BY DEF Held, TypeOK

LEMMA HeldBegun ==
  ASSUME TypeOK, NEW d \in Dbs, store \in Dbs,
         rows' = rows, open' = [open EXCEPT ![store] = <<rows[store]>> \o @]
  PROVE  Held(d)' \subseteq Held(d)
<1>1. CASE d # store
  BY <1>1 DEF Held, TypeOK
<1>2. CASE d = store
  <2> DEFINE s == open[d]
  <2>1. s \in Seq(Contents) /\ rows[d] \in Contents
    BY DEF TypeOK
  <2>2. open'[d] = <<rows[d]>> \o s
    BY <1>2 DEF TypeOK
  <2>3. Len(open'[d]) = Len(s) + 1
        /\ \A i \in 1..Len(s) + 1 : open'[d][i] \in {rows[d]} \union {s[j] : j \in 1..Len(s)}
    BY <2>1, <2>2, Pushed
  <2> QED BY <2>3 DEF Held
<1> QED BY <1>1, <1>2

LEMMA HeldEnded ==
  ASSUME TypeOK, NEW d \in Dbs, store \in Dbs, open[store] # <<>>,
         rows' = rows \/ rows' = [rows EXCEPT ![store] = Head(open[store])],
         open' = [open EXCEPT ![store] = Tail(@)]
  PROVE  Held(d)' \subseteq Held(d)
<1>1. CASE d # store
  BY <1>1 DEF Held, TypeOK
<1>2. CASE d = store
  <2> DEFINE s == open[d]
  <2>1. s \in Seq(Contents) /\ s # <<>>
    BY <1>2 DEF TypeOK
  <2>2. open'[d] = Tail(s) /\ (rows'[d] = rows[d] \/ rows'[d] = Head(s))
    BY <1>2 DEF TypeOK
  <2>3. /\ Len(s) \in Nat \ {0} /\ Len(Tail(s)) = Len(s) - 1 /\ Head(s) = s[1]
        /\ \A i \in 1..Len(s) - 1 : Tail(s)[i] = s[i + 1]
    BY <2>1, Popped
  <2>4. \A i \in 1..Len(open'[d]) : open'[d][i] \in {s[j] : j \in 1..Len(s)}
    BY <2>2, <2>3
  <2>5. rows'[d] \in {rows[d]} \union {s[j] : j \in 1..Len(s)}
    BY <2>2, <2>3
  <2> QED BY <2>4, <2>5 DEF Held
<1> QED BY <1>1, <1>2

LEMMA HeldCrashed ==
  ASSUME TypeOK, Crash, NEW d \in Dbs
  PROVE  Held(d)' \subseteq Held(d)
<1>1. rows'[d] = Committed(d) /\ open'[d] = <<>>
  BY DEF Crash
<1>2. Committed(d) \in Held(d)
  <2>1. CASE open[d] = <<>>
    BY <2>1 DEF Committed, Held
  <2>2. CASE open[d] # <<>>
    <3>1. Len(open[d]) \in Nat \ {0}
      BY <2>2, Popped DEF TypeOK
    <3> QED BY <2>2, <3>1 DEF Committed, Held
  <2> QED BY <2>1, <2>2
<1> QED BY <1>1, <1>2 DEF Held

(* A step that inserts nothing: of every row each version has as many      *)
(* copies as some version before.                                          *)
NotMore(d) ==
  \A s \in Held(d)' :
    /\ \E t \in Held(d) : \A m \in Msgs : s[m].copies <= t[m].copies
    /\ s \in Held(d) \/ \A m \in Msgs : s[m].read => s[m].copies > 0

LEMMA FewerNotMore ==
  ASSUME TypeOK, NEW d \in Dbs, Held(d)' \subseteq Held(d)
  PROVE  NotMore(d)
<1> SUFFICES ASSUME NEW s \in Held(d)'
             PROVE  s \in Held(d) /\ \A m \in Msgs : s[m].copies <= s[m].copies
  BY DEF NotMore
<1>1. s \in Contents
  BY HeldType
<1>2. \A m \in Msgs : s[m].copies \in Nat
  BY <1>1 DEF Contents
<1> QED BY <1>2

(* What a step leaves of a call: it goes on with the same rows and has     *)
(* inserted nothing, or it is over.                                        *)
CallKept(c) ==
  \/ /\ msgs'[c] = msgs[c] /\ kind'[c] = kind[c]
     /\ \/ put'[c] = put[c]
        \/ ~Inserting(c) /\ ~Empty(c)' /\ \A p \in put'[c] : p[2] \in msgs[c]
     /\ pc'[c] \in BeforeEnd => pc[c] \in BeforeEnd
     /\ Empty(c)' => Empty(c)
  \/ kind'[c] = "version" /\ msgs'[c] = {} /\ put'[c] = {} /\ pc'[c] = "idle"

LEMMA OnceKept ==
  ASSUME TypeOK, TypeOK', Once, \A d \in Dbs : NotMore(d), sent' = sent,
         \A c \in Clients : CallKept(c)
  PROVE  Once'
<1>1. \A d \in Dbs : \A s \in Held(d), m \in Msgs : s[m].copies \in Nat
  BY HeldType DEF Contents
<1>2. \A d \in Dbs : \A s \in Held(d)', m \in Msgs : s[m].copies \in Nat
  <2>1. \A d \in Dbs : Held(d)' \subseteq Contents
    BY DEF Held, TypeOK
  <2> QED BY <2>1 DEF Contents
<1>3. OnceRows'
  <2>1. ASSUME NEW d \in Dbs, NEW m \in Msgs, NEW s \in Held(d)'
        PROVE  s[m].copies <= 1 /\ (s[m].copies > 0 => m \in sent') /\ (s[m].read => s[m].copies > 0)
    <3>1. PICK t \in Held(d) : s[m].copies <= t[m].copies
      BY DEF NotMore
    <3>2. t[m].copies <= 1 /\ (t[m].copies > 0 => m \in sent)
      BY DEF Once, OnceRows
    <3>3. s[m].read => s[m].copies > 0
      BY DEF NotMore, Once, OnceRows
    <3> QED BY <1>1, <1>2, <3>1, <3>2, <3>3
  <2>2. ASSUME NEW m \in Msgs, NEW d \in Dbs, NEW e \in Dbs, NEW s \in Held(d)', NEW t \in Held(e)',
               s[m].copies > 0, t[m].copies > 0
        PROVE  d = e
    <3>1. PICK u \in Held(d) : s[m].copies <= u[m].copies
      BY DEF NotMore
    <3>2. PICK v \in Held(e) : t[m].copies <= v[m].copies
      BY DEF NotMore
    <3>3. u[m].copies > 0 /\ v[m].copies > 0
      BY <1>1, <1>2, <2>2, <3>1, <3>2
    <3> QED BY <3>3 DEF Once, OnceRows
  <2> QED BY <2>1, <2>2 DEF OnceRows
<1>4. ASSUME NEW m \in Msgs, NowhereIn(m) PROVE NowhereIn(m)'
  <2> SUFFICES ASSUME NEW d \in Dbs, NEW s \in Held(d)' PROVE s[m].copies = 0
    BY DEF NowhereIn
  <2>1. PICK t \in Held(d) : s[m].copies <= t[m].copies
    BY DEF NotMore
  <2>2. t[m].copies = 0
    BY <1>4 DEF NowhereIn
  <2> QED BY <1>2, <2>1, <2>2
<1>5. ASSUME NEW c \in Clients PROVE OnceCall(c)'
  <2>1. CASE kind'[c] = "version" /\ msgs'[c] = {} /\ put'[c] = {} /\ pc'[c] = "idle"
    BY <2>1 DEF OnceCall, Inserting, BeforeEnd, Writing, Locked
  <2>2. CASE /\ msgs'[c] = msgs[c] /\ kind'[c] = kind[c]
             /\ \/ put'[c] = put[c]
                \/ ~Inserting(c) /\ ~Empty(c)' /\ \A p \in put'[c] : p[2] \in msgs[c]
             /\ pc'[c] \in BeforeEnd => pc[c] \in BeforeEnd
             /\ Empty(c)' => Empty(c)
    <3>1. OnceCall(c)
      BY DEF Once
    <3>2. (Inserting(c) => Pending(c)' = Pending(c)) /\ (Inserting(c)' <=> Inserting(c))
      BY <2>2 DEF Pending, Inserting
    <3>3. Pending(c) \subseteq Msgs
      BY DEF Pending, TypeOK
    <3>4. Inserting(c)' /\ pc'[c] \in BeforeEnd => \A m \in Pending(c)' : NowhereIn(m)'
      BY <2>2, <3>1, <3>2, <3>3, <1>4 DEF OnceCall
    <3>5. Empty(c)' => put'[c] = {}
      BY <2>2, <3>1 DEF OnceCall
    <3>7. msgs'[c] \subseteq sent' /\ \A p \in put'[c] : p[2] \in msgs'[c]
      BY <2>2, <3>1 DEF OnceCall
    <3> QED BY <3>4, <3>5, <3>7 DEF OnceCall
  <2> QED BY <2>1, <2>2 DEF CallKept
<1>6. Disjoint'
  BY DEF Once, Disjoint, CallKept, Inserting
<1> QED BY <1>3, <1>5, <1>6 DEF Once

(* A statement that inserts a row: the row was nowhere, and is there once. *)
LEMMA HeldWritten ==
  ASSUME TypeOK, NEW db \in Dbs, NEW x, rows' = [rows EXCEPT ![db] = x], open' = open, NEW d \in Dbs
  PROVE  /\ Held(d)' \subseteq Held(d) \union (IF d = db THEN {x} ELSE {})
         /\ d # db => Held(d)' = Held(d)
BY DEF Held, TypeOK

LEMMA OnceInserted ==
  ASSUME TypeOK, TypeOK', Once, NEW c \in Clients, NEW m \in Msgs, NEW db \in Dbs,
         Inserting(c), pc[c] = "run", m \in Pending(c),
         rows' = [rows EXCEPT ![db] = Inserted(@, m)], open' = open,
         put' = [put EXCEPT ![c] = @ \union {<<db, m>>}],
         sent' = sent, msgs' = msgs, kind' = kind,
         \/ kind[c] = "batch" /\ pc' = [pc EXCEPT ![c] = "run"]
         \/ pc' = [pc EXCEPT ![c] = "return"]
  PROVE  Once'
<1> DEFINE x == Inserted(rows[db], m)
<1>1. /\ x[m].copies = rows[db][m].copies + 1 /\ x[m].read = FALSE
      /\ \A n \in Msgs \ {m} : x[n] = rows[db][n]
  BY DEF Inserted, TypeOK, Contents
<1>2. NowhereIn(m) /\ m \in msgs[c] /\ m \in sent
  BY DEF Once, OnceCall, Pending, BeforeEnd, Writing, Locked
<1>3. x[m].copies = 1
  BY <1>1, <1>2, HeldType DEF NowhereIn
<1>4. \A d \in Dbs : Held(d)' \subseteq Held(d) \union (IF d = db THEN {x} ELSE {})
  BY HeldWritten
<1> HIDE DEF x
<1>5. OnceRows'
  <2>1. ASSUME NEW d \in Dbs, NEW n \in Msgs, NEW s \in Held(d)'
        PROVE  s[n].copies <= 1 /\ (s[n].copies > 0 => n \in sent') /\ (s[n].read => s[n].copies > 0)
    <3>1. CASE s \in Held(d)
      BY <3>1 DEF Once, OnceRows
    <3>2. CASE d = db /\ s = x /\ n # m
      BY <1>1, <3>2, HeldType DEF Once, OnceRows
    <3>3. CASE d = db /\ s = x /\ n = m
      BY <1>1, <1>2, <1>3, <3>3
    <3> QED BY <1>4, <3>1, <3>2, <3>3
  <2>2. ASSUME NEW n \in Msgs, NEW d \in Dbs, NEW e \in Dbs, NEW s \in Held(d)', NEW t \in Held(e)',
               s[n].copies > 0, t[n].copies > 0
        PROVE  d = e
    <3>1. CASE n = m
      <4>1. ASSUME NEW b \in Dbs, NEW u \in Held(b)', u[m].copies > 0 PROVE b = db
        BY <1>2, <1>4, <4>1 DEF NowhereIn
      <4> QED BY <2>2, <3>1, <4>1
    <3>2. CASE n # m
      <4>1. ASSUME NEW b \in Dbs, NEW u \in Held(b)'
            PROVE  \E v \in Held(b) : v[n] = u[n]
        BY <1>1, <1>4, <3>2, HeldType
      <4>2. PICK u \in Held(d) : u[n] = s[n]
        BY <4>1
      <4>3. PICK v \in Held(e) : v[n] = t[n]
        BY <4>1
      <4> QED BY <2>2, <4>2, <4>3 DEF Once, OnceRows
    <3> QED BY <3>1, <3>2
  <2> QED BY <2>1, <2>2 DEF OnceRows
<1>6. ASSUME NEW n \in Msgs \ {m}, NowhereIn(n) PROVE NowhereIn(n)'
  <2> SUFFICES ASSUME NEW d \in Dbs, NEW s \in Held(d)' PROVE s[n].copies = 0
    BY DEF NowhereIn
  <2> QED BY <1>1, <1>4, <1>6, HeldType DEF NowhereIn
<1>7. ASSUME NEW b \in Clients PROVE OnceCall(b)'
  <2>1. CASE b # c
    <3>1. msgs'[b] = msgs[b] /\ kind'[b] = kind[b] /\ put'[b] = put[b] /\ pc'[b] = pc[b]
      BY <2>1 DEF TypeOK
    <3>2. Pending(b)' = Pending(b) /\ (Inserting(b)' <=> Inserting(b))
      BY <3>1 DEF Pending, Inserting
    <3>3. Inserting(b) => m \notin Pending(b)
      BY <1>2, <2>1 DEF Once, Disjoint, Pending
    <3>4. Pending(b) \subseteq Msgs
      BY DEF Pending, TypeOK
    <3>5. Inserting(b)' /\ pc'[b] \in BeforeEnd => \A n \in Pending(b)' : NowhereIn(n)'
      BY <1>6, <3>1, <3>2, <3>3, <3>4 DEF Once, OnceCall
    <3>6. Empty(b)' <=> Empty(b)
      BY <3>1 DEF Empty
    <3>7. OnceCall(b) /\ sent' = sent
      BY DEF Once
    <3> QED BY <3>1, <3>5, <3>6, <3>7 DEF OnceCall
  <2>2. CASE b = c
    <3>1. put'[c] = put[c] \union {<<db, m>>} /\ pc'[c] \in {"run", "return"}
          /\ (pc'[c] = "run" => kind[c] = "batch")
      BY DEF TypeOK
    <3>2. Pending(c)' \subseteq Pending(c) \ {m} /\ Pending(c) \subseteq Msgs
      BY <3>1 DEF Pending, TypeOK
    <3>3. Inserting(c)' /\ pc'[c] \in BeforeEnd => \A n \in Pending(c)' : NowhereIn(n)'
      BY <1>6, <3>2 DEF Once, OnceCall, BeforeEnd, Writing, Locked
    <3>4. msgs'[c] \subseteq sent' /\ \A p \in put'[c] : p[2] \in msgs'[c]
      BY <1>2, <3>1 DEF Once, OnceCall
    <3>5. ~Empty(c)'
      BY <3>1 DEF Empty
    <3> QED BY <2>2, <3>3, <3>4, <3>5 DEF OnceCall
  <2> QED BY <2>1, <2>2
<1>8. Disjoint'
  BY DEF Once, Disjoint, Inserting
<1> QED BY <1>5, <1>7, <1>8 DEF Once

(* An update, a mark-read or a delete.                                     *)
LEMMA NotMoreChanged ==
  ASSUME TypeOK, Once, NEW c \in Clients, NEW m \in Msgs, NEW db \in Dbs, ~Inserting(c),
         rows' = [rows EXCEPT ![db] = Changed(c, @, m)], open' = open, NEW d \in Dbs
  PROVE  NotMore(d)
<1> DEFINE x == Changed(c, rows[db], m)
<1>1. /\ \A n \in Msgs \ {m} : x[n] = rows[db][n]
      /\ x[m].copies = 0 \/ x[m].copies = rows[db][m].copies
      /\ x[m].read => x[m].copies > 0
  <2>1. rows[db] \in Contents
    BY DEF TypeOK
  <2>2. x = Removed(rows[db], m) \/ x = Marked(rows[db], m)
    BY DEF Changed
  <2>3. CASE x = Removed(rows[db], m)
    BY <2>1, <2>3 DEF Removed, Absent, Contents
  <2>4. CASE x = Marked(rows[db], m)
    <3> DEFINE n == rows[db][m].copies
    <3>1. x = [rows[db] EXCEPT ![m] = [copies |-> n, read |-> n > 0]]
      BY <2>4 DEF Marked
    <3>2. x[m] = [copies |-> n, read |-> n > 0] /\ \A k \in Msgs \ {m} : x[k] = rows[db][k]
      BY <2>1, <3>1 DEF Contents
    <3> HIDE DEF n, x
    <3>3. x[m].copies = n /\ x[m].read = (n > 0)
      BY <3>2
    <3> QED BY <3>2, <3>3 DEF n
  <2> HIDE DEF x
  <2> QED BY <2>2, <2>3, <2>4
<1>2. \A s \in Held(d), n \in Msgs : s[n].copies \in Nat
  BY HeldType DEF Contents
<1>3. Held(d)' \subseteq Held(d) \union (IF d = db THEN {x} ELSE {})
  BY HeldWritten
<1> HIDE DEF x
<1>4. ASSUME NEW s \in Held(d) PROVE \A n \in Msgs : s[n].copies <= s[n].copies
  BY <1>2
<1>5. CASE d = db
  <2>1. rows[db] \in Held(d)
    BY <1>5, HeldType
  <2>2. \A n \in Msgs : x[n].copies <= rows[db][n].copies
    BY <1>1, <1>2, <2>1
  <2>3. \A n \in Msgs : x[n].read => x[n].copies > 0
    BY <1>1, <1>5, <2>1 DEF Once, OnceRows
  <2> QED BY <1>3, <1>4, <2>1, <2>2, <2>3 DEF NotMore
<1>6. CASE d # db
  BY <1>3, <1>4, <1>6 DEF NotMore
<1> QED BY <1>5, <1>6

LEMMA OnceInit == Init => Once
<1> SUFFICES ASSUME Init PROVE Once
  OBVIOUS
<1>1. PICK old \in [Msgs -> Dbs \union {"null"}] :
        /\ rows = [d \in Dbs |-> [m \in Msgs |-> IF old[m] = d THEN Unread ELSE Absent]]
        /\ sent = {m \in Msgs : old[m] # "null"}
  BY DEF Init
<1>2. \A d \in Dbs : Held(d) = {rows[d]}
  BY DEF Init, Held
<1>3. OnceRows
  BY <1>1, <1>2 DEF OnceRows, Unread, Absent, Dbs
<1>4. \A c \in Clients : OnceCall(c)
  BY DEF Init, OnceCall, Inserting, NoCall, BeforeEnd, Writing, Locked
<1>5. Disjoint
  BY DEF Init, Disjoint, Inserting, NoCall
<1> QED BY <1>3, <1>4, <1>5 DEF Once

LEMMA OnceRequest ==
  ASSUME TypeOK, TypeOK', Once, NEW c \in Clients, NEW k \in Kinds, NEW t \in Tables,
         NEW S \in SUBSET Msgs, Request(c, k, t, S), Control
  PROVE  Once'
<1>1. /\ \A d \in Dbs : Held(d)' = Held(d)
      /\ sent \subseteq sent' /\ S \subseteq sent' /\ put' = put
      /\ msgs' = [msgs EXCEPT ![c] = S] /\ kind' = [kind EXCEPT ![c] = k]
      /\ pc' = [pc EXCEPT ![c] = IF k = "version" THEN "owner" ELSE "check"]
      /\ k \in {"insert", "batch"} => S \intersect sent = {}
  <2>1. \A d \in Dbs : Held(d)' = Held(d)
    BY HeldSame DEF Request
  <2> QED BY <2>1 DEF Request, Goto, progress
<1>2. OnceRows'
  BY <1>1 DEF Once, OnceRows
<1>3. \A m \in Msgs : (NowhereIn(m)' <=> NowhereIn(m)) /\ (m \notin sent => NowhereIn(m))
  <2>1. \A m \in Msgs : NowhereIn(m)' <=> NowhereIn(m)
    BY <1>1 DEF NowhereIn
  <2>2. \A d \in Dbs : \A s \in Held(d), m \in Msgs : s[m].copies \in Nat
    BY HeldType DEF Contents
  <2>3. \A m \in Msgs : m \notin sent => NowhereIn(m)
    BY <2>2 DEF Once, OnceRows, NowhereIn
  <2> QED BY <2>1, <2>3
<1>4. put[c] = {} /\ pc[c] = "idle" /\ \A b \in Clients : msgs[b] \subseteq sent
  BY DEF Request, Once, OnceCall, Empty
<1>5. ASSUME NEW b \in Clients PROVE OnceCall(b)'
  <2>1. CASE b # c
    <3>1. msgs'[b] = msgs[b] /\ kind'[b] = kind[b] /\ put'[b] = put[b] /\ pc'[b] = pc[b]
      BY <1>1, <2>1 DEF TypeOK
    <3>2. Pending(b)' = Pending(b) /\ (Inserting(b)' <=> Inserting(b)) /\ (Empty(b)' <=> Empty(b))
      BY <3>1 DEF Pending, Inserting, Empty
    <3>3. Pending(b) \subseteq Msgs
      BY DEF Pending, TypeOK
    <3> QED BY <1>1, <1>3, <3>1, <3>2, <3>3 DEF Once, OnceCall
  <2>2. CASE b = c
    <3>1. msgs'[c] = S /\ kind'[c] = k /\ put'[c] = {}
      BY <1>1, <1>4 DEF TypeOK
    <3>2. Inserting(c)' => \A m \in Pending(c)' : NowhereIn(m)'
      BY <1>1, <1>3, <3>1 DEF Inserting, Pending
    <3> QED BY <1>1, <2>2, <3>1, <3>2 DEF OnceCall
  <2> QED BY <2>1, <2>2
<1>6. Disjoint'
  <2>1. ASSUME NEW b \in Clients, b # c, Inserting(b)', Inserting(c)'
        PROVE  msgs'[b] \intersect msgs'[c] = {}
    BY <1>1, <1>4, <2>1 DEF TypeOK, Inserting
  <2>2. ASSUME NEW a \in Clients \ {c}, NEW b \in Clients \ {c}, a # b, Inserting(a)', Inserting(b)'
        PROVE  msgs'[a] \intersect msgs'[b] = {}
    BY <1>1, <2>2 DEF TypeOK, Inserting, Once, Disjoint
  <2> QED BY <2>1, <2>2 DEF Disjoint
<1> QED BY <1>2, <1>5, <1>6 DEF Once

LEMMA KeptEnd ==
  ASSUME TypeOK, NEW c \in Clients, End(c), NEW b \in Clients
  PROVE  CallKept(b)
<1>1. CASE b = c
  BY <1>1 DEF End, Goto, NoCall, CallKept, TypeOK
<1>2. CASE b # c
  BY <1>2 DEF End, Goto, CallKept, TypeOK, Empty
<1> QED BY <1>1, <1>2

LEMMA KeptMove ==
  ASSUME TypeOK, NEW c \in Clients, UNCHANGED <<msgs, kind, put>>, NEW place, Goto(c, place),
         place \in BeforeEnd => pc[c] \in BeforeEnd,
         place \notin {"run", "rollback", "return", "notify"} \/ (place = "run" /\ kind[c] # "batch")
           => Empty(c),
         NEW b \in Clients
  PROVE  CallKept(b)
<1>1. CASE b = c
  <2>1. msgs'[c] = msgs[c] /\ kind'[c] = kind[c] /\ put'[c] = put[c] /\ pc'[c] = place
    BY DEF Goto, TypeOK
  <2>2. pc'[c] \in BeforeEnd => pc[c] \in BeforeEnd
    BY <2>1
  <2>3. Empty(c)' => Empty(c)
    BY <2>1 DEF Empty
  <2> QED BY <1>1, <2>1, <2>2, <2>3 DEF CallKept
<1>2. CASE b # c
  <2>1. msgs'[b] = msgs[b] /\ kind'[b] = kind[b] /\ put'[b] = put[b] /\ pc'[b] = pc[b]
    BY <1>2 DEF Goto, TypeOK
  <2> QED BY <2>1 DEF CallKept, Empty
<1> QED BY <1>1, <1>2

LEMMA OnceStep ==
  ASSUME TypeOK, TypeOK', Control, Once, Next
  PROVE  Once'
<1> USE DEF BeforeEnd, Writing, Locked
<1>0. UNCHANGED data => \A d \in Dbs : NotMore(d)
  BY HeldSame, FewerNotMore
<1>1. ASSUME NEW c \in Clients, NEW k \in Kinds, NEW t \in Tables, NEW S \in SUBSET Msgs,
             Request(c, k, t, S)
      PROVE  Once'
  BY <1>1, OnceRequest
<1>2. ASSUME NEW c \in Clients, FindVersionAbility(c) PROVE Once'
  <2>1. UNCHANGED data /\ sent' = sent
    BY <1>2 DEF FindVersionAbility, history
  <2>2. \A b \in Clients : CallKept(b)
    <3>1. CASE versionAbility # 0
      BY <1>2, <3>1, KeptEnd DEF FindVersionAbility, TakeVersion
    <3>2. CASE ~(versionAbility # 0)
      <4>1. Goto(c, "create") /\ UNCHANGED <<msgs, kind, put>> /\ Empty(c)
        BY <1>2, <3>2 DEF FindVersionAbility, call, progress, Empty
      <4> QED BY <4>1, KeptMove
    <3> QED BY <3>1, <3>2
  <2> QED BY <1>0, <2>1, <2>2, OnceKept
<1>3. ASSUME NEW c \in Clients, LockVersion(c) PROVE Once'
  <2>1. UNCHANGED data /\ sent' = sent
    BY <1>3 DEF LockVersion, history
  <2>2. \A b \in Clients : CallKept(b)
    <3>1. CASE IsCreated
      BY <1>3, <3>1, KeptEnd DEF LockVersion, TakeVersion
    <3>2. CASE ~(IsCreated)
      <4>1. Goto(c, "reset") /\ UNCHANGED <<msgs, kind, put>> /\ Empty(c)
        BY <1>3, <3>2 DEF LockVersion, call, progress, Empty
      <4> QED BY <4>1, KeptMove
    <3> QED BY <3>1, <3>2
  <2> QED BY <1>0, <2>1, <2>2, OnceKept
<1>4. ASSUME NEW c \in Clients, CreateVersionAbility(c) PROVE Once'
  BY <1>4, <1>0, KeptEnd, OnceKept DEF CreateVersionAbility, TakeVersion, history
<1>5. ASSUME NEW c \in Clients, Check(c) PROVE Once'
  <2>1. UNCHANGED data /\ sent' = sent
    BY <1>5 DEF Check, history
  <2>2. PICK place \in {"return", "run", "lock"} : Goto(c, place)
    BY <1>5 DEF Check
  <2>3. UNCHANGED <<msgs, kind, put>> /\ Empty(c) /\ pc[c] \in BeforeEnd
    BY <1>5 DEF Check, call, Empty
  <2> QED BY <1>0, <2>1, <2>2, <2>3, KeptMove, OnceKept
<1>6. ASSUME NEW c \in Clients, TakeLock(c) PROVE Once'
  <2>1. UNCHANGED data /\ sent' = sent
    BY <1>6 DEF TakeLock, history
  <2>2. PICK place \in {"begin", "run"} : Goto(c, place)
    BY <1>6 DEF TakeLock
  <2>3. UNCHANGED <<msgs, kind, put>> /\ Empty(c) /\ pc[c] \in BeforeEnd
    BY <1>6 DEF TakeLock, HoldsLock, call, progress, Empty
  <2> QED BY <1>0, <2>1, <2>2, <2>3, KeptMove, OnceKept
<1>7. ASSUME NEW c \in Clients, Begin(c) PROVE Once'
  <2>1. store \in Dbs /\ sent' = sent
    BY <1>7, InDbs DEF Begin, Control, KindAt, history
  <2>2. \A d \in Dbs : Held(d)' \subseteq Held(d)
    <3>1. CASE open' = open
      BY <1>7, <3>1, HeldSame DEF Begin, data
    <3>2. CASE open' # open
      BY <1>7, <2>1, <3>2, HeldBegun DEF Begin
    <3> QED BY <3>1, <3>2
  <2>3. PICK place \in {"run", "return"} : Goto(c, place)
    BY <1>7 DEF Begin
  <2>4. UNCHANGED <<msgs, kind, put>> /\ Empty(c) /\ pc[c] \in BeforeEnd
    BY <1>7 DEF Begin, call, Empty
  <2> QED BY <2>1, <2>2, <2>3, <2>4, FewerNotMore, KeptMove, OnceKept
<1>8. ASSUME NEW c \in Clients, RollBack(c) PROVE Once'
  <2>1. store \in Dbs /\ sent' = sent
    BY <1>8, InDbs DEF RollBack, Control, KindAt
  <2>2. \A d \in Dbs : Held(d)' \subseteq Held(d)
    <3>1. CASE UNCHANGED data
      BY <3>1, HeldSame
    <3>2. CASE ~UNCHANGED data
      <4>1. /\ open[store] # <<>>
            /\ rows' = [rows EXCEPT ![store] = Head(open[store])]
            /\ open' = [open EXCEPT ![store] = Tail(@)]
        BY <1>8, <3>2 DEF RollBack
      <4> QED BY <2>1, <4>1, HeldEnded
    <3> QED BY <3>1, <3>2
  <2>3. Goto(c, "return") /\ UNCHANGED <<msgs, kind, put>>
    BY <1>8 DEF RollBack, call, progress
  <2> QED BY <2>1, <2>2, <2>3, FewerNotMore, KeptMove, OnceKept
<1>9. ASSUME NEW c \in Clients, NEW code \in Codes, Run(c, code) PROVE Once'
  <2>1. PICK m \in msgs[c] : Statement(c, m, code)
    BY <1>9 DEF Run
  <2>2. UNCHANGED <<open, msgs, kind, sent>> /\ pc[c] = "run" /\ kind[c] # "batch"
    BY <1>9 DEF Run, call
  <2>3. CASE code # "ok"
    <3>1. UNCHANGED <<data, put>>
      BY <2>1, <2>2, <2>3 DEF Statement, data
    <3>2. PICK place \in {"sleep", "return"} : Goto(c, place)
      BY <1>9 DEF Run
    <3>3. Empty(c)
      BY <2>2 DEF Empty
    <3> QED BY <1>0, <2>2, <3>1, <3>2, <3>3, KeptMove, OnceKept
  <2>4. CASE code = "ok"
    <3> DEFINE db == Target(c)
    <3>1. db \in Dbs /\ rows' = [rows EXCEPT ![db] = Changed(c, @, m)]
          /\ put' = [put EXCEPT ![c] = @ \union {<<db, m>>}]
      BY <2>1, <2>4 DEF Statement, Target, TypeOK, Dbs
    <3>2. pc' = [pc EXCEPT ![c] = "return"]
      BY <1>9, <2>4 DEF Run, IsRetryable, Goto
    <3>3. m \in Msgs /\ put[c] = {}
      BY <2>1, <2>2 DEF TypeOK, Once, OnceCall, Empty
    <3>4. CASE Inserting(c)
      <4>1. m \in Pending(c)
        BY <2>1, <3>3 DEF Pending
      <4>2. rows' = [rows EXCEPT ![db] = Inserted(@, m)]
        <5>1. Changed(c, rows[db], m) = Inserted(rows[db], m)
          BY <3>4, ChangedInserting
        <5> HIDE DEF db
        <5> QED BY <3>1, <5>1
      <4> HIDE DEF db
      <4> QED BY <2>2, <3>1, <3>2, <3>3, <3>4, <4>1, <4>2, OnceInserted
    <3>5. CASE ~Inserting(c)
      <4> HIDE DEF db
      <4>1. \A d \in Dbs : NotMore(d)
        BY <2>2, <3>1, <3>3, <3>5, NotMoreChanged
      <4>2. ASSUME NEW b \in Clients PROVE CallKept(b)
        <5>1. CASE b = c
          <6>1. msgs'[c] = msgs[c] /\ kind'[c] = kind[c] /\ pc'[c] = "return" /\ put'[c] = {<<db, m>>}
            BY <2>2, <3>1, <3>2, <3>3 DEF TypeOK
          <6> QED BY <2>1, <3>5, <5>1, <6>1 DEF CallKept, Empty
        <5>2. CASE b # c
          <6>1. msgs'[b] = msgs[b] /\ kind'[b] = kind[b] /\ pc'[b] = pc[b] /\ put'[b] = put[b]
            BY <2>2, <3>1, <3>2, <5>2 DEF TypeOK
          <6> QED BY <6>1 DEF CallKept, Empty
        <5> QED BY <5>1, <5>2
      <4> QED BY <2>2, <4>1, <4>2, OnceKept
    <3> QED BY <3>4, <3>5
  <2> QED BY <2>3, <2>4
<1>10. ASSUME NEW c \in Clients, NEW code \in Codes, InsertNext(c, code) PROVE Once'
  <2>1. PICK m \in Pending(c) : Statement(c, m, code)
    BY <1>10 DEF InsertNext
  <2>2. UNCHANGED <<open, msgs, kind, sent>> /\ pc[c] = "run" /\ kind[c] = "batch"
    BY <1>10 DEF InsertNext, call
  <2>3. CASE code # "ok"
    <3>1. UNCHANGED <<data, put>>
      BY <2>1, <2>2, <2>3 DEF Statement, data
    <3>2. Goto(c, "rollback")
      BY <1>10, <2>3 DEF InsertNext, OnFailure
    <3> QED BY <1>0, <2>2, <3>1, <3>2, KeptMove, OnceKept
  <2>4. CASE code = "ok"
    <3> DEFINE db == Target(c)
    <3>1. db \in Dbs /\ rows' = [rows EXCEPT ![db] = Changed(c, @, m)]
          /\ put' = [put EXCEPT ![c] = @ \union {<<db, m>>}]
      BY <2>1, <2>4 DEF Statement, Target, TypeOK, Dbs
    <3>2. pc' = [pc EXCEPT ![c] = "run"]
      BY <1>10, <2>4 DEF InsertNext, Goto
    <3>3. m \in Msgs /\ Inserting(c)
      BY <2>1, <2>2 DEF TypeOK, Pending, Inserting
    <3>4. rows' = [rows EXCEPT ![db] = Inserted(@, m)]
      <4>1. Changed(c, rows[db], m) = Inserted(rows[db], m)
        BY <3>3, ChangedInserting
      <4> HIDE DEF db
      <4> QED BY <3>1, <4>1
    <3> HIDE DEF db
    <3> QED BY <2>1, <2>2, <3>1, <3>2, <3>3, <3>4, OnceInserted
  <2> QED BY <2>3, <2>4
<1>11. ASSUME NEW c \in Clients, NEW code \in Codes, Commit(c, code) PROVE Once'
  <2>1. store \in Dbs /\ sent' = sent
    BY <1>11, InDbs DEF Commit
  <2>2. \A d \in Dbs : Held(d)' \subseteq Held(d)
    <3>1. CASE open' = open
      BY <1>11, <3>1, HeldSame DEF Commit, data
    <3>2. CASE open' # open
      <4>1. open[store] # <<>> /\ rows' = rows /\ open' = [open EXCEPT ![store] = Tail(@)]
        BY <1>11, <3>2 DEF Commit
      <4> QED BY <2>1, <4>1, HeldEnded
    <3> QED BY <3>1, <3>2
  <2>3. PICK place \in {"rollback", "return"} : Goto(c, place)
    BY <1>11 DEF Commit, OnFailure
  <2>4. UNCHANGED <<msgs, kind, put>> /\ pc[c] \in BeforeEnd
    BY <1>11 DEF Commit, call
  <2> QED BY <2>1, <2>2, <2>3, <2>4, FewerNotMore, KeptMove, OnceKept
<1>12. ASSUME NEW c \in Clients, Wake(c) PROVE Once'
  <2>1. UNCHANGED data /\ sent' = sent /\ Goto(c, "run") /\ UNCHANGED <<msgs, kind, put>>
        /\ Empty(c) /\ pc[c] \in BeforeEnd
    BY <1>12 DEF Wake, history, call, progress, Empty
  <2> QED BY <1>0, <2>1, KeptMove, OnceKept
<1>13. ASSUME NEW c \in Clients, Return(c) PROVE Once'
  <2>1. UNCHANGED data /\ sent' = sent
    BY <1>13 DEF Return, history
  <2>2. \A b \in Clients : CallKept(b)
    <3>1. CASE Announces(c)
      <4>1. Goto(c, "notify") /\ UNCHANGED <<msgs, kind, put>>
        BY <1>13, <3>1 DEF Return, call, progress
      <4> QED BY <4>1, KeptMove
    <3>2. CASE ~Announces(c)
      BY <1>13, <3>2, KeptEnd DEF Return
    <3> QED BY <3>1, <3>2
  <2> QED BY <1>0, <2>1, <2>2, OnceKept
<1>14. ASSUME NEW c \in Clients, NotifyChange(c) PROVE Once'
  BY <1>14, <1>0, KeptEnd, OnceKept DEF NotifyChange, history
<1>15. ASSUME ChangeRdbStoreToEl2 PROVE Once'
  <2>1. UNCHANGED data /\ sent' = sent /\ UNCHANGED <<pc, kind, msgs, put>>
    BY <1>15 DEF ChangeRdbStoreToEl2, call, progress
  <2>2. \A b \in Clients : CallKept(b)
    BY <2>1 DEF CallKept, Empty
  <2> QED BY <1>0, <2>1, <2>2, OnceKept
<1>16. ASSUME Crash PROVE Once'
  <2>1. \A d \in Dbs : NotMore(d)
    BY <1>16, HeldCrashed, FewerNotMore
  <2>2. \A b \in Clients : CallKept(b)
    BY <1>16 DEF Crash, CallKept, NoCall
  <2>3. sent' = sent
    BY <1>16 DEF Crash, history
  <2> QED BY <2>1, <2>2, <2>3, OnceKept
<1> QED
  BY <1>1, <1>2, <1>3, <1>4, <1>5, <1>6, <1>7, <1>8, <1>9, <1>10, <1>11, <1>12, <1>13, <1>14,
     <1>15, <1>16 DEF Next, Step

-----------------------------------------------------------------------------
(* Rows of batches and rows told of.                                       *)
LEMMA KnownInit == Init => Known
<1> SUFFICES ASSUME Init PROVE Known
  OBVIOUS
<1>1. PICK old \in [Msgs -> Dbs \union {"null"}] :
        /\ sent = {m \in Msgs : old[m] # "null"}
        /\ acked = {p \in Dbs \X Msgs : old[p[2]] = p[1]}
  BY DEF Init
<1>2. ToldOf \subseteq sent
  BY <1>1 DEF Init, ToldOf, Dbs
<1> QED BY <1>2 DEF Init, Known, NoCall

LEMMA KnownKept ==
  ASSUME Known, sent' = sent, batches' = batches, ToldOf' \subseteq ToldOf \union sent,
         \A b \in Clients : (msgs'[b] = msgs[b] /\ kind'[b] = kind[b]) \/ kind'[b] = "version"
  PROVE  Known'
BY DEF Known

LEMMA EndKept ==
  ASSUME TypeOK, NEW c \in Clients, End(c), NEW b \in Clients
  PROVE  (msgs'[b] = msgs[b] /\ kind'[b] = kind[b]) \/ kind'[b] = "version"
BY DEF TypeOK, End, NoCall

LEMMA KnownStep ==
  ASSUME TypeOK, Once, Known, Next
  PROVE  Known'
<1>0. ASSUME UNCHANGED <<acked, marked, gone>> PROVE ToldOf' = ToldOf
  BY <1>0 DEF ToldOf
<1>1. ASSUME NEW c \in Clients, NEW k \in Kinds, NEW t \in Tables, NEW S \in SUBSET Msgs,
             Request(c, k, t, S)
      PROVE  Known'
  <2>1. /\ ToldOf' = ToldOf /\ sent \subseteq sent'
        /\ msgs' = [msgs EXCEPT ![c] = S] /\ kind' = [kind EXCEPT ![c] = k]
    BY <1>1, <1>0 DEF Request
  <2>2. CASE k = "batch"
    <3>1. S \intersect sent = {} /\ S \subseteq sent' /\ batches' = batches \union {S}
      BY <1>1, <2>2 DEF Request
    <3>2. \A b \in Clients \ {c} : msgs'[b] = msgs[b] /\ kind'[b] = kind[b] /\ msgs[b] \subseteq sent
      BY <2>1 DEF TypeOK, Once, OnceCall
    <3>3. msgs'[c] = S /\ kind'[c] = "batch"
      BY <2>1, <2>2 DEF TypeOK
    <3>4. \A B \in batches : B \intersect S = {}
      BY <3>1 DEF Known
    <3> QED BY <2>1, <3>1, <3>2, <3>3, <3>4 DEF Known
  <2>3. CASE k # "batch"
    <3>1. batches' = batches /\ (k = "insert" => S \intersect sent = {})
      BY <1>1, <2>3 DEF Request
    <3>2. \A b \in Clients \ {c} : msgs'[b] = msgs[b] /\ kind'[b] = kind[b]
      BY <2>1 DEF TypeOK
    <3>3. msgs'[c] = S /\ kind'[c] = k
      BY <2>1 DEF TypeOK
    <3>4. k = "insert" => \A B \in batches : S \intersect B = {}
      BY <3>1 DEF Known
    <3> QED BY <2>1, <2>3, <3>1, <3>2, <3>3, <3>4 DEF Known
  <2> QED BY <2>2, <2>3
<1>2. ASSUME NEW c \in Clients,
             End(c) \/ UNCHANGED <<msgs, kind>>,
             UNCHANGED <<sent, batches, acked, marked, gone>>
      PROVE  Known'
  BY <1>0, <1>2, EndKept, KnownKept
<1>3. ASSUME NEW c \in Clients, FindVersionAbility(c) PROVE Known'
  <2>1. End(c) \/ UNCHANGED <<msgs, kind>>
    BY <1>3 DEF FindVersionAbility, TakeVersion, call
  <2> QED BY <1>2, <1>3, <2>1 DEF FindVersionAbility, history
<1>4. ASSUME NEW c \in Clients, LockVersion(c) PROVE Known'
  <2>1. End(c) \/ UNCHANGED <<msgs, kind>>
    BY <1>4 DEF LockVersion, TakeVersion, call
  <2> QED BY <1>2, <1>4, <2>1 DEF LockVersion, history
<1>5. ASSUME NEW c \in Clients, CreateVersionAbility(c) PROVE Known'
  BY <1>2, <1>5 DEF CreateVersionAbility, TakeVersion, history
<1>6. ASSUME NEW c \in Clients, Check(c) \/ TakeLock(c) \/ Begin(c) \/ Wake(c) PROVE Known'
  <2>1. UNCHANGED <<msgs, kind, sent, batches, acked, marked, gone>>
    BY <1>6 DEF Check, TakeLock, Begin, Wake, call, history
  <2> QED BY <1>2, <2>1
<1>7. ASSUME NEW c \in Clients, RollBack(c) PROVE Known'
  BY <1>2, <1>7 DEF RollBack, call
<1>8. ASSUME NEW c \in Clients, NEW m \in msgs[c], NEW code \in Codes, Statement(c, m, code)
      PROVE  ToldOf' \subseteq ToldOf \union sent
  <2>1. m \in sent
    BY DEF Once, OnceCall
  <2>2. \A p \in acked' \union marked' \union gone' : p \in acked \union marked \union gone \/ p[2] = m
    BY <1>8 DEF Statement, Told
  <2> QED BY <2>1, <2>2 DEF ToldOf
<1>9. ASSUME NEW c \in Clients, NEW code \in Codes, Run(c, code) PROVE Known'
  BY <1>8, <1>9, KnownKept DEF Run, call
<1>10. ASSUME NEW c \in Clients, NEW code \in Codes, InsertNext(c, code) PROVE Known'
  <2>1. Pending(c) \subseteq msgs[c]
    BY DEF Pending
  <2> QED BY <1>8, <1>10, <2>1, KnownKept DEF InsertNext, call
<1>11. ASSUME NEW c \in Clients, NEW code \in Codes, Commit(c, code) PROVE Known'
  <2>1. acked' \subseteq acked \union put[c] /\ UNCHANGED <<marked, gone, sent, batches, msgs, kind>>
    BY <1>11 DEF Commit, call
  <2>2. \A p \in put[c] : p[2] \in sent
    BY DEF Once, OnceCall
  <2>3. ToldOf' \subseteq ToldOf \union sent
    BY <2>1, <2>2 DEF ToldOf
  <2> QED BY <2>1, <2>3, KnownKept
<1>12. ASSUME NEW c \in Clients, Return(c) PROVE Known'
  <2>1. End(c) \/ UNCHANGED <<msgs, kind>>
    BY <1>12 DEF Return, call
  <2> QED BY <1>2, <1>12, <2>1 DEF Return, history
<1>13. ASSUME NEW c \in Clients, NotifyChange(c) PROVE Known'
  BY <1>2, <1>13 DEF NotifyChange, history
<1>14. ASSUME ChangeRdbStoreToEl2 PROVE Known'
  BY <1>0, <1>14, KnownKept DEF ChangeRdbStoreToEl2, call
<1>15. ASSUME Crash PROVE Known'
  BY <1>0, <1>15, KnownKept DEF Crash, history, NoCall
<1> QED
  BY <1>1, <1>3, <1>4, <1>5, <1>6, <1>7, <1>9, <1>10, <1>11, <1>12, <1>13, <1>14, <1>15
  DEF Next, Step
-----------------------------------------------------------------------------
(* What was told holds.  First what batches and the lock amount to: one    *)
(* batch at most is under way, and none while a call that is not a         *)
(* mark-read has the lock.                                                 *)
LEMMA OneBatch ==
  ASSUME Control, NEW a \in Clients, NEW b \in Clients, InBatch(a), b \in lock
  PROVE  a = b
BY DEF Control, LockAt, InBatch, Locked

LEMMA NoBatch ==
  ASSUME TypeOK, Control, Faithful, \A b \in Clients : ~InBatch(b)
  PROVE  \A d \in Dbs : open[d] = <<>>
BY DEF Faithful

LEMMA BatchOpen ==
  ASSUME TypeOK, Control, Faithful, NEW c \in Clients, InBatch(c)
  PROVE  /\ store \in Dbs /\ c \in lock /\ open[store] # <<>> /\ Revertible(c)
         /\ \A d \in Dbs : d # store => open[d] = <<>>
         /\ \A b \in Clients : InBatch(b) => b = c
<1>1. store \in Dbs /\ c \in lock
  BY InDbs DEF InBatch
<1>2. Revertible(c)
  BY DEF Faithful
<1>3. open[store] # <<>>
  BY <1>1, <1>2 DEF Revertible
<1> QED BY <1>1, <1>2, <1>3, OneBatch DEF Faithful

(* A row that is there is no row of a call still to insert it, unless that *)
(* call is a batch under way.                                              *)
LEMMA PresentNotComing ==
  ASSUME TypeOK, Control, Once, NEW b \in Clients, Inserting(b), pc[b] \in BeforeEnd, ~InBatch(b),
         NEW d \in Dbs, NEW m \in Msgs, rows[d][m].copies > 0
  PROVE  m \notin msgs[b]
<1>1. Empty(b)
  BY DEF Control, KindAt, InBatch, Empty, Inserting, BeforeEnd, Writing, Locked
<1>2. put[b] = {}
  BY <1>1 DEF Once, OnceCall
<1>3. m \in msgs[b] => NowhereIn(m)
  BY <1>2 DEF Pending, Once, OnceCall
<1>4. rows[d] \in Held(d) /\ rows[d][m].copies \in Nat
  BY HeldType DEF Contents
<1> QED BY <1>3, <1>4 DEF NowhereIn

(* Stored and deleted rows depend on the copies alone.                     *)
LEMMA SettledKept ==
  ASSUME NEW B, Settled(B), \A m \in B : m \in Seen' <=> m \in Seen
  PROVE  Settled(B)'
BY DEF Settled

(* A step that leaves rows and history alone, and of each call what counts *)
(* here, or ends it.                                                       *)
AsIs(b) ==
  \/ /\ msgs'[b] = msgs[b] /\ kind'[b] = kind[b] /\ put'[b] = put[b]
     /\ pc'[b] \in BeforeEnd => pc[b] \in BeforeEnd
     /\ InBatch(b)' <=> InBatch(b)
  \/ kind'[b] = "version" /\ ~InBatch(b)

LEMMA Steady ==
  ASSUME TypeOK, Control, Faithful, UNCHANGED <<rows, open, acked, marked, gone, batches>>,
         store' = store \/ \A d \in Dbs : open[d] = <<>>,
         \A b \in Clients : AsIs(b)
  PROVE  Faithful'
<1>1. ToldOf' = ToldOf /\ Seen' = Seen
  BY DEF ToldOf, Seen, Stored, Deleted
<1>2. \A b \in Clients : InBatch(b)' <=> InBatch(b)
  BY DEF AsIs, InBatch
<1>3. (\E b \in Clients : InBatch(b)) => store' = store
  BY BatchOpen
<1>4. \A c \in Clients : Inserting(c)' /\ pc'[c] \in BeforeEnd => msgs'[c] \intersect ToldOf' = {}
  BY <1>1 DEF AsIs, Faithful, Inserting
<1>5. \A d \in Dbs : open'[d] # <<>> => d = store' /\ \E c \in Clients : InBatch(c)'
  BY <1>2 DEF Faithful
<1>6. ASSUME NEW c \in Clients, InBatch(c)' PROVE Revertible(c)'
  <2>1. InBatch(c) /\ store' = store /\ msgs'[c] = msgs[c] /\ put'[c] = put[c]
    BY <1>2, <1>3, <1>6 DEF AsIs, InBatch
  <2>2. Revertible(c)
    BY <2>1 DEF Faithful
  <2> QED BY <2>1, <2>2 DEF Revertible
<1>7. ASSUME NEW B \in batches PROVE Settled(B)' \/ \E c \in Clients : InBatch(c)' /\ msgs'[c] = B
  <2>1. CASE Settled(B)
    BY <1>1, <2>1 DEF Settled
  <2>2. CASE \E c \in Clients : InBatch(c) /\ msgs[c] = B
    BY <1>2, <2>2 DEF AsIs, InBatch
  <2> QED BY <2>1, <2>2 DEF Faithful
<1> QED BY <1>4, <1>5, <1>6, <1>7 DEF Faithful

LEMMA AsIsEnd ==
  ASSUME TypeOK, NEW c \in Clients, End(c), ~InBatch(c), NEW b \in Clients
  PROVE  AsIs(b)
<1>1. CASE b = c
  BY <1>1 DEF End, NoCall, AsIs, TypeOK
<1>2. CASE b # c
  BY <1>2 DEF End, Goto, AsIs, InBatch, TypeOK
<1> QED BY <1>1, <1>2

LEMMA AsIsMove ==
  ASSUME TypeOK, NEW c \in Clients, UNCHANGED <<msgs, kind, put>>, NEW place, Goto(c, place),
         place \in BeforeEnd => pc[c] \in BeforeEnd,
         kind[c] = "batch" => (place \in {"run", "rollback"} <=> pc[c] \in {"run", "rollback"}),
         NEW b \in Clients
  PROVE  AsIs(b)
<1>1. CASE b = c
  BY <1>1 DEF Goto, AsIs, InBatch, TypeOK
<1>2. CASE b # c
  BY <1>2 DEF Goto, AsIs, InBatch, TypeOK
<1> QED BY <1>1, <1>2
(* A roll-back of the batch under way, by it or by the crash.              *)
LEMMA Reverting ==
  ASSUME TypeOK, Control, Once, Known, Faithful, NEW c \in Clients, InBatch(c),
         \A d \in Dbs : /\ rows'[d] = IF d = store THEN open[store][1] ELSE rows[d]
                        /\ open'[d] = <<>>,
         UNCHANGED <<acked, marked, gone, batches>>,
         \A b \in Clients :
           /\ ~InBatch(b)'
           /\ \/ /\ msgs'[b] = msgs[b] /\ kind'[b] = kind[b]
                 /\ pc'[b] \in BeforeEnd => pc[b] \in BeforeEnd
              \/ kind'[b] = "version"
  PROVE  Faithful'
<1>1. store \in Dbs /\ Revertible(c) /\ (\A b \in Clients : InBatch(b) => b = c)
  BY BatchOpen
<1>2. ToldOf' = ToldOf /\ msgs[c] \intersect ToldOf = {} /\ msgs[c] \in batches
  BY DEF ToldOf, Faithful, InBatch, Inserting, Known, BeforeEnd, Writing, Locked
<1>3. \A d \in Dbs, m \in Msgs \ msgs[c] : rows'[d][m].copies = rows[d][m].copies
  BY <1>1 DEF Revertible
<1>4. \A d \in Dbs, m \in msgs[c] : rows'[d][m].copies = 0
  BY <1>1 DEF Revertible
<1>5. \A m \in Msgs \ msgs[c] : m \in Seen' <=> m \in Seen
  BY <1>3 DEF Seen, Stored, Deleted
<1>6. \A m \in msgs[c] : m \notin Seen'
  BY <1>2, <1>4 DEF Seen, Stored, Deleted, ToldOf
<1>7. \A p \in acked \union marked \union gone :
        p[1] \in Dbs /\ p[2] \in Msgs \ msgs[c] /\ p = <<p[1], p[2]>>
  BY <1>2 DEF ToldOf, TypeOK, Rows
<1>8. \A b \in Clients : Inserting(b)' /\ pc'[b] \in BeforeEnd => msgs'[b] \intersect ToldOf' = {}
  BY <1>2 DEF Faithful, Inserting
<1>9. \A p \in acked : rows'[p[1]][p[2]].copies > 0
  BY <1>3, <1>7 DEF Faithful
<1>10. \A p \in gone : rows'[p[1]][p[2]].copies = 0
  BY <1>3, <1>7 DEF Faithful
<1>11. ASSUME NEW p \in marked PROVE rows'[p[1]][p[2]].read
  <2>1. CASE p[1] = store
    BY <1>1, <1>7, <2>1 DEF Revertible
  <2>2. CASE p[1] # store
    BY <1>7, <2>2 DEF Faithful
  <2> QED BY <2>1, <2>2
<1>12. ASSUME NEW B \in batches PROVE Settled(B)'
  <2>1. CASE B = msgs[c]
    BY <1>6, <2>1 DEF Settled
  <2>2. CASE B # msgs[c]
    <3>1. Settled(B)
      BY <1>1, <2>2 DEF Faithful
    <3>2. B \intersect msgs[c] = {} /\ B \subseteq Msgs
      BY <1>2, <2>2 DEF Known, TypeOK
    <3> QED BY <1>5, <3>1, <3>2, SettledKept
  <2> QED BY <2>1, <2>2
<1> QED BY <1>8, <1>9, <1>10, <1>11, <1>12 DEF Faithful

(* A batch begins: none of its rows is anywhere.                           *)
LEMMA Beginning ==
  ASSUME TypeOK, Control, Once, Faithful, NEW c \in Clients, pc[c] = "begin", kind[c] = "batch",
         UNCHANGED <<rows, acked, marked, gone, batches, msgs, kind, put, store>>,
         open' = [open EXCEPT ![store] = <<rows[store]>> \o @],
         pc' = [pc EXCEPT ![c] = "run"]
  PROVE  Faithful'
<1>1. store \in Dbs /\ c \in lock
  BY InDbs
<1>2. \A b \in Clients : ~InBatch(b)
  BY <1>1, OneBatch DEF InBatch
<1>3. \A d \in Dbs : open[d] = <<>>
  BY <1>2, NoBatch
<1>4. open'[store] = <<rows[store]>> /\ \A d \in Dbs : d # store => open'[d] = <<>>
  <2>1. <<rows[store]>> \o <<>> = <<rows[store]>>
    OBVIOUS
  <2> QED BY <1>1, <1>3, <2>1 DEF TypeOK
<1>5. ToldOf' = ToldOf /\ Seen' = Seen
  BY DEF ToldOf, Seen, Stored, Deleted
<1>6. \A b \in Clients : InBatch(b)' <=> b = c
  BY <1>2 DEF InBatch, TypeOK
<1>7. Revertible(c)'
  <2>1. put[c] = {}
    BY DEF Once, OnceCall, Empty
  <2>2. ASSUME NEW m \in msgs[c], NEW d \in Dbs PROVE rows[d][m].copies = 0
    <3>1. m \in Pending(c) /\ Inserting(c)
      BY <2>1 DEF Pending, Inserting
    <3>2. NowhereIn(m)
      BY <3>1 DEF Once, OnceCall, BeforeEnd, Writing, Locked
    <3> QED BY <3>2, HeldType DEF NowhereIn
  <2>3. \A m \in Msgs : <<store, m>> \in marked => rows[store][m].read
    BY DEF Faithful
  <2>4. open'[store][1] = rows[store] /\ Len(open'[store]) = 1
    BY <1>4
  <2> QED BY <1>1, <2>1, <2>2, <2>3, <2>4 DEF Revertible
<1>8. \A b \in Clients : Inserting(b)' /\ pc'[b] \in BeforeEnd => msgs'[b] \intersect ToldOf' = {}
  BY <1>5 DEF Faithful, Inserting, TypeOK, BeforeEnd, Writing, Locked
<1>9. \A B \in batches : Settled(B)'
  BY <1>2, <1>5 DEF Faithful, Settled
<1> QED BY <1>1, <1>4, <1>6, <1>7, <1>8, <1>9 DEF Faithful

(* It commits: all its rows are there.                                     *)
LEMMA Committing ==
  ASSUME TypeOK, Control, Once, Known, Faithful, NEW c \in Clients, InBatch(c), Pending(c) = {},
         UNCHANGED <<rows, marked, gone, batches, msgs, kind, put, store>>,
         open' = [open EXCEPT ![store] = Tail(@)],
         acked' = acked \union put[c],
         pc' = [pc EXCEPT ![c] = "return"]
  PROVE  Faithful'
<1>1. store \in Dbs /\ Revertible(c) /\ (\A b \in Clients : InBatch(b) => b = c)
      /\ open[store] # <<>> /\ \A d \in Dbs : d # store => open[d] = <<>>
  BY BatchOpen
<1>2. \A d \in Dbs : open'[d] = <<>>
  <2>1. open[store] \in Seq(Contents) /\ Len(open[store]) = 1
    BY <1>1 DEF Revertible, TypeOK
  <2>2. Tail(open[store]) = <<>>
    <3> DEFINE s == open[store]
    <3>1. Tail(s) \in Seq(Contents) /\ Len(Tail(s)) = 0
      BY <1>1, <2>1, Popped
    <3> HIDE DEF s
    <3>2. \A t \in Seq(Contents) : Len(t) = 0 => t = <<>>
      OBVIOUS
    <3> QED BY <3>1, <3>2 DEF s
  <2> QED BY <1>1, <2>2 DEF TypeOK
<1>3. \A b \in Clients : ~InBatch(b)'
  BY <1>1 DEF InBatch, TypeOK
<1>4. ASSUME NEW b \in Clients, Inserting(b)', pc'[b] \in BeforeEnd
      PROVE  msgs'[b] \intersect ToldOf' = {}
  <2>1. b # c /\ Inserting(b) /\ pc[b] \in BeforeEnd
    BY <1>4 DEF TypeOK, Inserting, BeforeEnd, Writing, Locked
  <2>2. msgs[b] \intersect msgs[c] = {} /\ msgs[b] \intersect ToldOf = {}
    BY <2>1 DEF Once, Disjoint, Faithful, InBatch, Inserting
  <2>3. \A p \in put[c] : p[2] \in msgs[c]
    BY DEF Once, OnceCall
  <2> QED BY <2>2, <2>3 DEF ToldOf
<1>5. \A p \in acked' : rows[p[1]][p[2]].copies > 0
  BY <1>1 DEF Revertible, Faithful
<1>6. ASSUME NEW B \in batches PROVE Settled(B)'
  <2>1. Seen' = Seen
    BY DEF Seen, Stored, Deleted
  <2>2. CASE B = msgs[c]
    <3>1. ASSUME NEW m \in B PROVE m \in Seen
      <4>1. PICK d \in Dbs : <<d, m>> \in put[c]
        BY <2>2 DEF Pending
      <4>2. rows[d][m].copies > 0 /\ m \in Msgs
        BY <1>1, <2>2, <4>1 DEF Revertible, TypeOK
      <4> QED BY <4>2 DEF Seen, Stored
    <3> QED BY <2>1, <3>1 DEF Settled
  <2>3. CASE B # msgs[c]
    BY <1>1, <2>1, <2>3 DEF Faithful, Settled
  <2> QED BY <2>2, <2>3
<1> QED BY <1>2, <1>3, <1>4, <1>5, <1>6 DEF Faithful
(* It inserts a row.                                                       *)
LEMMA BatchInserting ==
  ASSUME TypeOK, Control, Once, Known, Faithful, NEW c \in Clients, InBatch(c), pc[c] = "run",
         NEW m \in Pending(c),
         rows' = [rows EXCEPT ![store] = Inserted(@, m)],
         put' = [put EXCEPT ![c] = @ \union {<<store, m>>}],
         UNCHANGED <<open, acked, marked, gone, batches, msgs, kind, store, pc>>
  PROVE  Faithful'
<1>1. store \in Dbs /\ Revertible(c) /\ (\A b \in Clients : InBatch(b) => b = c)
  BY BatchOpen
<1>2. ToldOf' = ToldOf /\ msgs[c] \intersect ToldOf = {} /\ msgs[c] \in batches
      /\ m \in msgs[c] /\ m \in Msgs
  BY DEF ToldOf, Faithful, InBatch, Inserting, Known, BeforeEnd, Writing, Locked, Pending, TypeOK
<1>3. \A d \in Dbs, n \in Msgs : d # store \/ n # m => rows'[d][n] = rows[d][n]
  BY <1>1 DEF TypeOK, Contents, Inserted
<1>4. rows'[store][m].copies > 0
  BY <1>1, <1>2 DEF TypeOK, Contents, Inserted
<1>5. \A n \in Msgs \ {m} : n \in Seen' <=> n \in Seen
  BY <1>3 DEF Seen, Stored, Deleted
<1>6. \A p \in acked \union marked \union gone :
        p[1] \in Dbs /\ p[2] \in Msgs \ {m} /\ p = <<p[1], p[2]>>
  BY <1>2 DEF ToldOf, TypeOK, Rows
<1>7. \A b \in Clients : (InBatch(b)' <=> InBatch(b)) /\ (Inserting(b)' <=> Inserting(b))
  BY DEF InBatch, Inserting
<1>8. Revertible(c)'
  <2>1. \A n \in msgs[c] : \A d \in Dbs \ {store} : rows'[d][n].copies = 0
    BY <1>1, <1>2, <1>3 DEF Revertible, TypeOK
  <2>2. \A n \in Msgs \ msgs[c] : rows'[store][n] = rows[store][n]
    BY <1>1, <1>2, <1>3
  <2>3. ASSUME NEW p \in put'[c] PROVE rows'[p[1]][p[2]].copies > 0
    <3>1. p = <<store, m>> \/ (p \in put[c] /\ p[1] \in Dbs /\ p[2] \in Msgs)
      BY DEF TypeOK, Rows
    <3>2. CASE p[1] = store /\ p[2] = m
      BY <1>4, <3>2
    <3>3. CASE ~(p[1] = store /\ p[2] = m)
      BY <1>1, <1>3, <3>1, <3>3 DEF Revertible
    <3> QED BY <3>2, <3>3
  <2> QED BY <1>1, <2>1, <2>2, <2>3 DEF Revertible
<1>9. \A b \in Clients : Inserting(b)' /\ pc'[b] \in BeforeEnd => msgs'[b] \intersect ToldOf' = {}
  BY <1>2, <1>7 DEF Faithful
<1>10. \A d \in Dbs : open'[d] # <<>> => d = store' /\ \E b \in Clients : InBatch(b)'
  BY <1>7 DEF Faithful
<1>11. /\ \A p \in acked : rows'[p[1]][p[2]].copies > 0
       /\ \A p \in marked : rows'[p[1]][p[2]].read
       /\ \A p \in gone : rows'[p[1]][p[2]].copies = 0
  BY <1>3, <1>6 DEF Faithful
<1>12. ASSUME NEW B \in batches PROVE Settled(B)' \/ \E b \in Clients : InBatch(b)' /\ msgs'[b] = B
  <2>1. CASE B = msgs[c]
    BY <1>7, <2>1
  <2>2. CASE B # msgs[c]
    <3>1. Settled(B)
      BY <1>1, <2>2 DEF Faithful
    <3>2. m \notin B /\ B \subseteq Msgs
      BY <1>2, <2>2 DEF Known, TypeOK
    <3> QED BY <1>5, <3>1, <3>2, SettledKept
  <2> QED BY <2>1, <2>2
<1>13. \A b \in Clients : InBatch(b)' => Revertible(b)'
  BY <1>1, <1>7, <1>8
<1> QED BY <1>9, <1>10, <1>11, <1>12, <1>13 DEF Faithful

(* A statement of a call that is no batch: of the row it is about, what it *)
(* says and what is stored agree; all other rows are as before.            *)
LEMMA SingleStatement ==
  ASSUME TypeOK, Control, Once, Known, Faithful, NEW c \in Clients, NEW m \in Msgs, NEW db \in Dbs,
         \A d \in Dbs, n \in Msgs : d # db \/ n # m => rows'[d][n] = rows[d][n],
         UNCHANGED <<open, batches, msgs, kind, store>>,
         pc' = [pc EXCEPT ![c] = "return"], kind[c] # "batch", put' = [put EXCEPT ![c] = put'[c]],
         <<db, m>> \in acked' => rows'[db][m].copies > 0,
         <<db, m>> \in marked' => rows'[db][m].read,
         <<db, m>> \in gone' => rows'[db][m].copies = 0,
         acked' \subseteq acked \union {<<db, m>>}, marked' \subseteq marked \union {<<db, m>>},
         gone \subseteq gone', gone' \subseteq gone \union {<<db, m>>},
         m \in ToldOf' \ ToldOf =>
           \A b \in Clients \ {c} : Inserting(b) /\ pc[b] \in BeforeEnd => m \notin msgs[b],
         (\E B \in batches : m \in B) => (m \in Seen' <=> m \in Seen),
         \A b \in Clients :
           InBatch(b) => /\ rows'[db][m].copies = rows[db][m].copies
                         /\ marked' = marked
  PROVE  Faithful'
<1>1. \A b \in Clients : (InBatch(b)' <=> InBatch(b)) /\ (Inserting(b)' <=> Inserting(b))
  BY DEF InBatch, Inserting, TypeOK
<1>2. ToldOf' \subseteq ToldOf \union {m}
  BY DEF ToldOf
<1>4. ASSUME NEW b \in Clients, Inserting(b)', pc'[b] \in BeforeEnd
      PROVE  msgs'[b] \intersect ToldOf' = {}
  <2>1. b # c /\ Inserting(b) /\ pc[b] \in BeforeEnd
    BY <1>1, <1>4 DEF TypeOK, BeforeEnd, Writing, Locked
  <2>2. msgs[b] \intersect ToldOf = {}
    BY <2>1 DEF Faithful
  <2> QED BY <1>2, <2>1, <2>2
<1>5. \A d \in Dbs : open'[d] # <<>> => d = store' /\ \E b \in Clients : InBatch(b)'
  BY <1>1 DEF Faithful
<1>6. ASSUME NEW b \in Clients, InBatch(b)' PROVE Revertible(b)'
  <2>1. b # c /\ InBatch(b) /\ Revertible(b) /\ store \in Dbs
    BY <1>1, <1>6, BatchOpen DEF InBatch
  <2>2. put'[b] = put[b] /\ put[b] \subseteq Rows /\ msgs[b] \subseteq Msgs
    BY <2>1 DEF TypeOK
  <2>3. \A d \in Dbs, n \in Msgs : rows'[d][n].copies = rows[d][n].copies
    BY <2>1
  <2>4. \A p \in put[b] : rows'[p[1]][p[2]].copies > 0
    BY <2>1, <2>2, <2>3 DEF Revertible, Rows
  <2> QED BY <2>1, <2>2, <2>3, <2>4 DEF Revertible
<1>7. ASSUME NEW p \in Rows
      PROVE  /\ p \in acked' => rows'[p[1]][p[2]].copies > 0
             /\ p \in marked' => rows'[p[1]][p[2]].read
             /\ p \in gone' => rows'[p[1]][p[2]].copies = 0
  <2>1. p[1] \in Dbs /\ p[2] \in Msgs /\ p = <<p[1], p[2]>>
    BY DEF Rows
  <2>2. CASE p = <<db, m>>
    BY <2>2
  <2>3. CASE p # <<db, m>>
    <3>1. p[1] # db \/ p[2] # m
      BY <2>1, <2>3
    <3> QED BY <2>1, <2>3, <3>1 DEF Faithful
  <2> QED BY <2>2, <2>3
<1>8. acked' \subseteq Rows /\ marked' \subseteq Rows /\ gone' \subseteq Rows
  BY DEF TypeOK, Rows
<1>9. ASSUME NEW B \in batches PROVE Settled(B)' \/ \E b \in Clients : InBatch(b)' /\ msgs'[b] = B
  <2>1. CASE \E b \in Clients : InBatch(b) /\ msgs[b] = B
    BY <1>1, <2>1
  <2>2. CASE Settled(B)
    <3>1. \A n \in Msgs \ {m} : n \in Stored' <=> n \in Stored
      BY DEF Stored
    <3>2. \A n \in Msgs \ {m} : n \in Deleted' <=> n \in Deleted
      BY DEF Deleted
    <3>3. \A n \in B : n \in Seen' <=> n \in Seen
      BY <3>1, <3>2 DEF Seen, TypeOK
    <3> QED BY <2>2, <3>3, SettledKept
  <2> QED BY <2>1, <2>2 DEF Faithful
<1> QED BY <1>4, <1>5, <1>6, <1>7, <1>8, <1>9 DEF Faithful
LEMMA FaithfulInit == Init => Faithful
<1> SUFFICES ASSUME Init PROVE Faithful
  OBVIOUS
<1>1. PICK old \in [Msgs -> Dbs \union {"null"}] :
        /\ rows = [d \in Dbs |-> [m \in Msgs |-> IF old[m] = d THEN Unread ELSE Absent]]
        /\ acked = {p \in Dbs \X Msgs : old[p[2]] = p[1]}
  BY DEF Init
<1>2. \A p \in acked : rows[p[1]][p[2]].copies > 0
  BY <1>1 DEF Unread
<1> QED BY <1>2 DEF Init, Faithful, Inserting, InBatch, NoCall

LEMMA FaithfulRequest ==
  ASSUME TypeOK, TypeOK', Control, Once, Known, Faithful, NEW c \in Clients, NEW k \in Kinds,
         NEW t \in Tables, NEW S \in SUBSET Msgs, Request(c, k, t, S)
  PROVE  Faithful'
<1>1. /\ msgs' = [msgs EXCEPT ![c] = S] /\ kind' = [kind EXCEPT ![c] = k]
      /\ pc' = [pc EXCEPT ![c] = IF k = "version" THEN "owner" ELSE "check"]
      /\ pc[c] = "idle" /\ put' = put
      /\ k \in {"insert", "batch"} => S \intersect sent = {}
      /\ batches' = IF k = "batch" THEN batches \union {S} ELSE batches
      /\ UNCHANGED <<rows, open, store, acked, marked, gone>>
  BY DEF Request, Goto, data, handles, progress
<1>2. ToldOf' = ToldOf /\ Seen' = Seen /\ ToldOf \subseteq sent
  BY <1>1 DEF ToldOf, Seen, Stored, Deleted, Known
<1>3. \A b \in Clients : InBatch(b)' <=> InBatch(b)
  BY <1>1 DEF InBatch, TypeOK
<1>4. \A b \in Clients : b # c => msgs'[b] = msgs[b] /\ kind'[b] = kind[b] /\ pc'[b] = pc[b]
  BY <1>1 DEF TypeOK
<1>5. msgs'[c] = S /\ kind'[c] = k
  BY <1>1 DEF TypeOK
<1>6. ASSUME NEW b \in Clients, Inserting(b)', pc'[b] \in BeforeEnd
      PROVE  msgs'[b] \intersect ToldOf' = {}
  <2>1. CASE b = c
    BY <1>1, <1>2, <1>5, <1>6, <2>1 DEF Inserting
  <2>2. CASE b # c
    BY <1>2, <1>4, <1>6, <2>2 DEF Faithful, Inserting
  <2> QED BY <2>1, <2>2
<1>7. ASSUME NEW b \in Clients, InBatch(b)' PROVE Revertible(b)'
  <2>1. b # c /\ InBatch(b)
    BY <1>1, <1>3, <1>7 DEF InBatch
  <2>2. Revertible(b)
    BY <2>1 DEF Faithful
  <2> QED BY <1>1, <1>4, <2>1, <2>2 DEF Revertible
<1>8. ASSUME NEW B \in batches PROVE Settled(B)' \/ \E b \in Clients : InBatch(b)' /\ msgs'[b] = B
  <2>1. CASE Settled(B)
    BY <1>2, <2>1 DEF Settled
  <2>2. ASSUME NEW b \in Clients, InBatch(b), msgs[b] = B
        PROVE  InBatch(b)' /\ msgs'[b] = B
    <3>1. b # c
      BY <1>1, <2>2 DEF InBatch
    <3> QED BY <1>3, <1>4, <2>2, <3>1
  <2> QED BY <2>1, <2>2 DEF Faithful
<1>9. k = "batch" => Settled(S)'
  <2>1. ASSUME NEW m \in Stored PROVE m \in sent
    <3>1. PICK d \in Dbs : rows[d][m].copies > 0
      BY DEF Stored
    <3> QED BY <3>1, HeldType DEF Stored, Once, OnceRows
  <2>2. Deleted \subseteq ToldOf
    BY DEF Deleted, ToldOf
  <2>3. k = "batch" => S \intersect Seen = {}
    BY <1>1, <1>2, <2>1, <2>2 DEF Seen
  <2> QED BY <1>2, <2>3 DEF Settled
<1> QED BY <1>1, <1>3, <1>6, <1>7, <1>8, <1>9 DEF Faithful

(* The four kinds of single statement.                                     *)
LEMMA FaithfulStatement ==
  ASSUME TypeOK, Control, Once, Known, Faithful, NEW c \in Clients, pc[c] = "run", kind[c] # "batch",
         NEW m \in msgs[c], Statement(c, m, "ok"),
         UNCHANGED <<open, batches, msgs, kind, store>>, pc' = [pc EXCEPT ![c] = "return"]
  PROVE  Faithful'
<1> DEFINE db == Target(c)
           pair == <<db, m>>
<1>1. db \in Dbs /\ rows' = [rows EXCEPT ![db] = Changed(c, @, m)]
      /\ put' = [put EXCEPT ![c] = @ \union {<<db, m>>}] /\ Told(c, db, m) /\ m \in Msgs
  BY DEF Statement, Target, TypeOK, Dbs
<1>2. kind[c] # "markRead" => \A b \in Clients : ~InBatch(b)
  <2>1. kind[c] # "markRead" => c \in lock
    BY DEF Control, LockAt, Locked
  <2> QED BY <2>1, OneBatch DEF InBatch
<1>3. open[db] = <<>> => \A b \in Clients : ~InBatch(b) \/ kind[c] # "markRead"
  <2>1. kind[c] = "markRead" => db = store
    BY DEF Control, KindAt, Target
  <2> QED BY <2>1, BatchOpen
<1>4. db = Target(c)
  OBVIOUS
<1>5. put' = [put EXCEPT ![c] = put'[c]]
  BY <1>1 DEF TypeOK
<1> HIDE DEF db
<1>6. ASSUME NEW d \in Dbs, NEW n \in Msgs, d # db \/ n # m PROVE rows'[d][n] = rows[d][n]
  <2>1. rows[db] \in Contents
    BY <1>1 DEF TypeOK
  <2>2. n # m => Changed(c, rows[db], m)[n] = rows[db][n]
    BY <2>1 DEF Changed, Inserted, Removed, Marked, Contents
  <2> QED BY <1>1, <1>6, <2>2 DEF TypeOK
<1>7. rows'[db][m] = Changed(c, rows[db], m)[m] /\ rows[db] \in Contents
  BY <1>1 DEF TypeOK
<1>8. rows[db][m].copies > 0 /\ (\A b \in Clients : ~InBatch(b)) =>
        \A b \in Clients : Inserting(b) /\ pc[b] \in BeforeEnd => m \notin msgs[b]
  BY <1>1, PresentNotComing
<1>9. kind[c] \in {"insert", "update", "delete", "markRead"}
  BY DEF Control, KindAt, TypeOK, Kinds
<1>10. /\ pair \in acked => rows[db][m].copies > 0
       /\ pair \in marked => rows[db][m].read
       /\ pair \in gone => rows[db][m].copies = 0
       /\ rows[db][m].read => rows[db][m].copies > 0
  <2>1. rows[db] \in Held(db)
    BY <1>1, HeldType
  <2> QED BY <1>1, <2>1 DEF Faithful, Once, OnceRows
<1>11. CASE kind[c] = "insert"
  <2>1. rows'[db][m].copies > 0
    <3>1. Changed(c, rows[db], m) = Inserted(rows[db], m)
      BY <1>11 DEF Changed, Inserting
    <3> QED BY <1>1, <1>7, <3>1 DEF Inserted, Contents
  <2>2. acked' = acked \union {pair} /\ marked' = marked /\ gone' = gone
    BY <1>1, <1>11 DEF Told
  <2>3. m \notin ToldOf /\ \A b \in Clients \ {c} : Inserting(b) => m \notin msgs[b]
    BY <1>11 DEF Faithful, Once, Disjoint, Inserting, BeforeEnd, Writing, Locked
  <2>4. pair \notin marked /\ pair \notin gone
    BY <2>3 DEF ToldOf
  <2>5. ~\E B \in batches : m \in B
    BY <1>11 DEF Known
  <2> QED BY <1>1, <1>2, <1>5, <1>6, <1>11, <2>1, <2>2, <2>3, <2>4, <2>5, SingleStatement
<1>12. CASE kind[c] \in {"update", "markRead"}
  <2>1. rows'[db][m].copies = rows[db][m].copies /\ rows'[db][m].read = (rows[db][m].copies > 0)
    <3>1. Changed(c, rows[db], m) = Marked(rows[db], m)
      BY <1>12 DEF Changed, Inserting
    <3> DEFINE n == rows[db][m].copies
    <3>2. rows'[db][m] = [copies |-> n, read |-> n > 0]
      BY <1>1, <1>7, <3>1 DEF Marked, Contents
    <3> HIDE DEF n
    <3>3. rows'[db][m].copies = n /\ rows'[db][m].read = (n > 0)
      BY <3>2
    <3> QED BY <3>3 DEF n
  <2>2. acked' = acked /\ gone' = gone
        /\ \/ marked' = marked
           \/ /\ marked' = marked \union {pair} /\ rows[db][m].copies > 0
              /\ kind[c] = "markRead" => open[db] = <<>>
    <3>1. acked' = acked /\ gone' = gone
      BY <1>1, <1>12 DEF Told
    <3>2. CASE /\ rows[db][m].copies > 0
               /\ kind[c] = "markRead" => open[db] = <<>>
      <4>1. marked' = marked \union {pair}
        BY <1>1, <1>12, <3>2 DEF Told
      <4> QED BY <3>1, <3>2, <4>1
    <3>3. CASE ~(rows[db][m].copies > 0)
      <4>1. marked' = marked
        BY <1>1, <1>12, <3>3 DEF Told
      <4> QED BY <3>1, <4>1
    <3>4. CASE kind[c] = "markRead" /\ open[db] # <<>>
      <4>1. marked' = marked
        BY <1>1, <1>12, <3>4 DEF Told
      <4> QED BY <3>1, <4>1
    <3> QED BY <3>2, <3>3, <3>4
  <2>3. \/ marked' = marked
        \/ rows[db][m].copies > 0 /\ \A b \in Clients : ~InBatch(b)
    BY <1>2, <1>3, <2>2
  <2>4. Seen' = Seen
    <3>1. \A d \in Dbs, n \in Msgs : rows'[d][n].copies = rows[d][n].copies
      BY <1>6, <2>1
    <3> QED BY <2>2, <3>1 DEF Seen, Stored, Deleted
  <2>5. m \in ToldOf' \ ToldOf =>
          \A b \in Clients \ {c} : Inserting(b) /\ pc[b] \in BeforeEnd => m \notin msgs[b]
    <3>1. marked' = marked => ToldOf' = ToldOf
      BY <2>2 DEF ToldOf
    <3> QED BY <1>8, <2>3, <3>1
  <2>6. /\ pair \in acked' => rows'[db][m].copies > 0
        /\ pair \in marked' => rows'[db][m].read
        /\ pair \in gone' => rows'[db][m].copies = 0
    BY <1>10, <2>1, <2>2
  <2>7. /\ acked' \subseteq acked \union {pair} /\ marked' \subseteq marked \union {pair}
        /\ gone \subseteq gone' /\ gone' \subseteq gone \union {pair}
    BY <2>2
  <2>8. \A b \in Clients : InBatch(b) => /\ rows'[db][m].copies = rows[db][m].copies
                                         /\ marked' = marked
    BY <2>1, <2>3
  <2> QED BY <1>1, <1>5, <1>6, <2>4, <2>5, <2>6, <2>7, <2>8, SingleStatement
<1>13. CASE kind[c] = "delete"
  <2>1. rows'[db][m] = Absent
    BY <1>1, <1>7, <1>13 DEF Changed, Inserting, Removed, Contents
  <2>2. /\ acked' = acked \ {pair} /\ marked' = marked \ {pair}
        /\ gone' = IF rows[db][m].copies > 0 THEN gone \union {pair} ELSE gone
    BY <1>1, <1>13 DEF Told
  <2>3. ASSUME NEW n \in Msgs PROVE n \in Seen' <=> n \in Seen
    <3>1. CASE n # m
      BY <1>6, <2>2, <3>1 DEF Seen, Stored, Deleted
    <3>2. CASE n = m /\ rows[db][m].copies > 0
      <4>1. pair \in gone' /\ pair[2] = m
        BY <2>2, <3>2
      <4>2. m \in Deleted'
        BY <4>1 DEF Deleted
      <4>3. m \in Stored
        BY <1>1, <3>2 DEF Stored
      <4> QED BY <3>2, <4>2, <4>3 DEF Seen
    <3>3. CASE n = m /\ ~(rows[db][m].copies > 0)
      <4>1. \A d \in Dbs : rows'[d][m].copies > 0 <=> rows[d][m].copies > 0
        BY <1>1, <1>6, <2>1, <3>3 DEF Absent
      <4> QED BY <2>2, <3>3, <4>1 DEF Seen, Stored, Deleted
    <3> QED BY <3>1, <3>2, <3>3
  <2>4. m \in ToldOf' \ ToldOf =>
          \A b \in Clients \ {c} : Inserting(b) /\ pc[b] \in BeforeEnd => m \notin msgs[b]
    <3>1. ~(rows[db][m].copies > 0) => ToldOf' \subseteq ToldOf
      BY <2>2 DEF ToldOf
    <3> QED BY <1>2, <1>8, <1>13, <3>1
  <2>5. rows'[db][m].copies = 0 /\ pair \notin acked' /\ pair \notin marked'
    BY <2>1, <2>2 DEF Absent
  <2>6. /\ acked' \subseteq acked \union {pair} /\ marked' \subseteq marked \union {pair}
        /\ gone \subseteq gone' /\ gone' \subseteq gone \union {pair}
    BY <2>2
  <2>7. \A b \in Clients : ~InBatch(b)
    BY <1>2, <1>13
  <2>8. (\E B \in batches : m \in B) => (m \in Seen' <=> m \in Seen)
    BY <1>1, <2>3
  <2> QED BY <1>1, <1>5, <1>6, <2>4, <2>5, <2>6, <2>7, <2>8, SingleStatement
<1> QED BY <1>9, <1>11, <1>12, <1>13
LEMMA FaithfulStep ==
  ASSUME TypeOK, TypeOK', Control, Once, Known, Faithful, spoiled' = {}, Next
  PROVE  Faithful'
<1> USE DEF BeforeEnd, Writing, Locked
<1>1. ASSUME NEW c \in Clients, NEW k \in Kinds, NEW t \in Tables, NEW S \in SUBSET Msgs,
             Request(c, k, t, S)
      PROVE  Faithful'
  BY <1>1, FaithfulRequest
<1>2. ASSUME NEW c \in Clients, FindVersionAbility(c) PROVE Faithful'
  <2>1. UNCHANGED <<rows, open, acked, marked, gone, batches, store>> /\ ~InBatch(c)
    BY <1>2 DEF FindVersionAbility, data, handles, history, InBatch
  <2>2. \A b \in Clients : AsIs(b)
    <3>1. CASE End(c)
      BY <2>1, <3>1, AsIsEnd
    <3>2. CASE Goto(c, "create") /\ UNCHANGED <<msgs, kind, put>>
      BY <1>2, <3>2, AsIsMove DEF FindVersionAbility
    <3> QED BY <1>2, <3>1, <3>2 DEF FindVersionAbility, TakeVersion, call, progress
  <2> QED BY <2>1, <2>2, Steady
<1>3. ASSUME NEW c \in Clients, LockVersion(c) PROVE Faithful'
  <2>1. UNCHANGED <<rows, open, acked, marked, gone, batches, store>> /\ ~InBatch(c)
    BY <1>3 DEF LockVersion, data, handles, history, InBatch
  <2>2. \A b \in Clients : AsIs(b)
    <3>1. CASE End(c)
      BY <2>1, <3>1, AsIsEnd
    <3>2. CASE Goto(c, "reset") /\ UNCHANGED <<msgs, kind, put>>
      BY <1>3, <3>2, AsIsMove DEF LockVersion
    <3> QED BY <1>3, <3>1, <3>2 DEF LockVersion, TakeVersion, call, progress
  <2> QED BY <2>1, <2>2, Steady
<1>4. ASSUME NEW c \in Clients, CreateVersionAbility(c) PROVE Faithful'
  <2>1. UNCHANGED <<rows, open, acked, marked, gone, batches, store>> /\ ~InBatch(c) /\ End(c)
    BY <1>4 DEF CreateVersionAbility, TakeVersion, data, handles, history, InBatch
  <2> QED BY <2>1, AsIsEnd, Steady
<1>5. ASSUME NEW c \in Clients, Check(c) PROVE Faithful'
  <2>1. UNCHANGED <<rows, open, acked, marked, gone, batches, msgs, kind, put>> /\ pc[c] = "check"
    BY <1>5 DEF Check, data, history, call
  <2>2. store' = store \/ \A d \in Dbs : open[d] = <<>>
    BY <1>5 DEF Check, handles, Control
  <2>3. PICK place \in {"return", "run", "lock"} :
          Goto(c, place) /\ (place = "run" => kind[c] = "markRead")
    BY <1>5 DEF Check
  <2>4. \A b \in Clients : AsIs(b)
    BY <2>1, <2>3, AsIsMove
  <2> QED BY <2>1, <2>2, <2>4, Steady
<1>6. ASSUME NEW c \in Clients, TakeLock(c) PROVE Faithful'
  <2>1. UNCHANGED <<rows, open, acked, marked, gone, batches, msgs, kind, put, store>>
        /\ pc[c] = "lock"
    BY <1>6 DEF TakeLock, HoldsLock, data, handles, history, call, progress
  <2>3. PICK place \in {"begin", "run"} : Goto(c, place) /\ (place = "run" => kind[c] # "batch")
    BY <1>6 DEF TakeLock
  <2>4. \A b \in Clients : AsIs(b)
    BY <2>1, <2>3, AsIsMove
  <2> QED BY <2>1, <2>4, Steady
<1>7. ASSUME NEW c \in Clients, Begin(c) PROVE Faithful'
  <2>1. UNCHANGED <<rows, acked, marked, gone, batches, msgs, kind, put, store>>
        /\ pc[c] = "begin" /\ kind[c] = "batch"
    BY <1>7 DEF Begin, handles, history, call, Control, KindAt
  <2>2. CASE open' = [open EXCEPT ![store] = <<rows[store]>> \o @] /\ Goto(c, "run")
    BY <2>1, <2>2, Beginning DEF Goto
  <2>3. CASE open' = open /\ Goto(c, "return")
    <3>1. \A b \in Clients : AsIs(b)
      BY <2>1, <2>3, AsIsMove
    <3> QED BY <2>1, <2>3, <3>1, Steady
  <2> QED BY <1>7, <2>2, <2>3 DEF Begin
<1>8. ASSUME NEW c \in Clients, RollBack(c) PROVE Faithful'
  <2>1. UNCHANGED <<acked, marked, gone, batches, msgs, kind, put, store>> /\ Goto(c, "return")
        /\ InBatch(c)
    BY <1>8 DEF RollBack, handles, call, progress, Control, KindAt, InBatch
  <2>2. open[store] # <<>> /\ Len(open[store]) = 1 /\ store \in Dbs
        /\ (\A d \in Dbs : d # store => open[d] = <<>>) /\ (\A b \in Clients : InBatch(b) => b = c)
    BY <2>1, BatchOpen DEF Revertible
  <2>3. rows' = [rows EXCEPT ![store] = Head(open[store])] /\ open' = [open EXCEPT ![store] = Tail(@)]
    BY <1>8, <2>2 DEF RollBack
  <2>4. Head(open[store]) = open[store][1] /\ Tail(open[store]) = <<>>
    <3> DEFINE s == open[store]
    <3>1. s \in Seq(Contents) /\ Tail(s) \in Seq(Contents) /\ Len(Tail(s)) = 0 /\ Head(s) = s[1]
      BY <2>2, Popped DEF TypeOK
    <3> HIDE DEF s
    <3>2. \A t \in Seq(Contents) : Len(t) = 0 => t = <<>>
      OBVIOUS
    <3> QED BY <3>1, <3>2 DEF s
  <2>5. \A d \in Dbs : rows'[d] = (IF d = store THEN open[store][1] ELSE rows[d]) /\ open'[d] = <<>>
    BY <2>2, <2>3, <2>4 DEF TypeOK
  <2>6. \A b \in Clients : ~InBatch(b)'
    BY <2>1, <2>2 DEF InBatch, Goto, TypeOK
  <2>7. \A b \in Clients : msgs'[b] = msgs[b] /\ kind'[b] = kind[b]
                           /\ (pc'[b] \in BeforeEnd => pc[b] \in BeforeEnd)
    BY <2>1 DEF Goto, TypeOK
  <2> QED BY <2>1, <2>5, <2>6, <2>7, Reverting
<1>9. ASSUME NEW c \in Clients, NEW code \in Codes, Run(c, code) PROVE Faithful'
  <2>1. PICK m \in msgs[c] : Statement(c, m, code)
    BY <1>9 DEF Run
  <2>2. UNCHANGED <<open, msgs, kind, batches, store>> /\ pc[c] = "run" /\ kind[c] # "batch"
    BY <1>9 DEF Run, call, handles
  <2>3. CASE code # "ok"
    <3>1. UNCHANGED <<rows, put, acked, marked, gone>>
      BY <2>1, <2>3 DEF Statement
    <3>2. PICK place \in {"sleep", "return"} : Goto(c, place)
      BY <1>9 DEF Run
    <3>3. \A b \in Clients : AsIs(b)
      BY <2>2, <3>1, <3>2, AsIsMove
    <3> QED BY <2>2, <3>1, <3>3, Steady
  <2>4. CASE code = "ok"
    <3>1. pc' = [pc EXCEPT ![c] = "return"]
      BY <1>9, <2>4 DEF Run, IsRetryable, Goto
    <3> QED BY <2>1, <2>2, <2>4, <3>1, FaithfulStatement
  <2> QED BY <2>3, <2>4
<1>10. ASSUME NEW c \in Clients, NEW code \in Codes, InsertNext(c, code) PROVE Faithful'
  <2>1. PICK m \in Pending(c) : Statement(c, m, code)
    BY <1>10 DEF InsertNext
  <2>2. UNCHANGED <<open, msgs, kind, batches, store>> /\ pc[c] = "run" /\ kind[c] = "batch"
        /\ InBatch(c)
    BY <1>10 DEF InsertNext, call, handles, InBatch
  <2>3. CASE code # "ok"
    <3>1. UNCHANGED <<rows, put, acked, marked, gone>>
      BY <2>1, <2>3 DEF Statement
    <3>2. Goto(c, "rollback")
      BY <1>10, <2>3 DEF InsertNext, OnFailure
    <3>3. \A b \in Clients : AsIs(b)
      BY <2>2, <3>1, <3>2, AsIsMove
    <3> QED BY <2>2, <3>1, <3>3, Steady
  <2>4. CASE code = "ok"
    <3>1. Target(c) = store
      BY <2>2 DEF Target, Control, KindAt
    <3>2. rows' = [rows EXCEPT ![store] = Changed(c, @, m)]
          /\ put' = [put EXCEPT ![c] = @ \union {<<store, m>>}]
          /\ UNCHANGED <<acked, marked, gone>>
      BY <2>1, <2>2, <2>4, <3>1 DEF Statement, Told
    <3>3. Changed(c, rows[store], m) = Inserted(rows[store], m)
      BY <2>2, ChangedInserting DEF Inserting
    <3>4. rows' = [rows EXCEPT ![store] = Inserted(@, m)]
      BY <3>2, <3>3
    <3>5. pc' = pc
      BY <1>10, <2>2, <2>4 DEF InsertNext, Goto, TypeOK
    <3> QED BY <2>1, <2>2, <3>2, <3>4, <3>5, BatchInserting
  <2> QED BY <2>3, <2>4
<1>11. ASSUME NEW c \in Clients, NEW code \in Codes, Commit(c, code) PROVE Faithful'
  <2>1. UNCHANGED <<rows, marked, gone, batches, msgs, kind, put, store>> /\ Pending(c) = {}
        /\ InBatch(c) /\ pc[c] = "run"
    BY <1>11 DEF Commit, call, handles, InBatch
  <2>2. open[store] # <<>>
    BY <2>1, BatchOpen
  <2>3. CASE code = "ok"
    <3>1. open' = [open EXCEPT ![store] = Tail(@)] /\ acked' = acked \union put[c]
          /\ Goto(c, "return")
      BY <1>11, <2>2, <2>3 DEF Commit
    <3> QED BY <2>1, <3>1, Committing DEF Goto
  <2>4. CASE code # "ok"
    <3>1. UNCHANGED <<open, acked>> /\ Goto(c, "rollback")
      BY <1>11, <2>4 DEF Commit, OnFailure
    <3>2. \A b \in Clients : AsIs(b)
      BY <2>1, <3>1, AsIsMove
    <3> QED BY <2>1, <3>1, <3>2, Steady
  <2> QED BY <2>3, <2>4
<1>12. ASSUME NEW c \in Clients, Wake(c) PROVE Faithful'
  <2>1. UNCHANGED <<rows, open, acked, marked, gone, batches, msgs, kind, put, store>>
        /\ pc[c] = "sleep" /\ Goto(c, "run") /\ kind[c] # "batch"
    BY <1>12 DEF Wake, data, handles, history, call, progress, Control, KindAt
  <2>2. \A b \in Clients : AsIs(b)
    BY <2>1, AsIsMove
  <2> QED BY <2>1, <2>2, Steady
<1>13. ASSUME NEW c \in Clients, Return(c) \/ NotifyChange(c) PROVE Faithful'
  <2>1. UNCHANGED <<rows, open, acked, marked, gone, batches, store>> /\ ~InBatch(c)
    BY <1>13 DEF Return, NotifyChange, data, handles, history, InBatch
  <2>2. \A b \in Clients : AsIs(b)
    <3>1. CASE End(c)
      BY <2>1, <3>1, AsIsEnd
    <3>2. CASE Goto(c, "notify") /\ UNCHANGED <<msgs, kind, put>>
      BY <2>1, <3>2, AsIsMove DEF InBatch
    <3> QED BY <1>13, <3>1, <3>2 DEF Return, NotifyChange, call, progress
  <2> QED BY <2>1, <2>2, Steady
<1>14. ASSUME ChangeRdbStoreToEl2 PROVE Faithful'
  <2>1. UNCHANGED <<rows, open, acked, marked, gone, batches, msgs, kind, put, pc>>
    BY <1>14 DEF ChangeRdbStoreToEl2, data, call, progress
  <2>2. \A d \in Dbs : open[d] = <<>>
    <3>1. open["lt"] = <<>>
      BY <1>14 DEF ChangeRdbStoreToEl2
    <3> QED BY <1>14, <3>1 DEF ChangeRdbStoreToEl2, Faithful
  <2>3. \A b \in Clients : AsIs(b)
    BY <2>1 DEF AsIs, InBatch
  <2> QED BY <2>1, <2>2, <2>3, Steady
<1>15. ASSUME Crash PROVE Faithful'
  <2>1. UNCHANGED <<acked, marked, gone, batches>>
        /\ \A b \in Clients : kind'[b] = "version" /\ ~InBatch(b)'
    BY <1>15 DEF Crash, history, NoCall, InBatch
  <2>2. CASE \A b \in Clients : ~InBatch(b)
    <3>1. \A d \in Dbs : open[d] = <<>>
      BY <2>2, NoBatch
    <3>2. rows' = rows /\ open' = open
      BY <1>15, <3>1 DEF Crash, Committed, TypeOK
    <3> QED BY <2>1, <2>2, <3>1, <3>2, Steady DEF AsIs
  <2>3. ASSUME NEW c \in Clients, InBatch(c) PROVE Faithful'
    <3>1. open[store] # <<>> /\ Len(open[store]) = 1 /\ store \in Dbs
          /\ (\A d \in Dbs : d # store => open[d] = <<>>)
      BY <2>3, BatchOpen DEF Revertible
    <3>2. \A d \in Dbs : rows'[d] = Committed(d) /\ open'[d] = <<>>
      BY <1>15 DEF Crash
    <3>3. \A d \in Dbs : Committed(d) = IF d = store THEN open[store][1] ELSE rows[d]
      BY <3>1 DEF Committed
    <3>4. \A d \in Dbs : rows'[d] = (IF d = store THEN open[store][1] ELSE rows[d]) /\ open'[d] = <<>>
      BY <3>2, <3>3
    <3> QED BY <2>1, <2>3, <3>4, Reverting
  <2> QED BY <2>2, <2>3
<1> QED
  BY <1>1, <1>2, <1>3, <1>4, <1>5, <1>6, <1>7, <1>8, <1>9, <1>10, <1>11, <1>12, <1>13, <1>14,
     <1>15 DEF Next, Step
-----------------------------------------------------------------------------
(* Announcements.                                                          *)
LEMMA AnnouncedInit == Init => Announced
  BY DEF Init, Announced

LEMMA AnnouncedEnd ==
  ASSUME TypeOK, Announced, NEW c \in Clients, End(c)
  PROVE  Announced'
BY DEF End, Goto, Answer, TypeOK, Announced

(* A call moves on to a place where nothing is asked of its result.        *)
LEMMA AnnouncedMove ==
  ASSUME TypeOK, Announced, NEW c \in Clients, NEW place, Goto(c, place),
         place \notin {"rollback", "return"}, UNCHANGED kind,
         \A b \in Clients \ {c} : result'[b] = result[b] /\ put'[b] = put[b]
  PROVE  Announced'
BY DEF Goto, TypeOK, Announced

(* A call returns having changed nothing, or rows that it will announce.   *)
LEMMA AnnouncedReturn ==
  ASSUME TypeOK, Announced, NEW c \in Clients, NEW place \in {"return", "rollback"}, Goto(c, place),
         UNCHANGED kind,
         \A b \in Clients \ {c} : result'[b] = result[b] /\ put'[b] = put[b],
         \/ put'[c] = {} /\ place = "return"
         \/ result'[c] \in {"retryable", "fatal", "denied", "ok"} /\ kind[c] # "insert"
         \/ result'[c] = "ok"
  PROVE  Announced'
BY DEF Goto, TypeOK, Announced

LEMMA AnnouncedStep ==
  ASSUME TypeOK, TypeOK', Control, Once, Announced, Next
  PROVE  Announced'
<1>1. ASSUME NEW c \in Clients, NEW k \in Kinds, NEW t \in Tables, NEW S \in SUBSET Msgs,
             Request(c, k, t, S)
      PROVE  Announced'
  BY <1>1 DEF Request, Goto, progress, TypeOK, Announced
<1>2. ASSUME NEW c \in Clients, FindVersionAbility(c) PROVE Announced'
  <2>1. CASE End(c)
    BY <2>1, AnnouncedEnd
  <2>2. CASE Goto(c, "create") /\ UNCHANGED <<kind, put, result>>
    BY <2>2, AnnouncedMove
  <2> QED BY <1>2, <2>1, <2>2 DEF FindVersionAbility, TakeVersion, call, progress
<1>3. ASSUME NEW c \in Clients, LockVersion(c) PROVE Announced'
  <2>1. CASE End(c)
    BY <2>1, AnnouncedEnd
  <2>2. CASE Goto(c, "reset") /\ UNCHANGED <<kind, put, result>>
    BY <2>2, AnnouncedMove
  <2> QED BY <1>3, <2>1, <2>2 DEF LockVersion, TakeVersion, call, progress
<1>4. ASSUME NEW c \in Clients, CreateVersionAbility(c) PROVE Announced'
  BY <1>4, AnnouncedEnd DEF CreateVersionAbility, TakeVersion
<1>5. ASSUME NEW c \in Clients, Check(c) PROVE Announced'
  <2>1. PICK place \in {"return", "run", "lock"} : Goto(c, place)
    BY <1>5 DEF Check
  <2>2. UNCHANGED <<kind, put>> /\ put[c] = {}
        /\ \A b \in Clients \ {c} : result'[b] = result[b]
    BY <1>5 DEF Check, call, Answer, TypeOK, Once, OnceCall, Empty
  <2> QED BY <2>1, <2>2, AnnouncedMove, AnnouncedReturn
<1>6. ASSUME NEW c \in Clients, TakeLock(c) PROVE Announced'
  <2>1. PICK place \in {"begin", "run"} : Goto(c, place)
    BY <1>6 DEF TakeLock
  <2> QED BY <1>6, <2>1, AnnouncedMove DEF TakeLock, call, progress
<1>7. ASSUME NEW c \in Clients, Begin(c) PROVE Announced'
  <2>1. PICK place \in {"return", "run"} : Goto(c, place)
    BY <1>7 DEF Begin
  <2>2. UNCHANGED <<kind, put>> /\ put[c] = {}
        /\ \A b \in Clients \ {c} : result'[b] = result[b]
    BY <1>7 DEF Begin, call, Answer, TypeOK, Once, OnceCall, Empty
  <2> QED BY <2>1, <2>2, AnnouncedMove, AnnouncedReturn
<1>8. ASSUME NEW c \in Clients, RollBack(c) PROVE Announced'
  <2>1. Goto(c, "return") /\ UNCHANGED <<kind, put, result>> /\ kind[c] = "batch"
        /\ pc[c] = "rollback"
    BY <1>8 DEF RollBack, call, progress, Control, KindAt
  <2>2. result'[c] \in {"retryable", "fatal", "denied", "ok"}
    BY <2>1 DEF Announced, TypeOK, Codes
  <2> QED BY <2>1, <2>2, AnnouncedReturn
<1>9. ASSUME NEW c \in Clients, NEW code \in Codes, Run(c, code) PROVE Announced'
  <2>1. PICK m \in msgs[c] : Statement(c, m, code)
    BY <1>9 DEF Run
  <2>2. UNCHANGED kind /\ result'[c] = code /\ put[c] = {}
        /\ \A b \in Clients \ {c} : result'[b] = result[b] /\ put'[b] = put[b]
    BY <1>9, <2>1 DEF Run, call, Answer, Statement, TypeOK, Once, OnceCall, Empty
  <2>3. PICK place \in {"sleep", "return"} : Goto(c, place)
    BY <1>9 DEF Run
  <2>4. code # "ok" => put'[c] = {}
    BY <2>1, <2>2 DEF Statement
  <2> QED BY <2>2, <2>3, <2>4, AnnouncedMove, AnnouncedReturn
<1>10. ASSUME NEW c \in Clients, NEW code \in Codes, InsertNext(c, code) PROVE Announced'
  <2>1. PICK m \in Pending(c) : Statement(c, m, code)
    BY <1>10 DEF InsertNext
  <2>2. UNCHANGED kind /\ kind[c] = "batch" /\ (code # "ok" => result'[c] = code)
        /\ \A b \in Clients \ {c} : result'[b] = result[b] /\ put'[b] = put[b]
    BY <1>10, <2>1 DEF InsertNext, call, Answer, Statement, TypeOK
  <2>3. CASE code = "ok"
    <3>1. Goto(c, "run")
      BY <1>10, <2>3 DEF InsertNext
    <3> QED BY <2>2, <3>1, AnnouncedMove
  <2>4. CASE code # "ok"
    <3>1. Goto(c, "rollback") /\ result'[c] \in {"retryable", "fatal", "denied", "ok"}
      BY <1>10, <2>1, <2>2, <2>4 DEF InsertNext, OnFailure, Statement
    <3> QED BY <2>2, <3>1, AnnouncedReturn
  <2> QED BY <2>3, <2>4
<1>11. ASSUME NEW c \in Clients, NEW code \in Codes, Commit(c, code) PROVE Announced'
  <2>1. PICK place \in {"rollback", "return"} : Goto(c, place)
    BY <1>11 DEF Commit, OnFailure
  <2>2. UNCHANGED <<kind, put>> /\ kind[c] = "batch"
        /\ result'[c] \in {"retryable", "fatal", "denied", "ok"}
        /\ \A b \in Clients \ {c} : result'[b] = result[b]
    BY <1>11 DEF Commit, call, Answer, TypeOK
  <2> QED BY <2>1, <2>2, AnnouncedReturn
<1>12. ASSUME NEW c \in Clients, Wake(c) PROVE Announced'
  BY <1>12, AnnouncedMove DEF Wake, call, progress
<1>13. ASSUME NEW c \in Clients, Return(c) \/ NotifyChange(c) PROVE Announced'
  <2>1. CASE End(c)
    BY <2>1, AnnouncedEnd
  <2>2. CASE Goto(c, "notify") /\ UNCHANGED <<kind, put, result>>
    BY <2>2, AnnouncedMove
  <2> QED BY <1>13, <2>1, <2>2 DEF Return, NotifyChange, call, progress
<1>14. ASSUME ChangeRdbStoreToEl2 PROVE Announced'
  BY <1>14 DEF ChangeRdbStoreToEl2, call, progress, Announced
<1>15. ASSUME Crash PROVE Announced'
  BY <1>15 DEF Crash, Announced
<1> QED
  BY <1>1, <1>2, <1>3, <1>4, <1>5, <1>6, <1>7, <1>8, <1>9, <1>10, <1>11, <1>12, <1>13, <1>14,
     <1>15 DEF Next, Step

-----------------------------------------------------------------------------
(* The version ability.                                                    *)
LEMMA VersionInit == Init => VersionInv
  BY DEF Init, VersionInv

LEMMA VersionKept ==
  ASSUME VersionInv, UNCHANGED version,
         \A c \in Clients : pc'[c] = "reset" => pc[c] = "reset"
  PROVE  VersionInv'
BY DEF VersionInv, version

LEMMA VersionStep ==
  ASSUME TypeOK, VersionInv, Next
  PROVE  VersionInv'
<1>1. ASSUME NEW c \in Clients, FindVersionAbility(c) PROVE VersionInv'
  <2>1. \A b \in Clients : pc'[b] = "reset" => pc[b] = "reset"
    BY <1>1 DEF FindVersionAbility, TakeVersion, End, Goto, TypeOK
  <2>2. UNCHANGED <<versionAbility, versionMutex>>
        /\ \/ served' = served \union {versionAbility} /\ versionAbility # 0
           \/ served' = served
    BY <1>1 DEF FindVersionAbility, TakeVersion
  <2> QED BY <2>1, <2>2 DEF VersionInv
<1>2. ASSUME NEW c \in Clients, LockVersion(c) PROVE VersionInv'
  <2>1. CASE IsCreated
    <3>1. \A b \in Clients : pc'[b] = "reset" => pc[b] = "reset"
      BY <1>2, <2>1 DEF LockVersion, TakeVersion, End, Goto, TypeOK
    <3> QED BY <1>2, <2>1, <3>1 DEF LockVersion, TakeVersion, IsCreated, VersionInv
  <2>2. CASE ~IsCreated
    <3>1. versionMutex = {} /\ versionAbility = 0 /\ versionMutex' = {c}
          /\ UNCHANGED <<versionAbility, served>>
      BY <1>2, <2>2 DEF LockVersion, IsCreated
    <3>2. \A b \in Clients : pc[b] # "reset"
      BY <3>1 DEF VersionInv
    <3>3. \A b \in Clients : pc'[b] = "reset" => b = c
      BY <1>2, <2>2, <3>2 DEF LockVersion, Goto, TypeOK
    <3> QED BY <3>1, <3>3 DEF VersionInv
  <2> QED BY <2>1, <2>2
<1>3. ASSUME NEW c \in Clients, CreateVersionAbility(c) PROVE VersionInv'
  <2>1. versionMutex = {c} /\ versionAbility = 0 /\ served = {}
    BY <1>3 DEF CreateVersionAbility, VersionInv
  <2>2. versionAbility' = 1 /\ served' = {1}
    BY <1>3, <2>1 DEF CreateVersionAbility, TakeVersion
  <2>3. \A b \in Clients : pc'[b] # "reset"
    <3>1. \A b \in Clients : pc[b] = "reset" => b = c
      BY <2>1 DEF VersionInv
    <3> QED BY <1>3, <3>1 DEF CreateVersionAbility, TakeVersion, End, Goto, TypeOK
  <2> QED BY <2>2, <2>3 DEF VersionInv
<1>4. ASSUME NEW c \in Clients, NEW k \in Kinds, NEW t \in Tables, NEW S \in SUBSET Msgs,
             Request(c, k, t, S)
      PROVE  VersionInv'
  BY <1>4, VersionKept DEF Request, Goto, TypeOK
<1>5. ASSUME NEW c \in Clients, NEW place \in Places \ {"reset"}, Goto(c, place), UNCHANGED version
      PROVE  VersionInv'
  BY <1>5, VersionKept DEF Goto, TypeOK
<1>6. ASSUME NEW c \in Clients, Check(c) \/ TakeLock(c) \/ Begin(c) \/ RollBack(c) \/ Wake(c)
      PROVE  VersionInv'
  <2>1. \E place \in Places \ {"reset"} : Goto(c, place)
    BY <1>6 DEF Check, TakeLock, Begin, RollBack, Wake, Places
  <2>2. UNCHANGED version
    BY <1>6 DEF Check, TakeLock, Begin, RollBack, Wake
  <2> QED BY <1>5, <2>1, <2>2
<1>7. ASSUME NEW c \in Clients, NEW code \in Codes, Run(c, code) \/ InsertNext(c, code) \/ Commit(c, code)
      PROVE  VersionInv'
  <2>1. \E place \in Places \ {"reset"} : Goto(c, place)
    BY <1>7 DEF Run, InsertNext, Commit, OnFailure, Places
  <2>2. UNCHANGED version
    BY <1>7 DEF Run, InsertNext, Commit
  <2> QED BY <1>5, <2>1, <2>2
<1>8. ASSUME NEW c \in Clients, Return(c) \/ NotifyChange(c) PROVE VersionInv'
  <2>1. \E place \in Places \ {"reset"} : Goto(c, place)
    BY <1>8 DEF Return, NotifyChange, End, Places
  <2> QED BY <1>5, <1>8, <2>1 DEF Return, NotifyChange
<1>9. ASSUME ChangeRdbStoreToEl2 PROVE VersionInv'
  BY <1>9, VersionKept DEF ChangeRdbStoreToEl2
<1>10. ASSUME Crash PROVE VersionInv'
  BY <1>10 DEF Crash, VersionInv
<1> QED
  BY <1>1, <1>2, <1>3, <1>4, <1>6, <1>7, <1>8, <1>9, <1>10 DEF Next, Step
-----------------------------------------------------------------------------
(* The invariants hold at the start and every step keeps them; a step      *)
(* never takes a flaw out of spoiled.                                      *)
LEMMA RequestInit == Init => RequestInv
  BY TypeInit, ControlInit, OnceInit, KnownInit, FaithfulInit, AnnouncedInit DEF RequestInv

LEMMA FlawStays == ASSUME Next PROVE spoiled \subseteq spoiled'
<1>1. ASSUME NEW c \in Clients, Step(c) PROVE spoiled \subseteq spoiled'
  BY <1>1
  DEF Step, FindVersionAbility, LockVersion, CreateVersionAbility, Check, TakeLock, Begin, RollBack,
      Run, InsertNext, Commit, Wake, Return, NotifyChange, history
<1> QED BY <1>1 DEF Next, Request, ChangeRdbStoreToEl2, Crash, history

LEMMA RequestStep ==
  ASSUME RequestInv, [Next]_vars
  PROVE  RequestInv'
<1>1. CASE Next
  <2>1. TypeOK' /\ Control'
    BY <1>1, TypeStep, ControlStep DEF RequestInv
  <2>2. Once' /\ Known' /\ Announced'
    BY <1>1, <2>1, OnceStep, KnownStep, AnnouncedStep DEF RequestInv
  <2>3. spoiled' = {} => Faithful'
    <3> SUFFICES ASSUME spoiled' = {} PROVE Faithful'
      OBVIOUS
    <3>1. Faithful
      BY <1>1, FlawStays DEF RequestInv
    <3> QED BY <1>1, <2>1, <3>1, FaithfulStep DEF RequestInv
  <2> QED BY <2>1, <2>2, <2>3 DEF RequestInv
<1>2. CASE UNCHANGED vars
  <2> USE <1>2 DEF vars, data, handles, call, progress, version, history
  <2>1. TypeOK' /\ Control'
    BY DEF RequestInv, TypeOK, Control, KindAt, LockAt, StoreAt
  <2>2. \A c \in Clients : /\ (Inserting(c)' <=> Inserting(c)) /\ Pending(c)' = Pending(c)
                           /\ (Empty(c)' <=> Empty(c)) /\ (InBatch(c)' <=> InBatch(c))
    BY DEF Inserting, Pending, Empty, InBatch
  <2>3. \A b \in Clients : CallKept(b) /\ AsIs(b)
    BY <2>2 DEF CallKept, AsIs
  <2>4. Once'
    BY <2>1, <2>3, HeldSame, FewerNotMore, OnceKept DEF RequestInv
  <2>5. Known'
    BY KnownKept DEF RequestInv, ToldOf
  <2>6. Faithful => Faithful'
    BY <2>3, Steady DEF RequestInv
  <2>7. Announced'
    BY DEF RequestInv, Announced
  <2> QED BY <2>1, <2>4, <2>5, <2>6, <2>7 DEF RequestInv
<1> QED BY <1>1, <1>2

(* Where calls stand, what they have changed, what batches may roll back   *)
(* and what was told agree, in every state.                                *)
THEOREM RequestInvariant == Spec => []RequestInv
<1>1. Init => RequestInv
  BY RequestInit
<1>2. RequestInv /\ [Next]_vars => RequestInv'
  BY RequestStep
<1> QED BY <1>1, <1>2, PTL DEF Spec

(* Everything has its type.                                                *)
THEOREM TypeCorrect == Spec => []TypeOK
<1>1. RequestInv => TypeOK
  BY DEF RequestInv
<1> QED BY <1>1, RequestInvariant, PTL

(* What was reported inserted, marked read or deleted stays so, through    *)
(* roll-backs of other calls, the unlock and crashes, unless a batch left  *)
(* its transaction open.                                                   *)
THEOREM ToldHolds == Spec => []NothingUndone
<1>1. RequestInv => NothingUndone
  BY DEF RequestInv, Faithful, NothingUndone
<1> QED BY <1>1, RequestInvariant, PTL

(* BatchInsert is all or nothing: under the same proviso, a batch that is  *)
(* no longer under way has inserted all of its rows or none.               *)
THEOREM BatchInsertIsAtomic == Spec => []BatchAtomic
<1>1. RequestInv => BatchAtomic
  <2> SUFFICES ASSUME TypeOK, Faithful, NEW B \in batches,
                      ~\E c \in Clients : pc[c] # "idle" /\ kind[c] = "batch" /\ msgs[c] = B
               PROVE  Settled(B)
    BY DEF RequestInv, BatchAtomic, Settled, Seen
  <2>1. \A c \in Clients : ~(InBatch(c) /\ msgs[c] = B)
    BY DEF InBatch
  <2> QED BY <2>1 DEF Faithful
<1> QED BY <1>1, RequestInvariant, PTL

(* No retry of InsertRetry and no batch inserts what is there: no row is   *)
(* ever there twice, in one file or in both.                               *)
THEOREM RetryInsertsOnce == Spec => []InsertedOnce
<1>1. RequestInv => InsertedOnce
  <2> SUFFICES ASSUME TypeOK, OnceRows, NEW m \in Msgs
               PROVE  /\ \A d \in Dbs : rows[d][m].copies <= 1
                      /\ rows["lt"][m].copies = 0 \/ rows["el2"][m].copies = 0
    BY DEF RequestInv, Once, InsertedOnce
  <2>1. \A d \in Dbs : rows[d] \in Held(d) /\ rows[d][m].copies \in Nat
    BY HeldType DEF Contents
  <2>2. \A d \in Dbs : rows[d][m].copies <= 1
    BY <2>1 DEF OnceRows
  <2>3. \A d, e \in Dbs : rows[d][m].copies > 0 /\ rows[e][m].copies > 0 => d = e
    BY <2>1 DEF OnceRows
  <2>4. rows["lt"][m].copies = 0 \/ rows["el2"][m].copies = 0
    <3>1. "lt" \in Dbs /\ "el2" \in Dbs /\ "lt" # "el2"
      BY DEF Dbs
    <3>2. ~(rows["lt"][m].copies > 0 /\ rows["el2"][m].copies > 0)
      BY <2>3, <3>1
    <3> QED BY <2>1, <3>1, <3>2
  <2> QED BY <2>2, <2>4
<1> QED BY <1>1, RequestInvariant, PTL

(* A transaction is open only while the batch that began it holds lock_,   *)
(* unless a path recorded in spoiled left one behind.                      *)
THEOREM TransactionsEnd == Spec => []TransactionsClosed
<1>1. RequestInv => TransactionsClosed
  <2> SUFFICES ASSUME TypeOK, Control, Faithful, NEW d \in Dbs, open[d] # <<>>
               PROVE  /\ d = store /\ Len(open[d]) = 1
                      /\ \E c \in lock : kind[c] = "batch" /\ pc[c] \in {"run", "rollback"}
    BY DEF RequestInv, TransactionsClosed
  <2>1. PICK c \in Clients : InBatch(c)
    BY DEF Faithful
  <2>2. d = store /\ c \in lock /\ Revertible(c)
    BY <2>1, BatchOpen DEF Faithful
  <2> QED BY <2>1, <2>2 DEF Revertible, InBatch
<1> QED BY <1>1, RequestInvariant, PTL

(* GetOpkeyVersionAbility, whose first test is made without the mutex,     *)
(* gives all calls of a process the same ability.                          *)
THEOREM VersionAbilityIsOne == Spec => []OneVersionAbility
<1>1. Init => VersionInv
  BY VersionInit
<1>2. TypeOK /\ VersionInv /\ [Next]_vars => VersionInv'
  <2>1. UNCHANGED vars /\ VersionInv => VersionInv'
    BY VersionKept DEF vars, version
  <2> QED BY <2>1, VersionStep
<1>3. VersionInv => OneVersionAbility
  BY DEF VersionInv, OneVersionAbility
<1> QED BY <1>1, <1>2, <1>3, TypeCorrect, PTL DEF Spec

(* A call that changed rows ends with an announcement, whatever it returns *)
(* (unless the process dies first).                                        *)
THEOREM ChangesAnnounced == Spec => NoSilentChange
<1> DEFINE Silence == \A c \in Clients :
             pc[c] = "return" /\ pc'[c] = "idle" /\ store' = store => put[c] = {}
<1>1. RequestInv /\ [Next]_vars => [Silence]_vars
  <2> SUFFICES ASSUME TypeOK, Control, Announced, Next, NEW c \in Clients,
                      pc[c] = "return", pc'[c] = "idle", store' = store
               PROVE  put[c] = {}
    BY DEF RequestInv
  <2>1. ASSUME NEW b \in Clients, NEW k \in Kinds, NEW t \in Tables, NEW S \in SUBSET Msgs,
               Request(b, k, t, S)
        PROVE  put[c] = {}
    BY <2>1 DEF Request, Goto, TypeOK
  <2>2. ASSUME NEW b \in Clients, Step(b) PROVE put[c] = {}
    <3>1. CASE b # c
      BY <2>2, <3>1
      DEF Step, FindVersionAbility, LockVersion, CreateVersionAbility, TakeVersion, Check, TakeLock,
          Begin, RollBack, Run, InsertNext, Commit, OnFailure, Wake, Return, NotifyChange, End, Goto,
          TypeOK
    <3>2. CASE b = c
      <4>1. Return(c)
        BY <2>2, <3>2
        DEF Step, FindVersionAbility, LockVersion, CreateVersionAbility, Check, TakeLock, HoldsLock,
            Begin, RollBack, Run, InsertNext, Commit, Wake, NotifyChange
      <4>2. ~Announces(c)
        BY <4>1 DEF Return, Goto, TypeOK
      <4> QED BY <4>2 DEF Announces, Announced
    <3> QED BY <3>1, <3>2
  <2>3. ~ChangeRdbStoreToEl2 /\ ~Crash
    BY DEF ChangeRdbStoreToEl2, Crash
  <2> QED BY <2>1, <2>2, <2>3 DEF Next
<1> QED BY <1>1, RequestInvariant, PTL DEF Spec, NoSilentChange

=============================================================================
