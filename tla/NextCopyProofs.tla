--------------------------- MODULE NextCopyProofs ---------------------------
(***************************************************************************)
(* Proofs about the restore of a backup.                                   *)
(* Shape says what the proofs need of types.  It comes with a lemma on     *)
(* each step, its ...Effect, that says what the step may change; an        *)
(* invariant is then proved from the effects and opens a definition of     *)
(* NextCopy only where it has to know more.  The invariants, each on top   *)
(* of Shape:                                                               *)
(*   SessionInv  which session an old one became, and where its rows are;  *)
(*   GroupInv    from which old group a new one comes;                     *)
(*   KeyInv      what the keys read before a table say of its rows;        *)
(*   DoneInv     what a restore without a failure has copied up to pos;    *)
(*   LinkInv     where an RCS row and its message are found meanwhile,     *)
(*               which needs KeyInv and DoneInv;                           *)
(*   CountInv    what the recounting has still to write;                   *)
(*   DraftInv    where the drafts of the backup are and which is to stay,  *)
(*               which needs SessionInv, KeyInv and DoneInv.               *)
(***************************************************************************)
EXTENDS NextCopy, FiniteSetTheorems, WellFoundedInduction, TLAPS

(* A finite set of numbers that is not empty has a greatest one.           *)
LEMMA GreatestExists ==
  ASSUME NEW S, IsFiniteSet(S), S \subseteq Int, S # {}
  PROVE  \E x \in S : \A y \in S : x >= y
<1> DEFINE Above(x) == {y \in S : y >= x}
           T == {Above(x) : x \in S}
<1>1. T \subseteq FiniteSubsetsOf(S) /\ T # {}
  <2>1. ASSUME NEW x \in S PROVE Above(x) \in FiniteSubsetsOf(S)
    <3>1. Above(x) \in SUBSET S
      OBVIOUS
    <3> HIDE DEF Above
    <3> QED BY <3>1, FS_Subset DEF FiniteSubsetsOf
  <2> HIDE DEF Above
  <2> QED BY <2>1
<1>2. PICK U \in T : \A V \in T : ~(<<V, U>> \in StrictSubsetOrdering(S))
  <2> HIDE DEF T
  <2> QED BY <1>1, WFMin, FS_StrictSubsetOrderingWellFounded, Zenon
<1>3. PICK x \in S : U = Above(x)
  OBVIOUS
<1>4. ASSUME NEW y \in S, ~(x >= y) PROVE FALSE
  <2>0. x \in Int /\ y \in Int /\ y > x
    BY <1>4
  <2>1. x \in Above(x) /\ x \notin Above(y)
    BY <2>0
  <2>2. Above(y) \subseteq Above(x)
    <3> SUFFICES ASSUME NEW z \in S, z >= y PROVE z >= x
      OBVIOUS
    <3> QED BY <2>0
  <2>3. <<Above(y), U>> \in StrictSubsetOrdering(S)
    BY <1>3, <2>1, <2>2 DEF StrictSubsetOrdering
  <2> QED BY <1>2, <2>3
<1> QED BY <1>4

LEMMA MaxIs ==
  ASSUME NEW S, IsFiniteSet(S), S \subseteq Int, S # {}
  PROVE  Max(S) \in S /\ \A y \in S : y <= Max(S)
<1>1. PICK x \in S : \A y \in S : x >= y
  BY GreatestExists
<1>2. Max(S) \in S /\ \A y \in S : Max(S) >= y
  BY <1>1 DEF Max
<1> QED BY <1>2

(* The values of a function on numbers up to n are finitely many.          *)
LEMMA ValuesFinite ==
  ASSUME NEW f, NEW n \in Nat, DOMAIN f \subseteq 1..n
  PROVE  IsFiniteSet(DOMAIN f) /\ IsFiniteSet(Range(f))
<1>1. IsFiniteSet(1..n)
  BY FS_Interval
<1>2. IsFiniteSet(DOMAIN f)
  BY <1>1, FS_Subset
<1>3. [i \in DOMAIN f |-> f[i]] \in Surjection(DOMAIN f, Range(f))
  BY DEF Surjection, Range
<1> QED BY <1>2, <1>3, FS_Surjection

(* The last row of each key has that key.                                  *)
LEMMA LatestIs ==
  ASSUME NEW keys, NEW n \in Nat, DOMAIN keys \subseteq 1..n
  PROVE  /\ DOMAIN Latest(keys) = Range(keys)
         /\ \A k \in Range(keys) : Latest(keys)[k] \in DOMAIN keys /\ keys[Latest(keys)[k]] = k
<1> SUFFICES ASSUME NEW k \in Range(keys)
             PROVE  Latest(keys)[k] \in DOMAIN keys /\ keys[Latest(keys)[k]] = k
  BY DEF Latest
<1> DEFINE S == {i \in DOMAIN keys : keys[i] = k}
<1>1. IsFiniteSet(S) /\ S \subseteq Int /\ S # {}
  <2>1. IsFiniteSet(DOMAIN keys)
    BY ValuesFinite
  <2>2. IsFiniteSet(S)
    BY <2>1, FS_Subset
  <2> QED BY <2>2 DEF Range
<1>2. Max(S) \in S
  <2> HIDE DEF S
  <2> QED BY <1>1, MaxIs
<1> QED BY <1>2 DEF Latest

LEMMA PutIs ==
  ASSUME NEW f, NEW k, NEW v
  PROVE  /\ DOMAIN Put(f, k, v) = DOMAIN f \union {k}
         /\ Put(f, k, v)[k] = v
         /\ \A x \in DOMAIN f : x # k => Put(f, k, v)[x] = f[x]
BY DEF Put

-----------------------------------------------------------------------------
(* The shape of the state.                                                 *)
IsSession(r) ==
  /\ r = [tel |-> r.tel, time |-> r.time, draft |-> r.draft, pin |-> r.pin,
          sending |-> r.sending, unread |-> r.unread, count |-> r.count]
  /\ r.tel \in Tels

IsMessage(r) ==
  /\ r = RowOf(r, r.from, r.run)
  /\ r.group \in Int /\ r.time \in Nat /\ r.from \in Int /\ r.run \in Nat

IsRcsRow(r) ==
  /\ r = [sess |-> r.sess, num |-> r.num, in |-> r.in, time |-> r.time, group |-> r.group,
          read |-> r.read]
  /\ r.group \in Int

MemFields ==
  {"snapSession", "snapSms", "snapRcs", "rawSession", "rcsMsg", "rcsGroup", "timeGroup",
   "maxGroup", "drop", "threads", "newRcs", "mmsFailed", "err"}

MemTyped ==
  /\ DOMAIN mem = MemFields
  /\ mem.maxGroup \in Int /\ mem.mmsFailed \in Nat
  /\ \A k \in DOMAIN mem.rcsGroup : mem.rcsGroup[k] \in Int
  /\ \A k \in DOMAIN mem.timeGroup : mem.timeGroup[k] \in Int

FlawsTyped ==
  /\ flaws = [failed |-> flaws.failed, blind |-> flaws.blind, late |-> flaws.late,
              stale |-> flaws.stale]
  /\ flaws.blind \in BOOLEAN /\ flaws.late \in BOOLEAN

TablesTyped ==
  /\ seq = [session |-> seq.session, sms |-> seq.sms, rcs |-> seq.rcs]
  /\ seq.session \in Nat /\ seq.sms \in Nat /\ seq.rcs \in Nat
  /\ DOMAIN session \subseteq 1..seq.session
  /\ DOMAIN sms \subseteq 1..seq.sms
  /\ DOMAIN rcs \subseteq 1..seq.rcs
  /\ \A i \in DOMAIN session : IsSession(session[i])
  /\ \A i \in DOMAIN sms : IsMessage(sms[i])
  /\ \A i \in DOMAIN rcs : IsRcsRow(rcs[i])

Phases == {"session", "mms", "rcs", "integrate"}
Steps == {"idle", "drafts", "sending", "unread", "count", "done"} \union Phases

Shape ==
  /\ old \in OldDbs
  /\ pc \in Steps /\ pos \in Nat \ {0} /\ runs \in Nat /\ troubles \in Nat
  /\ TablesTyped /\ MemTyped /\ FlawsTyped
  /\ pc = "integrate" => /\ pos \in DOMAIN old.rcs
                         /\ old.rcs[pos].group \in DOMAIN mem.rcsGroup

-----------------------------------------------------------------------------
(* What goes wrong in a step.                                              *)
LEMMA FailsIs ==
  ASSUME Shape, NEW r, FailsIn(r)
  PROVE  /\ flaws'.failed = flaws.failed \union {r}
         /\ flaws'.blind = flaws.blind /\ flaws'.late = flaws.late /\ flaws'.stale = flaws.stale
         /\ FlawsTyped' /\ troubles' \in Nat /\ troubles' >= troubles
<1>1. flaws' = [failed |-> flaws.failed \union {r}, blind |-> flaws.blind, late |-> flaws.late,
                stale |-> flaws.stale]
  BY DEF Shape, FlawsTyped, FailsIn
<1>2. troubles' = troubles + 1
  BY DEF FailsIn, Trouble
<1> QED BY <1>1, <1>2 DEF Shape, FlawsTyped

LEMMA BlindIs ==
  ASSUME Shape, NEW r, BlindIn(r)
  PROVE  /\ flaws'.failed = flaws.failed \union {r}
         /\ flaws'.blind = TRUE /\ flaws'.late = flaws.late /\ flaws'.stale = flaws.stale
         /\ FlawsTyped' /\ troubles' \in Nat /\ troubles' >= troubles
<1>1. flaws' = [failed |-> flaws.failed \union {r}, blind |-> TRUE, late |-> flaws.late,
                stale |-> flaws.stale]
  BY DEF Shape, FlawsTyped, BlindIn
<1>2. troubles' = troubles + 1
  BY DEF BlindIn, Trouble
<1> QED BY <1>1, <1>2 DEF Shape, FlawsTyped

LEMMA WorksIs ==
  ASSUME Shape, Works
  PROVE  flaws' = flaws /\ FlawsTyped' /\ troubles' \in Nat /\ troubles' >= troubles
BY DEF Shape, FlawsTyped, Works

-----------------------------------------------------------------------------
(* What the steps do to the tables.                                        *)
Same == UNCHANGED <<session, sms, rcs, seq>>

SameTels ==
  /\ DOMAIN session' = DOMAIN session
  /\ \A i \in DOMAIN session :
       IsSession(session'[i]) /\ session'[i].tel = session[i].tel /\ session'[i].draft = session[i].draft

LEMMA SameTyped == ASSUME TablesTyped, UNCHANGED tables PROVE Same /\ TablesTyped'
<1>1. Same
  BY DEF tables, Same
<1> QED BY <1>1 DEF Same, TablesTyped

LEMMA TriggeredIs ==
  ASSUME TablesTyped, NEW row, Triggered(row)
  PROVE  /\ SameTels
         /\ \A i \in DOMAIN session : session'[i].count = session[i].count
         /\ \A i \in DOMAIN session : i # row.sess => session'[i] = session[i]
<1>1. CASE session' = session
  BY <1>1 DEF TablesTyped, SameTels
<1>2. CASE session' # session
  <2> DEFINE n == TriggerCount(sms', rcs', row.sess)
             r == session[row.sess]
  <2>1. row.sess \in DOMAIN session /\ session' = [session EXCEPT ![row.sess].unread = n]
    BY <1>2 DEF Triggered
  <2> HIDE DEF n
  <2>2. IsSession(r)
    BY <2>1 DEF TablesTyped
  <2>3. [r EXCEPT !.unread = n] =
          [tel |-> r.tel, time |-> r.time, draft |-> r.draft, pin |-> r.pin,
           sending |-> r.sending, unread |-> n, count |-> r.count]
    BY <2>2 DEF IsSession
  <2>4. session'[row.sess] = [r EXCEPT !.unread = n]
    BY <2>1
  <2>5. \A i \in DOMAIN session : i # row.sess => session'[i] = session[i]
    BY <2>1
  <2>6. DOMAIN session' = DOMAIN session
    BY <2>1
  <2>7. IsSession(session'[row.sess]) /\ session'[row.sess].tel = r.tel
        /\ session'[row.sess].count = r.count /\ session'[row.sess].draft = r.draft
    BY <2>2, <2>3, <2>4 DEF IsSession
  <2> QED BY <2>5, <2>6, <2>7 DEF SameTels, TablesTyped
<1> QED BY <1>1, <1>2

(* A new row of sms.                                                       *)
Inserted(row) ==
  /\ seq.sms + 1 \notin DOMAIN sms
  /\ sms' = Put(sms, seq.sms + 1, row)
  /\ DOMAIN sms' = DOMAIN sms \union {seq.sms + 1}
  /\ sms'[seq.sms + 1] = row
  /\ \A i \in DOMAIN sms : sms'[i] = sms[i]

LEMMA InsertSmsIs ==
  ASSUME TablesTyped, NEW row, IsMessage(row), InsertSms(row)
  PROVE  Inserted(row) /\ rcs' = rcs /\ SameTels /\ TablesTyped'
<1>1. /\ sms' = Put(sms, seq.sms + 1, row) /\ seq' = [seq EXCEPT !.sms = seq.sms + 1]
      /\ rcs' = rcs /\ Triggered(row)
  BY DEF InsertSms, NextId
<1>2. seq' = [session |-> seq.session, sms |-> seq.sms + 1, rcs |-> seq.rcs]
  BY <1>1 DEF TablesTyped
<1>3. Inserted(row)
  <2>1. seq.sms + 1 \notin DOMAIN sms
    BY DEF TablesTyped
  <2> DEFINE n == seq.sms + 1
  <2>2. sms' = Put(sms, n, row)
    BY <1>1
  <2> HIDE DEF n
  <2>3. /\ DOMAIN sms' = DOMAIN sms \union {n} /\ sms'[n] = row
        /\ \A i \in DOMAIN sms : i # n => sms'[i] = sms[i]
    BY <2>2 DEF Put
  <2> QED BY <2>1, <2>2, <2>3 DEF Inserted, n
<1>4. SameTels
  BY <1>1, TriggeredIs
<1>5. DOMAIN session' \subseteq 1..seq'.session /\ DOMAIN sms' \subseteq 1..seq'.sms
      /\ DOMAIN rcs' \subseteq 1..seq'.rcs
  BY <1>1, <1>2, <1>3, <1>4 DEF TablesTyped, Inserted, SameTels
<1> QED BY <1>1, <1>2, <1>3, <1>4, <1>5 DEF TablesTyped, Inserted, SameTels

(* A new row of rcs.                                                       *)
LEMMA InsertRcsIs ==
  ASSUME TablesTyped, NEW row, IsRcsRow(row), InsertRcs(row)
  PROVE  /\ DOMAIN rcs' = DOMAIN rcs \union {seq.rcs + 1} /\ seq.rcs + 1 \notin DOMAIN rcs
         /\ rcs'[seq.rcs + 1] = row
         /\ \A i \in DOMAIN rcs : rcs'[i] = rcs[i]
         /\ sms' = sms /\ SameTels /\ TablesTyped'
<1>1. /\ rcs' = Put(rcs, seq.rcs + 1, row) /\ seq' = [seq EXCEPT !.rcs = seq.rcs + 1]
      /\ sms' = sms /\ Triggered(row)
  BY DEF InsertRcs, NextId
<1>2. seq' = [session |-> seq.session, sms |-> seq.sms, rcs |-> seq.rcs + 1]
  BY <1>1 DEF TablesTyped
<1>3. /\ DOMAIN rcs' = DOMAIN rcs \union {seq.rcs + 1} /\ seq.rcs + 1 \notin DOMAIN rcs
      /\ rcs'[seq.rcs + 1] = row
      /\ \A i \in DOMAIN rcs : rcs'[i] = rcs[i]
  <2>1. seq.rcs + 1 \notin DOMAIN rcs
    BY DEF TablesTyped
  <2> DEFINE n == seq.rcs + 1
  <2>2. rcs' = Put(rcs, n, row)
    BY <1>1
  <2> HIDE DEF n
  <2>3. /\ DOMAIN rcs' = DOMAIN rcs \union {n} /\ rcs'[n] = row
        /\ \A i \in DOMAIN rcs : i # n => rcs'[i] = rcs[i]
    BY <2>2 DEF Put
  <2> QED BY <2>1, <2>3 DEF n
<1>4. SameTels
  BY <1>1, TriggeredIs
<1>5. DOMAIN session' \subseteq 1..seq'.session /\ DOMAIN sms' \subseteq 1..seq'.sms
      /\ DOMAIN rcs' \subseteq 1..seq'.rcs
  BY <1>1, <1>2, <1>3, <1>4 DEF TablesTyped, SameTels
<1> QED BY <1>1, <1>2, <1>3, <1>4, <1>5 DEF TablesTyped, SameTels

(* A session some fields of which change.                                  *)
LEMMA UpdateSessionIs ==
  ASSUME TablesTyped, NEW s, NEW row, s \in DOMAIN session => IsSession(row), UpdateSession(s, row)
  PROVE  /\ DOMAIN session' = DOMAIN session /\ UNCHANGED <<sms, rcs, seq>>
         /\ s \in DOMAIN session => session'[s] = row
         /\ \A i \in DOMAIN session : i # s => session'[i] = session[i]
         /\ TablesTyped'
<1>1. session' = [session EXCEPT ![s] = row] /\ UNCHANGED <<sms, rcs, seq>>
  BY DEF UpdateSession
<1>2. /\ DOMAIN session' = DOMAIN session
      /\ s \in DOMAIN session => session'[s] = row
      /\ \A i \in DOMAIN session : i # s => session'[i] = session[i]
  BY <1>1
<1>3. \A i \in DOMAIN session' : IsSession(session'[i])
  BY <1>2 DEF TablesTyped
<1> QED BY <1>1, <1>2, <1>3 DEF TablesTyped

-----------------------------------------------------------------------------
(* The maps the steps leave alone.                                         *)
Keep(fields) == DOMAIN mem' = MemFields /\ \A f \in MemFields \ fields : mem'[f] = mem[f]

LEMMA NewMemIs ==
  /\ DOMAIN NewMem = MemFields
  /\ \A f \in {"snapSession", "snapSms", "snapRcs", "rawSession", "rcsMsg", "rcsGroup", "timeGroup", "drop"} :
       DOMAIN NewMem[f] = {}
  /\ NewMem.maxGroup = 0 /\ NewMem.mmsFailed = 0 /\ NewMem.err = FALSE
<1>1. DOMAIN Nothing = {}
  BY DEF Nothing
<1>2. DOMAIN NewMem = MemFields
  BY DEF NewMem, MemFields
<1> QED BY <1>1, <1>2 DEF NewMem

LEMMA OldIs ==
  ASSUME Shape
  PROVE  /\ WellFormedBackup(old)
         /\ DOMAIN old.session \subseteq Nat \ {0} /\ DOMAIN old.msg \subseteq Nat \ {0}
         /\ DOMAIN old.rcs \subseteq Nat \ {0}
         /\ \A p \in DOMAIN old.session : old.session[p] \in SessionRow /\ IsSession(old.session[p])
         /\ \A p \in DOMAIN old.msg : old.msg[p] \in MsgRow
         /\ \A p \in DOMAIN old.rcs : old.rcs[p] \in RcsRow /\ IsRcsRow(old.rcs[p])
<1>1. WellFormedBackup(old)
  BY NextCopyAssumption DEF Shape
<1>2. old.session \in Seq(SessionRow) /\ old.msg \in Seq(MsgRow) /\ old.rcs \in Seq(RcsRow)
  BY <1>1 DEF WellFormedBackup, WellFormed
<1>3. \A p \in DOMAIN old.session : old.session[p] \in SessionRow
  BY <1>2
<1>4. \A p \in DOMAIN old.msg : old.msg[p] \in MsgRow
  BY <1>2
<1>5. \A p \in DOMAIN old.rcs : old.rcs[p] \in RcsRow
  BY <1>2
<1>6. \A r \in SessionRow : IsSession(r)
  BY DEF SessionRow, IsSession
<1>7. \A r \in RcsRow : IsRcsRow(r)
  BY DEF RcsRow, IsRcsRow
<1>8. DOMAIN old.session \subseteq Nat \ {0} /\ DOMAIN old.msg \subseteq Nat \ {0}
      /\ DOMAIN old.rcs \subseteq Nat \ {0}
  BY <1>2
<1> QED BY <1>1, <1>3, <1>4, <1>5, <1>6, <1>7, <1>8

(* The row the restore is at.                                              *)
LEMMA RowIs ==
  ASSUME Shape
  PROVE  /\ AtRow("session") => pc = "session" /\ pos \in DOMAIN old.session /\ Row = old.session[pos]
         /\ AtRow("mms") => pc = "mms" /\ pos \in DOMAIN old.msg /\ Row = old.msg[pos]
         /\ AtRow("rcs") => pc = "rcs" /\ pos \in DOMAIN old.rcs /\ Row = old.rcs[pos]
         /\ pc = "integrate" => Row = old.rcs[pos]
         /\ AtEnd("session") => pc = "session" /\ \A p \in DOMAIN old.session : p < pos
         /\ AtEnd("mms") => pc = "mms" /\ \A p \in DOMAIN old.msg : p < pos
         /\ AtEnd("rcs") => pc = "rcs" /\ \A p \in DOMAIN old.rcs : p < pos
<1>1. old.session \in Seq(SessionRow) /\ old.msg \in Seq(MsgRow) /\ old.rcs \in Seq(RcsRow)
  BY OldIs DEF WellFormedBackup, WellFormed
<1>2. /\ Table("session") = old.session /\ Table("mms") = old.msg
      /\ Table("rcs") = old.rcs /\ Table("integrate") = old.rcs
  BY DEF Table
<1>3. pos \in Nat \ {0}
  BY DEF Shape
<1>4. \A S, q : q \in Seq(S) => DOMAIN q = 1..Len(q) /\ Len(q) \in Nat
  OBVIOUS
<1> QED BY <1>1, <1>2, <1>3, <1>4 DEF AtRow, AtEnd, Row

-----------------------------------------------------------------------------
(* What each step does.                                                    *)
Marked(r) == flaws'.failed = flaws.failed \union {r}
SameFlags == /\ flaws'.blind = flaws.blind /\ flaws'.late = flaws.late
             /\ flaws'.stale = flaws.stale
Quiet == flaws'.failed = flaws.failed /\ SameFlags

LEMMA WorksQuiet == ASSUME Shape, Works PROVE Quiet
BY WorksIs DEF Quiet, SameFlags

LEMMA FailsMarks == ASSUME Shape, NEW r, FailsIn(r) PROVE Marked(r) /\ SameFlags
BY FailsIs DEF Marked, SameFlags

StartEffect ==
  /\ pc \in {"idle", "done"} /\ pending = {} /\ UNCHANGED <<old, pending>> /\ Same
  /\ runs' = runs + 1 /\ pos' = 1
  /\ flaws'.late = flaws.late
  /\ DOMAIN mem' = MemFields /\ DOMAIN mem'.rawSession = {} /\ mem'.mmsFailed = 0
  /\ \A f \in MemFields \ {"snapSession", "err"} : mem'[f] = NewMem[f]
  /\ \/ /\ pc' = "session" /\ mem'.snapSession = QuerySession
        /\ flaws'.failed = flaws.failed /\ flaws'.blind = flaws.blind
     \/ /\ pc' = "session" /\ DOMAIN mem'.snapSession = {}
        /\ Marked(runs + 1) /\ flaws'.blind = TRUE
     \/ /\ pc' = "done" /\ mem'.err = TRUE /\ Marked(runs + 1)
        /\ DOMAIN mem'.snapSession = {} /\ flaws'.blind = flaws.blind

LEMMA StartIs == ASSUME Shape, CopyDbListFileForClone PROVE Shape' /\ StartEffect
<1>1. /\ pc \in {"idle", "done"} /\ pending = {} /\ runs' = runs + 1 /\ pos' = 1
      /\ UNCHANGED <<old, tables, pending>>
  BY DEF CopyDbListFileForClone
<1>2. Same /\ TablesTyped'
  BY <1>1, SameTyped DEF Shape
<1>3. runs' \in Nat /\ pos' \in Nat \ {0} /\ old' \in OldDbs
  BY <1>1 DEF Shape
<1>4. CASE /\ pc' = "session" /\ mem' = [NewMem EXCEPT !.snapSession = QuerySession]
           /\ UNCHANGED troubles /\ flaws' = [flaws EXCEPT !.stale = {}]
  <2>1. flaws' = [failed |-> flaws.failed, blind |-> flaws.blind, late |-> flaws.late, stale |-> {}]
    BY <1>4 DEF Shape, FlawsTyped
  <2>2. DOMAIN mem' = MemFields /\ mem'.snapSession = QuerySession
        /\ \A f \in MemFields \ {"snapSession"} : mem'[f] = NewMem[f]
    BY <1>4, NewMemIs DEF MemFields
  <2>3. MemTyped' /\ DOMAIN mem'.rawSession = {} /\ mem'.mmsFailed = 0
    BY <2>2, NewMemIs DEF MemTyped, MemFields
  <2>4. FlawsTyped' /\ troubles' \in Nat
    BY <1>4, <2>1 DEF Shape, FlawsTyped
  <2>5. StartEffect
    BY <1>1, <1>2, <1>4, <2>1, <2>2, <2>3 DEF StartEffect
  <2> QED BY <1>2, <1>3, <1>4, <2>3, <2>4, <2>5 DEF Shape, Steps, Phases
<1>5. CASE pc' = "session" /\ mem' = NewMem /\ BlindIn(runs + 1)
  <2>1. /\ MemTyped' /\ DOMAIN mem'.rawSession = {} /\ mem'.mmsFailed = 0
        /\ DOMAIN mem'.snapSession = {}
        /\ \A f \in MemFields \ {"snapSession", "err"} : mem'[f] = NewMem[f]
    BY <1>5, NewMemIs DEF MemTyped, MemFields
  <2>2. Marked(runs + 1) /\ flaws'.blind = TRUE /\ flaws'.late = flaws.late /\ FlawsTyped'
        /\ troubles' \in Nat
    BY <1>5, BlindIs DEF Marked
  <2>5. StartEffect
    BY <1>1, <1>2, <1>5, <2>1, <2>2 DEF StartEffect, MemTyped
  <2> QED BY <1>2, <1>3, <1>5, <2>1, <2>2, <2>5 DEF Shape, Steps, Phases
<1>6. CASE pc' = "done" /\ mem' = [NewMem EXCEPT !.err = TRUE] /\ FailsIn(runs + 1)
  <2>1. DOMAIN mem' = MemFields /\ mem'.err = TRUE
        /\ \A f \in MemFields \ {"err"} : mem'[f] = NewMem[f]
    BY <1>6, NewMemIs DEF MemFields
  <2>2. MemTyped' /\ DOMAIN mem'.rawSession = {} /\ mem'.mmsFailed = 0
        /\ DOMAIN mem'.snapSession = {}
    BY <2>1, NewMemIs DEF MemTyped, MemFields
  <2>3. Marked(runs + 1) /\ SameFlags /\ FlawsTyped' /\ troubles' \in Nat
    BY <1>6, FailsMarks, FailsIs
  <2>5. StartEffect
    BY <1>1, <1>2, <1>6, <2>1, <2>2, <2>3 DEF StartEffect, SameFlags
  <2> QED BY <1>2, <1>3, <1>6, <2>2, <2>3, <2>5 DEF Shape, Steps, Phases
<1> QED BY <1>4, <1>5, <1>6 DEF CopyDbListFileForClone

PageEffect ==
  /\ pc \in {"session", "mms", "rcs"} /\ UNCHANGED <<old, pc, todo, pending, runs>> /\ Same
  /\ pos' >= pos /\ pos' # pos
  /\ Keep({"err"}) /\ mem'.err = TRUE
  /\ Marked(runs) /\ SameFlags

LEMMA PageIs == ASSUME Shape, PageFails PROVE Shape' /\ PageEffect
<1>1. /\ pc \in {"session", "mms", "rcs"} /\ UNCHANGED <<old, tables, pc, todo, pending, runs>>
      /\ pos' = pos - ((pos - 1) % PageSize) + PageSize
      /\ mem' = [mem EXCEPT !.err = TRUE] /\ Fails
  BY RowIs DEF PageFails
<1>2. Same /\ TablesTyped'
  BY <1>1, SameTyped DEF Shape
<1>3. pos' \in Nat \ {0} /\ pos' >= pos /\ pos' # pos
  <2>1. PageSize \in Nat \ {0} /\ pos - 1 \in Int /\ pos \in Nat \ {0}
    BY NextCopyAssumption DEF Shape
  <2>2. (pos - 1) % PageSize \in 0..(PageSize - 1)
    BY <2>1
  <2> QED BY <1>1, <2>1, <2>2
<1>4. Keep({"err"}) /\ mem'.err = TRUE
  BY <1>1 DEF Shape, MemTyped, Keep, MemFields
<1>5. MemTyped'
  BY <1>4 DEF Shape, MemTyped, Keep, MemFields
<1>6. Marked(runs) /\ SameFlags /\ FlawsTyped' /\ troubles' \in Nat
  BY <1>1, FailsMarks, FailsIs DEF Fails
<1>7. PageEffect
  BY <1>1, <1>2, <1>3, <1>4, <1>6 DEF PageEffect
<1> QED BY <1>1, <1>2, <1>3, <1>5, <1>6, <1>7 DEF Shape

CrashEffect ==
  /\ UNCHANGED <<old, runs, flaws>> /\ Same
  /\ pc' = "idle" /\ pending' = {} /\ mem' = NewMem

LEMMA CrashIs == ASSUME Shape, Crash PROVE Shape' /\ CrashEffect
<1>1. /\ UNCHANGED <<old, tables, runs, flaws>> /\ pc' = "idle" /\ pos' = 1 /\ pending' = {}
      /\ mem' = NewMem /\ troubles' = troubles + 1
  BY DEF Crash, Trouble
<1>2. Same /\ TablesTyped'
  BY <1>1, SameTyped DEF Shape
<1>3. MemTyped'
  BY <1>1, NewMemIs DEF MemTyped, MemFields
<1>4. FlawsTyped'
  BY <1>1 DEF Shape, FlawsTyped
<1>5. CrashEffect
  BY <1>1, <1>2 DEF CrashEffect
<1> QED BY <1>1, <1>2, <1>3, <1>4, <1>5 DEF Shape, Steps

(* A record of session with some fields changed is one.                    *)
LEMMA SessionWith ==
  ASSUME NEW r, IsSession(r), NEW v
  PROVE  /\ IsSession([r EXCEPT !.draft = v]) /\ [r EXCEPT !.draft = v].tel = r.tel
         /\ IsSession([r EXCEPT !.pin = v]) /\ [r EXCEPT !.pin = v].tel = r.tel
         /\ [r EXCEPT !.pin = v].draft = r.draft
         /\ IsSession([r EXCEPT !.sending = v]) /\ [r EXCEPT !.sending = v].tel = r.tel
         /\ [r EXCEPT !.sending = v].draft = r.draft
         /\ IsSession([r EXCEPT !.unread = v]) /\ [r EXCEPT !.unread = v].tel = r.tel
         /\ [r EXCEPT !.unread = v].draft = r.draft
         /\ IsSession([r EXCEPT !.count = v]) /\ [r EXCEPT !.count = v].tel = r.tel
         /\ [r EXCEPT !.count = v].draft = r.draft
<1>1. r = [tel |-> r.tel, time |-> r.time, draft |-> r.draft, pin |-> r.pin,
           sending |-> r.sending, unread |-> r.unread, count |-> r.count] /\ r.tel \in Tels
  BY DEF IsSession
<1>2. [r EXCEPT !.draft = v] = [tel |-> r.tel, time |-> r.time, draft |-> v, pin |-> r.pin,
           sending |-> r.sending, unread |-> r.unread, count |-> r.count]
  BY <1>1
<1>3. [r EXCEPT !.pin = v] = [tel |-> r.tel, time |-> r.time, draft |-> r.draft, pin |-> v,
           sending |-> r.sending, unread |-> r.unread, count |-> r.count]
  BY <1>1
<1>4. [r EXCEPT !.sending = v] = [tel |-> r.tel, time |-> r.time, draft |-> r.draft, pin |-> r.pin,
           sending |-> v, unread |-> r.unread, count |-> r.count]
  BY <1>1
<1>5. [r EXCEPT !.unread = v] = [tel |-> r.tel, time |-> r.time, draft |-> r.draft, pin |-> r.pin,
           sending |-> r.sending, unread |-> v, count |-> r.count]
  BY <1>1
<1>6. [r EXCEPT !.count = v] = [tel |-> r.tel, time |-> r.time, draft |-> r.draft, pin |-> r.pin,
           sending |-> r.sending, unread |-> r.unread, count |-> v]
  BY <1>1
<1>7. \A t, d, p, q, x, y, z : t \in Tels =>
        IsSession([tel |-> t, time |-> d, draft |-> p, pin |-> q, sending |-> x, unread |-> y, count |-> z])
  BY DEF IsSession
<1>8. r.tel \in Tels
  BY <1>1
<1> HIDE DEF IsSession
<1> QED BY <1>2, <1>3, <1>4, <1>5, <1>6, <1>7, <1>8

Troubled == Quiet \/ (Marked(runs) /\ SameFlags)

(* Session s is that of old session o now: as it was, or with o's row.     *)
Merged(s, o) ==
  /\ DOMAIN session' = DOMAIN session
  /\ \A i \in DOMAIN session : i # s => session'[i] = session[i]
  /\ s \in DOMAIN session => /\ IsSession(session'[s])
                             /\ session'[s].tel = session[s].tel \/ session'[s].tel = o.tel

MergeEffect ==
  /\ pc = "session" /\ pos \in DOMAIN old.session /\ pos' = pos + 1
  /\ UNCHANGED <<old, sms, rcs, seq, pc, todo, pending, runs>>
  /\ Keep({"rawSession", "drop"})
  /\ \E k \in Matches(old.session[pos].tel) :
       /\ Merged(mem.snapSession[k].id, old.session[pos])
       /\ mem'.rawSession = Put(mem.rawSession, pos, mem.snapSession[k].id)
  /\ Troubled

LEMMA MergeIs == ASSUME Shape, MergeSession PROVE Shape' /\ MergeEffect
<1>1. AtRow("session") /\ pos' = pos + 1 /\ UNCHANGED <<old, pc, todo, pending, runs>>
  BY DEF MergeSession
<1>2. pc = "session" /\ pos \in DOMAIN old.session /\ Row = old.session[pos]
  BY <1>1, RowIs
<1> DEFINE o == old.session[pos]
<1>3. IsSession(o)
  BY <1>2, OldIs
<1>4. PICK k \in Matches(Row.tel) :
       LET snap == mem.snapSession[k].row
           s == mem.snapSession[k].id
           pin == Max({o.pin, snap.pin})
           now == session[s]
           drafted == IF o.draft THEN [now EXCEPT !.draft = TRUE] ELSE now
           pinned(row) == IF pin > 0 THEN [row EXCEPT !.pin = pin] ELSE row
       IN /\ IF o.time > snap.time
             THEN \/ UpdateSession(s, BuildUpdateSessionItem(o, snap)) /\ Works
                  \/ UNCHANGED tables /\ Fails
             ELSE \/ UpdateSession(s, pinned(drafted)) /\ Works
                  \/ o.draft /\ UpdateSession(s, pinned(now)) /\ Fails
                  \/ pin > 0 /\ UpdateSession(s, drafted) /\ Fails
          /\ mem' = [mem EXCEPT !.rawSession = Put(@, pos, s),
                       !.drop = IF snap.draft \/ o.draft THEN Dropping(@, s, o.draft) ELSE @]
  BY <1>2 DEF MergeSession
<1> DEFINE snap == mem.snapSession[k].row
           s == mem.snapSession[k].id
           pin == Max({o.pin, snap.pin})
           now == session[s]
           drafted == IF o.draft THEN [now EXCEPT !.draft = TRUE] ELSE now
           pinned(row) == IF pin > 0 THEN [row EXCEPT !.pin = pin] ELSE row
           Good(row) == IsSession(row) /\ (row.tel = now.tel \/ row.tel = o.tel)
<1>5. s \in DOMAIN session =>
         Good(now) /\ Good(drafted) /\ Good(pinned(now)) /\ Good(pinned(drafted))
         /\ Good(BuildUpdateSessionItem(o, snap))
  <2> SUFFICES ASSUME s \in DOMAIN session
               PROVE  Good(now) /\ Good(drafted) /\ Good(pinned(now)) /\ Good(pinned(drafted))
                      /\ Good(BuildUpdateSessionItem(o, snap))
    OBVIOUS
  <2>1. Good(now)
    BY DEF Shape, TablesTyped
  <2> HIDE DEF now, o, snap, pin
  <2>2. Good(drafted)
    BY <2>1, SessionWith
  <2>6. ASSUME NEW row, Good(row) PROVE Good(pinned(row))
    <3>1. Good([row EXCEPT !.pin = pin])
      BY <2>6, SessionWith
    <3> QED BY <2>6, <3>1
  <2> HIDE DEF drafted, pinned, Good
  <2>3. Good(pinned(now))
    BY <2>1, <2>6
  <2>4. Good(pinned(drafted))
    BY <2>2, <2>6
  <2> USE DEF Good
  <2>5. Good(BuildUpdateSessionItem(o, snap))
    <3> DEFINE d == IF ~snap.draft THEN o.draft ELSE TRUE
               q == Max({o.pin, snap.pin})
    <3>1. BuildUpdateSessionItem(o, snap) = [[o EXCEPT !.draft = d] EXCEPT !.pin = q]
      <4>1. o = [tel |-> o.tel, time |-> o.time, draft |-> o.draft, pin |-> o.pin,
           sending |-> o.sending, unread |-> o.unread, count |-> o.count]
        BY <1>3 DEF IsSession, o
      <4> QED BY <4>1 DEF BuildUpdateSessionItem
    <3> HIDE DEF d, q
    <3>2. IsSession([o EXCEPT !.draft = d]) /\ [o EXCEPT !.draft = d].tel = o.tel
      BY <1>3, SessionWith DEF o
    <3>3. IsSession([[o EXCEPT !.draft = d] EXCEPT !.pin = q])
          /\ [[o EXCEPT !.draft = d] EXCEPT !.pin = q].tel = [o EXCEPT !.draft = d].tel
      BY <3>2, SessionWith
    <3> QED BY <3>1, <3>2, <3>3
  <2> QED BY <2>1, <2>2, <2>3, <2>4, <2>5
<1>6. ASSUME NEW row, s \in DOMAIN session => Good(row), UpdateSession(s, row)
      PROVE  Merged(s, o) /\ UNCHANGED <<sms, rcs, seq>> /\ TablesTyped'
  <2> HIDE DEF s, o
  <2>1. /\ DOMAIN session' = DOMAIN session /\ UNCHANGED <<sms, rcs, seq>>
        /\ s \in DOMAIN session => session'[s] = row
        /\ \A i \in DOMAIN session : i # s => session'[i] = session[i]
        /\ TablesTyped'
    BY <1>6, UpdateSessionIs DEF Shape
  <2> QED BY <1>6, <2>1 DEF Merged
<1>7. UNCHANGED tables => Merged(s, o) /\ UNCHANGED <<sms, rcs, seq>> /\ TablesTyped'
  <2> SUFFICES ASSUME UNCHANGED tables PROVE Merged(s, o) /\ UNCHANGED <<sms, rcs, seq>> /\ TablesTyped'
    OBVIOUS
  <2>1. Same /\ TablesTyped'
    BY SameTyped DEF Shape
  <2>2. Merged(s, o)
    BY <2>1 DEF Same, Merged, Shape, TablesTyped
  <2> QED BY <2>1, <2>2 DEF Same
<1>8. Merged(s, o) /\ UNCHANGED <<sms, rcs, seq>> /\ TablesTyped' /\ (Works \/ Fails)
  <2>1. \/ UpdateSession(s, BuildUpdateSessionItem(o, snap)) /\ Works
        \/ UNCHANGED tables /\ Fails
        \/ UpdateSession(s, pinned(drafted)) /\ Works
        \/ UpdateSession(s, pinned(now)) /\ Fails
        \/ UpdateSession(s, drafted) /\ Fails
    BY <1>4
  <2> HIDE DEF s, o, snap, pin, now, drafted, pinned, Good
  <2> QED BY <1>5, <1>6, <1>7, <2>1
<1>9. mem' = [mem EXCEPT !.rawSession = Put(@, pos, s),
                       !.drop = IF snap.draft \/ o.draft THEN Dropping(@, s, o.draft) ELSE @]
  BY <1>4
<1>10. Keep({"rawSession", "drop"}) /\ mem'.rawSession = Put(mem.rawSession, pos, s)
  <2> HIDE DEF s, o, snap
  <2>1. DOMAIN mem = MemFields
    BY DEF Shape, MemTyped
  <2> QED BY <1>9, <2>1 DEF Keep, MemFields
<1>11. MemTyped'
  BY <1>10 DEF Shape, MemTyped, Keep, MemFields
<1>12. Troubled /\ FlawsTyped' /\ troubles' \in Nat
  BY <1>8, WorksIs, WorksQuiet, FailsIs, FailsMarks DEF Troubled, Fails
<1>13. MergeEffect
  <2>1. k \in Matches(old.session[pos].tel)
    BY <1>2, <1>4
  <2> QED BY <1>1, <1>2, <1>8, <1>10, <1>12, <2>1 DEF MergeEffect
<1> QED BY <1>1, <1>2, <1>8, <1>11, <1>12, <1>13 DEF Shape

(* A new session for the old one o.                                        *)
NewSession(o) ==
  /\ seq.session + 1 \notin DOMAIN session
  /\ DOMAIN session' = DOMAIN session \union {seq.session + 1}
  /\ session'[seq.session + 1] = o
  /\ \A i \in DOMAIN session : session'[i] = session[i]

InsertSessionEffect ==
  /\ pc = "session" /\ pos \in DOMAIN old.session /\ pos' = pos + 1
  /\ Matches(old.session[pos].tel) = {}
  /\ UNCHANGED <<old, sms, rcs, pc, todo, pending, runs>>
  /\ \/ /\ NewSession(old.session[pos]) /\ Keep({"rawSession", "drop"}) /\ Quiet
        /\ mem'.rawSession = Put(mem.rawSession, pos, seq.session + 1)
     \/ Same /\ UNCHANGED mem /\ Marked(runs) /\ SameFlags

LEMMA InsertSessionIs == ASSUME Shape, InsertSessionItem PROVE Shape' /\ InsertSessionEffect
<1>1. AtRow("session") /\ pos' = pos + 1 /\ UNCHANGED <<old, pc, todo, pending, runs>>
  BY DEF InsertSessionItem
<1>2. pc = "session" /\ pos \in DOMAIN old.session /\ Row = old.session[pos]
  BY <1>1, RowIs
<1>3. Matches(old.session[pos].tel) = {}
  BY <1>2 DEF InsertSessionItem
<1> DEFINE o == old.session[pos]
           n == seq.session + 1
<1>4. CASE /\ session' = Put(session, n, o)
           /\ seq' = [seq EXCEPT !.session = n]
           /\ mem' = [mem EXCEPT !.rawSession = Put(@, pos, n),
                        !.drop = IF Row.draft THEN Dropping(@, n, TRUE) ELSE @]
           /\ UNCHANGED <<sms, rcs>> /\ Works
  <2>1. seq' = [session |-> n, sms |-> seq.sms, rcs |-> seq.rcs]
    BY <1>4 DEF Shape, TablesTyped
  <2>2. n \notin DOMAIN session /\ n \in Nat /\ n \in 1..n /\ \A x \in 1..seq.session : x \in 1..n
    BY DEF Shape, TablesTyped
  <2>3. IsSession(o)
    BY <1>2, OldIs
  <2>4. Keep({"rawSession", "drop"}) /\ mem'.rawSession = Put(mem.rawSession, pos, n)
    <3> HIDE DEF n
    <3>1. DOMAIN mem = MemFields
      BY DEF Shape, MemTyped
    <3> QED BY <1>4, <3>1 DEF Keep, MemFields
  <2>5. MemTyped'
    BY <2>4 DEF Shape, MemTyped, Keep, MemFields
  <2>6. NewSession(o)
    <3> HIDE DEF n, o
    <3>1. /\ DOMAIN session' = DOMAIN session \union {n} /\ session'[n] = o
          /\ \A i \in DOMAIN session : i # n => session'[i] = session[i]
      BY <1>4 DEF Put
    <3> QED BY <2>2, <3>1 DEF NewSession, n
  <2>7. TablesTyped'
    <3> HIDE DEF o, n
    <3>1. /\ DOMAIN session' = DOMAIN session \union {n} /\ session'[n] = o
          /\ \A i \in DOMAIN session : session'[i] = session[i]
      BY <2>6 DEF NewSession, n
    <3> QED BY <1>4, <2>1, <2>2, <2>3, <3>1 DEF Shape, TablesTyped
  <2>8. Quiet /\ FlawsTyped' /\ troubles' \in Nat
    BY <1>4, WorksIs, WorksQuiet
  <2>9. InsertSessionEffect
    BY <1>1, <1>2, <1>3, <1>4, <2>4, <2>6, <2>8 DEF InsertSessionEffect
  <2> QED BY <1>1, <1>2, <2>5, <2>7, <2>8, <2>9 DEF Shape
<1>5. CASE UNCHANGED <<tables, mem>> /\ Fails
  <2>1. Same /\ TablesTyped'
    BY <1>5, SameTyped DEF Shape
  <2>2. Marked(runs) /\ SameFlags /\ FlawsTyped' /\ troubles' \in Nat
    BY <1>5, FailsIs, FailsMarks DEF Fails
  <2>3. InsertSessionEffect
    BY <1>1, <1>2, <1>3, <1>5, <2>1, <2>2 DEF InsertSessionEffect, Same
  <2>4. MemTyped'
    BY <1>5 DEF Shape, MemTyped
  <2> QED BY <1>1, <1>2, <2>1, <2>2, <2>3, <2>4 DEF Shape
<1>6. \/ /\ session' = Put(session, n, o)
         /\ seq' = [seq EXCEPT !.session = n]
         /\ mem' = [mem EXCEPT !.rawSession = Put(@, pos, n),
                        !.drop = IF Row.draft THEN Dropping(@, n, TRUE) ELSE @]
         /\ UNCHANGED <<sms, rcs>> /\ Works
      \/ UNCHANGED <<tables, mem>> /\ Fails
  BY <1>2 DEF InsertSessionItem, NextId
<1> QED BY <1>4, <1>5, <1>6

(* The greatest group of the messages.                                     *)
LEMMA MaxGroupIs ==
  ASSUME TablesTyped
  PROVE  /\ QueryMaxGroupId \in Int /\ QueryMaxGroupId >= 0
         /\ \A i \in DOMAIN sms : sms[i].group <= QueryMaxGroupId
<1> DEFINE g == [i \in DOMAIN sms |-> sms[i].group]
           S == {sms[i].group : i \in DOMAIN sms} \union {0}
<1>1. IsFiniteSet(Range(g))
  BY ValuesFinite DEF TablesTyped
<1>2. S = Range(g) \union {0}
  BY DEF Range
<1>3. S \subseteq Int /\ 0 \in S
  BY DEF TablesTyped, IsMessage
<1>4. IsFiniteSet({0}) /\ IsFiniteSet(S)
  <2>1. IsFiniteSet({0})
    BY FS_Singleton
  <2> HIDE DEF S, g
  <2> QED BY <1>1, <1>2, <2>1, FS_Union
<1>5. Max(S) \in S /\ \A y \in S : y <= Max(S)
  <2> HIDE DEF S
  <2> QED BY <1>3, <1>4, MaxIs
<1> QED BY <1>3, <1>5 DEF QueryMaxGroupId

ReadEffect ==
  /\ AtEnd("session") /\ pc' = "mms" /\ pos' = 1
  /\ UNCHANGED <<old, todo, pending, runs>> /\ Same
  /\ Keep({"drop", "snapSms", "maxGroup"})
  /\ \/ mem'.snapSms = QuerySmsInfo /\ mem'.maxGroup = QueryMaxGroupId /\ Quiet
     \/ /\ mem'.snapSms \in {QuerySmsInfo, Nothing} /\ mem'.maxGroup \in {QueryMaxGroupId, 0}
        /\ Marked(runs) /\ flaws'.blind = TRUE /\ flaws'.late = flaws.late
        /\ flaws'.stale = flaws.stale

LEMMA ReadIs == ASSUME Shape, DoMmsTableCopy PROVE Shape' /\ ReadEffect
<1>1. AtEnd("session") /\ pc' = "mms" /\ pos' = 1 /\ UNCHANGED <<old, tables, todo, pending, runs>>
  BY DEF DoMmsTableCopy
<1>2. Same /\ TablesTyped'
  BY <1>1, SameTyped DEF Shape
<1>3. DOMAIN mem = MemFields
  BY DEF Shape, MemTyped
<1> DEFINE read == [mem EXCEPT !.drop = UpdateNewSessionDropDraft(@),
                    !.snapSms = QuerySmsInfo, !.maxGroup = QueryMaxGroupId]
<1>4. /\ DOMAIN read = MemFields /\ read.snapSms = QuerySmsInfo /\ read.maxGroup = QueryMaxGroupId
      /\ \A f \in MemFields \ {"drop", "snapSms", "maxGroup"} : read[f] = mem[f]
  BY <1>3 DEF MemFields
<1>5. \/ mem' = read /\ Works
      \/ mem' = [read EXCEPT !.drop = mem.drop] /\ Blind
      \/ mem' = [read EXCEPT !.snapSms = Nothing] /\ Blind
      \/ mem' = [read EXCEPT !.maxGroup = 0] /\ Blind
  BY DEF DoMmsTableCopy
<1> HIDE DEF read
<1>6. Keep({"drop", "snapSms", "maxGroup"})
  BY <1>4, <1>5 DEF Keep, MemFields
<1>7. /\ mem'.snapSms \in {QuerySmsInfo, Nothing} /\ mem'.maxGroup \in {QueryMaxGroupId, 0}
      /\ Works => mem'.snapSms = QuerySmsInfo /\ mem'.maxGroup = QueryMaxGroupId
      /\ (Works \/ Blind)
  <2>1. CASE mem' = read /\ Works
    BY <1>4, <2>1
  <2>2. ASSUME mem' # read \/ ~Works, Blind
        PROVE  mem'.snapSms \in {QuerySmsInfo, Nothing} /\ mem'.maxGroup \in {QueryMaxGroupId, 0}
    BY <1>4, <1>5, <2>2 DEF MemFields
  <2>3. ~(Works /\ Blind)
    BY DEF Works, Blind, BlindIn, Trouble, Shape
  <2> QED BY <1>5, <2>1, <2>2, <2>3
<1>8. Blind => /\ Marked(runs) /\ flaws'.blind = TRUE /\ flaws'.late = flaws.late
               /\ flaws'.stale = flaws.stale /\ FlawsTyped' /\ troubles' \in Nat
  BY BlindIs DEF Blind, Marked
<1>9. Works => Quiet /\ FlawsTyped' /\ troubles' \in Nat
  BY WorksIs, WorksQuiet
<1>10. ReadEffect
  BY <1>1, <1>2, <1>6, <1>7, <1>8, <1>9 DEF ReadEffect
<1>11. MemTyped'
  BY <1>6, <1>7, MaxGroupIs DEF Shape, MemTyped, Keep, MemFields
<1> QED BY <1>1, <1>2, <1>7, <1>8, <1>9, <1>10, <1>11 DEF Shape, Steps, Phases

ReadRcsEffect ==
  /\ AtEnd("mms") /\ pc' = "rcs" /\ pos' = 1
  /\ UNCHANGED <<old, todo, pending, runs>> /\ Same
  /\ Keep({"snapRcs"})
  /\ \/ mem'.snapRcs = QueryRcs /\ Quiet
     \/ /\ mem'.snapRcs = mem.snapRcs
        /\ Marked(runs) /\ flaws'.blind = TRUE /\ flaws'.late = flaws.late
        /\ flaws'.stale = flaws.stale

LEMMA ReadRcsIs == ASSUME Shape, DoRcsTableCopy PROVE Shape' /\ ReadRcsEffect
<1>1. AtEnd("mms") /\ pc' = "rcs" /\ pos' = 1 /\ UNCHANGED <<old, tables, todo, pending, runs>>
  BY DEF DoRcsTableCopy
<1>2. Same /\ TablesTyped'
  BY <1>1, SameTyped DEF Shape
<1>3. DOMAIN mem = MemFields
  BY DEF Shape, MemTyped
<1>4. CASE mem' = [mem EXCEPT !.snapRcs = QueryRcs] /\ Works
  <2>1. Keep({"snapRcs"}) /\ mem'.snapRcs = QueryRcs
    BY <1>3, <1>4 DEF Keep, MemFields
  <2>2. Quiet /\ FlawsTyped' /\ troubles' \in Nat
    BY <1>4, WorksIs, WorksQuiet
  <2>3. ReadRcsEffect
    BY <1>1, <1>2, <2>1, <2>2 DEF ReadRcsEffect
  <2>4. MemTyped'
    BY <2>1 DEF Shape, MemTyped, Keep, MemFields
  <2> QED BY <1>1, <1>2, <2>2, <2>3, <2>4 DEF Shape, Steps, Phases
<1>5. CASE UNCHANGED mem /\ Blind
  <2>1. Keep({"snapRcs"}) /\ mem'.snapRcs = mem.snapRcs
    BY <1>3, <1>5 DEF Keep
  <2>2. /\ Marked(runs) /\ flaws'.blind = TRUE /\ flaws'.late = flaws.late
        /\ flaws'.stale = flaws.stale /\ FlawsTyped' /\ troubles' \in Nat
    BY <1>5, BlindIs DEF Blind, Marked
  <2>3. ReadRcsEffect
    BY <1>1, <1>2, <2>1, <2>2 DEF ReadRcsEffect
  <2>4. MemTyped'
    BY <1>5 DEF Shape, MemTyped
  <2> QED BY <1>1, <1>2, <2>2, <2>3, <2>4 DEF Shape, Steps, Phases
<1> QED BY <1>4, <1>5 DEF DoRcsTableCopy

(* The group a row of this key gets, and what remembers it.                *)
MapOf(rich) == IF rich THEN mem.rcsGroup ELSE mem.timeGroup

InGroup(rich, key, group) ==
  \/ /\ key \in DOMAIN MapOf(rich) /\ group = MapOf(rich)[key]
     /\ mem'.rcsGroup = mem.rcsGroup /\ mem'.timeGroup = mem.timeGroup
     /\ mem'.maxGroup = mem.maxGroup
  \/ /\ key \notin DOMAIN MapOf(rich) /\ group = mem.maxGroup + 1 /\ mem'.maxGroup = group
     /\ IF rich THEN mem'.rcsGroup = Put(mem.rcsGroup, key, group) /\ mem'.timeGroup = mem.timeGroup
        ELSE mem'.timeGroup = Put(mem.timeGroup, key, group) /\ mem'.rcsGroup = mem.rcsGroup

(* Only the groups of a map's record change, as these say.                 *)
LEMMA GroupedIs ==
  ASSUME NEW md, DOMAIN md = MemFields, NEW rich, NEW key, NEW group,
         md.rcsGroup = mem.rcsGroup, md.timeGroup = mem.timeGroup, md.maxGroup = mem.maxGroup,
         group = At(MapOf(rich), key, mem.maxGroup + 1),
         NEW md2, md2 = Grouped(md, rich, key, group)
  PROVE  /\ DOMAIN md2 = MemFields
         /\ \A f \in MemFields \ {"rcsGroup", "timeGroup", "maxGroup"} : md2[f] = md[f]
         /\ \/ /\ key \in DOMAIN MapOf(rich) /\ group = MapOf(rich)[key]
               /\ md2.rcsGroup = mem.rcsGroup /\ md2.timeGroup = mem.timeGroup
               /\ md2.maxGroup = mem.maxGroup
            \/ /\ key \notin DOMAIN MapOf(rich) /\ group = mem.maxGroup + 1 /\ md2.maxGroup = group
               /\ IF rich THEN md2.rcsGroup = Put(mem.rcsGroup, key, group) /\ md2.timeGroup = mem.timeGroup
                  ELSE md2.timeGroup = Put(mem.timeGroup, key, group) /\ md2.rcsGroup = mem.rcsGroup
<1>1. CASE key \in DOMAIN MapOf(rich)
  BY <1>1 DEF Grouped, MapOf, At, MemFields
<1>2. CASE key \notin DOMAIN MapOf(rich) /\ rich
  <2>1. md2 = [md EXCEPT !.rcsGroup = Put(@, key, group), !.maxGroup = group]
    BY <1>2 DEF Grouped, MapOf
  <2>2. group = mem.maxGroup + 1
    BY <1>2 DEF At
  <2>3. /\ DOMAIN md2 = MemFields
        /\ \A f \in MemFields \ {"rcsGroup", "timeGroup", "maxGroup"} : md2[f] = md[f]
        /\ md2.rcsGroup = Put(md.rcsGroup, key, group) /\ md2.timeGroup = md.timeGroup
        /\ md2.maxGroup = group
    BY <2>1 DEF MemFields
  <2> QED BY <1>2, <2>2, <2>3
<1>3. CASE key \notin DOMAIN MapOf(rich) /\ ~rich
  <2>1. md2 = [md EXCEPT !.timeGroup = Put(@, key, group), !.maxGroup = group]
    BY <1>3 DEF Grouped, MapOf
  <2>2. group = mem.maxGroup + 1
    BY <1>3 DEF At
  <2>3. /\ DOMAIN md2 = MemFields
        /\ \A f \in MemFields \ {"rcsGroup", "timeGroup", "maxGroup"} : md2[f] = md[f]
        /\ md2.timeGroup = Put(md.timeGroup, key, group) /\ md2.rcsGroup = md.rcsGroup
        /\ md2.maxGroup = group
    BY <2>1 DEF MemFields
  <2> QED BY <1>3, <2>2, <2>3
<1> QED BY <1>1, <1>2, <1>3

(* Then the numbers the groups are stay numbers.                           *)
LEMMA InGroupTyped ==
  ASSUME MemTyped, NEW rich, NEW key, NEW group, InGroup(rich, key, group)
  PROVE  /\ group \in Int /\ mem'.maxGroup \in Int
         /\ \A k \in DOMAIN mem'.rcsGroup : mem'.rcsGroup[k] \in Int
         /\ \A k \in DOMAIN mem'.timeGroup : mem'.timeGroup[k] \in Int
<1>1. group \in Int /\ mem'.maxGroup \in Int
  BY DEF MemTyped, InGroup, MapOf
<1>2. ASSUME NEW f, \A k \in DOMAIN f : f[k] \in Int
      PROVE  \A k \in DOMAIN Put(f, key, group) : Put(f, key, group)[k] \in Int
  BY <1>1, <1>2 DEF Put
<1>3. mem'.rcsGroup \in {mem.rcsGroup, Put(mem.rcsGroup, key, group)}
      /\ mem'.timeGroup \in {mem.timeGroup, Put(mem.timeGroup, key, group)}
  BY DEF InGroup
<1> QED BY <1>1, <1>2, <1>3 DEF MemTyped

CopyFields == {"threads", "drop", "rcsMsg", "rcsGroup", "timeGroup", "maxGroup"}

(* The message m of the backup is message id, in this group.               *)
CopiedTo(m, id) ==
  /\ Keep(CopyFields)
  /\ mem'.rcsMsg = Put(mem.rcsMsg, m.rcs, id)
  /\ InGroup(m.rich, IF m.rich THEN m.group ELSE m.time, GroupOf(m))

LEMMA CopiedIs ==
  ASSUME Shape, NEW m, NEW id, NEW threads,
         mem' = Copied([mem EXCEPT !.threads = threads], m, id)
  PROVE  CopiedTo(m, id)
<1> DEFINE md == [mem EXCEPT !.threads = threads]
           key == IF m.rich THEN m.group ELSE m.time
           md2 == Grouped(md, m.rich, key, GroupOf(m))
<1>1. /\ DOMAIN md = MemFields
      /\ \A f \in MemFields \ {"threads"} : md[f] = mem[f]
  BY DEF Shape, MemTyped
<1>2. GroupOf(m) = At(MapOf(m.rich), key, mem.maxGroup + 1)
  BY DEF GroupOf, MapOf
<1>3. mem' = [md2 EXCEPT !.rcsMsg = Put(@, m.rcs, id),
                !.drop = UpdateOldSessionDropDraft(@, GetSmsMmsInfoItem(m))]
  BY DEF Copied
<1>4. /\ DOMAIN md2 = MemFields
      /\ \A f \in MemFields \ {"rcsGroup", "timeGroup", "maxGroup"} : md2[f] = md[f]
      /\ \/ /\ key \in DOMAIN MapOf(m.rich) /\ GroupOf(m) = MapOf(m.rich)[key]
            /\ md2.rcsGroup = mem.rcsGroup /\ md2.timeGroup = mem.timeGroup
            /\ md2.maxGroup = mem.maxGroup
         \/ /\ key \notin DOMAIN MapOf(m.rich) /\ GroupOf(m) = mem.maxGroup + 1 /\ md2.maxGroup = GroupOf(m)
            /\ IF m.rich THEN md2.rcsGroup = Put(mem.rcsGroup, key, GroupOf(m)) /\ md2.timeGroup = mem.timeGroup
               ELSE md2.timeGroup = Put(mem.timeGroup, key, GroupOf(m)) /\ md2.rcsGroup = mem.rcsGroup
  <2>1. md.rcsGroup = mem.rcsGroup /\ md.timeGroup = mem.timeGroup /\ md.maxGroup = mem.maxGroup
    BY <1>1 DEF MemFields
  <2> HIDE DEF md, key
  <2> QED BY <1>1, <1>2, <2>1, GroupedIs
<1> DEFINE d == UpdateOldSessionDropDraft(md2.drop, GetSmsMmsInfoItem(m))
<1>5. mem' = [md2 EXCEPT !.rcsMsg = Put(md2.rcsMsg, m.rcs, id), !.drop = d]
  BY <1>3
<1>6. /\ DOMAIN mem' = MemFields
      /\ mem'.rcsMsg = Put(mem.rcsMsg, m.rcs, id)
      /\ mem'.rcsGroup = md2.rcsGroup /\ mem'.timeGroup = md2.timeGroup
      /\ mem'.maxGroup = md2.maxGroup
      /\ \A f \in MemFields \ CopyFields : mem'[f] = mem[f]
  <2> DEFINE p == Put(md2.rcsMsg, m.rcs, id)
  <2>1. mem' = [md2 EXCEPT !.rcsMsg = p, !.drop = d]
    BY <1>5
  <2> HIDE DEF md, md2, d, p
  <2>2. /\ DOMAIN mem' = MemFields /\ mem'.rcsMsg = p
        /\ \A f \in MemFields \ {"rcsMsg", "drop"} : mem'[f] = md2[f]
    BY <1>4, <2>1 DEF MemFields
  <2>3. md2.rcsMsg = mem.rcsMsg
    BY <1>1, <1>4 DEF MemFields
  <2>4. \A f \in MemFields \ CopyFields : mem'[f] = mem[f]
    BY <1>1, <1>4, <2>2 DEF MemFields, CopyFields
  <2> QED BY <2>2, <2>3, <2>4 DEF MemFields, p
<1>7. InGroup(m.rich, key, GroupOf(m))
  <2> HIDE DEF md2, md, key
  <2> QED BY <1>4, <1>6 DEF InGroup
<1> QED BY <1>6, <1>7 DEF CopiedTo, Keep

(* The row the message becomes.                                            *)
LEMMA ItemIs ==
  ASSUME Shape, NEW m \in MsgRow, GroupOf(m) \in Int, NEW item, item = GetSmsMmsInfoItem(m)
  PROVE  /\ IsMessage(item) /\ KeyOf(item) = KeyOf(m) /\ item.from = pos /\ item.run = runs
         /\ item.rich = m.rich /\ item.rcs = m.rcs /\ item.read = m.read
         /\ item.group = GroupOf(m) /\ item.sess = ThreadOf(m.sess, NoSession)
         /\ item.state = "draft" <=> m.state = "draft"
<1> DEFINE r == RowOf(m, pos, runs)
           st == IF IsStuck(m) THEN "ok" ELSE m.state
           th == ThreadOf(m.sess, NoSession)
           g == GroupOf(m)
<1>1. item = [r EXCEPT !.sess = ThreadOf(r.sess, NoSession), !.group = g,
                       !.state = IF IsStuck(m) THEN "ok" ELSE r.state]
  BY DEF GetSmsMmsInfoItem
<1>2. r.sess = m.sess /\ r.state = m.state
  BY DEF RowOf
<1>3. item = [r EXCEPT !.sess = th, !.group = g, !.state = st]
  BY <1>1, <1>2
<1>4. item = [sess |-> th, num |-> m.num, in |-> m.in, time |-> m.time, rich |-> m.rich,
              rcs |-> m.rcs, group |-> g, state |-> st, read |-> m.read,
              from |-> pos, run |-> runs]
  <2> HIDE DEF th, g, st
  <2> QED BY <1>3 DEF RowOf
<1>5. m.time \in Nat /\ pos \in Int /\ runs \in Nat
  BY DEF MsgRow, Shape
<1>6. st = "draft" <=> m.state = "draft"
  BY DEF IsStuck
<1> HIDE DEF th, g, st
<1>7. /\ item.sess = th /\ item.num = m.num /\ item.in = m.in /\ item.time = m.time
      /\ item.rich = m.rich /\ item.rcs = m.rcs /\ item.group = g /\ item.state = st
      /\ item.read = m.read /\ item.from = pos /\ item.run = runs
  BY <1>4
<1>8. IsMessage(item)
  BY <1>4, <1>5, <1>7 DEF IsMessage, RowOf, g
<1> QED BY <1>6, <1>7, <1>8 DEF KeyOf, th, g

MmsEffect ==
  /\ pc = "mms" /\ pos \in DOMAIN old.msg /\ pos' = pos + 1
  /\ UNCHANGED <<old, rcs, pc, todo, pending, runs>>
  /\ LET m == old.msg[pos]
     IN \/ /\ KeyOf(m) \in DOMAIN mem.snapSms
           /\ Same /\ CopiedTo(m, mem.snapSms[KeyOf(m)]) /\ Quiet
        \/ /\ KeyOf(m) \notin DOMAIN mem.snapSms
           /\ CopiedTo(m, seq.sms + 1)
           /\ Inserted(GetSmsMmsInfoItem(m)) /\ SameTels /\ Quiet
        \/ /\ KeyOf(m) \notin DOMAIN mem.snapSms
           /\ Same /\ Keep({"threads", "mmsFailed"}) /\ mem'.mmsFailed = mem.mmsFailed + 1
           /\ Marked(runs) /\ SameFlags

LEMMA CopiedTyped ==
  ASSUME Shape, NEW m, NEW id, CopiedTo(m, id)
  PROVE  MemTyped' /\ GroupOf(m) \in Int
<1>1. InGroup(m.rich, IF m.rich THEN m.group ELSE m.time, GroupOf(m)) /\ Keep(CopyFields)
  BY DEF CopiedTo
<1>2. /\ GroupOf(m) \in Int /\ mem'.maxGroup \in Int
      /\ \A k \in DOMAIN mem'.rcsGroup : mem'.rcsGroup[k] \in Int
      /\ \A k \in DOMAIN mem'.timeGroup : mem'.timeGroup[k] \in Int
  BY <1>1, InGroupTyped DEF Shape
<1>3. DOMAIN mem' = MemFields /\ mem'.mmsFailed = mem.mmsFailed
  BY <1>1 DEF Keep, CopyFields, MemFields
<1> QED BY <1>2, <1>3 DEF Shape, MemTyped

LEMMA MmsIs == ASSUME Shape, QueryMmsTable PROVE Shape' /\ MmsEffect
<1>1. AtRow("mms") /\ pos' = pos + 1 /\ UNCHANGED <<old, pc, todo, pending, runs>>
  BY DEF QueryMmsTable
<1>2. pc = "mms" /\ pos \in DOMAIN old.msg /\ Row = old.msg[pos]
  BY <1>1, RowIs
<1> DEFINE m == old.msg[pos]
           threads == IF IsStuck(m) /\ ThreadOf(m.sess, NoSession) # NoSession
                      THEN mem.threads \union {ThreadOf(m.sess, NoSession)} ELSE mem.threads
           touched == [mem EXCEPT !.threads = threads]
<1>3. IF KeyOf(m) \in DOMAIN mem.snapSms
      THEN mem' = Copied(touched, m, mem.snapSms[KeyOf(m)]) /\ UNCHANGED tables /\ Works
      ELSE \/ /\ mem' = Copied(touched, m, seq.sms + 1)
              /\ InsertSms(GetSmsMmsInfoItem(m))
              /\ Works
           \/ mem' = Failed(touched) /\ UNCHANGED tables /\ Fails
  BY <1>2 DEF QueryMmsTable, NextId
<1>4. m \in MsgRow
  BY <1>2, OldIs
<1>5. pos' \in Nat \ {0}
  BY <1>1 DEF Shape
<1> HIDE DEF threads
<1>6. CASE KeyOf(m) \in DOMAIN mem.snapSms
  <2>1. CopiedTo(m, mem.snapSms[KeyOf(m)])
    <3> HIDE DEF m
    <3> QED BY <1>3, <1>6, CopiedIs
  <2>2. Same /\ TablesTyped'
    BY <1>3, <1>6, SameTyped DEF Shape
  <2>3. Quiet /\ FlawsTyped' /\ troubles' \in Nat
    BY <1>3, <1>6, WorksIs, WorksQuiet
  <2>4. MmsEffect
    BY <1>1, <1>2, <1>6, <2>1, <2>2, <2>3 DEF MmsEffect, Same
  <2>5. MemTyped'
    BY <2>1, CopiedTyped
  <2> QED BY <1>1, <1>2, <1>5, <2>2, <2>3, <2>4, <2>5 DEF Shape
<1>7. CASE KeyOf(m) \notin DOMAIN mem.snapSms /\ mem' = Copied(touched, m, seq.sms + 1)
           /\ InsertSms(GetSmsMmsInfoItem(m)) /\ Works
  <2>1. CopiedTo(m, seq.sms + 1)
    <3> HIDE DEF m
    <3> QED BY <1>7, CopiedIs
  <2>2. MemTyped' /\ GroupOf(m) \in Int
    BY <2>1, CopiedTyped
  <2>3. IsMessage(GetSmsMmsInfoItem(m))
    BY <1>4, <2>2, ItemIs
  <2>4. Inserted(GetSmsMmsInfoItem(m)) /\ rcs' = rcs /\ SameTels /\ TablesTyped'
    BY <1>7, <2>3, InsertSmsIs DEF Shape
  <2>5. Quiet /\ FlawsTyped' /\ troubles' \in Nat
    BY <1>7, WorksIs, WorksQuiet
  <2>6. MmsEffect
    BY <1>1, <1>2, <1>7, <2>1, <2>4, <2>5 DEF MmsEffect
  <2> QED BY <1>1, <1>2, <1>5, <2>2, <2>4, <2>5, <2>6 DEF Shape
<1>8. CASE KeyOf(m) \notin DOMAIN mem.snapSms /\ mem' = Failed(touched) /\ UNCHANGED tables /\ Fails
  <2>1. Keep({"threads", "mmsFailed"}) /\ mem'.mmsFailed = mem.mmsFailed + 1
    <3>1. DOMAIN mem = MemFields
      BY DEF Shape, MemTyped
    <3>2. mem' = [touched EXCEPT !.mmsFailed = touched.mmsFailed + 1]
      BY <1>8 DEF Failed
    <3>3. DOMAIN touched = MemFields /\ \A f \in MemFields \ {"threads"} : touched[f] = mem[f]
      BY <3>1
    <3> HIDE DEF touched
    <3> QED BY <3>2, <3>3 DEF Keep, MemFields
  <2>2. Same /\ TablesTyped'
    BY <1>8, SameTyped DEF Shape
  <2>3. Marked(runs) /\ SameFlags /\ FlawsTyped' /\ troubles' \in Nat
    BY <1>8, FailsIs, FailsMarks DEF Fails
  <2>4. MmsEffect
    BY <1>1, <1>2, <1>8, <2>1, <2>2, <2>3 DEF MmsEffect, Same
  <2>5. MemTyped'
    BY <2>1 DEF Shape, MemTyped, Keep, MemFields
  <2> QED BY <1>1, <1>2, <1>5, <2>2, <2>3, <2>4, <2>5 DEF Shape
<1> QED BY <1>3, <1>6, <1>7, <1>8

(* The RCS row the restore is at has this id, and its message if there is  *)
(* one a pending update.                                                   *)
RcsIsNow(r, id) ==
  /\ Keep({"rcsGroup", "maxGroup", "newRcs"}) /\ mem'.newRcs = id
  /\ InGroup(TRUE, r.group, RcsGroupOf(r))
  /\ \/ /\ pos \in DOMAIN mem.rcsMsg /\ pos' = pos + 1 /\ pc' = pc
        /\ pending' = pending \union {[msg |-> mem.rcsMsg[pos], rcs |-> id]}
     \/ pos \notin DOMAIN mem.rcsMsg /\ pos' = pos /\ pc' = "integrate" /\ pending' = pending

LEMMA RcsCopiedIs ==
  ASSUME Shape, NEW id, RcsCopied(id), AtRow("rcs")
  PROVE  RcsIsNow(old.rcs[pos], id) /\ old.rcs[pos].group \in DOMAIN mem'.rcsGroup
<1> DEFINE r == old.rcs[pos]
           g == RcsGroupOf(r)
           md2 == Grouped(mem, TRUE, r.group, g)
<1>1. Row = r
  BY RowIs
<1>2. mem' = [md2 EXCEPT !.newRcs = id]
  BY <1>1 DEF RcsCopied
<1>3. \/ /\ pos \in DOMAIN mem.rcsMsg /\ pos' = pos + 1 /\ pc' = pc
         /\ pending' = pending \union {[msg |-> mem.rcsMsg[pos], rcs |-> id]}
      \/ pos \notin DOMAIN mem.rcsMsg /\ pos' = pos /\ pc' = "integrate" /\ pending' = pending
  BY DEF RcsCopied
<1>4. DOMAIN mem = MemFields /\ g = At(MapOf(TRUE), r.group, mem.maxGroup + 1)
  BY DEF Shape, MemTyped, RcsGroupOf, MapOf
<1>5. /\ DOMAIN md2 = MemFields
      /\ \A f \in MemFields \ {"rcsGroup", "timeGroup", "maxGroup"} : md2[f] = mem[f]
      /\ \/ /\ r.group \in DOMAIN MapOf(TRUE) /\ g = MapOf(TRUE)[r.group]
            /\ md2.rcsGroup = mem.rcsGroup /\ md2.timeGroup = mem.timeGroup
            /\ md2.maxGroup = mem.maxGroup
         \/ /\ r.group \notin DOMAIN MapOf(TRUE) /\ g = mem.maxGroup + 1 /\ md2.maxGroup = g
            /\ md2.rcsGroup = Put(mem.rcsGroup, r.group, g) /\ md2.timeGroup = mem.timeGroup
  <2> DEFINE rich == TRUE
             key == r.group
             md == mem
  <2>0. /\ md2 = Grouped(md, rich, key, g) /\ g = At(MapOf(rich), key, mem.maxGroup + 1)
        /\ DOMAIN md = MemFields /\ md.rcsGroup = mem.rcsGroup /\ md.timeGroup = mem.timeGroup
        /\ md.maxGroup = mem.maxGroup
    BY <1>4
  <2> HIDE DEF r, g, md2, key, rich, md
  <2>1. /\ DOMAIN md2 = MemFields
        /\ \A f \in MemFields \ {"rcsGroup", "timeGroup", "maxGroup"} : md2[f] = md[f]
        /\ \/ /\ key \in DOMAIN MapOf(rich) /\ g = MapOf(rich)[key]
              /\ md2.rcsGroup = mem.rcsGroup /\ md2.timeGroup = mem.timeGroup
              /\ md2.maxGroup = mem.maxGroup
           \/ /\ key \notin DOMAIN MapOf(rich) /\ g = mem.maxGroup + 1 /\ md2.maxGroup = g
              /\ IF rich THEN md2.rcsGroup = Put(mem.rcsGroup, key, g) /\ md2.timeGroup = mem.timeGroup
                 ELSE md2.timeGroup = Put(mem.timeGroup, key, g) /\ md2.rcsGroup = mem.rcsGroup
    BY <2>0, GroupedIs
  <2> QED BY <2>1 DEF key, rich, md
<1> HIDE DEF md2
<1>6. /\ DOMAIN mem' = MemFields /\ mem'.newRcs = id
      /\ \A f \in MemFields \ {"newRcs"} : mem'[f] = md2[f]
  BY <1>2, <1>5 DEF MemFields
<1>7. InGroup(TRUE, r.group, g)
  <2> HIDE DEF r, g
  <2> QED BY <1>5, <1>6 DEF InGroup, MemFields
<1>8. Keep({"rcsGroup", "maxGroup", "newRcs"})
  <2> HIDE DEF r, g
  <2>1. md2.timeGroup = mem.timeGroup
    BY <1>5
  <2>2. \A f \in MemFields \ {"rcsGroup", "maxGroup"} : md2[f] = mem[f]
    BY <1>5, <2>1
  <2>3. \A f \in MemFields \ {"rcsGroup", "maxGroup", "newRcs"} : mem'[f] = mem[f]
    BY <1>6, <2>2
  <2> QED BY <1>6, <2>3 DEF Keep
<1>9. r.group \in DOMAIN mem'.rcsGroup
  <2> HIDE DEF r, g
  <2> QED BY <1>7 DEF InGroup, MapOf, Put
<1> QED BY <1>3, <1>6, <1>7, <1>8, <1>9 DEF RcsIsNow

RcsItem(r) == [r EXCEPT !.sess = ThreadOf(@, 0), !.group = RcsGroupOf(r)]

RcsEffect ==
  /\ pc = "rcs" /\ pos \in DOMAIN old.rcs
  /\ UNCHANGED <<old, sms, todo, runs>>
  /\ LET r == old.rcs[pos]
     IN \/ /\ KeyOf(r) \in DOMAIN mem.snapRcs /\ RcsIsNow(r, mem.snapRcs[KeyOf(r)])
           /\ Same /\ Quiet
        \/ /\ KeyOf(r) \notin DOMAIN mem.snapRcs /\ RcsIsNow(r, seq.rcs + 1)
           /\ DOMAIN rcs' = DOMAIN rcs \union {seq.rcs + 1} /\ seq.rcs + 1 \notin DOMAIN rcs
           /\ KeyOf(rcs'[seq.rcs + 1]) = KeyOf(r)
           /\ \A i \in DOMAIN rcs : rcs'[i] = rcs[i]
           /\ SameTels /\ Quiet
        \/ /\ KeyOf(r) \notin DOMAIN mem.snapRcs /\ UNCHANGED <<mem, pending, pc>>
           /\ pos' = pos + 1 /\ Same /\ Marked(runs) /\ SameFlags

LEMMA RcsIs == ASSUME Shape, QueryRcsTable PROVE Shape' /\ RcsEffect
<1>1. AtRow("rcs") /\ UNCHANGED <<old, todo, runs>>
  BY DEF QueryRcsTable
<1>2. pc = "rcs" /\ pos \in DOMAIN old.rcs /\ Row = old.rcs[pos]
  BY <1>1, RowIs
<1> DEFINE r == old.rcs[pos]
           key == KeyOf(r)
<1>3. IsRcsRow(r)
  BY <1>2, OldIs
<1>4. IF key \in DOMAIN mem.snapRcs
      THEN RcsCopied(mem.snapRcs[key]) /\ UNCHANGED tables /\ Works
      ELSE \/ RcsCopied(seq.rcs + 1) /\ InsertRcs(RcsItem(r)) /\ Works
           \/ /\ pos' = pos + 1
              /\ UNCHANGED <<tables, mem, pending, pc>> /\ Fails
  BY <1>2 DEF QueryRcsTable, NextId, RcsItem
<1>5. ASSUME NEW id, RcsCopied(id)
      PROVE  /\ RcsIsNow(r, id) /\ MemTyped' /\ RcsGroupOf(r) \in Int /\ pos' \in Nat \ {0}
             /\ pc' \in Steps
             /\ pc' = "integrate" => /\ pos' \in DOMAIN old'.rcs
                                     /\ old'.rcs[pos'].group \in DOMAIN mem'.rcsGroup
  <2>1. RcsIsNow(r, id) /\ r.group \in DOMAIN mem'.rcsGroup
    BY <1>1, <1>5, RcsCopiedIs
  <2>2. InGroup(TRUE, r.group, RcsGroupOf(r)) /\ Keep({"rcsGroup", "maxGroup", "newRcs"})
    BY <2>1 DEF RcsIsNow
  <2>3. /\ RcsGroupOf(r) \in Int /\ mem'.maxGroup \in Int
        /\ \A k \in DOMAIN mem'.rcsGroup : mem'.rcsGroup[k] \in Int
        /\ \A k \in DOMAIN mem'.timeGroup : mem'.timeGroup[k] \in Int
    <3> HIDE DEF r
    <3> QED BY <2>2, InGroupTyped DEF Shape
  <2>4. DOMAIN mem' = MemFields /\ mem'.mmsFailed = mem.mmsFailed
    BY <2>2 DEF Keep, MemFields
  <2>5. MemTyped'
    BY <2>3, <2>4 DEF Shape, MemTyped
  <2>6. pos' \in Nat \ {0} /\ pc' \in Steps
    BY <1>2, <2>1 DEF RcsIsNow, Shape, Steps, Phases
  <2>7. ASSUME pc' = "integrate" PROVE pos' = pos /\ old' = old
    BY <1>1, <1>2, <2>1, <2>7 DEF RcsIsNow
  <2> QED BY <1>2, <2>1, <2>3, <2>5, <2>6, <2>7
<1>6. CASE key \in DOMAIN mem.snapRcs
  <2>1. /\ RcsIsNow(r, mem.snapRcs[key]) /\ MemTyped' /\ pos' \in Nat \ {0} /\ pc' \in Steps
        /\ pc' = "integrate" => /\ pos' \in DOMAIN old'.rcs
                                /\ old'.rcs[pos'].group \in DOMAIN mem'.rcsGroup
    BY <1>4, <1>5, <1>6
  <2>2. Same /\ TablesTyped'
    BY <1>4, <1>6, SameTyped DEF Shape
  <2>3. Quiet /\ FlawsTyped' /\ troubles' \in Nat
    BY <1>4, <1>6, WorksIs, WorksQuiet
  <2>4. RcsEffect
    BY <1>1, <1>2, <1>6, <2>1, <2>2, <2>3 DEF RcsEffect, Same
  <2> QED BY <1>1, <2>1, <2>2, <2>3, <2>4 DEF Shape
<1>7. CASE key \notin DOMAIN mem.snapRcs /\ RcsCopied(seq.rcs + 1) /\ InsertRcs(RcsItem(r)) /\ Works
  <2>1. /\ RcsIsNow(r, seq.rcs + 1) /\ MemTyped' /\ RcsGroupOf(r) \in Int /\ pos' \in Nat \ {0}
        /\ pc' \in Steps
        /\ pc' = "integrate" => /\ pos' \in DOMAIN old'.rcs
                                /\ old'.rcs[pos'].group \in DOMAIN mem'.rcsGroup
    BY <1>5, <1>7
  <2>2. IsRcsRow(RcsItem(r)) /\ KeyOf(RcsItem(r)) = key
    <3> DEFINE th == ThreadOf(r.sess, 0)
               g == RcsGroupOf(r)
    <3>1. RcsItem(r) = [r EXCEPT !.sess = th, !.group = g]
      BY DEF RcsItem
    <3> HIDE DEF th, g
    <3>2. r = [sess |-> r.sess, num |-> r.num, in |-> r.in, time |-> r.time, group |-> r.group,
               read |-> r.read]
      BY <1>3 DEF IsRcsRow
    <3>3. RcsItem(r) = [sess |-> th, num |-> r.num, in |-> r.in, time |-> r.time, group |-> g,
                        read |-> r.read]
      BY <3>1, <3>2
    <3>4. g \in Int
      BY <2>1 DEF g
    <3> QED BY <3>3, <3>4 DEF IsRcsRow, KeyOf
  <2>3. /\ DOMAIN rcs' = DOMAIN rcs \union {seq.rcs + 1} /\ seq.rcs + 1 \notin DOMAIN rcs
        /\ rcs'[seq.rcs + 1] = RcsItem(r)
        /\ \A i \in DOMAIN rcs : rcs'[i] = rcs[i]
        /\ sms' = sms /\ SameTels /\ TablesTyped'
    BY <1>7, <2>2, InsertRcsIs DEF Shape
  <2>4. Quiet /\ FlawsTyped' /\ troubles' \in Nat
    BY <1>7, WorksIs, WorksQuiet
  <2>5. RcsEffect
    BY <1>1, <1>2, <1>7, <2>1, <2>2, <2>3, <2>4 DEF RcsEffect
  <2> QED BY <1>1, <2>1, <2>3, <2>4, <2>5 DEF Shape
<1>8. CASE key \notin DOMAIN mem.snapRcs /\ pos' = pos + 1 /\ UNCHANGED <<tables, mem, pending, pc>> /\ Fails
  <2>1. Same /\ TablesTyped'
    BY <1>8, SameTyped DEF Shape
  <2>2. Marked(runs) /\ SameFlags /\ FlawsTyped' /\ troubles' \in Nat
    BY <1>8, FailsIs, FailsMarks DEF Fails
  <2>3. RcsEffect
    BY <1>1, <1>2, <1>8, <2>1, <2>2 DEF RcsEffect, Same
  <2>4. MemTyped' /\ pos' \in Nat \ {0} /\ pc' # "integrate"
    BY <1>2, <1>8 DEF Shape, MemTyped
  <2> QED BY <1>1, <1>8, <2>1, <2>2, <2>3, <2>4 DEF Shape
<1> QED BY <1>4, <1>6, <1>7, <1>8

(* The message an RCS row without one is given.                            *)
OwnItem(r) ==
  [sess |-> ThreadOf(r.sess, NoSession), num |-> r.num, in |-> r.in, time |-> r.time,
   rich |-> TRUE, rcs |-> mem.newRcs, group |-> mem.rcsGroup[r.group],
   state |-> "ok", read |-> r.read, from |-> -pos, run |-> runs]

IntegrateEffect ==
  /\ pc = "integrate" /\ pos \in DOMAIN old.rcs /\ pc' = "rcs" /\ pos' = pos + 1
  /\ UNCHANGED <<old, rcs, todo, mem, pending, runs>>
  /\ \/ Inserted(OwnItem(old.rcs[pos])) /\ SameTels /\ Quiet
     \/ Same /\ Marked(runs) /\ SameFlags

LEMMA IntegrateIs == ASSUME Shape, GetSmsMmsInfoItemFromRcsInfo PROVE Shape' /\ IntegrateEffect
<1> DEFINE r == old.rcs[pos]
<1>1. /\ pc = "integrate" /\ pc' = "rcs" /\ pos' = pos + 1
      /\ UNCHANGED <<old, todo, mem, pending, runs>>
  BY DEF GetSmsMmsInfoItemFromRcsInfo
<1>2. pos \in DOMAIN old.rcs /\ r.group \in DOMAIN mem.rcsGroup /\ Row = r
  BY <1>1, RowIs DEF Shape
<1>3. \/ InsertSms(OwnItem(r)) /\ Works
      \/ UNCHANGED tables /\ Fails
  BY <1>2 DEF GetSmsMmsInfoItemFromRcsInfo, OwnItem
<1>4. MemTyped' /\ pos' \in Nat \ {0} /\ pc' \in Steps /\ pc' # "integrate"
  BY <1>1 DEF Shape, MemTyped, Steps, Phases
<1>5. CASE InsertSms(OwnItem(r)) /\ Works
  <2>1. IsMessage(OwnItem(r))
    <3>1. r.time \in Nat
      BY <1>2, OldIs DEF RcsRow
    <3>2. mem.rcsGroup[r.group] \in Int /\ -pos \in Int /\ runs \in Nat
      BY <1>2 DEF Shape, MemTyped
    <3> QED BY <3>1, <3>2 DEF IsMessage, OwnItem, RowOf
  <2>2. Inserted(OwnItem(r)) /\ rcs' = rcs /\ SameTels /\ TablesTyped'
    BY <1>5, <2>1, InsertSmsIs DEF Shape
  <2>3. Quiet /\ FlawsTyped' /\ troubles' \in Nat
    BY <1>5, WorksIs, WorksQuiet
  <2>4. IntegrateEffect
    BY <1>1, <1>2, <2>2, <2>3 DEF IntegrateEffect
  <2> QED BY <1>1, <1>4, <2>2, <2>3, <2>4 DEF Shape
<1>6. CASE UNCHANGED tables /\ Fails
  <2>1. Same /\ TablesTyped'
    BY <1>6, SameTyped DEF Shape
  <2>2. Marked(runs) /\ SameFlags /\ FlawsTyped' /\ troubles' \in Nat
    BY <1>6, FailsIs, FailsMarks DEF Fails
  <2>3. IntegrateEffect
    BY <1>1, <1>2, <2>1, <2>2 DEF IntegrateEffect, Same
  <2> QED BY <1>1, <1>4, <2>1, <2>2, <2>3 DEF Shape
<1> QED BY <1>3, <1>5, <1>6

(* A row b that is row a, but for its rcs.                                 *)
SameButRcs(a, b) ==
  /\ b.sess = a.sess /\ KeyOf(b) = KeyOf(a) /\ b.rich = a.rich /\ b.time = a.time
  /\ b.group = a.group /\ b.state = a.state /\ b.read = a.read /\ b.from = a.from
  /\ b.run = a.run

Relinked(u) ==
  /\ u.msg \in DOMAIN sms /\ DOMAIN sms' = DOMAIN sms
  /\ SameButRcs(sms[u.msg], sms'[u.msg]) /\ sms'[u.msg].rcs = u.rcs
  /\ \A i \in DOMAIN sms : i # u.msg => sms'[i] = sms[i]

UpdateEffect ==
  \E u \in pending :
    /\ pending' = pending \ {u}
    /\ UNCHANGED <<old, rcs, pc, pos, todo, mem, runs>>
    /\ \/ /\ Relinked(u) /\ SameTels
          /\ \A i \in DOMAIN session : i # sms[u.msg].sess => session'[i] = session[i]
          /\ flaws'.failed = flaws.failed /\ flaws'.blind = flaws.blind
          /\ flaws'.late = flaws.late
          /\ flaws'.stale = IF Late THEN flaws.stale \union {sms[u.msg].sess} ELSE flaws.stale
       \/ Same /\ Marked(runs) /\ SameFlags
       \/ u.msg \notin DOMAIN sms /\ Same /\ Quiet

LEMMA UpdateIs == ASSUME Shape, UpdateSms PROVE Shape' /\ UpdateEffect
<1>1. PICK u \in pending :
        /\ IF u.msg \in DOMAIN sms
           THEN \/ /\ sms' = [sms EXCEPT ![u.msg].rcs = u.rcs]
                   /\ UNCHANGED <<rcs, seq, troubles>>
                   /\ Triggered(sms[u.msg])
                   /\ flaws' = IF Late THEN [flaws EXCEPT !.stale = @ \union {sms[u.msg].sess}]
                               ELSE flaws
                \/ UNCHANGED tables /\ Fails
           ELSE UNCHANGED <<tables, troubles, flaws>>
        /\ pending' = pending \ {u}
        /\ UNCHANGED <<old, pc, pos, todo, mem, runs>>
  BY DEF UpdateSms
<1>2. MemTyped'
  BY <1>1 DEF Shape, MemTyped
<1>3. CASE /\ u.msg \in DOMAIN sms /\ sms' = [sms EXCEPT ![u.msg].rcs = u.rcs]
           /\ UNCHANGED <<rcs, seq, troubles>> /\ Triggered(sms[u.msg])
           /\ flaws' = IF Late THEN [flaws EXCEPT !.stale = @ \union {sms[u.msg].sess}]
                       ELSE flaws
  <2> DEFINE r == sms[u.msg]
  <2>1. IsMessage(r)
    BY <1>3 DEF Shape, TablesTyped
  <2>2. /\ DOMAIN sms' = DOMAIN sms /\ sms'[u.msg] = [r EXCEPT !.rcs = u.rcs]
        /\ \A i \in DOMAIN sms : i # u.msg => sms'[i] = sms[i]
    BY <1>3
  <2>3. [r EXCEPT !.rcs = u.rcs] =
          [sess |-> r.sess, num |-> r.num, in |-> r.in, time |-> r.time, rich |-> r.rich,
           rcs |-> u.rcs, group |-> r.group, state |-> r.state, read |-> r.read,
           from |-> r.from, run |-> r.run]
    <3>1. r = RowOf(r, r.from, r.run)
      BY <2>1 DEF IsMessage
    <3> HIDE DEF r
    <3>2. r = [sess |-> r.sess, num |-> r.num, in |-> r.in, time |-> r.time, rich |-> r.rich,
               rcs |-> r.rcs, group |-> r.group, state |-> r.state, read |-> r.read,
               from |-> r.from, run |-> r.run]
      BY <3>1 DEF RowOf
    <3> QED BY <3>2
  <2>4. SameButRcs(r, sms'[u.msg]) /\ sms'[u.msg].rcs = u.rcs
    BY <2>2, <2>3 DEF SameButRcs, KeyOf
  <2>5. IsMessage(sms'[u.msg])
    <3> HIDE DEF r
    <3> QED BY <2>1, <2>2, <2>3 DEF IsMessage, RowOf
  <2>6. Relinked(u)
    BY <1>3, <2>2, <2>4 DEF Relinked
  <2>7. SameTels /\ \A i \in DOMAIN session : i # r.sess => session'[i] = session[i]
    BY <1>3, TriggeredIs DEF Shape
  <2>8. TablesTyped'
    <3>1. seq' = seq /\ rcs' = rcs
      BY <1>3
    <3>2. \A i \in DOMAIN sms' : IsMessage(sms'[i])
      BY <2>2, <2>5 DEF Shape, TablesTyped
    <3>3. DOMAIN session' = DOMAIN session /\ \A i \in DOMAIN session : IsSession(session'[i])
      BY <2>7 DEF SameTels
    <3> QED BY <2>2, <3>1, <3>2, <3>3 DEF Shape, TablesTyped
  <2>9. /\ flaws' = [failed |-> flaws.failed, blind |-> flaws.blind, late |-> flaws.late,
                     stale |-> IF Late THEN flaws.stale \union {r.sess} ELSE flaws.stale]
    BY <1>3 DEF Shape, FlawsTyped
  <2>10. /\ flaws'.failed = flaws.failed /\ flaws'.blind = flaws.blind
         /\ flaws'.late = flaws.late
         /\ flaws'.stale = IF Late THEN flaws.stale \union {r.sess} ELSE flaws.stale
    BY <2>9
  <2>11. FlawsTyped' /\ troubles' \in Nat
    BY <1>3, <2>9, <2>10 DEF Shape, FlawsTyped
  <2>12. UpdateEffect
    BY <1>1, <1>3, <2>6, <2>7, <2>10 DEF UpdateEffect
  <2> QED BY <1>1, <1>2, <2>8, <2>11, <2>12 DEF Shape
<1>4. CASE UNCHANGED tables /\ Fails
  <2>1. Same /\ TablesTyped'
    BY <1>4, SameTyped DEF Shape
  <2>2. Marked(runs) /\ SameFlags /\ FlawsTyped' /\ troubles' \in Nat
    BY <1>4, FailsIs, FailsMarks DEF Fails
  <2>3. UpdateEffect
    BY <1>1, <2>1, <2>2 DEF UpdateEffect, Same
  <2> QED BY <1>1, <1>2, <2>1, <2>2, <2>3 DEF Shape
<1>5. CASE u.msg \notin DOMAIN sms /\ UNCHANGED <<tables, troubles, flaws>>
  <2>1. Same /\ TablesTyped'
    BY <1>5, SameTyped DEF Shape
  <2>2. Quiet /\ FlawsTyped' /\ troubles' \in Nat
    BY <1>5 DEF Shape, FlawsTyped, Quiet, SameFlags
  <2>3. UpdateEffect
    BY <1>1, <1>5, <2>1, <2>2 DEF UpdateEffect, Same
  <2> QED BY <1>1, <1>2, <2>1, <2>2, <2>3 DEF Shape
<1> QED BY <1>1, <1>3, <1>4, <1>5

-----------------------------------------------------------------------------
(* Putting the sessions right changes no message but drafts.               *)
TidyEffect ==
  /\ pc \in {"rcs", "drafts", "sending", "unread", "count"} /\ (pc = "rcs" => AtEnd("rcs"))
  /\ pc' \in {"drafts", "sending", "unread", "count", "done"}
  /\ UNCHANGED <<old, sms, rcs, seq, pos, mem, pending, runs>>
  /\ SameTels /\ Troubled

DraftEffect ==
  /\ pc = "drafts" /\ pc' = "drafts"
  /\ UNCHANGED <<old, rcs, seq, pos, mem, pending, runs>> /\ SameTels
  /\ DOMAIN sms' \subseteq DOMAIN sms
  /\ \A i \in DOMAIN sms' : sms'[i] = sms[i]
  /\ \A i \in DOMAIN sms \ DOMAIN sms' : sms[i].state = "draft"
  /\ Troubled

(* A step from one of these phases to another, with the tables as said.    *)
LEMMA TidyShape ==
  ASSUME Shape, pc' \in Steps \ {"integrate"}, UNCHANGED <<old, pos, mem, runs>>, TablesTyped', Works \/ Fails
  PROVE  Shape' /\ Troubled
<1>1. Troubled /\ FlawsTyped' /\ troubles' \in Nat
  BY WorksIs, WorksQuiet, FailsIs, FailsMarks DEF Troubled, Fails
<1> QED BY <1>1 DEF Shape, MemTyped

LEMMA SameTelsIf ==
  ASSUME TablesTyped, session' = session PROVE SameTels
BY DEF TablesTyped, SameTels

LEMMA UpdatedTels ==
  ASSUME TablesTyped, NEW s, NEW row, UpdateSession(s, row),
         s \in DOMAIN session => /\ IsSession(row) /\ row.tel = session[s].tel
                                 /\ row.draft = session[s].draft
  PROVE  SameTels /\ TablesTyped' /\ UNCHANGED <<sms, rcs, seq>>
<1>1. /\ DOMAIN session' = DOMAIN session /\ UNCHANGED <<sms, rcs, seq>>
      /\ s \in DOMAIN session => session'[s] = row
      /\ \A i \in DOMAIN session : i # s => session'[i] = session[i]
      /\ TablesTyped'
  BY UpdateSessionIs
<1>2. \A i \in DOMAIN session : /\ IsSession(session'[i]) /\ session'[i].tel = session[i].tel
                                /\ session'[i].draft = session[i].draft
  BY <1>1 DEF TablesTyped
<1> QED BY <1>1, <1>2 DEF SameTels

LEMMA ThenIs ==
  ASSUME NEW from, NEW to, NEW plan, Then(from, to, plan)
  PROVE  pc = from /\ pc' = to /\ UNCHANGED <<old, pos, mem, pending, runs>>
BY DEF Then

LEMMA DidIs ==
  ASSUME NEW step, NEW s, Did(step, s)
  PROVE  pc = step /\ pc' = step /\ UNCHANGED <<old, pos, mem, pending, runs>>
BY DEF Did

LEMMA TidyFrom ==
  ASSUME Shape, pc \in {"rcs", "drafts", "sending", "unread", "count"}, pc = "rcs" => AtEnd("rcs"),
         pc' \in {"drafts", "sending", "unread", "count", "done"},
         UNCHANGED <<old, sms, rcs, seq, pos, mem, pending, runs>>, SameTels, TablesTyped',
         Works \/ Fails
  PROVE  Shape' /\ TidyEffect
<1>1. Shape' /\ Troubled
  BY TidyShape DEF Steps
<1> QED BY <1>1 DEF TidyEffect

LEMMA TidyIfTables ==
  ASSUME Shape, pc \in {"rcs", "drafts", "sending", "unread", "count"}, pc = "rcs" => AtEnd("rcs"),
         pc' \in {"drafts", "sending", "unread", "count", "done"},
         UNCHANGED <<old, tables, pos, mem, pending, runs>>, Works \/ Fails
  PROVE  Shape' /\ TidyEffect
<1>1. Same /\ TablesTyped' /\ SameTels
  BY SameTyped, SameTelsIf DEF Shape, Same
<1> QED BY <1>1, TidyFrom DEF Same

LEMMA StartDraftsIs == ASSUME Shape, StartDrafts PROVE Shape' /\ TidyEffect
<1>1. AtEnd("rcs") /\ pc = "rcs" /\ pc' = "drafts" /\ UNCHANGED <<old, tables, pos, mem, pending, runs>> /\ Works
  BY RowIs, ThenIs DEF StartDrafts
<1> QED BY <1>1, TidyIfTables

LEMMA DeleteDraftIs == ASSUME Shape, DeleteInvalidDraft PROVE Shape' /\ DraftEffect
<1>1. PICK s \in DOMAIN todo :
        /\ Did("drafts", s)
        /\ \/ /\ sms' = IF todo[s] \in DraftTimes(s)
                        THEN Restrict(sms, DOMAIN sms \ {i \in DOMAIN sms : /\ sms[i].sess = s
                                                           /\ sms[i].state = "draft"
                                                           /\ sms[i].time # todo[s]}) ELSE sms
              /\ UNCHANGED <<session, rcs, seq>> /\ Works
           \/ UNCHANGED tables /\ Fails
  BY DEF DeleteInvalidDraft
<1>2. pc = "drafts" /\ pc' = "drafts" /\ UNCHANGED <<old, pos, mem, pending, runs>>
  BY <1>1, DidIs
<1>3. /\ DOMAIN sms' \subseteq DOMAIN sms
      /\ \A i \in DOMAIN sms' : sms'[i] = sms[i]
      /\ \A i \in DOMAIN sms \ DOMAIN sms' : sms[i].state = "draft"
      /\ UNCHANGED <<session, rcs, seq>> /\ (Works \/ Fails)
  BY <1>1 DEF Restrict, tables
<1>4. SameTels /\ TablesTyped'
  <2>1. SameTels
    BY <1>3, SameTelsIf DEF Shape
  <2> QED BY <1>3, <2>1 DEF Shape, TablesTyped
<1>5. Shape' /\ Troubled
  BY <1>2, <1>3, <1>4, TidyShape DEF Steps
<1> QED BY <1>2, <1>3, <1>4, <1>5 DEF DraftEffect

LEMMA SendingIs == ASSUME Shape, ProcessUpdateSession PROVE Shape' /\ TidyEffect
<1>1. CASE \E plan : Then("drafts", "sending", plan) /\ UNCHANGED tables /\ Works
  <2>1. pc = "drafts" /\ pc' = "sending" /\ UNCHANGED <<old, tables, pos, mem, pending, runs>> /\ Works
    BY <1>1, ThenIs
  <2> QED BY <2>1, TidyIfTables
<1>2. ASSUME NEW s \in DOMAIN todo, Did("sending", s), Works,
             UpdateSession(s, [session[s] EXCEPT !.sending = todo[s]])
      PROVE  Shape' /\ TidyEffect
  <2>1. pc = "sending" /\ pc' = "sending" /\ UNCHANGED <<old, pos, mem, pending, runs>>
    BY <1>2, DidIs
  <2> DEFINE row == [session[s] EXCEPT !.sending = todo[s]]
  <2>2. s \in DOMAIN session => /\ IsSession(row) /\ row.tel = session[s].tel
                                /\ row.draft = session[s].draft
    BY SessionWith DEF Shape, TablesTyped
  <2> HIDE DEF row
  <2>3. SameTels /\ TablesTyped' /\ UNCHANGED <<sms, rcs, seq>>
    BY <1>2, <2>2, UpdatedTels DEF Shape, row
  <2> QED BY <1>2, <2>1, <2>3, TidyFrom
<1>3. CASE Abandoned("sending")
  <2>1. pc = "sending" /\ pc' = "sending" /\ UNCHANGED <<old, tables, pos, mem, pending, runs>> /\ Fails
    BY <1>3 DEF Abandoned
  <2> QED BY <2>1, TidyIfTables
<1> QED BY <1>1, <1>2, <1>3 DEF ProcessUpdateSession

LEMMA UnreadIs == ASSUME Shape, RecountAndUpdateUnread PROVE Shape' /\ TidyEffect
<1>1. CASE /\ \E plan : Then("sending", "unread", plan)
           /\ session' = ResetUnread \/ UNCHANGED session
           /\ Works \/ Fails
           /\ UNCHANGED <<sms, rcs, seq>>
  <2>1. pc = "sending" /\ pc' = "unread" /\ UNCHANGED <<old, pos, mem, pending, runs>>
    BY <1>1, ThenIs
  <2>2. SameTels
    <3>1. CASE session' = ResetUnread
      BY <3>1, SessionWith DEF ResetUnread, SameTels, Shape, TablesTyped
    <3>2. CASE session' = session
      BY <3>2, SameTelsIf DEF Shape
    <3> QED BY <1>1, <3>1, <3>2
  <2>3. TablesTyped'
    BY <1>1, <2>2 DEF SameTels, Shape, TablesTyped
  <2> QED BY <1>1, <2>1, <2>2, <2>3, TidyFrom
<1>2. ASSUME NEW s \in DOMAIN todo, Did("unread", s),
             \/ UpdateSession(s, [session[s] EXCEPT !.unread = todo[s]]) /\ Works
             \/ UNCHANGED tables /\ Fails
      PROVE  Shape' /\ TidyEffect
  <2>1. pc = "unread" /\ pc' = "unread" /\ UNCHANGED <<old, pos, mem, pending, runs>>
    BY <1>2, DidIs
  <2> DEFINE row == [session[s] EXCEPT !.unread = todo[s]]
  <2>2. s \in DOMAIN session => /\ IsSession(row) /\ row.tel = session[s].tel
                                /\ row.draft = session[s].draft
    BY SessionWith DEF Shape, TablesTyped
  <2> HIDE DEF row
  <2>3. UpdateSession(s, row) => SameTels /\ TablesTyped' /\ UNCHANGED <<sms, rcs, seq>>
    BY <2>2, UpdatedTels DEF Shape
  <2>4. CASE UpdateSession(s, row) /\ Works
    BY <2>1, <2>3, <2>4, TidyFrom
  <2>5. CASE UNCHANGED tables /\ Fails
    BY <2>1, <2>5, TidyIfTables
  <2> QED BY <1>2, <2>4, <2>5 DEF row
<1> QED BY <1>1, <1>2 DEF RecountAndUpdateUnread

LEMMA CountIs == ASSUME Shape, UpdateSessionMsgCount PROVE Shape' /\ TidyEffect
<1>1. CASE \E plan : Then("unread", "count", plan) /\ UNCHANGED tables /\ Works
  <2>1. pc = "unread" /\ pc' = "count" /\ UNCHANGED <<old, tables, pos, mem, pending, runs>> /\ Works
    BY <1>1, ThenIs
  <2> QED BY <2>1, TidyIfTables
<1>2. ASSUME NEW s \in DOMAIN todo, Did("count", s), Works,
             UpdateSession(s, [session[s] EXCEPT !.count = todo[s]])
      PROVE  Shape' /\ TidyEffect
  <2>1. pc = "count" /\ pc' = "count" /\ UNCHANGED <<old, pos, mem, pending, runs>>
    BY <1>2, DidIs
  <2> DEFINE row == [session[s] EXCEPT !.count = todo[s]]
  <2>2. s \in DOMAIN session => /\ IsSession(row) /\ row.tel = session[s].tel
                                /\ row.draft = session[s].draft
    BY SessionWith DEF Shape, TablesTyped
  <2> HIDE DEF row
  <2>3. SameTels /\ TablesTyped' /\ UNCHANGED <<sms, rcs, seq>>
    BY <1>2, <2>2, UpdatedTels DEF Shape, row
  <2> QED BY <1>2, <2>1, <2>3, TidyFrom
<1>3. CASE Abandoned("count")
  <2>1. pc = "count" /\ pc' = "count" /\ UNCHANGED <<old, tables, pos, mem, pending, runs>> /\ Fails
    BY <1>3 DEF Abandoned
  <2> QED BY <2>1, TidyIfTables
<1> QED BY <1>1, <1>2, <1>3 DEF UpdateSessionMsgCount

LEMMA FinishIs == ASSUME Shape, Finish PROVE Shape' /\ TidyEffect
<1>1. pc = "count" /\ pc' = "done" /\ UNCHANGED <<old, tables, pos, mem, pending, runs>> /\ Works
  BY ThenIs DEF Finish
<1> QED BY <1>1, TidyIfTables

-----------------------------------------------------------------------------
(* A message received.                                                     *)
ReceiveEffect ==
  \E t \in Tels, row \in {sms'[seq.sms + 1]} :
    /\ UNCHANGED <<old, rcs, pc, pos, todo, mem, pending, runs>> /\ troubles' = troubles + 1
    /\ Inserted(row)
    /\ row.from = 0 /\ row.run = 0 /\ KeyOf(row) = <<t, TRUE, Now + troubles>> /\ row.rich = FALSE
    /\ row.state = "ok" /\ row.sess \in DOMAIN session' /\ row.time = Now + troubles
    /\ row.group > 0 /\ \A i \in DOMAIN sms : row.group > sms[i].group
    /\ \A i \in DOMAIN session : i # row.sess => session'[i] = session[i]
    /\ \/ SameTels /\ flaws'.late = (flaws.late \/ pc # "done")
       \/ /\ \A s \in DOMAIN session : session[s].tel # t
          /\ DOMAIN session' = DOMAIN session \union {row.sess}
          /\ session'[row.sess].tel = t
          /\ row.sess \notin DOMAIN session /\ flaws'.late = TRUE
    /\ flaws'.failed = flaws.failed /\ flaws'.blind = flaws.blind
    /\ flaws'.stale = IF Late THEN flaws.stale \union {row.sess} ELSE flaws.stale

(* The greatest group of either table.                                     *)
LEMMA NewGroupIs ==
  ASSUME TablesTyped, NEW groups,
         groups = {sms[i].group : i \in DOMAIN sms} \union {rcs[i].group : i \in DOMAIN rcs}
  PROVE  /\ Max(groups \union {0}) + 1 \in Int /\ Max(groups \union {0}) + 1 > 0
         /\ \A i \in DOMAIN sms : Max(groups \union {0}) + 1 > sms[i].group
<1> DEFINE g == [i \in DOMAIN sms |-> sms[i].group]
           h == [i \in DOMAIN rcs |-> rcs[i].group]
           S == groups \union {0}
<1>1. IsFiniteSet(Range(g)) /\ IsFiniteSet(Range(h))
  BY ValuesFinite DEF TablesTyped
<1>2. S = (Range(g) \union Range(h)) \union {0}
  BY DEF Range
<1>3. S \subseteq Int /\ 0 \in S /\ \A i \in DOMAIN sms : sms[i].group \in S
  BY DEF TablesTyped, IsMessage, IsRcsRow
<1>4. IsFiniteSet(S)
  <2>1. IsFiniteSet({0})
    BY FS_Singleton
  <2> HIDE DEF S, g, h
  <2>2. IsFiniteSet(Range(g) \union Range(h))
    BY <1>1, FS_Union
  <2> QED BY <1>2, <2>1, <2>2, FS_Union
<1>5. Max(S) \in S /\ \A y \in S : y <= Max(S)
  <2> HIDE DEF S
  <2> QED BY <1>3, <1>4, MaxIs
<1>6. Max(S) \in Int /\ Max(S) >= 0
  BY <1>3, <1>5
<1> HIDE DEF S
<1>7. \A i \in DOMAIN sms : Max(S) + 1 > sms[i].group
  <2> TAKE i \in DOMAIN sms
  <2>1. sms[i].group \in S /\ sms[i].group \in Int /\ sms[i].group <= Max(S)
    BY <1>3, <1>5
  <2> QED BY <1>6, <2>1
<1> QED BY <1>6, <1>7 DEF S

LEMMA ReceiveIs == ASSUME Shape, NEW t \in Tels, Receive(t) PROVE Shape' /\ ReceiveEffect
<1> DEFINE ofT == {s \in DOMAIN session : session[s].tel = t}
           s == IF ofT = {} THEN seq.session + 1 ELSE Max(ofT)
           time == Now + troubles
           groups == {sms[i].group : i \in DOMAIN sms} \union {rcs[i].group : i \in DOMAIN rcs}
           g == Max(groups \union {0}) + 1
           before == IF ofT = {} THEN [tel |-> t, time |-> time, draft |-> FALSE, pin |-> 0,
                                  sending |-> "ok", unread |-> 0, count |-> 0]
                     ELSE session[s]
           row == [sess |-> s, num |-> t, in |-> TRUE, time |-> time, rich |-> FALSE, rcs |-> NoRcs,
                   group |-> g, state |-> "ok", read |-> FALSE, from |-> 0, run |-> 0]
           n == TriggerCount(sms', rcs, s)
           sesrow == [before EXCEPT !.time = time, !.count = before.count + 1, !.unread = n]
<1>1. /\ troubles' = troubles + 1
      /\ sms' = Put(sms, seq.sms + 1, row)
      /\ seq' = [seq EXCEPT !.sms = seq.sms + 1,
                            !.session = IF ofT = {} THEN s ELSE seq.session]
      /\ session' = Put(session, s, sesrow)
      /\ flaws' = [flaws EXCEPT !.late = flaws.late \/ pc # "done" \/ ofT = {},
                                !.stale = IF Late THEN flaws.stale \union {s} ELSE flaws.stale]
      /\ UNCHANGED <<old, rcs, pc, pos, todo, mem, pending, runs>>
  <2>1. /\ troubles' = troubles + 1
        /\ sms' = Put(sms, seq.sms + 1, row)
        /\ UNCHANGED <<old, rcs, pc, pos, todo, mem, pending, runs>>
    BY DEF Receive, NextId, Trouble
  <2>2. seq' = [seq EXCEPT !.sms = seq.sms + 1,
                            !.session = IF ofT = {} THEN s ELSE seq.session]
    BY DEF Receive, NextId
  <2>3. session' = Put(session, s, sesrow)
    BY DEF Receive, NextId
  <2>4. flaws' = [flaws EXCEPT !.late = flaws.late \/ pc # "done" \/ ofT = {},
                                !.stale = IF Late THEN flaws.stale \union {s} ELSE flaws.stale]
    BY DEF Receive, NextId
  <2> QED BY <2>1, <2>2, <2>3, <2>4
<1>2. ofT # {} => s \in DOMAIN session /\ session[s].tel = t
  <2> SUFFICES ASSUME ofT # {} PROVE s \in ofT
    OBVIOUS
  <2>1. IsFiniteSet(ofT) /\ ofT \subseteq Int
    <3>1. IsFiniteSet(DOMAIN session)
      BY ValuesFinite DEF Shape, TablesTyped
    <3> QED BY <3>1, FS_Subset DEF Shape, TablesTyped
  <2> HIDE DEF ofT
  <2> QED BY <2>1, MaxIs
<1>3. ofT = {} => s = seq.session + 1 /\ s \notin DOMAIN session
                  /\ \A x \in DOMAIN session : session[x].tel # t
  <2>1. seq.session + 1 \notin DOMAIN session
    BY DEF Shape, TablesTyped
  <2> QED BY <2>1
<1>4. g \in Int /\ g > 0 /\ \A i \in DOMAIN sms : g > sms[i].group
  <2> HIDE DEF groups
  <2> QED BY NewGroupIs DEF Shape, groups
<1>5. time \in Nat
  BY NextCopyAssumption DEF Shape
<1>6. IsSession(before) /\ before.tel = t
  <2>1. CASE ofT = {}
    BY <2>1 DEF IsSession
  <2>2. CASE ofT # {}
    <3> HIDE DEF s, ofT
    <3> QED BY <1>2, <2>2 DEF Shape, TablesTyped
  <2> QED BY <2>1, <2>2
<1> HIDE DEF groups, g, before, n, time
<1>7. IsSession(sesrow) /\ sesrow.tel = t /\ sesrow.draft = before.draft
  <2>1. before = [tel |-> before.tel, time |-> before.time, draft |-> before.draft, pin |-> before.pin,
                  sending |-> before.sending, unread |-> before.unread, count |-> before.count]
        /\ before.tel \in Tels
    BY <1>6 DEF IsSession
  <2> DEFINE c == before.count + 1
  <2>2. sesrow = [before EXCEPT !.time = time, !.count = c, !.unread = n]
    OBVIOUS
  <2> HIDE DEF sesrow, c
  <2>3. sesrow = [tel |-> before.tel, time |-> time, draft |-> before.draft, pin |-> before.pin,
                  sending |-> before.sending, unread |-> n, count |-> c]
    BY <2>1, <2>2
  <2> QED BY <1>6, <2>1, <2>3 DEF IsSession
<1> HIDE DEF s, ofT, sesrow
<1>8. /\ DOMAIN session' = DOMAIN session \union {s} /\ session'[s] = sesrow
      /\ \A i \in DOMAIN session : i # s => session'[i] = session[i]
  BY <1>1 DEF Put
<1>9. IsMessage(row)
  BY <1>4, <1>5 DEF IsMessage, RowOf
<1>10. Inserted(row)
  <2>1. seq.sms + 1 \notin DOMAIN sms
    BY DEF Shape, TablesTyped
  <2> DEFINE k == seq.sms + 1
  <2>2. sms' = Put(sms, k, row)
    BY <1>1
  <2> HIDE DEF k, row
  <2>3. /\ DOMAIN sms' = DOMAIN sms \union {k} /\ sms'[k] = row
        /\ \A i \in DOMAIN sms : i # k => sms'[i] = sms[i]
    BY <2>2 DEF Put
  <2> QED BY <2>1, <2>2, <2>3 DEF Inserted, k
<1>11. /\ flaws' = [failed |-> flaws.failed, blind |-> flaws.blind,
                    late |-> (flaws.late \/ pc # "done" \/ ofT = {}),
                    stale |-> IF Late THEN flaws.stale \union {s} ELSE flaws.stale]
  BY <1>1 DEF Shape, FlawsTyped
<1>12. FlawsTyped' /\ troubles' \in Nat
  <2>1. flaws'.late = (flaws.late \/ pc # "done" \/ ofT = {}) /\ flaws'.blind = flaws.blind
    BY <1>11
  <2>2. flaws'.late \in BOOLEAN /\ flaws'.blind \in BOOLEAN
    BY <2>1 DEF Shape, FlawsTyped
  <2>3. troubles' \in Nat
    BY <1>1 DEF Shape
  <2> QED BY <1>11, <2>2, <2>3 DEF FlawsTyped
<1>13. TablesTyped'
  <2> DEFINE q == IF ofT = {} THEN s ELSE seq.session
  <2>1. seq' = [session |-> q, sms |-> seq.sms + 1, rcs |-> seq.rcs]
    BY <1>1 DEF Shape, TablesTyped
  <2>2. q \in Nat /\ DOMAIN session' \subseteq 1..q
    <3>1. CASE ofT = {}
      <4>1. q = seq.session + 1 /\ DOMAIN session \subseteq 1..seq.session /\ seq.session \in Nat
        BY <1>3, <3>1 DEF Shape, TablesTyped
      <4>2. q \in 1..q /\ \A x \in 1..seq.session : x \in 1..q
        BY <4>1
      <4> QED BY <1>3, <1>8, <3>1, <4>1, <4>2
    <3>2. CASE ofT # {}
      BY <1>2, <1>8, <3>2 DEF Shape, TablesTyped
    <3> QED BY <3>1, <3>2
  <2> HIDE DEF q
  <2>3. \A i \in DOMAIN session' : IsSession(session'[i])
    BY <1>7, <1>8 DEF Shape, TablesTyped
  <2>4. /\ DOMAIN sms' \subseteq 1..(seq.sms + 1) /\ \A i \in DOMAIN sms' : IsMessage(sms'[i])
    <3> HIDE DEF row
    <3> QED BY <1>9, <1>10 DEF Inserted, Shape, TablesTyped
  <2>5. rcs' = rcs
    BY <1>1
  <2>6. seq'.session = q /\ seq'.sms = seq.sms + 1 /\ seq'.rcs = seq.rcs /\ seq.sms \in Nat /\ seq.rcs \in Nat
    BY <2>1 DEF Shape, TablesTyped
  <2>7. seq.sms + 1 \in Nat
    BY <2>6
  <2> QED BY <2>1, <2>2, <2>3, <2>4, <2>5, <2>6, <2>7 DEF Shape, TablesTyped
<1>14. /\ \/ SameTels /\ flaws'.late = (flaws.late \/ pc # "done")
          \/ /\ \A x \in DOMAIN session : session[x].tel # t
             /\ DOMAIN session' = DOMAIN session \union {s}
             /\ session'[s].tel = t
             /\ s \notin DOMAIN session /\ flaws'.late = TRUE
       /\ flaws'.failed = flaws.failed /\ flaws'.blind = flaws.blind
       /\ flaws'.stale = IF Late THEN flaws.stale \union {s} ELSE flaws.stale
  <2>1. /\ flaws'.failed = flaws.failed /\ flaws'.blind = flaws.blind
        /\ flaws'.stale = IF Late THEN flaws.stale \union {s} ELSE flaws.stale
        /\ flaws'.late = (flaws.late \/ pc # "done" \/ ofT = {})
    BY <1>11
  <2>2. CASE ofT = {}
    BY <1>3, <1>7, <1>8, <2>1, <2>2
  <2>3. CASE ofT # {}
    <3>1. s \in DOMAIN session /\ DOMAIN session' = DOMAIN session /\ session[s].tel = t
      BY <1>2, <1>8, <2>3
    <3>0. before = session[s]
      BY <2>3 DEF before
    <3>2. \A i \in DOMAIN session : /\ IsSession(session'[i]) /\ session'[i].tel = session[i].tel
                                    /\ session'[i].draft = session[i].draft
      BY <1>7, <1>8, <3>0, <3>1 DEF Shape, TablesTyped
    <3>3. flaws'.late = (flaws.late \/ pc # "done")
      BY <2>1, <2>3, Zenon
    <3> QED BY <2>1, <3>1, <3>2, <3>3 DEF SameTels
  <2> QED BY <2>2, <2>3
<1>15. ReceiveEffect
  <2>1. /\ row.from = 0 /\ row.run = 0 /\ KeyOf(row) = <<t, TRUE, Now + troubles>> /\ row.rich = FALSE
        /\ row.state = "ok" /\ row.sess = s /\ row.time = Now + troubles /\ row.group = g
    BY DEF KeyOf, time
  <2> HIDE DEF row
  <2>2. row \in {sms'[seq.sms + 1]}
    BY <1>10 DEF Inserted
  <2>3. s \in DOMAIN session'
    BY <1>8
  <2>4. UNCHANGED <<old, rcs, pc, pos, todo, mem, pending, runs>> /\ troubles' = troubles + 1
    BY <1>1
  <2>5. /\ row.group > 0 /\ \A i \in DOMAIN sms : row.group > sms[i].group
    BY <1>4, <2>1
  <2> QED BY <1>8, <1>10, <1>14, <2>1, <2>2, <2>3, <2>4, <2>5 DEF ReceiveEffect
<1>16. MemTyped'
  BY <1>1 DEF Shape, MemTyped
<1> QED BY <1>1, <1>12, <1>13, <1>15, <1>16 DEF Shape

-----------------------------------------------------------------------------
(* The first state, and any step.                                          *)
LEMMA RowOfIs ==
  ASSUME NEW m \in MsgRow, NEW from \in Int, NEW run \in Nat, NEW r, r = RowOf(m, from, run)
  PROVE  IsMessage(r) /\ r.from = from /\ r.run = run /\ KeyOf(r) = KeyOf(m)
         /\ r.state = m.state /\ r.group = m.group
<1>1. m.group \in Int /\ m.time \in Nat
  BY DEF MsgRow
<1>2. r = [sess |-> m.sess, num |-> m.num, in |-> m.in, time |-> m.time, rich |-> m.rich,
           rcs |-> m.rcs, group |-> m.group, state |-> m.state, read |-> m.read,
           from |-> from, run |-> run]
  BY DEF RowOf
<1>3. /\ r.sess = m.sess /\ r.num = m.num /\ r.in = m.in /\ r.time = m.time /\ r.rich = m.rich
      /\ r.rcs = m.rcs /\ r.group = m.group /\ r.state = m.state /\ r.read = m.read
      /\ r.from = from /\ r.run = run
  BY <1>2
<1> QED BY <1>1, <1>2, <1>3 DEF IsMessage, RowOf, KeyOf

InitEffect ==
  \E db \in NewDbs :
    /\ WellFormed(db) /\ session = db.session /\ rcs = db.rcs /\ DOMAIN sms = DOMAIN db.msg
    /\ \A i \in DOMAIN sms : /\ sms[i].from = 0 /\ sms[i].run = 0 /\ KeyOf(sms[i]) = KeyOf(db.msg[i])
                             /\ sms[i].state = db.msg[i].state /\ sms[i].time = db.msg[i].time

LEMMA InitIs == ASSUME Init PROVE Shape /\ InitEffect
<1>1. PICK db \in NewDbs :
         /\ session = db.session /\ rcs = db.rcs
         /\ sms = [i \in DOMAIN db.msg |-> RowOf(db.msg[i], 0, 0)]
         /\ seq = [session |-> Len(db.session), sms |-> Len(db.msg), rcs |-> Len(db.rcs)]
  BY DEF Init
<1>2. WellFormed(db)
  BY NextCopyAssumption
<1>3. db.session \in Seq(SessionRow) /\ db.msg \in Seq(MsgRow) /\ db.rcs \in Seq(RcsRow)
  BY <1>2 DEF WellFormed
<1>4. /\ DOMAIN db.session = 1..Len(db.session) /\ Len(db.session) \in Nat
      /\ DOMAIN db.msg = 1..Len(db.msg) /\ Len(db.msg) \in Nat
      /\ DOMAIN db.rcs = 1..Len(db.rcs) /\ Len(db.rcs) \in Nat
  BY <1>3
<1>5. \A i \in DOMAIN session : IsSession(session[i])
  <2>1. \A i \in DOMAIN session : session[i] \in SessionRow
    BY <1>1, <1>3
  <2> QED BY <2>1 DEF SessionRow, IsSession
<1>6. \A i \in DOMAIN rcs : IsRcsRow(rcs[i])
  <2>1. \A i \in DOMAIN rcs : rcs[i] \in RcsRow
    BY <1>1, <1>3
  <2> QED BY <2>1 DEF RcsRow, IsRcsRow
<1>7. \A i \in DOMAIN sms : /\ IsMessage(sms[i]) /\ sms[i].from = 0 /\ sms[i].run = 0
                            /\ KeyOf(sms[i]) = KeyOf(db.msg[i]) /\ sms[i].state = db.msg[i].state
                            /\ sms[i].time = db.msg[i].time
  <2> TAKE i \in DOMAIN sms
  <2>1. db.msg[i] \in MsgRow /\ sms[i] = RowOf(db.msg[i], 0, 0)
    BY <1>1, <1>3
  <2>2. sms[i].time = db.msg[i].time
    BY <2>1 DEF RowOf
  <2> QED BY <2>1, <2>2, RowOfIs
<1>8. TablesTyped
  BY <1>1, <1>4, <1>5, <1>6, <1>7 DEF TablesTyped
<1>9. MemTyped
  BY NewMemIs DEF Init, MemTyped, MemFields
<1>10. FlawsTyped
  BY DEF Init, FlawsTyped
<1>11. InitEffect
  BY <1>1, <1>2, <1>7 DEF InitEffect
<1> QED BY <1>8, <1>9, <1>10, <1>11 DEF Init, Shape, Steps

StepEffect ==
  \/ StartEffect \/ PageEffect \/ CrashEffect
  \/ MergeEffect \/ InsertSessionEffect
  \/ ReadEffect \/ MmsEffect
  \/ ReadRcsEffect \/ RcsEffect \/ IntegrateEffect \/ UpdateEffect
  \/ TidyEffect \/ DraftEffect
  \/ ReceiveEffect

LEMMA StepIs == ASSUME Shape, Next PROVE Shape' /\ StepEffect
<1>1. CASE CopyDbListFileForClone BY <1>1, StartIs DEF StepEffect
<1>2. CASE PageFails BY <1>2, PageIs DEF StepEffect
<1>3. CASE Crash BY <1>3, CrashIs DEF StepEffect
<1>4. CASE MergeSession BY <1>4, MergeIs DEF StepEffect
<1>5. CASE InsertSessionItem BY <1>5, InsertSessionIs DEF StepEffect
<1>6. CASE DoMmsTableCopy BY <1>6, ReadIs DEF StepEffect
<1>7. CASE QueryMmsTable BY <1>7, MmsIs DEF StepEffect
<1>8. CASE DoRcsTableCopy BY <1>8, ReadRcsIs DEF StepEffect
<1>9. CASE QueryRcsTable BY <1>9, RcsIs DEF StepEffect
<1>10. CASE GetSmsMmsInfoItemFromRcsInfo BY <1>10, IntegrateIs DEF StepEffect
<1>11. CASE UpdateSms BY <1>11, UpdateIs DEF StepEffect
<1>12. CASE StartDrafts BY <1>12, StartDraftsIs DEF StepEffect
<1>13. CASE DeleteInvalidDraft BY <1>13, DeleteDraftIs DEF StepEffect
<1>14. CASE ProcessUpdateSession BY <1>14, SendingIs DEF StepEffect
<1>15. CASE RecountAndUpdateUnread BY <1>15, UnreadIs DEF StepEffect
<1>16. CASE UpdateSessionMsgCount BY <1>16, CountIs DEF StepEffect
<1>17. CASE Finish BY <1>17, FinishIs DEF StepEffect
<1>18. CASE \E t \in Tels : Receive(t) BY <1>18, ReceiveIs DEF StepEffect
<1> QED BY <1>1, <1>2, <1>3, <1>4, <1>5, <1>6, <1>7, <1>8, <1>9, <1>10, <1>11, <1>12, <1>13,
           <1>14, <1>15, <1>16, <1>17, <1>18 DEF Next

LEMMA ShapeStays == ASSUME Shape, UNCHANGED vars PROVE Shape'
BY DEF vars, Shape, TablesTyped, MemTyped, FlawsTyped

(* The tables hold rows of their kind, under ids the counters have passed. *)
THEOREM ShapeAlways == Spec => []Shape
<1>1. Init => Shape
  BY InitIs
<1>2. Shape /\ [Next]_vars => Shape'
  BY StepIs, ShapeStays
<1> QED BY <1>1, <1>2, PTL DEF Spec

-----------------------------------------------------------------------------
(* Sessions.  Up to a country code the maps of the restore say of which    *)
(* telephone a session is; while the sessions are copied they say of every *)
(* session why it is the only one of its telephone.                        *)
LEMMA SimilarIs ==
  ASSUME NEW t, NEW u, NEW v
  PROVE  Similar(t, t) /\ (Similar(t, u) => Similar(u, t))
         /\ (Similar(t, u) /\ Similar(u, v) => Similar(t, v))
BY DEF Similar

SnapHolds ==
  \A k \in DOMAIN mem.snapSession :
    /\ mem.snapSession[k].id \in DOMAIN session
    /\ Similar(k, session[mem.snapSession[k].id].tel)

RawHolds ==
  \A p \in DOMAIN mem.rawSession :
    /\ p \in DOMAIN old.session /\ mem.rawSession[p] \in DOMAIN session
    /\ Similar(old.session[p].tel, session[mem.rawSession[p]].tel)
    /\ pc = "session" => p < pos

RawComplete ==
  flaws.failed = {} =>
    /\ pc = "session" => \A p \in DOMAIN old.session : p < pos => p \in DOMAIN mem.rawSession
    /\ pc = "mms" => DOMAIN old.session \subseteq DOMAIN mem.rawSession

InIts(row) ==
  row.from > 0 =>
    /\ row.from \in DOMAIN old.msg
    /\ \/ row.sess = NoSession /\ flaws.failed # {}
       \/ /\ row.sess \in DOMAIN session
          /\ Similar(old.session[old.msg[row.from].sess].tel, session[row.sess].tel)

RowsHold == \A i \in DOMAIN sms : InIts(sms[i])

Known(s) ==
  IF session[s].tel \in DOMAIN mem.snapSession
  THEN mem.snapSession[session[s].tel].id = s
  ELSE \E p \in DOMAIN mem.rawSession :
         mem.rawSession[p] = s /\ old.session[p].tel = session[s].tel

OnePerTel ==
  ~flaws.blind /\ ~flaws.late =>
    /\ TelUnique(session)
    /\ pc = "session" => \A s \in DOMAIN session : Known(s)

SessionInv == SnapHolds /\ RawHolds /\ RawComplete /\ RowsHold /\ OnePerTel

LEMMA KnownUnique ==
  ASSUME TelUnique(old.session), \A p \in DOMAIN mem.rawSession : p \in DOMAIN old.session,
         \A s \in DOMAIN session : Known(s)
  PROVE  TelUnique(session)
BY DEF TelUnique, Known

(* What every step leaves true of the telephones.                          *)
TelsStay ==
  \A i \in DOMAIN session : i \in DOMAIN session' /\ Similar(session[i].tel, session'[i].tel)

LEMMA TelsStayIf == ASSUME SameTels \/ session' = session PROVE TelsStay
BY SimilarIs DEF SameTels, TelsStay

(* A step that makes no match.                                             *)
LEMMA NoMatchStep ==
  ASSUME Shape, Shape', SessionInv, old' = old, TelsStay,
         mem'.snapSession = mem.snapSession, mem'.rawSession = mem.rawSession,
         flaws.failed # {} => flaws'.failed # {},
         ~flaws'.blind /\ ~flaws'.late => ~flaws.blind /\ ~flaws.late /\ SameTels,
         pc' = "session" => pc = "session" /\ pos' >= pos,
         pc' = "session" /\ flaws'.failed = {} => pos' = pos,
         pc' = "mms" => pc = "mms" \/ AtEnd("session"),
         \A i \in DOMAIN sms' : \/ /\ i \in DOMAIN sms /\ sms'[i].from = sms[i].from
                                   /\ sms'[i].sess = sms[i].sess
                                \/ InIts(sms[i])'
  PROVE  SessionInv'
<1>1. SnapHolds'
  BY SimilarIs DEF SessionInv, SnapHolds, TelsStay
<1>2. RawHolds'
  <2> SUFFICES ASSUME NEW p \in DOMAIN mem.rawSession
               PROVE  /\ p \in DOMAIN old.session /\ mem.rawSession[p] \in DOMAIN session'
                      /\ Similar(old.session[p].tel, session'[mem.rawSession[p]].tel)
                      /\ pc' = "session" => p < pos'
    BY DEF RawHolds
  <2>1. /\ p \in DOMAIN old.session /\ mem.rawSession[p] \in DOMAIN session
        /\ Similar(old.session[p].tel, session[mem.rawSession[p]].tel)
        /\ pc = "session" => p < pos
    BY DEF SessionInv, RawHolds
  <2>2. pc' = "session" => p < pos'
    <3>1. p \in Nat /\ pos \in Nat /\ pos' \in Nat
      BY <2>1, OldIs DEF Shape
    <3> QED BY <2>1, <3>1
  <2> QED BY <2>1, <2>2, SimilarIs DEF TelsStay
<1>3. RawComplete'
  <2> SUFFICES ASSUME flaws'.failed = {}
               PROVE  /\ pc' = "session" => \A p \in DOMAIN old.session : p < pos' => p \in DOMAIN mem.rawSession
                      /\ pc' = "mms" => DOMAIN old.session \subseteq DOMAIN mem.rawSession
    BY DEF RawComplete
  <2>1. /\ pc = "session" => \A p \in DOMAIN old.session : p < pos => p \in DOMAIN mem.rawSession
        /\ pc = "mms" => DOMAIN old.session \subseteq DOMAIN mem.rawSession
    BY DEF SessionInv, RawComplete
  <2> QED BY <2>1, RowIs
<1>4. RowsHold'
  <2> SUFFICES ASSUME NEW i \in DOMAIN sms', i \in DOMAIN sms, sms'[i].from = sms[i].from,
                      sms'[i].sess = sms[i].sess
               PROVE  InIts(sms[i])'
    BY DEF RowsHold
  <2>1. InIts(sms[i])
    BY DEF SessionInv, RowsHold
  <2> QED BY <2>1, SimilarIs DEF InIts, TelsStay
<1>5. OnePerTel'
  <2> SUFFICES ASSUME ~flaws'.blind, ~flaws'.late
               PROVE  /\ TelUnique(session)'
                      /\ pc' = "session" => \A s \in DOMAIN session' : Known(s)'
    BY DEF OnePerTel
  <2>1. /\ TelUnique(session) /\ SameTels
        /\ pc = "session" => \A s \in DOMAIN session : Known(s)
    BY DEF SessionInv, OnePerTel
  <2>2. TelUnique(session)'
    BY <2>1 DEF TelUnique, SameTels
  <2>3. ASSUME pc' = "session", NEW s \in DOMAIN session' PROVE Known(s)'
    BY <2>1, <2>3 DEF Known, SameTels
  <2> QED BY <2>2, <2>3
<1> QED BY <1>1, <1>2, <1>3, <1>4, <1>5 DEF SessionInv

(* The sessions of the new phone are read.                                 *)
LEMMA QuerySessionIs ==
  ASSUME TablesTyped
  PROVE  /\ \A k \in DOMAIN QuerySession :
              /\ QuerySession[k].id \in DOMAIN session
              /\ session[QuerySession[k].id].tel = k
         /\ \A s \in DOMAIN session : session[s].tel \in DOMAIN QuerySession
<1> DEFINE keys == [i \in DOMAIN session |-> session[i].tel]
           last == Latest(keys)
<1>1. /\ DOMAIN last = Range(keys)
      /\ \A k \in Range(keys) : last[k] \in DOMAIN keys /\ keys[last[k]] = k
  <2>1. seq.session \in Nat /\ DOMAIN keys \subseteq 1..seq.session
    BY DEF TablesTyped
  <2> HIDE DEF keys
  <2> QED BY <2>1, LatestIs
<1>2. QuerySession = [t \in DOMAIN last |-> [id |-> last[t], row |-> session[last[t]]]]
  BY DEF QuerySession
<1>3. \A s \in DOMAIN session : session[s].tel \in Range(keys)
  BY DEF Range
<1> HIDE DEF last
<1>4. \A k \in DOMAIN QuerySession : QuerySession[k].id = last[k]
  BY <1>2
<1>5. \A k \in Range(keys) : last[k] \in DOMAIN session /\ session[last[k]].tel = k
  BY <1>1
<1> HIDE DEF keys
<1> QED BY <1>1, <1>2, <1>3, <1>4, <1>5

LEMMA StartSessions == ASSUME Shape, Shape', SessionInv, StartEffect PROVE SessionInv'
<1> USE DEF StartEffect
<1>1. CASE pc' = "session" /\ mem'.snapSession = QuerySession
           /\ flaws'.failed = flaws.failed /\ flaws'.blind = flaws.blind
  <2>1. session' = session /\ old' = old /\ sms' = sms /\ DOMAIN mem'.rawSession = {}
    BY DEF Same
  <2>2. SnapHolds'
    BY <1>1, <2>1, QuerySessionIs, SimilarIs DEF SnapHolds, Shape
  <2>3. RawHolds'
    BY <2>1 DEF RawHolds
  <2>4. RawComplete'
    <3>1. pos' = 1 /\ pc' # "mms"
      BY <1>1
    <3>2. \A p \in DOMAIN old'.session : ~(p < 1)
      BY <2>1, OldIs
    <3> QED BY <3>1, <3>2 DEF RawComplete
  <2>5. RowsHold'
    BY <1>1, <2>1 DEF SessionInv, RowsHold, InIts
  <2>6. OnePerTel'
    <3> SUFFICES ASSUME ~flaws.blind, ~flaws.late
                 PROVE  TelUnique(session') /\ \A s \in DOMAIN session' : Known(s)'
      BY <1>1 DEF OnePerTel
    <3>1. TelUnique(session)
      BY DEF SessionInv, OnePerTel
    <3> QED BY <1>1, <2>1, <3>1, QuerySessionIs DEF TelUnique, Known, Shape
  <2> QED BY <2>2, <2>3, <2>4, <2>5, <2>6 DEF SessionInv
<1>2. CASE pc' = "session" /\ DOMAIN mem'.snapSession = {} /\ Marked(runs + 1) /\ flaws'.blind = TRUE
  <2>1. session' = session /\ old' = old /\ sms' = sms /\ DOMAIN mem'.rawSession = {}
        /\ flaws'.failed # {}
    BY <1>2 DEF Same, Marked
  <2>2. SnapHolds' /\ RawHolds' /\ RawComplete' /\ OnePerTel'
    BY <1>2, <2>1 DEF SnapHolds, RawHolds, RawComplete, OnePerTel
  <2>5. RowsHold'
    BY <2>1 DEF SessionInv, RowsHold, InIts
  <2> QED BY <2>2, <2>5 DEF SessionInv
<1>3. CASE /\ pc' = "done" /\ DOMAIN mem'.snapSession = {} /\ Marked(runs + 1)
           /\ flaws'.blind = flaws.blind
  <2>1. session' = session /\ old' = old /\ sms' = sms /\ DOMAIN mem'.rawSession = {}
        /\ flaws'.failed # {}
    BY <1>3 DEF Same, Marked
  <2>2. SnapHolds' /\ RawHolds' /\ RawComplete'
    BY <1>3, <2>1 DEF SnapHolds, RawHolds, RawComplete
  <2>3. OnePerTel'
    BY <1>3, <2>1 DEF SessionInv, OnePerTel
  <2>5. RowsHold'
    BY <2>1 DEF SessionInv, RowsHold, InIts
  <2> QED BY <2>2, <2>3, <2>5 DEF SessionInv
<1> QED BY <1>1, <1>2, <1>3

LEMMA CrashSessions == ASSUME Shape, Shape', SessionInv, CrashEffect PROVE SessionInv'
<1>1. /\ session' = session /\ old' = old /\ sms' = sms /\ flaws' = flaws /\ pc' = "idle"
      /\ DOMAIN mem'.rawSession = {} /\ DOMAIN mem'.snapSession = {}
  BY NewMemIs DEF CrashEffect, Same
<1>2. SnapHolds' /\ RawHolds' /\ RawComplete'
  BY <1>1 DEF SnapHolds, RawHolds, RawComplete
<1>3. RowsHold' /\ OnePerTel'
  BY <1>1 DEF SessionInv, RowsHold, InIts, OnePerTel
<1> QED BY <1>2, <1>3 DEF SessionInv

(* An old session and one it matches are of similar telephones.            *)
LEMMA MatchesSimilar ==
  ASSUME NEW t, NEW k \in Matches(t)
  PROVE  k \in DOMAIN mem.snapSession /\ Similar(k, t) /\ (t \in DOMAIN mem.snapSession => k = t)
BY SimilarIs DEF Matches, Similar

LEMMA MergeSessions == ASSUME Shape, Shape', SessionInv, MergeEffect PROVE SessionInv'
<1> DEFINE o == old.session[pos]
<1>1. PICK k \in Matches(o.tel) :
        /\ Merged(mem.snapSession[k].id, o)
        /\ mem'.rawSession = Put(mem.rawSession, pos, mem.snapSession[k].id)
  BY DEF MergeEffect
<1> DEFINE s == mem.snapSession[k].id
<1>2. /\ pc = "session" /\ pc' = "session" /\ pos \in DOMAIN old.session /\ pos' = pos + 1
      /\ old' = old /\ sms' = sms /\ mem'.snapSession = mem.snapSession
      /\ flaws'.blind = flaws.blind /\ flaws'.late = flaws.late
      /\ flaws.failed # {} => flaws'.failed # {}
  BY DEF MergeEffect, Keep, MemFields, Troubled, Quiet, Marked, SameFlags
<1>3. k \in DOMAIN mem.snapSession /\ Similar(k, o.tel) /\ (o.tel \in DOMAIN mem.snapSession => k = o.tel)
  BY MatchesSimilar
<1>4. s \in DOMAIN session /\ Similar(k, session[s].tel)
  BY <1>3 DEF SessionInv, SnapHolds
<1>5. /\ DOMAIN session' = DOMAIN session
      /\ \A i \in DOMAIN session : i # s => session'[i] = session[i]
      /\ session'[s].tel = session[s].tel \/ session'[s].tel = o.tel
  BY <1>1, <1>4 DEF Merged
<1>6. TelsStay /\ Similar(o.tel, session'[s].tel)
  <2> HIDE DEF s, o
  <2>1. Similar(session[s].tel, o.tel) /\ Similar(o.tel, session[s].tel) /\ Similar(o.tel, o.tel)
    BY <1>3, <1>4, SimilarIs
  <2>2. Similar(session[s].tel, session'[s].tel) /\ Similar(o.tel, session'[s].tel)
    BY <1>5, <2>1, SimilarIs
  <2>3. \A i \in DOMAIN session : i # s => Similar(session[i].tel, session'[i].tel)
    BY <1>5, SimilarIs
  <2> QED BY <1>5, <2>2, <2>3 DEF TelsStay
<1>7. /\ DOMAIN mem'.rawSession = DOMAIN mem.rawSession \union {pos}
      /\ mem'.rawSession[pos] = s
      /\ \A p \in DOMAIN mem.rawSession : p # pos => mem'.rawSession[p] = mem.rawSession[p]
  <2> HIDE DEF s
  <2> QED BY <1>1 DEF Put, s
<1>8. \A p \in DOMAIN mem.rawSession : p < pos /\ p # pos
  <2> TAKE p \in DOMAIN mem.rawSession
  <2>1. p < pos /\ p \in Nat /\ pos \in Nat
    BY <1>2, OldIs DEF SessionInv, RawHolds, Shape
  <2> QED BY <2>1
<1> HIDE DEF s, o
<1>9. SnapHolds'
  BY <1>2, <1>6, SimilarIs DEF SessionInv, SnapHolds, TelsStay
<1>10. RawHolds'
  <2> SUFFICES ASSUME NEW p \in DOMAIN mem'.rawSession
               PROVE  /\ p \in DOMAIN old.session /\ mem'.rawSession[p] \in DOMAIN session'
                      /\ Similar(old.session[p].tel, session'[mem'.rawSession[p]].tel)
                      /\ p < pos'
    BY <1>2 DEF RawHolds
  <2>0. pos \in Nat
    BY DEF Shape
  <2>1. CASE p = pos
    BY <1>2, <1>4, <1>5, <1>6, <1>7, <2>0, <2>1 DEF o
  <2>2. CASE p \in DOMAIN mem.rawSession /\ p # pos
    <3>1. /\ p \in DOMAIN old.session /\ mem.rawSession[p] \in DOMAIN session
          /\ Similar(old.session[p].tel, session[mem.rawSession[p]].tel)
      BY <2>2 DEF SessionInv, RawHolds
    <3>2. p < pos' 
      BY <1>2, <1>8, <2>0, <2>2, <3>1, OldIs
    <3> QED BY <1>6, <1>7, <2>2, <3>1, <3>2, SimilarIs DEF TelsStay
  <2> QED BY <1>7, <2>1, <2>2
<1>11. RawComplete'
  <2> SUFFICES ASSUME flaws'.failed = {}, NEW p \in DOMAIN old.session, p < pos'
               PROVE  p \in DOMAIN mem'.rawSession
    BY <1>2 DEF RawComplete
  <2>1. p < pos => p \in DOMAIN mem.rawSession
    BY <1>2 DEF SessionInv, RawComplete
  <2>2. p \in Nat /\ pos \in Nat
    BY OldIs DEF Shape
  <2> QED BY <1>2, <1>7, <2>1, <2>2
<1>12. RowsHold'
  <2> SUFFICES ASSUME NEW i \in DOMAIN sms PROVE InIts(sms[i])'
    BY <1>2 DEF RowsHold
  <2>1. InIts(sms[i])
    BY DEF SessionInv, RowsHold
  <2> QED BY <1>2, <1>6, <2>1, SimilarIs DEF InIts, TelsStay
<1>13. OnePerTel'
  <2> SUFFICES ASSUME ~flaws.blind, ~flaws.late
               PROVE  TelUnique(session') /\ \A x \in DOMAIN session' : Known(x)'
    BY <1>2 DEF OnePerTel
  <2>1. \A x \in DOMAIN session : Known(x)
    BY <1>2 DEF SessionInv, OnePerTel
  <2>2. \A x \in DOMAIN session' : Known(x)'
    <3> SUFFICES ASSUME NEW x \in DOMAIN session PROVE Known(x)'
      BY <1>5
    <3>1. CASE session'[x].tel = session[x].tel
      BY <1>2, <1>7, <1>8, <2>1, <3>1 DEF Known
    <3>2. CASE x = s /\ session'[x].tel = o.tel
      BY <1>2, <1>3, <1>7, <3>2 DEF Known, o, s
    <3> QED BY <1>5, <3>1, <3>2
  <2>3. TelUnique(old.session)' /\ \A p \in DOMAIN mem'.rawSession : p \in DOMAIN old'.session
    BY <1>2, <1>10, OldIs DEF RawHolds, WellFormedBackup, WellFormed
  <2>4. TelUnique(session)'
    BY <2>2, <2>3 DEF TelUnique, Known
  <2> QED BY <2>2, <2>4
<1> QED BY <1>9, <1>10, <1>11, <1>12, <1>13 DEF SessionInv

LEMMA InsertSessions == ASSUME Shape, Shape', SessionInv, InsertSessionEffect PROVE SessionInv'
<1> DEFINE o == old.session[pos]
           s == seq.session + 1
<1>1. /\ pc = "session" /\ pc' = "session" /\ pos \in DOMAIN old.session /\ pos' = pos + 1
      /\ old' = old /\ sms' = sms
      /\ flaws'.blind = flaws.blind /\ flaws'.late = flaws.late
      /\ flaws.failed # {} => flaws'.failed # {}
      /\ Matches(o.tel) = {}
  BY DEF InsertSessionEffect, Quiet, Marked, SameFlags
<1>2. CASE NewSession(o) /\ Keep({"rawSession", "drop"}) /\ Quiet
           /\ mem'.rawSession = Put(mem.rawSession, pos, s)
  <2>1. mem'.snapSession = mem.snapSession
    BY <1>2 DEF Keep, MemFields
  <2>2. /\ s \notin DOMAIN session /\ DOMAIN session' = DOMAIN session \union {s}
        /\ session'[s] = o /\ \A i \in DOMAIN session : session'[i] = session[i]
    BY <1>2 DEF NewSession
  <2>3. /\ DOMAIN mem'.rawSession = DOMAIN mem.rawSession \union {pos}
        /\ mem'.rawSession[pos] = s
        /\ \A p \in DOMAIN mem.rawSession : p # pos => mem'.rawSession[p] = mem.rawSession[p]
    <3> HIDE DEF s
    <3> QED BY <1>2 DEF Put
  <2>4. \A p \in DOMAIN mem.rawSession : p < pos /\ p # pos
    <3> TAKE p \in DOMAIN mem.rawSession
    <3>1. p < pos /\ p \in Nat /\ pos \in Nat
      BY <1>1, OldIs DEF SessionInv, RawHolds, Shape
    <3> QED BY <3>1
  <2>5. o.tel \notin DOMAIN mem.snapSession
    BY <1>1 DEF Matches
  <2> HIDE DEF s, o
  <2>6. SnapHolds'
    BY <2>1, <2>2 DEF SessionInv, SnapHolds
  <2>7. RawHolds'
    <3> SUFFICES ASSUME NEW p \in DOMAIN mem'.rawSession
                 PROVE  /\ p \in DOMAIN old.session /\ mem'.rawSession[p] \in DOMAIN session'
                        /\ Similar(old.session[p].tel, session'[mem'.rawSession[p]].tel)
                        /\ p < pos'
      BY <1>1 DEF RawHolds
    <3>0. pos \in Nat
      BY DEF Shape
    <3>1. CASE p = pos
      BY <1>1, <2>2, <2>3, <3>0, <3>1, SimilarIs DEF o
    <3>2. CASE p \in DOMAIN mem.rawSession /\ p # pos
      <4>1. /\ p \in DOMAIN old.session /\ mem.rawSession[p] \in DOMAIN session
            /\ Similar(old.session[p].tel, session[mem.rawSession[p]].tel)
        BY <3>2 DEF SessionInv, RawHolds
      <4>2. p < pos'
        BY <1>1, <2>4, <3>0, <3>2, <4>1, OldIs
      <4> QED BY <2>2, <2>3, <3>2, <4>1, <4>2
    <3> QED BY <2>3, <3>1, <3>2
  <2>8. RawComplete'
    <3> SUFFICES ASSUME flaws'.failed = {}, NEW p \in DOMAIN old.session, p < pos'
                 PROVE  p \in DOMAIN mem'.rawSession
      BY <1>1 DEF RawComplete
    <3>1. p < pos => p \in DOMAIN mem.rawSession
      BY <1>1 DEF SessionInv, RawComplete
    <3>2. p \in Nat /\ pos \in Nat
      BY OldIs DEF Shape
    <3> QED BY <1>1, <2>3, <3>1, <3>2
  <2>9. RowsHold'
    <3> SUFFICES ASSUME NEW i \in DOMAIN sms PROVE InIts(sms[i])'
      BY <1>1 DEF RowsHold
    <3>1. InIts(sms[i])
      BY DEF SessionInv, RowsHold
    <3> QED BY <1>1, <2>2, <3>1 DEF InIts
  <2>10. OnePerTel'
    <3> SUFFICES ASSUME ~flaws.blind, ~flaws.late
                 PROVE  TelUnique(session') /\ \A x \in DOMAIN session' : Known(x)'
      BY <1>1 DEF OnePerTel
    <3>1. \A x \in DOMAIN session : Known(x)
      BY <1>1 DEF SessionInv, OnePerTel
    <3>2. \A x \in DOMAIN session' : Known(x)'
      <4>0. old' = old
        BY <1>1
      <4>1. ASSUME NEW x, x = s PROVE Known(x)'
        BY <4>0, <4>1, <2>1, <2>2, <2>3, <2>5 DEF Known, o
      <4>2. ASSUME NEW x \in DOMAIN session PROVE Known(x)'
        <5>1. session'[x] = session[x] /\ Known(x)
          BY <2>2, <3>1
        <5> QED BY <4>0, <2>1, <2>3, <2>4, <5>1 DEF Known
      <4> QED BY <2>2, <4>1, <4>2
    <3>3. TelUnique(old.session)' /\ \A p \in DOMAIN mem'.rawSession : p \in DOMAIN old'.session
      BY <1>1, <2>7, OldIs DEF RawHolds, WellFormedBackup, WellFormed
    <3>4. TelUnique(session)'
      BY <3>2, <3>3 DEF TelUnique, Known
    <3> QED BY <3>2, <3>4
  <2> QED BY <2>6, <2>7, <2>8, <2>9, <2>10 DEF SessionInv
<1>3. CASE Same /\ UNCHANGED mem /\ Marked(runs) /\ SameFlags
  <2>1. session' = session /\ flaws'.failed # {}
    BY <1>3 DEF Same, Marked
  <2>2. SnapHolds' /\ RawHolds' /\ RowsHold' /\ RawComplete'
    <3>1. SnapHolds'
      BY <1>3, <2>1 DEF SessionInv, SnapHolds
    <3>2. RawHolds'
      <4> SUFFICES ASSUME NEW p \in DOMAIN mem.rawSession PROVE p < pos'
        BY <1>1, <1>3, <2>1 DEF SessionInv, RawHolds
      <4>1. p < pos /\ p \in Nat /\ pos \in Nat
        BY <1>1, OldIs DEF SessionInv, RawHolds, Shape
      <4> QED BY <1>1, <4>1
    <3>3. RowsHold'
      BY <1>1, <2>1 DEF SessionInv, RowsHold, InIts
    <3>4. RawComplete'
      BY <2>1 DEF RawComplete
    <3> QED BY <3>1, <3>2, <3>3, <3>4
  <2>3. OnePerTel'
    BY <1>1, <1>3, <2>1 DEF SessionInv, OnePerTel, Known
  <2> QED BY <2>2, <2>3 DEF SessionInv
<1> QED BY <1>2, <1>3 DEF InsertSessionEffect

LEMMA MmsSessions == ASSUME Shape, Shape', SessionInv, MmsEffect PROVE SessionInv'
<1> DEFINE m == old.msg[pos]
<1>1. /\ pc = "mms" /\ pc' = "mms" /\ pos \in DOMAIN old.msg /\ old' = old
  BY DEF MmsEffect
<1>2. mem'.snapSession = mem.snapSession /\ mem'.rawSession = mem.rawSession
  <2>1. CASE Keep(CopyFields)
    BY <2>1 DEF Keep, CopyFields, MemFields
  <2>2. CASE Keep({"threads", "mmsFailed"})
    BY <2>2 DEF Keep, MemFields
  <2> QED BY <2>1, <2>2 DEF MmsEffect, CopiedTo
<1>3. /\ flaws.failed # {} => flaws'.failed # {}
      /\ flaws'.blind = flaws.blind /\ flaws'.late = flaws.late
  BY DEF MmsEffect, Quiet, Marked, SameFlags
<1>4. SameTels
  BY SameTelsIf DEF MmsEffect, Same, Shape
<1>5. CASE sms' = sms
  <2>1. TelsStay
    BY <1>4, TelsStayIf
  <2> QED BY <1>1, <1>2, <1>3, <1>4, <1>5, <2>1, NoMatchStep
<1>6. CASE CopiedTo(m, seq.sms + 1) /\ Inserted(GetSmsMmsInfoItem(m)) /\ Quiet
  <2> DEFINE item == GetSmsMmsInfoItem(m)
             n == seq.sms + 1
  <2>1. /\ DOMAIN sms' = DOMAIN sms \union {n} /\ sms'[n] = item
        /\ \A i \in DOMAIN sms : sms'[i] = sms[i]
    BY <1>6 DEF Inserted
  <2>2. item.from = pos /\ item.sess = ThreadOf(m.sess, NoSession)
    <3>1. m \in MsgRow /\ GroupOf(m) \in Int
      BY <1>1, <1>6, OldIs, CopiedTyped
    <3> QED BY <3>1, ItemIs
  <2>3. m.sess \in DOMAIN old.session
    <3>1. m \in Contents(old.msg)
      BY <1>1 DEF Contents
    <3> QED BY <3>1, OldIs DEF WellFormedBackup
  <2>4. CASE m.sess \in DOMAIN mem.rawSession
    <3>1. /\ item.sess \in DOMAIN session
          /\ Similar(old.session[m.sess].tel, session[item.sess].tel)
      BY <2>2, <2>4 DEF SessionInv, RawHolds, ThreadOf, At
    <3>2. /\ item.sess \in DOMAIN session'
          /\ Similar(old.session[m.sess].tel, session'[item.sess].tel)
      BY <1>4, <3>1 DEF SameTels
    <3>3. \A i : i = n => InIts(sms[i])'
      <4> HIDE DEF item, n
      <4>1. sms'[n].from = pos /\ sms'[n].sess = item.sess
        BY <2>1, <2>2
      <4> QED BY <1>1, <3>2, <4>1 DEF InIts
    <3>4. TelsStay
      BY <1>4, TelsStayIf
    <3> HIDE DEF n
    <3> QED BY <1>1, <1>2, <1>3, <1>4, <2>1, <3>3, <3>4, NoMatchStep
  <2>5. CASE m.sess \notin DOMAIN mem.rawSession
    <3>1. item.sess = NoSession
      BY <2>2, <2>5 DEF ThreadOf, At
    <3>2. flaws'.failed # {}
      BY <1>1, <1>3, <2>3, <2>5 DEF SessionInv, RawComplete
    <3>3. \A i : i = n => InIts(sms[i])'
      <4> HIDE DEF item, n
      <4>1. sms'[n].from = pos /\ sms'[n].sess = item.sess
        BY <2>1, <2>2
      <4> QED BY <1>1, <3>1, <3>2, <4>1 DEF InIts
    <3>4. TelsStay
      BY <1>4, TelsStayIf
    <3> HIDE DEF n
    <3> QED BY <1>1, <1>2, <1>3, <1>4, <2>1, <3>3, <3>4, NoMatchStep
  <2> QED BY <2>4, <2>5
<1> QED BY <1>5, <1>6 DEF MmsEffect, Same

LEMMA OtherSessions ==
  ASSUME Shape, Shape', SessionInv,
         \/ PageEffect \/ ReadEffect \/ ReadRcsEffect \/ RcsEffect \/ IntegrateEffect
         \/ UpdateEffect \/ TidyEffect \/ DraftEffect \/ ReceiveEffect
  PROVE  SessionInv'
<1> DEFINE RowsKept == \A i \in DOMAIN sms' : \/ /\ i \in DOMAIN sms /\ sms'[i].from = sms[i].from
                                                 /\ sms'[i].sess = sms[i].sess
                                              \/ sms'[i].from \in Int /\ ~(sms'[i].from > 0)
           Kept == /\ old' = old /\ mem'.snapSession = mem.snapSession /\ mem'.rawSession = mem.rawSession
                   /\ flaws.failed # {} => flaws'.failed # {}
                   /\ ~flaws'.blind => ~flaws.blind
           Phase == /\ pc' = "session" => pc = "session" /\ pos' >= pos
                    /\ pc' = "session" /\ flaws'.failed = {} => pos' = pos
                    /\ pc' = "mms" => pc = "mms" \/ AtEnd("session")
           Calm == SameTels /\ flaws'.late = flaws.late
<1>1. ASSUME RowsKept, Kept, Phase, Calm PROVE SessionInv'
  <2>1. \A i \in DOMAIN sms' : \/ /\ i \in DOMAIN sms /\ sms'[i].from = sms[i].from
                                  /\ sms'[i].sess = sms[i].sess
                               \/ InIts(sms[i])'
    BY <1>1 DEF InIts
  <2>2. TelsStay
    BY <1>1, TelsStayIf
  <2> QED BY <1>1, <2>1, <2>2, NoMatchStep
<1>0. /\ pos \in Nat
      /\ session' = session => SameTels
  BY SameTelsIf DEF Shape
<1>2. CASE PageEffect
  <2>1. RowsKept /\ Kept
    BY <1>2 DEF PageEffect, Same, Keep, MemFields, Marked, SameFlags
  <2>2. Phase /\ Calm
    BY <1>0, <1>2 DEF PageEffect, Same, Marked, SameFlags
  <2> HIDE DEF RowsKept, Kept, Phase, Calm
  <2> QED BY <1>1, <2>1, <2>2
<1>3. CASE ReadEffect
  <2>1. RowsKept /\ Kept
    BY <1>3 DEF ReadEffect, Same, Keep, MemFields, Marked, SameFlags, Quiet
  <2>2. Phase /\ Calm
    BY <1>0, <1>3 DEF ReadEffect, Same, SameFlags, Quiet
  <2> HIDE DEF RowsKept, Kept, Phase, Calm
  <2> QED BY <1>1, <2>1, <2>2
<1>4. CASE ReadRcsEffect
  <2>1. RowsKept /\ Kept
    BY <1>4 DEF ReadRcsEffect, Same, Keep, MemFields, Marked, SameFlags, Quiet
  <2>2. Phase /\ Calm
    BY <1>0, <1>4 DEF ReadRcsEffect, Same, SameFlags, Quiet
  <2> HIDE DEF RowsKept, Kept, Phase, Calm
  <2> QED BY <1>1, <2>1, <2>2
<1>5. CASE RcsEffect
  <2>1. RowsKept
    BY <1>5 DEF RcsEffect
  <2>2. Kept
    <3>1. mem'.snapSession = mem.snapSession /\ mem'.rawSession = mem.rawSession
      BY <1>5 DEF RcsEffect, RcsIsNow, Keep, MemFields
    <3> QED BY <1>5, <3>1 DEF RcsEffect, Marked, SameFlags, Quiet
  <2>3. Phase
    BY <1>5 DEF RcsEffect, RcsIsNow
  <2>4. Calm
    BY <1>0, <1>5 DEF RcsEffect, Same, SameFlags, Quiet
  <2> HIDE DEF RowsKept, Kept, Phase, Calm
  <2> QED BY <1>1, <2>1, <2>2, <2>3, <2>4
<1>6. CASE IntegrateEffect
  <2>1. RowsKept
    <3>1. OwnItem(old.rcs[pos]).from = -pos
      BY DEF OwnItem
    <3>2. -pos \in Int /\ ~(-pos > 0)
      BY <1>0
    <3> QED BY <1>6, <3>1, <3>2 DEF IntegrateEffect, Inserted, Same
  <2>2. Kept
    BY <1>6 DEF IntegrateEffect, Marked, SameFlags, Quiet
  <2>3. Phase /\ Calm
    BY <1>0, <1>6 DEF IntegrateEffect, Same, SameFlags, Quiet
  <2> HIDE DEF RowsKept, Kept, Phase, Calm
  <2> QED BY <1>1, <2>1, <2>2, <2>3
<1>7. CASE UpdateEffect
  <2>1. RowsKept
    BY <1>7 DEF UpdateEffect, Relinked, SameButRcs, Same
  <2>2. Kept
    BY <1>7 DEF UpdateEffect, Marked, SameFlags, Quiet
  <2>3. Phase /\ Calm
    BY <1>0, <1>7 DEF UpdateEffect, Same, SameFlags, Quiet
  <2> HIDE DEF RowsKept, Kept, Phase, Calm
  <2> QED BY <1>1, <2>1, <2>2, <2>3
<1>8. CASE TidyEffect
  <2>1. RowsKept /\ Kept
    BY <1>8 DEF TidyEffect, Troubled, Marked, SameFlags, Quiet
  <2>2. Phase /\ Calm
    BY <1>0, <1>8 DEF TidyEffect, Troubled, SameFlags, Quiet
  <2> HIDE DEF RowsKept, Kept, Phase, Calm
  <2> QED BY <1>1, <2>1, <2>2
<1>9. CASE DraftEffect
  <2>1. RowsKept /\ Kept
    BY <1>9 DEF DraftEffect, Troubled, Marked, SameFlags, Quiet
  <2>2. Phase /\ Calm
    BY <1>0, <1>9 DEF DraftEffect, Troubled, SameFlags, Quiet
  <2> HIDE DEF RowsKept, Kept, Phase, Calm
  <2> QED BY <1>1, <2>1, <2>2
<1>10. CASE ReceiveEffect
  <2>1. RowsKept /\ Kept /\ Phase
    <3>1. RowsKept
      <4>1. PICK row : Inserted(row) /\ row.from = 0
        BY <1>10 DEF ReceiveEffect
      <4>2. \A i \in DOMAIN sms' : (i \in DOMAIN sms /\ sms'[i] = sms[i]) \/ sms'[i] = row
        BY <4>1 DEF Inserted
      <4> QED BY <4>1, <4>2
    <3>2. Kept
      BY <1>10 DEF ReceiveEffect
    <3>3. Phase
      BY <1>0, <1>10 DEF ReceiveEffect
    <3> HIDE DEF RowsKept, Kept, Phase
    <3> QED BY <3>1, <3>2, <3>3
  <2>2. CASE Calm
    <3> HIDE DEF RowsKept, Kept, Phase, Calm
    <3> QED BY <1>1, <2>1, <2>2
  <2>3. CASE TelsStay /\ (~flaws'.late => ~flaws.late /\ SameTels)
    <3>1. \A i \in DOMAIN sms' : \/ /\ i \in DOMAIN sms /\ sms'[i].from = sms[i].from
                                    /\ sms'[i].sess = sms[i].sess
                                 \/ InIts(sms[i])'
      BY <2>1 DEF InIts
    <3> QED BY <2>1, <2>3, <3>1, NoMatchStep
  <2>4. TelsStay /\ (~flaws'.late => ~flaws.late /\ SameTels)
    <3>1. PICK t \in Tels, row \in {sms'[seq.sms + 1]} :
        /\ \A i \in DOMAIN session : i # row.sess => session'[i] = session[i]
        /\ \/ SameTels /\ flaws'.late = (flaws.late \/ pc # "done")
           \/ /\ DOMAIN session' = DOMAIN session \union {row.sess}
              /\ row.sess \notin DOMAIN session /\ flaws'.late = TRUE
      BY <1>10 DEF ReceiveEffect
    <3>2. CASE SameTels /\ flaws'.late = (flaws.late \/ pc # "done")
      BY <3>2, TelsStayIf
    <3>3. CASE /\ DOMAIN session' = DOMAIN session \union {row.sess}
               /\ row.sess \notin DOMAIN session /\ flaws'.late = TRUE
      <4>1. \A i \in DOMAIN session : i \in DOMAIN session' /\ session'[i] = session[i]
        BY <3>1, <3>3
      <4>2. TelsStay
        BY <4>1, SimilarIs DEF TelsStay
      <4> QED BY <3>3, <4>2
    <3> QED BY <3>1, <3>2, <3>3
  <2> QED BY <2>3, <2>4
<1> QED BY <1>2, <1>3, <1>4, <1>5, <1>6, <1>7, <1>8, <1>9, <1>10

LEMMA SessionsStep ==
  ASSUME Shape, SessionInv, [Next]_vars
  PROVE  SessionInv'
<1>1. CASE Next
  <2>1. Shape' /\ StepEffect
    BY <1>1, StepIs
  <2> QED BY <2>1, StartSessions, CrashSessions, MergeSessions, InsertSessions, MmsSessions,
             OtherSessions DEF StepEffect
<1>2. CASE UNCHANGED vars
  BY <1>2 DEF vars, SessionInv, SnapHolds, RawHolds, RawComplete, RowsHold, InIts, OnePerTel, Known
<1> QED BY <1>1, <1>2

LEMMA SessionsInit == ASSUME Init PROVE SessionInv
<1>1. InitEffect /\ pc = "idle" /\ DOMAIN mem.rawSession = {} /\ DOMAIN mem.snapSession = {}
  BY InitIs, NewMemIs DEF Init
<1>2. SnapHolds /\ RawHolds /\ RawComplete
  BY <1>1 DEF SnapHolds, RawHolds, RawComplete
<1>3. RowsHold /\ OnePerTel
  BY <1>1 DEF InitEffect, RowsHold, InIts, OnePerTel, WellFormed
<1> QED BY <1>2, <1>3 DEF SessionInv

(* The maps of the restore are right about the sessions they name, through *)
(* every renaming, and the sessions distinct.                              *)
THEOREM SessionInvariant == Spec => [](Shape /\ SessionInv)
<1>1. Init => Shape /\ SessionInv
  BY InitIs, SessionsInit
<1>2. Shape /\ SessionInv /\ [Next]_vars => (Shape /\ SessionInv)'
  BY StepIs, ShapeStays, SessionsStep
<1> QED BY <1>1, <1>2, PTL DEF Spec

(* However the last digits match, merging leaves one session of each       *)
(* telephone, when the new phone could be read and nothing arrived.        *)
THEOREM SessionsStayDistinct == Spec => []OneSessionPerTel
<1>1. Shape /\ SessionInv => OneSessionPerTel
  BY DEF SessionInv, OnePerTel, TelUnique, OneSessionPerTel
<1> QED BY <1>1, SessionInvariant, PTL

(* A copied message is in a session of its telephone, for ever.            *)
THEOREM MessagesInTheirSessions == Spec => []MessageInItsSession
<1>1. Shape /\ SessionInv => MessageInItsSession
  <2> SUFFICES ASSUME SessionInv, NEW i \in DOMAIN sms, sms[i].from > 0
               PROVE  LET s == sms[i].sess
                          t == old.session[old.msg[sms[i].from].sess].tel
                      IN \/ s = NoSession /\ flaws.failed # {}
                         \/ /\ s \in DOMAIN session
                            /\ \/ session[s].tel = t
                               \/ LastDigits[t] # NoTail /\ LastDigits[session[s].tel] = LastDigits[t]
    BY DEF MessageInItsSession
  <2>1. InIts(sms[i])
    BY DEF SessionInv, RowsHold
  <2> QED BY <2>1 DEF InIts, Similar
<1> QED BY <1>1, SessionInvariant, PTL

-----------------------------------------------------------------------------
(* Groups.  The two maps give different groups to what was sent apart, and *)
(* groups nothing else has but a message received meanwhile.               *)
Copying == pc \in {"mms", "rcs", "integrate"}

Rich(row) == IF row.from > 0 THEN old.msg[row.from].rich ELSE TRUE

GroupKey(row) ==
  IF row.from > 0
  THEN IF old.msg[row.from].rich THEN old.msg[row.from].group ELSE old.msg[row.from].time
  ELSE old.rcs[-row.from].group

Own(row) == row.from # 0 /\ row.run = runs

InMap(row) == GroupKey(row) \in DOMAIN MapOf(Rich(row)) /\ row.group = MapOf(Rich(row))[GroupKey(row)]

MapsApart ==
  \A r, q \in BOOLEAN : \A k \in DOMAIN MapOf(r), l \in DOMAIN MapOf(q) :
    MapOf(r)[k] = MapOf(q)[l] => r = q /\ k = l

MapsBelow == \A r \in BOOLEAN : \A k \in DOMAIN MapOf(r) : MapOf(r)[k] <= mem.maxGroup

NotInMaps(row) == \A r \in BOOLEAN : \A k \in DOMAIN MapOf(r) : MapOf(r)[k] # row.group

(* Where a row comes from.                                                 *)
Origin(row) ==
  /\ row.from > 0 => row.from \in DOMAIN old.msg
  /\ row.from < 0 => -row.from \in DOMAIN old.rcs
  /\ row.from # 0 => row.run <= runs

Origins == \A i \in DOMAIN sms : Origin(sms[i])

NotYet ==
  pc = "session" => /\ \A r \in BOOLEAN : DOMAIN MapOf(r) = {}
                    /\ \A i \in DOMAIN sms : ~Own(sms[i])

(* A row of this restore has its group from the maps, and the others have  *)
(* none of the groups of the maps nor any that will be given.              *)
Told(row) ==
  /\ row.group <= mem.maxGroup
  /\ IF Own(row) THEN InMap(row) ELSE NotInMaps(row)

MapsTell ==
  Copying => /\ MapsApart /\ MapsBelow
             /\ \A i \in DOMAIN sms : ReceivedMeanwhile(sms[i]) \/ Told(sms[i])

Together(a, b) == b.from # 0 /\ a.run = b.run /\ Sending(a) = Sending(b)

Grouping ==
  \A i, j \in DOMAIN sms :
    sms[i].from # 0 /\ i # j /\ ~ReceivedMeanwhile(sms[j]) =>
      (sms[i].group = sms[j].group <=> Together(sms[i], sms[j]))

GroupInv == Origins /\ NotYet /\ (~flaws.blind => MapsTell /\ Grouping)

(* What no step takes back.                                                *)
FlawsKept == (flaws.blind => flaws'.blind) /\ (flaws.late => flaws'.late)

(* What giving a group to a key does to the maps.                          *)
Grown(rich, key, group) ==
  /\ \A r \in BOOLEAN : \A k \in DOMAIN MapOf(r) : k \in DOMAIN MapOf(r)' /\ MapOf(r)'[k] = MapOf(r)[k]
  /\ key \in DOMAIN MapOf(rich)' /\ MapOf(rich)'[key] = group
  /\ \A r \in BOOLEAN : \A k \in DOMAIN MapOf(r)' :
       k \in DOMAIN MapOf(r) \/ (r = rich /\ k = key /\ group = mem.maxGroup + 1)
  /\ mem'.maxGroup = mem.maxGroup \/ (mem'.maxGroup = group /\ group = mem.maxGroup + 1)
  /\ group = mem.maxGroup + 1 \/ key \in DOMAIN MapOf(rich)
  /\ key \notin DOMAIN MapOf(rich) => mem'.maxGroup = group

LEMMA InGroupIs ==
  ASSUME NEW rich \in BOOLEAN, NEW key, NEW group, InGroup(rich, key, group)
  PROVE  Grown(rich, key, group)
<1>1. CASE /\ key \in DOMAIN MapOf(rich) /\ group = MapOf(rich)[key]
           /\ mem'.rcsGroup = mem.rcsGroup /\ mem'.timeGroup = mem.timeGroup
           /\ mem'.maxGroup = mem.maxGroup
  <2>1. \A r \in BOOLEAN : MapOf(r)' = MapOf(r)
    BY <1>1 DEF MapOf
  <2>2. \A r \in BOOLEAN : DOMAIN MapOf(r)' = DOMAIN MapOf(r)
                            /\ \A k : MapOf(r)'[k] = MapOf(r)[k]
    BY <2>1
  <2> QED BY <1>1, <2>2 DEF Grown
<1>2. CASE /\ key \notin DOMAIN MapOf(rich) /\ group = mem.maxGroup + 1 /\ mem'.maxGroup = group
           /\ IF rich THEN mem'.rcsGroup = Put(mem.rcsGroup, key, group) /\ mem'.timeGroup = mem.timeGroup
              ELSE mem'.timeGroup = Put(mem.timeGroup, key, group) /\ mem'.rcsGroup = mem.rcsGroup
  <2>1. MapOf(rich)' = Put(MapOf(rich), key, group)
    BY <1>2 DEF MapOf
  <2>2. \A r \in BOOLEAN : r # rich => MapOf(r)' = MapOf(r)
    BY <1>2 DEF MapOf
  <2>3. /\ DOMAIN MapOf(rich)' = DOMAIN MapOf(rich) \union {key} /\ MapOf(rich)'[key] = group
        /\ \A k \in DOMAIN MapOf(rich) : MapOf(rich)'[k] = MapOf(rich)[k]
    BY <1>2, <2>1 DEF Put
  <2> QED BY <1>2, <2>2, <2>3 DEF Grown
<1> QED BY <1>1, <1>2 DEF InGroup

LEMMA MapsTyped ==
  ASSUME MemTyped
  PROVE  \A r \in BOOLEAN : \A k \in DOMAIN MapOf(r) : MapOf(r)[k] \in Int
BY DEF MemTyped, MapOf

(* Then the maps stay apart, and new rows and old ones known to them.      *)
LEMMA GrownMaps ==
  ASSUME Shape, NEW rich \in BOOLEAN, NEW key, NEW group, Grown(rich, key, group),
         MapsApart, MapsBelow
  PROVE  /\ MapsApart' /\ MapsBelow' /\ mem'.maxGroup \in Int /\ mem'.maxGroup >= mem.maxGroup
         /\ group \in Int /\ group <= mem'.maxGroup
         /\ \A r \in BOOLEAN : \A k \in DOMAIN MapOf(r)' : MapOf(r)'[k] = group => r = rich /\ k = key
<1>1. /\ mem.maxGroup \in Int
      /\ \A r \in BOOLEAN : \A k \in DOMAIN MapOf(r) : MapOf(r)[k] \in Int /\ MapOf(r)[k] <= mem.maxGroup
  BY MapsTyped DEF Shape, MemTyped, MapsBelow
<1>2. mem'.maxGroup \in Int /\ mem'.maxGroup >= mem.maxGroup
  BY <1>1 DEF Grown
<1>3. group \in Int /\ group <= mem'.maxGroup
  <2>1. CASE key \in DOMAIN MapOf(rich)
    <3>1. group = MapOf(rich)[key]
      BY <2>1 DEF Grown
    <3> QED BY <1>1, <1>2, <2>1, <3>1
  <2>2. CASE key \notin DOMAIN MapOf(rich)
    <3>1. group = mem.maxGroup + 1 /\ mem'.maxGroup = group
      BY <2>2 DEF Grown
    <3> QED BY <1>1, <3>1
  <2> QED BY <2>1, <2>2
<1>4. \A r \in BOOLEAN : \A k \in DOMAIN MapOf(r)' :
        \/ k \in DOMAIN MapOf(r) /\ MapOf(r)'[k] = MapOf(r)[k]
        \/ r = rich /\ k = key /\ MapOf(r)'[k] = group
  BY DEF Grown
<1>5. MapsBelow'
  <2> SUFFICES ASSUME NEW r \in BOOLEAN, NEW k \in DOMAIN MapOf(r)'
               PROVE  MapOf(r)'[k] <= mem'.maxGroup
    BY DEF MapsBelow
  <2>1. CASE k \in DOMAIN MapOf(r) /\ MapOf(r)'[k] = MapOf(r)[k]
    BY <1>1, <1>2, <2>1
  <2>2. CASE MapOf(r)'[k] = group
    BY <1>3, <2>2
  <2> QED BY <1>4, <2>1, <2>2
<1>6. \A r \in BOOLEAN : \A k \in DOMAIN MapOf(r)' : MapOf(r)'[k] = group => r = rich /\ k = key
  <2> SUFFICES ASSUME NEW r \in BOOLEAN, NEW k \in DOMAIN MapOf(r)', MapOf(r)'[k] = group,
                      k \in DOMAIN MapOf(r), MapOf(r)'[k] = MapOf(r)[k]
               PROVE  r = rich /\ k = key
    BY <1>4
  <2>1. CASE key \in DOMAIN MapOf(rich)
    <3>1. MapOf(rich)[key] = group
      BY <2>1 DEF Grown
    <3> QED BY <2>1, <3>1 DEF MapsApart
  <2>2. CASE key \notin DOMAIN MapOf(rich)
    <3>1. group = mem.maxGroup + 1
      BY <2>2 DEF Grown
    <3>2. /\ MapOf(r)[k] = mem.maxGroup + 1
          /\ MapOf(r)[k] <= mem.maxGroup
      <4>1. MapOf(r)[k] = group
        OBVIOUS
      <4> QED BY <1>1, <3>1, <4>1
    <3> QED BY <1>1, <3>2
  <2> QED BY <2>1, <2>2
<1>7. MapsApart'
  <2> SUFFICES ASSUME NEW r \in BOOLEAN, NEW q \in BOOLEAN, NEW k \in DOMAIN MapOf(r)',
                      NEW l \in DOMAIN MapOf(q)', MapOf(r)'[k] = MapOf(q)'[l]
               PROVE  r = q /\ k = l
    BY DEF MapsApart
  <2>1. CASE MapOf(r)'[k] = group \/ MapOf(q)'[l] = group
    BY <1>6, <2>1
  <2>2. CASE MapOf(r)'[k] # group /\ MapOf(q)'[l] # group
    BY <1>4, <2>2 DEF MapsApart
  <2> QED BY <2>1, <2>2
<1> QED BY <1>2, <1>3, <1>5, <1>6, <1>7

SameOrigin(a, b) ==
  b.from = a.from /\ b.run = a.run /\ b.group = a.group /\ b.time = a.time

(* What is excused stays so.                                               *)
LEMMA ExcuseStays ==
  ASSUME FlawsKept, NEW i \in DOMAIN sms, SameOrigin(sms[i], sms'[i])
  PROVE  ReceivedMeanwhile(sms[i]) => ReceivedMeanwhile(sms[i])'
BY DEF FlawsKept, SameOrigin, ReceivedMeanwhile

MapsKept == /\ mem'.rcsGroup = mem.rcsGroup /\ mem'.timeGroup = mem.timeGroup
            /\ mem'.maxGroup = mem.maxGroup

(* A step that gives no group.                                             *)
LEMMA CalmGroups ==
  ASSUME GroupInv, old' = old, runs' = runs, MapsKept,
         \A i \in DOMAIN sms' : i \in DOMAIN sms /\ SameOrigin(sms[i], sms'[i]),
         FlawsKept, pc' = "session" => pc = "session", Copying' => Copying
  PROVE  GroupInv'
<1>1. \A r \in BOOLEAN : MapOf(r)' = MapOf(r)
  BY DEF MapsKept, MapOf
<1>2. \A i \in DOMAIN sms' : /\ Origin(sms[i])' <=> Origin(sms[i])
                             /\ Own(sms[i])' <=> Own(sms[i])
                             /\ Rich(sms[i])' = Rich(sms[i]) /\ GroupKey(sms[i])' = GroupKey(sms[i])
                             /\ Sending(sms[i])' = Sending(sms[i])
  BY DEF SameOrigin, Origin, Own, Rich, GroupKey, Sending
<1>3. Origins'
  BY <1>2 DEF GroupInv, Origins
<1>4. NotYet'
  BY <1>1, <1>2 DEF GroupInv, NotYet
<1>5. ASSUME ~flaws'.blind PROVE MapsTell' /\ Grouping'
  <2>1. MapsTell /\ Grouping
    BY <1>5 DEF GroupInv, FlawsKept
  <2>2. Grouping'
    <3> SUFFICES ASSUME NEW i \in DOMAIN sms', NEW j \in DOMAIN sms', sms'[i].from # 0, i # j,
                        ~ReceivedMeanwhile(sms[j])'
                 PROVE  sms'[i].group = sms'[j].group <=> Together(sms[i], sms[j])'
      BY DEF Grouping
    <3>0. ~ReceivedMeanwhile(sms[j])
      BY ExcuseStays
    <3>1. sms[i].group = sms[j].group <=> Together(sms[i], sms[j])
      BY <2>1, <3>0 DEF Grouping, SameOrigin
    <3>2. Together(sms[i], sms[j])' <=> Together(sms[i], sms[j])
      BY <1>2 DEF Together, SameOrigin
    <3> QED BY <3>1, <3>2 DEF SameOrigin
  <2>3. ASSUME Copying' PROVE MapsApart' /\ MapsBelow'
    BY <1>1, <2>1, <2>3 DEF MapsTell, MapsApart, MapsBelow, MapsKept
  <2>4. ASSUME Copying', NEW i \in DOMAIN sms', ~ReceivedMeanwhile(sms[i])'
        PROVE  Told(sms[i])'
    <3>1. Told(sms[i])
      BY <2>1, <2>4, ExcuseStays DEF MapsTell
    <3>2. MapOf(Rich(sms[i]))' = MapOf(Rich(sms[i]))
      BY <1>2 DEF MapsKept, MapOf
    <3>3. InMap(sms[i]) => InMap(sms[i])'
      BY <1>2, <3>2 DEF InMap, SameOrigin
    <3>4. NotInMaps(sms[i]) => NotInMaps(sms[i])'
      BY <1>1 DEF NotInMaps, SameOrigin
    <3> QED BY <1>2, <3>1, <3>3, <3>4 DEF Told, MapsKept, SameOrigin
  <2> QED BY <2>2, <2>3, <2>4 DEF MapsTell
<1> QED BY <1>3, <1>4, <1>5 DEF GroupInv

LEMMA PairIs ==
  ASSUME NEW p, NEW q, NEW x, NEW y
  PROVE  <<p, x>> = <<q, y>> <=> (p = q /\ x = y)
<1>1. p = q /\ x = y => <<p, x>> = <<q, y>>
  OBVIOUS
<1>2. ASSUME <<p, x>> = <<q, y>> PROVE p = q /\ x = y
  <2>1. <<p, x>>[1] = p /\ <<q, y>>[1] = q /\ <<p, x>>[2] = x /\ <<q, y>>[2] = y
    OBVIOUS
  <2> QED BY <1>2, <2>1
<1> QED BY <1>1, <1>2

LEMMA RichIs ==
  ASSUME Shape, NEW row, Origin(row)
  PROVE  Rich(row) \in BOOLEAN
BY OldIs DEF Origin, Rich, MsgRow

(* The keys of the maps tell apart what was sent apart.                    *)
LEMMA KeysTellGroups ==
  ASSUME NEW a, NEW b
  PROVE  Sending(a) = Sending(b) <=> Rich(a) = Rich(b) /\ GroupKey(a) = GroupKey(b)
<1>1. Sending(a) = <<Rich(a), GroupKey(a)>>
  <2>1. CASE a.from > 0
    BY <2>1 DEF Sending, Rich, GroupKey
  <2>2. CASE ~(a.from > 0)
    BY <2>2 DEF Sending, Rich, GroupKey
  <2> QED BY <2>1, <2>2
<1>2. Sending(b) = <<Rich(b), GroupKey(b)>>
  <2>1. CASE b.from > 0
    BY <2>1 DEF Sending, Rich, GroupKey
  <2>2. CASE ~(b.from > 0)
    BY <2>2 DEF Sending, Rich, GroupKey
  <2> QED BY <2>1, <2>2
<1> QED BY <1>1, <1>2, PairIs

(* Two rows, one of this restore, are in one group if sent together.       *)
LEMMA OwnGrouping ==
  ASSUME Shape, Origins, Copying, MapsTell, NEW i \in DOMAIN sms, NEW j \in DOMAIN sms,
         Own(sms[i]) \/ Own(sms[j]), sms[i].from # 0, ~ReceivedMeanwhile(sms[j])
  PROVE  sms[i].group = sms[j].group <=> Together(sms[i], sms[j])
<1> DEFINE a == sms[i]
           b == sms[j]
<1>1. /\ Origin(a) /\ Origin(b) /\ a.from \in Int /\ b.from \in Int
      /\ Told(a) /\ Told(b) /\ MapsApart
  BY DEF Origins, MapsTell, Shape, TablesTyped, IsMessage, ReceivedMeanwhile
<1>2. Rich(a) \in BOOLEAN /\ Rich(b) \in BOOLEAN
  BY <1>1, RichIs
<1> SUFFICES a.group = b.group <=> Together(a, b)
  OBVIOUS
<1>0. a.from # 0 /\ (Own(a) \/ Own(b))
  OBVIOUS
<1> HIDE DEF a, b
<1>3. CASE Own(a) /\ Own(b)
  <2>1. a.group = b.group <=> Rich(a) = Rich(b) /\ GroupKey(a) = GroupKey(b)
    BY <1>1, <1>2, <1>3 DEF Told, InMap, MapsApart
  <2>2. Sending(a) = Sending(b) <=> Rich(a) = Rich(b) /\ GroupKey(a) = GroupKey(b)
    BY <1>1, <1>3, KeysTellGroups DEF Own
  <2> QED BY <1>3, <2>1, <2>2 DEF Together, Own
<1>4. CASE Own(a) /\ ~Own(b)
  <2>1. InMap(a) /\ NotInMaps(b)
    BY <1>1, <1>4 DEF Told
  <2>2. a.group # b.group
    BY <1>2, <2>1 DEF InMap, NotInMaps
  <2>3. ~Together(a, b)
    BY <1>4 DEF Together, Own
  <2> QED BY <2>2, <2>3
<1>5. CASE ~Own(a) /\ Own(b)
  <2>1. InMap(b) /\ NotInMaps(a)
    BY <1>1, <1>5 DEF Told
  <2>2. a.group # b.group
    BY <1>2, <2>1 DEF InMap, NotInMaps
  <2>3. ~Together(a, b)
    BY <1>0, <1>5 DEF Together, Own
  <2> QED BY <2>2, <2>3
<1> QED BY <1>0, <1>3, <1>4, <1>5

(* A row that stays when a group is given stays known to the maps, or not. *)
LEMMA GrownRow ==
  ASSUME Shape, NEW rich \in BOOLEAN, NEW key, NEW group, Grown(rich, key, group),
         MapsApart, MapsBelow, old' = old, runs' = runs,
         NEW i \in DOMAIN sms, sms'[i] = sms[i], Origin(sms[i]), Told(sms[i])
  PROVE  Told(sms[i])'
<1>1. /\ Own(sms[i])' <=> Own(sms[i])
      /\ Rich(sms[i])' = Rich(sms[i]) /\ GroupKey(sms[i])' = GroupKey(sms[i])
  BY DEF Own, Rich, GroupKey
<1>2. sms[i].group \in Int /\ mem.maxGroup \in Int /\ mem'.maxGroup \in Int
      /\ mem'.maxGroup >= mem.maxGroup
  BY GrownMaps DEF Shape, TablesTyped, IsMessage, MemTyped
<1>3. sms[i].group <= mem.maxGroup /\ sms'[i].group <= mem'.maxGroup
  BY <1>2 DEF Told
<1>4. CASE Own(sms[i])
  <2>1. Rich(sms[i]) \in BOOLEAN /\ InMap(sms[i])
    BY <1>4, RichIs DEF Told
  <2> DEFINE r == Rich(sms[i])
             k == GroupKey(sms[i])
  <2>2. MapOf(r)' = IF r' THEN mem'.rcsGroup ELSE mem'.timeGroup
    BY DEF MapOf
  <2>3. \A q \in BOOLEAN : \A l \in DOMAIN MapOf(q) : l \in DOMAIN MapOf(q)' /\ MapOf(q)'[l] = MapOf(q)[l]
    BY DEF Grown
  <2>4. \A q : q = r => (MapOf(q)' = IF q THEN mem'.rcsGroup ELSE mem'.timeGroup)
    BY DEF MapOf
  <2>5. MapOf(Rich(sms[i]))' = IF Rich(sms[i]) THEN mem'.rcsGroup ELSE mem'.timeGroup
    BY <1>1 DEF MapOf
  <2>6. k \in DOMAIN MapOf(Rich(sms[i]))' /\ MapOf(Rich(sms[i]))'[k] = MapOf(Rich(sms[i]))[k]
    BY <2>1, <2>3, <2>4, <2>5 DEF InMap
  <2>7. InMap(sms[i])'
    BY <1>1, <2>1, <2>6 DEF InMap
  <2> QED BY <1>1, <1>3, <1>4, <2>7 DEF Told
<1>5. CASE ~Own(sms[i])
  <2>1. NotInMaps(sms[i])
    BY <1>5 DEF Told
  <2>2. NotInMaps(sms[i])'
    <3> SUFFICES ASSUME NEW r \in BOOLEAN, NEW k \in DOMAIN MapOf(r)' PROVE MapOf(r)'[k] # sms[i].group
      BY DEF NotInMaps
    <3>1. CASE k \in DOMAIN MapOf(r)
      <4>1. MapOf(r)'[k] = MapOf(r)[k]
        BY <3>1 DEF Grown
      <4> QED BY <2>1, <3>1, <4>1 DEF NotInMaps
    <3>2. CASE k \notin DOMAIN MapOf(r)
      <4>1. r = rich /\ k = key /\ group = mem.maxGroup + 1
        BY <3>2 DEF Grown
      <4>2. MapOf(rich)'[key] = group
        BY DEF Grown
      <4> QED BY <1>2, <1>3, <4>1, <4>2
    <3> QED BY <3>1, <3>2
  <2> QED BY <1>1, <1>3, <1>5, <2>2 DEF Told
<1> QED BY <1>4, <1>5

(* A group given to a key, to no row.                                      *)
LEMMA GrownGroups ==
  ASSUME Shape, GroupInv, NEW rich \in BOOLEAN, NEW key, NEW group, InGroup(rich, key, group),
         old' = old, runs' = runs, sms' = sms, Copying, Copying', FlawsKept
  PROVE  GroupInv'
<1>0. Grown(rich, key, group)
  BY InGroupIs
<1>1. Origins' /\ NotYet'
  <2>1. pc' # "session"
    BY DEF Copying
  <2> QED BY <2>1 DEF GroupInv, Origins, Origin, NotYet
<1>2. ASSUME ~flaws'.blind PROVE MapsTell' /\ Grouping'
  <2>1. MapsTell /\ Grouping /\ Origins
    BY <1>2 DEF GroupInv, FlawsKept
  <2>2. MapsApart' /\ MapsBelow'
    BY <1>0, <2>1, GrownMaps DEF MapsTell
  <2>3. ASSUME NEW i \in DOMAIN sms, ~ReceivedMeanwhile(sms[i])'
        PROVE  Told(sms[i])'
    <3>1. MapsApart /\ MapsBelow /\ Origin(sms[i]) /\ Told(sms[i])
      BY <2>1, <2>3, ExcuseStays DEF MapsTell, Origins, SameOrigin
    <3> QED BY <1>0, <3>1, GrownRow
  <2>4. MapsTell'
    BY <2>2, <2>3 DEF MapsTell
  <2>5. Grouping'
    <3> SUFFICES ASSUME NEW i \in DOMAIN sms, NEW j \in DOMAIN sms, sms[i].from # 0, i # j,
                        ~ReceivedMeanwhile(sms[j])'
                 PROVE  sms[i].group = sms[j].group <=> Together(sms[i], sms[j])'
      BY DEF Grouping
    <3>1. sms[i].group = sms[j].group <=> Together(sms[i], sms[j])
      BY <2>1, ExcuseStays DEF Grouping, SameOrigin
    <3> QED BY <3>1 DEF Together, Sending
  <2> QED BY <2>4, <2>5
<1> QED BY <1>1, <1>2 DEF GroupInv

OwnPair(i, j) ==
  /\ Shape /\ Origins /\ Copying /\ MapsTell /\ i \in DOMAIN sms /\ j \in DOMAIN sms
  /\ Own(sms[i]) \/ Own(sms[j])
  /\ sms[i].from # 0 /\ ~ReceivedMeanwhile(sms[j])

LEMMA OwnGroupingNext ==
  ASSUME NEW i, NEW j
  PROVE  (OwnPair(i, j) => (sms[i].group = sms[j].group <=> Together(sms[i], sms[j])))'
<1>1. OwnPair(i, j) => (sms[i].group = sms[j].group <=> Together(sms[i], sms[j]))
  BY OwnGrouping DEF OwnPair
<1> QED BY <1>1, PTL

(* A row of this restore inserted, in the group the maps have for it.      *)
LEMMA InsertedGroups ==
  ASSUME Shape, Shape', GroupInv, NEW item, Inserted(item), old' = old, runs' = runs,
         Copying, Copying',
         item.from # 0, item.run = runs, NEW k, k = seq.sms + 1, Origin(sms[k])',
         FlawsKept,
         ~flaws'.blind /\ MapsTell =>
           /\ MapsApart' /\ MapsBelow' /\ InMap(sms[k])' /\ item.group <= mem'.maxGroup
           /\ \A i \in DOMAIN sms : ReceivedMeanwhile(sms[i])' \/ Told(sms[i])'
  PROVE  GroupInv'
<1>0. /\ k \notin DOMAIN sms /\ DOMAIN sms' = DOMAIN sms \union {k} /\ sms'[k] = item
      /\ \A i \in DOMAIN sms : sms'[i] = sms[i]
  BY DEF Inserted
<1>1. Origins'
  <2> SUFFICES ASSUME NEW i \in DOMAIN sms' PROVE Origin(sms[i])'
    BY DEF Origins
  <2>1. CASE i \in DOMAIN sms
    BY <1>0, <2>1 DEF GroupInv, Origins, Origin
  <2>2. CASE i = k
    BY <2>2
  <2> QED BY <1>0, <2>1, <2>2
<1>2. NotYet'
  BY DEF Copying, NotYet
<1>3. ASSUME ~flaws'.blind PROVE MapsTell' /\ Grouping'
  <2>1. MapsTell /\ Grouping
    BY <1>3 DEF GroupInv, FlawsKept
  <2>2. /\ MapsApart' /\ MapsBelow' /\ InMap(sms[k])' /\ item.group <= mem'.maxGroup
        /\ \A i \in DOMAIN sms : ReceivedMeanwhile(sms[i])' \/ Told(sms[i])'
    BY <1>3, <2>1
  <2>3. Own(sms[k])'
    BY <1>0 DEF Own
  <2>4. MapsTell'
    <3> SUFFICES ASSUME NEW i \in DOMAIN sms'
                 PROVE  ReceivedMeanwhile(sms[i])' \/ Told(sms[i])'
      BY <2>2 DEF MapsTell
    <3>1. CASE i = k
      <4>1. Told(sms[k])'
        BY <1>0, <2>2, <2>3 DEF Told
      <4> QED BY <3>1, <4>1
    <3> QED BY <1>0, <2>2, <3>1
  <2>5. Grouping'
    <3> SUFFICES ASSUME NEW i \in DOMAIN sms', NEW j \in DOMAIN sms', sms'[i].from # 0, i # j,
                        ~ReceivedMeanwhile(sms[j])'
                 PROVE  sms'[i].group = sms'[j].group <=> Together(sms[i], sms[j])'
      BY DEF Grouping
    <3>1. CASE Own(sms[i])' \/ Own(sms[j])'
      <4>1. (Shape /\ Origins /\ Copying /\ MapsTell)'
        BY <1>1, <2>4
      <4> QED BY <3>1, <4>1, OwnGroupingNext DEF OwnPair
    <3>2. CASE ~Own(sms[i])' /\ ~Own(sms[j])'
      <4>1. i \in DOMAIN sms /\ j \in DOMAIN sms /\ sms'[i] = sms[i] /\ sms'[j] = sms[j]
        BY <1>0, <2>3, <3>2
      <4>2. sms[i].group = sms[j].group <=> Together(sms[i], sms[j])
        BY <2>1, <4>1, ExcuseStays DEF Grouping, SameOrigin
      <4> QED BY <4>1, <4>2 DEF Together, Sending
    <3> QED BY <3>1, <3>2
  <2> QED BY <2>4, <2>5
<1> QED BY <1>1, <1>2, <1>3 DEF GroupInv

LEMMA MmsGroups == ASSUME Shape, Shape', GroupInv, MmsEffect PROVE GroupInv'
<1> DEFINE m == old.msg[pos]
           key == IF m.rich THEN m.group ELSE m.time
           n == seq.sms + 1
<1>1. /\ pc = "mms" /\ pc' = "mms" /\ pos \in DOMAIN old.msg /\ old' = old /\ runs' = runs
      /\ Copying /\ Copying' /\ m \in MsgRow
      /\ pos \in Nat \ {0}
  BY OldIs DEF MmsEffect, Copying, Shape
<1>2. FlawsKept
  BY DEF FlawsKept, MmsEffect, Quiet, SameFlags
<1>3. CASE Same /\ CopiedTo(m, mem.snapSms[KeyOf(m)])
  <2>1. InGroup(m.rich, key, GroupOf(m)) /\ m.rich \in BOOLEAN /\ sms' = sms
    BY <1>1, <1>3 DEF CopiedTo, MsgRow, Same
  <2> HIDE DEF m, key
  <2> QED BY <1>1, <1>2, <2>1, GrownGroups
<1>4. CASE CopiedTo(m, n) /\ Inserted(GetSmsMmsInfoItem(m))
  <2> SUFFICES ASSUME NEW k, k = n, NEW rich, rich = m.rich, NEW q, q = key,
                      NEW group, group = GroupOf(m), NEW item, item = GetSmsMmsInfoItem(m)
               PROVE  GroupInv'
    OBVIOUS
  <2>1. InGroup(rich, q, group) /\ rich \in BOOLEAN
    BY <1>1, <1>4 DEF CopiedTo, MsgRow
  <2>2. Grown(rich, q, group)
    BY <2>1, InGroupIs
  <2>3. item.from = pos /\ item.run = runs /\ item.group = group
    <3>1. GroupOf(m) \in Int
      BY <1>4, CopiedTyped
    <3> QED BY <1>1, <3>1, ItemIs
  <2>4. sms'[k] = item /\ \A i \in DOMAIN sms : sms'[i] = sms[i]
    BY <1>4 DEF Inserted
  <2>5. Origin(sms[k])'
    <3>1. sms'[k].from = pos /\ sms'[k].run = runs
      BY <2>3, <2>4
    <3>2. runs \in Nat
      BY DEF Shape
    <3> QED BY <1>1, <3>1, <3>2 DEF Origin
  <2>6. ASSUME MapsTell
        PROVE  /\ MapsApart' /\ MapsBelow' /\ InMap(sms[k])' /\ item.group <= mem'.maxGroup
               /\ \A i \in DOMAIN sms : ReceivedMeanwhile(sms[i])' \/ Told(sms[i])'
    <3>1. MapsApart /\ MapsBelow
      BY <1>1, <2>6 DEF MapsTell
    <3>2. MapsApart' /\ MapsBelow' /\ group <= mem'.maxGroup
      BY <2>1, <2>2, <3>1, GrownMaps
    <3>3. InMap(sms[k])'
      <4>1. /\ sms'[k].from = pos /\ sms'[k].group = group
        BY <2>3, <2>4
      <4>0. pos > 0 /\ old'.msg[pos] = m
        BY <1>1
      <4>2. Rich(sms[k])' = rich /\ GroupKey(sms[k])' = q
        <5>1. Rich(sms[k])' = m.rich
          BY <4>0, <4>1 DEF Rich
        <5>2. GroupKey(sms[k])' = IF m.rich THEN m.group ELSE m.time
          BY <4>0, <4>1 DEF GroupKey
        <5> QED BY <5>1, <5>2
      <4>3. q \in DOMAIN MapOf(rich)' /\ MapOf(rich)'[q] = group
        BY <2>2 DEF Grown
      <4>4. MapOf(Rich(sms[k]))' = MapOf(rich)'
        BY <4>2 DEF MapOf
      <4> QED BY <4>1, <4>2, <4>3, <4>4 DEF InMap
    <3>4. ASSUME NEW i \in DOMAIN sms, ~ReceivedMeanwhile(sms[i])'
          PROVE  Told(sms[i])'
      <4>1. Origin(sms[i]) /\ sms'[i] = sms[i] /\ Told(sms[i])
        BY <1>1, <1>2, <2>4, <2>6, <3>4, ExcuseStays DEF MapsTell, Origins, GroupInv, SameOrigin
      <4> QED BY <1>1, <2>1, <2>2, <3>1, <4>1, GrownRow
    <3> QED BY <2>3, <3>2, <3>3, <3>4
  <2>7. item.from # 0 /\ item.run = runs /\ Inserted(item)
    BY <1>1, <1>4, <2>3
  <2> HIDE DEF m, key, n
  <2> QED BY <1>1, <1>2, <2>5, <2>6, <2>7, InsertedGroups DEF n
<1>5. CASE Same /\ Keep({"threads", "mmsFailed"})
  <2>1. MapsKept
    BY <1>5 DEF Keep, MapsKept, MemFields
  <2>2. \A i \in DOMAIN sms' : i \in DOMAIN sms /\ SameOrigin(sms[i], sms'[i])
    BY <1>5 DEF Same, SameOrigin
  <2> QED BY <1>1, <1>2, <2>1, <2>2, CalmGroups
<1> QED BY <1>3, <1>4, <1>5 DEF MmsEffect

LEMMA RcsGroups == ASSUME Shape, Shape', GroupInv, RcsEffect PROVE GroupInv'
<1> DEFINE r == old.rcs[pos]
<1>1. /\ pc = "rcs" /\ old' = old /\ runs' = runs /\ sms' = sms /\ Copying
      /\ FlawsKept
  BY DEF RcsEffect, Copying, Quiet, SameFlags, FlawsKept
<1>2. ASSUME NEW id, RcsIsNow(r, id) PROVE GroupInv'
  <2>1. InGroup(TRUE, r.group, RcsGroupOf(r)) /\ Copying' /\ TRUE \in BOOLEAN
    BY <1>1, <1>2 DEF RcsIsNow, Copying
  <2> HIDE DEF r
  <2> QED BY <1>1, <2>1, GrownGroups
<1>3. CASE UNCHANGED <<mem, pc>>
  <2>1. MapsKept /\ Copying'
    BY <1>1, <1>3 DEF MapsKept, Copying
  <2>2. \A i \in DOMAIN sms' : i \in DOMAIN sms /\ SameOrigin(sms[i], sms'[i])
    BY <1>1 DEF SameOrigin
  <2> QED BY <1>1, <1>3, <2>1, <2>2, CalmGroups
<1> QED BY <1>2, <1>3 DEF RcsEffect

LEMMA IntegrateGroups == ASSUME Shape, Shape', GroupInv, IntegrateEffect PROVE GroupInv'
<1> DEFINE r == old.rcs[pos]
           n == seq.sms + 1
           item == OwnItem(r)
<1>1. /\ pc = "integrate" /\ pc' = "rcs" /\ pos \in DOMAIN old.rcs /\ old' = old /\ runs' = runs
      /\ Copying /\ Copying' /\ mem' = mem
      /\ pos \in Nat \ {0} /\ -pos # 0 /\ ~(-pos > 0) /\ -(-pos) = pos /\ runs \in Nat
      /\ r.group \in DOMAIN mem.rcsGroup
  BY DEF IntegrateEffect, Copying, Shape
<1>2. FlawsKept
  BY DEF FlawsKept, IntegrateEffect, Quiet, SameFlags
<1>3. CASE Inserted(item)
  <2>1. item.from = -pos /\ item.run = runs /\ item.group = mem.rcsGroup[r.group]
    BY DEF OwnItem
  <2>2. sms'[n] = item /\ \A i \in DOMAIN sms : sms'[i] = sms[i]
    BY <1>3 DEF Inserted
  <2> SUFFICES ASSUME NEW k, k = n PROVE GroupInv'
    OBVIOUS
  <2>3. sms'[k].from = -pos /\ sms'[k].run = runs /\ sms'[k].group = mem.rcsGroup[r.group]
    BY <2>1, <2>2
  <2>4. Origin(sms[k])'
    BY <1>1, <2>3 DEF Origin
  <2>5. ASSUME MapsTell
        PROVE  /\ MapsApart' /\ MapsBelow' /\ InMap(sms[k])' /\ item.group <= mem'.maxGroup
               /\ \A i \in DOMAIN sms : ReceivedMeanwhile(sms[i])' \/ Told(sms[i])'
    <3>1. \A q : MapOf(q)' = MapOf(q')
      BY <1>1 DEF MapOf
    <3>2. MapsApart' /\ MapsBelow'
      BY <1>1, <2>5 DEF MapsTell, MapsApart, MapsBelow, MapOf
    <3>3. InMap(sms[k])'
      BY <1>1, <2>3 DEF InMap, Rich, GroupKey, MapOf
    <3>4. item.group <= mem'.maxGroup
      <4>1. MapOf(TRUE) = mem.rcsGroup
        BY DEF MapOf
      <4> QED BY <1>1, <2>1, <2>5, <4>1 DEF MapsTell, MapsBelow
    <3>5. ASSUME NEW i \in DOMAIN sms, ~ReceivedMeanwhile(sms[i])'
          PROVE  Told(sms[i])'
      <4>1. sms'[i] = sms[i] /\ Told(sms[i])
        BY <1>1, <1>2, <2>2, <2>5, <3>5, ExcuseStays DEF MapsTell, SameOrigin
      <4>2. InMap(sms[i]) => InMap(sms[i])'
        BY <1>1, <4>1 DEF InMap, Rich, GroupKey, MapOf
      <4>3. NotInMaps(sms[i]) => NotInMaps(sms[i])'
        BY <1>1, <4>1 DEF NotInMaps, MapOf
      <4>4. Own(sms[i])' <=> Own(sms[i])
        BY <1>1, <4>1 DEF Own
      <4> QED BY <1>1, <4>1, <4>2, <4>3, <4>4 DEF Told
    <3> QED BY <3>2, <3>3, <3>4, <3>5
  <2>6. item.from # 0 /\ item.run = runs
    BY <1>1, <2>1
  <2> HIDE DEF item, n
  <2> QED BY <1>1, <1>2, <1>3, <2>4, <2>5, <2>6, InsertedGroups DEF n
<1>4. CASE Same
  <2>1. MapsKept
    BY <1>1 DEF MapsKept
  <2>2. \A i \in DOMAIN sms' : i \in DOMAIN sms /\ SameOrigin(sms[i], sms'[i])
    BY <1>4 DEF Same, SameOrigin
  <2> QED BY <1>1, <1>2, <2>1, <2>2, CalmGroups
<1> QED BY <1>3, <1>4 DEF IntegrateEffect

LEMMA GroupingStays == ASSUME old' = old, sms' = sms, FlawsKept, Grouping PROVE Grouping'
<1> SUFFICES ASSUME NEW i \in DOMAIN sms, NEW j \in DOMAIN sms, sms[i].from # 0, i # j,
                    ~ReceivedMeanwhile(sms[j])'
             PROVE  sms[i].group = sms[j].group <=> Together(sms[i], sms[j])'
  BY DEF Grouping
<1>1. sms[i].group = sms[j].group <=> Together(sms[i], sms[j])
  BY ExcuseStays DEF Grouping, SameOrigin
<1>2. Sending(sms[i])' = Sending(sms[i]) /\ Sending(sms[j])' = Sending(sms[j])
  BY DEF Sending
<1> QED BY <1>1, <1>2 DEF Together

LEMMA StartGroups == ASSUME Shape, Shape', GroupInv, StartEffect PROVE GroupInv'
<1>1. old' = old /\ sms' = sms /\ runs' = runs + 1 /\ runs \in Nat /\ pc' \in {"session", "done"}
      /\ FlawsKept
  BY DEF StartEffect, Same, Shape, FlawsKept
<1>2. Origins'
  <2> SUFFICES ASSUME NEW i \in DOMAIN sms PROVE Origin(sms[i])'
    BY <1>1 DEF Origins
  <2>1. Origin(sms[i]) /\ sms[i].run \in Nat
    BY DEF GroupInv, Origins, Shape, TablesTyped, IsMessage
  <2>2. sms[i].from # 0 => sms[i].run <= runs + 1
    BY <1>1, <2>1 DEF Origin
  <2> QED BY <1>1, <2>1, <2>2 DEF Origin
<1>3. NotYet'
  <2>1. DOMAIN mem'.rcsGroup = {} /\ DOMAIN mem'.timeGroup = {}
    <3>1. mem'["rcsGroup"] = NewMem["rcsGroup"] /\ mem'["timeGroup"] = NewMem["timeGroup"]
      BY DEF StartEffect, MemFields
    <3> QED BY <3>1 DEF NewMem, Nothing
  <2>2. ASSUME NEW i \in DOMAIN sms PROVE ~Own(sms[i])'
    <3>1. Origin(sms[i]) /\ sms[i].run \in Nat
      BY DEF GroupInv, Origins, Shape, TablesTyped, IsMessage
    <3> QED BY <1>1, <3>1 DEF Origin, Own
  <2> QED BY <1>1, <2>1, <2>2 DEF NotYet, MapOf
<1>4. Grouping => Grouping'
  BY <1>1, GroupingStays
<1>5. MapsTell'
  BY <1>1 DEF MapsTell, Copying
<1> QED BY <1>1, <1>2, <1>3, <1>4, <1>5 DEF GroupInv, FlawsKept

LEMMA CrashGroups == ASSUME GroupInv, CrashEffect PROVE GroupInv'
<1>1. old' = old /\ sms' = sms /\ runs' = runs /\ flaws' = flaws /\ pc' = "idle"
  BY DEF CrashEffect, Same
<1>2. Origins' /\ NotYet' /\ MapsTell'
  BY <1>1 DEF GroupInv, Origins, Origin, NotYet, MapsTell, Copying
<1>3. Grouping => Grouping'
  BY <1>1, GroupingStays DEF FlawsKept
<1> QED BY <1>1, <1>2, <1>3 DEF GroupInv

(* The maps are empty, and the greatest group is read from the table.      *)
LEMMA ReadGroups == ASSUME Shape, GroupInv, ReadEffect PROVE GroupInv'
<1>1. /\ pc = "session" /\ pc' = "mms" /\ old' = old /\ runs' = runs /\ sms' = sms
      /\ mem'.rcsGroup = mem.rcsGroup /\ mem'.timeGroup = mem.timeGroup
      /\ FlawsKept
      /\ (~flaws'.blind => mem'.maxGroup = QueryMaxGroupId)
  BY DEF ReadEffect, AtEnd, Same, Keep, MemFields, Quiet, SameFlags, FlawsKept
<1>2. Origins' /\ NotYet'
  BY <1>1 DEF GroupInv, Origins, Origin, NotYet
<1>3. Grouping => Grouping'
  BY <1>1, GroupingStays
<1>4. \A r \in BOOLEAN : DOMAIN MapOf(r)' = {}
  <2>1. \A r \in BOOLEAN : DOMAIN MapOf(r) = {} /\ MapOf(r)' = MapOf(r)
    BY <1>1 DEF GroupInv, NotYet, MapOf
  <2> QED BY <2>1
<1>5. ASSUME NEW i \in DOMAIN sms PROVE ~Own(sms[i])'
  <2>1. ~Own(sms[i])
    BY <1>1 DEF GroupInv, NotYet
  <2> QED BY <1>1, <2>1 DEF Own
<1>6. ASSUME ~flaws'.blind PROVE MapsTell'
  <2>1. \A i \in DOMAIN sms : sms[i].group <= mem'.maxGroup
    BY <1>1, <1>6, MaxGroupIs DEF Shape
  <2> QED BY <1>1, <1>4, <1>5, <2>1 DEF MapsTell, MapsApart, MapsBelow, Told, NotInMaps
<1> QED BY <1>1, <1>2, <1>3, <1>6 DEF GroupInv, FlawsKept

LEMMA ReceiveGroups == ASSUME Shape, Shape', GroupInv, ReceiveEffect PROVE GroupInv'
<1> SUFFICES ASSUME NEW k, k = seq.sms + 1 PROVE GroupInv'
  OBVIOUS
<1>1. PICK row : /\ old' = old /\ pc' = pc /\ mem' = mem /\ runs' = runs /\ Inserted(row)
                 /\ row.from = 0 /\ \A i \in DOMAIN sms : row.group > sms[i].group
                 /\ flaws'.blind = flaws.blind /\ row.time >= Now
                 /\ (~flaws'.late => ~flaws.late /\ pc = "done")
  <2>1. PICK t \in Tels, row \in {sms'[seq.sms + 1]} :
          /\ UNCHANGED <<old, rcs, pc, pos, todo, mem, pending, runs>> /\ Inserted(row)
          /\ row.from = 0 /\ \A i \in DOMAIN sms : row.group > sms[i].group
          /\ flaws'.blind = flaws.blind /\ row.time = Now + troubles
          /\ \/ flaws'.late = (flaws.late \/ pc # "done")
             \/ flaws'.late = TRUE
    BY DEF ReceiveEffect
  <2>2. ~flaws'.late => ~flaws.late /\ pc = "done"
    <3>1. flaws.late \in BOOLEAN
      BY DEF Shape, FlawsTyped
    <3> QED BY <2>1, <3>1
  <2>3. row.time >= Now
    BY <2>1, NextCopyAssumption DEF Shape
  <2> QED BY <2>1, <2>2, <2>3
<1>2. /\ k \notin DOMAIN sms /\ DOMAIN sms' = DOMAIN sms \union {k} /\ sms'[k] = row
      /\ \A i \in DOMAIN sms : sms'[i] = sms[i]
  BY <1>1 DEF Inserted
<1>3. ASSUME NEW i \in DOMAIN sms
      PROVE  (Origin(sms[i])' <=> Origin(sms[i])) /\ (Own(sms[i])' <=> Own(sms[i]))
  BY <1>1, <1>2 DEF Origin, Own
<1>4. Origin(sms[k])' /\ ~Own(sms[k])'
  <2>1. sms'[k].from = 0
    BY <1>1, <1>2
  <2> QED BY <2>1 DEF Origin, Own
<1>5. Origins'
  BY <1>2, <1>3, <1>4 DEF GroupInv, Origins
<1>6. NotYet'
  <2>1. \A r \in BOOLEAN : DOMAIN MapOf(r)' = DOMAIN MapOf(r)
    BY <1>1 DEF MapOf
  <2> QED BY <1>1, <1>2, <1>3, <1>4, <2>1 DEF GroupInv, NotYet
<1>7. flaws'.late \in BOOLEAN /\ FlawsKept
  BY <1>1 DEF FlawsKept, Shape, FlawsTyped
<1>8. flaws'.late => ReceivedMeanwhile(sms[k])'
  BY <1>1, <1>2 DEF ReceivedMeanwhile
<1>9. ASSUME ~flaws'.blind PROVE MapsTell' /\ Grouping'
  <2>1. MapsTell /\ Grouping
    BY <1>1, <1>9 DEF GroupInv
  <2>2. MapsTell'
    <3>1. CASE ~flaws'.late
      BY <1>1, <3>1 DEF MapsTell, Copying
    <3>2. CASE flaws'.late
      <4>1. Copying' <=> Copying
        BY <1>1 DEF Copying
      <4>2. \A r \in BOOLEAN : MapOf(r)' = MapOf(r)
        BY <1>1 DEF MapOf
      <4>3. Copying => MapsApart' /\ MapsBelow'
        BY <1>1, <2>1, <4>2 DEF MapsTell, MapsApart, MapsBelow
      <4>4. ASSUME Copying, NEW i \in DOMAIN sms PROVE ReceivedMeanwhile(sms[i])' \/ Told(sms[i])'
        <5>1. ReceivedMeanwhile(sms[i]) \/ Told(sms[i])
          BY <2>1, <4>4 DEF MapsTell
        <5>2. ReceivedMeanwhile(sms[i]) => ReceivedMeanwhile(sms[i])'
          BY <1>2, <1>7, ExcuseStays DEF SameOrigin
        <5>3. /\ Rich(sms[i])' = Rich(sms[i]) /\ GroupKey(sms[i])' = GroupKey(sms[i])
          BY <1>1, <1>2 DEF Rich, GroupKey
        <5>4. MapOf(Rich(sms[i]))' = MapOf(Rich(sms[i]))
          BY <1>1, <5>3 DEF MapOf
        <5>5. InMap(sms[i]) => InMap(sms[i])'
          BY <1>2, <5>3, <5>4 DEF InMap
        <5>6. NotInMaps(sms[i]) => NotInMaps(sms[i])'
          BY <1>2, <4>2 DEF NotInMaps
        <5>7. Told(sms[i]) => Told(sms[i])'
          BY <1>1, <1>2, <1>3, <5>5, <5>6 DEF Told
        <5> QED BY <5>1, <5>2, <5>7
      <4> QED BY <1>2, <1>8, <3>2, <4>1, <4>3, <4>4 DEF MapsTell
    <3> QED BY <3>1, <3>2
  <2>3. Grouping'
    <3> SUFFICES ASSUME NEW i \in DOMAIN sms', NEW j \in DOMAIN sms', sms'[i].from # 0, i # j,
                        ~ReceivedMeanwhile(sms[j])'
                 PROVE  sms'[i].group = sms'[j].group <=> Together(sms[i], sms[j])'
      BY DEF Grouping
    <3>1. i \in DOMAIN sms /\ sms'[i] = sms[i]
      BY <1>1, <1>2
    <3>2. CASE j \in DOMAIN sms
      <4>1. sms'[j] = sms[j]
        BY <1>2, <3>2
      <4>2. ~ReceivedMeanwhile(sms[j])
        BY <1>7, <3>2, <4>1, ExcuseStays DEF SameOrigin
      <4>3. sms[i].group = sms[j].group <=> Together(sms[i], sms[j])
        BY <2>1, <3>1, <3>2, <4>2 DEF Grouping
      <4> QED BY <1>1, <3>1, <4>1, <4>3 DEF Together, Sending
    <3>3. CASE j = k
      <4>1. sms'[j].from = 0
        BY <1>1, <1>2, <3>3
      <4>2. ~Together(sms[i], sms[j])'
        BY <4>1 DEF Together
      <4>3. sms'[j].group > sms'[i].group /\ sms'[i].group \in Int /\ sms'[j].group \in Int
        BY <1>1, <1>2, <3>1, <3>3 DEF Shape, TablesTyped, IsMessage
      <4> QED BY <4>2, <4>3
    <3> QED BY <1>2, <3>2, <3>3
  <2> QED BY <2>2, <2>3
<1> QED BY <1>5, <1>6, <1>9 DEF GroupInv

LEMMA OtherGroups ==
  ASSUME Shape, Shape', GroupInv,
         \/ PageEffect \/ MergeEffect \/ InsertSessionEffect \/ ReadRcsEffect \/ UpdateEffect
         \/ TidyEffect \/ DraftEffect
  PROVE  GroupInv'
<1> DEFINE RowsKept == \A i \in DOMAIN sms' : i \in DOMAIN sms /\ SameOrigin(sms[i], sms'[i])
           Kept == old' = old /\ runs' = runs /\ MapsKept /\ FlawsKept
           Phase == /\ pc' = "session" => pc = "session"
                    /\ Copying' => Copying
<1>0. sms' = sms => RowsKept
  BY DEF SameOrigin
<1>1. ASSUME RowsKept, Kept, Phase PROVE GroupInv'
  BY <1>1, CalmGroups
<1>2. CASE PageEffect
  <2>1. sms' = sms /\ Kept /\ Phase
    BY <1>2 DEF PageEffect, Same, Keep, MemFields, SameFlags, FlawsKept, MapsKept, Copying
  <2> HIDE DEF RowsKept, Kept, Phase
  <2> QED BY <1>0, <1>1, <2>1
<1>3. CASE MergeEffect
  <2>1. sms' = sms /\ Kept /\ Phase
    BY <1>3 DEF MergeEffect, Troubled, Quiet, Keep, MemFields, SameFlags, FlawsKept, MapsKept, Copying
  <2> HIDE DEF RowsKept, Kept, Phase
  <2> QED BY <1>0, <1>1, <2>1
<1>4. CASE InsertSessionEffect
  <2>1. sms' = sms /\ Kept /\ Phase
    BY <1>4 DEF InsertSessionEffect, Quiet, Keep, MemFields, SameFlags, FlawsKept, MapsKept, Copying
  <2> HIDE DEF RowsKept, Kept, Phase
  <2> QED BY <1>0, <1>1, <2>1
<1>5. CASE ReadRcsEffect
  <2>1. sms' = sms /\ Kept /\ Phase
    BY <1>5 DEF ReadRcsEffect, AtEnd, Same, Quiet, Keep, MemFields, SameFlags, FlawsKept, MapsKept, Copying
  <2> HIDE DEF RowsKept, Kept, Phase
  <2> QED BY <1>0, <1>1, <2>1
<1>6. CASE UpdateEffect
  <2>1. Kept /\ Phase
    BY <1>6 DEF UpdateEffect, Quiet, SameFlags, FlawsKept, MapsKept, Copying
  <2>2. RowsKept
    BY <1>6 DEF UpdateEffect, Relinked, SameButRcs, Same, SameOrigin
  <2> HIDE DEF RowsKept, Kept, Phase
  <2> QED BY <1>1, <2>1, <2>2
<1>7. CASE TidyEffect
  <2>1. sms' = sms /\ Kept /\ Phase
    BY <1>7 DEF TidyEffect, Troubled, Quiet, SameFlags, FlawsKept, MapsKept, Copying
  <2> HIDE DEF RowsKept, Kept, Phase
  <2> QED BY <1>0, <1>1, <2>1
<1>8. CASE DraftEffect
  <2>1. Kept /\ Phase /\ RowsKept
    BY <1>8 DEF DraftEffect, Troubled, Quiet, SameFlags, FlawsKept, MapsKept, Copying, SameOrigin
  <2> HIDE DEF RowsKept, Kept, Phase
  <2> QED BY <1>1, <2>1
<1> QED BY <1>2, <1>3, <1>4, <1>5, <1>6, <1>7, <1>8

LEMMA GroupsStep ==
  ASSUME Shape, GroupInv, [Next]_vars
  PROVE  GroupInv'
<1>1. CASE Next
  <2>1. Shape' /\ StepEffect
    BY <1>1, StepIs
  <2> QED BY <2>1, StartGroups, CrashGroups, ReadGroups, MmsGroups, RcsGroups, IntegrateGroups,
             ReceiveGroups, OtherGroups DEF StepEffect
<1>2. CASE UNCHANGED vars
  <2>1. /\ old' = old /\ runs' = runs /\ mem' = mem /\ sms' = sms /\ flaws' = flaws /\ pc' = pc
    BY <1>2 DEF vars
  <2> QED BY <2>1, CalmGroups DEF MapsKept, SameOrigin, Copying, FlawsKept
<1> QED BY <1>1, <1>2

LEMMA GroupsInit == ASSUME Init PROVE GroupInv
<1>1. pc = "idle" /\ \A i \in DOMAIN sms : sms[i].from = 0
  BY InitIs DEF Init, InitEffect
<1> QED BY <1>1 DEF GroupInv, Origins, Origin, NotYet, MapsTell, Copying, Grouping

(* What the maps tell apart becomes new groups one to one, and apart from  *)
(* all others but those of messages received meanwhile.                    *)
THEOREM GroupInvariant == Spec => [](Shape /\ GroupInv)
<1>1. Init => Shape /\ GroupInv
  BY InitIs, GroupsInit
<1>2. Shape /\ GroupInv /\ [Next]_vars => (Shape /\ GroupInv)'
  BY StepIs, ShapeStays, GroupsStep
<1> QED BY <1>1, <1>2, PTL DEF Spec

(* Messages of one restore share a group exactly if they were of one RCS   *)
(* group or of one time; and none shares it with a message of another      *)
(* restore or of the new phone, but one received meanwhile.                *)
THEOREM GroupsStayTogether == Spec => []GroupsKept
<1>1. GroupInv => GroupsKept
  BY DEF GroupInv, Grouping, Together, GroupsKept
<1> QED BY <1>1, GroupInvariant, PTL

-----------------------------------------------------------------------------
(* What every step does to the rows there are, and to how far the copying  *)
(* of the messages has come.                                               *)
After == {"rcs", "integrate", "drafts", "sending", "unread", "count", "done"}
Passed(k) == (pc = "mms" /\ k < pos) \/ pc \in After

SameMsg(a, b) == KeyOf(b) = KeyOf(a) /\ b.from = a.from /\ b.state = a.state /\ b.time = a.time

SameRows ==
  /\ \A i \in DOMAIN sms' : i \in DOMAIN sms /\ SameMsg(sms[i], sms'[i])
  /\ \A i \in DOMAIN sms : sms[i].state # "draft" => i \in DOMAIN sms'

CalmEffect ==
  \/ StartEffect \/ PageEffect \/ CrashEffect \/ MergeEffect \/ InsertSessionEffect
  \/ ReadEffect \/ ReadRcsEffect \/ RcsEffect \/ UpdateEffect \/ TidyEffect \/ DraftEffect

LEMMA RowsStay == ASSUME CalmEffect PROVE SameRows /\ old' = old
<1>0. sms' = sms => SameRows
  BY DEF SameRows, SameMsg
<1>1. CASE StartEffect BY <1>0, <1>1 DEF StartEffect, Same
<1>2. CASE PageEffect BY <1>0, <1>2 DEF PageEffect, Same
<1>3. CASE CrashEffect BY <1>0, <1>3 DEF CrashEffect, Same
<1>4. CASE MergeEffect BY <1>0, <1>4 DEF MergeEffect
<1>5. CASE InsertSessionEffect BY <1>0, <1>5 DEF InsertSessionEffect
<1>6. CASE ReadEffect BY <1>0, <1>6 DEF ReadEffect, Same
<1>7. CASE ReadRcsEffect BY <1>0, <1>7 DEF ReadRcsEffect, Same
<1>8. CASE RcsEffect BY <1>0, <1>8 DEF RcsEffect
<1>9. CASE UpdateEffect
  <2>1. SameRows
    BY <1>0, <1>9 DEF UpdateEffect, Relinked, SameButRcs, Same, SameRows, SameMsg
  <2> QED BY <1>9, <2>1 DEF UpdateEffect
<1>10. CASE TidyEffect BY <1>0, <1>10 DEF TidyEffect
<1>11. CASE DraftEffect
  <2>1. SameRows
    BY <1>11 DEF DraftEffect, SameRows, SameMsg
  <2> QED BY <1>11, <2>1 DEF DraftEffect
<1> QED BY <1>1, <1>2, <1>3, <1>4, <1>5, <1>6, <1>7, <1>8, <1>9, <1>10, <1>11 DEF CalmEffect

(* What went wrong stays known.                                            *)
LEMMA FlawsStay ==
  ASSUME Shape, StepEffect
  PROVE  flaws.failed \subseteq flaws'.failed /\ (~flaws'.blind => ~flaws.blind)
<1>1. CASE StartEffect BY <1>1 DEF StartEffect, Marked
<1>2. CASE PageEffect BY <1>2 DEF PageEffect, Marked, SameFlags
<1>3. CASE CrashEffect BY <1>3 DEF CrashEffect
<1>4. CASE MergeEffect BY <1>4 DEF MergeEffect, Troubled, Marked, Quiet, SameFlags
<1>5. CASE InsertSessionEffect BY <1>5 DEF InsertSessionEffect, Marked, Quiet, SameFlags
<1>6. CASE ReadEffect BY <1>6 DEF ReadEffect, Marked, Quiet, SameFlags
<1>7. CASE MmsEffect BY <1>7 DEF MmsEffect, Marked, Quiet, SameFlags
<1>8. CASE ReadRcsEffect BY <1>8 DEF ReadRcsEffect, Marked, Quiet, SameFlags
<1>9. CASE RcsEffect BY <1>9 DEF RcsEffect, Marked, Quiet, SameFlags
<1>10. CASE IntegrateEffect BY <1>10 DEF IntegrateEffect, Marked, Quiet, SameFlags
<1>11. CASE UpdateEffect BY <1>11 DEF UpdateEffect, Marked, Quiet, SameFlags
<1>12. CASE TidyEffect BY <1>12 DEF TidyEffect, Troubled, Marked, Quiet, SameFlags
<1>13. CASE DraftEffect BY <1>13 DEF DraftEffect, Troubled, Marked, Quiet, SameFlags
<1>14. CASE ReceiveEffect BY <1>14 DEF ReceiveEffect
<1> QED BY <1>1, <1>2, <1>3, <1>4, <1>5, <1>6, <1>7, <1>8, <1>9, <1>10, <1>11, <1>12, <1>13,
           <1>14 DEF StepEffect

(* The bound on troubles and the row ids only go up.                       *)
LEMMA CountersGrow ==
  ASSUME Shape, Next
  PROVE  troubles' >= troubles /\ seq'.sms >= seq.sms
<1> DEFINE Grow == troubles' \in {troubles, troubles + 1} /\ seq'.sms \in {seq.sms, seq.sms + 1}
<1> SUFFICES Grow
  BY DEF Shape, TablesTyped
<1>0. /\ \A n : [seq EXCEPT !.sms = n].sms = n
      /\ \A n : [seq EXCEPT !.session = n].sms = seq.sms
      /\ \A n : [seq EXCEPT !.rcs = n].sms = seq.sms
      /\ \A n, s : [seq EXCEPT !.sms = n, !.session = s].sms = n
  BY DEF Shape, TablesTyped
<1>1. CASE CopyDbListFileForClone
  BY <1>1 DEF CopyDbListFileForClone, tables, BlindIn, FailsIn, Trouble
<1>2. CASE PageFails BY <1>2 DEF PageFails, tables, Fails, FailsIn, Trouble
<1>3. CASE Crash BY <1>3 DEF Crash, tables, Trouble
<1>4. CASE MergeSession
  BY <1>4 DEF MergeSession, tables, UpdateSession, Works, Fails, FailsIn, Trouble
<1>5. CASE InsertSessionItem
  BY <1>0, <1>5 DEF InsertSessionItem, tables, Works, Fails, FailsIn, Trouble
<1>6. CASE DoMmsTableCopy
  BY <1>6 DEF DoMmsTableCopy, tables, Works, Blind, BlindIn, Trouble
<1>7. CASE QueryMmsTable
  BY <1>0, <1>7 DEF QueryMmsTable, InsertSms, NextId, tables, Works, Fails, FailsIn, Trouble
<1>8. CASE DoRcsTableCopy
  BY <1>8 DEF DoRcsTableCopy, tables, Works, Blind, BlindIn, Trouble
<1>9. CASE QueryRcsTable
  BY <1>0, <1>9 DEF QueryRcsTable, InsertRcs, tables, Works, Fails, FailsIn, Trouble
<1>10. CASE GetSmsMmsInfoItemFromRcsInfo
  BY <1>0, <1>10 DEF GetSmsMmsInfoItemFromRcsInfo, InsertSms, NextId, tables, Works, Fails,
                     FailsIn, Trouble
<1>11. CASE UpdateSms BY <1>11 DEF UpdateSms, tables, Fails, FailsIn, Trouble
<1>12. CASE StartDrafts BY <1>12 DEF StartDrafts, tables, Works
<1>13. CASE DeleteInvalidDraft
  BY <1>13 DEF DeleteInvalidDraft, tables, Works, Fails, FailsIn, Trouble
<1>14. CASE ProcessUpdateSession
  BY <1>14 DEF ProcessUpdateSession, UpdateSession, Abandoned, tables, Works, Fails, FailsIn, Trouble
<1>15. CASE RecountAndUpdateUnread
  BY <1>15 DEF RecountAndUpdateUnread, UpdateSession, tables, Works, Fails, FailsIn, Trouble
<1>16. CASE UpdateSessionMsgCount
  BY <1>16 DEF UpdateSessionMsgCount, UpdateSession, Abandoned, tables, Works, Fails, FailsIn, Trouble
<1>17. CASE Finish BY <1>17 DEF Finish, tables, Works
<1>18. ASSUME NEW t \in Tels, Receive(t) PROVE Grow
  BY <1>0, <1>18 DEF Receive, NextId, Trouble
<1>19. Grow
  <2> HIDE DEF Grow
  <2> QED BY <1>1, <1>2, <1>3, <1>4, <1>5, <1>6, <1>7, <1>8, <1>9, <1>10, <1>11, <1>12, <1>13,
             <1>14, <1>15, <1>16, <1>17, <1>18 DEF Next
<1> QED BY <1>19 DEF Shape, TablesTyped

(* Outside the copying of messages no message is passed, but by failing.   *)
LEMMA PassedStays ==
  ASSUME Shape, CalmEffect \/ IntegrateEffect \/ ReceiveEffect
  PROVE  \/ Marked(runs') /\ (mem'.err = TRUE \/ pc' \notin After \union {"mms"})
         \/ \A k \in DOMAIN old.msg : Passed(k)' => Passed(k) /\ mem'.rcsMsg = mem.rcsMsg
<1>0. \A k \in DOMAIN old.msg : k \in Nat /\ ~(k < 1)
  BY OldIs
<1> DEFINE Stays == \A k \in DOMAIN old.msg : Passed(k)' => Passed(k) /\ mem'.rcsMsg = mem.rcsMsg
<1>1. CASE StartEffect
  <2>1. CASE pc' = "session"
    BY <2>1 DEF Passed, After
  <2>2. CASE pc' = "done"
    BY <1>1, <2>2 DEF StartEffect
  <2> QED BY <1>1, <2>1, <2>2 DEF StartEffect
<1>2. CASE PageEffect BY <1>2 DEF PageEffect
<1>3. CASE CrashEffect BY <1>3 DEF CrashEffect, Passed, After
<1>4. CASE MergeEffect BY <1>4 DEF MergeEffect, Passed, After
<1>5. CASE InsertSessionEffect BY <1>5 DEF InsertSessionEffect, Passed, After
<1>6. CASE ReadEffect BY <1>0, <1>6 DEF ReadEffect, Passed, After
<1>7. CASE ReadRcsEffect
  <2>1. \A k \in DOMAIN old.msg : Passed(k)
    BY <1>7, RowIs DEF ReadRcsEffect, Passed
  <2> QED BY <1>7, <2>1 DEF ReadRcsEffect, Keep, MemFields
<1>8. CASE RcsEffect
  BY <1>8 DEF RcsEffect, RcsIsNow, Keep, MemFields, Passed, After
<1>9. CASE IntegrateEffect BY <1>9 DEF IntegrateEffect, Passed, After
<1>10. CASE UpdateEffect BY <1>10 DEF UpdateEffect, Passed
<1>11. CASE TidyEffect BY <1>11 DEF TidyEffect, Passed, After
<1>12. CASE DraftEffect BY <1>12 DEF DraftEffect, Passed, After
<1>13. CASE ReceiveEffect BY <1>13 DEF ReceiveEffect, Passed
<1> QED BY <1>1, <1>2, <1>3, <1>4, <1>5, <1>6, <1>7, <1>8, <1>9, <1>10, <1>11, <1>12, <1>13
        DEF CalmEffect

-----------------------------------------------------------------------------
(* The keys: a row has the key of the row it was copied from; the keys read *)
(* are those of the rows copied before, or of messages later than the       *)
(* backup; an RCS row without a message found no message of its key.        *)
FromKey(row) ==
  /\ row.from > 0 => row.from \in DOMAIN old.msg /\ KeyOf(row) = KeyOf(old.msg[row.from])
  /\ row.from < 0 => -row.from \in DOMAIN old.rcs /\ KeyOf(row) = KeyOf(old.rcs[-row.from])
  /\ row.time < Now + troubles
FromKeys == \A i \in DOMAIN sms : FromKey(sms[i])

SeenOrNew(row) ==
  \/ KeyOf(row) \in DOMAIN mem.snapSms
  \/ row.from > 0 /\ row.from < pos
  \/ row.time >= Now
KeysRead == pc = "mms" /\ ~flaws.blind => \A i \in DOMAIN sms : SeenOrNew(sms[i])

AllMapped ==
  flaws.failed = {} =>
    \A k \in DOMAIN old.msg : Passed(k) => old.msg[k].rcs \in DOMAIN mem.rcsMsg

Unmapped == pc = "integrate" => pos \notin DOMAIN mem.rcsMsg

Alone(i, j) ==
  KeyOf(sms[i]) = KeyOf(sms[j]) /\ i # j =>
    /\ sms[i].from < 0 \/ sms[j].from < 0
    /\ flaws.failed = {} /\ sms[i].from > 0 => ~(sms[j].from < 0)
KeysAlone == ~flaws.blind => \A i, j \in DOMAIN sms : Alone(i, j)

KeyInv == FromKeys /\ KeysRead /\ AllMapped /\ Unmapped /\ KeysAlone

(* What keys tell, and a row of the backup.                                *)
LEMMA KeysTell ==
  ASSUME NEW a, NEW b, KeyOf(a) = KeyOf(b)
  PROVE  a.time = b.time
BY DEF KeyOf

LEMMA OldKeys ==
  ASSUME Shape
  PROVE  /\ \A k \in DOMAIN old.msg : old.msg[k].time \in Nat /\ old.msg[k].time < Now
         /\ \A r \in DOMAIN old.rcs : old.rcs[r].time \in Nat /\ old.rcs[r].time < Now
         /\ \A k, l \in DOMAIN old.msg : KeyOf(old.msg[k]) = KeyOf(old.msg[l]) => k = l
         /\ \A k \in DOMAIN old.msg, r \in DOMAIN old.rcs :
              KeyOf(old.msg[k]) = KeyOf(old.rcs[r]) => old.msg[k].rich /\ old.msg[k].rcs = r
<1>1. WellFormedBackup(old) /\ \A k \in DOMAIN old.msg : old.msg[k].time \in Nat
  BY OldIs DEF MsgRow
<1>2. \A r \in DOMAIN old.rcs : old.rcs[r].time \in Nat
  BY OldIs DEF RcsRow
<1> QED BY <1>1, <1>2 DEF WellFormedBackup, WellFormed, KeyUnique, Contents

LEMMA CalmKeys ==
  ASSUME Shape, Shape', KeyInv, CalmEffect, StepEffect, troubles' >= troubles
  PROVE  KeyInv'
<1>1. SameRows /\ old' = old
  BY RowsStay
<1>2. flaws.failed \subseteq flaws'.failed /\ (~flaws'.blind => ~flaws.blind)
  BY FlawsStay
<1>3. FromKeys'
  <2> SUFFICES ASSUME NEW i \in DOMAIN sms' PROVE FromKey(sms[i])'
    BY DEF FromKeys
  <2>1. i \in DOMAIN sms /\ SameMsg(sms[i], sms'[i])
    BY <1>1 DEF SameRows
  <2>2. FromKey(sms[i]) /\ sms[i].time \in Nat
    BY <2>1 DEF KeyInv, FromKeys, Shape, TablesTyped, IsMessage
  <2>3. Now + troubles <= Now + troubles' /\ Now + troubles \in Nat /\ Now + troubles' \in Nat
    BY NextCopyAssumption DEF Shape
  <2> QED BY <1>1, <2>1, <2>2, <2>3 DEF FromKey, SameMsg
<1>4. KeysAlone'
  <2> SUFFICES ASSUME ~flaws'.blind, NEW i \in DOMAIN sms', NEW j \in DOMAIN sms' PROVE Alone(i, j)'
    BY DEF KeysAlone
  <2>1. i \in DOMAIN sms /\ SameMsg(sms[i], sms'[i]) /\ j \in DOMAIN sms /\ SameMsg(sms[j], sms'[j])
    BY <1>1 DEF SameRows
  <2>2. Alone(i, j)
    BY <1>2, <2>1 DEF KeyInv, KeysAlone
  <2> QED BY <1>2, <2>1, <2>2 DEF Alone, SameMsg
<1>5. AllMapped'
  <2> SUFFICES ASSUME flaws'.failed = {}, NEW k \in DOMAIN old'.msg, Passed(k)'
               PROVE  old'.msg[k].rcs \in DOMAIN mem'.rcsMsg
    BY DEF AllMapped
  <2>1. flaws.failed = {}
    BY <1>2
  <2>2. Passed(k) /\ mem'.rcsMsg = mem.rcsMsg
    BY <1>1, PassedStays DEF Marked
  <2> QED BY <1>1, <2>1, <2>2 DEF KeyInv, AllMapped
<1>6. Unmapped'
  <2> SUFFICES ASSUME pc' = "integrate" PROVE pos' \notin DOMAIN mem'.rcsMsg
    BY DEF Unmapped
  <2>1. CASE RcsEffect
    BY <2>1 DEF RcsEffect, RcsIsNow, Keep, MemFields
  <2>2. CASE UpdateEffect
    BY <2>2 DEF UpdateEffect, KeyInv, Unmapped
  <2> QED BY <2>1, <2>2 DEF CalmEffect, StartEffect, PageEffect, CrashEffect, MergeEffect,
           InsertSessionEffect, ReadEffect, ReadRcsEffect, TidyEffect, DraftEffect
<1>7. KeysRead'
  <2> SUFFICES ASSUME pc' = "mms", ~flaws'.blind, NEW i \in DOMAIN sms' PROVE SeenOrNew(sms[i])'
    BY DEF KeysRead
  <2>1. i \in DOMAIN sms /\ SameMsg(sms[i], sms'[i]) /\ IsMessage(sms[i])
    BY <1>1 DEF SameRows, Shape, TablesTyped
  <2>2. CASE ReadEffect
    <3>1. mem'.snapSms = QuerySmsInfo
      BY <2>2 DEF ReadEffect
    <3> DEFINE keys == [x \in DOMAIN sms |-> KeyOf(sms[x])]
    <3>2. DOMAIN Latest(keys) = Range(keys)
      BY LatestIs DEF Shape, TablesTyped
    <3>3. KeyOf(sms[i]) \in Range(keys)
      BY <2>1 DEF Range
    <3> HIDE DEF keys
    <3>4. KeyOf(sms[i]) \in DOMAIN mem'.snapSms
      BY <3>1, <3>2, <3>3 DEF QuerySmsInfo, keys
    <3> QED BY <2>1, <3>4 DEF SeenOrNew, SameMsg
  <2>3. CASE PageEffect \/ UpdateEffect
    <3>1. pc = "mms" /\ pos' >= pos /\ mem'.snapSms = mem.snapSms
      <4>1. CASE PageEffect
        BY <4>1 DEF PageEffect, Keep, MemFields
      <4>2. CASE UpdateEffect
        BY <4>2 DEF UpdateEffect, Shape
      <4> QED BY <2>3, <4>1, <4>2
    <3>2. SeenOrNew(sms[i])
      BY <1>2, <2>1, <3>1 DEF KeyInv, KeysRead
    <3>3. pos \in Nat /\ pos' \in Nat /\ sms[i].from \in Int
      BY <2>1 DEF Shape, IsMessage
    <3> QED BY <2>1, <3>1, <3>2, <3>3 DEF SeenOrNew, SameMsg
  <2> QED BY <2>2, <2>3 DEF CalmEffect, StartEffect, CrashEffect, MergeEffect, InsertSessionEffect,
           ReadRcsEffect, RcsEffect, RcsIsNow, TidyEffect, DraftEffect
<1> QED BY <1>3, <1>4, <1>5, <1>6, <1>7 DEF KeyInv

(* A new row is alone, or an RCS message's own.                            *)
LEMMA InsertedKeys ==
  ASSUME Shape, Shape', KeyInv, NEW item, Inserted(item), NEW n, n = seq.sms + 1, old' = old,
         troubles' >= troubles, Quiet,
         FromKey(sms[n])',
         \A i \in DOMAIN sms : ~flaws.blind /\ KeyOf(sms[i]) = KeyOf(item) =>
            item.from < 0 /\ (flaws.failed = {} => ~(sms[i].from > 0))
  PROVE  FromKeys' /\ KeysAlone'
<1>0. /\ n \notin DOMAIN sms /\ DOMAIN sms' = DOMAIN sms \union {n} /\ sms'[n] = item
      /\ \A i \in DOMAIN sms : sms'[i] = sms[i]
  BY DEF Inserted
<1>1. FromKeys'
  <2> SUFFICES ASSUME NEW i \in DOMAIN sms, sms'[i] = sms[i] PROVE FromKey(sms[i])'
    BY <1>0 DEF FromKeys
  <2>1. FromKey(sms[i]) /\ sms[i].time \in Nat
    BY DEF KeyInv, FromKeys, Shape, TablesTyped, IsMessage
  <2>2. Now + troubles <= Now + troubles' /\ Now + troubles \in Nat /\ Now + troubles' \in Nat
    BY NextCopyAssumption DEF Shape
  <2> QED BY <2>1, <2>2 DEF FromKey
<1>2. KeysAlone'
  <2>0. flaws'.blind = flaws.blind /\ flaws'.failed = flaws.failed
    BY DEF Quiet, SameFlags
  <2> SUFFICES ASSUME ~flaws.blind, NEW i \in DOMAIN sms', NEW j \in DOMAIN sms', i # j,
                      KeyOf(sms'[i]) = KeyOf(sms'[j])
               PROVE  /\ sms'[i].from < 0 \/ sms'[j].from < 0
                      /\ flaws.failed = {} /\ sms'[i].from > 0 => ~(sms'[j].from < 0)
    BY <2>0 DEF KeysAlone, Alone
  <2>1. CASE i \in DOMAIN sms /\ j \in DOMAIN sms
    BY <1>0, <2>1 DEF KeyInv, KeysAlone, Alone
  <2>2. CASE i = n /\ j \in DOMAIN sms
    <3>1. item.from < 0
      BY <1>0, <2>2
    <3>2. item.from \in Int
      BY <1>0 DEF Shape, TablesTyped, IsMessage
    <3> QED BY <1>0, <2>2, <3>1, <3>2
  <2>3. CASE j = n /\ i \in DOMAIN sms
    BY <1>0, <2>3
  <2> QED BY <1>0, <2>1, <2>2, <2>3
<1> QED BY <1>1, <1>2

LEMMA SameKeys ==
  ASSUME Shape, Shape', KeyInv, sms' = sms, old' = old, troubles' >= troubles,
         flaws'.blind = flaws.blind, flaws'.failed = {} => flaws.failed = {}
  PROVE  FromKeys' /\ KeysAlone'
<1>1. KeysAlone'
  BY DEF KeyInv, KeysAlone, Alone
<1>2. FromKeys'
  <2> SUFFICES ASSUME NEW i \in DOMAIN sms PROVE FromKey(sms[i])'
    BY DEF FromKeys
  <2>1. FromKey(sms[i]) /\ sms[i].time \in Nat
    BY DEF KeyInv, FromKeys, Shape, TablesTyped, IsMessage
  <2>2. Now + troubles <= Now + troubles' /\ Now + troubles \in Nat /\ Now + troubles' \in Nat
    BY NextCopyAssumption DEF Shape
  <2> QED BY <2>1, <2>2 DEF FromKey
<1> QED BY <1>1, <1>2

LEMMA MmsKeys == 
  ASSUME Shape, Shape', KeyInv, MmsEffect, troubles' >= troubles
  PROVE  KeyInv'
<1> SUFFICES ASSUME NEW n, n = seq.sms + 1 PROVE KeyInv'
  OBVIOUS
<1> DEFINE m == old.msg[pos]
<1>1. /\ pc = "mms" /\ pc' = "mms" /\ pos \in DOMAIN old.msg /\ pos' = pos + 1 /\ old' = old
      /\ pos \in Nat
  BY DEF MmsEffect, Shape
<1>2. m \in MsgRow /\ m.time \in Nat /\ m.time < Now
  BY <1>1, OldIs, OldKeys
<1>3. Unmapped'
  BY <1>1 DEF Unmapped
<1>4. ASSUME NEW id, CopiedTo(m, id), Quiet PROVE AllMapped' /\ mem'.snapSms = mem.snapSms
  <2>1. mem'.rcsMsg = Put(mem.rcsMsg, m.rcs, id) /\ mem'.snapSms = mem.snapSms
    BY <1>4 DEF CopiedTo, Keep, CopyFields, MemFields
  <2>2. DOMAIN mem'.rcsMsg = DOMAIN mem.rcsMsg \union {m.rcs}
    <3> HIDE DEF m
    <3> QED BY <2>1 DEF Put
  <2> HIDE DEF m
  <2> SUFFICES ASSUME flaws'.failed = {}, NEW k \in DOMAIN old.msg, Passed(k)'
               PROVE  old.msg[k].rcs \in DOMAIN mem'.rcsMsg
    BY <1>1, <2>1 DEF AllMapped
  <2>3. flaws.failed = {}
    BY <1>4 DEF Quiet
  <2>4. CASE k = pos
    BY <2>2, <2>4 DEF m
  <2>5. CASE k # pos
    <3>1. k \in Nat /\ k < pos
      BY <1>1, <2>5, OldIs DEF Passed, After
    <3>2. old.msg[k].rcs \in DOMAIN mem.rcsMsg
      BY <1>1, <2>3, <3>1 DEF KeyInv, AllMapped, Passed
    <3> QED BY <2>2, <3>2
  <2> QED BY <2>4, <2>5
<1>5. ASSUME NEW i \in DOMAIN sms, sms'[i] = sms[i], ~flaws.blind, mem'.snapSms = mem.snapSms
      PROVE  SeenOrNew(sms[i])'
  <2>1. SeenOrNew(sms[i]) /\ sms[i].from \in Int
    BY <1>1, <1>5 DEF KeyInv, KeysRead, Shape, TablesTyped, IsMessage
  <2> QED BY <1>1, <1>5, <2>1 DEF SeenOrNew
<1>7. CASE KeyOf(m) \in DOMAIN mem.snapSms /\ Same /\ CopiedTo(m, mem.snapSms[KeyOf(m)]) /\ Quiet
  <2>1. AllMapped' /\ mem'.snapSms = mem.snapSms
    BY <1>4, <1>7
  <2>2. sms' = sms /\ flaws'.blind = flaws.blind /\ flaws'.failed = flaws.failed
    BY <1>7 DEF Same, Quiet, SameFlags
  <2>3. KeysRead'
    BY <1>5, <2>1, <2>2 DEF KeysRead
  <2>4. FromKeys' /\ KeysAlone'
    BY <1>1, <2>2, SameKeys
  <2> QED BY <1>3, <2>1, <2>3, <2>4 DEF KeyInv
<1>8. CASE /\ KeyOf(m) \notin DOMAIN mem.snapSms /\ CopiedTo(m, n)
           /\ Inserted(GetSmsMmsInfoItem(m)) /\ Quiet
  <2> DEFINE item == GetSmsMmsInfoItem(m)
  <2>1. AllMapped' /\ mem'.snapSms = mem.snapSms
    BY <1>4, <1>8
  <2>2. flaws'.blind = flaws.blind
    BY <1>8 DEF Quiet, SameFlags
  <2>3. /\ item.from = pos /\ KeyOf(item) = KeyOf(m)
    BY <1>2, <1>8, CopiedTyped, ItemIs
  <2>4. /\ n \notin DOMAIN sms /\ DOMAIN sms' = DOMAIN sms \union {n} /\ sms'[n] = item
        /\ \A i \in DOMAIN sms : sms'[i] = sms[i]
    BY <1>8 DEF Inserted
  <2> HIDE DEF item
  <2>5. FromKey(sms[n])'
    <3>1. sms'[n].from = pos /\ sms'[n].time = m.time /\ KeyOf(sms'[n]) = KeyOf(m)
      BY <2>3, <2>4, KeysTell
    <3>2. ~(pos < 0) /\ m.time < Now + troubles'
      BY <1>1, <1>2, NextCopyAssumption DEF Shape
    <3> QED BY <1>1, <3>1, <3>2 DEF FromKey
  <2>6. ASSUME NEW i \in DOMAIN sms, ~flaws.blind, KeyOf(sms[i]) = KeyOf(m) PROVE FALSE
    <3>1. SeenOrNew(sms[i]) /\ FromKey(sms[i])
      BY <1>1, <2>6 DEF KeyInv, KeysRead, FromKeys
    <3>2. sms[i].time = m.time
      BY <2>6, KeysTell
    <3>3. CASE sms[i].from > 0 /\ sms[i].from < pos
      <4>1. sms[i].from \in DOMAIN old.msg /\ KeyOf(old.msg[sms[i].from]) = KeyOf(old.msg[pos])
        BY <2>6, <3>1, <3>3 DEF FromKey
      <4>2. sms[i].from = pos
        BY <1>1, <4>1, OldKeys
      <4> QED BY <1>1, <3>3, <4>2
    <3>4. CASE sms[i].time >= Now
      BY <1>2, <3>2, <3>4, NextCopyAssumption
    <3> QED BY <1>8, <2>6, <3>1, <3>3, <3>4 DEF SeenOrNew
  <2>7. FromKeys' /\ KeysAlone'
    BY <1>1, <1>8, <2>3, <2>5, <2>6, InsertedKeys DEF item
  <2>8. KeysRead'
    <3>1. SeenOrNew(sms[n])'
      <4>1. sms'[n].from = pos
        BY <2>3, <2>4
      <4> QED BY <1>1, <4>1, OldIs DEF SeenOrNew
    <3> QED BY <1>5, <2>1, <2>2, <2>4, <3>1 DEF KeysRead
  <2> QED BY <1>3, <2>1, <2>7, <2>8 DEF KeyInv
<1>9. CASE Same /\ Keep({"threads", "mmsFailed"}) /\ Marked(runs) /\ SameFlags
  <2>1. mem'.snapSms = mem.snapSms
    BY <1>9 DEF Keep, MemFields
  <2>2. sms' = sms /\ flaws'.blind = flaws.blind /\ flaws'.failed # {}
    BY <1>9 DEF Same, Marked, SameFlags
  <2>3. KeysRead'
    BY <1>5, <2>1, <2>2 DEF KeysRead
  <2>4. FromKeys' /\ KeysAlone'
    BY <1>1, <2>2, SameKeys
  <2>5. AllMapped'
    BY <2>2 DEF AllMapped
  <2> QED BY <1>3, <2>3, <2>4, <2>5 DEF KeyInv
<1> QED BY <1>7, <1>8, <1>9 DEF MmsEffect

LEMMA IntegrateKeys ==
  ASSUME Shape, Shape', KeyInv, IntegrateEffect, troubles' >= troubles
  PROVE  KeyInv'
<1> SUFFICES ASSUME NEW n, n = seq.sms + 1 PROVE KeyInv'
  OBVIOUS
<1> DEFINE r == old.rcs[pos]
<1>1. /\ pc = "integrate" /\ pc' = "rcs" /\ pos \in DOMAIN old.rcs /\ old' = old /\ mem' = mem
      /\ pos \in Nat \ {0}
  BY OldIs DEF IntegrateEffect
<1>2. Unmapped' /\ KeysRead'
  BY <1>1 DEF Unmapped, KeysRead
<1>3. AllMapped'
  <2> SUFFICES ASSUME flaws'.failed = {}, NEW k \in DOMAIN old.msg, Passed(k)'
               PROVE  old.msg[k].rcs \in DOMAIN mem.rcsMsg
    BY <1>1 DEF AllMapped
  <2>1. flaws.failed = {}
    BY DEF IntegrateEffect, Quiet, Marked
  <2>2. Passed(k)
    BY <1>1 DEF Passed, After
  <2> QED BY <2>1, <2>2 DEF KeyInv, AllMapped
<1>4. CASE Inserted(OwnItem(r)) /\ Quiet
  <2> DEFINE item == OwnItem(r)
  <2>1. item.from = -pos /\ KeyOf(item) = KeyOf(r) /\ item.time = r.time
    BY DEF OwnItem, KeyOf
  <2>2. /\ n \notin DOMAIN sms /\ DOMAIN sms' = DOMAIN sms \union {n} /\ sms'[n] = item
    BY <1>4 DEF Inserted
  <2>3. Inserted(item)
    BY <1>4
  <2> HIDE DEF item
  <2>4. r.time \in Nat /\ r.time < Now
    BY <1>1, OldKeys
  <2>5. FromKey(sms[n])'
    <3>1. sms'[n].from = -pos /\ sms'[n].time = r.time /\ KeyOf(sms'[n]) = KeyOf(r)
      BY <2>1, <2>2
    <3>2. r.time < Now + troubles' /\ ~(-pos > 0) /\ -(-pos) = pos
      BY <1>1, <2>4, NextCopyAssumption DEF Shape
    <3> QED BY <1>1, <3>1, <3>2 DEF FromKey
  <2>6. ASSUME NEW i \in DOMAIN sms, KeyOf(sms[i]) = KeyOf(r), flaws.failed = {}, sms[i].from > 0
        PROVE FALSE
    <3>1. FromKey(sms[i])
      BY DEF KeyInv, FromKeys
    <3>2. sms[i].from \in DOMAIN old.msg /\ KeyOf(old.msg[sms[i].from]) = KeyOf(old.rcs[pos])
      BY <2>6, <3>1 DEF FromKey
    <3>3. old.msg[sms[i].from].rcs = pos
      BY <1>1, <3>2, OldKeys
    <3>4. pos \in DOMAIN mem.rcsMsg
      BY <1>1, <2>6, <3>2, <3>3 DEF KeyInv, AllMapped, Passed, After
    <3> QED BY <1>1, <3>4 DEF KeyInv, Unmapped
  <2>7. item.from < 0
    BY <1>1, <2>1
  <2>8. FromKeys' /\ KeysAlone'
    BY <1>1, <1>4, <2>1, <2>3, <2>5, <2>6, <2>7, InsertedKeys
  <2> QED BY <1>2, <1>3, <2>8 DEF KeyInv
<1>5. CASE Same /\ Marked(runs) /\ SameFlags
  <2>1. sms' = sms /\ flaws'.blind = flaws.blind /\ flaws'.failed # {}
    BY <1>5 DEF Same, Marked, SameFlags
  <2>2. FromKeys' /\ KeysAlone'
    BY <1>1, <2>1, SameKeys
  <2> QED BY <1>2, <1>3, <2>2 DEF KeyInv
<1> QED BY <1>4, <1>5 DEF IntegrateEffect

LEMMA ReceiveKeys == ASSUME Shape, Shape', KeyInv, ReceiveEffect PROVE KeyInv'
<1> SUFFICES ASSUME NEW n, n = seq.sms + 1 PROVE KeyInv'
  OBVIOUS
<1>1. PICK t \in Tels, row \in {sms'[n]} :
         /\ UNCHANGED <<old, pc, pos, mem>> /\ troubles' = troubles + 1 /\ Inserted(row)
         /\ row.from = 0 /\ row.time = Now + troubles
         /\ flaws'.failed = flaws.failed /\ flaws'.blind = flaws.blind
  BY DEF ReceiveEffect
<1>2. /\ n \notin DOMAIN sms /\ DOMAIN sms' = DOMAIN sms \union {n} /\ sms'[n] = row
      /\ \A i \in DOMAIN sms : sms'[i] = sms[i]
  BY <1>1 DEF Inserted
<1>3. /\ troubles \in Nat /\ troubles' = troubles + 1 /\ Now \in Nat
  BY <1>1, NextCopyAssumption DEF Shape
<1>4. ASSUME NEW i \in DOMAIN sms PROVE FromKey(sms[i])' /\ KeyOf(sms[i]) # KeyOf(row)
  <2>1. FromKey(sms[i]) /\ sms[i].time \in Nat
    BY DEF KeyInv, FromKeys, Shape, TablesTyped, IsMessage
  <2>2. sms[i].time < Now + troubles
    BY <2>1 DEF FromKey
  <2>3. KeyOf(sms[i]) # KeyOf(row)
    BY <1>1, <1>3, <2>1, <2>2, KeysTell
  <2>4. sms[i].time < Now + troubles'
    BY <1>3, <2>1, <2>2
  <2> QED BY <1>1, <1>2, <2>1, <2>3, <2>4 DEF FromKey
<1>5. FromKeys'
  <2>1. FromKey(sms[n])'
    BY <1>1, <1>2, <1>3 DEF FromKey
  <2> QED BY <1>2, <1>4, <2>1 DEF FromKeys
<1>6. KeysAlone'
  BY <1>1, <1>2, <1>4 DEF KeyInv, KeysAlone, Alone
<1>7. KeysRead'
  <2>1. SeenOrNew(sms[n])'
    BY <1>1, <1>2, <1>3 DEF SeenOrNew
  <2> QED BY <1>1, <1>2, <2>1 DEF KeyInv, KeysRead, SeenOrNew
<1>8. AllMapped' /\ Unmapped'
  BY <1>1 DEF KeyInv, AllMapped, Unmapped, Passed
<1> QED BY <1>5, <1>6, <1>7, <1>8 DEF KeyInv

LEMMA KeysStep ==
  ASSUME Shape, KeyInv, [Next]_vars
  PROVE  KeyInv'
<1>1. CASE Next
  <2>1. Shape' /\ StepEffect /\ troubles' >= troubles
    BY <1>1, StepIs, CountersGrow
  <2> QED BY <2>1, CalmKeys, MmsKeys, IntegrateKeys, ReceiveKeys DEF StepEffect, CalmEffect
<1>2. CASE UNCHANGED vars
  BY <1>2 DEF vars, KeyInv, FromKeys, FromKey, KeysRead, SeenOrNew, AllMapped, Passed, Unmapped,
              KeysAlone, Alone
<1> QED BY <1>1, <1>2

LEMMA KeysInit == ASSUME Init PROVE KeyInv
<1>1. PICK db \in NewDbs :
        /\ WellFormed(db) /\ DOMAIN sms = DOMAIN db.msg
        /\ \A i \in DOMAIN sms : /\ sms[i].from = 0 /\ KeyOf(sms[i]) = KeyOf(db.msg[i])
                                 /\ sms[i].time = db.msg[i].time
  BY InitIs DEF InitEffect
<1>2. pc = "idle" /\ troubles = 0
  BY DEF Init
<1>3. \A i \in DOMAIN sms : sms[i].time < Now
  BY <1>1 DEF WellFormed, Contents
<1>4. FromKeys
  BY <1>1, <1>2, <1>3, NextCopyAssumption DEF FromKeys, FromKey
<1>5. KeysAlone
  BY <1>1 DEF KeysAlone, Alone, WellFormed, KeyUnique
<1> QED BY <1>2, <1>4, <1>5 DEF KeyInv, KeysRead, AllMapped, Passed, After, Unmapped

(* What the keys tell, at every moment.                                    *)
THEOREM KeyInvariant == Spec => [](Shape /\ KeyInv)
<1>1. Init => Shape /\ KeyInv
  BY InitIs, KeysInit
<1>2. Shape /\ KeyInv /\ [Next]_vars => (Shape /\ KeyInv)'
  BY StepIs, ShapeStays, KeysStep
<1> QED BY <1>1, <1>2, PTL DEF Spec

(* However often and however far the backup was restored, a message of the *)
(* old phone is in the new one once.                                       *)
THEOREM MessagesNotDuplicated == Spec => []NoDuplicateMessage
<1>1. Shape /\ KeyInv => NoDuplicateMessage
  <2> SUFFICES ASSUME Shape, KeyInv, ~flaws.blind, NEW i \in DOMAIN sms, NEW j \in DOMAIN sms,
                      KeyOf(sms[i]) = KeyOf(sms[j]), i # j
               PROVE  LET own == {k \in {i, j} : sms[k].from < 0}
                      IN \/ own = {i, j}
                         \/ own # {} /\ (flaws.failed # {} \/ \E k \in {i, j} : sms[k].from = 0)
    BY DEF NoDuplicateMessage
  <2>1. Alone(i, j) /\ Alone(j, i)
    BY DEF KeyInv, KeysAlone
  <2>2. sms[i].from \in Int /\ sms[j].from \in Int
    BY DEF Shape, TablesTyped, IsMessage
  <2> QED BY <2>1, <2>2 DEF Alone
<1> QED BY <1>1, KeyInvariant, PTL

-----------------------------------------------------------------------------
(* What is there: no row of a key is a draft unless the old message is; the *)
(* keys read lead to rows of that key; what was passed without an error is  *)
(* there.                                                                   *)
Draftless(row) ==
  \A k \in DOMAIN old.msg :
    KeyOf(row) = KeyOf(old.msg[k]) /\ old.msg[k].state # "draft" => row.state # "draft"
RowsDraftless == \A i \in DOMAIN sms : Draftless(sms[i])

SnapIs ==
  pc = "mms" =>
    \A key \in DOMAIN mem.snapSms :
      mem.snapSms[key] \in DOMAIN sms /\ KeyOf(sms[mem.snapSms[key]]) = key

There(k) == \E i \in DOMAIN sms : KeyOf(sms[i]) = KeyOf(old.msg[k])

AllThere ==
  mem.mmsFailed = 0 /\ ~mem.err =>
    \A k \in DOMAIN old.msg : Passed(k) /\ old.msg[k].state # "draft" => There(k)

DoneInv == RowsDraftless /\ SnapIs /\ AllThere

RowsKept ==
  \A i \in DOMAIN sms :
    sms[i].state # "draft" => i \in DOMAIN sms' /\ KeyOf(sms'[i]) = KeyOf(sms[i])

LEMMA KeptIf == (SameRows => RowsKept) /\ \A item : Inserted(item) => RowsKept
BY DEF SameRows, SameMsg, RowsKept, Inserted

(* A message that is there, and no draft, stays.                           *)
LEMMA ThereStays ==
  ASSUME RowsDraftless, RowsKept, old' = old,
         NEW k \in DOMAIN old.msg, old.msg[k].state # "draft", There(k)
  PROVE  There(k)'
<1>1. PICK i \in DOMAIN sms : KeyOf(sms[i]) = KeyOf(old.msg[k])
  BY DEF There
<1>2. sms[i].state # "draft"
  BY <1>1 DEF RowsDraftless, Draftless
<1>3. i \in DOMAIN sms' /\ KeyOf(sms'[i]) = KeyOf(old.msg[k])
  BY <1>1, <1>2 DEF RowsKept
<1> QED BY <1>3 DEF There

(* The report's counters change with what was passed only.                 *)
LEMMA CalmReport ==
  ASSUME Shape, CalmEffect \/ IntegrateEffect \/ ReceiveEffect
  PROVE  \/ mem'.err = TRUE
         \/ pc' \notin After \union {"mms"}
         \/ mem'.err = mem.err /\ mem'.mmsFailed = mem.mmsFailed
<1>1. CASE StartEffect BY <1>1 DEF StartEffect, After
<1>2. CASE PageEffect BY <1>2 DEF PageEffect
<1>3. CASE CrashEffect BY <1>3 DEF CrashEffect, After
<1>4. CASE MergeEffect BY <1>4 DEF MergeEffect, Keep, MemFields
<1>5. CASE InsertSessionEffect BY <1>5 DEF InsertSessionEffect, Keep, MemFields
<1>6. CASE ReadEffect BY <1>6 DEF ReadEffect, Keep, MemFields
<1>7. CASE ReadRcsEffect BY <1>7 DEF ReadRcsEffect, Keep, MemFields
<1>8. CASE RcsEffect BY <1>8 DEF RcsEffect, RcsIsNow, Keep, MemFields
<1>9. CASE IntegrateEffect BY <1>9 DEF IntegrateEffect
<1>10. CASE UpdateEffect BY <1>10 DEF UpdateEffect
<1>11. CASE TidyEffect BY <1>11 DEF TidyEffect
<1>12. CASE DraftEffect BY <1>12 DEF DraftEffect
<1>13. CASE ReceiveEffect BY <1>13 DEF ReceiveEffect
<1> QED BY <1>1, <1>2, <1>3, <1>4, <1>5, <1>6, <1>7, <1>8, <1>9, <1>10, <1>11, <1>12, <1>13
        DEF CalmEffect

LEMMA AllThereStays ==
  ASSUME Shape, DoneInv, RowsKept, old' = old, CalmEffect \/ IntegrateEffect \/ ReceiveEffect
  PROVE  AllThere'
<1> SUFFICES ASSUME mem'.mmsFailed = 0, ~mem'.err, NEW k \in DOMAIN old.msg, Passed(k)',
                    old.msg[k].state # "draft"
             PROVE  There(k)'
  BY DEF AllThere
<1>1. pc' \in After \union {"mms"}
  BY DEF Passed
<1>2. mem'.err = mem.err /\ mem'.mmsFailed = mem.mmsFailed
  BY <1>1, CalmReport
<1>3. Passed(k)
  BY <1>1, PassedStays
<1>4. There(k)
  BY <1>2, <1>3 DEF DoneInv, AllThere
<1> QED BY <1>4, ThereStays DEF DoneInv

LEMMA CalmDone == ASSUME Shape, DoneInv, CalmEffect PROVE DoneInv'
<1>1. SameRows /\ old' = old
  BY RowsStay
<1>2. RowsDraftless'
  BY <1>1 DEF DoneInv, RowsDraftless, Draftless, SameRows, SameMsg
<1>3. SnapIs'
  <2> SUFFICES ASSUME pc' = "mms", NEW key \in DOMAIN mem'.snapSms
               PROVE  mem'.snapSms[key] \in DOMAIN sms' /\ KeyOf(sms'[mem'.snapSms[key]]) = key
    BY DEF SnapIs
  <2>1. CASE ReadEffect
    <3> DEFINE keys == [x \in DOMAIN sms |-> KeyOf(sms[x])]
    <3>1. /\ DOMAIN Latest(keys) = Range(keys)
          /\ \A x \in Range(keys) : Latest(keys)[x] \in DOMAIN sms /\ KeyOf(sms[Latest(keys)[x]]) = x
      BY LatestIs DEF Shape, TablesTyped
    <3>2. sms' = sms /\ mem'.snapSms \in {QuerySmsInfo, Nothing} /\ DOMAIN Nothing = {}
      BY <2>1 DEF ReadEffect, Same, Nothing
    <3> HIDE DEF keys
    <3> QED BY <3>1, <3>2 DEF QuerySmsInfo, keys
  <2>2. CASE PageEffect
    BY <2>2 DEF PageEffect, Keep, MemFields, Same, DoneInv, SnapIs
  <2>3. CASE UpdateEffect
    <3>1. pc = "mms" /\ mem' = mem /\ DOMAIN sms' = DOMAIN sms
      BY <2>3 DEF UpdateEffect, Relinked, Same
    <3> QED BY <1>1, <3>1 DEF DoneInv, SnapIs, SameRows, SameMsg
  <2> QED BY <2>1, <2>2, <2>3 DEF CalmEffect, StartEffect, CrashEffect, MergeEffect,
           InsertSessionEffect, ReadRcsEffect, RcsEffect, RcsIsNow, TidyEffect, DraftEffect
<1>4. AllThere'
  BY <1>1, AllThereStays, KeptIf
<1> QED BY <1>2, <1>3, <1>4 DEF DoneInv

(* With a new row.                                                         *)
LEMMA InsertedDone ==
  ASSUME Shape, DoneInv, NEW item, Inserted(item), old' = old, Draftless(item),
         pc' = "mms" => mem'.snapSms = mem.snapSms /\ pc = "mms"
  PROVE  RowsDraftless' /\ SnapIs'
<1>1. /\ DOMAIN sms \subseteq DOMAIN sms' /\ \A i \in DOMAIN sms : sms'[i] = sms[i]
      /\ \A i \in DOMAIN sms' : i \in DOMAIN sms \/ sms'[i] = item
  BY DEF Inserted
<1>2. RowsDraftless'
  BY <1>1 DEF DoneInv, RowsDraftless, Draftless
<1>3. SnapIs'
  BY <1>1 DEF DoneInv, SnapIs
<1> QED BY <1>2, <1>3

LEMMA MmsDone == ASSUME Shape, Shape', DoneInv, MmsEffect PROVE DoneInv'
<1> SUFFICES ASSUME NEW p, p = pos PROVE DoneInv'
  OBVIOUS
<1> DEFINE m == old.msg[pos]
<1>1. /\ pc = "mms" /\ pc' = "mms" /\ pos \in DOMAIN old.msg /\ pos' = pos + 1 /\ old' = old
      /\ pos \in Nat
  BY DEF MmsEffect, Shape
<1>2. m \in MsgRow
  BY <1>1, OldIs
<1>3. ASSUME NEW id, CopiedTo(m, id), RowsKept, m.state # "draft" => There(p)'
      PROVE  AllThere' /\ mem'.snapSms = mem.snapSms
  <2>1. mem'.err = mem.err /\ mem'.mmsFailed = mem.mmsFailed /\ mem'.snapSms = mem.snapSms
    BY <1>3 DEF CopiedTo, Keep, CopyFields, MemFields
  <2> SUFFICES ASSUME mem.mmsFailed = 0, ~mem.err, NEW k \in DOMAIN old.msg, Passed(k)',
                      old.msg[k].state # "draft"
               PROVE  There(k)'
    BY <1>1, <2>1 DEF AllThere
  <2>2. CASE k = pos
    BY <1>3, <2>2
  <2>3. CASE k # pos
    <3>1. Passed(k)
      BY <1>1, <2>3, OldIs DEF Passed, After
    <3>2. There(k)
      BY <3>1 DEF DoneInv, AllThere
    <3> QED BY <1>1, <1>3, <3>2, ThereStays DEF DoneInv
  <2> QED BY <2>2, <2>3
<1>4. CASE KeyOf(m) \in DOMAIN mem.snapSms /\ Same /\ CopiedTo(m, mem.snapSms[KeyOf(m)])
  <2>1. sms' = sms /\ RowsKept
    BY <1>4 DEF Same, RowsKept
  <2>2. There(p)'
    BY <1>1, <1>4, <2>1 DEF DoneInv, SnapIs, There
  <2>3. AllThere' /\ mem'.snapSms = mem.snapSms
    BY <1>3, <1>4, <2>1, <2>2
  <2> QED BY <1>1, <2>1, <2>3 DEF DoneInv, RowsDraftless, Draftless, SnapIs
<1>5. CASE CopiedTo(m, seq.sms + 1) /\ Inserted(GetSmsMmsInfoItem(m))
  <2> DEFINE item == GetSmsMmsInfoItem(m)
  <2>1. KeyOf(item) = KeyOf(m) /\ (item.state = "draft" <=> m.state = "draft")
    BY <1>2, <1>5, CopiedTyped, ItemIs
  <2>2. Inserted(item) /\ RowsKept
    BY <1>5, KeptIf
  <2> HIDE DEF item
  <2>3. There(p)'
    BY <1>1, <2>1, <2>2 DEF Inserted, There
  <2>4. AllThere' /\ mem'.snapSms = mem.snapSms
    BY <1>3, <1>5, <2>2, <2>3
  <2>5. Draftless(item)
    BY <1>1, <2>1, OldKeys DEF Draftless
  <2> QED BY <1>1, <2>2, <2>4, <2>5, InsertedDone DEF DoneInv
<1>6. CASE Same /\ Keep({"threads", "mmsFailed"}) /\ mem'.mmsFailed = mem.mmsFailed + 1
  <2>1. sms' = sms /\ mem'.mmsFailed # 0 /\ mem'.snapSms = mem.snapSms
    BY <1>6 DEF Same, Shape, MemTyped, Keep, MemFields
  <2> QED BY <1>1, <2>1 DEF DoneInv, RowsDraftless, Draftless, SnapIs, AllThere
<1> QED BY <1>4, <1>5, <1>6 DEF MmsEffect

LEMMA IntegrateDone == ASSUME Shape, DoneInv, IntegrateEffect PROVE DoneInv'
<1>1. pc' = "rcs" /\ old' = old
  BY DEF IntegrateEffect
<1>2. CASE Inserted(OwnItem(old.rcs[pos]))
  <2> DEFINE item == OwnItem(old.rcs[pos])
  <2>1. Draftless(item)
    BY DEF OwnItem, Draftless
  <2> HIDE DEF item
  <2>2. RowsDraftless' /\ SnapIs' /\ RowsKept
    BY <1>1, <1>2, <2>1, InsertedDone, KeptIf DEF item
  <2>3. AllThere'
    BY <1>1, <2>2, AllThereStays
  <2> QED BY <2>2, <2>3 DEF DoneInv
<1>3. CASE Same
  <2>1. sms' = sms /\ RowsKept
    BY <1>3 DEF Same, RowsKept
  <2>2. AllThere'
    BY <1>1, <2>1, AllThereStays
  <2> QED BY <1>1, <2>1, <2>2 DEF DoneInv, RowsDraftless, Draftless, SnapIs
<1> QED BY <1>2, <1>3 DEF IntegrateEffect

LEMMA ReceiveDone == ASSUME Shape, DoneInv, ReceiveEffect PROVE DoneInv'
<1>1. PICK t \in Tels, row \in {sms'[seq.sms + 1]} :
         UNCHANGED <<old, pc, mem>> /\ Inserted(row) /\ row.state = "ok"
  BY DEF ReceiveEffect
<1>2. Draftless(row)
  BY <1>1 DEF Draftless
<1>3. RowsDraftless' /\ SnapIs' /\ RowsKept
  BY <1>1, <1>2, InsertedDone, KeptIf
<1>4. AllThere'
  BY <1>1, <1>3, AllThereStays
<1> QED BY <1>3, <1>4 DEF DoneInv

LEMMA DoneStep ==
  ASSUME Shape, DoneInv, [Next]_vars
  PROVE  DoneInv'
<1>1. CASE Next
  <2>1. Shape' /\ StepEffect
    BY <1>1, StepIs
  <2> QED BY <2>1, CalmDone, MmsDone, IntegrateDone, ReceiveDone DEF StepEffect, CalmEffect
<1>2. CASE UNCHANGED vars
  BY <1>2 DEF vars, DoneInv, RowsDraftless, Draftless, SnapIs, AllThere, Passed, There
<1> QED BY <1>1, <1>2

LEMMA DoneInit == ASSUME Init PROVE DoneInv
<1>1. PICK db \in NewDbs :
        /\ DOMAIN sms = DOMAIN db.msg
        /\ \A i \in DOMAIN sms : KeyOf(sms[i]) = KeyOf(db.msg[i]) /\ sms[i].state = db.msg[i].state
  BY InitIs DEF InitEffect
<1>2. pc = "idle" /\ old \in OldDbs
  BY DEF Init
<1>3. RowsDraftless
  <2> SUFFICES ASSUME NEW i \in DOMAIN sms, NEW k \in DOMAIN old.msg,
                      KeyOf(sms[i]) = KeyOf(old.msg[k]), old.msg[k].state # "draft"
               PROVE  sms[i].state # "draft"
    BY DEF RowsDraftless, Draftless
  <2>1. old.msg[k] \in Contents(old.msg) /\ db.msg[i] \in Contents(db.msg)
    BY <1>1 DEF Contents
  <2>2. KeyOf(old.msg[k]) = KeyOf(db.msg[i])
    BY <1>1
  <2>3. old.msg[k].state = "draft" <=> db.msg[i].state = "draft"
    BY <1>2, <2>1, <2>2, NextCopyAssumption
  <2> QED BY <1>1, <2>3
<1> QED BY <1>2, <1>3 DEF DoneInv, SnapIs, AllThere, Passed, After

(* What is there, at every moment.                                         *)
THEOREM DoneInvariant == Spec => [](Shape /\ DoneInv)
<1>1. Init => Shape /\ DoneInv
  BY InitIs, DoneInit
<1>2. Shape /\ DoneInv /\ [Next]_vars => (Shape /\ DoneInv)'
  BY StepIs, ShapeStays, DoneStep
<1> QED BY <1>1, <1>2, PTL DEF Spec

(* A success without an error in the callback means that every message of  *)
(* the backup but a draft is in the new phone.                             *)
THEOREM SuccessIsTrue == Spec => []ReportHonest
<1>1. DoneInv => ReportHonest
  BY DEF DoneInv, AllThere, There, Passed, After, ReportHonest, ReportedSuccess
<1> QED BY <1>1, DoneInvariant, PTL

-----------------------------------------------------------------------------
(* The links: what the maps and the updates on their way say of a message   *)
(* is true of it, and an RCS row that was passed is, or will be, linked.    *)
Fits(id, k) == id \in DOMAIN rcs /\ KeyOf(rcs[id]) = KeyOf(old.rcs[old.msg[k].rcs])

IsRow(id, k) ==
  id \in 1..seq.sms /\ (id \in DOMAIN sms => KeyOf(sms[id]) = KeyOf(old.msg[k]))

SnapRcsIs ==
  \A key \in DOMAIN mem.snapRcs :
    mem.snapRcs[key] \in DOMAIN rcs /\ KeyOf(rcs[mem.snapRcs[key]]) = key

RcsMsgIs ==
  \A r \in DOMAIN mem.rcsMsg : r \in DOMAIN old.rcs =>
    \E k \in DOMAIN old.msg : old.msg[k].rcs = r /\ IsRow(mem.rcsMsg[r], k)

PendingFits ==
  \A u \in pending :
    \E k \in DOMAIN old.msg : old.msg[k].rich /\ IsRow(u.msg, k) /\ Fits(u.rcs, k)

Mapped ==
  runs \notin flaws.failed =>
    \A k \in DOMAIN old.msg : Passed(k) /\ old.msg[k].rich =>
      /\ old.msg[k].rcs \in DOMAIN mem.rcsMsg
      /\ old.msg[k].state # "draft" => mem.rcsMsg[old.msg[k].rcs] \in DOMAIN sms

RcsPassed(r) ==
  (pc \in {"rcs", "integrate"} /\ r < pos) \/ pc \in After \ {"rcs", "integrate"}

LinkOf(k) ==
  \E i \in DOMAIN sms : /\ KeyOf(sms[i]) = KeyOf(old.msg[k])
                        /\ Fits(sms[i].rcs, k) \/ \E u \in pending : u.msg = i

AllLinked ==
  runs \notin flaws.failed =>
    \A k \in DOMAIN old.msg :
      old.msg[k].rich /\ old.msg[k].state # "draft" /\ RcsPassed(old.msg[k].rcs) => LinkOf(k)

LinkInv == SnapRcsIs /\ RcsMsgIs /\ PendingFits /\ Mapped /\ AllLinked

(* An RCS row belongs to one message of the backup.                        *)
LEMMA RichKeys ==
  ASSUME Shape
  PROVE  /\ \A k \in DOMAIN old.msg : old.msg[k].rich <=> old.msg[k].rcs \in DOMAIN old.rcs
         /\ \A k, l \in DOMAIN old.msg :
              old.msg[k].rich /\ old.msg[l].rich /\ old.msg[k].rcs = old.msg[l].rcs => k = l
<1>1. WellFormedBackup(old)
  BY OldIs
<1>2. \A k \in DOMAIN old.msg : old.msg[k] \in Contents(old.msg)
  BY DEF Contents
<1> QED BY <1>1, <1>2 DEF WellFormedBackup

(* Rows come, and stay the messages they are.                              *)
LEMMA StepRows ==
  ASSUME StepEffect
  PROVE  old' = old /\ (SameRows \/ \E item : Inserted(item))
<1>1. sms' = sms => SameRows
  BY DEF SameRows, SameMsg
<1>2. CASE CalmEffect
  BY <1>2, RowsStay
<1>3. CASE MmsEffect
  BY <1>1, <1>3 DEF MmsEffect, Same
<1>4. CASE IntegrateEffect
  BY <1>1, <1>4 DEF IntegrateEffect, Same
<1>5. CASE ReceiveEffect
  BY <1>5 DEF ReceiveEffect
<1> QED BY <1>2, <1>3, <1>4, <1>5 DEF StepEffect, CalmEffect

LEMMA RowStays ==
  ASSUME Shape, Shape', StepEffect, seq'.sms >= seq.sms, NEW id, NEW k, IsRow(id, k)
  PROVE  IsRow(id, k)'
<1>1. id \in 1..seq'.sms
  BY DEF IsRow, Shape, TablesTyped
<1>2. CASE SameRows
  BY <1>1, <1>2, StepRows DEF IsRow, SameRows, SameMsg
<1>3. CASE \E item : Inserted(item)
  <2>1. /\ DOMAIN sms' = DOMAIN sms \union {seq.sms + 1}
        /\ \A i \in DOMAIN sms : sms'[i] = sms[i]
    BY <1>3 DEF Inserted
  <2>2. id # seq.sms + 1
    BY DEF IsRow, Shape, TablesTyped
  <2> QED BY <1>1, <2>1, <2>2, StepRows DEF IsRow
<1> QED BY <1>2, <1>3, StepRows

LEMMA RcsStays ==
  ASSUME StepEffect
  PROVE  \A i \in DOMAIN rcs : i \in DOMAIN rcs' /\ rcs'[i] = rcs[i]
BY DEF StepEffect, StartEffect, PageEffect, CrashEffect, MergeEffect, InsertSessionEffect,
       ReadEffect, MmsEffect, ReadRcsEffect, RcsEffect, IntegrateEffect, UpdateEffect,
       TidyEffect, DraftEffect, ReceiveEffect, Same

LEMMA FitStays ==
  ASSUME StepEffect, NEW id, NEW k, Fits(id, k)
  PROVE  Fits(id, k)'
BY RcsStays, StepRows DEF Fits

(* The maps about RCS rows.                                                *)
LEMMA RcsMapsStay ==
  ASSUME CalmEffect \/ IntegrateEffect \/ ReceiveEffect
  PROVE  /\ DOMAIN mem'.rcsMsg = {} \/ mem'.rcsMsg = mem.rcsMsg
         /\ DOMAIN mem'.snapRcs = {} \/ mem'.snapRcs = mem.snapRcs \/ ReadRcsEffect
<1>1. CASE StartEffect
  BY <1>1, NewMemIs DEF StartEffect, MemFields
<1>2. CASE PageEffect BY <1>2 DEF PageEffect, Keep, MemFields
<1>3. CASE CrashEffect BY <1>3, NewMemIs DEF CrashEffect
<1>4. CASE MergeEffect BY <1>4 DEF MergeEffect, Keep, MemFields
<1>5. CASE InsertSessionEffect BY <1>5 DEF InsertSessionEffect, Keep, MemFields
<1>6. CASE ReadEffect BY <1>6 DEF ReadEffect, Keep, MemFields
<1>7. CASE ReadRcsEffect BY <1>7 DEF ReadRcsEffect, Keep, MemFields
<1>8. CASE RcsEffect BY <1>8 DEF RcsEffect, RcsIsNow, Keep, MemFields
<1>9. CASE IntegrateEffect BY <1>9 DEF IntegrateEffect
<1>10. CASE UpdateEffect BY <1>10 DEF UpdateEffect
<1>11. CASE TidyEffect BY <1>11 DEF TidyEffect
<1>12. CASE DraftEffect BY <1>12 DEF DraftEffect
<1>13. CASE ReceiveEffect BY <1>13 DEF ReceiveEffect
<1> QED BY <1>1, <1>2, <1>3, <1>4, <1>5, <1>6, <1>7, <1>8, <1>9, <1>10, <1>11, <1>12, <1>13
        DEF CalmEffect

(* What a message of the backup becomes: a row there is.                   *)
LEMMA MmsRow ==
  ASSUME Shape, Shape', DoneInv, MmsEffect, NEW p, p = pos
  PROVE  \/ mem'.rcsMsg = mem.rcsMsg /\ Marked(runs)
         \/ \E id \in DOMAIN sms' : /\ mem'.rcsMsg = Put(mem.rcsMsg, old.msg[p].rcs, id)
                                    /\ IsRow(id, p)'
<1> DEFINE m == old.msg[p]
<1>1. pc = "mms" /\ p \in DOMAIN old.msg /\ old' = old /\ m \in MsgRow
  BY OldIs DEF MmsEffect
<1>2. \A id \in DOMAIN sms' : id \in 1..seq'.sms
  BY DEF Shape, TablesTyped
<1>3. CASE KeyOf(m) \in DOMAIN mem.snapSms /\ Same /\ CopiedTo(m, mem.snapSms[KeyOf(m)])
  <2>1. mem.snapSms[KeyOf(m)] \in DOMAIN sms' /\ KeyOf(sms'[mem.snapSms[KeyOf(m)]]) = KeyOf(m)
    BY <1>1, <1>3 DEF DoneInv, SnapIs, Same
  <2> QED BY <1>1, <1>2, <1>3, <2>1 DEF CopiedTo, IsRow
<1>4. CASE CopiedTo(m, seq.sms + 1) /\ Inserted(GetSmsMmsInfoItem(m))
  <2>1. KeyOf(GetSmsMmsInfoItem(m)) = KeyOf(m)
    BY <1>1, <1>4, CopiedTyped, ItemIs
  <2>2. seq.sms + 1 \in DOMAIN sms' /\ KeyOf(sms'[seq.sms + 1]) = KeyOf(m)
    BY <1>4, <2>1 DEF Inserted
  <2> QED BY <1>1, <1>2, <1>4, <2>2 DEF CopiedTo, IsRow
<1>5. CASE Keep({"threads", "mmsFailed"}) /\ Marked(runs)
  BY <1>5 DEF Keep, MemFields
<1> QED BY <1>3, <1>4, <1>5 DEF MmsEffect

LEMMA SnapRcsStep ==
  ASSUME Shape, LinkInv, StepEffect
  PROVE  SnapRcsIs'
<1>1. CASE MmsEffect
  <2>1. mem'.snapRcs = mem.snapRcs
    <3>1. CASE Keep(CopyFields)
      BY <3>1 DEF Keep, CopyFields, MemFields
    <3>2. CASE Keep({"threads", "mmsFailed"})
      BY <3>2 DEF Keep, MemFields
    <3> QED BY <1>1, <3>1, <3>2 DEF MmsEffect, CopiedTo
  <2> QED BY <2>1, RcsStays DEF LinkInv, SnapRcsIs
<1>2. CASE ReadRcsEffect
  <2>1. CASE mem'.snapRcs = QueryRcs
    <3> DEFINE keys == [x \in DOMAIN rcs |-> KeyOf(rcs[x])]
    <3>1. /\ DOMAIN Latest(keys) = Range(keys)
          /\ \A x \in Range(keys) : Latest(keys)[x] \in DOMAIN rcs /\ KeyOf(rcs[Latest(keys)[x]]) = x
      BY LatestIs DEF Shape, TablesTyped
    <3>2. rcs' = rcs
      BY <1>2 DEF ReadRcsEffect, Same
    <3> HIDE DEF keys
    <3> QED BY <2>1, <3>1, <3>2 DEF QueryRcs, SnapRcsIs, keys
  <2>2. CASE mem'.snapRcs = mem.snapRcs
    BY <2>2, RcsStays DEF LinkInv, SnapRcsIs
  <2> QED BY <1>2, <2>1, <2>2 DEF ReadRcsEffect
<1>3. CASE ~MmsEffect /\ ~ReadRcsEffect
  <2>1. DOMAIN mem'.snapRcs = {} \/ mem'.snapRcs = mem.snapRcs
    BY <1>3, RcsMapsStay DEF StepEffect, CalmEffect
  <2> QED BY <2>1, RcsStays DEF LinkInv, SnapRcsIs
<1> QED BY <1>1, <1>2, <1>3

LEMMA RcsMsgStep ==
  ASSUME Shape, Shape', DoneInv, LinkInv, StepEffect, seq'.sms >= seq.sms
  PROVE  RcsMsgIs'
<1> DEFINE WillBe(id, k) ==
             id \in 1..seq'.sms /\ (id \in DOMAIN sms' => KeyOf(sms'[id]) = KeyOf(old.msg[k]))
<1>0. old' = old
  BY StepRows
<1>a. ASSUME NEW id, NEW k PROVE IsRow(id, k)' <=> WillBe(id, k)
  BY <1>0 DEF IsRow
<1>b. RcsMsgIs' <=> \A r \in DOMAIN mem'.rcsMsg : r \in DOMAIN old.rcs =>
                     \E k \in DOMAIN old.msg : old.msg[k].rcs = r /\ WillBe(mem'.rcsMsg[r], k)
  BY <1>0 DEF RcsMsgIs, IsRow
<1> HIDE DEF WillBe
<1>1. ASSUME NEW r \in DOMAIN old.rcs, r \in DOMAIN mem.rcsMsg, mem'.rcsMsg[r] = mem.rcsMsg[r]
      PROVE  \E k \in DOMAIN old.msg : old.msg[k].rcs = r /\ WillBe(mem'.rcsMsg[r], k)
  <2>1. PICK k \in DOMAIN old.msg : old.msg[k].rcs = r /\ IsRow(mem.rcsMsg[r], k)
    BY <1>1 DEF LinkInv, RcsMsgIs
  <2>2. \A id : IsRow(id, k) => WillBe(id, k)
    BY <1>a, RowStays
  <2> QED BY <1>1, <2>1, <2>2
<1>2. CASE MmsEffect
  <2> SUFFICES ASSUME NEW p, p = pos PROVE RcsMsgIs'
    OBVIOUS
  <2>1. p \in DOMAIN old.msg
    BY <1>2 DEF MmsEffect
  <2>2. CASE mem'.rcsMsg = mem.rcsMsg
    BY <1>1, <1>b, <2>2
  <2>3. ASSUME NEW id \in DOMAIN sms', mem'.rcsMsg = Put(mem.rcsMsg, old.msg[p].rcs, id),
               IsRow(id, p)'
        PROVE  RcsMsgIs'
    <3> SUFFICES ASSUME NEW r \in DOMAIN old.rcs, r \in DOMAIN mem'.rcsMsg
                 PROVE  \E k \in DOMAIN old.msg : old.msg[k].rcs = r /\ WillBe(mem'.rcsMsg[r], k)
      BY <1>b
    <3>1. CASE r = old.msg[p].rcs
      <4>1. mem'.rcsMsg[r] = id
        BY <2>3, <3>1 DEF Put
      <4> QED BY <1>a, <2>1, <2>3, <3>1, <4>1
    <3>2. CASE r # old.msg[p].rcs
      <4>1. r \in DOMAIN mem.rcsMsg /\ mem'.rcsMsg[r] = mem.rcsMsg[r]
        BY <2>3, <3>2 DEF Put
      <4> QED BY <1>1, <4>1
    <3> QED BY <3>1, <3>2
  <2> QED BY <1>2, <2>2, <2>3, MmsRow
<1>3. CASE ~MmsEffect
  <2>1. DOMAIN mem'.rcsMsg = {} \/ mem'.rcsMsg = mem.rcsMsg
    BY <1>3, RcsMapsStay DEF StepEffect, CalmEffect
  <2> QED BY <1>1, <1>b, <2>1
<1> QED BY <1>2, <1>3

(* The message of an RCS row, as the map has it.                           *)
LEMMA MapTells ==
  ASSUME Shape, LinkInv, NEW k \in DOMAIN old.msg, old.msg[k].rich,
         old.msg[k].rcs \in DOMAIN mem.rcsMsg
  PROVE  IsRow(mem.rcsMsg[old.msg[k].rcs], k)
<1>1. old.msg[k].rcs \in DOMAIN old.rcs
  BY RichKeys
<1>2. PICK l \in DOMAIN old.msg : old.msg[l].rcs = old.msg[k].rcs /\ IsRow(mem.rcsMsg[old.msg[k].rcs], l)
  BY <1>1 DEF LinkInv, RcsMsgIs
<1>3. old.msg[l].rich
  BY <1>1, <1>2, RichKeys
<1> QED BY <1>2, <1>3, RichKeys

(* What an RCS row does to the updates on their way.                       *)
LEMMA RcsLinks ==
  ASSUME Shape, LinkInv, RcsEffect
  PROVE  \/ pending' = pending
         \/ \E id : /\ pos \in DOMAIN mem.rcsMsg /\ pos' = pos + 1 /\ pc' = pc
                    /\ pending' = pending \union {[msg |-> mem.rcsMsg[pos], rcs |-> id]}
                    /\ id \in DOMAIN rcs' /\ KeyOf(rcs'[id]) = KeyOf(old.rcs[pos])
<1> DEFINE r == old.rcs[pos]
<1>1. CASE KeyOf(r) \in DOMAIN mem.snapRcs /\ RcsIsNow(r, mem.snapRcs[KeyOf(r)]) /\ Same
  <2>1. mem.snapRcs[KeyOf(r)] \in DOMAIN rcs' /\ KeyOf(rcs'[mem.snapRcs[KeyOf(r)]]) = KeyOf(r)
    BY <1>1 DEF LinkInv, SnapRcsIs, Same
  <2> QED BY <1>1, <2>1 DEF RcsIsNow
<1>2. CASE /\ RcsIsNow(r, seq.rcs + 1) /\ DOMAIN rcs' = DOMAIN rcs \union {seq.rcs + 1}
           /\ KeyOf(rcs'[seq.rcs + 1]) = KeyOf(r)
  BY <1>2 DEF RcsIsNow
<1>3. CASE UNCHANGED <<mem, pending, pc>>
  BY <1>3
<1> QED BY <1>1, <1>2, <1>3 DEF RcsEffect

LEMMA PendingStep ==
  ASSUME Shape, Shape', DoneInv, LinkInv, StepEffect, seq'.sms >= seq.sms
  PROVE  PendingFits'
<1>0. old' = old
  BY StepRows
<1>1. ASSUME NEW u \in pending
      PROVE  \E k \in DOMAIN old.msg : old.msg[k].rich /\ IsRow(u.msg, k)' /\ Fits(u.rcs, k)'
  <2>1. PICK k \in DOMAIN old.msg : old.msg[k].rich /\ IsRow(u.msg, k) /\ Fits(u.rcs, k)
    BY DEF LinkInv, PendingFits
  <2> QED BY <2>1, RowStays, FitStays
<1>2. CASE pending' \subseteq pending
  BY <1>0, <1>1, <1>2 DEF PendingFits
<1>3. CASE RcsEffect
  <2>1. CASE pending' = pending
    BY <1>2, <2>1
  <2>2. ASSUME NEW id, pos \in DOMAIN mem.rcsMsg,
               pending' = pending \union {[msg |-> mem.rcsMsg[pos], rcs |-> id]},
               id \in DOMAIN rcs', KeyOf(rcs'[id]) = KeyOf(old.rcs[pos])
        PROVE  PendingFits'
    <3>1. pos \in DOMAIN old.rcs
      BY <1>3 DEF RcsEffect
    <3>2. PICK k \in DOMAIN old.msg : old.msg[k].rcs = pos /\ IsRow(mem.rcsMsg[pos], k)
      BY <2>2, <3>1 DEF LinkInv, RcsMsgIs
    <3>3. old.msg[k].rich
      BY <3>1, <3>2, RichKeys
    <3>4. ASSUME NEW msg, msg = mem.rcsMsg[pos] PROVE IsRow(msg, k)' /\ Fits(id, k)'
      <4>1. IsRow(msg, k)'
        BY <3>2, <3>4, RowStays
      <4> QED BY <1>0, <2>2, <3>2, <4>1 DEF Fits
    <3>5. \A u : u = [msg |-> mem.rcsMsg[pos], rcs |-> id] =>
            IsRow(u.msg, k)' /\ Fits(u.rcs, k)'
      BY <3>4
    <3>6. \A u \in pending' : u \in pending \/ u = [msg |-> mem.rcsMsg[pos], rcs |-> id]
      BY <2>2
    <3> QED BY <1>0, <1>1, <3>3, <3>5, <3>6 DEF PendingFits
  <2> QED BY <1>3, <2>1, <2>2, RcsLinks
<1> QED BY <1>2, <1>3 DEF StepEffect, StartEffect, PageEffect, CrashEffect, MergeEffect,
        InsertSessionEffect, ReadEffect, MmsEffect, ReadRcsEffect, IntegrateEffect, UpdateEffect,
        TidyEffect, DraftEffect, ReceiveEffect

(* A restore without failures is the one before the step, or has begun.    *)
LEMMA CleanStep ==
  ASSUME Shape, StepEffect, runs' \notin flaws'.failed
  PROVE  \/ pc' = "session" /\ StartEffect
         \/ runs' = runs /\ runs \notin flaws.failed
<1>1. flaws.failed \subseteq flaws'.failed
  BY FlawsStay
<1>2. CASE StartEffect
  BY <1>2 DEF StartEffect, Marked
<1>3. CASE ~StartEffect
  BY <1>1, <1>3 DEF StepEffect, PageEffect, CrashEffect, MergeEffect, InsertSessionEffect, ReadEffect,
     MmsEffect, ReadRcsEffect, RcsEffect, IntegrateEffect, UpdateEffect, TidyEffect, DraftEffect,
     ReceiveEffect
<1> QED BY <1>2, <1>3

LEMMA KeptRows == ASSUME StepEffect PROVE RowsKept
BY StepRows, KeptIf

LEMMA MappedStep ==
  ASSUME Shape, Shape', DoneInv, LinkInv, StepEffect
  PROVE  Mapped'
<1>0. old' = old /\ RowsKept
  BY StepRows, KeptRows
<1> SUFFICES ASSUME runs' \notin flaws'.failed, NEW k \in DOMAIN old.msg, Passed(k)', old.msg[k].rich
             PROVE  /\ old.msg[k].rcs \in DOMAIN mem'.rcsMsg
                    /\ old.msg[k].state # "draft" => mem'.rcsMsg[old.msg[k].rcs] \in DOMAIN sms'
  BY <1>0 DEF Mapped
<1>1. runs' = runs /\ runs \notin flaws.failed
  BY CleanStep DEF Passed, After
<1> DEFINE r == old.msg[k].rcs
<1>2. ASSUME Passed(k)
      PROVE  /\ r \in DOMAIN mem.rcsMsg
             /\ old.msg[k].state # "draft" => mem.rcsMsg[r] \in DOMAIN sms'
  <2>1. /\ r \in DOMAIN mem.rcsMsg
        /\ old.msg[k].state # "draft" => mem.rcsMsg[r] \in DOMAIN sms
    BY <1>1, <1>2 DEF LinkInv, Mapped
  <2>2. ASSUME old.msg[k].state # "draft" PROVE mem.rcsMsg[r] \in DOMAIN sms'
    <3>1. mem.rcsMsg[r] \in DOMAIN sms /\ KeyOf(sms[mem.rcsMsg[r]]) = KeyOf(old.msg[k])
      BY <2>1, <2>2, MapTells DEF IsRow
    <3>2. sms[mem.rcsMsg[r]].state # "draft"
      BY <2>2, <3>1 DEF DoneInv, RowsDraftless, Draftless
    <3> QED BY <1>0, <3>1, <3>2 DEF RowsKept
  <2> QED BY <2>1, <2>2
<1>3. CASE MmsEffect
  <2> SUFFICES ASSUME NEW p, p = pos
               PROVE  /\ r \in DOMAIN mem'.rcsMsg
                      /\ old.msg[k].state # "draft" => mem'.rcsMsg[r] \in DOMAIN sms'
    OBVIOUS
  <2>1. pc = "mms" /\ pc' = "mms" /\ p \in Nat /\ pos' = p + 1
    BY <1>3 DEF MmsEffect, Shape
  <2>2. PICK id \in DOMAIN sms' : mem'.rcsMsg = Put(mem.rcsMsg, old.msg[p].rcs, id)
    BY <1>1, <1>3, MmsRow DEF Marked
  <2>3. /\ DOMAIN mem'.rcsMsg = DOMAIN mem.rcsMsg \union {old.msg[p].rcs}
        /\ \A q \in DOMAIN mem'.rcsMsg :
             mem'.rcsMsg[q] = IF q = old.msg[p].rcs THEN id ELSE mem.rcsMsg[q]
    BY <2>2 DEF Put
  <2>4. CASE k = p
    BY <2>3, <2>4
  <2>5. CASE k # p
    <3>1. Passed(k)
      BY <2>1, <2>5, OldIs DEF Passed, After
    <3> HIDE DEF r
    <3> QED BY <1>2, <2>3, <3>1
  <2> QED BY <2>4, <2>5
<1>4. CASE ~MmsEffect
  <2>1. Passed(k) /\ mem'.rcsMsg = mem.rcsMsg
    BY <1>4, PassedStays DEF StepEffect, CalmEffect, Marked
  <2> QED BY <1>2, <2>1
<1> QED BY <1>3, <1>4

(* A link stays, or is made.                                               *)
SameLinks ==
  \A i \in DOMAIN sms :
    sms[i].state # "draft" =>
      i \in DOMAIN sms' /\ KeyOf(sms'[i]) = KeyOf(sms[i]) /\ sms'[i].rcs = sms[i].rcs

LEMMA LinksSame ==
  ASSUME Shape, StepEffect, ~UpdateEffect
  PROVE  SameLinks /\ (pending \subseteq pending' \/ CrashEffect)
<1>1. sms' = sms => SameLinks
  BY DEF SameLinks
<1>2. \A item : Inserted(item) => SameLinks
  BY DEF SameLinks, Inserted
<1>3. CASE RcsEffect
  BY <1>1, <1>3 DEF RcsEffect, RcsIsNow
<1>4. CASE DraftEffect
  BY <1>4 DEF DraftEffect, SameLinks
<1>5. CASE MmsEffect \/ IntegrateEffect \/ ReceiveEffect
  BY <1>1, <1>2, <1>5 DEF MmsEffect, IntegrateEffect, ReceiveEffect, Same
<1>6. CASE \/ StartEffect \/ PageEffect \/ CrashEffect \/ MergeEffect \/ InsertSessionEffect
           \/ ReadEffect \/ ReadRcsEffect \/ TidyEffect
  BY <1>1, <1>6 DEF StartEffect, PageEffect, CrashEffect, MergeEffect, InsertSessionEffect,
     ReadEffect, ReadRcsEffect, TidyEffect, Same
<1> QED BY <1>3, <1>4, <1>5, <1>6 DEF StepEffect

LEMMA LinkStays ==
  ASSUME Shape, DoneInv, LinkInv, StepEffect, ~CrashEffect, runs' \notin flaws'.failed,
         NEW k \in DOMAIN old.msg, old.msg[k].rich, old.msg[k].state # "draft", LinkOf(k)
  PROVE  LinkOf(k)' \/ pc' = "session"
<1>0. old' = old
  BY StepRows
<1>1. PICK i \in DOMAIN sms : /\ KeyOf(sms[i]) = KeyOf(old.msg[k])
                              /\ Fits(sms[i].rcs, k) \/ \E u \in pending : u.msg = i
  BY DEF LinkOf
<1>2. sms[i].state # "draft"
  BY <1>1 DEF DoneInv, RowsDraftless, Draftless
<1>3. \A id : Fits(id, k) => Fits(id, k)'
  BY FitStays
<1>4. CASE ~UpdateEffect
  <2>1. /\ i \in DOMAIN sms' /\ KeyOf(sms'[i]) = KeyOf(sms[i]) /\ sms'[i].rcs = sms[i].rcs
        /\ pending \subseteq pending'
    BY <1>2, <1>4, LinksSame DEF SameLinks
  <2>2. Fits(sms[i].rcs, k) => \A id : id = sms[i].rcs => Fits(id, k)'
    BY <1>3
  <2>3. LinkOf(k)' <=>
          \E j \in DOMAIN sms' : /\ KeyOf(sms'[j]) = KeyOf(old.msg[k])
                                 /\ (\E id : id = sms'[j].rcs /\ Fits(id, k)') \/ \E u \in pending' : u.msg = j
    BY <1>0 DEF LinkOf, Fits
  <2> QED BY <1>1, <2>1, <2>2, <2>3
<1>5. CASE UpdateEffect
  <2>0. LinkOf(k)' <=>
          \E j \in DOMAIN sms' : /\ KeyOf(sms'[j]) = KeyOf(old.msg[k])
                                 /\ (\E id : id = sms'[j].rcs /\ Fits(id, k)') \/ \E u \in pending' : u.msg = j
    BY <1>0 DEF LinkOf, Fits
  <2>1. PICK u \in pending :
          /\ pending' = pending \ {u}
          /\ \/ Relinked(u)
             \/ Same /\ Marked(runs) /\ runs' = runs
             \/ u.msg \notin DOMAIN sms /\ Same
    BY <1>5 DEF UpdateEffect
  <2>2. CASE Relinked(u)
    <3>1. CASE i = u.msg
      <4>1. PICK l \in DOMAIN old.msg : old.msg[l].rich /\ IsRow(u.msg, l) /\ Fits(u.rcs, l)
        BY DEF LinkInv, PendingFits
      <4>2. KeyOf(old.msg[l]) = KeyOf(old.msg[k])
        BY <1>1, <3>1, <4>1 DEF IsRow
      <4>3. l = k
        BY <4>2, OldKeys
      <4>4. Fits(u.rcs, k)'
        BY <1>3, <4>1, <4>3
      <4>5. i \in DOMAIN sms' /\ KeyOf(sms'[i]) = KeyOf(sms[i]) /\ sms'[i].rcs = u.rcs
        BY <2>2, <3>1 DEF Relinked, SameButRcs
      <4> QED BY <1>1, <2>0, <4>4, <4>5
    <3>2. CASE i # u.msg
      <4>1. i \in DOMAIN sms' /\ sms'[i] = sms[i]
        BY <2>2, <3>2 DEF Relinked
      <4> QED BY <1>1, <1>3, <2>0, <2>1, <3>2, <4>1
    <3> QED BY <3>1, <3>2
  <2>3. CASE Same /\ Marked(runs) /\ runs' = runs
    BY <2>3 DEF Marked
  <2>4. CASE u.msg \notin DOMAIN sms /\ Same
    <3>1. i \in DOMAIN sms' /\ sms'[i] = sms[i] /\ i # u.msg
      BY <2>4 DEF Same
    <3> QED BY <1>1, <1>3, <2>0, <2>1, <3>1
  <2> QED BY <2>1, <2>2, <2>3, <2>4
<1> QED BY <1>4, <1>5

(* An RCS row is passed when it is linked.                                 *)
LEMMA RcsPassedStep ==
  ASSUME Shape, KeyInv, LinkInv, StepEffect, runs' \notin flaws'.failed,
         NEW k \in DOMAIN old.msg, old.msg[k].rich, old.msg[k].state # "draft",
         RcsPassed(old.msg[k].rcs)'
  PROVE  \/ RcsPassed(old.msg[k].rcs)
         \/ pos = old.msg[k].rcs /\ pc = "rcs" /\ RcsEffect /\ pos' = pos + 1 /\ pc' = "rcs"
<1> SUFFICES ASSUME NEW r, r = old.msg[k].rcs
             PROVE  \/ RcsPassed(r)
                    \/ pos = r /\ pc = "rcs" /\ RcsEffect /\ pos' = pos + 1 /\ pc' = "rcs"
  OBVIOUS
<1>0. r \in DOMAIN old.rcs /\ r \in Nat \ {0} /\ pos \in Nat
  BY RichKeys, OldIs DEF Shape
<1>1. RcsPassed(r)' <=> \/ pc' \in {"rcs", "integrate"} /\ r < pos'
                        \/ pc' \in After \ {"rcs", "integrate"}
  <2>1. old' = old
    BY StepRows
  <2> QED BY <2>1 DEF RcsPassed
<1>2. \/ pc' \in {"rcs", "integrate"} /\ r < pos'
      \/ pc' \in After \ {"rcs", "integrate"}
  <2>1. old' = old
    BY StepRows
  <2> QED BY <2>1 DEF RcsPassed
<1>3. runs' = runs /\ runs \notin flaws.failed
  BY <1>2, CleanStep DEF After
<1>4. CASE RcsEffect
  <2>1. CASE pos' = pos /\ pc = "rcs"
    BY <1>2, <1>4, <2>1 DEF RcsPassed, RcsEffect, RcsIsNow, After
  <2>2. CASE pos' = pos + 1 /\ pc' = pc /\ pc = "rcs"
    BY <1>0, <1>2, <1>4, <2>2 DEF RcsPassed, After
  <2> QED BY <1>4, <2>1, <2>2 DEF RcsEffect, RcsIsNow
<1>5. CASE IntegrateEffect
  <2>1. pc = "integrate" /\ pc' = "rcs" /\ pos' = pos + 1
    BY <1>5 DEF IntegrateEffect
  <2>2. r # pos
    <3>1. r \in DOMAIN mem.rcsMsg
      BY <1>3, <2>1 DEF LinkInv, Mapped, Passed, After
    <3> QED BY <2>1, <3>1 DEF KeyInv, Unmapped
  <2> QED BY <1>0, <1>2, <2>1, <2>2 DEF RcsPassed, After
<1>6. CASE TidyEffect
  <2>1. pc = "rcs" => r < pos
    BY <1>0, <1>6, RowIs DEF TidyEffect
  <2> QED BY <1>6, <2>1 DEF TidyEffect, RcsPassed, After
<1>7. CASE UpdateEffect \/ ReceiveEffect \/ DraftEffect
  BY <1>2, <1>7 DEF UpdateEffect, ReceiveEffect, DraftEffect, RcsPassed
<1>8. CASE ReadRcsEffect
  BY <1>0, <1>2, <1>8 DEF ReadRcsEffect, After
<1>9. CASE PageEffect
  BY <1>3, <1>9 DEF PageEffect, Marked
<1>10. CASE StartEffect
  BY <1>3, <1>10 DEF StartEffect, Shape
<1> QED BY <1>2, <1>4, <1>5, <1>6, <1>7, <1>8, <1>9, <1>10
        DEF StepEffect, CrashEffect, MergeEffect, InsertSessionEffect, ReadEffect, MmsEffect, After

LEMMA LinkedStep ==
  ASSUME Shape, Shape', KeyInv, DoneInv, LinkInv, StepEffect
  PROVE  AllLinked'
<1>0. old' = old
  BY StepRows
<1> SUFFICES ASSUME runs' \notin flaws'.failed, NEW k \in DOMAIN old.msg, old.msg[k].rich,
                    old.msg[k].state # "draft", RcsPassed(old.msg[k].rcs)'
             PROVE  LinkOf(k)'
  BY <1>0 DEF AllLinked, RcsPassed
<1>1. pc' # "session" /\ ~CrashEffect
  BY DEF RcsPassed, CrashEffect, After
<1>2. runs \notin flaws.failed
  BY <1>1, CleanStep
<1>3. CASE RcsPassed(old.msg[k].rcs)
  <2>1. LinkOf(k)
    BY <1>2, <1>3 DEF LinkInv, AllLinked
  <2> QED BY <1>1, <2>1, LinkStays
<1>4. CASE pos = old.msg[k].rcs /\ pc = "rcs" /\ RcsEffect /\ pos' = pos + 1 /\ pc' = "rcs"
  <2>1. /\ pos \in DOMAIN mem.rcsMsg
        /\ mem.rcsMsg[pos] \in DOMAIN sms
    BY <1>2, <1>4 DEF LinkInv, Mapped, Passed, After
  <2>2. KeyOf(sms[mem.rcsMsg[pos]]) = KeyOf(old.msg[k])
    BY <1>4, <2>1, MapTells DEF IsRow
  <2>3. sms' = sms
    BY <1>4 DEF RcsEffect
  <2>4. \E u \in pending' : u.msg = mem.rcsMsg[pos]
    <3>1. pos' # pos
      BY <1>4 DEF Shape
    <3>2. [msg |-> mem.rcsMsg[pos], rcs |-> mem'.newRcs] \in pending'
      BY <1>4, <3>1 DEF RcsEffect, RcsIsNow, Marked
    <3> QED BY <3>2
  <2> QED BY <1>0, <2>1, <2>2, <2>3, <2>4 DEF LinkOf
<1> QED BY <1>3, <1>4, RcsPassedStep

LEMMA LinksStep ==
  ASSUME Shape, KeyInv, DoneInv, LinkInv, [Next]_vars
  PROVE  LinkInv'
<1>1. CASE Next
  <2>1. Shape' /\ StepEffect /\ seq'.sms >= seq.sms
    BY <1>1, StepIs, CountersGrow
  <2> QED BY <2>1, SnapRcsStep, RcsMsgStep, PendingStep, MappedStep, LinkedStep DEF LinkInv
<1>2. CASE UNCHANGED vars
  BY <1>2 DEF vars, LinkInv, SnapRcsIs, RcsMsgIs, IsRow, PendingFits, Fits, Mapped, Passed,
              AllLinked, RcsPassed, LinkOf
<1> QED BY <1>1, <1>2

LEMMA LinksInit == ASSUME Init PROVE LinkInv
<1>1. pc = "idle" /\ pending = {} /\ DOMAIN mem.snapRcs = {} /\ DOMAIN mem.rcsMsg = {}
  BY NewMemIs DEF Init
<1> QED BY <1>1 DEF LinkInv, SnapRcsIs, RcsMsgIs, PendingFits, Mapped, Passed, After, AllLinked,
           RcsPassed

(* What the maps and the updates on their way say is true.                 *)
THEOREM LinkInvariant == Spec => [](Shape /\ KeyInv /\ DoneInv /\ LinkInv)
<1>1. Init => Shape /\ KeyInv /\ DoneInv /\ LinkInv
  BY InitIs, KeysInit, DoneInit, LinksInit
<1>2. /\ Shape /\ KeyInv /\ DoneInv /\ LinkInv /\ [Next]_vars
      => (Shape /\ KeyInv /\ DoneInv /\ LinkInv)'
  BY StepIs, ShapeStays, KeysStep, DoneStep, LinksStep
<1> QED BY <1>1, <1>2, PTL DEF Spec

(* After a restore without failures every RCS message of the backup but a  *)
(* draft is the content of its message, once its update has run.           *)
THEOREM RcsMessagesLinked == Spec => []RcsLinked
<1>1. Shape /\ LinkInv => RcsLinked
  <2> SUFFICES ASSUME Shape, LinkInv, Clean, pending = {}, NEW k \in DOMAIN old.msg, old.msg[k].rich,
                      old.msg[k].state # "draft"
               PROVE  \E i \in DOMAIN sms :
                        /\ KeyOf(sms[i]) = KeyOf(old.msg[k])
                        /\ sms[i].rcs \in DOMAIN rcs
                        /\ KeyOf(rcs[sms[i].rcs]) = KeyOf(old.rcs[old.msg[k].rcs])
    BY DEF RcsLinked
  <2>1. RcsPassed(old.msg[k].rcs) /\ runs \notin flaws.failed
    BY DEF Clean, RcsPassed, After
  <2>2. LinkOf(k)
    BY <2>1 DEF LinkInv, AllLinked
  <2> QED BY <2>2 DEF LinkOf, Fits
<1> QED BY <1>1, LinkInvariant, PTL

-----------------------------------------------------------------------------
(* The counters: of a session not written since, each is right, or about to *)
(* be written right.                                                        *)
CountInv ==
  runs \notin flaws.failed =>
    \A s \in DOMAIN session \ flaws.stale :
      /\ pc = "unread" =>
           UnreadCount(s) = IF s \in DOMAIN todo THEN todo[s] ELSE session[s].unread
      /\ pc \in {"count", "done"} => UnreadCount(s) = session[s].unread
      /\ pc = "count" =>
           GroupCount(s) = IF s \in DOMAIN todo THEN todo[s] ELSE session[s].count
      /\ pc = "done" => GroupCount(s) = session[s].count

LEMMA SameCounts ==
  ASSUME sms' = sms, rcs' = rcs, NEW s
  PROVE  UnreadCount(s)' = UnreadCount(s) /\ GroupCount(s)' = GroupCount(s)
BY DEF UnreadCount, GroupCount

LEMMA UnreadIsNat == ASSUME Shape, NEW s PROVE UnreadCount(s) \in Nat
<1> DEFINE S == {i \in DOMAIN sms : sms[i].sess = s /\ ~sms[i].read /\ ~sms[i].rich}
           R == {i \in DOMAIN rcs : rcs[i].sess = s /\ ~rcs[i].read}
<1>1. IsFiniteSet(DOMAIN sms) /\ IsFiniteSet(DOMAIN rcs)
  BY ValuesFinite DEF Shape, TablesTyped
<1>2. IsFiniteSet(S) /\ IsFiniteSet(R)
  BY <1>1, FS_Subset
<1>3. Cardinality(S) \in Nat /\ Cardinality(R) \in Nat
  <2> HIDE DEF S, R
  <2> QED BY <1>2, FS_CardinalityType
<1>4. UnreadCount(s) = Cardinality(S) + Cardinality(R)
  BY DEF UnreadCount
<1> HIDE DEF S, R
<1> QED BY <1>3, <1>4

LEMMA SessionSet ==
  ASSUME NEW r, IsSession(r), NEW v
  PROVE  /\ [r EXCEPT !.unread = v].unread = v /\ [r EXCEPT !.unread = v].count = r.count
         /\ [r EXCEPT !.count = v].count = v /\ [r EXCEPT !.count = v].unread = r.unread
<1>1. r = [tel |-> r.tel, time |-> r.time, draft |-> r.draft, pin |-> r.pin,
           sending |-> r.sending, unread |-> r.unread, count |-> r.count]
  BY DEF IsSession
<1> QED BY <1>1

(* A failure leaves nothing to show.                                       *)
LEMMA FailedCounts == ASSUME Shape, Fails, runs' = runs PROVE CountInv'
<1>1. runs' \in flaws'.failed
  BY FailsIs DEF Fails
<1> QED BY <1>1 DEF CountInv

(* One of the writes a step has planned.                                   *)
LEMMA DidCounts ==
  ASSUME Shape, CountInv, NEW step, step \in {"unread", "count"}, NEW s, Did(step, s),
         UpdateSession(s, IF step = "unread" THEN [session[s] EXCEPT !.unread = todo[s]]
                          ELSE [session[s] EXCEPT !.count = todo[s]]), Works
  PROVE  CountInv'
<1>1. /\ pc = step /\ pc' = step /\ s \in DOMAIN todo /\ runs' = runs /\ flaws' = flaws
      /\ sms' = sms /\ rcs' = rcs /\ DOMAIN session' = DOMAIN session
      /\ \A x \in DOMAIN session : x # s => session'[x] = session[x]
  BY DEF Did, UpdateSession, Works
<1>2. DOMAIN todo' = DOMAIN todo \ {s} /\ \A x \in DOMAIN todo' : todo'[x] = todo[x]
  BY DEF Did, Without, Restrict
<1>3. s \in DOMAIN session =>
        /\ step = "unread" => session'[s].unread = todo[s] /\ session'[s].count = session[s].count
        /\ step = "count" => session'[s].count = todo[s] /\ session'[s].unread = session[s].unread
  <2> SUFFICES ASSUME s \in DOMAIN session
               PROVE  /\ step = "unread" => session'[s].unread = todo[s] /\ session'[s].count = session[s].count
                      /\ step = "count" => session'[s].count = todo[s] /\ session'[s].unread = session[s].unread
    OBVIOUS
  <2>1. IsSession(session[s])
    BY DEF Shape, TablesTyped
  <2>2. session'[s] = IF step = "unread" THEN [session[s] EXCEPT !.unread = todo[s]]
                      ELSE [session[s] EXCEPT !.count = todo[s]]
    BY DEF UpdateSession
  <2> QED BY <2>1, <2>2, SessionSet
<1> SUFFICES ASSUME runs \notin flaws.failed, NEW x \in DOMAIN session \ flaws.stale
             PROVE  /\ step = "unread" =>
                         UnreadCount(x)' = IF x \in DOMAIN todo' THEN todo'[x] ELSE session'[x].unread
                    /\ step = "count" =>
                         /\ UnreadCount(x)' = session'[x].unread
                         /\ GroupCount(x)' = IF x \in DOMAIN todo' THEN todo'[x] ELSE session'[x].count
  BY <1>1 DEF CountInv
<1>4. UnreadCount(x)' = UnreadCount(x) /\ GroupCount(x)' = GroupCount(x)
  BY <1>1, SameCounts
<1>5. /\ step = "unread" =>
           UnreadCount(x) = IF x \in DOMAIN todo THEN todo[x] ELSE session[x].unread
      /\ step = "count" =>
           /\ UnreadCount(x) = session[x].unread
           /\ GroupCount(x) = IF x \in DOMAIN todo THEN todo[x] ELSE session[x].count
  BY <1>1 DEF CountInv
<1>6. CASE x = s
  BY <1>1, <1>2, <1>3, <1>4, <1>5, <1>6
<1>7. CASE x # s
  BY <1>1, <1>2, <1>4, <1>5, <1>7
<1> QED BY <1>6, <1>7

LEMMA UnreadCounts == ASSUME Shape, CountInv, RecountAndUpdateUnread PROVE CountInv'
<1> DEFINE T == {t \in DOMAIN session : UnreadCount(t) > 0}
           counts == [s \in T |-> UnreadCount(s)]
<1>1. CASE Then("sending", "unread", counts) /\ session' = ResetUnread /\ UNCHANGED <<sms, rcs, seq>>
  <2>1. /\ pc' = "unread" /\ todo' = counts /\ DOMAIN session' = DOMAIN session
        /\ \A x \in DOMAIN session : session'[x] = [session[x] EXCEPT !.unread = 0]
    BY <1>1 DEF Then, ResetUnread
  <2> SUFFICES ASSUME NEW x \in DOMAIN session
               PROVE  UnreadCount(x)' = IF x \in DOMAIN todo' THEN todo'[x] ELSE session'[x].unread
    BY <2>1 DEF CountInv
  <2>2. UnreadCount(x)' = UnreadCount(x) /\ UnreadCount(x) \in Nat
    BY <1>1, SameCounts, UnreadIsNat
  <2>3. session'[x].unread = 0
    <3>1. IsSession(session[x]) /\ session'[x] = [session[x] EXCEPT !.unread = 0]
      BY <2>1 DEF Shape, TablesTyped
    <3> QED BY <3>1, SessionSet
  <2> QED BY <2>1, <2>2, <2>3
<1>2. CASE Fails /\ runs' = runs
  BY <1>2, FailedCounts
<1>3. CASE \E s \in DOMAIN todo : /\ Did("unread", s)
                                  /\ UpdateSession(s, [session[s] EXCEPT !.unread = todo[s]]) /\ Works
  BY <1>3, DidCounts
<1> QED BY <1>1, <1>2, <1>3 DEF RecountAndUpdateUnread, Then, Did

LEMMA GroupCounts == ASSUME Shape, CountInv, UpdateSessionMsgCount PROVE CountInv'
<1> DEFINE T == {t \in DOMAIN session : session[t].count # GroupCount(t)}
           plan == [s \in T |-> GroupCount(s)]
<1>1. CASE Then("unread", "count", plan) /\ UNCHANGED tables /\ Works
  <2>1. /\ pc = "unread" /\ todo = Nothing /\ pc' = "count" /\ todo' = plan
        /\ runs' = runs /\ flaws' = flaws /\ session' = session /\ sms' = sms /\ rcs' = rcs
    BY <1>1 DEF Then, tables, Works
  <2> SUFFICES ASSUME runs \notin flaws.failed, NEW x \in DOMAIN session \ flaws.stale
               PROVE  /\ UnreadCount(x)' = session[x].unread
                      /\ GroupCount(x)' = IF x \in DOMAIN todo' THEN todo'[x] ELSE session[x].count
    BY <2>1 DEF CountInv
  <2>2. UnreadCount(x)' = UnreadCount(x) /\ GroupCount(x)' = GroupCount(x)
    BY <2>1, SameCounts
  <2>3. UnreadCount(x) = session[x].unread
    BY <2>1 DEF CountInv, Nothing
  <2> QED BY <2>1, <2>2, <2>3
<1>2. CASE \E s \in DOMAIN todo : /\ Did("count", s)
                                  /\ UpdateSession(s, [session[s] EXCEPT !.count = todo[s]]) /\ Works
  BY <1>2, DidCounts
<1>3. CASE Abandoned("count")
  BY <1>3, FailedCounts DEF Abandoned
<1> QED BY <1>1, <1>2, <1>3 DEF UpdateSessionMsgCount

LEMMA FinishCounts == ASSUME Shape, CountInv, Finish PROVE CountInv'
<1>1. /\ pc = "count" /\ todo = Nothing /\ pc' = "done"
      /\ runs' = runs /\ flaws' = flaws /\ session' = session /\ sms' = sms /\ rcs' = rcs
  BY DEF Finish, Then, tables, Works
<1> SUFFICES ASSUME runs \notin flaws.failed, NEW x \in DOMAIN session \ flaws.stale
             PROVE  UnreadCount(x)' = session[x].unread /\ GroupCount(x)' = session[x].count
  BY <1>1 DEF CountInv
<1>2. UnreadCount(x)' = UnreadCount(x) /\ GroupCount(x)' = GroupCount(x)
  BY <1>1, SameCounts
<1> QED BY <1>1, <1>2 DEF CountInv, Nothing

(* A late update only changes what its row has no count of.                *)
LEMMA UpdateCounts == ASSUME Shape, CountInv, UpdateEffect PROVE CountInv'
<1>1. PICK u \in pending :
        /\ UNCHANGED <<rcs, pc, todo, runs>>
        /\ \/ /\ Relinked(u) /\ DOMAIN session' = DOMAIN session
              /\ \A i \in DOMAIN session : i # sms[u.msg].sess => session'[i] = session[i]
              /\ flaws'.failed = flaws.failed
              /\ flaws'.stale = IF Late THEN flaws.stale \union {sms[u.msg].sess} ELSE flaws.stale
           \/ Same /\ Marked(runs)
           \/ Same /\ Quiet
  BY DEF UpdateEffect, SameTels
<1>2. CASE /\ Relinked(u) /\ DOMAIN session' = DOMAIN session
           /\ \A i \in DOMAIN session : i # sms[u.msg].sess => session'[i] = session[i]
           /\ flaws'.failed = flaws.failed
           /\ flaws'.stale = IF Late THEN flaws.stale \union {sms[u.msg].sess} ELSE flaws.stale
  <2>1. /\ DOMAIN sms' = DOMAIN sms
        /\ \A i \in DOMAIN sms : /\ sms'[i].sess = sms[i].sess /\ sms'[i].read = sms[i].read
                                 /\ sms'[i].rich = sms[i].rich /\ sms'[i].group = sms[i].group
                                 /\ sms'[i].state = sms[i].state
    BY <1>2 DEF Relinked, SameButRcs
  <2>2. ASSUME NEW s PROVE UnreadCount(s)' = UnreadCount(s) /\ GroupCount(s)' = GroupCount(s)
    <3>1. {i \in DOMAIN sms' : sms'[i].sess = s /\ ~sms'[i].read /\ ~sms'[i].rich}
            = {i \in DOMAIN sms : sms[i].sess = s /\ ~sms[i].read /\ ~sms[i].rich}
      BY <2>1
    <3>2. UnreadCount(s)' = UnreadCount(s)
      BY <1>1, <3>1 DEF UnreadCount
    <3>3. {j \in DOMAIN sms' : sms'[j].sess = s /\ sms'[j].state # "draft"}
            = {j \in DOMAIN sms : sms[j].sess = s /\ sms[j].state # "draft"}
      BY <2>1
    <3>4. {sms'[i].group : i \in {j \in DOMAIN sms' : sms'[j].sess = s /\ sms'[j].state # "draft"}}
            = {sms[i].group : i \in {j \in DOMAIN sms : sms[j].sess = s /\ sms[j].state # "draft"}}
      BY <2>1, <3>3
    <3> QED BY <3>2, <3>4 DEF GroupCount
  <2>3. CASE Late
    BY <1>1, <1>2, <2>2, <2>3 DEF CountInv
  <2>4. CASE ~Late
    BY <1>1, <2>4 DEF CountInv, Late
  <2> QED BY <2>3, <2>4
<1>3. CASE Same /\ Marked(runs)
  BY <1>1, <1>3 DEF Marked, CountInv
<1>4. CASE Same /\ Quiet
  BY <1>1, <1>4, SameCounts DEF Same, Quiet, SameFlags, CountInv
<1> QED BY <1>1, <1>2, <1>3, <1>4

(* A message received is counted in its session, which is then left out.   *)
LEMMA ReceiveCounts == ASSUME Shape, CountInv, ReceiveEffect PROVE CountInv'
<1> SUFFICES ASSUME NEW n, n = seq.sms + 1 PROVE CountInv'
  OBVIOUS
<1>1. PICK t \in Tels, row \in {sms'[n]} :
        /\ UNCHANGED <<rcs, pc, todo, runs>> /\ Inserted(row)
        /\ \A i \in DOMAIN session : i # row.sess => session'[i] = session[i]
        /\ DOMAIN session' \subseteq DOMAIN session \union {row.sess}
        /\ flaws'.failed = flaws.failed
        /\ flaws'.stale = IF Late THEN flaws.stale \union {row.sess} ELSE flaws.stale
  BY DEF ReceiveEffect, SameTels
<1>2. /\ n \notin DOMAIN sms /\ DOMAIN sms' = DOMAIN sms \union {n} /\ sms'[n] = row
      /\ \A i \in DOMAIN sms : sms'[i] = sms[i]
  BY <1>1 DEF Inserted
<1>3. ASSUME NEW s, s # row.sess
      PROVE  UnreadCount(s)' = UnreadCount(s) /\ GroupCount(s)' = GroupCount(s)
  <2>1. {i \in DOMAIN sms' : sms'[i].sess = s /\ ~sms'[i].read /\ ~sms'[i].rich}
          = {i \in DOMAIN sms : sms[i].sess = s /\ ~sms[i].read /\ ~sms[i].rich}
    BY <1>2, <1>3
  <2>2. UnreadCount(s)' = UnreadCount(s)
    BY <1>1, <2>1 DEF UnreadCount
  <2>3. {j \in DOMAIN sms' : sms'[j].sess = s /\ sms'[j].state # "draft"}
          = {j \in DOMAIN sms : sms[j].sess = s /\ sms[j].state # "draft"}
    BY <1>2, <1>3
  <2>4. {sms'[i].group : i \in {j \in DOMAIN sms' : sms'[j].sess = s /\ sms'[j].state # "draft"}}
          = {sms[i].group : i \in {j \in DOMAIN sms : sms[j].sess = s /\ sms[j].state # "draft"}}
    BY <1>2, <2>3
  <2> QED BY <2>2, <2>4 DEF GroupCount
<1>4. CASE Late
  <2> SUFFICES ASSUME runs' \notin flaws'.failed, NEW s \in DOMAIN session' \ flaws'.stale
               PROVE  /\ pc = "unread" =>
                           UnreadCount(s)' = IF s \in DOMAIN todo THEN todo[s] ELSE session'[s].unread
                      /\ pc \in {"count", "done"} => UnreadCount(s)' = session'[s].unread
                      /\ pc = "count" =>
                           GroupCount(s)' = IF s \in DOMAIN todo THEN todo[s] ELSE session'[s].count
                      /\ pc = "done" => GroupCount(s)' = session'[s].count
    BY <1>1 DEF CountInv
  <2>1. s \in DOMAIN session \ flaws.stale /\ s # row.sess /\ session'[s] = session[s]
    BY <1>1, <1>4
  <2>2. UnreadCount(s)' = UnreadCount(s) /\ GroupCount(s)' = GroupCount(s)
    BY <1>3, <2>1
  <2>3. /\ pc = "unread" =>
             UnreadCount(s) = IF s \in DOMAIN todo THEN todo[s] ELSE session[s].unread
        /\ pc \in {"count", "done"} => UnreadCount(s) = session[s].unread
        /\ pc = "count" =>
             GroupCount(s) = IF s \in DOMAIN todo THEN todo[s] ELSE session[s].count
        /\ pc = "done" => GroupCount(s) = session[s].count
    BY <1>1, <2>1 DEF CountInv
  <2> QED BY <2>1, <2>2, <2>3
<1>5. CASE ~Late
  BY <1>1, <1>5 DEF CountInv, Late
<1> QED BY <1>4, <1>5

LEMMA CountsStep ==
  ASSUME Shape, CountInv, [Next]_vars
  PROVE  CountInv'
<1>0. ASSUME pc' \notin {"unread", "count", "done"} PROVE CountInv'
  BY <1>0 DEF CountInv
<1>1. CASE CopyDbListFileForClone
  <2>1. StartEffect
    BY <1>1, StartIs
  <2>2. pc' = "done" => runs' \in flaws'.failed
    BY <2>1 DEF StartEffect, Marked
  <2>3. pc' \in {"session", "done"}
    BY <2>1 DEF StartEffect
  <2> QED BY <1>0, <2>2, <2>3 DEF CountInv
<1>2. CASE PageFails BY <1>0, <1>2, PageIs DEF PageEffect
<1>3. CASE Crash BY <1>0, <1>3, CrashIs DEF CrashEffect
<1>4. CASE MergeSession BY <1>0, <1>4, MergeIs DEF MergeEffect
<1>5. CASE InsertSessionItem BY <1>0, <1>5, InsertSessionIs DEF InsertSessionEffect
<1>6. CASE DoMmsTableCopy BY <1>0, <1>6, ReadIs DEF ReadEffect
<1>7. CASE QueryMmsTable BY <1>0, <1>7, MmsIs DEF MmsEffect
<1>8. CASE DoRcsTableCopy BY <1>0, <1>8, ReadRcsIs DEF ReadRcsEffect
<1>9. CASE QueryRcsTable
  <2>1. pc' \in {"rcs", "integrate"}
    BY <1>9, RcsIs DEF RcsEffect, RcsIsNow
  <2> QED BY <1>0, <2>1
<1>10. CASE GetSmsMmsInfoItemFromRcsInfo BY <1>0, <1>10, IntegrateIs DEF IntegrateEffect
<1>11. CASE UpdateSms BY <1>11, UpdateIs, UpdateCounts
<1>12. CASE StartDrafts BY <1>0, <1>12 DEF StartDrafts, Then
<1>13. CASE DeleteInvalidDraft BY <1>0, <1>13 DEF DeleteInvalidDraft, Did
<1>14. CASE ProcessUpdateSession
  BY <1>0, <1>14 DEF ProcessUpdateSession, Then, Did, Abandoned
<1>15. CASE RecountAndUpdateUnread BY <1>15, UnreadCounts
<1>16. CASE UpdateSessionMsgCount BY <1>16, GroupCounts
<1>17. CASE Finish BY <1>17, FinishCounts
<1>18. CASE \E t \in Tels : Receive(t) BY <1>18, ReceiveIs, ReceiveCounts
<1>19. CASE UNCHANGED vars
  <2>1. /\ UNCHANGED <<session, pc, todo, runs, flaws>> /\ sms' = sms /\ rcs' = rcs
    BY <1>19 DEF vars
  <2>2. \A s : UnreadCount(s)' = UnreadCount(s) /\ GroupCount(s)' = GroupCount(s)
    BY <2>1, SameCounts
  <2> QED BY <2>1, <2>2 DEF CountInv
<1> QED BY <1>1, <1>2, <1>3, <1>4, <1>5, <1>6, <1>7, <1>8, <1>9, <1>10, <1>11, <1>12, <1>13,
           <1>14, <1>15, <1>16, <1>17, <1>18, <1>19 DEF Next

(* The counters, while they are put right and after.                       *)
THEOREM CountInvariant == Spec => [](Shape /\ CountInv)
<1>1. Init => Shape /\ CountInv
  BY InitIs DEF Init, CountInv
<1>2. Shape /\ CountInv /\ [Next]_vars => (Shape /\ CountInv)'
  BY StepIs, ShapeStays, CountsStep
<1> QED BY <1>1, <1>2, PTL DEF Spec

(* After a restore without failures the counters are right of every        *)
(* session not written since they were counted.                            *)
THEOREM CountersRight == Spec => []CountsRight
<1>1. CountInv => CountsRight
  BY DEF CountInv, Clean, CountsRight
<1> QED BY <1>1, CountInvariant, PTL

-----------------------------------------------------------------------------
(* The drafts.  One of the backup is where the telephone of its session is *)
(* now; the session that one old session alone became has the drafts that  *)
(* were passed and remembers the latest, until the others are gone.        *)
AtHome(row) ==
  \A k \in DOMAIN old.msg :
    KeyOf(row) = KeyOf(old.msg[k]) /\ old.msg[k].state = "draft" =>
      /\ row.state = "draft" /\ row.sess \in DOMAIN session
      /\ Similar(old.session[old.msg[k].sess].tel, session[row.sess].tel)
DraftsHome == flaws.failed = {} => \A i \in DOMAIN sms : AtHome(sms[i])

OwnDraft(k, j) == old.msg[k].sess = j /\ old.msg[k].state = "draft"

SoFar(time, j) ==
  /\ \/ time = -1
     \/ \E k \in DOMAIN old.msg : OwnDraft(k, j) /\ Passed(k) /\ time = old.msg[k].time
  /\ \A k \in DOMAIN old.msg : OwnDraft(k, j) /\ Passed(k) => old.msg[k].time <= time

Gathered(j, s) ==
  /\ s \in DOMAIN mem.drop /\ mem.drop[s] = [isOld |-> TRUE, time |-> mem.drop[s].time]
  /\ SoFar(mem.drop[s].time, j)
  /\ \A k \in DOMAIN old.msg : OwnDraft(k, j) /\ Passed(k) => old.msg[k].time \in DraftTimes(s)

Planned(j, s) ==
  /\ LatestDraft(j) \in DraftTimes(s)
  /\ IF s \in DOMAIN todo THEN todo[s] = LatestDraft(j) ELSE DraftTimes(s) = {LatestDraft(j)}

Kept(j, s) ==
  /\ session[s].draft = TRUE
  /\ pc \in Phases => Gathered(j, s)
  /\ pc = "drafts" => Planned(j, s)
  /\ pc \in {"sending", "unread", "count", "done"} => DraftTimes(s) = {LatestDraft(j)}

Merges(j, s) ==
  j \in DOMAIN mem.rawSession /\ s = mem.rawSession[j] /\ old.session[j].draft /\ MergedAlone(j)

AllKept == flaws.failed = {} => \A j, s : Merges(j, s) => Kept(j, s)

AllMerged ==
  flaws.failed = {} /\ pc \notin {"idle", "session"} => DOMAIN old.session \subseteq DOMAIN mem.rawSession

DraftInv == DraftsHome /\ AllKept /\ AllMerged

(* The latest draft of a session that has one.                             *)
LEMMA LatestDraftIs ==
  ASSUME Shape, NEW j \in DOMAIN old.session, old.session[j].draft
  PROVE  /\ LatestDraft(j) \in Nat
         /\ \E k \in DOMAIN old.msg : OwnDraft(k, j) /\ old.msg[k].time = LatestDraft(j)
         /\ \A k \in DOMAIN old.msg : OwnDraft(k, j) => old.msg[k].time <= LatestDraft(j)
<1> DEFINE times == {m.time : m \in OldDrafts(j)}
           f == [k \in DOMAIN old.msg |-> old.msg[k].time]
<1>1. WellFormedBackup(old) /\ old.msg \in Seq(MsgRow)
  BY OldIs DEF WellFormedBackup, WellFormed
<1>2. DOMAIN f = 1..Len(old.msg) /\ Len(old.msg) \in Nat
  BY <1>1
<1>3. IsFiniteSet(Range(f))
  <2> HIDE DEF f
  <2> QED BY <1>2, ValuesFinite
<1>4. \A t : t \in times <=> \E k \in DOMAIN old.msg : OwnDraft(k, j) /\ old.msg[k].time = t
  BY DEF OldDrafts, OwnDraft, Range
<1>5. \A k \in DOMAIN old.msg : old.msg[k].time \in Nat
  BY OldIs DEF MsgRow
<1>6. IsFiniteSet(times)
  <2>1. times \subseteq Range(f)
    BY <1>4 DEF Range
  <2> HIDE DEF times
  <2> QED BY <1>3, <2>1, FS_Subset
<1>7. times # {}
  <2>1. \E m \in Contents(old.msg) : m.sess = j /\ m.state = "draft"
    BY <1>1 DEF WellFormedBackup
  <2>2. \E k \in DOMAIN old.msg : OwnDraft(k, j)
    BY <2>1 DEF Contents, OwnDraft
  <2> QED BY <1>4, <2>2
<1>8. LatestDraft(j) = Max(times)
  BY DEF LatestDraft
<1> HIDE DEF times
<1>9. times \subseteq Int
  BY <1>4, <1>5
<1>10. Max(times) \in times /\ \A y \in times : y <= Max(times)
  BY <1>6, <1>7, <1>9, MaxIs
<1> QED BY <1>4, <1>5, <1>8, <1>10

(* With all drafts passed what is remembered is the latest.                *)
LEMMA SoFarAll ==
  ASSUME Shape, NEW j \in DOMAIN old.session, old.session[j].draft, NEW time, SoFar(time, j),
         \A k \in DOMAIN old.msg : Passed(k)
  PROVE  time = LatestDraft(j)
<1>1. /\ LatestDraft(j) \in Nat
      /\ \E k \in DOMAIN old.msg : OwnDraft(k, j) /\ old.msg[k].time = LatestDraft(j)
      /\ \A k \in DOMAIN old.msg : OwnDraft(k, j) => old.msg[k].time <= LatestDraft(j)
  BY LatestDraftIs
<1>2. LatestDraft(j) <= time
  BY <1>1 DEF SoFar
<1>3. time # -1
  BY <1>1, <1>2
<1>4. time <= LatestDraft(j) /\ time \in Nat
  BY <1>1, <1>3, OldIs DEF SoFar, MsgRow
<1> QED BY <1>1, <1>2, <1>4

LEMMA MaxOfTwo ==
  ASSUME NEW a \in Int, NEW b \in Int
  PROVE  Max({a, b}) \in {a, b} /\ a <= Max({a, b}) /\ b <= Max({a, b})
<1>1. \E x \in {a, b} : \A y \in {a, b} : x >= y
  OBVIOUS
<1> QED BY <1>1 DEF Max

(* What stays true of a session merged alone was true of it before.        *)
LEMMA MergesBefore ==
  ASSUME SessionInv, old' = old, TelsStay, NEW j, NEW s, Merges(j, s)',
         j \in DOMAIN mem.rawSession,
         \A k \in DOMAIN mem.rawSession :
           k \in DOMAIN mem'.rawSession /\ mem'.rawSession[k] = mem.rawSession[k]
  PROVE  Merges(j, s) /\ s \in DOMAIN session /\ j \in DOMAIN old.session
<1>1. s = mem.rawSession[j] /\ s = mem'.rawSession[j] /\ old.session[j].draft
  BY DEF Merges
<1>2. \A t \in DOMAIN session' : Similar(old.session[j].tel, session'[t].tel) => t = s
  BY <1>1 DEF Merges, MergedAlone
<1>3. \A t \in DOMAIN session : Similar(old.session[j].tel, session[t].tel) => t = s
  BY <1>2, SimilarIs DEF TelsStay
<1>4. \A k \in DOMAIN mem.rawSession : mem.rawSession[k] = s => k = j
  BY <1>1 DEF Merges, MergedAlone
<1>5. s \in DOMAIN session /\ j \in DOMAIN old.session
  BY <1>1 DEF SessionInv, RawHolds
<1> QED BY <1>1, <1>3, <1>4, <1>5 DEF Merges, MergedAlone

(* No session is of another telephone after a step, but for its country    *)
(* code.                                                                   *)
LEMMA MergeTels ==
  ASSUME SessionInv, NEW k \in Matches(old.session[pos].tel),
         Merged(mem.snapSession[k].id, old.session[pos])
  PROVE  TelsStay /\ mem.snapSession[k].id \in DOMAIN session
<1> DEFINE o == old.session[pos]
           s == mem.snapSession[k].id
<1>1. k \in DOMAIN mem.snapSession /\ Similar(k, o.tel)
  BY MatchesSimilar
<1>2. s \in DOMAIN session /\ Similar(k, session[s].tel)
  BY <1>1 DEF SessionInv, SnapHolds
<1>3. /\ DOMAIN session' = DOMAIN session
      /\ \A i \in DOMAIN session : i # s => session'[i] = session[i]
      /\ session'[s].tel = session[s].tel \/ session'[s].tel = o.tel
  BY <1>2 DEF Merged
<1> HIDE DEF s, o
<1>4. Similar(session[s].tel, o.tel) /\ Similar(session[s].tel, session[s].tel)
  BY <1>1, <1>2, SimilarIs
<1>5. Similar(session[s].tel, session'[s].tel)
  BY <1>3, <1>4
<1>6. \A i \in DOMAIN session : i # s => Similar(session[i].tel, session'[i].tel)
  BY <1>3, SimilarIs
<1> QED BY <1>2, <1>3, <1>5, <1>6 DEF TelsStay, s

LEMMA StepTels == ASSUME Shape, SessionInv, StepEffect PROVE TelsStay
<1>1. CASE session' = session \/ SameTels
  BY <1>1, TelsStayIf
<1>2. CASE MergeEffect
  BY <1>2, MergeTels DEF MergeEffect
<1>3. CASE InsertSessionEffect
  BY <1>1, <1>3, SimilarIs DEF InsertSessionEffect, NewSession, TelsStay, Same
<1>4. CASE ReceiveEffect
  <2>1. PICK r \in {sms'[seq.sms + 1]} :
          /\ \A i \in DOMAIN session : i # r.sess => session'[i] = session[i]
          /\ SameTels \/ (DOMAIN session' = DOMAIN session \union {r.sess} /\ r.sess \notin DOMAIN session)
    BY <1>4 DEF ReceiveEffect
  <2>2. SameTels \/ \A i \in DOMAIN session : i \in DOMAIN session' /\ session'[i] = session[i]
    BY <2>1
  <2> QED BY <1>1, <2>2, SimilarIs DEF TelsStay
<1> QED BY <1>1, <1>2, <1>3, <1>4
        DEF StepEffect, StartEffect, PageEffect, CrashEffect, ReadEffect, MmsEffect, ReadRcsEffect,
            RcsEffect, IntegrateEffect, UpdateEffect, TidyEffect, DraftEffect, Same

(* Rows stay at home, and new ones are if they are shown to be.            *)
LEMMA HomeStays ==
  ASSUME DraftsHome, flaws.failed = {}, old' = old, TelsStay,
         \A i \in DOMAIN sms' :
           \/ /\ i \in DOMAIN sms /\ KeyOf(sms'[i]) = KeyOf(sms[i])
              /\ sms'[i].state = sms[i].state /\ sms'[i].sess = sms[i].sess
           \/ AtHome(sms[i])'
  PROVE  DraftsHome'
<1> SUFFICES ASSUME NEW i \in DOMAIN sms, KeyOf(sms'[i]) = KeyOf(sms[i]),
                    sms'[i].state = sms[i].state, sms'[i].sess = sms[i].sess
             PROVE  AtHome(sms[i])'
  BY DEF DraftsHome
<1> SUFFICES ASSUME NEW k \in DOMAIN old.msg, KeyOf(sms[i]) = KeyOf(old.msg[k]),
                    old.msg[k].state = "draft"
             PROVE  /\ sms'[i].state = "draft" /\ sms'[i].sess \in DOMAIN session'
                    /\ Similar(old.session[old.msg[k].sess].tel, session'[sms'[i].sess].tel)
  BY DEF AtHome
<1>1. /\ sms[i].state = "draft" /\ sms[i].sess \in DOMAIN session
      /\ Similar(old.session[old.msg[k].sess].tel, session[sms[i].sess].tel)
  BY DEF DraftsHome, AtHome
<1> QED BY <1>1, SimilarIs DEF TelsStay

(* The drafts of a session, where rows of it stay, and no draft comes.     *)
LEMMA DraftTimesStay ==
  ASSUME NEW s, DOMAIN sms \subseteq DOMAIN sms',
         \A i \in DOMAIN sms :
           sms'[i].sess = sms[i].sess /\ sms'[i].state = sms[i].state /\ sms'[i].time = sms[i].time
  PROVE  /\ DraftTimes(s) \subseteq DraftTimes(s)'
         /\ (\A i \in DOMAIN sms' : i \in DOMAIN sms \/ sms'[i].state # "draft")
              => DraftTimes(s)' = DraftTimes(s)
BY DEF DraftTimes

LEMMA GatheredStays ==
  ASSUME NEW j, NEW s, Gathered(j, s), old' = old, mem'.drop = mem.drop,
         \A k \in DOMAIN old.msg : OwnDraft(k, j) => (Passed(k)' <=> Passed(k)),
         DraftTimes(s) \subseteq DraftTimes(s)'
  PROVE  Gathered(j, s)'
<1>1. SoFar(mem.drop[s].time, j)'
  <2> SUFFICES ASSUME NEW t, t = mem.drop[s].time PROVE SoFar(t, j)'
    OBVIOUS
  <2> QED BY DEF Gathered, SoFar, OwnDraft
<1>2. \A k \in DOMAIN old.msg : OwnDraft(k, j)' <=> OwnDraft(k, j)
  BY DEF OwnDraft
<1> QED BY <1>1, <1>2 DEF Gathered

(* What the proofs about drafts rest on.                                   *)
Sound == Shape /\ SessionInv /\ KeyInv /\ DoneInv /\ DraftInv

(* Nothing is wrong before the step if nothing is after it.                *)
LEMMA NoneFailed ==
  ASSUME Shape, StepEffect, flaws'.failed = {}
  PROVE  flaws.failed = {} /\ ~PageEffect
<1>1. flaws.failed \subseteq flaws'.failed
  BY FlawsStay
<1> QED BY <1>1 DEF PageEffect, Marked

(* A step that keeps the maps: what it has to show of the drafts.          *)
LEMMA KeptIfStays ==
  ASSUME Sound, flaws.failed = {}, old' = old, TelsStay, mem'.rawSession = mem.rawSession,
         \A i \in DOMAIN session : session'[i].draft = session[i].draft,
         NEW j, NEW s, Merges(j, s)',
         Kept(j, s) =>
           /\ pc' \in Phases => Gathered(j, s)'
           /\ pc' = "drafts" => Planned(j, s)'
           /\ pc' \in {"sending", "unread", "count", "done"} => DraftTimes(s)' = {LatestDraft(j)'}
  PROVE  Kept(j, s)'
<1>1. j \in DOMAIN mem.rawSession
  BY DEF Merges
<1>2. Merges(j, s) /\ s \in DOMAIN session
  BY <1>1, MergesBefore DEF Sound
<1>3. Kept(j, s)
  BY <1>2 DEF Sound, DraftInv, AllKept
<1> QED BY <1>2, <1>3 DEF Kept

LEMMA SameOldDrafts == ASSUME old' = old, NEW j PROVE LatestDraft(j)' = LatestDraft(j)
BY DEF LatestDraft, OldDrafts

(* What is passed stays so, of the steps that pass no message.             *)
LEMMA ReadRcsDrafts ==
  ASSUME Sound, Shape', ReadRcsEffect, TelsStay, flaws'.failed = {}, flaws.failed = {}
  PROVE  DraftsHome' /\ AllKept'
<1>1. /\ old' = old /\ sms' = sms /\ session' = session /\ pc' = "rcs" /\ AtEnd("mms")
      /\ mem'.rawSession = mem.rawSession /\ mem'.drop = mem.drop
  BY DEF ReadRcsEffect, Same, Keep, MemFields
<1>2. DraftsHome'
  BY <1>1, HomeStays DEF Sound, DraftInv
<1>3. pc = "mms" /\ \A k \in DOMAIN old.msg : Passed(k) /\ Passed(k)'
  BY <1>1, RowIs DEF Passed, After, Sound
<1>4. ASSUME NEW j, NEW s, Merges(j, s)' PROVE Kept(j, s)'
  <2>1. DraftTimes(s)' = DraftTimes(s)
    BY <1>1 DEF DraftTimes
  <2>2. Gathered(j, s) => Gathered(j, s)'
    BY <1>1, <1>3, <2>1, GatheredStays
  <2> QED BY <1>1, <1>3, <1>4, <2>2, KeptIfStays DEF Kept, Phases
<1> QED BY <1>2, <1>4 DEF AllKept

LEMMA RcsDrafts ==
  ASSUME Sound, Shape', RcsEffect, TelsStay, flaws'.failed = {}, flaws.failed = {}
  PROVE  DraftsHome' /\ AllKept'
<1>1. /\ old' = old /\ sms' = sms /\ (session' = session \/ SameTels)
      /\ pc = "rcs" /\ pc' \in {"rcs", "integrate"}
      /\ mem'.rawSession = mem.rawSession /\ mem'.drop = mem.drop
  BY DEF RcsEffect, RcsIsNow, Same, Keep, MemFields
<1>2. DraftsHome'
  BY <1>1, HomeStays DEF Sound, DraftInv
<1>3. \A k \in DOMAIN old.msg : Passed(k) /\ Passed(k)'
  BY <1>1 DEF Passed, After
<1>4. ASSUME NEW j, NEW s, Merges(j, s)' PROVE Kept(j, s)'
  <2>1. DraftTimes(s)' = DraftTimes(s)
    BY <1>1 DEF DraftTimes
  <2>2. Gathered(j, s) => Gathered(j, s)'
    BY <1>1, <1>3, <2>1, GatheredStays
  <2>3. \A i \in DOMAIN session : session'[i].draft = session[i].draft
    BY <1>1 DEF SameTels
  <2> QED BY <1>1, <1>4, <2>2, <2>3, KeptIfStays DEF Kept, Phases
<1> QED BY <1>2, <1>4 DEF AllKept

LEMMA IntegrateDrafts ==
  ASSUME Sound, Shape', IntegrateEffect, TelsStay, flaws'.failed = {}, flaws.failed = {}
  PROVE  DraftsHome' /\ AllKept'
<1>1. /\ old' = old /\ SameTels /\ pc = "integrate" /\ pc' = "rcs" /\ pos \in DOMAIN old.rcs
      /\ mem' = mem /\ Inserted(OwnItem(old.rcs[pos]))
  BY DEF IntegrateEffect, Marked
<1> SUFFICES ASSUME NEW item, item = OwnItem(old.rcs[pos]) PROVE DraftsHome' /\ AllKept'
  OBVIOUS
<1>2. item.state = "ok" /\ KeyOf(item) = KeyOf(old.rcs[pos])
  BY DEF OwnItem, KeyOf
<1>3. /\ DOMAIN sms \subseteq DOMAIN sms' /\ \A i \in DOMAIN sms : sms'[i] = sms[i]
      /\ \A i \in DOMAIN sms' : i \in DOMAIN sms \/ sms'[i] = item
  BY <1>1 DEF Inserted
<1>4. AtHome(item)'
  <2> SUFFICES ASSUME NEW k \in DOMAIN old.msg, KeyOf(item) = KeyOf(old.msg[k]) PROVE FALSE
    BY <1>1 DEF AtHome
  <2>1. old.msg[k].rcs = pos
    BY <1>1, <1>2, OldKeys DEF Sound
  <2>2. old.msg[k].rcs \in DOMAIN mem.rcsMsg
    BY <1>1 DEF Sound, KeyInv, AllMapped, Passed, After
  <2> QED BY <1>1, <2>1, <2>2 DEF Sound, KeyInv, Unmapped
<1>5. DraftsHome'
  BY <1>1, <1>3, <1>4, HomeStays DEF Sound, DraftInv
<1>6. \A k \in DOMAIN old.msg : Passed(k) /\ Passed(k)'
  BY <1>1 DEF Passed, After
<1>7. ASSUME NEW j, NEW s, Merges(j, s)' PROVE Kept(j, s)'
  <2>1. DraftTimes(s) \subseteq DraftTimes(s)'
    BY <1>3, DraftTimesStay
  <2>2. Gathered(j, s) => Gathered(j, s)'
    BY <1>1, <1>6, <2>1, GatheredStays
  <2>3. \A i \in DOMAIN session : session'[i].draft = session[i].draft
    BY <1>1 DEF SameTels
  <2> QED BY <1>1, <1>7, <2>2, <2>3, KeptIfStays DEF Kept, Phases
<1> QED BY <1>5, <1>7 DEF AllKept

(* The steps that may come at any moment.                                  *)
LEMMA MovedKept ==
  ASSUME Sound, flaws.failed = {}, old' = old, TelsStay, UNCHANGED <<mem, pc, pos, todo>>,
         \A i \in DOMAIN session : session'[i].draft = session[i].draft,
         \A s : DraftTimes(s)' = DraftTimes(s)
  PROVE  AllKept'
<1> SUFFICES ASSUME NEW j, NEW s, Merges(j, s)' PROVE Kept(j, s)'
  BY DEF AllKept
<1>1. DraftTimes(s)' = DraftTimes(s) /\ LatestDraft(j)' = LatestDraft(j)
  BY SameOldDrafts
<1>2. \A k \in DOMAIN old.msg : Passed(k)' <=> Passed(k)
  BY DEF Passed
<1>3. Gathered(j, s) => Gathered(j, s)'
  BY <1>1, <1>2, GatheredStays
<1>4. Planned(j, s) => Planned(j, s)'
  BY <1>1 DEF Planned
<1> QED BY <1>1, <1>3, <1>4, KeptIfStays DEF Kept

LEMMA UpdateDrafts ==
  ASSUME Sound, Shape', UpdateEffect, TelsStay, flaws'.failed = {}, flaws.failed = {}
  PROVE  DraftsHome' /\ AllKept'
<1>1. /\ old' = old /\ UNCHANGED <<pc, pos, todo, mem>>
      /\ DOMAIN sms' = DOMAIN sms
      /\ \A i \in DOMAIN sms : /\ KeyOf(sms'[i]) = KeyOf(sms[i]) /\ sms'[i].state = sms[i].state
                               /\ sms'[i].sess = sms[i].sess /\ sms'[i].time = sms[i].time
      /\ session' = session \/ SameTels
  BY DEF UpdateEffect, Relinked, SameButRcs, Same
<1>2. DraftsHome'
  BY <1>1, HomeStays DEF Sound, DraftInv
<1>3. \A i \in DOMAIN session : session'[i].draft = session[i].draft
  BY <1>1 DEF SameTels
<1>4. \A s : DraftTimes(s)' = DraftTimes(s)
  BY <1>1, DraftTimesStay
<1> QED BY <1>1, <1>2, <1>3, <1>4, MovedKept

LEMMA ReceiveDrafts ==
  ASSUME Sound, Shape', ReceiveEffect, TelsStay, flaws'.failed = {}, flaws.failed = {}
  PROVE  DraftsHome' /\ AllKept'
<1>1. PICK t \in Tels, row \in {sms'[seq.sms + 1]} :
        /\ UNCHANGED <<old, pc, pos, todo, mem>> /\ Inserted(row) /\ row.state = "ok"
        /\ row.time = Now + troubles
        /\ \A i \in DOMAIN session : i # row.sess => session'[i] = session[i]
        /\ SameTels \/ row.sess \notin DOMAIN session
  BY DEF ReceiveEffect
<1>2. /\ DOMAIN sms \subseteq DOMAIN sms' /\ \A i \in DOMAIN sms : sms'[i] = sms[i]
      /\ \A i \in DOMAIN sms' : i \in DOMAIN sms \/ sms'[i] = row
  BY <1>1 DEF Inserted
<1> SUFFICES ASSUME NEW item, item = row PROVE DraftsHome' /\ AllKept'
  OBVIOUS
<1>3. AtHome(item)'
  <2> SUFFICES ASSUME NEW k \in DOMAIN old.msg, KeyOf(item) = KeyOf(old.msg[k]) PROVE FALSE
    BY <1>1 DEF AtHome
  <2>1. old.msg[k].time = Now + troubles
    BY <1>1, KeysTell
  <2>2. old.msg[k].time \in Nat /\ old.msg[k].time < Now /\ Now \in Nat /\ troubles \in Nat
    BY OldKeys, NextCopyAssumption DEF Sound, Shape
  <2> QED BY <2>1, <2>2
<1>4. DraftsHome'
  BY <1>1, <1>2, <1>3, HomeStays DEF Sound, DraftInv
<1>5. \A i \in DOMAIN session : session'[i].draft = session[i].draft
  BY <1>1 DEF SameTels
<1>6. \A s : DraftTimes(s)' = DraftTimes(s)
  BY <1>1, <1>2, DraftTimesStay
<1> QED BY <1>1, <1>4, <1>5, <1>6, MovedKept

(* A restore starts with empty maps, and a crash leaves them so.           *)
LEMMA EmptyDrafts ==
  ASSUME Sound, StartEffect \/ CrashEffect, TelsStay, flaws'.failed = {}, flaws.failed = {}
  PROVE  DraftsHome' /\ AllKept'
<1>1. old' = old /\ sms' = sms /\ session' = session /\ DOMAIN mem'.rawSession = {}
  BY NewMemIs DEF StartEffect, CrashEffect, Same
<1>2. DraftsHome'
  BY <1>1, HomeStays DEF Sound, DraftInv
<1> QED BY <1>1, <1>2 DEF AllKept, Merges

(* While the sessions are copied none of their messages is passed.         *)
LEMMA NonePassed == ASSUME pc = "session", NEW j PROVE SoFar(-1, j) /\ \A k : ~Passed(k)
BY DEF SoFar, Passed, After

(* What is read of the new phone does not replace the old one's drafts.    *)
LEMMA ReadDrafts ==
  ASSUME Sound, Shape', DoMmsTableCopy, ReadEffect, TelsStay, flaws'.failed = {}, flaws.failed = {}
  PROVE  DraftsHome' /\ AllKept'
<1>1. /\ old' = old /\ sms' = sms /\ session' = session /\ pc = "session" /\ pc' = "mms" /\ pos' = 1
      /\ mem'.rawSession = mem.rawSession
  BY RowIs DEF ReadEffect, Same, Keep, MemFields, Sound
<1>2. ~Blind
  BY BlindIs DEF Sound, Blind
<1>3. mem'.drop = UpdateNewSessionDropDraft(mem.drop)
  <2>1. mem' = [mem EXCEPT !.drop = UpdateNewSessionDropDraft(mem.drop),
                    !.snapSms = QuerySmsInfo, !.maxGroup = QueryMaxGroupId]
    BY <1>2 DEF DoMmsTableCopy
  <2>2. DOMAIN mem = MemFields
    BY DEF Sound, Shape, MemTyped
  <2> QED BY <2>1, <2>2 DEF MemFields
<1>4. \A s \in DOMAIN mem.drop : mem.drop[s].isOld = TRUE => s \in DOMAIN mem'.drop /\ mem'.drop[s] = mem.drop[s]
  BY <1>3 DEF UpdateNewSessionDropDraft
<1>5. DraftsHome'
  BY <1>1, HomeStays DEF Sound, DraftInv
<1>6. \A k \in DOMAIN old.msg : ~Passed(k) /\ ~Passed(k)'
  <2>1. \A k \in DOMAIN old.msg : ~(k < 1)
    BY OldIs DEF Sound
  <2> QED BY <1>1, <2>1 DEF Passed, After
<1>7. ASSUME NEW j, NEW s, Merges(j, s)' PROVE Kept(j, s)'
  <2>1. Gathered(j, s) => Gathered(j, s)'
    <3> SUFFICES ASSUME Gathered(j, s), NEW t, t = mem.drop[s].time PROVE Gathered(j, s)'
      OBVIOUS
    <3>1. s \in DOMAIN mem'.drop /\ mem'.drop[s] = mem.drop[s] /\ mem.drop[s].isOld = TRUE
      BY <1>4 DEF Gathered
    <3>2. SoFar(t, j)'
      BY <1>1, <1>6 DEF Gathered, SoFar
    <3> QED BY <1>1, <1>6, <3>1, <3>2 DEF Gathered
  <2> QED BY <1>1, <1>7, <2>1, KeptIfStays DEF Kept, Phases
<1> QED BY <1>5, <1>7 DEF AllKept

(* A copied message tells its session's drafts of its time.                *)
LEMMA CopiedDrop ==
  ASSUME Shape, NEW m, NEW id, NEW threads,
         mem' = Copied([mem EXCEPT !.threads = threads], m, id)
  PROVE  mem'.drop = UpdateOldSessionDropDraft(mem.drop, GetSmsMmsInfoItem(m))
<1> DEFINE md == [mem EXCEPT !.threads = threads]
           key == IF m.rich THEN m.group ELSE m.time
           md2 == Grouped(md, m.rich, key, GroupOf(m))
           d == UpdateOldSessionDropDraft(md2.drop, GetSmsMmsInfoItem(m))
           p == Put(md2.rcsMsg, m.rcs, id)
<1>1. DOMAIN md = MemFields /\ md.drop = mem.drop
  BY DEF Shape, MemTyped, MemFields
<1>2. mem' = [md2 EXCEPT !.rcsMsg = p, !.drop = d]
  BY DEF Copied
<1>3. DOMAIN md2 = MemFields /\ md2.drop = md.drop
  <2> HIDE DEF md, key
  <2> QED BY <1>1 DEF Grouped, MemFields
<1>4. mem'.drop = d
  <2> HIDE DEF md2, p, d
  <2> QED BY <1>2, <1>3 DEF MemFields
<1> QED BY <1>1, <1>3, <1>4

(* The latest of what was remembered and one more draft.                   *)
LEMMA SoFarOneMore ==
  ASSUME Shape, NEW j, NEW time, SoFar(time, j), old' = old,
         pc = "mms", pc' = "mms", pos' = pos + 1, pos \in DOMAIN old.msg, OwnDraft(pos, j),
         NEW t, t = old.msg[pos].time, NEW max, max = Max({time, t})
  PROVE  SoFar(max, j)'
<1>1. \A k \in DOMAIN old.msg : old.msg[k].time \in Nat /\ k \in Nat
  BY OldIs DEF MsgRow
<1>2. time \in Int /\ t \in Int
  BY <1>1 DEF SoFar
<1>3. max \in {time, t} /\ time <= max /\ t <= max
  BY <1>2, MaxOfTwo
<1>4. \A k \in DOMAIN old.msg : Passed(k)' <=> Passed(k) \/ k = pos
  BY <1>1 DEF Passed, After, Shape
<1>5. max = -1 \/ \E k \in DOMAIN old.msg : OwnDraft(k, j) /\ Passed(k)' /\ max = old.msg[k].time
  BY <1>3, <1>4 DEF SoFar
<1>6. ASSUME NEW k \in DOMAIN old.msg, OwnDraft(k, j), Passed(k)' PROVE old.msg[k].time <= max
  <2>1. k = pos \/ old.msg[k].time <= time
    BY <1>4, <1>6 DEF SoFar
  <2>2. old.msg[k].time \in Int /\ max \in Int
    BY <1>1, <1>2, <1>3
  <2> QED BY <1>2, <1>3, <2>1, <2>2
<1>7. \A k : OwnDraft(k, j)' <=> OwnDraft(k, j)
  BY DEF OwnDraft
<1> QED BY <1>5, <1>6, <1>7 DEF SoFar

(* Only the draft of the message's own session is gathered with it.        *)
LEMMA OtherDrops ==
  ASSUME NEW drop, NEW item, NEW s \in DOMAIN drop, item.sess # s
  PROVE  /\ UpdateOldSessionDropDraft(drop, item)[s] = drop[s]
         /\ DOMAIN UpdateOldSessionDropDraft(drop, item) = DOMAIN drop
<1> SUFFICES ASSUME NEW x, x = item.sess, NEW time, time = Max({drop[x].time, item.time})
             PROVE  /\ UpdateOldSessionDropDraft(drop, item)[s] = drop[s]
                    /\ DOMAIN UpdateOldSessionDropDraft(drop, item) = DOMAIN drop
  OBVIOUS
<1> DEFINE changed == [drop EXCEPT ![x].time = time]
<1>1. UpdateOldSessionDropDraft(drop, item) \in {drop, changed}
  BY DEF UpdateOldSessionDropDraft
<1>2. changed[s] = drop[s] /\ DOMAIN changed = DOMAIN drop
  OBVIOUS
<1> HIDE DEF changed
<1> QED BY <1>1, <1>2

LEMMA MmsDrafts ==
  ASSUME Sound, Shape', QueryMmsTable, MmsEffect, TelsStay, flaws'.failed = {}, flaws.failed = {}
  PROVE  DraftsHome' /\ AllKept'
<1> SUFFICES ASSUME NEW m, m = old.msg[pos], NEW item, item = GetSmsMmsInfoItem(m),
                    NEW p, p = pos
             PROVE  DraftsHome' /\ AllKept'
  OBVIOUS
<1>1. /\ pc = "mms" /\ pc' = "mms" /\ p \in DOMAIN old.msg /\ pos' = p + 1 /\ old' = old
      /\ m \in MsgRow /\ p \in Nat
  BY OldIs DEF MmsEffect, Sound, Shape
<1>2. PICK id :
        /\ CopiedTo(m, id)
        /\ \/ KeyOf(m) \in DOMAIN mem.snapSms /\ id = mem.snapSms[KeyOf(m)] /\ Same
           \/ Inserted(item) /\ SameTels
  BY DEF MmsEffect, Marked
<1>3. mem'.drop = UpdateOldSessionDropDraft(mem.drop, item)
  <2>1. Row = m
    BY RowIs DEF QueryMmsTable, Sound
  <2>2. ~Fails
    BY FailsIs DEF Fails, Sound
  <2>3. \E threads, x : mem' = Copied([mem EXCEPT !.threads = threads], m, x)
    BY <2>1, <2>2 DEF QueryMmsTable
  <2> QED BY <2>3, CopiedDrop DEF Sound
<1>4. mem'.rawSession = mem.rawSession
  BY <1>2 DEF CopiedTo, Keep, CopyFields, MemFields
<1>5. /\ KeyOf(item) = KeyOf(m) /\ item.sess = ThreadOf(m.sess, NoSession)
      /\ item.state = "draft" <=> m.state = "draft"
      /\ item.time = m.time
  <2>1. GroupOf(m) \in Int
    BY <1>2, CopiedTyped DEF Sound
  <2> QED BY <1>1, <2>1, ItemIs, KeysTell DEF Sound
<1>6. m.sess \in DOMAIN old.session /\ m.sess \in DOMAIN mem.rawSession
      /\ item.sess = mem.rawSession[m.sess]
  <2>1. m.sess \in DOMAIN old.session
    BY <1>1, OldIs DEF Sound, WellFormedBackup, Contents
  <2>2. m.sess \in DOMAIN mem.rawSession
    BY <1>1, <2>1 DEF Sound, SessionInv, RawComplete
  <2> QED BY <1>5, <2>1, <2>2 DEF ThreadOf, At
<1>7. item.sess \in DOMAIN session /\ Similar(old.session[m.sess].tel, session[item.sess].tel)
  BY <1>6 DEF Sound, SessionInv, RawHolds
<1>8. AtHome(item)'
  <2> SUFFICES ASSUME NEW k \in DOMAIN old.msg, KeyOf(item) = KeyOf(old.msg[k]), old.msg[k].state = "draft"
               PROVE  /\ item.state = "draft" /\ item.sess \in DOMAIN session'
                      /\ Similar(old.session[old.msg[k].sess].tel, session'[item.sess].tel)
    BY <1>1 DEF AtHome
  <2>1. k = p
    BY <1>1, <1>5, OldKeys DEF Sound
  <2> QED BY <1>5, <1>7, <2>1, SimilarIs DEF TelsStay
<1>9. \A i \in DOMAIN sms' : (i \in DOMAIN sms /\ sms'[i] = sms[i]) \/ sms'[i] = item
  BY <1>2 DEF Same, Inserted
<1>10. DraftsHome'
  BY <1>1, <1>8, <1>9, HomeStays DEF Sound, DraftInv
<1>11. \A k \in DOMAIN old.msg : Passed(k)' <=> Passed(k) \/ k = p
  <2>1. \A k \in DOMAIN old.msg : k \in Nat
    BY OldIs DEF Sound
  <2> QED BY <1>1, <2>1 DEF Passed, After
<1>12. DOMAIN sms \subseteq DOMAIN sms' /\ \A i \in DOMAIN sms : sms'[i] = sms[i]
  BY <1>2 DEF Same, Inserted
<1>13. \A i \in DOMAIN session : session'[i].draft = session[i].draft
  BY <1>2 DEF Same, SameTels
<1>14. ASSUME NEW j, NEW s, Merges(j, s)' PROVE Kept(j, s)'
  <2>0. Merges(j, s) /\ j \in DOMAIN old.session
    <3>1. j \in DOMAIN mem.rawSession
      BY <1>4, <1>14 DEF Merges
    <3> QED BY <1>1, <1>4, <1>14, <3>1, MergesBefore DEF Sound
  <2>1. DraftTimes(s) \subseteq DraftTimes(s)'
    BY <1>12, DraftTimesStay
  <2>2. ASSUME Gathered(j, s), ~OwnDraft(p, j) PROVE Gathered(j, s)'
    <3>1. mem'.drop[s] = mem.drop[s] /\ DOMAIN mem'.drop = DOMAIN mem.drop
      <4>1. CASE item.state # "draft"
        BY <1>3, <4>1 DEF UpdateOldSessionDropDraft
      <4>2. CASE item.state = "draft"
        <5>1. m.sess # j
          BY <1>1, <1>5, <2>2, <4>2 DEF OwnDraft
        <5>2. item.sess # s
          BY <1>6, <2>0, <5>1 DEF Merges, MergedAlone
        <5>3. s \in DOMAIN mem.drop
          BY <2>2 DEF Gathered
        <5> QED BY <1>3, <5>2, <5>3, OtherDrops
      <4> QED BY <4>1, <4>2
    <3>2. \A k \in DOMAIN old.msg : OwnDraft(k, j) => (Passed(k)' <=> Passed(k))
      BY <1>11, <2>2
    <3>3. \A k : OwnDraft(k, j)' <=> OwnDraft(k, j)
      BY <1>1 DEF OwnDraft
    <3>4. SoFar(mem.drop[s].time, j)'
      <4> SUFFICES ASSUME NEW t, t = mem.drop[s].time PROVE SoFar(t, j)'
        BY <3>1
      <4> QED BY <1>1, <2>2, <3>2, <3>3 DEF Gathered, SoFar
    <3> QED BY <1>1, <2>1, <2>2, <3>1, <3>2, <3>3, <3>4 DEF Gathered
  <2>3. ASSUME Gathered(j, s), OwnDraft(p, j) PROVE Gathered(j, s)'
    <3>1. m.sess = j /\ m.state = "draft" /\ item.state = "draft" /\ item.sess = s
      BY <1>5, <1>6, <2>0, <2>3 DEF OwnDraft, Merges
    <3> SUFFICES ASSUME NEW t, t = mem.drop[s].time, NEW max, max = Max({t, m.time})
                 PROVE  Gathered(j, s)'
      OBVIOUS
    <3>2. mem'.drop = [mem.drop EXCEPT ![s].time = max]
      BY <1>3, <1>5, <2>3, <3>1 DEF UpdateOldSessionDropDraft, Gathered
    <3>3. s \in DOMAIN mem.drop /\ mem.drop[s] = [isOld |-> TRUE, time |-> t]
      BY <2>3 DEF Gathered
    <3>4. s \in DOMAIN mem'.drop /\ mem'.drop[s] = [isOld |-> TRUE, time |-> max]
      <4>0. ASSUME NEW r, NEW b, r = [isOld |-> b, time |-> t]
            PROVE  [r EXCEPT !.time = max] = [isOld |-> b, time |-> max]
        BY <4>0
      <4>1. ASSUME NEW r, r = [isOld |-> TRUE, time |-> t]
            PROVE  [r EXCEPT !.time = max] = [isOld |-> TRUE, time |-> max]
        BY <4>0, <4>1
      <4>2. mem'.drop = [mem.drop EXCEPT ![s] = [mem.drop[s] EXCEPT !.time = max]]
        BY <3>2
      <4>3. [mem.drop[s] EXCEPT !.time = max] = [isOld |-> TRUE, time |-> max]
        BY <3>3, <4>1
      <4> QED BY <3>3, <4>2, <4>3
    <3>5. SoFar(max, j)'
      <4>1. SoFar(t, j)
        BY <2>3 DEF Gathered
      <4> QED BY <1>1, <2>3, <4>1, SoFarOneMore DEF Sound
    <3>6. m.time \in DraftTimes(s)'
      <4>1. CASE KeyOf(m) \in DOMAIN mem.snapSms /\ id = mem.snapSms[KeyOf(m)]
        <5>1. id \in DOMAIN sms /\ KeyOf(sms[id]) = KeyOf(m)
          BY <1>1, <4>1 DEF Sound, DoneInv, SnapIs
        <5>2. /\ sms[id].state = "draft" /\ sms[id].sess \in DOMAIN session
              /\ Similar(old.session[j].tel, session[sms[id].sess].tel)
          BY <1>1, <3>1, <5>1 DEF Sound, DraftInv, DraftsHome, AtHome
        <5>3. sms[id].sess = s /\ sms[id].time = m.time
          BY <2>0, <5>1, <5>2, KeysTell DEF Merges, MergedAlone
        <5>4. m.time \in DraftTimes(s)
          BY <5>1, <5>2, <5>3 DEF DraftTimes
        <5> QED BY <2>1, <5>4
      <4>2. CASE Inserted(item)
        BY <1>5, <3>1, <4>2 DEF Inserted, DraftTimes
      <4> QED BY <1>2, <4>1, <4>2
    <3>7. \A k : OwnDraft(k, j)' <=> OwnDraft(k, j)
      BY <1>1 DEF OwnDraft
    <3> QED BY <1>1, <1>11, <2>1, <2>3, <3>4, <3>5, <3>6, <3>7 DEF Gathered
  <2> QED BY <1>1, <1>4, <1>13, <1>14, <2>2, <2>3, KeptIfStays DEF Kept, Phases
<1> QED BY <1>10, <1>14 DEF AllKept

(* What becomes of the drafts when the old session o, the next, is s.      *)
Adopted(o, s) ==
  /\ mem'.rawSession = Put(mem.rawSession, pos, s)
  /\ \A t \in DOMAIN mem.drop : t # s => t \in DOMAIN mem'.drop /\ mem'.drop[t] = mem.drop[t]
  /\ \A t \in DOMAIN session : t # s => session'[t] = session[t]
  /\ o.draft = TRUE =>
       /\ session'[s].draft = TRUE
       /\ s \in DOMAIN mem'.drop /\ mem'.drop[s] = [isOld |-> TRUE, time |-> -1]

LEMMA DroppingIs ==
  ASSUME NEW drop, NEW s, NEW isOld
  PROVE  /\ s \in DOMAIN Dropping(drop, s, isOld)
         /\ Dropping(drop, s, isOld)[s] = [isOld |-> isOld, time |-> -1]
         /\ \A t \in DOMAIN drop : t # s => /\ t \in DOMAIN Dropping(drop, s, isOld)
                                            /\ Dropping(drop, s, isOld)[t] = drop[t]
<1> DEFINE v == [isOld |-> isOld, time |-> -1]
<1>1. Dropping(drop, s, isOld) = Put(drop, s, v)
  BY DEF Dropping
<1> HIDE DEF v
<1>2. /\ s \in DOMAIN Put(drop, s, v) /\ Put(drop, s, v)[s] = v
      /\ \A t \in DOMAIN drop : t # s => t \in DOMAIN Put(drop, s, v) /\ Put(drop, s, v)[t] = drop[t]
  BY DEF Put
<1> QED BY <1>1, <1>2 DEF v

LEMMA AdoptedDrafts ==
  ASSUME Sound, TelsStay, flaws.failed = {}, old' = old, sms' = sms,
         pc = "session", pc' = "session", pos \in DOMAIN old.session,
         NEW s, Adopted(old.session[pos], s)
  PROVE  DraftsHome' /\ AllKept'
<1> SUFFICES ASSUME NEW p, p = pos PROVE DraftsHome' /\ AllKept'
  OBVIOUS
<1>1. DraftsHome'
  BY HomeStays DEF Sound, DraftInv
<1>2. /\ DOMAIN mem'.rawSession = DOMAIN mem.rawSession \union {p} /\ mem'.rawSession[p] = s
      /\ \A k \in DOMAIN mem.rawSession : k # p => mem'.rawSession[k] = mem.rawSession[k]
  <2>1. mem'.rawSession = Put(mem.rawSession, p, s)
    BY DEF Adopted
  <2> QED BY <2>1 DEF Put
<1>3. p \notin DOMAIN mem.rawSession
  <2>1. p \in Nat
    BY DEF Sound, Shape
  <2> QED BY <2>1 DEF Sound, SessionInv, RawHolds
<1>4. \A k : ~Passed(k)'
  BY DEF Passed, After
<1>5. ASSUME NEW j, NEW t, Merges(j, t)' PROVE Kept(j, t)'
  <2>1. CASE j = p
    <3>1. t = s /\ old.session[p].draft = TRUE
      <4>1. old.session[p].draft \in BOOLEAN
        BY OldIs DEF Sound, SessionRow
      <4> QED BY <1>2, <1>5, <2>1, <4>1 DEF Merges
    <3>2. /\ session'[t].draft = TRUE
          /\ t \in DOMAIN mem'.drop /\ mem'.drop[t] = [isOld |-> TRUE, time |-> -1]
      BY <3>1 DEF Adopted
    <3>3. SoFar(-1, j)'
      BY <1>4 DEF SoFar
    <3>4. Gathered(j, t)'
      BY <1>4, <3>2, <3>3 DEF Gathered
    <3> QED BY <3>2, <3>4 DEF Kept, Phases
  <2>2. CASE j # p
    <3>1. j \in DOMAIN mem.rawSession
      BY <1>2, <1>5, <2>2 DEF Merges
    <3>2. Merges(j, t) /\ t \in DOMAIN session
      BY <1>2, <1>3, <1>5, <3>1, MergesBefore DEF Sound
    <3>3. t # s
      BY <1>2, <1>5, <2>2 DEF Merges, MergedAlone
    <3>4. Kept(j, t)
      BY <3>2 DEF Sound, DraftInv, AllKept
    <3>5. /\ session'[t].draft = TRUE /\ t \in DOMAIN mem.drop
          /\ t \in DOMAIN mem'.drop /\ mem'.drop[t] = mem.drop[t]
      BY <3>2, <3>3, <3>4 DEF Adopted, Kept, Gathered, Phases
    <3>6. mem.drop[t] = [isOld |-> TRUE, time |-> mem.drop[t].time] /\ SoFar(mem.drop[t].time, j)
      BY <3>4 DEF Kept, Gathered, Phases
    <3> SUFFICES ASSUME NEW v, v = mem.drop[t].time PROVE Kept(j, t)'
      OBVIOUS
    <3>7. SoFar(v, j)'
      <4>1. \A k \in DOMAIN old.msg : ~Passed(k)
        BY DEF Passed, After
      <4> QED BY <1>4, <3>6, <4>1 DEF SoFar
    <3>8. Gathered(j, t)'
      BY <1>4, <3>5, <3>6, <3>7 DEF Gathered
    <3> QED BY <3>5, <3>8 DEF Kept, Phases
  <2> QED BY <2>1, <2>2
<1> QED BY <1>1, <1>5 DEF AllKept

LEMMA MergeDrafts ==
  ASSUME Sound, Shape', MergeSession, MergeEffect, TelsStay, flaws'.failed = {}, flaws.failed = {}
  PROVE  DraftsHome' /\ AllKept'
<1> DEFINE o == old.session[pos]
<1>1. /\ pc = "session" /\ pc' = "session" /\ pos \in DOMAIN old.session
      /\ old' = old /\ sms' = sms
  BY DEF MergeEffect
<1>2. Row = o
  BY RowIs DEF MergeSession, Sound
<1>3. ~Fails
  BY FailsIs DEF Fails, Sound
<1>4. PICK k \in Matches(o.tel) :
       LET snap == mem.snapSession[k].row
           s == mem.snapSession[k].id
           pin == Max({o.pin, snap.pin})
           now == session[s]
           drafted == IF o.draft THEN [now EXCEPT !.draft = TRUE] ELSE now
           pinned(row) == IF pin > 0 THEN [row EXCEPT !.pin = pin] ELSE row
       IN /\ IF o.time > snap.time
             THEN UpdateSession(s, BuildUpdateSessionItem(o, snap))
             ELSE UpdateSession(s, pinned(drafted))
          /\ mem' = [mem EXCEPT !.rawSession = Put(@, pos, s),
                       !.drop = IF snap.draft \/ o.draft THEN Dropping(@, s, o.draft) ELSE @]
  BY <1>2, <1>3 DEF MergeSession
<1> DEFINE snap == mem.snapSession[k].row
           s == mem.snapSession[k].id
           pin == Max({o.pin, snap.pin})
           now == session[s]
           drafted == IF o.draft THEN [now EXCEPT !.draft = TRUE] ELSE now
           pinned(row) == IF pin > 0 THEN [row EXCEPT !.pin = pin] ELSE row
<1>5. \/ UpdateSession(s, BuildUpdateSessionItem(o, snap))
      \/ UpdateSession(s, pinned(drafted))
  BY <1>4
<1>6. mem' = [mem EXCEPT !.rawSession = Put(@, pos, s),
                       !.drop = IF snap.draft \/ o.draft THEN Dropping(@, s, o.draft) ELSE @]
  BY <1>4
<1>7. s \in DOMAIN session
  BY MatchesSimilar DEF Sound, SessionInv, SnapHolds
<1>8. IsSession(o) /\ IsSession(now) /\ o.draft \in BOOLEAN
  BY <1>1, <1>7, OldIs DEF Sound, Shape, TablesTyped, SessionRow
<1> HIDE DEF s, snap, o, pin
<1>9. mem'.rawSession = Put(mem.rawSession, pos, s)
      /\ mem'.drop = IF snap.draft \/ o.draft THEN Dropping(mem.drop, s, o.draft) ELSE mem.drop
  <2>1. DOMAIN mem = MemFields
    BY DEF Sound, Shape, MemTyped
  <2> QED BY <1>6, <2>1 DEF MemFields
<1>10. /\ \A t \in DOMAIN mem.drop : t # s => t \in DOMAIN mem'.drop /\ mem'.drop[t] = mem.drop[t]
       /\ o.draft = TRUE => s \in DOMAIN mem'.drop /\ mem'.drop[s] = [isOld |-> TRUE, time |-> -1]
  <2> DEFINE dropped(b) == Dropping(mem.drop, s, b)
  <2>1. ASSUME NEW b
        PROVE  /\ s \in DOMAIN dropped(b) /\ dropped(b)[s] = [isOld |-> b, time |-> -1]
               /\ \A t \in DOMAIN mem.drop : t # s => /\ t \in DOMAIN dropped(b)
                                                      /\ dropped(b)[t] = mem.drop[t]
    BY DroppingIs
  <2>2. mem'.drop = mem.drop \/ mem'.drop = dropped(o.draft)
    BY <1>9
  <2>3. o.draft = TRUE => mem'.drop = dropped(TRUE)
    BY <1>9
  <2> HIDE DEF dropped
  <2>4. \A t \in DOMAIN mem.drop : t # s => t \in DOMAIN mem'.drop /\ mem'.drop[t] = mem.drop[t]
    BY <2>1, <2>2
  <2>5. o.draft = TRUE => s \in DOMAIN mem'.drop /\ mem'.drop[s] = [isOld |-> TRUE, time |-> -1]
    BY <2>1, <2>3
  <2> QED BY <2>4, <2>5
<1>11. \A t \in DOMAIN session : t # s => session'[t] = session[t]
  BY <1>5 DEF UpdateSession
<1>12. ASSUME o.draft = TRUE PROVE session'[s].draft = TRUE
  <2> DEFINE d == IF ~snap.draft THEN o.draft ELSE TRUE
             q == Max({o.pin, snap.pin})
  <2>1. BuildUpdateSessionItem(o, snap) = [[o EXCEPT !.draft = d] EXCEPT !.pin = q]
    BY <1>8 DEF BuildUpdateSessionItem, IsSession
  <2>2. d = TRUE
    BY <1>12
  <2> HIDE DEF d, q, now
  <2>3. ASSUME NEW r, IsSession(r), NEW v
        PROVE  /\ [r EXCEPT !.draft = v].draft = v /\ IsSession([r EXCEPT !.draft = v])
               /\ [r EXCEPT !.pin = v].draft = r.draft
    <3>1. r = [tel |-> r.tel, time |-> r.time, draft |-> r.draft, pin |-> r.pin,
               sending |-> r.sending, unread |-> r.unread, count |-> r.count]
      BY <2>3 DEF IsSession
    <3>2. [r EXCEPT !.draft = v].draft = v
      BY <3>1
    <3>3. IsSession([r EXCEPT !.draft = v]) /\ [r EXCEPT !.pin = v].draft = r.draft
      BY <2>3, SessionWith
    <3> QED BY <3>2, <3>3
  <2>4. BuildUpdateSessionItem(o, snap).draft = TRUE
    BY <1>8, <2>1, <2>2, <2>3
  <2>5. drafted.draft = TRUE /\ IsSession(drafted)
    BY <1>8, <1>12, <2>3
  <2> HIDE DEF drafted
  <2>6. pinned(drafted).draft = TRUE
    BY <2>3, <2>5
  <2> HIDE DEF pinned
  <2> QED BY <1>5, <1>7, <2>4, <2>6 DEF UpdateSession
<1>13. Adopted(o, s)
  BY <1>9, <1>10, <1>11, <1>12 DEF Adopted
<1> QED BY <1>1, <1>13, AdoptedDrafts DEF o

LEMMA InsertSessionDrafts ==
  ASSUME Sound, Shape', InsertSessionItem, InsertSessionEffect, TelsStay,
         flaws'.failed = {}, flaws.failed = {}
  PROVE  DraftsHome' /\ AllKept'
<1> DEFINE o == old.session[pos]
           s == NextId("session")
<1>1. /\ pc = "session" /\ pc' = "session" /\ pos \in DOMAIN old.session
      /\ old' = old /\ sms' = sms
  BY DEF InsertSessionEffect, Same
<1>2. Row = o
  BY RowIs DEF InsertSessionItem, Sound
<1>3. ~Fails
  BY FailsIs DEF Fails, Sound
<1>4. /\ session' = Put(session, s, o)
      /\ mem' = [mem EXCEPT !.rawSession = Put(@, pos, s),
                   !.drop = IF o.draft THEN Dropping(@, s, TRUE) ELSE @]
  BY <1>2, <1>3 DEF InsertSessionItem
<1> HIDE DEF s, o
<1>5. mem'.rawSession = Put(mem.rawSession, pos, s)
      /\ mem'.drop = IF o.draft THEN Dropping(mem.drop, s, TRUE) ELSE mem.drop
  <2>1. DOMAIN mem = MemFields
    BY DEF Sound, Shape, MemTyped
  <2> QED BY <1>4, <2>1 DEF MemFields
<1>6. /\ \A t \in DOMAIN mem.drop : t # s => t \in DOMAIN mem'.drop /\ mem'.drop[t] = mem.drop[t]
      /\ o.draft = TRUE => s \in DOMAIN mem'.drop /\ mem'.drop[s] = [isOld |-> TRUE, time |-> -1]
  <2> DEFINE dropped(b) == Dropping(mem.drop, s, b)
  <2>1. ASSUME NEW b
        PROVE  /\ s \in DOMAIN dropped(b) /\ dropped(b)[s] = [isOld |-> b, time |-> -1]
               /\ \A t \in DOMAIN mem.drop : t # s => /\ t \in DOMAIN dropped(b)
                                                      /\ dropped(b)[t] = mem.drop[t]
    BY DroppingIs
  <2>2. mem'.drop = mem.drop \/ mem'.drop = dropped(TRUE)
    BY <1>5
  <2>3. o.draft = TRUE => mem'.drop = dropped(TRUE)
    BY <1>5
  <2> HIDE DEF dropped
  <2> QED BY <2>1, <2>2, <2>3
<1>7. session'[s] = o /\ \A t \in DOMAIN session : t # s => session'[t] = session[t]
  BY <1>4 DEF Put
<1>8. Adopted(o, s)
  BY <1>5, <1>6, <1>7 DEF Adopted
<1> QED BY <1>1, <1>8, AdoptedDrafts DEF o

(* With every message passed the latest draft is what is to stay.          *)
LEMMA StartedDrafts ==
  ASSUME Sound, Shape', StartDrafts, TelsStay, flaws'.failed = {}, flaws.failed = {}
  PROVE  DraftsHome' /\ AllKept'
<1> DEFINE kept == {s \in DOMAIN mem.drop : mem.drop[s].time # -1}
<1>1. /\ old' = old /\ sms' = sms /\ session' = session /\ mem' = mem
      /\ pc = "rcs" /\ pc' = "drafts" /\ todo' = [s \in kept |-> mem.drop[s].time]
  BY DEF StartDrafts, Then, tables
<1>2. \A s : /\ s \in DOMAIN todo' <=> s \in DOMAIN mem.drop /\ mem.drop[s].time # -1
             /\ s \in DOMAIN todo' => todo'[s] = mem.drop[s].time
  BY <1>1
<1>3. DraftsHome'
  BY <1>1, HomeStays DEF Sound, DraftInv
<1>4. \A k \in DOMAIN old.msg : Passed(k)
  BY <1>1 DEF Passed, After
<1>5. ASSUME NEW j, NEW s, Merges(j, s)' PROVE Kept(j, s)'
  <2>1. Merges(j, s) /\ j \in DOMAIN old.session /\ old.session[j].draft
    <3>1. j \in DOMAIN mem.rawSession
      BY <1>1, <1>5 DEF Merges
    <3>2. Merges(j, s) /\ j \in DOMAIN old.session
      BY <1>1, <1>5, <3>1, MergesBefore DEF Sound
    <3> QED BY <3>2 DEF Merges
  <2>2. ASSUME Gathered(j, s) PROVE Planned(j, s)'
    <3>1. s \in DOMAIN mem.drop /\ SoFar(mem.drop[s].time, j)
      BY <2>2 DEF Gathered
    <3>2. mem.drop[s].time = LatestDraft(j)
      BY <1>4, <2>1, <3>1, SoFarAll DEF Sound
    <3>3. /\ LatestDraft(j) \in Nat
          /\ \E k \in DOMAIN old.msg : OwnDraft(k, j) /\ old.msg[k].time = LatestDraft(j)
      BY <2>1, LatestDraftIs DEF Sound
    <3>4. LatestDraft(j) \in DraftTimes(s)
      BY <1>4, <2>2, <3>3 DEF Gathered
    <3>5. s \in DOMAIN todo' /\ todo'[s] = LatestDraft(j)
      BY <1>2, <3>1, <3>2, <3>3
    <3>6. LatestDraft(j)' = LatestDraft(j) /\ DraftTimes(s)' = DraftTimes(s)
      BY <1>1, SameOldDrafts DEF DraftTimes
    <3> QED BY <3>4, <3>5, <3>6 DEF Planned
  <2>3. Kept(j, s) => Gathered(j, s)
    BY <1>1 DEF Kept, Phases
  <2> QED BY <1>1, <1>5, <2>2, <2>3, KeptIfStays DEF Phases
<1> QED BY <1>3, <1>5 DEF AllKept

(* The other drafts of a session go, and those of the others stay.         *)
LEMMA DeletedDrafts ==
  ASSUME Sound, Shape', DeleteInvalidDraft, TelsStay, flaws'.failed = {}, flaws.failed = {}
  PROVE  DraftsHome' /\ AllKept'
<1>0. ~Fails
  BY FailsIs DEF Fails, Sound
<1>1. PICK t \in DOMAIN todo :
        /\ Did("drafts", t)
        /\ sms' = IF todo[t] \in DraftTimes(t)
                  THEN Restrict(sms, DOMAIN sms \ {i \in DOMAIN sms : /\ sms[i].sess = t
                                                      /\ sms[i].state = "draft"
                                                      /\ sms[i].time # todo[t]}) ELSE sms
        /\ UNCHANGED <<session, rcs, seq>>
  BY <1>0 DEF DeleteInvalidDraft
<1>2. /\ old' = old /\ session' = session /\ mem' = mem /\ pc = "drafts" /\ pc' = "drafts"
      /\ todo' = Without(todo, t)
  BY <1>1 DEF Did
<1>3. /\ DOMAIN sms' \subseteq DOMAIN sms
      /\ \A i \in DOMAIN sms' : sms'[i] = sms[i]
      /\ \A i \in DOMAIN sms : sms[i].sess # t => i \in DOMAIN sms'
      /\ todo[t] \in DraftTimes(t) =>
           \A i \in DOMAIN sms : sms[i].sess = t /\ sms[i].state = "draft" =>
                                 (i \in DOMAIN sms' <=> sms[i].time = todo[t])
  BY <1>1 DEF Restrict
<1>4. /\ t \notin DOMAIN todo'
      /\ \A s \in DOMAIN todo : s # t => s \in DOMAIN todo'
      /\ \A s \in DOMAIN todo' : s \in DOMAIN todo /\ todo'[s] = todo[s]
  BY <1>2 DEF Without, Restrict
<1>5. DraftsHome'
  BY <1>2, <1>3, HomeStays DEF Sound, DraftInv
<1>6. ASSUME NEW j, NEW s, Merges(j, s)' PROVE Kept(j, s)'
  <2> SUFFICES ASSUME NEW v, v = LatestDraft(j) PROVE Kept(j, s)'
    OBVIOUS
  <2>1. LatestDraft(j)' = v
    BY <1>2, SameOldDrafts
  <2>2. ASSUME Planned(j, s) PROVE Planned(j, s)'
    <3>1. v \in DraftTimes(s) /\ (s \in DOMAIN todo => todo[s] = v)
          /\ (s \notin DOMAIN todo => DraftTimes(s) = {v})
      BY <2>2 DEF Planned
    <3>2. CASE s = t
      <4>1. todo[t] = v
        BY <3>1, <3>2
      <4>2. DraftTimes(s)' = {v}
        <5>1. \A i \in DOMAIN sms : sms[i].sess = s /\ sms[i].state = "draft" =>
                                     (i \in DOMAIN sms' <=> sms[i].time = v)
          BY <1>3, <3>1, <3>2, <4>1
        <5>2. PICK i \in DOMAIN sms : sms[i].sess = s /\ sms[i].state = "draft" /\ sms[i].time = v
          BY <3>1 DEF DraftTimes
        <5>3. i \in DOMAIN sms' /\ sms'[i] = sms[i]
          BY <1>3, <5>1, <5>2
        <5>4. v \in DraftTimes(s)'
          BY <5>2, <5>3 DEF DraftTimes
        <5>5. \A x \in DraftTimes(s)' : x = v
          BY <1>3, <5>1 DEF DraftTimes
        <5> QED BY <5>4, <5>5
      <4> QED BY <1>4, <2>1, <3>2, <4>2 DEF Planned
    <3>3. CASE s # t
      <4>1. DraftTimes(s)' = DraftTimes(s)
        BY <1>3, <3>3 DEF DraftTimes
      <4>2. s \in DOMAIN todo' => s \in DOMAIN todo /\ todo'[s] = todo[s]
        BY <1>4, <3>3
      <4>3. s \notin DOMAIN todo' => s \notin DOMAIN todo
        BY <1>4, <3>3
      <4>4. v \in DraftTimes(s)' /\ (s \in DOMAIN todo' => todo'[s] = v)
            /\ (s \notin DOMAIN todo' => DraftTimes(s)' = {v})
        BY <3>1, <4>1, <4>2, <4>3
      <4> QED BY <2>1, <4>4 DEF Planned
    <3> QED BY <3>2, <3>3
  <2> QED BY <1>2, <1>6, <2>2, KeptIfStays DEF Kept, Phases
<1> QED BY <1>5, <1>6 DEF AllKept

(* Nothing else is done to the drafts, once all of that is done.           *)
LEMMA TidyDrafts ==
  ASSUME Sound, Shape', TidyEffect, TelsStay, flaws.failed = {}, pc # "rcs", pc' # "drafts",
         pc = "drafts" => todo = Nothing
  PROVE  DraftsHome' /\ AllKept'
<1>1. /\ old' = old /\ sms' = sms /\ mem' = mem /\ SameTels
      /\ pc \in {"drafts", "sending", "unread", "count"}
      /\ pc' \in {"sending", "unread", "count", "done"}
  BY DEF TidyEffect
<1>2. DraftsHome'
  BY <1>1, HomeStays DEF Sound, DraftInv
<1>3. pc = "drafts" => DOMAIN todo = {}
  BY DEF Nothing
<1>4. ASSUME NEW j, NEW s, Merges(j, s)' PROVE Kept(j, s)'
  <2>1. DraftTimes(s)' = DraftTimes(s) /\ LatestDraft(j)' = LatestDraft(j)
    BY <1>1, SameOldDrafts DEF DraftTimes
  <2>2. Kept(j, s) => DraftTimes(s) = {LatestDraft(j)}
    BY <1>1, <1>3 DEF Kept, Planned
  <2>3. \A i \in DOMAIN session : session'[i].draft = session[i].draft
    BY <1>1 DEF SameTels
  <2> QED BY <1>1, <1>4, <2>1, <2>2, <2>3, KeptIfStays DEF Phases
<1> QED BY <1>2, <1>4 DEF AllKept

(* While nothing fails no old session is left out.                         *)
LEMMA MergedStep ==
  ASSUME Sound, Shape', SessionInv', StepEffect, flaws.failed = {}, flaws'.failed = {}, ~PageEffect
  PROVE  AllMerged'
<1> DEFINE all == DOMAIN old.session \subseteq DOMAIN mem.rawSession
<1>0. ASSUME old' = old, mem'.rawSession = mem.rawSession, pc \notin {"idle", "session"}
      PROVE  AllMerged'
  BY <1>0 DEF Sound, DraftInv, AllMerged
<1>1. CASE StartEffect
  BY <1>1 DEF StartEffect, Marked, AllMerged
<1>2. CASE CrashEffect
  BY <1>2 DEF CrashEffect, AllMerged
<1>3. CASE MergeEffect \/ InsertSessionEffect
  BY <1>3 DEF MergeEffect, InsertSessionEffect, AllMerged
<1>4. CASE ReadEffect
  <2>1. pc' = "mms"
    BY <1>4 DEF ReadEffect
  <2> QED BY <2>1 DEF SessionInv, RawComplete, AllMerged
<1>5. CASE MmsEffect
  <2>1. old' = old /\ mem'.rawSession = mem.rawSession /\ pc = "mms"
    BY <1>5 DEF MmsEffect, CopiedTo, Marked, Keep, CopyFields, MemFields
  <2> QED BY <1>0, <2>1
<1>6. CASE ReadRcsEffect
  <2>1. old' = old /\ mem'.rawSession = mem.rawSession /\ pc = "mms"
    BY <1>6, RowIs DEF ReadRcsEffect, Keep, MemFields, Sound
  <2> QED BY <1>0, <2>1
<1>7. CASE RcsEffect
  <2>1. old' = old /\ mem'.rawSession = mem.rawSession /\ pc = "rcs"
    BY <1>7 DEF RcsEffect, RcsIsNow, Keep, MemFields
  <2> QED BY <1>0, <2>1
<1>8. CASE IntegrateEffect
  BY <1>0, <1>8 DEF IntegrateEffect
<1>9. CASE UpdateEffect \/ ReceiveEffect
  <2>1. UNCHANGED <<old, mem, pc>>
    BY <1>9 DEF UpdateEffect, ReceiveEffect
  <2> QED BY <2>1 DEF Sound, DraftInv, AllMerged
<1>10. CASE TidyEffect \/ DraftEffect
  BY <1>0, <1>10 DEF TidyEffect, DraftEffect
<1> QED BY <1>1, <1>2, <1>3, <1>4, <1>5, <1>6, <1>7, <1>8, <1>9, <1>10 DEF StepEffect

LEMMA DraftsStep == ASSUME Sound, [Next]_vars PROVE DraftInv'
<1>1. CASE UNCHANGED vars
  <2>1. UNCHANGED <<old, session, sms, pc, pos, todo, mem, flaws>>
    BY <1>1 DEF vars
  <2>2. AllMerged'
    BY <2>1 DEF Sound, DraftInv, AllMerged
  <2>3. ASSUME flaws.failed = {} PROVE DraftsHome' /\ AllKept'
    <3>1. TelsStay
      BY <2>1, TelsStayIf
    <3>2. DraftsHome'
      BY <2>1, <2>3, <3>1, HomeStays DEF Sound, DraftInv
    <3>3. \A s : DraftTimes(s)' = DraftTimes(s)
      BY <2>1 DEF DraftTimes
    <3> QED BY <2>1, <2>3, <3>1, <3>2, <3>3, MovedKept
  <2>4. ASSUME flaws.failed # {} PROVE DraftsHome' /\ AllKept'
    BY <2>1, <2>4 DEF DraftsHome, AllKept
  <2> QED BY <2>2, <2>3, <2>4 DEF DraftInv
<1>2. ASSUME Next, flaws'.failed # {} PROVE DraftInv'
  BY <1>2 DEF DraftInv, DraftsHome, AllKept, AllMerged
<1>3. ASSUME Next, flaws'.failed = {} PROVE DraftInv'
  <2>1. Shape' /\ StepEffect /\ SessionInv'
    BY <1>3, StepIs, SessionsStep DEF Sound
  <2>2. flaws.failed = {} /\ ~PageEffect
    BY <1>3, <2>1, NoneFailed DEF Sound
  <2>3. TelsStay
    BY <2>1, StepTels DEF Sound
  <2>4. AllMerged'
    BY <1>3, <2>1, <2>2, MergedStep
  <2> SUFFICES DraftsHome' /\ AllKept'
    BY <2>4 DEF DraftInv
  <2> USE <1>3, <2>1, <2>2, <2>3 DEF Sound
  <2>5. CASE CopyDbListFileForClone BY <2>5, StartIs, EmptyDrafts
  <2>6. CASE PageFails BY <2>6, PageIs
  <2>7. CASE Crash BY <2>7, CrashIs, EmptyDrafts
  <2>8. CASE MergeSession BY <2>8, MergeIs, MergeDrafts
  <2>9. CASE InsertSessionItem BY <2>9, InsertSessionIs, InsertSessionDrafts
  <2>10. CASE DoMmsTableCopy BY <2>10, ReadIs, ReadDrafts
  <2>11. CASE QueryMmsTable BY <2>11, MmsIs, MmsDrafts
  <2>12. CASE DoRcsTableCopy BY <2>12, ReadRcsIs, ReadRcsDrafts
  <2>13. CASE QueryRcsTable BY <2>13, RcsIs, RcsDrafts
  <2>14. CASE GetSmsMmsInfoItemFromRcsInfo BY <2>14, IntegrateIs, IntegrateDrafts
  <2>15. CASE UpdateSms BY <2>15, UpdateIs, UpdateDrafts
  <2>16. CASE StartDrafts BY <2>16, StartedDrafts
  <2>17. CASE DeleteInvalidDraft BY <2>17, DeletedDrafts
  <2>18. CASE ProcessUpdateSession
    <3>1. pc # "rcs" /\ pc' # "drafts" /\ (pc = "drafts" => todo = Nothing)
      BY <2>18 DEF ProcessUpdateSession, Then, Did, Abandoned
    <3> QED BY <2>18, <3>1, SendingIs, TidyDrafts
  <2>19. CASE RecountAndUpdateUnread
    <3>1. pc \in {"sending", "unread"} /\ pc' = "unread"
      BY <2>19 DEF RecountAndUpdateUnread, Then, Did
    <3> QED BY <2>19, <3>1, UnreadIs, TidyDrafts
  <2>20. CASE UpdateSessionMsgCount
    <3>1. pc \in {"unread", "count"} /\ pc' = "count"
      BY <2>20 DEF UpdateSessionMsgCount, Then, Did, Abandoned
    <3> QED BY <2>20, <3>1, CountIs, TidyDrafts
  <2>21. CASE Finish
    <3>1. pc = "count" /\ pc' = "done"
      BY <2>21 DEF Finish, Then
    <3> QED BY <2>21, <3>1, FinishIs, TidyDrafts
  <2>22. CASE \E t \in Tels : Receive(t) BY <2>22, ReceiveIs, ReceiveDrafts
  <2> QED BY <2>5, <2>6, <2>7, <2>8, <2>9, <2>10, <2>11, <2>12, <2>13, <2>14, <2>15, <2>16, <2>17,
             <2>18, <2>19, <2>20, <2>21, <2>22 DEF Next
<1> QED BY <1>1, <1>2, <1>3

LEMMA DraftsInit == ASSUME Init PROVE DraftInv
<1>1. PICK db \in NewDbs :
         /\ session = db.session
         /\ sms = [i \in DOMAIN db.msg |-> RowOf(db.msg[i], 0, 0)]
  BY DEF Init
<1>2. /\ old \in OldDbs /\ pc = "idle" /\ DOMAIN mem.rawSession = {}
  BY NewMemIs DEF Init
<1>3. ASSUME NEW i \in DOMAIN sms PROVE AtHome(sms[i])
  <2> SUFFICES ASSUME NEW k \in DOMAIN old.msg, KeyOf(sms[i]) = KeyOf(old.msg[k]),
                      old.msg[k].state = "draft"
               PROVE  /\ sms[i].state = "draft" /\ sms[i].sess \in DOMAIN session
                      /\ Similar(old.session[old.msg[k].sess].tel, session[sms[i].sess].tel)
    BY DEF AtHome
  <2>1. i \in DOMAIN db.msg /\ sms[i] = RowOf(db.msg[i], 0, 0)
    BY <1>1
  <2>2. /\ KeyOf(sms[i]) = KeyOf(db.msg[i]) /\ sms[i].state = db.msg[i].state
        /\ sms[i].sess = db.msg[i].sess
    BY <2>1 DEF RowOf, KeyOf
  <2>3. db.msg[i] \in Contents(db.msg) /\ old.msg[k] \in Contents(old.msg)
    BY <2>1 DEF Contents
  <2>4. old.msg[k].state = "draft" <=> db.msg[i].state = "draft"
    BY <1>1, <1>2, <2>2, <2>3, NextCopyAssumption
  <2>5. /\ db.msg[i].sess \in DOMAIN db.session
        /\ Similar(old.session[old.msg[k].sess].tel, db.session[db.msg[i].sess].tel)
    BY <1>1, <1>2, <2>2, <2>3, DraftAssumption
  <2> QED BY <1>1, <2>2, <2>4, <2>5
<1>4. DraftsHome
  BY <1>3 DEF DraftsHome
<1> QED BY <1>2, <1>4 DEF DraftInv, AllKept, Merges, AllMerged

(* Where the drafts of the backup are, through every merge of sessions,    *)
(* and which of them is to stay.                                           *)
THEOREM DraftInvariant == Spec => [](Shape /\ SessionInv /\ KeyInv /\ DoneInv /\ DraftInv)
<1>1. Init => Sound
  BY InitIs, SessionsInit, KeysInit, DoneInit, DraftsInit DEF Sound
<1>2. Sound /\ [Next]_vars => Sound'
  <2> SUFFICES ASSUME Sound, [Next]_vars PROVE Sound'
    OBVIOUS
  <2>1. DraftInv'
    BY DraftsStep
  <2> QED BY <2>1, StepIs, ShapeStays, SessionsStep, KeysStep, DoneStep DEF Sound
<1>3. Sound => Shape /\ SessionInv /\ KeyInv /\ DoneInv /\ DraftInv
  BY DEF Sound
<1> QED BY <1>1, <1>2, <1>3, PTL DEF Spec

(* Where both phones have a draft the latest of the old one is what stays, *)
(* alone, of every session merged alone, whenever messages arrive and      *)
(* however often the restore is cut short.                                 *)
THEOREM OldDraftsKept == Spec => []OldDraftKept
<1>1. DraftInv => OldDraftKept
  <2> SUFFICES ASSUME DraftInv, pc = "done", flaws.failed = {}, NEW j \in DOMAIN old.session,
                      old.session[j].draft, MergedAlone(j)
               PROVE  DraftKept(j)
    BY DEF OldDraftKept
  <2>1. j \in DOMAIN mem.rawSession
    BY DEF DraftInv, AllMerged
  <2>2. Merges(j, mem.rawSession[j])
    BY <2>1 DEF Merges
  <2>3. Kept(j, mem.rawSession[j])
    BY <2>2 DEF DraftInv, AllKept
  <2> QED BY <2>3 DEF Kept, DraftKept
<1> QED BY <1>1, DraftInvariant, PTL
=============================================================================
