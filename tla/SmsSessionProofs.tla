-------------------------- MODULE SmsSessionProofs --------------------------
(***************************************************************************)
(* Proofs about sessions, unread counters, messages and parts, for any     *)
(* number of sessions, messages, parts, mark-read requests that overlap    *)
(* each other and everything else, and failing statements.                 *)
(***************************************************************************)
EXTENDS SmsSession, FiniteSetTheorems, TLAPS

(* A marking of one message knows the message's table.                     *)
TableKnown ==
  \A r \in Readers : marking[r].step \in {"msg", "count"} => marking[r].table \in Tables

(* The unread rows of a session in a table.                                *)
UnreadIn(tbl, t, s) ==
  {m \in DOMAIN tbl[t] : tbl[t][m].session = s /\ ~tbl[t][m].is_read}

(* What a marking has already marked stays so, for a session it covers.    *)
Marked(r, s) ==
  Covers(marking[r].target, s) =>
    /\ marking[r].step \in {"rcs", "session"} => UnreadIn(rows, "sms_mms_info", s) = {}
    /\ marking[r].step = "session" => UnreadIn(rows, "rcs_info", s) = {}

(* UnreadNotUndercounted with that, for the sessions that got no unread    *)
(* row since.                                                              *)
CountInv ==
  \A s \in sessions \ raced :
    /\ \A r \in Readers : Marked(r, s)
    /\ Unread(rows, s) <= unread_count[s]

(* Both rows of an RCS message name one session, and one that exists or    *)
(* existed.                                                                *)
RowsInv ==
  /\ \A t \in Tables : \A m \in DOMAIN rows[t] : rows[t][m].session \in created
  /\ \A m \in DOMAIN rows["rcs_info"] \intersect DOMAIN Infos :
       rows["rcs_info"][m].session = Infos[m].session

(* What a DELETE_SESSION has deleted so far: of the messages of its        *)
(* sessions only blocked rows are left.                                    *)
DeletedSoFar ==
  /\ deleting.step \in {"info", "session"} =>
       \A m \in DOMAIN rows["rcs_info"] \intersect DOMAIN Infos :
         Infos[m].session \in deleting.ids => rows["rcs_info"][m].is_blocked
  /\ deleting.step = "session" =>
       \A m \in DOMAIN Infos : Infos[m].session \in deleting.ids => Infos[m].is_blocked

OrphanInv ==
  /\ RowsInv
  /\ DeletedSoFar
  /\ NoOrphanMessage
  /\ NoOrphanRcs

(* A step that leaves the rows it does not delete with their sessions,     *)
(* blocked or not, and known as strays.                                    *)
RowsKept ==
  \A t \in Tables : \A m \in DOMAIN rows'[t] :
    /\ m \in DOMAIN rows[t]
    /\ rows'[t][m].session = rows[t][m].session
    /\ rows'[t][m].is_blocked = rows[t][m].is_blocked
    /\ <<t, m>> \in strays => <<t, m>> \in strays'

(* A part shared with a favourite and tied by one column becomes unshared  *)
(* by the statement for that column alone, after the deletion for it.      *)
ChargedSoFar ==
  \A p \in DOMAIN parts :
    /\ PartOf[p] \in favorites /\ Cardinality(parts[p].keys) = 1 /\ p \notin chargedBefore
    /\ parts[p].reference_count = 1
    => \/ deleting.step \in {"idle", "rcsInfo", "info", "session"}
       \/ deleting.step \in {"rcsPart", "rcsRefs"} /\ "rcs_id" \notin parts[p].keys

-----------------------------------------------------------------------------
(* Tables.                                                                 *)
LEMMA TableIs ==
  ASSUME NEW I, NEW R, NEW f
  PROVE  f \in TableOf(I, R) <=> DOMAIN f \subseteq I /\ f \in [DOMAIN f -> R]
BY DEF TableOf

LEMMA WithIs ==
  ASSUME NEW I, NEW R, NEW f \in TableOf(I, R), NEW k \in I, NEW x \in R
  PROVE  /\ With(f, k, x) \in TableOf(I, R)
         /\ DOMAIN With(f, k, x) = DOMAIN f \union {k}
         /\ With(f, k, x)[k] = x
         /\ \A i \in DOMAIN f \ {k} : With(f, k, x)[i] = f[i]
<1>1. DOMAIN f \subseteq I /\ f \in [DOMAIN f -> R]
  BY TableIs
<1>2. With(f, k, x) \in [DOMAIN f \union {k} -> R]
  BY <1>1 DEF With
<1>3. With(f, k, x) \in TableOf(I, R)
  BY <1>1, <1>2 DEF TableOf
<1> QED BY <1>2, <1>3 DEF With

LEMMA WithoutIs ==
  ASSUME NEW I, NEW R, NEW f \in TableOf(I, R), NEW S
  PROVE  /\ Without(f, S) \in TableOf(I, R)
         /\ DOMAIN Without(f, S) = DOMAIN f \ S
         /\ \A i \in DOMAIN f \ S : Without(f, S)[i] = f[i]
<1>1. DOMAIN f \subseteq I /\ f \in [DOMAIN f -> R]
  BY TableIs
<1>2. Without(f, S) \in [DOMAIN f \ S -> R]
  BY <1>1 DEF Without, Restrict
<1>3. Without(f, S) \in TableOf(I, R)
  BY <1>1, <1>2 DEF TableOf
<1> QED BY <1>2, <1>3 DEF Without, Restrict

LEMMA RowsAre ==
  ASSUME TypeOK, NEW t \in Tables
  PROVE  DOMAIN rows[t] \subseteq Msgs /\ rows[t] \in TableOf(Msgs, Row)
         /\ \A m \in DOMAIN rows[t] : rows[t][m] \in Row
<1>1. rows[t] \in TableOf(Msgs, Row)
  BY DEF TypeOK
<1> QED BY <1>1, TableIs

LEMMA PartsAre ==
  ASSUME TypeOK
  PROVE  DOMAIN parts \subseteq Parts /\ \A p \in DOMAIN parts : parts[p] \in PartRow
<1>1. parts \in TableOf(Parts, PartRow)
  BY DEF TypeOK
<1> QED BY <1>1, TableIs

LEMMA SetReadIs ==
  ASSUME TypeOK, NEW t \in Tables, NEW ms, SetRead(t, ms)
  PROVE  /\ rows' \in [Tables -> TableOf(Msgs, Row)]
         /\ \A u \in Tables : DOMAIN rows'[u] = DOMAIN rows[u] /\ (u # t => rows'[u] = rows[u])
         /\ \A m \in DOMAIN rows[t] :
              /\ rows'[t][m].session = rows[t][m].session
              /\ rows'[t][m].is_blocked = rows[t][m].is_blocked
              /\ rows'[t][m].is_read = (m \in ms \/ rows[t][m].is_read)
<1> DEFINE f == [m \in DOMAIN rows[t] |->
                   IF m \in ms THEN [rows[t][m] EXCEPT !.is_read = TRUE] ELSE rows[t][m]]
<1>1. rows' = [rows EXCEPT ![t] = f] /\ rows \in [Tables -> TableOf(Msgs, Row)]
  BY DEF SetRead, TypeOK
<1>2. DOMAIN rows[t] \subseteq Msgs /\ \A m \in DOMAIN rows[t] : rows[t][m] \in Row
  BY RowsAre
<1>3. f \in [DOMAIN rows[t] -> Row]
  BY <1>2 DEF Row
<1>4. f \in TableOf(Msgs, Row)
  BY <1>2, <1>3 DEF TableOf
<1>5. ASSUME NEW m \in DOMAIN rows[t]
      PROVE  /\ f[m].session = rows[t][m].session
             /\ f[m].is_blocked = rows[t][m].is_blocked
             /\ f[m].is_read = (m \in ms \/ rows[t][m].is_read)
  <2>1. CASE m \in ms
    BY <1>2, <2>1 DEF Row
  <2>2. CASE m \notin ms
    BY <1>2, <2>2 DEF Row
  <2> QED BY <2>1, <2>2
<1>6. DOMAIN f = DOMAIN rows[t]
  OBVIOUS
<1> HIDE DEF f
<1> QED BY <1>1, <1>4, <1>5, <1>6

-----------------------------------------------------------------------------
(* Counting.                                                               *)
LEMMA UnreadIs ==
  ASSUME NEW tbl, NEW s
  PROVE  Unread(tbl, s) = Cardinality(UnreadIn(tbl, "sms_mms_info", s))
                            + Cardinality(UnreadIn(tbl, "rcs_info", s))
BY DEF Unread, UnreadIn

LEMMA CardinalityOf ==
  ASSUME NEW S, S \subseteq Msgs
  PROVE  IsFiniteSet(S) /\ Cardinality(S) \in Nat /\ Cardinality(S) <= Cardinality(Msgs)
         /\ Cardinality(Msgs) \in Nat
BY SessionAssumption, FS_Subset, FS_CardinalityType DEF SessionAssumption

LEMMA UnreadBounded ==
  ASSUME NEW tbl \in [Tables -> TableOf(Msgs, Row)], NEW s
  PROVE  Unread(tbl, s) \in 0..2 * Cardinality(Msgs) /\ Unread(tbl, s) \in Nat
<1>1. ASSUME NEW t \in Tables PROVE UnreadIn(tbl, t, s) \subseteq Msgs
  <2>1. tbl[t] \in TableOf(Msgs, Row)
    OBVIOUS
  <2> QED BY <2>1, TableIs DEF UnreadIn
<1>2. "sms_mms_info" \in Tables /\ "rcs_info" \in Tables
  BY DEF Tables
<1> DEFINE a == Cardinality(UnreadIn(tbl, "sms_mms_info", s))
           b == Cardinality(UnreadIn(tbl, "rcs_info", s))
           n == Cardinality(Msgs)
<1>3. a \in Nat /\ b \in Nat /\ n \in Nat /\ a <= n /\ b <= n
  BY <1>1, <1>2, CardinalityOf
<1>4. Unread(tbl, s) = a + b
  BY UnreadIs
<1> HIDE DEF a, b, n
<1> QED BY <1>3, <1>4 DEF n

LEMMA UnreadFewer ==
  ASSUME NEW tbl \in [Tables -> TableOf(Msgs, Row)], NEW old \in [Tables -> TableOf(Msgs, Row)],
         NEW s, \A t \in Tables : UnreadIn(tbl, t, s) \subseteq UnreadIn(old, t, s)
  PROVE  Unread(tbl, s) <= Unread(old, s)
<1>1. ASSUME NEW t \in Tables
      PROVE  /\ Cardinality(UnreadIn(tbl, t, s)) \in Nat /\ Cardinality(UnreadIn(old, t, s)) \in Nat
             /\ Cardinality(UnreadIn(tbl, t, s)) <= Cardinality(UnreadIn(old, t, s))
  <2>1. old[t] \in TableOf(Msgs, Row) /\ tbl[t] \in TableOf(Msgs, Row)
    OBVIOUS
  <2>2. UnreadIn(old, t, s) \subseteq Msgs /\ UnreadIn(tbl, t, s) \subseteq Msgs
    BY <2>1, TableIs DEF UnreadIn
  <2>3. UnreadIn(tbl, t, s) \subseteq UnreadIn(old, t, s)
    OBVIOUS
  <2> QED BY <2>2, <2>3, CardinalityOf, FS_Subset
<1> DEFINE a(u) == Cardinality(UnreadIn(u, "sms_mms_info", s))
           b(u) == Cardinality(UnreadIn(u, "rcs_info", s))
<1>2. /\ a(tbl) \in Nat /\ a(old) \in Nat /\ a(tbl) <= a(old)
      /\ b(tbl) \in Nat /\ b(old) \in Nat /\ b(tbl) <= b(old)
  BY <1>1 DEF Tables
<1>3. Unread(tbl, s) = a(tbl) + b(tbl) /\ Unread(old, s) = a(old) + b(old)
  BY UnreadIs
<1> HIDE DEF a, b
<1> QED BY <1>2, <1>3

LEMMA UnreadNone ==
  ASSUME NEW tbl, NEW s, \A t \in Tables : UnreadIn(tbl, t, s) = {}
  PROVE  Unread(tbl, s) = 0
BY UnreadIs, FS_EmptySet DEF Tables

-----------------------------------------------------------------------------
(* Types.                                                                  *)
LEMMA PutIs ==
  ASSUME TypeOK, NEW t \in Tables, NEW m \in Msgs, NEW row \in Row, Put(t, m, row)
  PROVE  /\ rows' \in [Tables -> TableOf(Msgs, Row)]
         /\ \A u \in Tables : u # t => rows'[u] = rows[u]
         /\ DOMAIN rows'[t] = DOMAIN rows[t] \union {m}
         /\ rows'[t][m] = row
         /\ \A n \in DOMAIN rows[t] \ {m} : rows'[t][n] = rows[t][n]
<1>1. rows' = [rows EXCEPT ![t] = With(rows[t], m, row)]
  BY DEF Put
<1>2. rows \in [Tables -> TableOf(Msgs, Row)] /\ rows[t] \in TableOf(Msgs, Row)
  BY DEF TypeOK
<1>3. /\ With(rows[t], m, row) \in TableOf(Msgs, Row)
      /\ DOMAIN With(rows[t], m, row) = DOMAIN rows[t] \union {m}
      /\ With(rows[t], m, row)[m] = row
      /\ \A n \in DOMAIN rows[t] \ {m} : With(rows[t], m, row)[n] = rows[t][n]
  BY <1>2, WithIs
<1> QED BY <1>1, <1>2, <1>3

LEMMA PutType ==
  ASSUME TypeOK, NEW t \in Tables, NEW m \in Msgs, NEW row \in Row, Put(t, m, row)
  PROVE  /\ rows' \in [Tables -> TableOf(Msgs, Row)]
         /\ unread_count' \in [Sessions -> 0..2 * Cardinality(Msgs)]
         /\ raced' \subseteq Sessions /\ strays' \subseteq Tables \X Msgs
<1>1. rows' \in [Tables -> TableOf(Msgs, Row)]
  BY PutIs
<1>2. Recount(rows', row.session) \in 0..2 * Cardinality(Msgs)
  BY <1>1, UnreadBounded DEF Recount
<1>3. unread_count' \in [Sessions -> 0..2 * Cardinality(Msgs)]
  <2>1. CASE row.is_read \/ row.session \notin sessions
    BY <2>1 DEF Put, TypeOK
  <2>2. CASE ~(row.is_read \/ row.session \notin sessions)
    <3>1. unread_count' = [unread_count EXCEPT ![row.session] = Recount(rows', row.session)]
      BY <2>2 DEF Put
    <3> QED BY <1>2, <3>1 DEF TypeOK
  <2> QED BY <2>1, <2>2
<1>4. row.session \in Sessions
  BY DEF Row
<1>5. raced' \subseteq Sessions
  <2>1. raced' \subseteq raced \union {row.session}
    <3>1. CASE row.is_read \/ row.session \notin sessions
      BY <3>1 DEF Put
    <3>2. CASE ~(row.is_read \/ row.session \notin sessions)
      BY <3>2 DEF Put
    <3> QED BY <3>1, <3>2
  <2>2. raced \subseteq Sessions
    BY DEF TypeOK
  <2> QED BY <1>4, <2>1, <2>2
<1>6. strays' \subseteq Tables \X Msgs
  <2>1. strays' = strays \/ strays' = strays \union {<<t, m>>}
    BY DEF Put
  <2>2. strays \subseteq Tables \X Msgs /\ <<t, m>> \in Tables \X Msgs
    BY DEF TypeOK
  <2> QED BY <2>1, <2>2
<1> QED BY <1>1, <1>3, <1>5, <1>6

LEMMA DeleteRowsType ==
  ASSUME TypeOK, NEW t \in Tables, NEW ms, DeleteRows(t, ms)
  PROVE  /\ rows' \in [Tables -> TableOf(Msgs, Row)]
         /\ \A u \in Tables : u # t => rows'[u] = rows[u]
         /\ DOMAIN rows'[t] = DOMAIN rows[t] \ ms
         /\ \A n \in DOMAIN rows[t] \ ms : rows'[t][n] = rows[t][n]
         /\ strays' \subseteq Tables \X Msgs
<1>1. rows' = [rows EXCEPT ![t] = Without(rows[t], ms)]
  BY DEF DeleteRows
<1>2. rows \in [Tables -> TableOf(Msgs, Row)] /\ rows[t] \in TableOf(Msgs, Row)
  BY DEF TypeOK
<1>3. ASSUME NEW f \in TableOf(Msgs, Row)
      PROVE  /\ Without(f, ms) \in TableOf(Msgs, Row)
             /\ DOMAIN Without(f, ms) = DOMAIN f \ ms
             /\ \A n \in DOMAIN f \ ms : Without(f, ms)[n] = f[n]
  BY WithoutIs
<1>4. strays' \subseteq Tables \X Msgs
  <2>1. strays' \subseteq strays
    BY DEF DeleteRows
  <2>2. strays \subseteq Tables \X Msgs
    BY DEF TypeOK
  <2> QED BY <2>1, <2>2
<1> QED BY <1>1, <1>2, <1>3, <1>4

LEMMA DeleteInfoIs ==
  ASSUME NEW t, NEW m, DeleteInfo(t, m)
  PROVE  DeleteRows(t, {m})
<1>1. {<<t, m>>} = {t} \X {m}
  OBVIOUS
<1> QED BY <1>1 DEF DeleteInfo, DeleteRows

LEMMA FaultType ==
  ASSUME TypeOK, Fault \/ NoFault
  PROVE  faults' \in 0..MaxFaults
BY SessionAssumption DEF SessionAssumption, TypeOK, Fault, NoFault

LEMMA DeleteSessionsType ==
  ASSUME TypeOK, NEW S, DeleteSessions(S)
  PROVE  /\ timed' \subseteq sessions' /\ sessions' \subseteq sessions
         /\ unread_count' \in [Sessions -> 0..2 * Cardinality(Msgs)]
         /\ raced' \subseteq Sessions
<1>1. Cardinality(Msgs) \in Nat
  BY SessionAssumption, FS_CardinalityType DEF SessionAssumption
<1>2. 0 \in 0..2 * Cardinality(Msgs)
  BY <1>1
<1>3. unread_count' \in [Sessions -> 0..2 * Cardinality(Msgs)]
  <2> DEFINE range == 0..2 * Cardinality(Msgs)
  <2>1. 0 \in range /\ unread_count \in [Sessions -> range]
    BY <1>2 DEF TypeOK
  <2>2. unread_count' = [s \in Sessions |-> IF s \in S THEN 0 ELSE unread_count[s]]
    BY DEF DeleteSessions
  <2> HIDE DEF range
  <2>3. unread_count' \in [Sessions -> range]
    BY <2>1, <2>2
  <2> QED BY <2>3 DEF range
<1> QED BY <1>3 DEF DeleteSessions, TypeOK

LEMMA StatementType ==
  ASSUME TypeOK, NEW step, NEW next \in DeleteSteps \union {"idle"}, NEW ok \in BOOLEAN,
         Statement(step, next, ok)
  PROVE  /\ deleting' \in [step : DeleteSteps \union {"idle"}, ids : SUBSET created]
         /\ faults' \in 0..MaxFaults
<1>1. faults' \in 0..MaxFaults
  BY FaultType DEF Statement
<1>2. CASE ok /\ next # "idle"
  BY <1>1, <1>2 DEF Statement, TypeOK
<1>3. CASE ~(ok /\ next # "idle")
  BY <1>1, <1>3 DEF Statement, TypeOK
<1> QED BY <1>2, <1>3

LEMMA MarkStatementType ==
  ASSUME TypeOK, NEW r \in Readers, NEW step, NEW next \in MarkSteps \union {"idle"},
         NEW ok \in BOOLEAN, MarkStatement(r, step, next, ok)
  PROVE  /\ marking' \in [Readers -> [step : MarkSteps \union {"idle"},
                              target : Sessions \union Msgs \union {"all", "info", "none"},
                              table : Tables \union {"none"}]]
         /\ faults' \in 0..MaxFaults
<1>1. faults' \in 0..MaxFaults
  BY FaultType DEF MarkStatement
<1>2. CASE ok /\ next # "idle"
  BY <1>1, <1>2 DEF MarkStatement, TypeOK
<1>3. CASE ~(ok /\ next # "idle")
  BY <1>1, <1>3 DEF MarkStatement, TypeOK
<1> QED BY <1>2, <1>3

LEMMA EmptyTable ==
  ASSUME NEW I, NEW R
  PROVE  <<>> \in TableOf(I, R) /\ DOMAIN <<>> = {}
<1>1. DOMAIN <<>> = {}
  OBVIOUS
<1>2. <<>> \in [DOMAIN <<>> -> R]
  OBVIOUS
<1> QED BY <1>1, <1>2, TableIs

LEMMA TypeInit ==
  ASSUME Init
  PROVE  TypeOK
<1>1. 0 \in 0..2 * Cardinality(Msgs) /\ 0 \in 0..MaxFaults
  <2>1. Cardinality(Msgs) \in Nat /\ MaxFaults \in Nat
    BY SessionAssumption, FS_CardinalityType DEF SessionAssumption
  <2> QED BY <2>1
<1>2. unread_count \in [Sessions -> 0..2 * Cardinality(Msgs)]
  <2> DEFINE range == 0..2 * Cardinality(Msgs)
  <2>1. 0 \in range
    BY <1>1
  <2> HIDE DEF range
  <2>2. unread_count \in [Sessions -> range]
    BY <2>1 DEF Init
  <2> QED BY <2>2 DEF range
<1>3. rows \in [Tables -> TableOf(Msgs, Row)] /\ parts \in TableOf(Parts, PartRow)
  <2> DEFINE table == TableOf(Msgs, Row)
  <2>1. <<>> \in table /\ <<>> \in TableOf(Parts, PartRow)
    BY EmptyTable
  <2> HIDE DEF table
  <2>2. rows \in [Tables -> table]
    BY <2>1 DEF Init
  <2>3. parts \in TableOf(Parts, PartRow)
    BY <2>1 DEF Init
  <2> QED BY <2>2, <2>3 DEF table
<1>4. deleting \in [step : DeleteSteps \union {"idle"}, ids : SUBSET created]
  BY DEF Init
<1>5. marking \in [Readers -> [step : MarkSteps \union {"idle"},
                              target : Sessions \union Msgs \union {"all", "info", "none"},
                              table : Tables \union {"none"}]]
  BY DEF Init
<1> QED BY <1>1, <1>2, <1>3, <1>4, <1>5 DEF Init, TypeOK

LEMMA TypeClient ==
  ASSUME TypeOK, Client
  PROVE  TypeOK'
<1>1. ASSUME NEW s \in Sessions, InsertSession(s)
      PROVE  TypeOK'
  <2>1. timed' \subseteq sessions' /\ sessions' \subseteq created' /\ created' \subseteq Sessions
    BY <1>1 DEF InsertSession, TypeOK
  <2>2. deleting' \in [step : DeleteSteps \union {"idle"}, ids : SUBSET created']
    BY <1>1 DEF InsertSession, TypeOK
  <2>3. dropped' \subseteq created'
    BY <1>1 DEF InsertSession, TypeOK
  <2> QED BY <1>1, <2>1, <2>2, <2>3 DEF InsertSession, TypeOK
<1>2. ASSUME NEW s \in Sessions, UpdateSessionTime(s)
      PROVE  TypeOK'
  BY <1>2 DEF UpdateSessionTime, TypeOK, history
<1>3. ASSUME StatisticsCleanInvalidSession
      PROVE  TypeOK'
  <2>1. DeleteSessions(InvalidSessions) /\ InvalidSessions \subseteq sessions
    BY <1>3 DEF StatisticsCleanInvalidSession, InvalidSessions
  <2>2. /\ timed' \subseteq sessions' /\ sessions' \subseteq sessions
        /\ unread_count' \in [Sessions -> 0..2 * Cardinality(Msgs)]
        /\ raced' \subseteq Sessions
    BY <2>1, DeleteSessionsType
  <2>3. dropped' \subseteq created'
    BY <1>3, <2>1 DEF StatisticsCleanInvalidSession, TypeOK
  <2> QED BY <1>3, <2>2, <2>3 DEF StatisticsCleanInvalidSession, TypeOK
<1>4. ASSUME NEW ids \in SUBSET created, StatisticsDeleteSession(ids)
      PROVE  TypeOK'
  <2>1. deleting' \in [step : DeleteSteps \union {"idle"}, ids : SUBSET created]
    BY <1>4 DEF StatisticsDeleteSession, DeleteSteps
  <2>2. chargedBefore' \subseteq Parts
    BY <1>4, PartsAre DEF StatisticsDeleteSession
  <2> QED BY <1>4, <2>1, <2>2 DEF StatisticsDeleteSession, TypeOK, tables
<1>5. ASSUME NEW m \in Msgs, AddFavorite(m)
      PROVE  TypeOK'
  <2>1. parts' \in TableOf(Parts, PartRow)
    <3>1. DOMAIN parts \subseteq Parts /\ \A p \in DOMAIN parts : parts[p] \in PartRow
      BY PartsAre
    <3>2. \A p \in DOMAIN parts : [parts[p] EXCEPT !.reference_count = 2] \in PartRow
      BY <3>1 DEF PartRow
    <3>3. parts' \in [DOMAIN parts -> PartRow]
      BY <1>5, <3>1, <3>2 DEF AddFavorite
    <3> QED BY <3>1, <3>3 DEF TableOf
  <2>2. favorites' \subseteq Msgs
    BY <1>5 DEF AddFavorite, TypeOK
  <2> QED BY <1>5, <2>1, <2>2 DEF AddFavorite, TypeOK, history
<1>6. ASSUME NEW p \in Parts, NEW row \in PartRow, InsertPart(p, row)
      PROVE  TypeOK'
  <2>1. parts \in TableOf(Parts, PartRow)
    BY DEF TypeOK
  <2>2. parts' \in TableOf(Parts, PartRow)
    BY <1>6, <2>1, WithIs DEF InsertPart
  <2> QED BY <1>6, <2>2 DEF InsertPart, TypeOK, history
<1>7. ASSUME NEW t \in Tables, NEW m \in Msgs, DeleteInfo(t, m)
      PROVE  TypeOK'
  <2>1. rows' \in [Tables -> TableOf(Msgs, Row)] /\ strays' \subseteq Tables \X Msgs
    BY <1>7, DeleteInfoIs, DeleteRowsType
  <2> QED BY <1>7, <2>1 DEF DeleteInfo, TypeOK
<1>8. ASSUME NEW t \in Tables, NEW m \in Msgs, NEW s \in Sessions, NEW read \in BOOLEAN,
             InsertInfo(t, m, s, read)
      PROVE  TypeOK'
  <2> DEFINE row == [session |-> s, is_read |-> read, is_blocked |-> FALSE]
  <2>1. row \in Row /\ Put(t, m, row)
    BY <1>8 DEF InsertInfo, Row
  <2> HIDE DEF row
  <2>2. /\ rows' \in [Tables -> TableOf(Msgs, Row)]
        /\ unread_count' \in [Sessions -> 0..2 * Cardinality(Msgs)]
        /\ raced' \subseteq Sessions /\ strays' \subseteq Tables \X Msgs
    BY <2>1, PutType
  <2> QED BY <1>8, <2>2 DEF InsertInfo, TypeOK
<1>9. ASSUME NEW t \in Tables, NEW m \in Msgs, NEW read \in BOOLEAN, NEW blocked \in BOOLEAN,
             UpdateInfo(t, m, read, blocked)
      PROVE  TypeOK'
  <2> DEFINE row == [rows[t][m] EXCEPT !.is_read = read, !.is_blocked = blocked]
  <2>1. row \in Row /\ Put(t, m, row)
    BY <1>9, RowsAre DEF UpdateInfo, Row
  <2> HIDE DEF row
  <2>2. /\ rows' \in [Tables -> TableOf(Msgs, Row)]
        /\ unread_count' \in [Sessions -> 0..2 * Cardinality(Msgs)]
        /\ raced' \subseteq Sessions /\ strays' \subseteq Tables \X Msgs
    BY <2>1, PutType
  <2> QED BY <1>9, <2>2 DEF UpdateInfo, TypeOK
<1> QED BY <1>1, <1>2, <1>3, <1>4, <1>5, <1>6, <1>7, <1>8, <1>9 DEF Client

LEMMA DeletePartType ==
  ASSUME TypeOK, NEW step, NEW next \in DeleteSteps, NEW key, NEW ok \in BOOLEAN,
         DeletePart(step, next, key, ok)
  PROVE  /\ TypeOK' /\ Statement(step, next, ok)
         /\ DOMAIN parts' \subseteq DOMAIN parts
         /\ \A p \in DOMAIN parts' : parts'[p] = parts[p]
<1>1. parts \in TableOf(Parts, PartRow)
  BY DEF TypeOK
<1> DEFINE gone == {p \in DOMAIN parts : GetDeletePartWhereSql(p, key)}
<1>2. parts' = Without(parts, gone) \/ parts' = parts
  BY DEF DeletePart
<1> HIDE DEF gone
<1>3. /\ Without(parts, gone) \in TableOf(Parts, PartRow)
      /\ DOMAIN Without(parts, gone) \subseteq DOMAIN parts
      /\ \A p \in DOMAIN Without(parts, gone) : Without(parts, gone)[p] = parts[p]
  <2>1. DOMAIN parts \subseteq Parts /\ parts \in [DOMAIN parts -> PartRow]
    BY <1>1, TableIs
  <2>2. Without(parts, gone) \in [DOMAIN parts \ gone -> PartRow]
    BY <2>1 DEF Without, Restrict
  <2>3. Without(parts, gone) \in TableOf(Parts, PartRow)
    BY <2>1, <2>2 DEF TableOf
  <2> QED BY <2>2, <2>3 DEF Without, Restrict
<1>4. /\ parts' \in TableOf(Parts, PartRow) /\ DOMAIN parts' \subseteq DOMAIN parts
      /\ \A p \in DOMAIN parts' : parts'[p] = parts[p]
  <2>1. CASE parts' = parts
    BY <1>1, <2>1
  <2>2. CASE parts' = Without(parts, gone)
    BY <1>3, <2>2
  <2> QED BY <1>2, <2>1, <2>2
<1>5. /\ Statement(step, next, ok)
      /\ deleting' \in [step : DeleteSteps \union {"idle"}, ids : SUBSET created]
      /\ faults' \in 0..MaxFaults
  BY StatementType DEF DeletePart
<1>6. UNCHANGED <<sessions, timed, unread_count, rows, favorites, marking, history>>
  BY DEF DeletePart
<1> QED BY <1>4, <1>5, <1>6 DEF TypeOK, history

LEMMA UpdatePartType ==
  ASSUME TypeOK, NEW step, NEW next \in DeleteSteps, NEW key, NEW ok \in BOOLEAN,
         UpdatePart(step, next, key, ok)
  PROVE  /\ TypeOK' /\ Statement(step, next, ok)
         /\ DOMAIN parts' = DOMAIN parts
         /\ \A p \in DOMAIN parts : parts'[p].keys = parts[p].keys
<1>1. DOMAIN parts \subseteq Parts /\ \A p \in DOMAIN parts : parts[p] \in PartRow
  BY PartsAre
<1>2. \A p \in DOMAIN parts : parts[p].reference_count > 1 =>
        /\ [parts[p] EXCEPT !.reference_count = @ - 1] \in PartRow
        /\ [parts[p] EXCEPT !.reference_count = @ - 1].keys = parts[p].keys
  BY <1>1 DEF PartRow
<1>3. parts' = [p \in DOMAIN parts |->
                 IF ok /\ Tied(p, key) /\ parts[p].reference_count > 1
                 THEN [parts[p] EXCEPT !.reference_count = @ - 1] ELSE parts[p]]
  BY DEF UpdatePart
<1>4. DOMAIN parts' = DOMAIN parts /\ \A p \in DOMAIN parts :
        parts'[p] \in PartRow /\ parts'[p].keys = parts[p].keys
  <2>1. DOMAIN parts' = DOMAIN parts
    BY <1>3
  <2>2. ASSUME NEW p \in DOMAIN parts
        PROVE  parts'[p] \in PartRow /\ parts'[p].keys = parts[p].keys
    <3>1. CASE ok /\ Tied(p, key) /\ parts[p].reference_count > 1
      BY <1>2, <1>3, <3>1
    <3>2. CASE ~(ok /\ Tied(p, key) /\ parts[p].reference_count > 1)
      BY <1>1, <1>3, <3>2
    <3> QED BY <3>1, <3>2
  <2> QED BY <2>1, <2>2
<1>5. parts' \in TableOf(Parts, PartRow)
  <2>1. parts' \in [DOMAIN parts' -> PartRow]
    BY <1>3, <1>4
  <2> QED BY <1>1, <1>4, <2>1, TableIs
<1>6. /\ Statement(step, next, ok)
      /\ deleting' \in [step : DeleteSteps \union {"idle"}, ids : SUBSET created]
      /\ faults' \in 0..MaxFaults
  BY StatementType DEF UpdatePart
<1>7. UNCHANGED <<sessions, timed, unread_count, rows, favorites, marking, history>>
  BY DEF UpdatePart
<1> QED BY <1>4, <1>5, <1>6, <1>7 DEF TypeOK, history

LEMMA TypeDeleteSession ==
  ASSUME TypeOK, DeleteSession
  PROVE  TypeOK'
<1> PICK ok \in BOOLEAN :
      \/ StatisticsDeleteMmsPartWithSessionID(ok) \/ StatisticsUpdateMmsPartWithSessionID(ok)
      \/ StatisticsDeleteRcsPartWithSessionID(ok) \/ StatisticsUpdateRcsPartWithSessionID(ok)
      \/ StatisticsDeleteRCSInfoWithSessionID(ok) \/ StatisticsDeleteInfoWithSessionID(ok)
      \/ StatisticsDeleteSessionTableExe(ok)
  BY DEF DeleteSession
<1>0. DeleteSteps = {"mmsPart", "mmsRefs", "rcsPart", "rcsRefs", "rcsInfo", "info", "session"}
  BY DEF DeleteSteps
<1>1. CASE StatisticsDeleteMmsPartWithSessionID(ok)
  BY <1>0, <1>1, DeletePartType DEF StatisticsDeleteMmsPartWithSessionID
<1>2. CASE StatisticsUpdateMmsPartWithSessionID(ok)
  BY <1>0, <1>2, UpdatePartType DEF StatisticsUpdateMmsPartWithSessionID
<1>3. CASE StatisticsDeleteRcsPartWithSessionID(ok)
  BY <1>0, <1>3, DeletePartType DEF StatisticsDeleteRcsPartWithSessionID
<1>4. CASE StatisticsUpdateRcsPartWithSessionID(ok)
  BY <1>0, <1>4, UpdatePartType DEF StatisticsUpdateRcsPartWithSessionID
<1>5. CASE StatisticsDeleteRCSInfoWithSessionID(ok)
  <2>1. deleting' \in [step : DeleteSteps \union {"idle"}, ids : SUBSET created]
        /\ faults' \in 0..MaxFaults
    BY <1>0, <1>5, StatementType DEF StatisticsDeleteRCSInfoWithSessionID
  <2>2. rows' \in [Tables -> TableOf(Msgs, Row)] /\ strays' \subseteq Tables \X Msgs
    <3>1. CASE ok
      BY <1>5, <3>1, DeleteRowsType DEF StatisticsDeleteRCSInfoWithSessionID, Tables
    <3>2. CASE ~ok
      BY <1>5, <3>2 DEF StatisticsDeleteRCSInfoWithSessionID, TypeOK
    <3> QED BY <3>1, <3>2
  <2> QED BY <1>5, <2>1, <2>2 DEF StatisticsDeleteRCSInfoWithSessionID, TypeOK
<1>6. CASE StatisticsDeleteInfoWithSessionID(ok)
  <2>1. deleting' \in [step : DeleteSteps \union {"idle"}, ids : SUBSET created]
        /\ faults' \in 0..MaxFaults
    BY <1>0, <1>6, StatementType DEF StatisticsDeleteInfoWithSessionID
  <2>2. rows' \in [Tables -> TableOf(Msgs, Row)] /\ strays' \subseteq Tables \X Msgs
    <3>1. CASE ok
      BY <1>6, <3>1, DeleteRowsType DEF StatisticsDeleteInfoWithSessionID, Tables
    <3>2. CASE ~ok
      BY <1>6, <3>2 DEF StatisticsDeleteInfoWithSessionID, TypeOK
    <3> QED BY <3>1, <3>2
  <2> QED BY <1>6, <2>1, <2>2 DEF StatisticsDeleteInfoWithSessionID, TypeOK
<1>7. CASE StatisticsDeleteSessionTableExe(ok)
  <2>1. deleting' \in [step : DeleteSteps \union {"idle"}, ids : SUBSET created]
        /\ faults' \in 0..MaxFaults
    BY <1>7, StatementType DEF StatisticsDeleteSessionTableExe
  <2>2. /\ timed' \subseteq sessions' /\ sessions' \subseteq sessions
        /\ unread_count' \in [Sessions -> 0..2 * Cardinality(Msgs)]
        /\ raced' \subseteq Sessions
    <3>1. CASE ok
      <4>1. DeleteSessions(deleting.ids)
        BY <1>7, <3>1 DEF StatisticsDeleteSessionTableExe
      <4> QED BY <4>1, DeleteSessionsType
    <3>2. CASE ~ok
      BY <1>7, <3>2 DEF StatisticsDeleteSessionTableExe, TypeOK
    <3> QED BY <3>1, <3>2
  <2> QED BY <1>7, <2>1, <2>2 DEF StatisticsDeleteSessionTableExe, TypeOK
<1> QED BY <1>1, <1>2, <1>3, <1>4, <1>5, <1>6, <1>7

LEMMA MarkedTableType ==
  ASSUME TypeOK, NEW r \in Readers, NEW t \in Tables, NEW ok \in BOOLEAN,
         NEW step, NEW next \in MarkSteps, MarkStatement(r, step, next, ok), MarkedTable(r, t, ok)
  PROVE  TypeOK'
<1>1. rows' \in [Tables -> TableOf(Msgs, Row)]
  <2>1. CASE ok
    BY <2>1, SetReadIs DEF MarkedTable
  <2>2. CASE ~ok
    BY <2>2 DEF MarkedTable, TypeOK
  <2> QED BY <2>1, <2>2
<1>2. /\ marking' \in [Readers -> [step : MarkSteps \union {"idle"},
                              target : Sessions \union Msgs \union {"all", "info", "none"},
                              table : Tables \union {"none"}]]
      /\ faults' \in 0..MaxFaults
  BY MarkStatementType
<1> QED BY <1>1, <1>2 DEF MarkedTable, MarkStatement, TypeOK

LEMMA TypeMarkRead ==
  ASSUME TypeOK, TableKnown, NEW r \in Readers, MarkRead(r)
  PROVE  TypeOK'
<1>0. /\ MarkSteps = {"sms", "rcs", "session", "msg", "count"}
      /\ "sms_mms_info" \in Tables /\ "rcs_info" \in Tables
  BY DEF MarkSteps, Tables
<1> DEFINE M == [step : MarkSteps \union {"idle"},
                 target : Sessions \union Msgs \union {"all", "info", "none"},
                 table : Tables \union {"none"}]
<1>1. ASSUME NEW target \in Sessions \union {"all", "info"}, BatchProcessMarkRead(r, target)
      PROVE  TypeOK'
  <2>1. [step |-> "sms", target |-> target, table |-> "none"] \in M
    BY <1>0
  <2> HIDE DEF M
  <2>2. marking \in [Readers -> M]
    BY DEF TypeOK, M
  <2>3. marking' \in [Readers -> M]
    BY <1>1, <2>1, <2>2 DEF BatchProcessMarkRead
  <2> QED BY <1>1, <2>3 DEF BatchProcessMarkRead, TypeOK, M, tables, history
<1>2. ASSUME NEW t \in Tables, NEW m \in Msgs, UpdateSessionUnreadCount(r, t, m)
      PROVE  TypeOK'
  <2>1. [step |-> "msg", target |-> m, table |-> t] \in M
    BY <1>0
  <2> HIDE DEF M
  <2>2. marking \in [Readers -> M]
    BY DEF TypeOK, M
  <2>3. marking' \in [Readers -> M]
    BY <1>2, <2>1, <2>2 DEF UpdateSessionUnreadCount
  <2> QED BY <1>2, <2>3 DEF UpdateSessionUnreadCount, TypeOK, M, tables, history
<1>3. ASSUME NEW ok \in BOOLEAN, MarkedSmsASRead(r, ok)
      PROVE  TypeOK'
  BY <1>0, <1>3, MarkedTableType DEF MarkedSmsASRead
<1>4. ASSUME NEW ok \in BOOLEAN, MarkedRcsASRead(r, ok)
      PROVE  TypeOK'
  BY <1>0, <1>4, MarkedTableType DEF MarkedRcsASRead
<1>5. ASSUME NEW ok \in BOOLEAN, MarkedSessionASRead(r, ok)
      PROVE  TypeOK'
  <2>1. MarkStatement(r, "session", "idle", ok)
    BY <1>5 DEF MarkedSessionASRead
  <2>2. marking' \in [Readers -> M] /\ faults' \in 0..MaxFaults
    BY <2>1, MarkStatementType
  <2>3. unread_count' \in [Sessions -> 0..2 * Cardinality(Msgs)]
    <3> DEFINE range == 0..2 * Cardinality(Msgs)
    <3>1. 0 \in range
      BY SessionAssumption, FS_CardinalityType DEF SessionAssumption
    <3> HIDE DEF range
    <3>2. unread_count \in [Sessions -> range]
      BY DEF TypeOK, range
    <3>3. unread_count' \in [Sessions -> range]
      BY <1>5, <3>1, <3>2 DEF MarkedSessionASRead
    <3> QED BY <3>3 DEF range
  <2> QED BY <1>5, <2>1, <2>2, <2>3 DEF MarkedSessionASRead, MarkStatement, TypeOK
<1>6. ASSUME NEW ok \in BOOLEAN, MarKRead(r, ok)
      PROVE  TypeOK'
  <2>1. MarkStatement(r, "msg", "count", ok)
    BY <1>6 DEF MarKRead
  <2>4. marking[r].table \in Tables
    BY <2>1 DEF MarkStatement, TableKnown
  <2>2. marking' \in [Readers -> M] /\ faults' \in 0..MaxFaults
    BY <1>0, <2>1, MarkStatementType
  <2>3. rows' \in [Tables -> TableOf(Msgs, Row)]
    <3>1. CASE ok
      BY <1>6, <2>4, <3>1, SetReadIs DEF MarKRead
    <3>2. CASE ~ok
      BY <1>6, <3>2 DEF MarKRead, TypeOK
    <3> QED BY <3>1, <3>2
  <2> QED BY <1>6, <2>1, <2>2, <2>3 DEF MarKRead, MarkStatement, TypeOK
<1>7. ASSUME NEW ok \in BOOLEAN, UpdateUnreadCount(r, ok)
      PROVE  TypeOK'
  <2>1. MarkStatement(r, "count", "idle", ok)
    BY <1>7 DEF UpdateUnreadCount
  <2>2. marking' \in [Readers -> M] /\ faults' \in 0..MaxFaults
    BY <2>1, MarkStatementType
  <2>3. unread_count' \in [Sessions -> 0..2 * Cardinality(Msgs)]
    <3> DEFINE range == 0..2 * Cardinality(Msgs)
    <3>1. ASSUME NEW s \in Sessions PROVE Recount(rows, s) \in range
      BY UnreadBounded DEF Recount, TypeOK
    <3> HIDE DEF range
    <3>2. unread_count \in [Sessions -> range]
      BY DEF TypeOK, range
    <3>3. unread_count' \in [Sessions -> range]
      BY <1>7, <3>1, <3>2 DEF UpdateUnreadCount
    <3> QED BY <3>3 DEF range
  <2>4. raced' \subseteq Sessions
    <3>1. raced' \subseteq raced
      BY <1>7 DEF UpdateUnreadCount
    <3> QED BY <3>1 DEF TypeOK
  <2> QED BY <1>7, <2>1, <2>2, <2>3, <2>4 DEF UpdateUnreadCount, MarkStatement, TypeOK
<1> QED BY <1>1, <1>2, <1>3, <1>4, <1>5, <1>6, <1>7 DEF MarkRead

LEMMA TableKnownStep ==
  ASSUME TypeOK, TableKnown, NEW r \in Readers, MarkRead(r)
  PROVE  TableKnown'
<1> SUFFICES ASSUME NEW q \in Readers, marking'[q].step \in {"msg", "count"}
             PROVE  marking'[q].table \in Tables
  BY DEF TableKnown
<1>1. marking \in [Readers -> [step : MarkSteps \union {"idle"},
                              target : Sessions \union Msgs \union {"all", "info", "none"},
                              table : Tables \union {"none"}]]
  BY DEF TypeOK
<1>2. ASSUME NEW target \in Sessions \union {"all", "info"}, BatchProcessMarkRead(r, target)
      PROVE  marking'[q].table \in Tables
  BY <1>1, <1>2 DEF BatchProcessMarkRead, TableKnown
<1>3. ASSUME NEW t \in Tables, NEW m \in Msgs, UpdateSessionUnreadCount(r, t, m)
      PROVE  marking'[q].table \in Tables
  BY <1>1, <1>3 DEF UpdateSessionUnreadCount, TableKnown
<1>4. ASSUME NEW ok \in BOOLEAN, NEW step, NEW next \in {"rcs", "session", "idle"},
             MarkStatement(r, step, next, ok)
      PROVE  marking'[q].table \in Tables
  <2>1. CASE ok /\ next # "idle"
    BY <1>1, <1>4, <2>1 DEF MarkStatement, TableKnown
  <2>2. CASE ~(ok /\ next # "idle")
    BY <1>1, <1>4, <2>2 DEF MarkStatement, TableKnown
  <2> QED BY <2>1, <2>2
<1>5. ASSUME NEW ok \in BOOLEAN, MarkStatement(r, "msg", "count", ok)
      PROVE  marking'[q].table \in Tables
  <2>1. CASE ok
    BY <1>1, <1>5, <2>1 DEF MarkStatement, TableKnown
  <2>2. CASE ~ok
    BY <1>1, <1>5, <2>2 DEF MarkStatement, TableKnown
  <2> QED BY <2>1, <2>2
<1>6. ASSUME NEW ok \in BOOLEAN, MarkedSmsASRead(r, ok) \/ MarkedRcsASRead(r, ok)
                                   \/ MarkedSessionASRead(r, ok) \/ UpdateUnreadCount(r, ok)
      PROVE  marking'[q].table \in Tables
  BY <1>4, <1>6 DEF MarkedSmsASRead, MarkedRcsASRead, MarkedSessionASRead, UpdateUnreadCount
<1>7. ASSUME NEW ok \in BOOLEAN, MarKRead(r, ok)
      PROVE  marking'[q].table \in Tables
  BY <1>5, <1>7 DEF MarKRead
<1> QED BY <1>2, <1>3, <1>6, <1>7 DEF MarkRead

(* The requests other than a mark-read leave the markings alone.           *)
LEMMA OthersKeepMarking ==
  ASSUME Client \/ DeleteSession
  PROVE  marking' = marking
BY DEF Client, DeleteSession, InsertSession, UpdateSessionTime, StatisticsCleanInvalidSession,
       StatisticsDeleteSession, AddFavorite, InsertPart, DeleteInfo, InsertInfo, UpdateInfo,
       StatisticsDeleteMmsPartWithSessionID, StatisticsUpdateMmsPartWithSessionID,
       StatisticsDeleteRcsPartWithSessionID, StatisticsUpdateRcsPartWithSessionID,
       StatisticsDeleteRCSInfoWithSessionID, StatisticsDeleteInfoWithSessionID,
       StatisticsDeleteSessionTableExe, DeletePart, UpdatePart

LEMMA TypeStep ==
  ASSUME TypeOK, TableKnown, [Next]_vars
  PROVE  TypeOK' /\ TableKnown'
<1>1. CASE Client \/ DeleteSession
  BY <1>1, TypeClient, TypeDeleteSession, OthersKeepMarking DEF TableKnown
<1>2. ASSUME NEW r \in Readers, MarkRead(r)
      PROVE  TypeOK' /\ TableKnown'
  BY <1>2, TypeMarkRead, TableKnownStep
<1>3. CASE UNCHANGED vars
  BY <1>3 DEF TypeOK, TableKnown, vars, tables, history
<1> QED BY <1>1, <1>2, <1>3 DEF Next

-----------------------------------------------------------------------------
(* The counters.                                                           *)

(* A session that has no unread row, or lost some and kept its counter.    *)
LEMMA SessionKept ==
  ASSUME TypeOK, TypeOK', CountInv, NEW s \in sessions' \ raced',
         \/ \A t \in Tables : UnreadIn(rows', t, s) = {}
         \/ /\ s \in sessions \ raced /\ unread_count'[s] = unread_count[s]
            /\ \A t \in Tables : UnreadIn(rows', t, s) \subseteq UnreadIn(rows, t, s)
  PROVE  /\ Unread(rows', s) <= unread_count'[s]
         /\ marking' = marking => \A r \in Readers : Marked(r, s)'
<1>0. /\ rows \in [Tables -> TableOf(Msgs, Row)] /\ rows' \in [Tables -> TableOf(Msgs, Row)]
      /\ Tables = {"sms_mms_info", "rcs_info"}
  BY DEF TypeOK, Tables
<1>1. unread_count'[s] \in Nat
  <2> DEFINE range == 0..2 * Cardinality(Msgs)
  <2>1. range \subseteq Nat
    BY SessionAssumption, FS_CardinalityType DEF SessionAssumption
  <2> HIDE DEF range
  <2>2. s \in Sessions /\ unread_count' \in [Sessions -> range]
    BY DEF TypeOK, range
  <2> QED BY <2>1, <2>2
<1>2. CASE \A t \in Tables : UnreadIn(rows', t, s) = {}
  <2>1. Unread(rows', s) = 0
    BY <1>2, UnreadNone
  <2>2. \A r \in Readers : Marked(r, s)'
    BY <1>0, <1>2 DEF Marked
  <2> QED BY <1>1, <2>1, <2>2
<1>3. CASE /\ s \in sessions \ raced /\ unread_count'[s] = unread_count[s]
           /\ \A t \in Tables : UnreadIn(rows', t, s) \subseteq UnreadIn(rows, t, s)
  <2>1. Unread(rows', s) <= Unread(rows, s) /\ Unread(rows, s) <= unread_count[s]
    BY <1>0, <1>3, UnreadFewer DEF CountInv
  <2>2. Unread(rows', s) \in Nat /\ Unread(rows, s) \in Nat
    BY <1>0, UnreadBounded
  <2>3. ASSUME marking' = marking, NEW r \in Readers
        PROVE  Marked(r, s)'
    <3>1. Covers(marking[r].target, s)' => Covers(marking[r].target, s)
      BY <1>3, <2>3 DEF Covers
    <3>2. Marked(r, s)
      BY <1>3 DEF CountInv
    <3>3. /\ UnreadIn(rows', "sms_mms_info", s) \subseteq UnreadIn(rows, "sms_mms_info", s)
          /\ UnreadIn(rows', "rcs_info", s) \subseteq UnreadIn(rows, "rcs_info", s)
      BY <1>0, <1>3
    <3> QED BY <2>3, <3>1, <3>2, <3>3 DEF Marked
  <2> QED BY <1>1, <1>3, <2>1, <2>2, <2>3
<1> QED BY <1>2, <1>3

LEMMA CountKept ==
  ASSUME TypeOK, TypeOK', CountInv, marking' = marking,
         \A s \in sessions' \ raced' :
            \/ \A t \in Tables : UnreadIn(rows', t, s) = {}
            \/ /\ s \in sessions \ raced /\ unread_count'[s] = unread_count[s]
               /\ \A t \in Tables : UnreadIn(rows', t, s) \subseteq UnreadIn(rows, t, s)
  PROVE  CountInv'
BY SessionKept DEF CountInv

LEMMA CountSame ==
  ASSUME TypeOK, TypeOK', CountInv,
         marking' = marking, sessions' = sessions, raced' = raced, unread_count' = unread_count,
         rows' = rows
  PROVE  CountInv'
BY CountKept

LEMMA CountInsertSession ==
  ASSUME TypeOK, TypeOK', CountInv, RowsInv, NEW s \in Sessions, InsertSession(s)
  PROVE  CountInv'
<1>1. ASSUME NEW t \in Tables PROVE UnreadIn(rows', t, s) = {}
  BY DEF InsertSession, RowsInv, UnreadIn
<1>2. \A c \in sessions' \ raced' : c = s \/ c \in sessions \ raced
  BY DEF InsertSession
<1>3. marking' = marking /\ unread_count' = unread_count /\ rows' = rows
  BY DEF InsertSession
<1> QED BY <1>1, <1>2, <1>3, CountKept

LEMMA CountDeleteSessions ==
  ASSUME TypeOK, TypeOK', CountInv, NEW S, DeleteSessions(S), rows' = rows, marking' = marking
  PROVE  CountInv'
<1>1. ASSUME NEW s \in sessions' \ raced'
      PROVE  s \in sessions \ raced /\ unread_count'[s] = unread_count[s]
  BY DEF DeleteSessions, TypeOK
<1> QED BY <1>1, CountKept

LEMMA CountDeleteRows ==
  ASSUME TypeOK, TypeOK', CountInv, NEW t \in Tables, NEW ms, DeleteRows(t, ms),
         marking' = marking, sessions' = sessions, raced' = raced, unread_count' = unread_count
  PROVE  CountInv'
<1>1. ASSUME NEW s, NEW u \in Tables
      PROVE  UnreadIn(rows', u, s) \subseteq UnreadIn(rows, u, s)
  <2>1. CASE u = t
    <3>1. /\ DOMAIN rows'[t] = DOMAIN rows[t] \ ms
          /\ \A n \in DOMAIN rows[t] \ ms : rows'[t][n] = rows[t][n]
      BY DeleteRowsType
    <3> QED BY <2>1, <3>1 DEF UnreadIn
  <2>2. CASE u # t
    <3>1. rows'[u] = rows[u]
      BY <2>2, DeleteRowsType
    <3> QED BY <3>1 DEF UnreadIn
  <2> QED BY <2>1, <2>2
<1> QED BY <1>1, CountKept

(* The trigger counts the session of the row that was put, and no marking  *)
(* under way has passed it, or the session is raced.                       *)
LEMMA CountPut ==
  ASSUME TypeOK, TypeOK', CountInv, NEW t \in Tables, NEW m \in Msgs, NEW row \in Row,
         Put(t, m, row), marking' = marking, sessions' = sessions
  PROVE  CountInv'
<1> DEFINE c == row.session
<1>1. ASSUME NEW s, s # c \/ row.is_read, NEW u \in Tables
      PROVE  UnreadIn(rows', u, s) \subseteq UnreadIn(rows, u, s)
  <2>1. CASE u = t
    <3>1. /\ DOMAIN rows'[t] = DOMAIN rows[t] \union {m} /\ rows'[t][m] = row
          /\ \A n \in DOMAIN rows[t] \ {m} : rows'[t][n] = rows[t][n]
      BY PutIs
    <3> QED BY <1>1, <2>1, <3>1 DEF UnreadIn
  <2>2. CASE u # t
    <3>1. rows'[u] = rows[u]
      BY <2>2, PutIs
    <3> QED BY <3>1 DEF UnreadIn
  <2> QED BY <2>1, <2>2
<1>2. CASE row.is_read \/ c \notin sessions
  <2>1. unread_count' = unread_count /\ raced' = raced
    BY <1>2 DEF Put
  <2> QED BY <1>1, <1>2, <2>1, CountKept
<1>3. CASE ~row.is_read /\ c \in sessions
  <2>1. /\ unread_count' = [unread_count EXCEPT ![c] = Recount(rows', c)]
        /\ raced' = (raced \ Settled({c})) \union {s \in {c} : Races(t, s)}
    BY <1>3 DEF Put
  <2>2. unread_count'[c] = Unread(rows', c) /\ \A s \in Sessions \ {c} : unread_count'[s] = unread_count[s]
    BY <2>1 DEF TypeOK, Recount, Row
  <2>3. Unread(rows', c) \in Nat
    BY UnreadBounded DEF TypeOK
  <2>4. ASSUME NEW s \in sessions' \ raced'
        PROVE  (\A r \in Readers : Marked(r, s)') /\ Unread(rows', s) <= unread_count'[s]
    <3>1. CASE s # c
      <4>1. s \in sessions \ raced
        BY <2>1, <2>4, <3>1 DEF Settled
      <4>2. unread_count'[s] = unread_count[s]
        BY <2>2, <3>1, <4>1 DEF TypeOK
      <4>3. \A u \in Tables : UnreadIn(rows', u, s) \subseteq UnreadIn(rows, u, s)
        BY <1>1, <3>1
      <4> QED BY <2>4, <4>1, <4>2, <4>3, SessionKept
    <3>2. CASE s = c
      <4>1. ~Races(t, c) /\ (c \in raced => c \in Settled({c}))
        BY <2>1, <2>4, <3>2
      <4>2. c \in raced => \A u \in Tables : ~Races(u, c)
        BY <4>1 DEF Settled
      <4>3. ASSUME NEW r \in Readers
            PROVE  Marked(r, s)'
        <5>1. SUFFICES ASSUME Covers(marking[r].target, c)
                       PROVE  /\ marking[r].step \in {"rcs", "session"} => UnreadIn(rows', "sms_mms_info", c) = {}
                              /\ marking[r].step = "session" => UnreadIn(rows', "rcs_info", c) = {}
          BY <3>2 DEF Marked, Covers
        <5>2. CASE t = "sms_mms_info"
          <6>1. marking[r].step \notin {"rcs", "session"}
            BY <4>1, <5>1, <5>2 DEF Races
          <6> QED BY <6>1
        <5>3. CASE t = "rcs_info"
          <6>1. marking[r].step # "session"
            BY <4>1, <5>1, <5>3 DEF Races
          <6>2. ASSUME marking[r].step = "rcs"
                PROVE  UnreadIn(rows', "sms_mms_info", c) = {}
            <7>1. Races("sms_mms_info", c)
              BY <5>1, <6>2 DEF Races
            <7>2. c \in sessions \ raced
              BY <1>3, <4>2, <7>1 DEF Tables
            <7>3. Marked(r, c)
              BY <7>2 DEF CountInv
            <7>4. UnreadIn(rows, "sms_mms_info", c) = {}
              BY <5>1, <6>2, <7>3 DEF Marked
            <7>5. rows'["sms_mms_info"] = rows["sms_mms_info"]
              BY <5>3, PutIs DEF Tables
            <7> QED BY <7>4, <7>5 DEF UnreadIn
          <6> QED BY <6>1, <6>2
        <5> QED BY <5>2, <5>3 DEF Tables
      <4> QED BY <2>2, <2>3, <3>2, <4>3
    <3> QED BY <3>1, <3>2
  <2> QED BY <2>4 DEF CountInv
<1> QED BY <1>2, <1>3

(* SET is_read = 1 leaves fewer unread rows, and none of those it meant.   *)
LEMMA UnreadAfterSetRead ==
  ASSUME TypeOK, NEW t \in Tables, NEW ms, SetRead(t, ms), NEW s
  PROVE  /\ \A u \in Tables : UnreadIn(rows', u, s) \subseteq UnreadIn(rows, u, s)
         /\ UnreadIn(rows', t, s) \intersect ms = {}
         /\ \A u \in Tables \ {t} : UnreadIn(rows', u, s) = UnreadIn(rows, u, s)
<1>1. /\ \A u \in Tables : DOMAIN rows'[u] = DOMAIN rows[u] /\ (u # t => rows'[u] = rows[u])
      /\ \A m \in DOMAIN rows[t] :
           /\ rows'[t][m].session = rows[t][m].session
           /\ rows'[t][m].is_read = (m \in ms \/ rows[t][m].is_read)
  BY SetReadIs
<1>2. ASSUME NEW u \in Tables, u # t
      PROVE  UnreadIn(rows', u, s) = UnreadIn(rows, u, s)
  BY <1>1, <1>2 DEF UnreadIn
<1>3. ASSUME NEW m \in UnreadIn(rows', t, s)
      PROVE  m \in UnreadIn(rows, t, s) /\ m \notin ms
  <2>1. m \in DOMAIN rows'[t] /\ rows'[t][m].session = s /\ ~rows'[t][m].is_read
    BY DEF UnreadIn
  <2>2. m \in DOMAIN rows[t]
    BY <1>1, <2>1
  <2>3. rows[t][m].session = s
    BY <1>1, <2>1, <2>2
  <2>4. ~(m \in ms \/ rows[t][m].is_read)
    BY <1>1, <2>1, <2>2, Zenon
  <2> QED BY <2>2, <2>3, <2>4 DEF UnreadIn
<1> QED BY <1>2, <1>3

(* A marking's step that changes no counter and adds no unread row, and    *)
(* what it says of itself afterwards.                                      *)
LEMMA CountMarking ==
  ASSUME TypeOK, TypeOK', CountInv, NEW r \in Readers,
         sessions' = sessions, raced' = raced, unread_count' = unread_count,
         \A q \in Readers \ {r} : marking'[q] = marking[q],
         \A s \in sessions, t \in Tables : UnreadIn(rows', t, s) \subseteq UnreadIn(rows, t, s),
         \A s \in sessions \ raced : Marked(r, s)'
  PROVE  CountInv'
<1>1. ASSUME NEW s \in sessions' \ raced'
      PROVE  Unread(rows', s) <= unread_count'[s]
  BY <1>1, SessionKept
<1>2. ASSUME NEW s \in sessions' \ raced', NEW q \in Readers \ {r}
      PROVE  Marked(q, s)'
  <2>1. Marked(q, s)
    BY DEF CountInv
  <2>2. Covers(marking[q].target, s)' => Covers(marking[q].target, s)
    BY DEF Covers
  <2>3. /\ UnreadIn(rows', "sms_mms_info", s) \subseteq UnreadIn(rows, "sms_mms_info", s)
        /\ UnreadIn(rows', "rcs_info", s) \subseteq UnreadIn(rows, "rcs_info", s)
    BY DEF Tables
  <2> QED BY <2>1, <2>2, <2>3 DEF Marked
<1>3. ASSUME NEW s \in sessions' \ raced', NEW q \in Readers
      PROVE  Marked(q, s)'
  BY <1>2
<1> QED BY <1>1, <1>3 DEF CountInv

LEMMA MarkingAfter ==
  ASSUME TypeOK, NEW r \in Readers, NEW step, NEW next, NEW ok \in BOOLEAN,
         MarkStatement(r, step, next, ok)
  PROVE  /\ \A q \in Readers \ {r} : marking'[q] = marking[q]
         /\ marking[r].step = step
         /\ \/ marking'[r].step = "idle"
            \/ ok /\ next # "idle" /\ marking'[r].step = next /\ marking'[r].target = marking[r].target
         /\ sessions' = sessions
<1>1. marking \in [Readers -> [step : MarkSteps \union {"idle"},
                              target : Sessions \union Msgs \union {"all", "info", "none"},
                              table : Tables \union {"none"}]]
  BY DEF TypeOK
<1>2. CASE ok /\ next # "idle"
  BY <1>1, <1>2 DEF MarkStatement
<1>3. CASE ~(ok /\ next # "idle")
  BY <1>1, <1>3 DEF MarkStatement
<1> QED BY <1>2, <1>3

LEMMA CountMarkedTable ==
  ASSUME TypeOK, TypeOK', CountInv, NEW r \in Readers, NEW ok \in BOOLEAN,
         MarkedSmsASRead(r, ok) \/ MarkedRcsASRead(r, ok)
  PROVE  CountInv'
<1>1. ASSUME NEW t \in Tables, ok, MarkedTable(r, t, ok), NEW s
      PROVE  /\ \A u \in Tables : UnreadIn(rows', u, s) \subseteq UnreadIn(rows, u, s)
             /\ \A u \in Tables \ {t} : UnreadIn(rows', u, s) = UnreadIn(rows, u, s)
             /\ Covers(marking[r].target, s) => UnreadIn(rows', t, s) = {}
  <2> DEFINE ms == {m \in DOMAIN rows[t] : Covers(marking[r].target, rows[t][m].session)}
  <2>1. SetRead(t, ms)
    BY <1>1 DEF MarkedTable
  <2>2. Covers(marking[r].target, s) => UnreadIn(rows, t, s) \subseteq ms
    BY DEF UnreadIn
  <2> HIDE DEF ms
  <2>3. /\ \A u \in Tables : UnreadIn(rows', u, s) \subseteq UnreadIn(rows, u, s)
        /\ UnreadIn(rows', t, s) \intersect ms = {}
        /\ \A u \in Tables \ {t} : UnreadIn(rows', u, s) = UnreadIn(rows, u, s)
    BY <2>1, UnreadAfterSetRead
  <2>4. Covers(marking[r].target, s) => UnreadIn(rows', t, s) = {}
    BY <2>2, <2>3
  <2> QED BY <2>3, <2>4
<1>2. sessions' = sessions /\ raced' = raced /\ unread_count' = unread_count
  BY DEF MarkedSmsASRead, MarkedRcsASRead, MarkStatement, MarkedTable
<1>3. ~ok => rows' = rows
  BY DEF MarkedSmsASRead, MarkedRcsASRead, MarkedTable
<1>4. CASE MarkedSmsASRead(r, ok)
  <2>1. MarkStatement(r, "sms", "rcs", ok) /\ MarkedTable(r, "sms_mms_info", ok)
    BY <1>4 DEF MarkedSmsASRead
  <2>2. /\ \A q \in Readers \ {r} : marking'[q] = marking[q]
        /\ \/ marking'[r].step = "idle"
           \/ ok /\ marking'[r].step = "rcs" /\ marking'[r].target = marking[r].target
    BY <2>1, MarkingAfter
  <2>3. ASSUME NEW s \in sessions, NEW t \in Tables
        PROVE  UnreadIn(rows', t, s) \subseteq UnreadIn(rows, t, s)
    BY <1>1, <1>3, <2>1 DEF Tables
  <2>4. ASSUME NEW s \in sessions \ raced
        PROVE  Marked(r, s)'
    <3>1. CASE marking'[r].step = "idle"
      BY <3>1 DEF Marked
    <3>2. CASE ok /\ marking'[r].step = "rcs" /\ marking'[r].target = marking[r].target
      <4>1. Covers(marking[r].target, s)' => Covers(marking[r].target, s)
        BY <1>2, <3>2 DEF Covers
      <4>2. Covers(marking[r].target, s) => UnreadIn(rows', "sms_mms_info", s) = {}
        BY <1>1, <2>1, <3>2 DEF Tables
      <4> QED BY <3>2, <4>1, <4>2 DEF Marked
    <3> QED BY <2>2, <3>1, <3>2
  <2> QED BY <1>2, <2>2, <2>3, <2>4, CountMarking
<1>5. CASE MarkedRcsASRead(r, ok)
  <2>1. MarkStatement(r, "rcs", "session", ok) /\ MarkedTable(r, "rcs_info", ok)
    BY <1>5 DEF MarkedRcsASRead
  <2>2. /\ \A q \in Readers \ {r} : marking'[q] = marking[q]
        /\ marking[r].step = "rcs"
        /\ \/ marking'[r].step = "idle"
           \/ ok /\ marking'[r].step = "session" /\ marking'[r].target = marking[r].target
    BY <2>1, MarkingAfter
  <2>3. ASSUME NEW s \in sessions, NEW t \in Tables
        PROVE  UnreadIn(rows', t, s) \subseteq UnreadIn(rows, t, s)
    BY <1>1, <1>3, <2>1 DEF Tables
  <2>4. ASSUME NEW s \in sessions \ raced
        PROVE  Marked(r, s)'
    <3>1. CASE marking'[r].step = "idle"
      BY <3>1 DEF Marked
    <3>2. CASE ok /\ marking'[r].step = "session" /\ marking'[r].target = marking[r].target
      <4>1. Covers(marking[r].target, s)' => Covers(marking[r].target, s)
        BY <1>2, <3>2 DEF Covers
      <4>2. Covers(marking[r].target, s) => UnreadIn(rows', "rcs_info", s) = {}
        BY <1>1, <2>1, <3>2 DEF Tables
      <4>3. Covers(marking[r].target, s) => UnreadIn(rows, "sms_mms_info", s) = {}
        BY <2>2 DEF CountInv, Marked
      <4>4. UnreadIn(rows', "sms_mms_info", s) \subseteq UnreadIn(rows, "sms_mms_info", s)
        BY <2>3 DEF Tables
      <4> QED BY <3>2, <4>1, <4>2, <4>3, <4>4 DEF Marked
    <3> QED BY <2>2, <3>1, <3>2
  <2> QED BY <1>2, <2>2, <2>3, <2>4, CountMarking
<1> QED BY <1>4, <1>5

LEMMA CountMarkRead ==
  ASSUME TypeOK, TypeOK', TableKnown, CountInv, NEW r \in Readers, MarkRead(r)
  PROVE  CountInv'
<1>0. marking \in [Readers -> [step : MarkSteps \union {"idle"},
                              target : Sessions \union Msgs \union {"all", "info", "none"},
                              table : Tables \union {"none"}]]
  BY DEF TypeOK
<1>1. CASE \/ \E target \in Sessions \union {"all", "info"} : BatchProcessMarkRead(r, target)
           \/ \E t \in Tables, m \in Msgs : UpdateSessionUnreadCount(r, t, m)
  <2>1. /\ sessions' = sessions /\ raced' = raced /\ unread_count' = unread_count /\ rows' = rows
        /\ \A q \in Readers \ {r} : marking'[q] = marking[q]
        /\ marking'[r].step \in {"sms", "msg"}
    BY <1>0, <1>1 DEF BatchProcessMarkRead, UpdateSessionUnreadCount, tables, history
  <2>2. \A s \in sessions \ raced : Marked(r, s)'
    BY <2>1 DEF Marked
  <2> QED BY <2>1, <2>2, CountMarking
<1>2. ASSUME NEW ok \in BOOLEAN, MarkedSmsASRead(r, ok) \/ MarkedRcsASRead(r, ok)
      PROVE  CountInv'
  BY <1>2, CountMarkedTable
<1>3. ASSUME NEW ok \in BOOLEAN, MarKRead(r, ok)
      PROVE  CountInv'
  <2>1. MarkStatement(r, "msg", "count", ok)
    BY <1>3 DEF MarKRead
  <2>2. /\ \A q \in Readers \ {r} : marking'[q] = marking[q]
        /\ marking[r].step = "msg" /\ marking'[r].step \in {"idle", "count"}
        /\ sessions' = sessions
    BY <2>1, MarkingAfter
  <2>3. marking[r].table \in Tables
    BY <2>2 DEF TableKnown
  <2>4. ASSUME NEW s \in sessions, NEW t \in Tables
        PROVE  UnreadIn(rows', t, s) \subseteq UnreadIn(rows, t, s)
    <3>1. CASE ok
      <4>1. SetRead(marking[r].table, {marking[r].target})
        BY <1>3, <3>1 DEF MarKRead
      <4> QED BY <2>3, <4>1, UnreadAfterSetRead
    <3>2. CASE ~ok
      BY <1>3, <3>2 DEF MarKRead
    <3> QED BY <3>1, <3>2
  <2>5. \A s \in sessions \ raced : Marked(r, s)'
    BY <2>2 DEF Marked
  <2> QED BY <1>3, <2>2, <2>4, <2>5, CountMarking DEF MarKRead
<1>4. ASSUME NEW ok \in BOOLEAN, MarkedSessionASRead(r, ok)
      PROVE  CountInv'
  <2>1. MarkStatement(r, "session", "idle", ok)
    BY <1>4 DEF MarkedSessionASRead
  <2>2. /\ \A q \in Readers \ {r} : marking'[q] = marking[q]
        /\ marking[r].step = "session" /\ marking'[r].step = "idle"
        /\ sessions' = sessions
    BY <2>1, MarkingAfter
  <2>3. /\ rows' = rows /\ raced' = raced
        /\ unread_count' = [s \in Sessions |->
             IF ok /\ s \in sessions /\ Covers(marking[r].target, s) THEN 0 ELSE unread_count[s]]
    BY <1>4 DEF MarkedSessionASRead
  <2>4. ASSUME NEW s \in sessions' \ raced'
        PROVE  Unread(rows', s) <= unread_count'[s]
    <3>1. s \in Sessions /\ s \in sessions \ raced
      BY <2>2, <2>3 DEF TypeOK
    <3>2. CASE ok /\ Covers(marking[r].target, s)
      <4>1. Marked(r, s)
        BY <3>1 DEF CountInv
      <4>2. \A t \in Tables : UnreadIn(rows', t, s) = {}
        BY <2>2, <2>3, <3>2, <4>1 DEF Marked, Tables
      <4> QED BY <2>4, <4>2, SessionKept
    <3>3. CASE ~(ok /\ Covers(marking[r].target, s))
      <4>1. unread_count'[s] = unread_count[s]
        BY <2>3, <3>1, <3>3
      <4> QED BY <2>3, <3>1, <4>1 DEF CountInv
    <3> QED BY <3>2, <3>3
  <2>5. ASSUME NEW s \in sessions' \ raced', NEW q \in Readers
        PROVE  Marked(q, s)'
    <3>1. CASE q = r
      BY <2>2, <3>1 DEF Marked
    <3>2. CASE q # r
      <4>1. Marked(q, s) /\ marking'[q] = marking[q]
        BY <2>2, <2>3, <3>2 DEF CountInv
      <4>2. Covers(marking[q].target, s)' => Covers(marking[q].target, s)
        BY <2>2, <4>1 DEF Covers
      <4> QED BY <2>3, <4>1, <4>2 DEF Marked
    <3> QED BY <3>1, <3>2
  <2> QED BY <2>4, <2>5 DEF CountInv
<1>5. ASSUME NEW ok \in BOOLEAN, UpdateUnreadCount(r, ok)
      PROVE  CountInv'
  <2> DEFINE counted == {s \in sessions : /\ ok /\ marking[r].target \in DOMAIN rows[marking[r].table]
                                          /\ rows[marking[r].table][marking[r].target].session = s}
  <2>1. MarkStatement(r, "count", "idle", ok)
    BY <1>5 DEF UpdateUnreadCount
  <2>2. /\ \A q \in Readers \ {r} : marking'[q] = marking[q]
        /\ marking[r].step = "count" /\ marking'[r].step = "idle"
        /\ sessions' = sessions
    BY <2>1, MarkingAfter
  <2>3. /\ rows' = rows /\ raced' = raced \ Settled(counted)
        /\ unread_count' = [s \in Sessions |->
                              IF s \in counted THEN Recount(rows, s) ELSE unread_count[s]]
    BY <1>5 DEF UpdateUnreadCount
  <2>4. counted \subseteq sessions /\ sessions \subseteq Sessions
    BY DEF TypeOK
  <2> HIDE DEF counted
  <2>5. ASSUME NEW s \in sessions' \ raced'
        PROVE  Unread(rows', s) <= unread_count'[s]
    <3>1. CASE s \in counted
      <4>1. unread_count'[s] = Unread(rows', s)
        BY <2>3, <2>4, <3>1 DEF Recount
      <4>2. Unread(rows', s) \in Nat
        BY UnreadBounded DEF TypeOK
      <4> QED BY <4>1, <4>2
    <3>2. CASE s \notin counted
      <4>1. unread_count'[s] = unread_count[s] /\ s \in sessions \ raced
        BY <2>2, <2>3, <2>4, <3>2 DEF Settled
      <4> QED BY <2>3, <4>1 DEF CountInv
    <3> QED BY <3>1, <3>2
  <2>6. ASSUME NEW s \in sessions' \ raced', NEW q \in Readers
        PROVE  Marked(q, s)'
    <3>1. CASE q = r
      BY <2>2, <3>1 DEF Marked
    <3>2. CASE q # r /\ s \notin raced
      <4>1. Marked(q, s) /\ marking'[q] = marking[q]
        BY <2>2, <3>2 DEF CountInv
      <4>2. Covers(marking[q].target, s)' => Covers(marking[q].target, s)
        BY <2>2, <4>1 DEF Covers
      <4> QED BY <2>3, <4>1, <4>2 DEF Marked
    <3>3. CASE q # r /\ s \in raced
      <4>1. s \in Settled(counted)
        BY <2>3, <3>3
      <4>2. ~Races("sms_mms_info", s)
        BY <4>1 DEF Settled, Tables
      <4>3. Covers(marking[q].target, s) => marking[q].step \notin {"rcs", "session"}
        BY <4>2 DEF Races
      <4>4. Covers(marking[q].target, s)' => Covers(marking[q].target, s)
        BY <2>2, <3>3 DEF Covers
      <4> QED BY <2>2, <3>3, <4>3, <4>4 DEF Marked
    <3> QED BY <3>1, <3>2, <3>3
  <2> QED BY <2>5, <2>6 DEF CountInv
<1> QED BY <1>1, <1>2, <1>3, <1>4, <1>5 DEF MarkRead

LEMMA CountClient ==
  ASSUME TypeOK, TypeOK', RowsInv, CountInv, Client
  PROVE  CountInv'
<1>0. marking' = marking
  BY OthersKeepMarking
<1>1. ASSUME NEW s \in Sessions, InsertSession(s)
      PROVE  CountInv'
  BY <1>1, CountInsertSession
<1>2. CASE \/ \E s \in Sessions : UpdateSessionTime(s)
           \/ \E ids \in SUBSET created : StatisticsDeleteSession(ids)
           \/ \E m \in Msgs : AddFavorite(m)
           \/ \E p \in Parts, row \in PartRow : InsertPart(p, row)
  <2>1. sessions' = sessions /\ raced' = raced /\ unread_count' = unread_count /\ rows' = rows
    BY <1>2 DEF UpdateSessionTime, StatisticsDeleteSession, AddFavorite, InsertPart, tables, history
  <2> QED BY <1>0, <2>1, CountSame
<1>3. CASE StatisticsCleanInvalidSession
  <2>1. DeleteSessions(InvalidSessions) /\ rows' = rows
    BY <1>3 DEF StatisticsCleanInvalidSession
  <2> QED BY <1>0, <2>1, CountDeleteSessions
<1>4. ASSUME NEW t \in Tables, NEW m \in Msgs, DeleteInfo(t, m)
      PROVE  CountInv'
  <2>1. DeleteRows(t, {m})
    BY <1>4, DeleteInfoIs
  <2>2. sessions' = sessions /\ raced' = raced /\ unread_count' = unread_count
    BY <1>4 DEF DeleteInfo
  <2> QED BY <1>0, <2>1, <2>2, CountDeleteRows
<1>5. ASSUME NEW t \in Tables, NEW m \in Msgs, NEW s \in Sessions, NEW read \in BOOLEAN,
             InsertInfo(t, m, s, read)
      PROVE  CountInv'
  <2> DEFINE row == [session |-> s, is_read |-> read, is_blocked |-> FALSE]
  <2>1. row \in Row /\ Put(t, m, row) /\ sessions' = sessions
    BY <1>5 DEF InsertInfo, Row
  <2> HIDE DEF row
  <2> QED BY <1>0, <2>1, CountPut
<1>6. ASSUME NEW t \in Tables, NEW m \in Msgs, NEW read \in BOOLEAN, NEW blocked \in BOOLEAN,
             UpdateInfo(t, m, read, blocked)
      PROVE  CountInv'
  <2> DEFINE row == [rows[t][m] EXCEPT !.is_read = read, !.is_blocked = blocked]
  <2>1. row \in Row /\ Put(t, m, row) /\ sessions' = sessions
    BY <1>6, RowsAre DEF UpdateInfo, Row
  <2> HIDE DEF row
  <2> QED BY <1>0, <2>1, CountPut
<1> QED BY <1>1, <1>2, <1>3, <1>4, <1>5, <1>6 DEF Client

LEMMA CountDeleteSession ==
  ASSUME TypeOK, TypeOK', CountInv, DeleteSession
  PROVE  CountInv'
<1> PICK ok \in BOOLEAN :
      \/ StatisticsDeleteMmsPartWithSessionID(ok) \/ StatisticsUpdateMmsPartWithSessionID(ok)
      \/ StatisticsDeleteRcsPartWithSessionID(ok) \/ StatisticsUpdateRcsPartWithSessionID(ok)
      \/ StatisticsDeleteRCSInfoWithSessionID(ok) \/ StatisticsDeleteInfoWithSessionID(ok)
      \/ StatisticsDeleteSessionTableExe(ok)
  BY DEF DeleteSession
<1>0. marking' = marking
  BY OthersKeepMarking
<1>1. CASE \/ StatisticsDeleteMmsPartWithSessionID(ok) \/ StatisticsUpdateMmsPartWithSessionID(ok)
           \/ StatisticsDeleteRcsPartWithSessionID(ok) \/ StatisticsUpdateRcsPartWithSessionID(ok)
  <2>1. sessions' = sessions /\ raced' = raced /\ unread_count' = unread_count /\ rows' = rows
    BY <1>1 DEF StatisticsDeleteMmsPartWithSessionID, StatisticsUpdateMmsPartWithSessionID,
                StatisticsDeleteRcsPartWithSessionID, StatisticsUpdateRcsPartWithSessionID,
                DeletePart, UpdatePart, history
  <2> QED BY <1>0, <2>1, CountSame
<1>2. CASE StatisticsDeleteRCSInfoWithSessionID(ok) \/ StatisticsDeleteInfoWithSessionID(ok)
  <2>1. /\ sessions' = sessions /\ raced' = raced /\ unread_count' = unread_count
        /\ \/ rows' = rows
           \/ \E t \in Tables, ms \in SUBSET Msgs : DeleteRows(t, ms)
    <3>1. DOMAIN rows["sms_mms_info"] \subseteq Msgs /\ DOMAIN rows["rcs_info"] \subseteq Msgs
          /\ "sms_mms_info" \in Tables /\ "rcs_info" \in Tables
      BY RowsAre DEF Tables
    <3>2. CASE StatisticsDeleteRCSInfoWithSessionID(ok)
      <4> DEFINE ms == {m \in DOMAIN rows["rcs_info"] : /\ ~rows["rcs_info"][m].is_blocked
                                                        /\ m \in DOMAIN Infos
                                                        /\ Infos[m].session \in deleting.ids}
      <4>1. ms \in SUBSET Msgs /\ (rows' = rows \/ DeleteRows("rcs_info", ms))
        BY <3>1, <3>2 DEF StatisticsDeleteRCSInfoWithSessionID
      <4> HIDE DEF ms
      <4> QED BY <3>1, <3>2, <4>1 DEF StatisticsDeleteRCSInfoWithSessionID
    <3>3. CASE StatisticsDeleteInfoWithSessionID(ok)
      <4> DEFINE ms == {m \in DOMAIN Infos : Infos[m].session \in deleting.ids /\ ~Infos[m].is_blocked}
      <4>1. ms \in SUBSET Msgs
        BY <3>1 DEF Infos
      <4>2. rows' = rows \/ DeleteRows("sms_mms_info", ms)
        BY <3>3 DEF StatisticsDeleteInfoWithSessionID
      <4> HIDE DEF ms
      <4> QED BY <3>1, <3>3, <4>1, <4>2 DEF StatisticsDeleteInfoWithSessionID
    <3> QED BY <1>2, <3>2, <3>3
  <2>2. CASE rows' = rows
    BY <1>0, <2>1, <2>2, CountSame
  <2>3. CASE \E t \in Tables, ms \in SUBSET Msgs : DeleteRows(t, ms)
    BY <1>0, <2>1, <2>3, CountDeleteRows
  <2> QED BY <2>1, <2>2, <2>3
<1>3. CASE StatisticsDeleteSessionTableExe(ok)
  <2>1. CASE ok
    <3>1. DeleteSessions(deleting.ids) /\ rows' = rows
      BY <1>3, <2>1 DEF StatisticsDeleteSessionTableExe
    <3> QED BY <1>0, <3>1, CountDeleteSessions
  <2>2. CASE ~ok
    <3>1. sessions' = sessions /\ raced' = raced /\ unread_count' = unread_count /\ rows' = rows
      BY <1>3, <2>2 DEF StatisticsDeleteSessionTableExe
    <3> QED BY <1>0, <3>1, CountSame
  <2> QED BY <2>1, <2>2
<1> QED BY <1>1, <1>2, <1>3

LEMMA CountStep ==
  ASSUME TypeOK, TypeOK', TableKnown, RowsInv, CountInv, [Next]_vars
  PROVE  CountInv'
<1>1. ASSUME NEW r \in Readers, MarkRead(r)
      PROVE  CountInv'
  BY <1>1, CountMarkRead
<1>2. CASE UNCHANGED vars
  BY <1>2, CountSame DEF vars, tables, history
<1> QED BY <1>1, <1>2, CountClient, CountDeleteSession DEF Next

-----------------------------------------------------------------------------
(* Orphans.                                                                *)
LEMMA OrphansKept ==
  ASSUME TypeOK, OrphanInv, RowsKept, created \subseteq created',
         sessions \union dropped \subseteq sessions' \union dropped'
  PROVE  RowsInv' /\ NoOrphanMessage' /\ NoOrphanRcs'
<1>0. Tables = {"sms_mms_info", "rcs_info"}
  BY DEF Tables
<1>1. RowsInv'
  BY <1>0 DEF OrphanInv, RowsInv, RowsKept, Infos
<1>2. NoOrphanMessage'
  BY <1>0 DEF OrphanInv, NoOrphanMessage, RowsKept
<1>3. NoOrphanRcs'
  <2> SUFFICES ASSUME NEW m \in DOMAIN rows'["rcs_info"], m \in DOMAIN rows'["sms_mms_info"],
                      ~rows'["rcs_info"][m].is_blocked,
                      rows'["rcs_info"][m].session \notin sessions' \union dropped'
               PROVE  \E t \in Tables : <<t, m>> \in strays'
    BY DEF NoOrphanRcs
  <2>1. /\ m \in DOMAIN rows["rcs_info"] /\ m \in DOMAIN rows["sms_mms_info"]
        /\ ~rows["rcs_info"][m].is_blocked
        /\ rows["rcs_info"][m].session \notin sessions \union dropped
    BY <1>0 DEF RowsKept
  <2>2. PICK t \in Tables : <<t, m>> \in strays
    BY <2>1 DEF OrphanInv, NoOrphanRcs
  <2>3. m \in DOMAIN rows'[t]
    BY <1>0
  <2> QED BY <2>2, <2>3 DEF RowsKept
<1> QED BY <1>1, <1>2, <1>3

LEMMA DeletedKept ==
  ASSUME OrphanInv, RowsKept,
         deleting' = deleting \/ deleting'.step \notin {"info", "session"}
  PROVE  DeletedSoFar'
<1>0. Tables = {"sms_mms_info", "rcs_info"}
  BY DEF Tables
<1> QED BY <1>0 DEF OrphanInv, DeletedSoFar, RowsKept, Infos

LEMMA OrphanSame ==
  ASSUME TypeOK, OrphanInv, rows' = rows, strays' = strays, created \subseteq created',
         sessions \union dropped \subseteq sessions' \union dropped',
         deleting' = deleting \/ deleting'.step \notin {"info", "session"}
  PROVE  OrphanInv'
<1>1. RowsKept
  BY DEF RowsKept
<1> QED BY <1>1, OrphansKept, DeletedKept DEF OrphanInv

LEMMA DeleteRowsKeep ==
  ASSUME TypeOK, NEW t \in Tables, NEW ms, DeleteRows(t, ms)
  PROVE  RowsKept
<1>1. /\ \A u \in Tables : u # t => rows'[u] = rows[u]
      /\ DOMAIN rows'[t] = DOMAIN rows[t] \ ms
      /\ \A n \in DOMAIN rows[t] \ ms : rows'[t][n] = rows[t][n]
  BY DeleteRowsType
<1>2. strays' = strays \ ({t} \X ms)
  BY DEF DeleteRows
<1>3. ASSUME NEW u \in Tables, NEW m \in DOMAIN rows'[u]
      PROVE  /\ m \in DOMAIN rows[u] /\ rows'[u][m] = rows[u][m]
             /\ <<u, m>> \in strays => <<u, m>> \in strays'
  <2>1. CASE u = t
    BY <1>1, <1>2, <2>1
  <2>2. CASE u # t
    BY <1>1, <1>2, <2>2
  <2> QED BY <2>1, <2>2
<1> QED BY <1>3 DEF RowsKept

LEMMA SetReadKeeps ==
  ASSUME TypeOK, NEW t \in Tables, NEW ms, SetRead(t, ms), strays' = strays
  PROVE  RowsKept
<1>1. /\ \A u \in Tables : DOMAIN rows'[u] = DOMAIN rows[u] /\ (u # t => rows'[u] = rows[u])
      /\ \A m \in DOMAIN rows[t] :
              /\ rows'[t][m].session = rows[t][m].session
              /\ rows'[t][m].is_blocked = rows[t][m].is_blocked
  BY SetReadIs
<1> QED BY <1>1 DEF RowsKept

(* A row that is put names the session of its other row, and is a stray if *)
(* it has none.                                                            *)
LEMMA OrphanPut ==
  ASSUME TypeOK, OrphanInv, NEW t \in Tables, NEW m \in Msgs, NEW row \in Row,
         Put(t, m, row), Free, row.session \in created, row.is_blocked => m \in DOMAIN rows[t],
         \A u \in Tables : m \in DOMAIN rows[u] => rows[u][m].session = row.session,
         sessions' = sessions, created' = created, dropped' = dropped, deleting' = deleting
  PROVE  OrphanInv'
<1>0. Tables = {"sms_mms_info", "rcs_info"}
  BY DEF Tables
<1>1. /\ \A u \in Tables : u # t => rows'[u] = rows[u]
      /\ DOMAIN rows'[t] = DOMAIN rows[t] \union {m}
      /\ rows'[t][m] = row
      /\ \A n \in DOMAIN rows[t] \ {m} : rows'[t][n] = rows[t][n]
  BY PutIs
<1>2. /\ strays \subseteq strays'
      /\ row.is_blocked \/ row.session \in sessions \/ <<t, m>> \in strays'
  <2>1. strays' = IF row.is_blocked \/ row.session \in sessions THEN strays
                                                               ELSE strays \union {<<t, m>>}
    BY DEF Put
  <2>2. CASE row.is_blocked \/ row.session \in sessions
    BY <2>1, <2>2
  <2>3. CASE ~(row.is_blocked \/ row.session \in sessions)
    BY <2>1, <2>3
  <2> QED BY <2>2, <2>3
<1>3. ASSUME NEW u \in Tables, NEW n \in DOMAIN rows'[u], n # m \/ u # t
      PROVE  n \in DOMAIN rows[u] /\ rows'[u][n] = rows[u][n]
  <2>1. CASE u = t
    BY <1>1, <1>3, <2>1
  <2>2. CASE u # t
    BY <1>1, <2>2
  <2> QED BY <2>1, <2>2
<1>4. ASSUME NEW u \in Tables, NEW n \in DOMAIN rows'[u]
      PROVE  /\ rows'[u][n].session \in created
             /\ n = m => rows'[u][n].session = row.session
  <2>1. CASE n = m /\ u = t
    BY <1>1, <2>1
  <2>2. CASE n # m \/ u # t
    BY <1>3, <2>2 DEF OrphanInv, RowsInv
  <2> QED BY <2>1, <2>2
<1>5. RowsInv'
  <2>1. ASSUME NEW n \in DOMAIN rows'["rcs_info"], n \in DOMAIN rows'["sms_mms_info"]
        PROVE  rows'["rcs_info"][n].session = rows'["sms_mms_info"][n].session
    <3>1. CASE n = m
      BY <1>0, <1>4, <2>1, <3>1
    <3>2. CASE n # m
      BY <1>0, <1>3, <2>1, <3>2 DEF OrphanInv, RowsInv, Infos
    <3> QED BY <3>1, <3>2
  <2> QED BY <1>4, <2>1 DEF RowsInv, Infos
<1>6. DeletedSoFar'
  BY DEF Free, DeletedSoFar
<1>7. NoOrphanMessage'
  <2>1. ASSUME NEW n \in DOMAIN rows'["sms_mms_info"]
        PROVE  \/ rows'["sms_mms_info"][n].is_blocked
               \/ rows'["sms_mms_info"][n].session \in sessions' \union dropped'
               \/ <<"sms_mms_info", n>> \in strays'
    <3>1. CASE n = m /\ t = "sms_mms_info"
      BY <1>1, <1>2, <3>1
    <3>2. CASE n # m \/ t # "sms_mms_info"
      <4>1. n \in DOMAIN rows["sms_mms_info"] /\ rows'["sms_mms_info"][n] = rows["sms_mms_info"][n]
        BY <1>0, <1>3, <3>2
      <4> QED BY <1>2, <4>1 DEF OrphanInv, NoOrphanMessage
    <3> QED BY <3>1, <3>2
  <2> QED BY <2>1 DEF NoOrphanMessage
<1>8. NoOrphanRcs'
  <2> SUFFICES ASSUME NEW n \in DOMAIN rows'["rcs_info"], n \in DOMAIN rows'["sms_mms_info"],
                      ~rows'["rcs_info"][n].is_blocked,
                      rows'["rcs_info"][n].session \notin sessions' \union dropped'
               PROVE  \E u \in Tables : <<u, n>> \in strays'
    BY DEF NoOrphanRcs
  <2>1. CASE n = m /\ t = "rcs_info"
    BY <1>1, <1>2, <2>1
  <2>2. CASE n = m /\ t = "sms_mms_info"
    <3>1. /\ n \in DOMAIN rows["rcs_info"] /\ rows'["rcs_info"][n] = rows["rcs_info"][n]
          /\ row.session \notin sessions
      BY <1>0, <1>3, <1>4, <2>2
    <3>2. CASE ~row.is_blocked
      BY <1>2, <2>2, <3>1, <3>2
    <3>3. CASE n \in DOMAIN rows["sms_mms_info"]
      <4>1. PICK u \in Tables : <<u, n>> \in strays
        BY <3>1, <3>3 DEF OrphanInv, NoOrphanRcs
      <4> QED BY <1>2, <4>1
    <3> QED BY <2>2, <3>2, <3>3
  <2>3. CASE n # m
    <3>1. /\ n \in DOMAIN rows["rcs_info"] /\ rows'["rcs_info"][n] = rows["rcs_info"][n]
          /\ n \in DOMAIN rows["sms_mms_info"]
      BY <1>0, <1>3, <2>3
    <3>2. PICK u \in Tables : <<u, n>> \in strays
      BY <3>1 DEF OrphanInv, NoOrphanRcs
    <3> QED BY <1>2, <3>2
  <2> QED BY <1>0, <2>1, <2>2, <2>3
<1> QED BY <1>5, <1>6, <1>7, <1>8 DEF OrphanInv

LEMMA OrphanClient ==
  ASSUME TypeOK, OrphanInv, Client
  PROVE  OrphanInv'
<1>1. CASE \/ \E s \in Sessions : InsertSession(s) \/ UpdateSessionTime(s)
           \/ \E ids \in SUBSET created : StatisticsDeleteSession(ids)
           \/ \E m \in Msgs : AddFavorite(m)
           \/ \E p \in Parts, row \in PartRow : InsertPart(p, row)
  <2>1. /\ rows' = rows /\ strays' = strays /\ created \subseteq created'
        /\ sessions \subseteq sessions' /\ dropped' = dropped
        /\ deleting' = deleting \/ deleting'.step = "mmsPart"
    BY <1>1 DEF InsertSession, UpdateSessionTime, StatisticsDeleteSession, AddFavorite,
                InsertPart, tables, history
  <2> QED BY <2>1, OrphanSame
<1>2. CASE StatisticsCleanInvalidSession
  <2>1. /\ rows' = rows /\ strays' = strays /\ created' = created /\ deleting' = deleting
        /\ sessions \union dropped \subseteq sessions' \union dropped'
    BY <1>2 DEF StatisticsCleanInvalidSession, DeleteSessions
  <2> QED BY <2>1, OrphanSame
<1>3. ASSUME NEW t \in Tables, NEW m \in Msgs, DeleteInfo(t, m)
      PROVE  OrphanInv'
  <2>1. RowsKept
    BY <1>3, DeleteInfoIs, DeleteRowsKeep
  <2>2. sessions' = sessions /\ dropped' = dropped /\ created' = created /\ deleting' = deleting
    BY <1>3 DEF DeleteInfo
  <2> QED BY <2>1, <2>2, OrphansKept, DeletedKept DEF OrphanInv
<1>4. ASSUME NEW t \in Tables, NEW m \in Msgs, NEW s \in Sessions, NEW read \in BOOLEAN,
             InsertInfo(t, m, s, read)
      PROVE  OrphanInv'
  <2> DEFINE row == [session |-> s, is_read |-> read, is_blocked |-> FALSE]
  <2>1. row \in Row /\ Put(t, m, row) /\ row.session = s /\ ~row.is_blocked
    BY <1>4 DEF InsertInfo, Row
  <2> HIDE DEF row
  <2>2. /\ Free /\ s \in created /\ \A u \in Tables : m \in DOMAIN rows[u] => rows[u][m].session = s
        /\ sessions' = sessions /\ created' = created /\ dropped' = dropped /\ deleting' = deleting
    BY <1>4 DEF InsertInfo
  <2> QED BY <2>1, <2>2, OrphanPut
<1>5. ASSUME NEW t \in Tables, NEW m \in Msgs, NEW read \in BOOLEAN, NEW blocked \in BOOLEAN,
             UpdateInfo(t, m, read, blocked)
      PROVE  OrphanInv'
  <2> DEFINE row == [rows[t][m] EXCEPT !.is_read = read, !.is_blocked = blocked]
  <2>0. m \in DOMAIN rows[t] /\ rows[t][m] \in Row
    BY <1>5, RowsAre DEF UpdateInfo
  <2>1. row \in Row /\ Put(t, m, row) /\ row.session = rows[t][m].session
    BY <1>5, <2>0 DEF UpdateInfo, Row
  <2> HIDE DEF row
  <2>2. /\ Free /\ sessions' = sessions /\ created' = created /\ dropped' = dropped
        /\ deleting' = deleting
    BY <1>5 DEF UpdateInfo
  <2>3. row.session \in created
    BY <2>0, <2>1 DEF OrphanInv, RowsInv
  <2>4. ASSUME NEW u \in Tables, m \in DOMAIN rows[u]
        PROVE  rows[u][m].session = row.session
    BY <2>0, <2>1, <2>4 DEF OrphanInv, RowsInv, Infos, Tables
  <2> QED BY <2>0, <2>1, <2>2, <2>3, <2>4, OrphanPut
<1> QED BY <1>1, <1>2, <1>3, <1>4, <1>5 DEF Client

LEMMA OrphanDeleteSession ==
  ASSUME TypeOK, OrphanInv, DeleteSession
  PROVE  OrphanInv'
<1> PICK ok \in BOOLEAN :
      \/ StatisticsDeleteMmsPartWithSessionID(ok) \/ StatisticsUpdateMmsPartWithSessionID(ok)
      \/ StatisticsDeleteRcsPartWithSessionID(ok) \/ StatisticsUpdateRcsPartWithSessionID(ok)
      \/ StatisticsDeleteRCSInfoWithSessionID(ok) \/ StatisticsDeleteInfoWithSessionID(ok)
      \/ StatisticsDeleteSessionTableExe(ok)
  BY DEF DeleteSession
<1>0. /\ deleting \in [step : DeleteSteps \union {"idle"}, ids : SUBSET created]
      /\ "sms_mms_info" \in Tables /\ "rcs_info" \in Tables
  BY DEF TypeOK, Tables
<1>1. CASE \/ StatisticsDeleteMmsPartWithSessionID(ok) \/ StatisticsUpdateMmsPartWithSessionID(ok)
           \/ StatisticsDeleteRcsPartWithSessionID(ok) \/ StatisticsUpdateRcsPartWithSessionID(ok)
  <2>1. /\ rows' = rows /\ strays' = strays /\ created' = created /\ sessions' = sessions
        /\ dropped' = dropped
    BY <1>1 DEF StatisticsDeleteMmsPartWithSessionID, StatisticsUpdateMmsPartWithSessionID,
                StatisticsDeleteRcsPartWithSessionID, StatisticsUpdateRcsPartWithSessionID,
                DeletePart, UpdatePart, history
  <2>2. deleting'.step \in {"idle", "mmsRefs", "rcsPart", "rcsRefs", "rcsInfo"}
    BY <1>0, <1>1 DEF StatisticsDeleteMmsPartWithSessionID, StatisticsUpdateMmsPartWithSessionID,
                StatisticsDeleteRcsPartWithSessionID, StatisticsUpdateRcsPartWithSessionID,
                DeletePart, UpdatePart, Statement
  <2> QED BY <2>1, <2>2, OrphanSame
<1>2. CASE StatisticsDeleteRCSInfoWithSessionID(ok)
  <2>1. created' = created /\ sessions' = sessions /\ dropped' = dropped
    BY <1>2 DEF StatisticsDeleteRCSInfoWithSessionID
  <2>2. CASE ~ok
    <3>1. rows' = rows /\ strays' = strays /\ deleting'.step = "idle"
      BY <1>2, <2>2 DEF StatisticsDeleteRCSInfoWithSessionID, Statement
    <3> QED BY <2>1, <3>1, OrphanSame
  <2>3. CASE ok
    <3> DEFINE ms == {m \in DOMAIN rows["rcs_info"] : /\ ~rows["rcs_info"][m].is_blocked
                                                      /\ m \in DOMAIN Infos
                                                      /\ Infos[m].session \in deleting.ids}
    <3>1. DeleteRows("rcs_info", ms)
      BY <1>2, <2>3 DEF StatisticsDeleteRCSInfoWithSessionID
    <3>2. deleting'.step = "info" /\ deleting'.ids = deleting.ids
      BY <1>0, <1>2, <2>3 DEF StatisticsDeleteRCSInfoWithSessionID, Statement
    <3>3. ASSUME NEW m \in DOMAIN rows["rcs_info"] \ ms, m \in DOMAIN Infos,
                 Infos[m].session \in deleting.ids
          PROVE  rows["rcs_info"][m].is_blocked
      BY <3>3
    <3> HIDE DEF ms
    <3>4. /\ DOMAIN rows'["rcs_info"] = DOMAIN rows["rcs_info"] \ ms
          /\ \A n \in DOMAIN rows["rcs_info"] \ ms : rows'["rcs_info"][n] = rows["rcs_info"][n]
          /\ rows'["sms_mms_info"] = rows["sms_mms_info"]
      BY <1>0, <3>1, DeleteRowsType
    <3>5. DeletedSoFar'
      BY <3>2, <3>3, <3>4 DEF DeletedSoFar, Infos
    <3>6. RowsKept
      BY <1>0, <3>1, DeleteRowsKeep
    <3> QED BY <2>1, <3>5, <3>6, OrphansKept DEF OrphanInv
  <2> QED BY <2>2, <2>3
<1>3. CASE StatisticsDeleteInfoWithSessionID(ok)
  <2>1. created' = created /\ sessions' = sessions /\ dropped' = dropped
    BY <1>3 DEF StatisticsDeleteInfoWithSessionID
  <2>2. CASE ~ok
    <3>1. rows' = rows /\ strays' = strays /\ deleting'.step = "idle"
      BY <1>3, <2>2 DEF StatisticsDeleteInfoWithSessionID, Statement
    <3> QED BY <2>1, <3>1, OrphanSame
  <2>3. CASE ok
    <3> DEFINE ms == {m \in DOMAIN Infos : Infos[m].session \in deleting.ids /\ ~Infos[m].is_blocked}
    <3>1. DeleteRows("sms_mms_info", ms)
      BY <1>3, <2>3 DEF StatisticsDeleteInfoWithSessionID
    <3>2. deleting.step = "info" /\ deleting'.step = "session" /\ deleting'.ids = deleting.ids
      BY <1>0, <1>3, <2>3 DEF StatisticsDeleteInfoWithSessionID, Statement
    <3>3. ASSUME NEW m \in DOMAIN Infos \ ms, Infos[m].session \in deleting.ids
          PROVE  Infos[m].is_blocked
      BY <3>3
    <3> HIDE DEF ms
    <3>4. /\ DOMAIN rows'["sms_mms_info"] = DOMAIN rows["sms_mms_info"] \ ms
          /\ \A n \in DOMAIN rows["sms_mms_info"] \ ms :
               rows'["sms_mms_info"][n] = rows["sms_mms_info"][n]
          /\ rows'["rcs_info"] = rows["rcs_info"]
      BY <1>0, <3>1, DeleteRowsType
    <3>5. DeletedSoFar'
      <4>1. ASSUME NEW m \in DOMAIN rows'["rcs_info"], m \in DOMAIN Infos',
                   Infos'[m].session \in deleting'.ids
            PROVE  rows'["rcs_info"][m].is_blocked
        BY <3>2, <3>4, <4>1 DEF OrphanInv, DeletedSoFar, Infos
      <4>2. ASSUME NEW m \in DOMAIN Infos', Infos'[m].session \in deleting'.ids
            PROVE  Infos'[m].is_blocked
        BY <3>2, <3>3, <3>4, <4>2 DEF Infos
      <4> QED BY <4>1, <4>2 DEF DeletedSoFar
    <3>6. RowsKept
      BY <1>0, <3>1, DeleteRowsKeep
    <3> QED BY <2>1, <3>5, <3>6, OrphansKept DEF OrphanInv
  <2> QED BY <2>2, <2>3
<1>4. CASE StatisticsDeleteSessionTableExe(ok)
  <2>1. /\ rows' = rows /\ created' = created /\ dropped' = dropped /\ strays' = strays
        /\ deleting.step = "session" /\ deleting'.step = "idle"
    BY <1>4 DEF StatisticsDeleteSessionTableExe, Statement
  <2>2. sessions \ deleting.ids \subseteq sessions'
    BY <1>4 DEF StatisticsDeleteSessionTableExe, DeleteSessions
  <2>3. RowsInv' /\ DeletedSoFar'
    BY <2>1 DEF OrphanInv, RowsInv, DeletedSoFar, Infos
  <2>4. NoOrphanMessage'
    BY <2>1, <2>2 DEF OrphanInv, NoOrphanMessage, DeletedSoFar, Infos
  <2>5. NoOrphanRcs'
    BY <2>1, <2>2 DEF OrphanInv, NoOrphanRcs, DeletedSoFar, RowsInv, Infos
  <2> QED BY <2>3, <2>4, <2>5 DEF OrphanInv
<1> QED BY <1>1, <1>2, <1>3, <1>4

LEMMA OrphanMarkRead ==
  ASSUME TypeOK, TableKnown, OrphanInv, NEW r \in Readers, MarkRead(r)
  PROVE  OrphanInv'
<1>1. /\ sessions' = sessions /\ created' = created /\ dropped' = dropped
      /\ strays' = strays /\ deleting' = deleting
  BY DEF MarkRead, BatchProcessMarkRead, UpdateSessionUnreadCount, MarkedSmsASRead,
         MarkedRcsASRead, MarkedSessionASRead, MarKRead, UpdateUnreadCount, MarkStatement,
         tables, history
<1>2. CASE rows' = rows
  BY <1>1, <1>2, OrphanSame
<1>3. ASSUME NEW t \in Tables, NEW ms, SetRead(t, ms)
      PROVE  OrphanInv'
  <2>1. RowsKept
    BY <1>1, <1>3, SetReadKeeps
  <2> QED BY <1>1, <2>1, OrphansKept, DeletedKept DEF OrphanInv
<1>4. ASSUME NEW ok \in BOOLEAN, MarKRead(r, ok)
      PROVE  OrphanInv'
  <2>1. marking[r].table \in Tables
    BY <1>4 DEF MarKRead, MarkStatement, TableKnown
  <2>2. rows' = rows \/ SetRead(marking[r].table, {marking[r].target})
    BY <1>4 DEF MarKRead
  <2> QED BY <1>2, <1>3, <2>1, <2>2
<1>5. ASSUME NEW ok \in BOOLEAN, NEW t \in Tables, MarkedTable(r, t, ok)
      PROVE  OrphanInv'
  <2> DEFINE ms == {m \in DOMAIN rows[t] : Covers(marking[r].target, rows[t][m].session)}
  <2>1. rows' = rows \/ SetRead(t, ms)
    BY <1>5 DEF MarkedTable
  <2> HIDE DEF ms
  <2> QED BY <1>2, <1>3, <2>1
<1>6. ASSUME NEW ok \in BOOLEAN, MarkedSmsASRead(r, ok) \/ MarkedRcsASRead(r, ok)
      PROVE  OrphanInv'
  BY <1>5, <1>6 DEF MarkedSmsASRead, MarkedRcsASRead, Tables
<1>7. CASE \/ \E target \in Sessions \union {"all", "info"} : BatchProcessMarkRead(r, target)
           \/ \E t \in Tables, m \in Msgs : UpdateSessionUnreadCount(r, t, m)
           \/ \E ok \in BOOLEAN : MarkedSessionASRead(r, ok) \/ UpdateUnreadCount(r, ok)
  <2>1. rows' = rows
    BY <1>7 DEF BatchProcessMarkRead, UpdateSessionUnreadCount, MarkedSessionASRead,
                UpdateUnreadCount, tables
  <2> QED BY <1>2, <2>1
<1> QED BY <1>4, <1>6, <1>7 DEF MarkRead

LEMMA OrphanStep ==
  ASSUME TypeOK, TableKnown, OrphanInv, [Next]_vars
  PROVE  OrphanInv'
<1>1. ASSUME NEW r \in Readers, MarkRead(r)
      PROVE  OrphanInv'
  BY <1>1, OrphanMarkRead
<1>2. CASE UNCHANGED vars
  BY <1>2, OrphanSame DEF vars, tables, history
<1> QED BY <1>1, <1>2, OrphanClient, OrphanDeleteSession DEF Next

-----------------------------------------------------------------------------
(* The parts that favourites share.                                        *)
LEMMA OneKey ==
  ASSUME TypeOK, NEW p \in DOMAIN parts, Cardinality(parts[p].keys) = 1
  PROVE  ~("msg_id" \in parts[p].keys /\ "rcs_id" \in parts[p].keys)
<1>1. parts[p].keys \subseteq {"msg_id", "rcs_id"}
  BY PartsAre DEF PartRow
<1>2. IsFiniteSet({"msg_id", "rcs_id"})
  <2>1. {"msg_id", "rcs_id"} = {"msg_id"} \union {"rcs_id"}
    OBVIOUS
  <2>2. IsFiniteSet({"msg_id"}) /\ IsFiniteSet({"rcs_id"})
    BY FS_Singleton
  <2> QED BY <2>1, <2>2, FS_Union
<1>3. IsFiniteSet(parts[p].keys)
  BY <1>1, <1>2, FS_Subset
<1>4. PICK k : parts[p].keys = {k}
  BY <1>3, FS_Singleton
<1> QED BY <1>4

LEMMA ChargedSame ==
  ASSUME ChargedSoFar, parts' = parts, favorites' = favorites, chargedBefore' = chargedBefore,
         deleting' = deleting
  PROVE  ChargedSoFar'
BY DEF ChargedSoFar

LEMMA ChargedFree ==
  ASSUME deleting'.step \in {"idle", "rcsInfo", "info", "session"}
  PROVE  ChargedSoFar'
BY DEF ChargedSoFar

LEMMA ChargedClient ==
  ASSUME TypeOK, Client
  PROVE  ChargedSoFar'
<1>1. ASSUME NEW ids \in SUBSET created, StatisticsDeleteSession(ids)
      PROVE  ChargedSoFar'
  BY <1>1 DEF StatisticsDeleteSession, ChargedSoFar, tables
<1>2. CASE deleting' = deleting /\ Free
  BY <1>2, ChargedFree DEF Free
<1>3. (\E ids \in SUBSET created : StatisticsDeleteSession(ids)) \/ (deleting' = deleting /\ Free)
  <2>1. ASSUME NEW s \in Sessions, InsertSession(s) \/ UpdateSessionTime(s)
        PROVE  deleting' = deleting /\ Free
    BY <2>1 DEF InsertSession, UpdateSessionTime
  <2>2. ASSUME StatisticsCleanInvalidSession PROVE deleting' = deleting /\ Free
    BY <2>2 DEF StatisticsCleanInvalidSession
  <2>3. ASSUME NEW m \in Msgs, AddFavorite(m) PROVE deleting' = deleting /\ Free
    BY <2>3 DEF AddFavorite
  <2>4. ASSUME NEW q \in Parts, NEW row \in PartRow, InsertPart(q, row) PROVE deleting' = deleting /\ Free
    BY <2>4 DEF InsertPart
  <2>5. ASSUME NEW t \in Tables, NEW m \in Msgs, DeleteInfo(t, m) PROVE deleting' = deleting /\ Free
    BY <2>5 DEF DeleteInfo
  <2>6. ASSUME NEW t \in Tables, NEW m \in Msgs, NEW s \in Sessions, NEW read \in BOOLEAN,
               InsertInfo(t, m, s, read)
        PROVE  deleting' = deleting /\ Free
    BY <2>6 DEF InsertInfo
  <2>7. ASSUME NEW t \in Tables, NEW m \in Msgs, NEW read \in BOOLEAN, NEW blocked \in BOOLEAN,
               UpdateInfo(t, m, read, blocked)
        PROVE  deleting' = deleting /\ Free
    BY <2>7 DEF UpdateInfo
  <2> QED BY <2>1, <2>2, <2>3, <2>4, <2>5, <2>6, <2>7 DEF Client
<1> QED BY <1>1, <1>2, <1>3

LEMMA ChargedDeleteSession ==
  ASSUME TypeOK, ChargedSoFar, DeleteSession
  PROVE  ChargedSoFar'
<1> PICK ok \in BOOLEAN :
      \/ StatisticsDeleteMmsPartWithSessionID(ok) \/ StatisticsUpdateMmsPartWithSessionID(ok)
      \/ StatisticsDeleteRcsPartWithSessionID(ok) \/ StatisticsUpdateRcsPartWithSessionID(ok)
      \/ StatisticsDeleteRCSInfoWithSessionID(ok) \/ StatisticsDeleteInfoWithSessionID(ok)
      \/ StatisticsDeleteSessionTableExe(ok)
  BY DEF DeleteSession
<1>0. /\ deleting \in [step : DeleteSteps \union {"idle"}, ids : SUBSET created]
      /\ DeleteSteps = {"mmsPart", "mmsRefs", "rcsPart", "rcsRefs", "rcsInfo", "info", "session"}
  BY DEF TypeOK, DeleteSteps
<1>1. ASSUME NEW step, NEW next, Statement(step, next, ok)
      PROVE  deleting.step = step /\ deleting'.step \in {next, "idle"}
  BY <1>0, <1>1 DEF Statement
<1>2. CASE StatisticsDeleteMmsPartWithSessionID(ok)
  <2>1. /\ DOMAIN parts' \subseteq DOMAIN parts
        /\ \A p \in DOMAIN parts' : parts'[p] = parts[p]
        /\ Statement("mmsPart", "mmsRefs", ok)
    BY <1>0, <1>2, DeletePartType DEF StatisticsDeleteMmsPartWithSessionID
  <2>0. deleting.step = "mmsPart" /\ deleting'.step \in {"mmsRefs", "idle"}
    BY <1>0, <2>1 DEF Statement
  <2>2. favorites' = favorites /\ chargedBefore' = chargedBefore
    BY <1>2 DEF StatisticsDeleteMmsPartWithSessionID, DeletePart, history
  <2> QED BY <2>0, <2>1, <2>2 DEF ChargedSoFar
<1>3. CASE StatisticsDeleteRcsPartWithSessionID(ok)
  <2>1. /\ DOMAIN parts' \subseteq DOMAIN parts
        /\ \A p \in DOMAIN parts' : parts'[p] = parts[p]
        /\ Statement("rcsPart", "rcsRefs", ok)
    BY <1>0, <1>3, DeletePartType DEF StatisticsDeleteRcsPartWithSessionID
  <2>0. deleting.step = "rcsPart" /\ deleting'.step \in {"rcsRefs", "idle"}
    BY <1>0, <2>1 DEF Statement
  <2>2. favorites' = favorites /\ chargedBefore' = chargedBefore
    BY <1>3 DEF StatisticsDeleteRcsPartWithSessionID, DeletePart, history
  <2> QED BY <2>0, <2>1, <2>2 DEF ChargedSoFar
<1>4. CASE StatisticsUpdateMmsPartWithSessionID(ok)
  <2>1. /\ DOMAIN parts' = DOMAIN parts
        /\ \A p \in DOMAIN parts : parts'[p].keys = parts[p].keys
        /\ Statement("mmsRefs", "rcsPart", ok)
    BY <1>0, <1>4, UpdatePartType DEF StatisticsUpdateMmsPartWithSessionID
  <2>0. deleting.step = "mmsRefs" /\ deleting'.step \in {"rcsPart", "idle"}
    BY <1>0, <2>1 DEF Statement
  <2>2. favorites' = favorites /\ chargedBefore' = chargedBefore
    BY <1>4 DEF StatisticsUpdateMmsPartWithSessionID, UpdatePart, history
  <2>3. ASSUME NEW p \in DOMAIN parts, parts'[p].reference_count = 1,
               parts[p].reference_count # 1
        PROVE  "msg_id" \in parts[p].keys
    <3>1. parts'[p] = IF ok /\ Tied(p, "msg_id") /\ parts[p].reference_count > 1
                      THEN [parts[p] EXCEPT !.reference_count = @ - 1] ELSE parts[p]
      BY <1>4 DEF StatisticsUpdateMmsPartWithSessionID, UpdatePart
    <3>2. Tied(p, "msg_id")
      BY <2>3, <3>1
    <3> QED BY <3>2 DEF Tied
  <2>4. ASSUME NEW p \in DOMAIN parts, PartOf[p] \in favorites, Cardinality(parts[p].keys) = 1,
               p \notin chargedBefore, parts'[p].reference_count = 1
        PROVE  "rcs_id" \notin parts[p].keys
    <3>1. parts[p].reference_count # 1
      BY <2>0, <2>1, <2>4 DEF ChargedSoFar
    <3> QED BY <2>3, <2>4, <3>1, OneKey
  <2> QED BY <2>0, <2>1, <2>2, <2>4 DEF ChargedSoFar
<1>5. CASE StatisticsUpdateRcsPartWithSessionID(ok)
  <2>1. deleting'.step \in {"rcsInfo", "idle"}
    BY <1>1, <1>5 DEF StatisticsUpdateRcsPartWithSessionID, UpdatePart
  <2> QED BY <2>1, ChargedFree
<1>6. CASE \/ StatisticsDeleteRCSInfoWithSessionID(ok) \/ StatisticsDeleteInfoWithSessionID(ok)
           \/ StatisticsDeleteSessionTableExe(ok)
  <2>1. deleting'.step \in {"info", "session", "idle"}
    BY <1>1, <1>6 DEF StatisticsDeleteRCSInfoWithSessionID, StatisticsDeleteInfoWithSessionID,
                      StatisticsDeleteSessionTableExe
  <2> QED BY <2>1, ChargedFree
<1> QED BY <1>2, <1>3, <1>4, <1>5, <1>6

LEMMA ChargedStep ==
  ASSUME TypeOK, ChargedSoFar, [Next]_vars
  PROVE  ChargedSoFar'
<1>1. ASSUME NEW r \in Readers, MarkRead(r)
      PROVE  ChargedSoFar'
  <2>1. parts' = parts /\ favorites' = favorites /\ chargedBefore' = chargedBefore
        /\ deleting' = deleting
    BY <1>1 DEF MarkRead, BatchProcessMarkRead, UpdateSessionUnreadCount, MarkedSmsASRead,
         MarkedRcsASRead, MarkedSessionASRead, MarKRead, UpdateUnreadCount, MarkStatement,
         tables, history
  <2> QED BY <2>1, ChargedSame
<1>2. CASE UNCHANGED vars
  BY <1>2, ChargedSame DEF vars, tables, history
<1> QED BY <1>1, <1>2, ChargedClient, ChargedDeleteSession DEF Next

-----------------------------------------------------------------------------
(* Everything keeps its type; no counter exceeds the rows there can be.    *)
THEOREM TypeCorrect == Spec => [](TypeOK /\ TableKnown)
<1>1. Init => TypeOK /\ TableKnown
  BY TypeInit DEF Init, TableKnown
<1>2. TypeOK /\ TableKnown /\ [Next]_vars => TypeOK' /\ TableKnown'
  BY TypeStep
<1> QED BY <1>1, <1>2, PTL DEF Spec

(* DELETE_SESSION, wherever a failing statement ends it, and all requests  *)
(* beside it, keep what the theorems on orphans rest on.                   *)
THEOREM OrphanInvariant == Spec => []OrphanInv
<1>1. Init => OrphanInv
  BY EmptyTable DEF Init, OrphanInv, RowsInv, DeletedSoFar, NoOrphanMessage, NoOrphanRcs, Infos,
                    Tables
<1>2. TypeOK /\ TableKnown /\ OrphanInv /\ [Next]_vars => OrphanInv'
  BY OrphanStep
<1> QED BY <1>1, <1>2, TypeCorrect, PTL DEF Spec

(* A message without its session came after it, or was unblocked after it, *)
(* or CLEAN_INVALID_SESSION dropped the session alone.                     *)
THEOREM NoOrphanMessages == Spec => []NoOrphanMessage
<1>1. OrphanInv => NoOrphanMessage
  BY DEF OrphanInv
<1> QED BY <1>1, OrphanInvariant, PTL

(* The same for a row of rcs_info that has its row in sms_mms_info.        *)
THEOREM NoOrphanRcsRows == Spec => []NoOrphanRcs
<1>1. OrphanInv => NoOrphanRcs
  BY DEF OrphanInv
<1> QED BY <1>1, OrphanInvariant, PTL

(* The badge hides no unread message, whatever the triggers, the markings, *)
(* which take no lock, and the deletions interleave to.                    *)
THEOREM UnreadNeverHidden == Spec => []UnreadNotUndercounted
<1>1. Init => CountInv
  BY DEF Init, CountInv
<1>2. /\ TypeOK /\ TableKnown /\ OrphanInv /\ CountInv
      /\ TypeOK' /\ [Next]_vars
      => CountInv'
  BY CountStep DEF OrphanInv
<1>3. CountInv => UnreadNotUndercounted
  BY DEF CountInv, UnreadNotUndercounted
<1> QED BY <1>1, <1>2, <1>3, TypeCorrect, OrphanInvariant, PTL DEF Spec

(* DELETE_SESSION takes its own reference to a shared part, and keeps the  *)
(* favourite's.                                                            *)
THEOREM FavoritesKeepParts == Spec => FavoritePartKept
<1> DEFINE Kept == \A p \in DOMAIN parts \ DOMAIN parts' :
                     /\ PartOf[p] \in favorites
                     /\ Cardinality(parts[p].keys) = 1
                     => p \in chargedBefore
<1>1. Init => ChargedSoFar
  BY ChargedFree, EmptyTable DEF Init, ChargedSoFar
<1>2. TypeOK /\ ChargedSoFar /\ [Next]_vars => ChargedSoFar'
  BY ChargedStep
<1>3. TypeOK /\ ChargedSoFar /\ [Next]_vars => [Kept]_vars
  <2> SUFFICES ASSUME TypeOK, ChargedSoFar, Next,
                      NEW p \in DOMAIN parts \ DOMAIN parts',
                      PartOf[p] \in favorites, Cardinality(parts[p].keys) = 1
               PROVE  p \in chargedBefore
    OBVIOUS
  <2>1. ASSUME NEW ok \in BOOLEAN, NEW step, NEW next, NEW key,
               DeletePart(step, next, key, ok),
               \/ step = "mmsPart"
               \/ step = "rcsPart" /\ key = "rcs_id"
        PROVE  p \in chargedBefore
    <3>1. GetDeletePartWhereSql(p, key)
      BY <2>1 DEF DeletePart, Without, Restrict
    <3>2. parts[p].reference_count = 1 /\ key \in parts[p].keys
      BY <3>1 DEF GetDeletePartWhereSql, Tied
    <3>3. deleting.step = step
      BY <2>1 DEF DeletePart, Statement
    <3> QED BY <2>1, <3>2, <3>3 DEF ChargedSoFar
  <2>2. ASSUME NEW r \in Readers, MarkRead(r) PROVE parts' = parts
    BY <2>2 DEF MarkRead, BatchProcessMarkRead, UpdateSessionUnreadCount, MarkedSmsASRead,
         MarkedRcsASRead, MarkedSessionASRead, MarKRead, UpdateUnreadCount, MarkStatement, tables
  <2>3. ASSUME Client PROVE DOMAIN parts \subseteq DOMAIN parts'
    <3>1. ASSUME NEW s \in Sessions, InsertSession(s) \/ UpdateSessionTime(s) PROVE parts' = parts
      BY <3>1 DEF InsertSession, UpdateSessionTime
    <3>2. ASSUME StatisticsCleanInvalidSession PROVE parts' = parts
      BY <3>2 DEF StatisticsCleanInvalidSession
    <3>3. ASSUME NEW ids \in SUBSET created, StatisticsDeleteSession(ids) PROVE parts' = parts
      BY <3>3 DEF StatisticsDeleteSession, tables
    <3>4. ASSUME NEW m \in Msgs, AddFavorite(m) PROVE DOMAIN parts' = DOMAIN parts
      BY <3>4 DEF AddFavorite
    <3>5. ASSUME NEW q \in Parts, NEW row \in PartRow, InsertPart(q, row)
          PROVE  DOMAIN parts \subseteq DOMAIN parts'
      BY <3>5 DEF InsertPart, With
    <3>6. ASSUME NEW t \in Tables, NEW m \in Msgs, DeleteInfo(t, m) PROVE parts' = parts
      BY <3>6 DEF DeleteInfo
    <3>7. ASSUME NEW t \in Tables, NEW m \in Msgs, NEW s \in Sessions, NEW read \in BOOLEAN,
                 InsertInfo(t, m, s, read)
          PROVE  parts' = parts
      BY <3>7 DEF InsertInfo
    <3>8. ASSUME NEW t \in Tables, NEW m \in Msgs, NEW read \in BOOLEAN, NEW blocked \in BOOLEAN,
                 UpdateInfo(t, m, read, blocked)
          PROVE  parts' = parts
      BY <3>8 DEF UpdateInfo
    <3>9. parts' = parts \/ DOMAIN parts' = DOMAIN parts => DOMAIN parts \subseteq DOMAIN parts'
      OBVIOUS
    <3> QED BY <2>3, <3>1, <3>2, <3>3, <3>4, <3>5, <3>6, <3>7, <3>8, <3>9 DEF Client
  <2>4. ASSUME DeleteSession PROVE p \in chargedBefore
    <3> PICK ok \in BOOLEAN :
      \/ StatisticsDeleteMmsPartWithSessionID(ok) \/ StatisticsUpdateMmsPartWithSessionID(ok)
      \/ StatisticsDeleteRcsPartWithSessionID(ok) \/ StatisticsUpdateRcsPartWithSessionID(ok)
      \/ StatisticsDeleteRCSInfoWithSessionID(ok) \/ StatisticsDeleteInfoWithSessionID(ok)
      \/ StatisticsDeleteSessionTableExe(ok)
      BY <2>4 DEF DeleteSession
    <3>1. CASE StatisticsDeleteMmsPartWithSessionID(ok)
      BY <2>1, <3>1 DEF StatisticsDeleteMmsPartWithSessionID
    <3>2. CASE StatisticsDeleteRcsPartWithSessionID(ok)
      BY <2>1, <3>2 DEF StatisticsDeleteRcsPartWithSessionID
    <3>3. CASE \/ StatisticsUpdateMmsPartWithSessionID(ok) \/ StatisticsUpdateRcsPartWithSessionID(ok)
               \/ StatisticsDeleteRCSInfoWithSessionID(ok) \/ StatisticsDeleteInfoWithSessionID(ok)
               \/ StatisticsDeleteSessionTableExe(ok)
      <4>1. DOMAIN parts' = DOMAIN parts
        BY <3>3 DEF StatisticsUpdateMmsPartWithSessionID, StatisticsUpdateRcsPartWithSessionID,
                    StatisticsDeleteRCSInfoWithSessionID, StatisticsDeleteInfoWithSessionID,
                    StatisticsDeleteSessionTableExe, UpdatePart
      <4> QED BY <4>1
    <3> QED BY <3>1, <3>2, <3>3
  <2> QED BY <2>2, <2>3, <2>4 DEF Next
<1> QED BY <1>1, <1>2, <1>3, TypeCorrect, PTL DEF Spec, FavoritePartKept
=============================================================================
