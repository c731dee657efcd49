----------------------------- MODULE SmsSession -----------------------------
(***************************************************************************)
(* Sessions, their messages, unread counters and parts, in the message     *)
(* database of SmsMmsAbility.  session.unread_count is kept by triggers    *)
(* that recount on every insert or update of an unread row, and set to 0   *)
(* by the mark-read requests.  Insert, Update and Delete hold lock_; the   *)
(* mark-read requests do not, and each is two or three SQL statements, so  *)
(* the statements of the others fall between them.  DELETE_SESSION is      *)
(* seven statements without a transaction; each may fail and end it.       *)
(* The clients' generic calls are an atomic action each.                   *)
(***************************************************************************)
EXTENDS Naturals, Integers, FiniteSets, Functions

CONSTANTS
  Sessions,     (* Ids of sessions, never reused (AUTOINCREMENT).          *)
  Notices,      (* Those with sms_type 1 or 2.                             *)
  Msgs,         (* Ids of messages.                                        *)
  RcsMsgs,      (* Those kept in rcs_info as well as in sms_mms_info.      *)
  Parts,        (* Ids of message parts (attachments).                     *)
  PartOf,       (* The message of a part.                                  *)
  Readers,      (* Binder threads serving mark-read requests.              *)
  MaxFaults     (* Bound: statements that fail in a behaviour.             *)

ASSUME SessionAssumption ==
  /\ Notices \subseteq Sessions
  /\ RcsMsgs \subseteq Msgs
  /\ PartOf \in [Parts -> Msgs]
  /\ IsFiniteSet(Msgs)
  /\ MaxFaults \in Nat

Tables == {"sms_mms_info", "rcs_info"}
Row == [session : Sessions, is_read : BOOLEAN, is_blocked : BOOLEAN]

(* Which of the columns msg_id and rcs_id of a part are set.               *)
PartRow == [keys : SUBSET {"msg_id", "rcs_id"} \ {{}}, reference_count : {-1, 1, 2}]

DeleteSteps == {"mmsPart", "mmsRefs", "rcsPart", "rcsRefs", "rcsInfo", "info", "session"}
MarkSteps == {"sms", "rcs", "session", "msg", "count"}

VARIABLES
  sessions,         (* The session table.                                  *)
  timed,            (* The sessions whose column time is not 0.            *)
  unread_count,     (* Its column unread_count.                            *)
  rows,             (* The tables sms_mms_info and rcs_info.               *)
  parts,            (* The table mms_part.                                 *)
  favorites,        (* Messages in sms_mms_favorite; their is_collect is 1.*)
  deleting,         (* DELETE_SESSION under lock_: step and session ids.   *)
  marking,          (* For each reader, step and target.                   *)
  faults,           (* Statements that failed so far.                      *)
  created,          (* History: the sessions ever inserted.                *)
  dropped,          (* History: sessions deleted without their messages.   *)
  strays,           (* History: rows that appeared with no session.        *)
  raced,            (* History: sessions that got unread during a marking. *)
  chargedBefore     (* History: favourites' parts charged by an earlier    *)
                    (* DELETE_SESSION.                                     *)

tables  == <<sessions, timed, unread_count, rows, parts, favorites>>
history == <<created, dropped, strays, raced, chargedBefore>>
vars    == <<tables, deleting, marking, faults, history>>

Fault == faults < MaxFaults /\ faults' = faults + 1
NoFault == UNCHANGED faults

Unread(tbl, s) ==
  LET of(t) == {m \in DOMAIN tbl[t] : tbl[t][m].session = s /\ ~tbl[t][m].is_read}
  IN Cardinality(of("sms_mms_info")) + Cardinality(of("rcs_info"))

(* A table f without the rows in S, and with a row x under the key k.      *)
Without(f, S) == Restrict(f, DOMAIN f \ S)
With(f, k, x) == [i \in DOMAIN f \union {k} |-> IF i = k THEN x ELSE f[i]]

Free == deleting.step = "idle"

Init ==
  /\ sessions = {} /\ timed = {}
  /\ unread_count = [s \in Sessions |-> 0]
  /\ rows = [t \in Tables |-> <<>>]
  /\ parts = <<>>
  /\ favorites = {}
  /\ deleting = [step |-> "idle", ids |-> {}]
  /\ marking = [r \in Readers |-> [step |-> "idle", target |-> "none", table |-> "none"]]
  /\ faults = 0
  /\ created = {} /\ dropped = {} /\ strays = {} /\ raced = {} /\ chargedBefore = {}

-----------------------------------------------------------------------------
(* The sessions a marking with this target sets to 0.                      *)
Covers(target, s) ==
  \/ target = "all"
  \/ target = "info" /\ s \in sessions \intersect Notices
  \/ target = s

(* A row put into t now is not marked read any more by a marking that is   *)
(* to set its session's counter to 0.                                      *)
Races(t, s) ==
  \E r \in Readers :
    /\ Covers(marking[r].target, s)
    /\ marking[r].step \in IF t = "sms_mms_info" THEN {"rcs", "session"} ELSE {"session"}

(* Sessions whose counter, once recounted, no marking under way will undo. *)
Settled(S) == {s \in S : \A t \in Tables : ~Races(t, s)}

(* Triggers that forget the second table, or add one instead of counting,  *)
(* for comparison.                                                         *)
RecountSmsOnly(tbl, s) ==
  Cardinality({m \in DOMAIN tbl["sms_mms_info"] :
                 tbl["sms_mms_info"][m].session = s /\ ~tbl["sms_mms_info"][m].is_read})

Increment(tbl, s) == unread_count[s] + 1

Recount(tbl, s) == Unread(tbl, s)

(* A row is inserted or updated, and the trigger runs if it is unread.     *)
Put(t, m, row) ==
  /\ rows' = [rows EXCEPT ![t] = With(@, m, row)]
  /\ IF row.is_read \/ row.session \notin sessions
     THEN UNCHANGED <<unread_count, raced>>
     ELSE /\ unread_count' = [unread_count EXCEPT ![row.session] = Recount(rows', row.session)]
          /\ raced' = (raced \ Settled({row.session})) \union {s \in {row.session} : Races(t, s)}
  /\ strays' = IF row.is_blocked \/ row.session \in sessions THEN strays
                                                               ELSE strays \union {<<t, m>>}

InsertSession(s) ==
  /\ Free /\ s \notin created
  /\ sessions' = sessions \union {s}
  /\ timed' \in {timed, timed \union {s}}
  /\ created' = created \union {s}
  /\ UNCHANGED <<unread_count, rows, parts, favorites, deleting, marking, faults,
                 dropped, strays, raced, chargedBefore>>

UpdateSessionTime(s) ==
  /\ Free /\ s \in sessions \ timed
  /\ timed' = timed \union {s}
  /\ UNCHANGED <<sessions, unread_count, rows, parts, favorites, deleting, marking,
                 faults, history>>

(* The client knows the session's id from an earlier insert or query.  An  *)
(* RCS message is two inserts, in either order.                            *)
InsertInfo(t, m, s, read) ==
  /\ Free /\ s \in created /\ m \notin DOMAIN rows[t]
  /\ t = "rcs_info" => m \in RcsMsgs
  /\ m \notin favorites /\ \A p \in DOMAIN parts : PartOf[p] # m
  /\ \A u \in Tables : m \in DOMAIN rows[u] => rows[u][m].session = s
  /\ Put(t, m, [session |-> s, is_read |-> read, is_blocked |-> FALSE])
  /\ UNCHANGED <<sessions, timed, parts, favorites, deleting, marking, faults,
                 created, dropped, chargedBefore>>

(* An update of is_read or is_blocked.                                     *)
UpdateInfo(t, m, read, blocked) ==
  /\ Free /\ m \in DOMAIN rows[t]
  /\ <<read, blocked>> # <<rows[t][m].is_read, rows[t][m].is_blocked>>
  /\ Put(t, m, [rows[t][m] EXCEPT !.is_read = read, !.is_blocked = blocked])
  /\ UNCHANGED <<sessions, timed, parts, favorites, deleting, marking, faults,
                 created, dropped, chargedBefore>>

(* No trigger runs on a delete: the counter stays.                         *)
DeleteInfo(t, m) ==
  /\ Free /\ m \in DOMAIN rows[t]
  /\ rows' = [rows EXCEPT ![t] = Without(@, {m})]
  /\ strays' = strays \ {<<t, m>>}
  /\ UNCHANGED <<sessions, timed, unread_count, parts, favorites, deleting, marking,
                 faults, created, dropped, raced, chargedBefore>>

(* A part is inserted unshared, or comes without counting from old data.   *)
InsertPart(p, row) ==
  /\ Free /\ p \notin DOMAIN parts
  /\ PartOf[p] \in DOMAIN rows["sms_mms_info"] \ favorites
  /\ row.reference_count \in {-1, 1}
  /\ "rcs_id" \in row.keys => PartOf[p] \in RcsMsgs
  /\ parts' = With(parts, p, row)
  /\ UNCHANGED <<sessions, timed, unread_count, rows, favorites, deleting, marking,
                 faults, history>>

(* A favourite shares its message's parts: it becomes a second reference.  *)
(* (Favourites of messages without parts touch nothing modelled here.)     *)
AddFavorite(m) ==
  /\ Free /\ m \in DOMAIN rows["sms_mms_info"] \ favorites
  /\ \E p \in DOMAIN parts : PartOf[p] = m
  /\ favorites' = favorites \union {m}
  /\ parts' = [p \in DOMAIN parts |->
                 IF PartOf[p] = m /\ parts[p].reference_count = 1
                 THEN [parts[p] EXCEPT !.reference_count = 2] ELSE parts[p]]
  /\ UNCHANGED <<sessions, timed, unread_count, rows, deleting, marking, faults, history>>

(* Rows of session go, their counters with them.                           *)
DeleteSessions(S) ==
  /\ sessions' = sessions \ S
  /\ timed' = timed \ S
  /\ unread_count' = [s \in Sessions |-> IF s \in S THEN 0 ELSE unread_count[s]]
  /\ raced' = raced \ S

(* CLEAN_INVALID_SESSION.                                                  *)
InvalidSessions ==
  {s \in sessions : \/ s \notin timed
                    \/ \A m \in DOMAIN rows["sms_mms_info"] :
                         \/ rows["sms_mms_info"][m].session # s
                         \/ rows["sms_mms_info"][m].is_blocked}

StatisticsCleanInvalidSession ==
  /\ Free /\ InvalidSessions # {}
  /\ DeleteSessions(InvalidSessions)
  /\ dropped' = dropped \union InvalidSessions
  /\ UNCHANGED <<rows, parts, favorites, deleting, marking, faults, created, strays,
                 chargedBefore>>

-----------------------------------------------------------------------------
(* DELETE_SESSION: StatisticsDeleteSession for the given ids.              *)
StatisticsDeleteSession(ids) ==
  /\ Free /\ ids # {}
  /\ deleting' = [step |-> "mmsPart", ids |-> ids]
  /\ chargedBefore' = {p \in DOMAIN parts : /\ PartOf[p] \in favorites
                                            /\ parts[p].reference_count = 1}
  /\ UNCHANGED <<tables, marking, faults, created, dropped, strays, raced>>

(* A variant that does not return early.                                   *)
StatementIgnoringErrors(step, next, ok) ==
  /\ deleting.step = step
  /\ deleting' = IF next # "idle" THEN [deleting EXCEPT !.step = next]
                                 ELSE [step |-> "idle", ids |-> {}]
  /\ IF ok THEN NoFault ELSE Fault

(* A statement runs and the next one follows, or it fails and the request  *)
(* ends.                                                                   *)
Statement(step, next, ok) ==
  /\ deleting.step = step
  /\ deleting' = IF ok /\ next # "idle" THEN [deleting EXCEPT !.step = next]
                                       ELSE [step |-> "idle", ids |-> {}]
  /\ IF ok THEN NoFault ELSE Fault

Infos == rows["sms_mms_info"]

(* Parts tied by this column to a message of the sessions being deleted;   *)
(* by rcs_id only if the message is not blocked.                           *)
Tied(p, key) ==
  /\ key \in parts[p].keys
  /\ PartOf[p] \in DOMAIN Infos
  /\ Infos[PartOf[p]].session \in deleting.ids
  /\ key = "rcs_id" => PartOf[p] \in RcsMsgs /\ ~Infos[PartOf[p]].is_blocked

(* A variant that forgets the favourites of parts without a count.         *)
UnsharedOrOld(p, key) == Tied(p, key) /\ parts[p].reference_count \in {-1, 1}

GetDeletePartWhereSql(p, key) ==
  /\ Tied(p, key)
  /\ \/ parts[p].reference_count = -1 /\ PartOf[p] \notin favorites
     \/ parts[p].reference_count = 1

DeletePart(step, next, key, ok) ==
  /\ Statement(step, next, ok)
  /\ parts' = IF ok THEN Without(parts, {p \in DOMAIN parts : GetDeletePartWhereSql(p, key)})
                    ELSE parts
  /\ UNCHANGED <<sessions, timed, unread_count, rows, favorites, marking, history>>

UpdatePart(step, next, key, ok) ==
  /\ Statement(step, next, ok)
  /\ parts' = [p \in DOMAIN parts |->
                 IF ok /\ Tied(p, key) /\ parts[p].reference_count > 1
                 THEN [parts[p] EXCEPT !.reference_count = @ - 1] ELSE parts[p]]
  /\ UNCHANGED <<sessions, timed, unread_count, rows, favorites, marking, history>>

StatisticsDeleteMmsPartWithSessionID(ok) == DeletePart("mmsPart", "mmsRefs", "msg_id", ok)
StatisticsUpdateMmsPartWithSessionID(ok) == UpdatePart("mmsRefs", "rcsPart", "msg_id", ok)
StatisticsDeleteRcsPartWithSessionID(ok) == DeletePart("rcsPart", "rcsRefs", "rcs_id", ok)
StatisticsUpdateRcsPartWithSessionID(ok) == UpdatePart("rcsRefs", "rcsInfo", "rcs_id", ok)

DeleteRows(t, ms) ==
  /\ rows' = [rows EXCEPT ![t] = Without(@, ms)]
  /\ strays' = strays \ ({t} \X ms)

(* Rows of rcs_info go with a row of sms_mms_info in the sessions.         *)
StatisticsDeleteRCSInfoWithSessionID(ok) ==
  /\ Statement("rcsInfo", "info", ok)
  /\ IF ok
     THEN DeleteRows("rcs_info",
            {m \in DOMAIN rows["rcs_info"] : /\ ~rows["rcs_info"][m].is_blocked
                                             /\ m \in DOMAIN Infos
                                             /\ Infos[m].session \in deleting.ids})
     ELSE UNCHANGED <<rows, strays>>
  /\ UNCHANGED <<sessions, timed, unread_count, parts, favorites, marking,
                 created, dropped, raced, chargedBefore>>

StatisticsDeleteInfoWithSessionID(ok) ==
  /\ Statement("info", "session", ok)
  /\ IF ok
     THEN DeleteRows("sms_mms_info",
            {m \in DOMAIN Infos : Infos[m].session \in deleting.ids /\ ~Infos[m].is_blocked})
     ELSE UNCHANGED <<rows, strays>>
  /\ UNCHANGED <<sessions, timed, unread_count, parts, favorites, marking,
                 created, dropped, raced, chargedBefore>>

StatisticsDeleteSessionTableExe(ok) ==
  /\ Statement("session", "idle", ok)
  /\ IF ok THEN DeleteSessions(deleting.ids)
           ELSE UNCHANGED <<sessions, timed, unread_count, raced>>
  /\ UNCHANGED <<rows, parts, favorites, marking, created, dropped, strays, chargedBefore>>

-----------------------------------------------------------------------------
(* BATCH_MARK_READ of one session, of the notices or of all.               *)
BatchProcessMarkRead(r, target) ==
  /\ marking[r].step = "idle"
  /\ marking' = [marking EXCEPT ![r] = [step |-> "sms", target |-> target, table |-> "none"]]
  /\ UNCHANGED <<tables, deleting, faults, history>>

(* SINGLE_MARK_READ of one message.                                        *)
UpdateSessionUnreadCount(r, t, m) ==
  /\ marking[r].step = "idle" /\ m \in DOMAIN rows[t]
  /\ marking' = [marking EXCEPT ![r] = [step |-> "msg", target |-> m, table |-> t]]
  /\ UNCHANGED <<tables, deleting, faults, history>>

MarkStatement(r, step, next, ok) ==
  /\ marking[r].step = step
  /\ IF ok /\ next # "idle"
     THEN marking' = [marking EXCEPT ![r].step = next]
     ELSE marking' = [marking EXCEPT ![r] = [step |-> "idle", target |-> "none", table |-> "none"]]
  /\ IF ok THEN NoFault ELSE Fault
  /\ UNCHANGED <<sessions, timed, parts, favorites, deleting, created, dropped, strays,
                 chargedBefore>>

(* SET is_read = 1; the triggers run for unread rows only.                 *)
SetRead(t, ms) ==
  rows' = [rows EXCEPT ![t] = [m \in DOMAIN rows[t] |->
             IF m \in ms THEN [rows[t][m] EXCEPT !.is_read = TRUE] ELSE rows[t][m]]]

MarkedTable(r, t, ok) ==
  /\ IF ok THEN SetRead(t, {m \in DOMAIN rows[t] : Covers(marking[r].target, rows[t][m].session)})
           ELSE UNCHANGED rows
  /\ UNCHANGED <<unread_count, raced>>

MarkedSmsASRead(r, ok) ==
  MarkStatement(r, "sms", "rcs", ok) /\ MarkedTable(r, "sms_mms_info", ok)
MarkedRcsASRead(r, ok) ==
  MarkStatement(r, "rcs", "session", ok) /\ MarkedTable(r, "rcs_info", ok)

MarkedSessionASRead(r, ok) ==
  /\ MarkStatement(r, "session", "idle", ok)
  /\ unread_count' = [s \in Sessions |->
       IF ok /\ s \in sessions /\ Covers(marking[r].target, s) THEN 0 ELSE unread_count[s]]
  /\ UNCHANGED <<rows, raced>>

MarKRead(r, ok) ==
  /\ MarkStatement(r, "msg", "count", ok)
  /\ IF ok THEN SetRead(marking[r].table, {marking[r].target}) ELSE UNCHANGED rows
  /\ UNCHANGED <<unread_count, raced>>

(* The session is recounted, if the message is still there to name it.     *)
UpdateUnreadCount(r, ok) ==
  LET t == marking[r].table
      m == marking[r].target
      counted == {s \in sessions : ok /\ m \in DOMAIN rows[t] /\ rows[t][m].session = s} IN
  /\ MarkStatement(r, "count", "idle", ok)
  /\ unread_count' = [s \in Sessions |->
                        IF s \in counted THEN Recount(rows, s) ELSE unread_count[s]]
  /\ raced' = raced \ Settled(counted)
  /\ UNCHANGED rows

-----------------------------------------------------------------------------
Client ==
  \/ \E s \in Sessions : InsertSession(s) \/ UpdateSessionTime(s)
  \/ StatisticsCleanInvalidSession
  \/ \E ids \in SUBSET created : StatisticsDeleteSession(ids)
  \/ \E m \in Msgs : AddFavorite(m)
  \/ \E p \in Parts, row \in PartRow : InsertPart(p, row)
  \/ \E t \in Tables, m \in Msgs :
       \/ DeleteInfo(t, m)
       \/ \E s \in Sessions, read \in BOOLEAN : InsertInfo(t, m, s, read)
       \/ \E read, blocked \in BOOLEAN : UpdateInfo(t, m, read, blocked)

DeleteSession ==
  \E ok \in BOOLEAN :
    \/ StatisticsDeleteMmsPartWithSessionID(ok) \/ StatisticsUpdateMmsPartWithSessionID(ok)
    \/ StatisticsDeleteRcsPartWithSessionID(ok) \/ StatisticsUpdateRcsPartWithSessionID(ok)
    \/ StatisticsDeleteRCSInfoWithSessionID(ok) \/ StatisticsDeleteInfoWithSessionID(ok)
    \/ StatisticsDeleteSessionTableExe(ok)

MarkRead(r) ==
  \/ \E target \in Sessions \union {"all", "info"} : BatchProcessMarkRead(r, target)
  \/ \E t \in Tables, m \in Msgs : UpdateSessionUnreadCount(r, t, m)
  \/ \E ok \in BOOLEAN :
       \/ MarkedSmsASRead(r, ok) \/ MarkedRcsASRead(r, ok) \/ MarkedSessionASRead(r, ok)
       \/ MarKRead(r, ok) \/ UpdateUnreadCount(r, ok)

Next ==
  \/ Client
  \/ DeleteSession
  \/ \E r \in Readers : MarkRead(r)

Spec == Init /\ [][Next]_vars

-----------------------------------------------------------------------------
(* A table of a database: some ids, each with its row.                     *)
TableOf(Ids, Rows) == UNION {[S -> Rows] : S \in SUBSET Ids}

(* Everything has its type; counters are bounded by the rows there can be, *)
(* a session row exists at most once, and columns name known sessions.     *)
TypeOK ==
  /\ timed \subseteq sessions /\ sessions \subseteq created /\ created \subseteq Sessions
  /\ unread_count \in [Sessions -> 0..2 * Cardinality(Msgs)]
  /\ rows \in [Tables -> TableOf(Msgs, Row)]
  /\ parts \in TableOf(Parts, PartRow)
  /\ favorites \subseteq Msgs
  /\ deleting \in [step : DeleteSteps \union {"idle"}, ids : SUBSET created]
  /\ marking \in [Readers -> [step : MarkSteps \union {"idle"},
                              target : Sessions \union Msgs \union {"all", "info", "none"},
                              table : Tables \union {"none"}]]
  /\ faults \in 0..MaxFaults
  /\ dropped \subseteq created /\ raced \subseteq Sessions /\ chargedBefore \subseteq Parts
  /\ strays \subseteq Tables \X Msgs

(* The badge never hides an unread message: the counter of a session is at *)
(* least the number of its unread rows, across the triggers, the unlocked  *)
(* markings, the deletions and failing statements, unless a row arrived    *)
(* between a marking's two halves.                                         *)
UnreadNotUndercounted ==
  \A s \in sessions \ raced : Unread(rows, s) <= unread_count[s]

(* DELETE_SESSION leaves no message without its session, even when it      *)
(* stops half-way: such a row arrived, or was unblocked, after its session *)
(* had gone, or the session row alone was dropped by CLEAN_INVALID_SESSION.*)
NoOrphanMessage ==
  \A m \in DOMAIN rows["sms_mms_info"] :
    LET row == rows["sms_mms_info"][m] IN
    \/ row.is_blocked
    \/ row.session \in sessions \union dropped
    \/ <<"sms_mms_info", m>> \in strays

(* The same for rcs_info: its rows are found through those of sms_mms_info,*)
(* so that what remains without a session has no row there either.         *)
NoOrphanRcs ==
  \A m \in DOMAIN rows["rcs_info"] \intersect DOMAIN rows["sms_mms_info"] :
    LET row == rows["rcs_info"][m] IN
    \/ row.is_blocked
    \/ row.session \in sessions \union dropped
    \/ strays \intersect {<<t, m>> : t \in Tables} # {}

(* DELETE_SESSION takes a message's reference to a part, not a favourite's:*)
(* unless an earlier DELETE_SESSION has charged the part already, a part   *)
(* tied by one column that a favourite shares survives.                    *)
FavoritePartKept ==
  [][\A p \in DOMAIN parts \ DOMAIN parts' :
       /\ PartOf[p] \in favorites
       /\ Cardinality(parts[p].keys) = 1
       => p \in chargedBefore]_vars
=============================================================================
