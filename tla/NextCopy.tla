------------------------------ MODULE NextCopy ------------------------------
(***************************************************************************)
(* The restore of a backup into the message store (copyData/NextDbHelper). *)
(* The old phone's tables are read a page at a time, table after table,    *)
(* and merged row by row into the new phone's: sessions, messages, RCS     *)
(* messages; then drafts, sending status and counters are put right.  What *)
(* is already there is recognised by keys read once per table, and what a  *)
(* row became is remembered in maps that a crash of the extension loses.   *)
(* The data ability keeps receiving messages meanwhile.                    *)
(* Parts, favourites and the tables nothing refers to are not modelled.    *)
(***************************************************************************)
EXTENDS Integers, Sequences, FiniteSets, FiniteSetsExt, Functions

CONSTANTS
  LastDigits,   (* The last seven digits of each telephone number, or      *)
                (* NoTail for a short number or one of a group.            *)
  PageSize,     (* QUERY_PAGE_NUM.                                         *)
  OldDbs,       (* The backups: [session, msg, rcs], a sequence each.      *)
  NewDbs,       (* The stores restored into: [session, msg, rcs].          *)
  Now,          (* Later than every time of OldDbs and NewDbs.             *)
  MaxTroubles,  (* Bound: failures, crashes and messages received.         *)
  MaxRuns       (* Bound: restores of the same backup.                     *)

Tels == DOMAIN LastDigits
NoTail == 0
NoSession == -1     (* DEFAULT -1 of sms_mms_info.session_id.              *)
NoRcs == 0
States == {"ok", "sending", "draft"}

KeyOf(m) == <<m.num, m.in, m.time>>

(* One telephone, up to its country code.                                  *)
Similar(t, u) == t = u \/ (LastDigits[t] # NoTail /\ LastDigits[u] = LastDigits[t])

SessionRow == [tel : Tels, time : Nat, draft : BOOLEAN, pin : Nat,
               sending : States, unread : Nat, count : Nat]
RcsRow == [sess : Int, num : Tels, in : BOOLEAN, time : Nat, group : Nat,
           read : BOOLEAN]
MsgRow == [sess : Int, num : Tels, in : BOOLEAN, time : Nat, rich : BOOLEAN,
           rcs : Nat, group : Int, state : States, read : BOOLEAN]

Contents(table) == {table[i] : i \in DOMAIN table}
TelUnique(sessions) ==
  \A i, j \in DOMAIN sessions : sessions[i].tel = sessions[j].tel => i = j
KeyUnique(rows) ==
  \A i, j \in DOMAIN rows : KeyOf(rows[i]) = KeyOf(rows[j]) => i = j

(* A store a phone can have: messages of one key are one message, and none *)
(* is from the future.                                                     *)
WellFormed(db) ==
  /\ db.session \in Seq(SessionRow) /\ db.msg \in Seq(MsgRow) /\ db.rcs \in Seq(RcsRow)
  /\ TelUnique(db.session) /\ KeyUnique(db.msg)
  /\ \A row \in Contents(db.msg) \union Contents(db.rcs) : row.time < Now

(* And as a backup: has_draft tells whether there is a draft, and an RCS   *)
(* row belongs to at most one message, and to that of the same key if      *)
(* there is one.  Nothing is assumed of the groups.                        *)
WellFormedBackup(db) ==
  /\ WellFormed(db) /\ KeyUnique(db.rcs)
  /\ \A m \in Contents(db.msg) : m.sess \in DOMAIN db.session
                                 /\ (m.rich <=> m.rcs \in DOMAIN db.rcs)
  /\ \A i \in DOMAIN db.session :
       db.session[i].draft <=> \E m \in Contents(db.msg) : m.sess = i /\ m.state = "draft"
  /\ \A i, j \in DOMAIN db.msg :
       i # j /\ db.msg[i].rich /\ db.msg[j].rich => db.msg[i].rcs # db.msg[j].rcs
  /\ \A i \in DOMAIN db.msg, r \in DOMAIN db.rcs :
       KeyOf(db.msg[i]) = KeyOf(db.rcs[r]) => db.msg[i].rich /\ db.msg[i].rcs = r

ASSUME NextCopyAssumption ==
  /\ PageSize \in Nat \ {0} /\ {MaxTroubles, MaxRuns, Now} \subseteq Nat
  /\ \A db \in OldDbs : WellFormedBackup(db)
  /\ \A db \in NewDbs : WellFormed(db)
  (* What both phones have is a draft on both or on neither.               *)
  /\ \A from \in OldDbs, to \in NewDbs :
       \A m \in Contents(from.msg), n \in Contents(to.msg) :
         KeyOf(m) = KeyOf(n) => (m.state = "draft" <=> n.state = "draft")

(* And a draft is in the session of its receiver on both.                  *)
ASSUME DraftAssumption ==
  \A from \in OldDbs, to \in NewDbs :
    \A m \in Contents(from.msg), n \in Contents(to.msg) :
      KeyOf(m) = KeyOf(n) /\ m.state = "draft" =>
        n.sess \in DOMAIN to.session
        /\ Similar(from.session[m.sess].tel, to.session[n.sess].tel)

VARIABLES
  old,          (* The backup, copied into the extension's directory.      *)
  session,      (* Tables of the new phone: from row ids to rows.  A row   *)
  sms,          (* of sms also says, for the properties only, from which   *)
  rcs,          (* row of which table and by which restore it was copied.  *)
  seq,          (* Their AUTOINCREMENT counters.                           *)
  pc,           (* The table or step the restore has reached.              *)
  pos,          (* The next row of the table being copied.                 *)
  todo,         (* What the step still has to write, by session.           *)
  mem,          (* The maps of the module and the instance's counters.     *)
  pending,      (* Updates issued without await: [msg, rcs].               *)
  runs,
  troubles,
  flaws         (* History: the restores in which something failed;        *)
                (* whether a query of the new store did; whether a message *)
                (* arrived between start and end of the copying, or with a *)
                (* new session; the sessions written after their counting. *)

tables == <<session, sms, rcs, seq>>
bounds == <<runs, troubles>>
vars == <<old, session, sms, rcs, seq, pc, pos, todo, mem, pending, runs,
          troubles, flaws>>

Nothing == <<>>
NewMem == [snapSession |-> Nothing, snapSms |-> Nothing, snapRcs |-> Nothing,
           rawSession |-> Nothing, rcsMsg |-> Nothing, rcsGroup |-> Nothing,
           timeGroup |-> Nothing, maxGroup |-> 0, drop |-> Nothing,
           threads |-> {}, newRcs |-> 0, mmsFailed |-> 0, err |-> FALSE]

TypeOK ==
  /\ old \in OldDbs
  /\ \A i \in DOMAIN session : session[i] \in SessionRow
  /\ \A i \in DOMAIN rcs : rcs[i] \in RcsRow
  /\ \A i \in DOMAIN sms : Restrict(sms[i], DOMAIN sms[i] \ {"from", "run"}) \in MsgRow
  /\ DOMAIN session \subseteq 1..seq.session
  /\ DOMAIN sms \subseteq 1..seq.sms /\ DOMAIN rcs \subseteq 1..seq.rcs
  /\ pos \in Nat /\ DOMAIN mem = DOMAIN NewMem
  /\ DOMAIN mem.rawSession \subseteq DOMAIN old.session
  /\ Range(mem.rawSession) \subseteq DOMAIN session
  /\ DOMAIN mem.drop \subseteq DOMAIN session
  /\ Range(mem.snapSms) \subseteq 1..seq.sms
  /\ \A u \in pending : u.msg \in 1..seq.sms /\ u.rcs \in DOMAIN rcs

(* A row of sms: message m, which was copied from row from in restore run. *)
RowOf(m, from, run) ==
  [sess |-> m.sess, num |-> m.num, in |-> m.in, time |-> m.time, rich |-> m.rich,
   rcs |-> m.rcs, group |-> m.group, state |-> m.state, read |-> m.read,
   from |-> from, run |-> run]

Init ==
  /\ old \in OldDbs
  /\ \E db \in NewDbs :
       /\ session = db.session /\ rcs = db.rcs
       /\ sms = [i \in DOMAIN db.msg |-> RowOf(db.msg[i], 0, 0)]
       /\ seq = [session |-> Len(db.session), sms |-> Len(db.msg), rcs |-> Len(db.rcs)]
  /\ pc = "idle" /\ pos = 1 /\ todo = Nothing /\ mem = NewMem /\ pending = {}
  /\ runs = 0 /\ troubles = 0
  /\ flaws = [failed |-> {}, blind |-> FALSE, late |-> FALSE, stale |-> {}]

-----------------------------------------------------------------------------
(* Failures, one of them at a time.                                        *)

Trouble == troubles < MaxTroubles /\ troubles' = troubles + 1

(* An operation on the new store that returned -1, or threw, in restore r. *)
FailsIn(r) == Trouble /\ flaws' = [flaws EXCEPT !.failed = @ \union {r}]

(* A query that threw, and so returned nothing.                            *)
BlindIn(r) ==
  Trouble /\ flaws' = [flaws EXCEPT !.failed = @ \union {r}, !.blind = TRUE]

Fails == FailsIn(runs)
Blind == BlindIn(runs)
Works == UNCHANGED <<troubles, flaws>>

-----------------------------------------------------------------------------
(* What the restore reads.                                                 *)

(* For each key, the last of the rows that have it.                        *)
Latest(keys) ==
  [k \in Range(keys) |-> Max({i \in DOMAIN keys : keys[i] = k})]

QuerySession ==
  LET last == Latest([i \in DOMAIN session |-> session[i].tel])
  IN [t \in DOMAIN last |-> [id |-> last[t], row |-> session[last[t]]]]

(* A direction left out of one of the two keys, for comparison.            *)
QuerySmsInfoNoDirection ==
  Latest([i \in DOMAIN sms |-> <<sms[i].num, sms[i].time>>])

QuerySmsInfo == Latest([i \in DOMAIN sms |-> KeyOf(sms[i])])

QueryRcs == Latest([i \in DOMAIN rcs |-> KeyOf(rcs[i])])

(* Counting the messages instead, for comparison.                          *)
QueryMaxGroupIdCount == Cardinality(DOMAIN sms)

QueryMaxGroupId == Max({sms[i].group : i \in DOMAIN sms} \union {0})

DraftTimes(s) ==
  {sms[i].time : i \in {j \in DOMAIN sms : sms[j].sess = s /\ sms[j].state = "draft"}}

(* Drafts of either phone, for comparison.                                 *)
UpdateNewSessionDropDraftAll(drop) ==
  [s \in DOMAIN drop |-> [drop[s] EXCEPT !.time = Max({@} \union DraftTimes(s))]]

(* The new phone's drafts count only where the old one has none.           *)
UpdateNewSessionDropDraft(drop) ==
  [s \in DOMAIN drop |->
     IF drop[s].isOld THEN drop[s]
     ELSE [drop[s] EXCEPT !.time = Max({@} \union DraftTimes(s))]]

-----------------------------------------------------------------------------
(* Writing a row.                                                          *)

NextId(table) == seq[table] + 1

Put(f, k, v) == [x \in DOMAIN f \union {k} |-> IF x = k THEN v ELSE f[x]]
Without(f, k) == Restrict(f, DOMAIN f \ {k})

(* A trigger of the store counts the unread rows of a session, the RCS     *)
(* messages in both tables.                                                *)
TriggerCount(sms2, rcs2, s) ==
  Cardinality({i \in DOMAIN sms2 : sms2[i].sess = s /\ ~sms2[i].read})
    + Cardinality({i \in DOMAIN rcs2 : rcs2[i].sess = s /\ ~rcs2[i].read})

Triggered(row) ==
  session' = IF row.read \/ row.sess \notin DOMAIN session THEN session
             ELSE [session EXCEPT ![row.sess].unread = TriggerCount(sms', rcs', row.sess)]

InsertSms(row) ==
  /\ sms' = Put(sms, NextId("sms"), row)
  /\ seq' = [seq EXCEPT !.sms = NextId("sms")]
  /\ UNCHANGED rcs
  /\ Triggered(row)

InsertRcs(row) ==
  /\ rcs' = Put(rcs, NextId("rcs"), row)
  /\ seq' = [seq EXCEPT !.rcs = NextId("rcs")]
  /\ UNCHANGED sms
  /\ Triggered(row)

UpdateSession(s, row) ==
  /\ session' = [session EXCEPT ![s] = row]
  /\ UNCHANGED <<sms, rcs, seq>>

-----------------------------------------------------------------------------
(* Starting, paging, crashing.                                             *)

(* The database files are copied from the backup; without them no row is   *)
(* read, the error goes to the callback, and the counts are reported. The  *)
(* extension is started anew for each restore: the maps are empty.         *)
CopyDbListFileForClone ==
  /\ pc \in {"idle", "done"} /\ runs < MaxRuns /\ pending = {}
  /\ runs' = runs + 1
  /\ \/ /\ pc' = "session" /\ mem' = [NewMem EXCEPT !.snapSession = QuerySession]
        /\ UNCHANGED troubles /\ flaws' = [flaws EXCEPT !.stale = {}]
     \/ pc' = "session" /\ mem' = NewMem /\ BlindIn(runs + 1)
     \/ pc' = "done" /\ mem' = [NewMem EXCEPT !.err = TRUE] /\ FailsIn(runs + 1)
  /\ pos' = 1 /\ todo' = Nothing
  /\ UNCHANGED <<old, tables, pending>>

Table(p) == CASE p = "session" -> old.session [] p = "mms" -> old.msg
              [] p \in {"rcs", "integrate"} -> old.rcs [] OTHER -> <<>>

Row == Table(pc)[pos]
AtRow(p) == pc = p /\ pos <= Len(Table(p))
AtEnd(p) == pc = p /\ pos > Len(Table(p))

(* An exception ends the page: its other rows are skipped and not counted  *)
(* as failed, and the copy goes on with the next page.                     *)
PageFails ==
  /\ \E p \in {"session", "mms", "rcs"} : AtRow(p)
  /\ pos' = pos - ((pos - 1) % PageSize) + PageSize
  /\ mem' = [mem EXCEPT !.err = TRUE]
  /\ Fails
  /\ UNCHANGED <<old, tables, pc, todo, pending, runs>>

(* The extension dies, and what it had not awaited with it.                *)
Crash ==
  /\ pc \notin {"idle", "done"} \/ pending # {}
  /\ Trouble
  /\ pc' = "idle" /\ pos' = 1 /\ todo' = Nothing /\ mem' = NewMem /\ pending' = {}
  /\ UNCHANGED <<old, tables, runs, flaws>>

-----------------------------------------------------------------------------
(* Sessions.                                                               *)

(* The snapshot's sessions an old one may be merged into: that of the same *)
(* telephone, else any with the same last digits.                          *)
MatchesByTail(t) ==
  {k \in DOMAIN mem.snapSession : LastDigits[t] # NoTail /\ LastDigits[k] = LastDigits[t]}

Matches(t) ==
  IF t \in DOMAIN mem.snapSession THEN {t}
  ELSE {k \in DOMAIN mem.snapSession : LastDigits[t] # NoTail /\ LastDigits[k] = LastDigits[t]}

(* What is to become of the drafts of session s, said by the last match.   *)
Dropping(drop, s, isOld) == Put(drop, s, [isOld |-> isOld, time |-> -1])

(* The old phone's row, but for a draft or a later pin of the new one.     *)
BuildUpdateSessionItem(o, snap) ==
  [o EXCEPT !.draft = IF ~snap.draft THEN @ ELSE TRUE, !.pin = Max({@, snap.pin})]

(* An existing session is overwritten by a later one; else it only takes   *)
(* over a draft and a pin, by an update each, of which one may fail.       *)
MergeSession ==
  /\ AtRow("session")
  /\ \E k \in Matches(Row.tel) :
       LET o == Row
           snap == mem.snapSession[k].row
           s == mem.snapSession[k].id
           pin == Max({o.pin, snap.pin})
           now == session[s]
           drafted == IF o.draft THEN [now EXCEPT !.draft = TRUE] ELSE now
           pinned(row) == IF pin > 0 THEN [row EXCEPT !.pin = pin] ELSE row
       IN /\ IF o.time > snap.time
             THEN \/ UpdateSession(s, BuildUpdateSessionItem(o, snap)) /\ Works
                  \/ UNCHANGED tables /\ Fails
             ELSE \/ UpdateSession(s, pinned(drafted)) /\ Works
                  \/ o.draft /\ UpdateSession(s, pinned(now)) /\ Fails
                  \/ pin > 0 /\ UpdateSession(s, drafted) /\ Fails
          /\ mem' = [mem EXCEPT !.rawSession = Put(@, pos, s),
                       !.drop = IF snap.draft \/ o.draft THEN Dropping(@, s, o.draft) ELSE @]
  /\ pos' = pos + 1
  /\ UNCHANGED <<old, pc, todo, pending, runs>>

InsertSessionItem ==
  /\ AtRow("session") /\ Matches(Row.tel) = {}
  /\ LET s == NextId("session")
     IN \/ /\ session' = Put(session, s, Row)
           /\ seq' = [seq EXCEPT !.session = s]
           /\ mem' = [mem EXCEPT !.rawSession = Put(@, pos, s),
                        !.drop = IF Row.draft THEN Dropping(@, s, TRUE) ELSE @]
           /\ UNCHANGED <<sms, rcs>> /\ Works
        \/ UNCHANGED <<tables, mem>> /\ Fails
  /\ pos' = pos + 1
  /\ UNCHANGED <<old, pc, todo, pending, runs>>

(* Between the tables the new store is read, each time by queries that     *)
(* return nothing when they fail.                                          *)
DoMmsTableCopy ==
  /\ AtEnd("session")
  /\ LET read == [mem EXCEPT !.drop = UpdateNewSessionDropDraft(@),
                    !.snapSms = QuerySmsInfo, !.maxGroup = QueryMaxGroupId]
     IN \/ mem' = read /\ Works
        \/ mem' = [read EXCEPT !.drop = mem.drop] /\ Blind
        \/ mem' = [read EXCEPT !.snapSms = Nothing] /\ Blind
        \/ mem' = [read EXCEPT !.maxGroup = 0] /\ Blind
  /\ pc' = "mms" /\ pos' = 1
  /\ UNCHANGED <<old, tables, todo, pending, runs>>

DoRcsTableCopy ==
  /\ AtEnd("mms")
  /\ \/ mem' = [mem EXCEPT !.snapRcs = QueryRcs] /\ Works
     \/ UNCHANGED mem /\ Blind
  /\ pc' = "rcs" /\ pos' = 1
  /\ UNCHANGED <<old, tables, todo, pending, runs>>

-----------------------------------------------------------------------------
(* Messages.                                                               *)

At(f, k, default) == IF k \in DOMAIN f THEN f[k] ELSE default

(* The old id taken for the new one, for comparison.                       *)
ThreadOfUnmapped(s, default) == IF s \in DOMAIN mem.rawSession THEN s ELSE default

ThreadOf(s, default) == At(mem.rawSession, s, default)

(* RCS messages keep their groups together by the old group, the others by *)
(* the time they were sent at.                                             *)
GroupOf(m) ==
  At(IF m.rich THEN mem.rcsGroup ELSE mem.timeGroup,
     IF m.rich THEN m.group ELSE m.time, mem.maxGroup + 1)

Grouped(md, rich, key, group) ==
  IF key \in DOMAIN (IF rich THEN md.rcsGroup ELSE md.timeGroup) THEN md
  ELSE IF rich THEN [md EXCEPT !.rcsGroup = Put(@, key, group), !.maxGroup = group]
  ELSE [md EXCEPT !.timeGroup = Put(@, key, group), !.maxGroup = group]

IsStuck(m) == m.in /\ m.state = "sending"

GetSmsMmsInfoItem(m) ==
  [RowOf(m, pos, runs) EXCEPT !.sess = ThreadOf(@, NoSession), !.group = GroupOf(m),
                              !.state = IF IsStuck(m) THEN "ok" ELSE @]

UpdateOldSessionDropDraft(drop, item) ==
  IF item.state = "draft" /\ item.sess \in DOMAIN drop /\ drop[item.sess].isOld
  THEN [drop EXCEPT ![item.sess].time = Max({@, item.time})] ELSE drop

(* The old message m is message id now, new or found.                      *)
Copied(md, m, id) ==
  [Grouped(md, m.rich, IF m.rich THEN m.group ELSE m.time, GroupOf(m)) EXCEPT
     !.rcsMsg = Put(@, m.rcs, id),
     !.drop = UpdateOldSessionDropDraft(@, GetSmsMmsInfoItem(m))]

NotCounted(md) == md

Failed(md) == [md EXCEPT !.mmsFailed = @ + 1]

(* One message of the page: found by its key, inserted, or failed.         *)
QueryMmsTable ==
  /\ AtRow("mms")
  /\ LET m == Row
         key == KeyOf(m)
         thread == ThreadOf(m.sess, NoSession)
         touched == [mem EXCEPT !.threads =
                       IF IsStuck(m) /\ thread # NoSession THEN @ \union {thread} ELSE @]
     IN IF key \in DOMAIN mem.snapSms
        THEN mem' = Copied(touched, m, mem.snapSms[key]) /\ UNCHANGED tables /\ Works
        ELSE \/ /\ mem' = Copied(touched, m, NextId("sms"))
                /\ InsertSms(GetSmsMmsInfoItem(m))
                /\ Works
             \/ mem' = Failed(touched) /\ UNCHANGED tables /\ Fails
  /\ pos' = pos + 1
  /\ UNCHANGED <<old, pc, todo, pending, runs>>

-----------------------------------------------------------------------------
(* RCS messages.                                                           *)

RcsGroupOf(r) == At(mem.rcsGroup, r.group, mem.maxGroup + 1)

(* Only an inserted RCS row linked, for comparison.                        *)
RcsCopiedIfNew(id) ==
  /\ mem' = [Grouped(mem, TRUE, Row.group, RcsGroupOf(Row)) EXCEPT !.newRcs = id]
  /\ IF id = NextId("rcs") /\ pos \in DOMAIN mem.rcsMsg
     THEN pending' = pending \union {[msg |-> mem.rcsMsg[pos], rcs |-> id]} ELSE UNCHANGED pending
  /\ IF pos \in DOMAIN mem.rcsMsg THEN pos' = pos + 1 /\ pc' = pc
     ELSE pc' = "integrate" /\ UNCHANGED pos

(* Found or inserted, an RCS row is linked to its message by an update     *)
(* nobody waits for; without a message it is given one.                    *)
RcsCopied(id) ==
  /\ mem' = [Grouped(mem, TRUE, Row.group, RcsGroupOf(Row)) EXCEPT !.newRcs = id]
  /\ IF pos \in DOMAIN mem.rcsMsg
     THEN /\ pending' = pending \union {[msg |-> mem.rcsMsg[pos], rcs |-> id]}
          /\ pos' = pos + 1 /\ pc' = pc
     ELSE pc' = "integrate" /\ UNCHANGED <<pending, pos>>

QueryRcsTable ==
  /\ AtRow("rcs")
  /\ IF KeyOf(Row) \in DOMAIN mem.snapRcs
     THEN RcsCopied(mem.snapRcs[KeyOf(Row)]) /\ UNCHANGED tables /\ Works
     ELSE \/ /\ RcsCopied(NextId("rcs"))
             /\ InsertRcs([Row EXCEPT !.sess = ThreadOf(@, 0), !.group = RcsGroupOf(Row)])
             /\ Works
          \/ /\ pos' = pos + 1
             /\ UNCHANGED <<tables, mem, pending, pc>> /\ Fails
  /\ UNCHANGED <<old, todo, runs>>

GetSmsMmsInfoItemFromRcsInfo ==
  /\ pc = "integrate"
  /\ \/ /\ InsertSms([sess |-> ThreadOf(Row.sess, NoSession), num |-> Row.num,
                      in |-> Row.in, time |-> Row.time, rich |-> TRUE,
                      rcs |-> mem.newRcs, group |-> mem.rcsGroup[Row.group],
                      state |-> "ok", read |-> Row.read, from |-> -pos, run |-> runs])
        /\ Works
     \/ UNCHANGED tables /\ Fails
  /\ pc' = "rcs" /\ pos' = pos + 1
  /\ UNCHANGED <<old, todo, mem, pending, runs>>

Late == pc \in {"unread", "count", "done"}

(* An update that was not awaited reaches the store; the trigger runs.     *)
UpdateSms ==
  \E u \in pending :
    /\ IF u.msg \in DOMAIN sms
       THEN \/ /\ sms' = [sms EXCEPT ![u.msg].rcs = u.rcs]
               /\ UNCHANGED <<rcs, seq, troubles>>
               /\ Triggered(sms[u.msg])
               /\ flaws' = IF Late THEN [flaws EXCEPT !.stale = @ \union {sms[u.msg].sess}]
                           ELSE flaws
            \/ UNCHANGED tables /\ Fails
       ELSE UNCHANGED <<tables, troubles, flaws>>
    /\ pending' = pending \ {u}
    /\ UNCHANGED <<old, pc, pos, todo, mem, runs>>

-----------------------------------------------------------------------------
(* Putting the sessions right.                                             *)

(* From a step to the next, whose writes are planned from what it reads.   *)
Then(from, to, plan) ==
  /\ pc = from /\ todo = Nothing
  /\ pc' = to /\ todo' = plan
  /\ UNCHANGED <<old, pos, mem, pending, runs>>

Did(step, s) ==
  /\ pc = step /\ s \in DOMAIN todo
  /\ todo' = Without(todo, s)
  /\ UNCHANGED <<old, pc, pos, mem, pending, runs>>

(* A failure ends the step, whose writes are in one try.                   *)
Abandoned(step) ==
  /\ pc = step /\ todo # Nothing
  /\ todo' = Nothing
  /\ UNCHANGED <<old, tables, pc, pos, mem, pending, runs>> /\ Fails

StartDrafts ==
  /\ AtEnd("rcs")
  /\ LET kept == {s \in DOMAIN mem.drop : mem.drop[s].time # -1}
     IN Then("rcs", "drafts", [s \in kept |-> mem.drop[s].time])
  /\ UNCHANGED tables /\ Works

(* Drafts of another time go if there is one of the time to keep.          *)
DeleteInvalidDraft ==
  \E s \in DOMAIN todo :
    LET others == {i \in DOMAIN sms : /\ sms[i].sess = s /\ sms[i].state = "draft"
                                      /\ sms[i].time # todo[s]}
    IN /\ Did("drafts", s)
       /\ \/ /\ sms' = IF todo[s] \in DraftTimes(s)
                       THEN Restrict(sms, DOMAIN sms \ others) ELSE sms
             /\ UNCHANGED <<session, rcs, seq>> /\ Works
          \/ UNCHANGED tables /\ Fails

(* The state of the newest message of each session that had a stuck one.   *)
ProcessUpdateSession ==
  LET In(s) == {i \in DOMAIN sms : sms[i].sess = s}
      newest(s) == CHOOSE i \in In(s) : \A j \in In(s) : sms[j].time <= sms[i].time
  IN \/ /\ Then("drafts", "sending",
                [s \in {t \in mem.threads : In(t) # {}} |-> sms[newest(s)].state])
        /\ UNCHANGED tables /\ Works
     \/ \E s \in DOMAIN todo :
          /\ Did("sending", s)
          /\ UpdateSession(s, [session[s] EXCEPT !.sending = todo[s]])
          /\ Works
     \/ Abandoned("sending")

(* An RCS message is counted in its own table only.                        *)
UnreadCount(s) ==
  Cardinality({i \in DOMAIN sms : sms[i].sess = s /\ ~sms[i].read /\ ~sms[i].rich})
    + Cardinality({i \in DOMAIN rcs : rcs[i].sess = s /\ ~rcs[i].read})

(* The counters of other sessions left alone, for comparison.              *)
NotReset == session

ResetUnread == [s \in DOMAIN session |-> [session[s] EXCEPT !.unread = 0]]

(* All counters are reset, and those of sessions with unread messages set. *)
RecountAndUpdateUnread ==
  LET counts == [s \in {t \in DOMAIN session : UnreadCount(t) > 0} |-> UnreadCount(s)]
      reset == session' = ResetUnread
  IN \/ /\ \/ Then("sending", "unread", counts) /\ reset /\ Works
           \/ Then("sending", "unread", Nothing) /\ reset /\ Fails
           \/ Then("sending", "unread", counts) /\ UNCHANGED session /\ Fails
        /\ UNCHANGED <<sms, rcs, seq>>
     \/ \E s \in DOMAIN todo :
          /\ Did("unread", s)
          /\ \/ UpdateSession(s, [session[s] EXCEPT !.unread = todo[s]]) /\ Works
             \/ UNCHANGED tables /\ Fails

GroupCount(s) ==
  Cardinality({sms[i].group : i \in {j \in DOMAIN sms : sms[j].sess = s
                                                         /\ sms[j].state # "draft"}})

UpdateSessionMsgCount ==
  \/ /\ Then("unread", "count",
             [s \in {t \in DOMAIN session : session[t].count # GroupCount(t)} |-> GroupCount(s)])
     /\ UNCHANGED tables /\ Works
  \/ \E s \in DOMAIN todo :
       /\ Did("count", s)
       /\ UpdateSession(s, [session[s] EXCEPT !.count = todo[s]])
       /\ Works
  \/ Abandoned("count")

Finish == Then("count", "done", Nothing) /\ UNCHANGED tables /\ Works

(* What queryNextCount reports.                                            *)
ReportedSuccess == pc = "done" /\ mem.mmsFailed = 0

-----------------------------------------------------------------------------
(* The data ability inserts a message received for telephone t, in a group *)
(* of its own and in the session of t or a new one.                        *)
Receive(t) ==
  LET ofT == {s \in DOMAIN session : session[s].tel = t}
      s == IF ofT = {} THEN NextId("session") ELSE Max(ofT)
      time == Now + troubles
      groups == {sms[i].group : i \in DOMAIN sms} \union {rcs[i].group : i \in DOMAIN rcs}
      before == IF ofT = {} THEN [tel |-> t, time |-> time, draft |-> FALSE, pin |-> 0,
                                  sending |-> "ok", unread |-> 0, count |-> 0]
                ELSE session[s]
  IN /\ runs > 0 /\ Trouble
     /\ sms' = Put(sms, NextId("sms"),
          [sess |-> s, num |-> t, in |-> TRUE, time |-> time, rich |-> FALSE, rcs |-> NoRcs,
           group |-> Max(groups \union {0}) + 1, state |-> "ok", read |-> FALSE,
           from |-> 0, run |-> 0])
     /\ seq' = [seq EXCEPT !.sms = NextId("sms"),
                           !.session = IF ofT = {} THEN s ELSE @]
     /\ session' = Put(session, s, [before EXCEPT !.time = time, !.count = @ + 1,
                                                  !.unread = TriggerCount(sms', rcs, s)])
     /\ flaws' = [flaws EXCEPT !.late = @ \/ pc # "done" \/ ofT = {},
                               !.stale = IF Late THEN @ \union {s} ELSE @]
     /\ UNCHANGED <<old, rcs, pc, pos, todo, mem, pending, runs>>

Next ==
  \/ CopyDbListFileForClone \/ PageFails \/ Crash
  \/ MergeSession \/ InsertSessionItem
  \/ DoMmsTableCopy \/ QueryMmsTable
  \/ DoRcsTableCopy \/ QueryRcsTable \/ GetSmsMmsInfoItemFromRcsInfo \/ UpdateSms
  \/ StartDrafts \/ DeleteInvalidDraft \/ ProcessUpdateSession
  \/ RecountAndUpdateUnread \/ UpdateSessionMsgCount \/ Finish
  \/ \E t \in Tels : Receive(t)

Spec == Init /\ [][Next]_vars

-----------------------------------------------------------------------------
(* Properties.                                                             *)

(* However often the backup is restored, and wherever it was cut short, a  *)
(* message of the old phone is in the new one once: as long as the keys of *)
(* the messages there could be read.  The exception are RCS messages whose *)
(* message is not in the backup, or failed: they get one of their own, and *)
(* did not look for one the new phone had before.                          *)
NoDuplicateMessage ==
  ~flaws.blind =>
    \A i, j \in DOMAIN sms :
      KeyOf(sms[i]) = KeyOf(sms[j]) /\ i # j =>
        LET own == {k \in {i, j} : sms[k].from < 0}
        IN \/ own = {i, j}
           \/ own # {} /\ (flaws.failed # {} \/ \E k \in {i, j} : sms[k].from = 0)

(* Merging never leaves two sessions of one telephone, whichever of them   *)
(* was renamed by a match of the last digits, unless a message arrives     *)
(* for a telephone while its old session is being copied.                  *)
OneSessionPerTel ==
  ~flaws.blind /\ ~flaws.late =>
    \A s, t \in DOMAIN session : session[s].tel = session[t].tel => s = t

(* A copied message is in a session of the telephone its old session had,  *)
(* up to the country code; without one only if the session was not copied. *)
MessageInItsSession ==
  \A i \in {j \in DOMAIN sms : sms[j].from > 0} :
    LET s == sms[i].sess
        t == old.session[old.msg[sms[i].from].sess].tel
    IN \/ s = NoSession /\ flaws.failed # {}
       \/ /\ s \in DOMAIN session
          /\ \/ session[s].tel = t
             \/ LastDigits[t] # NoTail /\ LastDigits[session[s].tel] = LastDigits[t]

(* What a copied row was sent as: an RCS message by its group, another by  *)
(* its time.                                                               *)
Sending(row) ==
  IF row.from > 0
  THEN LET m == old.msg[row.from] IN <<m.rich, IF m.rich THEN m.group ELSE m.time>>
  ELSE <<TRUE, old.rcs[-row.from].group>>

ReceivedMeanwhile(row) == flaws.late /\ row.from = 0 /\ row.time >= Now

(* Messages copied by one restore share a group exactly if they are RCS    *)
(* messages of one old group, or others of one time, whatever groups those *)
(* were in: unrelated messages of one time become one, and a group of      *)
(* different times is split.  None shares a group with a message of        *)
(* another restore or of the new phone, though crashes lose the maps and   *)
(* messages arrive meanwhile; but one of the latter may take the group of  *)
(* a message copied after it, as the greatest group is read only once.     *)
GroupsKept ==
  ~flaws.blind =>
    \A i, j \in DOMAIN sms :
      sms[i].from # 0 /\ i # j /\ ~ReceivedMeanwhile(sms[j]) =>
        (sms[i].group = sms[j].group
           <=> sms[j].from # 0 /\ sms[i].run = sms[j].run /\ Sending(sms[i]) = Sending(sms[j]))

Clean == pc = "done" /\ runs \notin flaws.failed

(* After a restore in which nothing failed, whatever happened to those     *)
(* before it, every RCS message of the backup but a draft is the content   *)
(* of its message, as soon as the updates nobody waited for have run.      *)
RcsLinked ==
  Clean /\ pending = {} =>
    \A k \in {k \in DOMAIN old.msg : old.msg[k].rich /\ old.msg[k].state # "draft"} :
      \E i \in DOMAIN sms :
        /\ KeyOf(sms[i]) = KeyOf(old.msg[k])
        /\ sms[i].rcs \in DOMAIN rcs
        /\ KeyOf(rcs[sms[i].rcs]) = KeyOf(old.rcs[old.msg[k].rcs])

OldDrafts(j) == {m \in Range(old.msg) : m.sess = j /\ m.state = "draft"}
LatestDraft(j) == Max({m.time : m \in OldDrafts(j)})

DraftKept(j) ==
  LET s == mem.rawSession[j]
  IN session[s].draft /\ DraftTimes(s) = {LatestDraft(j)}

(* Old session j alone became its session, the only one of its telephone.  *)
MergedAlone(j) ==
  LET s == mem.rawSession[j]
  IN /\ \A k \in DOMAIN mem.rawSession : mem.rawSession[k] = s => k = j
     /\ \A t \in DOMAIN session : Similar(old.session[j].tel, session[t].tel) => t = s

(* SESSION_DROP_DRAFT: where both phones have a draft the old one's is     *)
(* kept, alone: if only one old session was merged into that session, and  *)
(* no other session has its last digits, where an earlier restore may have *)
(* put the draft.  A draft copied while its session failed stays without   *)
(* one for ever.                                                           *)
OldDraftKept ==
  pc = "done" /\ flaws.failed = {} =>
    \A j \in DOMAIN old.session :
      old.session[j].draft /\ MergedAlone(j) => DraftKept(j)

(* The same of any session with a draft, as the comment says.              *)
EveryOldDraftKept ==
  pc = "done" /\ flaws.failed = {} /\ ~flaws.late =>
    \A j \in {k \in DOMAIN old.session : old.session[k].draft} : DraftKept(j)

(* After a restore in which nothing failed the counters of a session are   *)
(* right, unless a message arrived, or a late update ran, since they were  *)
(* counted.                                                                *)
CountsRight ==
  Clean =>
    \A s \in DOMAIN session \ flaws.stale :
      session[s].unread = UnreadCount(s) /\ session[s].count = GroupCount(s)

(* When the report says success and no error went to the callback, every   *)
(* message of the backup but a draft is in the new phone, whatever failed. *)
ReportHonest ==
  ReportedSuccess /\ ~mem.err =>
    \A k \in DOMAIN old.msg :
      old.msg[k].state # "draft" => \E i \in DOMAIN sms : KeyOf(sms[i]) = KeyOf(old.msg[k])
=============================================================================
