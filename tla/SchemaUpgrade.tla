--------------------------- MODULE SchemaUpgrade ---------------------------
(***************************************************************************)
(* Opening the store of the messages, of the SIM cards or of the APN       *)
(* profiles: the callback creates it or carries it through the versions    *)
(* since its own, one statement after the other and outside any            *)
(* transaction; a message store is then completed and backed up, and one   *)
(* that was rebuilt because its file was damaged is restored from the      *)
(* backup and opened again.  The version is set after the last step, so a  *)
(* process that dies in between begins the same steps anew.                *)
(***************************************************************************)
EXTENDS SchemaSteps, FiniteSets

CONSTANTS
  Starts,       (* <<store, version, step>> that may be found: the version *)
                (* of a file, 0 for none, and the last step of an upgrade  *)
                (* that died, or again the version.                        *)
  Msgs,         (* Rows of sms_mms_info, some of them                      *)
  RcsMsgs,      (*   with a row in rcs_info,                               *)
  Collected,    (*   marked as favourites before there was a table,        *)
  Orphans,      (*   of no session and not blocked,                        *)
  Later,        (*   or received only once the store is open.              *)
  Ext,          (* OHOS_BUILD_ENABLE_TELEPHONY_EXT.                        *)
  MaxFaults     (* Bound: statements and calls that fail, and deaths of    *)
                (* the process; one damage to the file comes on top.       *)

ASSUME SchemaAssumption ==
  /\ Starts \subseteq {s \in Stores \X Nat \X Nat : s[2] <= s[3]}
  /\ RcsMsgs \subseteq Msgs /\ Collected \subseteq Msgs
  /\ Orphans \subseteq Msgs /\ Later \subseteq Msgs
  /\ Ext \in BOOLEAN /\ MaxFaults \in Nat

VARIABLES
  store,        (* The store of this behaviour,                            *)
  db,           (* its file: [version, schema, rows, rcs, fav],            *)
  bak,          (* its backup, the same or NoBackup,                       *)
  damaged,      (* and whether the file is corrupt.                        *)
  pc, at,       (* What the opening does, at which version step.           *)
  needBackup,   (* Of the callback object.                                 *)
  complete,     (* isDbComplete of OnOpen.                                 *)
  rebuilt,      (* GetRebuilt.                                             *)
  retried,      (* GetRdbStore has been called a second time.              *)
  faults,
  failed,       (* History: what statements of a creation or an upgrade,   *)
  unrepaired,   (* or of OnOpen, failed to make or remove;                 *)
  saved,        (* messages a backup held and nobody removed since;        *)
  flaws         (* and the misfortunes the properties speak of.            *)

opening == <<pc, at, needBackup, complete, rebuilt, retried>>
history == <<failed, unrepaired, saved, flaws>>
vars == <<store, db, bak, damaged, opening, faults, history>>

NoRows == [m \in Msgs |-> 0]
Empty == [version |-> 0, schema |-> {}, rows |-> NoRows, rcs |-> {}, fav |-> NoRows]
NoBackup == [Empty EXCEPT !.version = -1]
Held(d) == {m \in Msgs : d.rows[m] > 0}

(* The file of an earlier release, upgraded up to step p: rows of rcs_info *)
(* are in sms_mms_info too since version 12, favourites have a table since *)
(* 23, and the upgrade makes the view of the present release.              *)
Found(s, v, p) ==
  IF v = 0 THEN Empty
  ELSE [version |-> v,
        schema  |-> Release(s, IF p > VERSION[s] THEN VERSION[s] ELSE p)
                      \union (IF p > v /\ s = "sms_mms" THEN Columns("mms_info", UpgradedView) ELSE {}),
        rows    |-> [m \in Msgs |-> IF m \notin Later /\ (m \in RcsMsgs => p >= 12) THEN 1 ELSE 0],
        rcs     |-> RcsMsgs \ Later,
        fav     |-> [m \in Msgs |-> IF m \in Collected \ Later /\ p >= 23 THEN 1 ELSE 0]]

Init ==
  /\ \E start \in Starts : store = start[1] /\ db = Found(start[1], start[2], start[3])
  /\ bak \in {NoBackup} \union
             (IF store = "sms_mms" /\ db.version > 0 THEN {Found(store, db.version, db.version)} ELSE {})
  /\ damaged = FALSE /\ pc = "closed" /\ at = 1 /\ faults = 0
  /\ needBackup = FALSE /\ complete = FALSE /\ rebuilt = FALSE /\ retried = FALSE
  /\ failed = {} /\ unrepaired = {} /\ flaws = {}
  /\ saved = IF bak = NoBackup THEN {} ELSE Held(bak)

Fault(n) == faults' = faults + n /\ faults + n <= MaxFaults
Flaw(f) == flaws' = flaws \union {f}
Count(n) == IF n > 2 THEN 2 ELSE n

(* Variants of operators below with a plausible mistake in them, to tell   *)
(* what the invariants notice: the checks for work done before left out,   *)
(* one step too many, a backup that is never renewed or always, a restore  *)
(* that is left out.                                                       *)
AlwaysCopies == FALSE
AlwaysFills == FALSE
OneStepMore ==
  LET next == IF at = 1 /\ db.version > 0 THEN db.version + 1 ELSE at + 1
  IN IF next <= VERSION[store] + 1
     THEN at' = next /\ pc' = "OnUpgrade" /\ UNCHANGED needBackup
     ELSE at' = 1 /\ pc' = "SetVersion" /\ needBackup' = (store = "sms_mms")
BackupOnce == bak = NoBackup
BackupAlways == TRUE
NotRestored == db

-----------------------------------------------------------------------------
(* What GetRdbStore calls for a file of this version.                      *)
Opening(d) ==
  CASE d.version = 0 -> "OnCreate"
    [] d.version \in 1..(VERSION[store] - 1) -> "OnUpgrade"
    [] d.version = VERSION[store] -> "OnOpen"
    [] d.version > VERSION[store] -> "OnDowngrade"

(* A damaged file is set aside for a new one.                              *)
Open ==
  /\ pc = "closed"
  /\ db' = IF damaged THEN Empty ELSE db
  /\ rebuilt' = (damaged /\ store = "sms_mms")
  /\ damaged' = FALSE
  /\ pc' = Opening(db') /\ at' = 1
  /\ needBackup' = FALSE /\ complete' = FALSE /\ retried' = FALSE
  /\ UNCHANGED <<store, bak, faults, history>>

(* The process dies, or closes the store.                                  *)
Die ==
  /\ pc' = "closed" /\ at' = 1
  /\ needBackup' = FALSE /\ complete' = FALSE /\ rebuilt' = FALSE /\ retried' = FALSE

(* What a death at this point costs: the restore of a rebuilt file, or the *)
(* backup of an upgraded one.                                              *)
DeathFlaws ==
  (IF rebuilt THEN {"rebuild"} ELSE {})
    \union (IF pc \in {"OnOpen", "fields", "components", "backup"} THEN {"backup"} ELSE {})

(* How far the statements of a function get: the first o[1] are run, and   *)
(* o[2], if not 0, is the one of them that fails.  The process dies when   *)
(* not all are run.                                                        *)
Outcomes(stmts) == {o \in (0..Len(stmts)) \X (0..Len(stmts)) : o[2] <= o[1]}
Cut(stmts, o) == o[1] < Len(stmts)
Ran(stmts, o) == {stmts[i] : i \in (1..o[1]) \ {o[2]}}
Unmade(stmts, o) ==
  Refused(db.schema, Ran(stmts, o))
    \union (IF o[2] > 0 THEN stmts[o[2]].make \union stmts[o[2]].drop ELSE {})

Execute(stmts, o) ==
  /\ Fault((IF Cut(stmts, o) THEN 1 ELSE 0) + (IF o[2] > 0 THEN 1 ELSE 0))
  /\ db' = [db EXCEPT !.schema = Executed(db.schema, Ran(stmts, o))]

-----------------------------------------------------------------------------
(* OnCreate reports what its last statement did; the one of the APN        *)
(* profiles always reports success.  Only the message store is tried once  *)
(* more, with the same callback.                                           *)
OnCreate ==
  /\ pc = "OnCreate"
  /\ \E o \in Outcomes(Creation[store]) :
       LET cut == Cut(Creation[store], o)
           err == o[2] = Len(Creation[store]) /\ store # "pdp_profile"
       IN /\ Execute(Creation[store], o)
          /\ failed' = failed \union Unmade(Creation[store], o)
          /\ \/ ~cut /\ ~err
                /\ pc' = "SetVersion"
                /\ UNCHANGED <<at, needBackup, complete, rebuilt, retried, flaws>>
             \/ ~cut /\ err /\ store = "sms_mms" /\ ~retried
                /\ retried' = TRUE
                /\ UNCHANGED <<pc, at, needBackup, complete, rebuilt, flaws>>
             \/ (cut \/ (err /\ (store = "sim" \/ retried)))
                /\ Die /\ flaws' = flaws \union DeathFlaws
  /\ UNCHANGED <<store, bak, damaged, unrepaired, saved>>

(* The steps of an upgrade are those after the version of the file.  Step  *)
(* 1 stands for CreateRcsInfoTableForcely, which comes before all others.  *)
(* The last step leaves oldVersion at newVersion whatever happened.        *)
Proceed ==
  LET next == IF at = 1 /\ db.version > 0 THEN db.version + 1 ELSE at + 1
  IN IF next <= VERSION[store]
     THEN at' = next /\ pc' = "OnUpgrade" /\ UNCHANGED needBackup
     ELSE at' = 1 /\ pc' = "SetVersion" /\ needBackup' = (store = "sms_mms")
GoOn == Proceed /\ UNCHANGED <<complete, rebuilt, retried, flaws>>

StatementsOf(p) ==
  IF p > 1 THEN Steps[store][p]
  ELSE IF store = "sms_mms" /\ db.version < 6 THEN CreateRcsInfoTableForcely ELSE <<>>
WithRows(s) == IF s = "sms_mms" THEN {12, 23, 26, 34} ELSE IF s = "pdp_profile" THEN {4} ELSE {}

(* A step whose statements run one by one, whatever they report.           *)
VersionUpTo(p) ==
  /\ pc = "OnUpgrade" /\ at = p /\ p \notin WithRows(store)
  /\ \E o \in Outcomes(StatementsOf(p)) :
       /\ Execute(StatementsOf(p), o)
       /\ failed' = failed \union Unmade(StatementsOf(p), o)
       /\ IF Cut(StatementsOf(p), o) THEN Die /\ flaws' = flaws \union DeathFlaws ELSE GoOn
  /\ UNCHANGED <<store, bak, damaged, unrepaired, saved>>

(* Whether step 12, and steps 23 and 34, have done their work before.      *)
LinksRcs == <<Sms, "rcs_id">> \in db.schema
IsFavTableExist == Table(Fav) \in db.schema

(* Step 12 gives every message of rcs_info a row in sms_mms_info, unless   *)
(* the column that links the two exists.  A query that fails says it does  *)
(* not; a death after the column was added makes the next attempt skip.    *)
VersionUpToTwelve ==
  /\ pc = "OnUpgrade" /\ store = "sms_mms" /\ at = 12
  /\ \/ /\ LinksRcs
        /\ GoOn
        /\ UNCHANGED <<db, faults, failed>>
     \/ /\ LinksRcs /\ Fault(1)
        /\ pc' = "copy" /\ Flaw("rcs twice")
        /\ UNCHANGED <<db, failed, at, needBackup, complete, rebuilt, retried>>
     \/ /\ ~LinksRcs
        /\ \E o \in Outcomes(Twelve) :
             /\ Execute(Twelve, o)
             /\ failed' = failed \union Unmade(Twelve, o)
             /\ IF Cut(Twelve, o)
                THEN /\ Die
                     /\ flaws' = flaws \union DeathFlaws \union (IF o[1] > 0 THEN {"rcs copy"} ELSE {})
                ELSE pc' = "copy" /\ UNCHANGED <<at, needBackup, complete, rebuilt, retried, flaws>>
  /\ UNCHANGED <<store, bak, damaged, unrepaired, saved>>

(* Each row is an insert of its own; the process may die between two.      *)
RcsInfoInsertSmsMmsInfo ==
  /\ pc = "copy"
  /\ \E copied \in SUBSET db.rcs, dies \in BOOLEAN :
       LET able == {<<Sms, "rcs_id">>, <<Rcs, "is_collect">>} \subseteq db.schema
       IN /\ ~able => copied = {}
          /\ Cardinality(db.rcs \ copied) < 2 \/ dies \/ ~able
          /\ Fault(IF dies \/ (able /\ copied # db.rcs) THEN 1 ELSE 0)
          /\ db' = [db EXCEPT !.rows = [m \in Msgs |-> Count(@[m] + (IF m \in copied THEN 1 ELSE 0))]]
          /\ flaws' = flaws \union (IF dies THEN DeathFlaws ELSE {})
                        \union (IF dies \/ copied # db.rcs THEN {"rcs copy"} ELSE {})
          /\ IF dies THEN Die ELSE Proceed /\ UNCHANGED <<complete, rebuilt, retried>>
  /\ UNCHANGED <<store, bak, damaged, failed, unrepaired, saved>>

(* Steps 23 and 34 create the table of the favourites and fill it with the *)
(* messages marked so far, unless the table exists.                        *)
CreateFavoriteTable ==
  /\ pc = "OnUpgrade" /\ store = "sms_mms" /\ at \in {23, 34}
  /\ \/ /\ IsFavTableExist
        /\ GoOn
        /\ UNCHANGED <<db, faults, failed>>
     \/ /\ IsFavTableExist /\ Fault(1)
        /\ pc' = "history" /\ Flaw("favourites")
        /\ UNCHANGED <<db, failed, at, needBackup, complete, rebuilt, retried>>
     \/ /\ ~IsFavTableExist
        /\ db' = [db EXCEPT !.schema = Executed(@, {CreateFavorites[1]})]
        /\ pc' = "history"
        /\ UNCHANGED <<faults, failed, flaws, at, needBackup, complete, rebuilt, retried>>
     \/ /\ ~IsFavTableExist /\ Fault(1)
        /\ failed' = failed \union CreateFavorites[1].make
        /\ Proceed /\ flaws' = (IF at = 34 THEN flaws \union {"favourites"} ELSE flaws)
        /\ UNCHANGED <<db, complete, rebuilt, retried>>
  /\ UNCHANGED <<store, bak, damaged, unrepaired, saved>>

(* One BatchInsert of all of them; the query gives nothing when one of its *)
(* columns is missing.                                                     *)
GetHistoryFavoriteItem ==
  /\ pc = "history"
  /\ LET able == {<<Sms, "rcs_id">>, <<Sms, "detect_res_content">>} \subseteq db.schema
         past == IF able THEN Collected \intersect Held(db) ELSE {}
     IN \/ /\ db' = [db EXCEPT !.fav = [m \in Msgs |-> Count(@[m] + (IF m \in past THEN db.rows[m] ELSE 0))]]
           /\ flaws' = IF able THEN flaws ELSE flaws \union {"favourites"}
           /\ UNCHANGED faults
        \/ past # {} /\ Fault(1) /\ Flaw("favourites") /\ UNCHANGED db
  /\ Proceed
  /\ UNCHANGED <<store, bak, damaged, complete, rebuilt, retried, failed, unrepaired, saved>>

(* Step 26 removes the messages of no session.  The statement on           *)
(* sms_mms_info needs the column is_blocked.                               *)
VersionUpTo26 ==
  /\ pc = "OnUpgrade" /\ store = "sms_mms" /\ at = 26
  /\ \E info, rcs \in BOOLEAN :
       LET gone == IF info /\ <<Sms, "is_blocked">> \in db.schema THEN Orphans ELSE {}
       IN /\ Fault((IF info THEN 0 ELSE 1) + (IF rcs THEN 0 ELSE 1))
          /\ db' = [db EXCEPT !.rows = [m \in Msgs |-> IF m \in gone THEN 0 ELSE @[m]],
                              !.rcs = IF rcs THEN @ \ Orphans ELSE @]
          /\ saved' = saved \ gone
          /\ flaws' = IF gone = Orphans /\ rcs THEN flaws ELSE flaws \union {"orphans"}
  /\ Proceed
  /\ UNCHANGED <<store, bak, damaged, complete, rebuilt, retried, failed, unrepaired>>

(* Step 4 of the APN profiles drops all rows in the extended build.        *)
PdpUpToFour ==
  /\ pc = "OnUpgrade" /\ store = "pdp_profile" /\ at = 4
  /\ \E o \in Outcomes(PdpFour), cleared \in BOOLEAN :
       /\ Fault((IF Cut(PdpFour, o) THEN 1 ELSE 0) + (IF o[2] > 0 THEN 1 ELSE 0)
                  + (IF Ext /\ ~cleared THEN 1 ELSE 0))
       /\ cleared => Ext
       /\ db' = [db EXCEPT !.schema = Executed(db.schema, Ran(PdpFour, o)),
                           !.rows = IF cleared THEN NoRows ELSE @]
       /\ failed' = failed \union Unmade(PdpFour, o)
       /\ IF Cut(PdpFour, o) THEN Die /\ flaws' = flaws \union DeathFlaws ELSE GoOn
  /\ UNCHANGED <<store, bak, damaged, unrepaired, saved>>

(* OnDowngrade accepts whatever a later release left.                      *)
OnDowngrade ==
  /\ pc = "OnDowngrade"
  /\ pc' = "SetVersion"
  /\ UNCHANGED <<store, db, bak, damaged, at, needBackup, complete, rebuilt, retried, faults, history>>

SetVersion ==
  /\ pc = "SetVersion"
  /\ db' = [db EXCEPT !.version = VERSION[store]]
  /\ pc' = "OnOpen"
  /\ UNCHANGED <<store, bak, damaged, at, needBackup, complete, rebuilt, retried, faults, history>>

-----------------------------------------------------------------------------
(* OnOpen of the other stores does nothing.                                *)
OnOpenOther ==
  /\ pc = "OnOpen" /\ store # "sms_mms"
  /\ pc' = "opened"
  /\ UNCHANGED <<store, db, bak, damaged, at, needBackup, complete, rebuilt, retried, faults, history>>

(* What a schema lacks of a new store or of an upgraded one, and the old   *)
(* triggers it should have lost.                                           *)
Wanted == [s \in Stores |-> Schema(s) \union Release(s, VERSION[s])]
Lacking(d) == (Wanted[store] \ d.schema) \union (OldTriggers \intersect d.schema)

(* GetVersion fails: nothing is checked.                                   *)
OnOpenNoVersion ==
  /\ pc = "OnOpen" /\ store = "sms_mms" /\ Fault(1)
  /\ pc' = "opened" /\ Flaw("backup")
  /\ unrepaired' = unrepaired \union Lacking(db)
  /\ UNCHANGED <<store, db, bak, damaged, at, needBackup, complete, rebuilt, retried, failed, saved>>

IsDbComplete == CountedTables \subseteq db.schema

(* A store that lacks one of the tables it counts, or whose count cannot   *)
(* be read, is given all statements of a new one; it is not backed up.     *)
OnOpen ==
  /\ pc = "OnOpen" /\ store = "sms_mms"
  /\ \/ /\ IsDbComplete
        /\ complete' = TRUE /\ pc' = "fields"
        /\ UNCHANGED <<db, faults, unrepaired, flaws, at, needBackup, rebuilt, retried>>
     \/ \E o \in Outcomes(InitCreateTableVec) :
          /\ ~IsDbComplete
          /\ Execute(InitCreateTableVec, o)
          /\ unrepaired' = unrepaired \union Unmade(InitCreateTableVec, o)
          /\ IF Cut(InitCreateTableVec, o)
             THEN Die /\ flaws' = flaws \union DeathFlaws
             ELSE complete' = FALSE /\ pc' = "fields" /\ Flaw("backup")
                  /\ UNCHANGED <<at, needBackup, rebuilt, retried>>
     \/ /\ IsDbComplete /\ Fault(1)
        /\ db' = [db EXCEPT !.schema = Executed(@, {InitCreateTableVec[i] : i \in DOMAIN InitCreateTableVec})]
        /\ complete' = FALSE /\ pc' = "fields" /\ Flaw("backup")
        /\ UNCHANGED <<unrepaired, at, needBackup, rebuilt, retried>>
  /\ UNCHANGED <<store, bak, damaged, failed, saved>>

(* What the checks of OnOpen run: the statements of the columns and        *)
(* components they do not find, the queries of `unseen' failing.           *)
Fields(unseen) ==
  LET Check(s, more) == IF s.make \subseteq db.schema \ unseen THEN <<>> ELSE <<s>> \o more
  IN Check(ViewFields[1], RenewView) \o Check(ViewFields[2], RenewView)
       \o Check(OtherFields[1], <<>>) \o Check(OtherFields[2], <<>>)
       \o Check(OtherFields[3], <<>>) \o Check(OtherFields[4], <<>>)
Components(unseen) ==
  LET Check(s, o) == IF o \in db.schema \ unseen THEN <<>> ELSE <<s>>
      Obsolete(n) == IF Trigger(n) \in db.schema \ unseen THEN <<Drop({Trigger(n)})>> ELSE <<>>
  IN Check(InsertSmsTrigger, Trigger("insertSms_unread_count"))
       \o Check(InsertRcsTrigger, Trigger("insertRcs_unread_count"))
       \o Check(UpdateBlockSmsTrigger, Trigger("updateBlockSms_unread_count"))
       \o Check(UpdateBlockRcsTrigger, Trigger("updateBlockRcs_unread_count"))
       \o Obsolete("updateSms_unread_count") \o Obsolete("updateRcs_unread_count")
       \o Check(CreateView(UpgradedView), View)
       \o Check(SessionIndex, Index("session_time_IDX"))
       \o Check(SmsIndex, Index("sms_mms_info_sessionId_IDX"))
       \o Check(RcsIndex, Index("rcs_info_sessionId_IDX"))
CheckedFields == Made(ViewFields) \union Made(OtherFields)
CheckedComponents == InsertTriggers \union BlockTriggers \union OldTriggers \union {View} \union Indexes

(* A repair asks for a backup; in a store that was rebuilt and is not yet  *)
(* restored that backup replaces the one to restore from.                  *)
Repair(stmts, unseen, next) ==
  \E o \in Outcomes(stmts) :
    /\ Fault(Cardinality(unseen) + (IF Cut(stmts, o) THEN 1 ELSE 0) + (IF o[2] > 0 THEN 1 ELSE 0))
    /\ db' = [db EXCEPT !.schema = Executed(db.schema, Ran(stmts, o))]
    /\ unrepaired' = unrepaired \union Unmade(stmts, o) \union (unseen \intersect OldTriggers)
    /\ IF Cut(stmts, o)
       THEN Die /\ flaws' = flaws \union DeathFlaws
       ELSE /\ pc' = next
            /\ needBackup' = (needBackup \/ stmts # <<>>)
            /\ flaws' = IF stmts # <<>> /\ (rebuilt \/ "rebuild" \in flaws) THEN flaws \union {"repair"} ELSE flaws
            /\ UNCHANGED <<at, complete, rebuilt, retried>>
    /\ UNCHANGED <<store, bak, damaged, failed, saved>>
Unseen(objects) == {{}} \union {{o} : o \in objects \intersect db.schema}

CheckAndCompleteFields ==
  pc = "fields" /\ \E unseen \in Unseen(CheckedFields) : Repair(Fields(unseen), unseen, "components")
CheckAndCompleteComponent ==
  pc = "components" /\ \E unseen \in Unseen(CheckedComponents) : Repair(Components(unseen), unseen, "backup")

(* Whether a complete store is backed up.                                  *)
WantsBackup == needBackup \/ bak = NoBackup

DoBackUpDB ==
  /\ pc = "backup"
  /\ pc' = "opened"
  /\ \/ /\ ~(complete /\ WantsBackup)
        /\ UNCHANGED <<bak, saved, faults, flaws>>
     \/ /\ complete /\ WantsBackup
        /\ bak' = db /\ saved' = saved \union Held(db)
        /\ UNCHANGED <<faults, flaws>>
     \/ /\ complete /\ WantsBackup
        /\ Fault(1) /\ Flaw("backup")
        /\ UNCHANGED <<bak, saved>>
  /\ UNCHANGED <<store, db, damaged, at, needBackup, complete, rebuilt, retried, failed, unrepaired>>

(* The store is open.  One that was rebuilt is restored and opened again,  *)
(* with the same callback and without looking at GetRebuilt any more.      *)
Restored == IF bak = NoBackup THEN db ELSE bak
Restore ==
  /\ pc = "opened" /\ rebuilt
  /\ \/ db' = Restored /\ UNCHANGED <<faults, flaws>>
     \/ Fault(1) /\ Flaw("rebuild") /\ UNCHANGED db
  /\ rebuilt' = FALSE /\ retried' = TRUE
  /\ pc' = Opening(db') /\ at' = 1
  /\ UNCHANGED <<store, bak, damaged, needBackup, complete, failed, unrepaired, saved>>

Serve ==
  /\ pc = "opened" /\ ~rebuilt
  /\ pc' = "ready"
  /\ UNCHANGED <<store, db, bak, damaged, at, needBackup, complete, rebuilt, retried, faults, history>>

-----------------------------------------------------------------------------
(* The open store: messages come and go, the file may become corrupt, and  *)
(* the next statement that notices restores the backup in place.  The row  *)
(* of sms_mms_info that goes with one of rcs_info names it in rcs_id, and  *)
(* cannot be inserted into a store without that column.                    *)
Receive(m) ==
  /\ pc = "ready" /\ ~damaged /\ store = "sms_mms" /\ m \in Later /\ db.rows[m] = 0
  /\ m \in RcsMsgs => LinksRcs
  /\ db' = [db EXCEPT !.rows[m] = 1, !.rcs = IF m \in RcsMsgs THEN @ \union {m} ELSE @]
  /\ UNCHANGED <<store, bak, damaged, opening, faults, history>>

Remove(m) ==
  /\ pc = "ready" /\ ~damaged /\ store = "sms_mms" /\ db.rows[m] > 0
  /\ db' = [db EXCEPT !.rows[m] = 0, !.rcs = @ \ {m}]
  /\ saved' = saved \ {m}
  /\ UNCHANGED <<store, bak, damaged, opening, faults, failed, unrepaired, flaws>>

Damage ==
  /\ pc = "ready" /\ ~damaged /\ "damage" \notin flaws
  /\ damaged' = TRUE /\ Flaw("damage")
  /\ UNCHANGED <<store, db, bak, opening, faults, failed, unrepaired, saved>>

TryRestore ==
  /\ pc = "ready" /\ damaged /\ store = "sms_mms" /\ bak # NoBackup
  /\ db' = bak /\ damaged' = FALSE
  /\ UNCHANGED <<store, bak, opening, faults, history>>

Close ==
  /\ pc = "ready" /\ Die
  /\ UNCHANGED <<store, db, bak, damaged, faults, history>>

Crash ==
  /\ pc \in {"SetVersion", "OnOpen", "history", "backup", "opened"}
  /\ Fault(1) /\ Die
  /\ flaws' = flaws \union DeathFlaws \union (IF pc = "history" THEN {"favourites"} ELSE {})
  /\ UNCHANGED <<store, db, bak, damaged, failed, unrepaired, saved>>

Next ==
  \/ Open \/ OnCreate \/ OnDowngrade \/ SetVersion
  \/ \E p \in 1..VERSION[store] : VersionUpTo(p)
  \/ VersionUpToTwelve \/ RcsInfoInsertSmsMmsInfo
  \/ CreateFavoriteTable \/ GetHistoryFavoriteItem \/ VersionUpTo26 \/ PdpUpToFour
  \/ OnOpenOther \/ OnOpenNoVersion \/ OnOpen
  \/ CheckAndCompleteFields \/ CheckAndCompleteComponent \/ DoBackUpDB
  \/ Restore \/ Serve
  \/ \E m \in Msgs : Receive(m) \/ Remove(m)
  \/ Damage \/ TryRestore \/ Close \/ Crash

Spec == Init /\ [][Next]_vars

-----------------------------------------------------------------------------
Objects == UNION {Release(s, VERSION[s]) \union Schema(s) : s \in Stores} \union OldTriggers
Files == [version : {-1} \union Nat, schema : SUBSET Objects, rows : [Msgs -> 0..2],
          rcs : SUBSET Msgs, fav : [Msgs -> 0..2]]

TypeOK ==
  /\ store \in Stores /\ db \in Files /\ bak \in Files /\ damaged \in BOOLEAN
  /\ pc \in {"closed", "OnCreate", "OnUpgrade", "copy", "history", "OnDowngrade", "SetVersion",
             "OnOpen", "fields", "components", "backup", "opened", "ready"}
  /\ at \in 1..VERSION[store]
  /\ needBackup \in BOOLEAN /\ complete \in BOOLEAN /\ rebuilt \in BOOLEAN /\ retried \in BOOLEAN
  /\ faults \in 0..MaxFaults
  /\ failed \subseteq Objects /\ unrepaired \subseteq Objects /\ saved \subseteq Msgs
  /\ flaws \subseteq {"rcs copy", "rcs twice", "favourites", "orphans", "backup", "rebuild", "repair", "damage"}

(* What an open store of the present version has been checked for.         *)
Checked == CountedTables \union CheckedFields \union CheckedComponents

(* Every way to the present version (creation, upgrade from any release,   *)
(* a death and a second upgrade, completion, restore and upgrade of a      *)
(* backup) gives the schema of a new store: an object is missing, or an    *)
(* old trigger left, only if a statement about it failed, and one that     *)
(* OnOpen looks after only if its repair failed too.  Both lists of        *)
(* columns of the view, RdbSmsMmsTables's and the callback's, are the same.*)
SchemaComplete ==
  pc = "ready" /\ db.version = VERSION[store] =>
    /\ Lacking(db) \subseteq failed \union unrepaired
    /\ store = "sms_mms" => Lacking(db) \intersect Checked \subseteq unrepaired

(* After step 12 each message of rcs_info has one row in sms_mms_info,     *)
(* however often the upgrade was begun: the column is added before the     *)
(* rows are copied, and its presence stops a second copy.  A death or      *)
(* failure in the step itself, and a query that fails, are the exceptions. *)
RcsListedOnce ==
  pc = "ready" /\ store = "sms_mms" /\ db.version = VERSION[store]
    /\ flaws \intersect {"rcs copy", "rcs twice", "orphans"} = {} =>
    \A m \in db.rcs : db.rows[m] = 1

(* Messages marked as favourites before there was a table of favourites    *)
(* are in it once after the upgrade, although two steps fill it.           *)
FavouritesCarriedOnce ==
  pc = "ready" /\ store = "sms_mms" /\ db.version = VERSION[store]
    /\ flaws \intersect {"favourites", "rcs twice"} = {} =>
    \A m \in (Collected \ Later) \intersect Held(db) : db.fav[m] = 1

(* An open store has the version of the code, also one that TryRestore     *)
(* replaced by its backup in place, which nobody upgrades: the backup is   *)
(* renewed in the opening that upgraded the store, unless that opening     *)
(* died, found the store incomplete, or could not make it.                 *)
OpenStoreCurrent ==
  pc = "ready" /\ "backup" \notin flaws => db.version >= VERSION[store]

(* A message that a backup held and nobody removed is in the store or in   *)
(* its backup: the backup of a damaged store is not replaced before it was *)
(* restored, unless something in the new store had to be repaired.         *)
BackedUpNotLost ==
  "repair" \notin flaws => \A m \in saved : db.rows[m] > 0 \/ bak.rows[m] > 0

(* And it is in the store once that is open, unless the process died       *)
(* between the rebuild and the restore, or the restore failed.             *)
BackedUpServed ==
  pc = "ready" /\ flaws \intersect {"repair", "rebuild"} = {} =>
    \A m \in saved : db.rows[m] > 0

-----------------------------------------------------------------------------
(* Why the last three hold.  A backup older than the code stands only      *)
(* beside a store that waits for its upgrade, or in an opening that has    *)
(* upgraded it and is bound to back it up.                                 *)
Waiting == db.version \in 1..(VERSION[store] - 1)
InOnOpen == pc \in {"OnOpen", "fields", "components", "backup"}
Fresh == bak = NoBackup \/ bak.version >= VERSION[store]
StaleBackup ==
  \/ pc \in {"closed", "OnUpgrade", "copy", "history"} /\ Waiting /\ ~damaged
  \/ pc = "SetVersion" /\ Waiting /\ needBackup
  \/ InOnOpen /\ needBackup
VersionKept ==
  /\ InOnOpen \/ pc = "opened" => db.version = VERSION[store]
  /\ pc \in {"OnUpgrade", "copy", "history"} => Waiting
  /\ pc = "OnCreate" => db.version = 0
  /\ pc \in {"fields", "components", "backup"} => store = "sms_mms"
  /\ damaged => pc \in {"closed", "ready"}
  /\ "backup" \notin flaws =>
       /\ Fresh \/ StaleBackup
       /\ pc = "ready" => db.version >= VERSION[store]
       /\ pc \in {"fields", "components", "backup"} => complete

(* What a backup held is in the backup, and in every store but one that    *)
(* was rebuilt and not restored, which is never backed up unrepaired.      *)
RowsKept ==
  /\ store # "sms_mms" => bak = NoBackup /\ saved = {}
  /\ pc \in {"closed", "ready"} => ~rebuilt
  /\ "repair" \notin flaws =>
       /\ saved \subseteq Held(bak)
       /\ ~rebuilt /\ "rebuild" \notin flaws => saved \subseteq Held(db)
       /\ needBackup \/ Waiting => saved \subseteq Held(db)

(* The inductive part: VersionKept and RowsKept with the types they need.  *)
IsFile(d) ==
  d = [version |-> d.version, schema |-> d.schema, rows |-> d.rows, rcs |-> d.rcs, fav |-> d.fav]
UpgradeInv ==
  /\ store \in Stores /\ IsFile(db) /\ IsFile(bak)
  /\ db.version \in Nat /\ (bak = NoBackup \/ bak.version \in Nat)
  /\ db.rows \in [Msgs -> 0..2] /\ bak.rows \in [Msgs -> 0..2]
  /\ saved \subseteq Msgs
  /\ VersionKept /\ RowsKept

-----------------------------------------------------------------------------
(* Why RcsListedOnce and FavouritesCarriedOnce hold.  Whether a file has   *)
(* been through step 12, or through 34, shows in its version or in where   *)
(* its upgrade is.  Misfortunes of the past, F, excuse later states.       *)
RcsLink == <<Sms, "rcs_id">>
Marked == Collected \ Later
Beyond(p) ==
  \/ db.version >= p
  \/ pc \in {"OnUpgrade", "history"} /\ at > p
  \/ pc \in {"OnDowngrade", "SetVersion"}

(* An open store and a backup have a version.                              *)
Versioned ==
  /\ pc = "ready" => db.version > 0
  /\ bak = NoBackup \/ bak.version > 0

(* Of any file: without the link no message of rcs_info is in sms_mms_info.*)
Sound(d, F) ==
  /\ d.rcs \subseteq RcsMsgs /\ d.fav \in [Msgs -> 0..2]
  /\ d.version = 0 => d.rcs = {} /\ Held(d) = {}
  /\ "rcs twice" \notin F => \A m \in Msgs : d.rows[m] <= 1
  /\ RcsLink \notin d.schema => \A m \in d.rcs : d.rows[m] = 0

(* Of one that is not about to copy: the link stands for the copied rows.  *)
ListedOnce(d, F, beyond) ==
  /\ RcsLink \notin d.schema /\ beyond /\ "rcs copy" \notin F => d.rcs = {}
  /\ RcsLink \in d.schema /\ F \intersect {"rcs copy", "rcs twice", "orphans"} = {} =>
       \A m \in d.rcs : d.rows[m] = 1

(* Of one that is not about to fill the table of the favourites: the table *)
(* stands for the favourites in it.  Without the link it cannot be filled. *)
MarkedOnce(d, F, beyond) ==
  /\ Table(Fav) \notin d.schema => \A m \in Marked : d.fav[m] = 0
  /\ "favourites" \notin F =>
       /\ Table(Fav) \in d.schema \/ beyond => RcsLink \in d.schema \/ d.rcs = {}
       /\ beyond /\ Table(Fav) \notin d.schema => Marked \intersect Held(d) = {}
       /\ Table(Fav) \in d.schema /\ "rcs twice" \notin F =>
            \A m \in Marked \intersect Held(d) : d.fav[m] = 1

AboutToCopy ==
  /\ at = 12
  /\ "rcs twice" \in flaws \/ \A m \in db.rcs : db.rows[m] = 0
  /\ flaws \intersect {"favourites", "rcs twice"} = {} /\ Table(Fav) \in db.schema => db.rcs = {}
AboutToFill ==
  /\ at \in {23, 34} /\ Table(Fav) \in db.schema
  /\ "favourites" \notin flaws => \A m \in Marked : db.fav[m] = 0

CarryInv ==
  store = "sms_mms" =>
    /\ Sound(db, flaws) /\ Sound(bak, flaws)
    /\ ListedOnce(bak, flaws, bak.version >= 12) /\ MarkedOnce(bak, flaws, bak.version >= 34)
    /\ at \in 1..VERSION[store]
    /\ pc \in {"OnUpgrade", "copy", "history"} /\ at > 1 => db.version < at
    /\ IF pc = "copy" THEN AboutToCopy ELSE ListedOnce(db, flaws, Beyond(12))
    /\ IF pc = "history" THEN AboutToFill ELSE MarkedOnce(db, flaws, Beyond(34))
=============================================================================
