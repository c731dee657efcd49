----------------------------- MODULE ApnProfile -----------------------------
(***************************************************************************)
(* The APN profiles of pdp_profile, loaded per operator from a file whose  *)
(* checksum is remembered in the preferences.  INIT loads an operator's    *)
(* file unless its checksum is recorded; RESET loads it again; RESET       *)
(* without an operator rebuilds the whole table from the common file.      *)
(* INIT takes no lock, RESET and the clients' edits share lock_, and all   *)
(* use one connection, so that a transaction of one is open around the     *)
(* statements of the others.                                               *)
(***************************************************************************)
EXTENDS Naturals, Sequences, FiniteSets, Functions

CONSTANTS
  Opkeys,       (* Operator keys, each with one SIM card.                  *)
  Common,       (* The empty operator key of the common file's rows.       *)
  Profiles,     (* Entries of a file.                                      *)
  Threads,      (* Binder threads.                                         *)
  MaxVersion,   (* Bound: versions of the files, one per system update.    *)
  MaxId,        (* Bound: values of profile_id.                            *)
  MaxFaults,    (* Bound: operations that fail.                            *)
  MaxOpen       (* Bound: transactions open when another one begins.       *)

ASSUME ApnAssumption ==
  /\ Common \notin Opkeys
  /\ IsFiniteSet(Profiles)
  /\ {MaxVersion, MaxId, MaxFaults, MaxOpen} \subseteq Nat

Versions == 1..MaxVersion
User == 0       (* In place of a version: the row has edited_status 1.     *)

Row == [id : 1..MaxId, opkey : Opkeys \union {Common}, profile : Profiles,
        version : Versions \union {User}]

(* A table, its AUTOINCREMENT counter and, for the properties only, which  *)
(* profiles of a file clients have changed or deleted since it was loaded. *)
Table == [there : BOOLEAN, rows : SUBSET Row, last : 0..MaxId,
          taken : SUBSET (Opkeys \X Profiles)]
Empty(there) == [there |-> there, rows |-> {}, last |-> 0, taken |-> {}]

Kinds == {"none", "init", "reset", "resetAll"}
Steps == {"idle", "delete", "parse", "begin", "clear", "create", "load", "drop",
          "rename", "commit", "rollback", "save"}
Idle == [kind |-> "none", step |-> "idle", opkey |-> Common, todo |-> {}]

NoChecksum == 0
NoProfile == [id |-> 0, of |-> Common]

VARIABLES
  view,         (* pdp_profile and temp_pdp_profile for the connection.    *)
  disk,         (* The same as a crash leaves them.                        *)
  stack,        (* The open transactions: what each found.                 *)
  nests,        (* Whether the store lets transactions nest, else an error.*)
  pref,         (* Checksum of an operator's file and preferred profile_id.*)
  prefDisk,     (* The same as flushed.                                    *)
  file,         (* The version of the files on the system partition.       *)
  run,          (* What each thread does.                                  *)
  faults,
  edits,        (* History: profiles whose edited rows were confirmed.     *)
  exposed       (* History: what undermined the properties.                *)

db   == <<view, disk, stack>>
vars == <<db, nests, pref, prefDisk, file, run, faults, edits, exposed>>

Fault == faults < MaxFaults /\ faults' = faults + 1
NoFault == UNCHANGED faults

NoPref == [checksum |-> [o \in Opkeys |-> NoChecksum], prefer |-> [o \in Opkeys |-> NoProfile]]

(* A statement takes effect at once unless a transaction is open.          *)
Execute(tables) == view' = tables /\ disk' = IF stack = <<>> THEN tables ELSE disk

(* Variants with a plausible mistake, for comparison: an id is skipped,    *)
(* edited rows are cleared too, a failing commit is ignored, the preferred *)
(* profiles are not forgotten.                                             *)
IdSkipped(tbl, o, p, v) ==
  [tbl EXCEPT !.rows = @ \union {[id |-> tbl.last + 2, opkey |-> o, profile |-> p, version |-> v]},
              !.last = @ + 2]
AllOf(tbl, o) == {r \in tbl.rows : r.opkey = o}
CommitIgnored(kind, ok) == IF kind = "resetAll" THEN "idle" ELSE "save"
DeleteChecksums(ok) ==
  IF ok THEN /\ NoFault
             /\ pref' = [pref EXCEPT !.checksum = NoPref.checksum]
             /\ prefDisk' = [prefDisk EXCEPT !.checksum = NoPref.checksum]
        ELSE Fault /\ UNCHANGED <<pref, prefDisk>>

(* A row gets the next id and replaces one that is UNIQUE-equal to it.     *)
Inserted(tbl, o, p, v) ==
  LET same == {r \in tbl.rows : r.opkey = o /\ r.profile = p /\ r.version = v}
      row  == [id |-> tbl.last + 1, opkey |-> o, profile |-> p, version |-> v] IN
  [tbl EXCEPT !.rows = (@ \ same) \union {row},
              !.last = @ + 1,
              !.taken = IF v = User THEN @ ELSE @ \ {<<o, p>>}]

(* Rows go; those of a file are remembered if a client took them.          *)
Deleted(tbl, gone) == [tbl EXCEPT !.rows = @ \ gone]
Taken(tbl, r) ==
  [tbl EXCEPT !.taken = IF r.version = User \/ r.opkey = Common THEN @
                        ELSE @ \union {<<r.opkey, r.profile>>}]

(* InitData of OnCreate: those entries of the common file that could be    *)
(* read and inserted, one after the other.                                 *)
InitData(S) ==
  {[Empty(TRUE) EXCEPT
      !.rows = {[id |-> ids[p], opkey |-> Common, profile |-> p, version |-> 1] : p \in S},
      !.last = Cardinality(S)] : ids \in Bijection(S, 1..Cardinality(S))}

Init ==
  /\ \E S \in SUBSET Profiles : \E tbl \in InitData(S) :
       view = [pdp_profile |-> tbl, temp |-> Empty(FALSE)]
  /\ disk = view /\ stack = <<>>
  /\ nests \in BOOLEAN
  /\ pref = NoPref /\ prefDisk = NoPref
  /\ file = 1
  /\ run = [t \in Threads |-> Idle]
  /\ faults = 0
  /\ edits = {} /\ exposed = {}

-----------------------------------------------------------------------------
Return(t) == run' = [run EXCEPT ![t] = Idle]
Go(t, step) == IF step = "idle" THEN Return(t) ELSE run' = [run EXCEPT ![t].step = step]
At(t, step) == run[t].step = step

(* lock_ is not held: a thread with RESET holds it until it returns.       *)
Free == \A t \in Threads : run[t].kind \notin {"reset", "resetAll"}

Expose(cause, is) == exposed' = IF is THEN exposed \union {cause} ELSE exposed

(* Another thread is in this call, which no lock keeps out.                *)
Overlaps(t, kind) == \E u \in Threads \ {t} : run[u].kind = kind

(* INIT of one slot: nothing to do if the checksum is recorded, nor if the *)
(* file cannot be read.                                                    *)
InitAPNDatabase(t, o) ==
  /\ run[t] = Idle
  /\ pref.checksum[o] # file
  /\ run' = [run EXCEPT ![t] = [kind |-> "init", step |-> "begin", opkey |-> o,
                                todo |-> Profiles]]
  /\ Expose("checksum", Overlaps(t, "resetAll"))
  /\ UNCHANGED <<db, nests, pref, prefDisk, file, faults, edits>>

(* RESET of a SIM card whose operator is known: SetPreferApn(simId, -1).   *)
ResetApn(t, o) ==
  /\ run[t] = Idle /\ Free
  /\ pref' = [pref EXCEPT !.prefer[o] = NoProfile]
  /\ run' = [run EXCEPT ![t] = [kind |-> "reset", step |-> "delete", opkey |-> o,
                                todo |-> Profiles]]
  /\ UNCHANGED <<db, nests, prefDisk, file, faults, edits, exposed>>

(* Then it deletes the operator's rows, edited ones too.                   *)
DeleteOpkey(t, ok) ==
  LET o == run[t].opkey
      tbl == view.pdp_profile IN
  /\ At(t, "delete")
  /\ IF ok
     THEN /\ tbl.there /\ NoFault
          /\ Execute([view EXCEPT !.pdp_profile =
                        Deleted(tbl, {r \in tbl.rows : r.opkey = o})])
          /\ edits' = edits \ ({o} \X Profiles)
     ELSE /\ IF tbl.there THEN Fault ELSE NoFault
          /\ UNCHANGED <<view, disk, edits>>
  /\ Go(t, "parse")
  /\ UNCHANGED <<stack, nests, pref, prefDisk, file, exposed>>

(* RESET of everything: DeleteProfiles, whose result is ignored.           *)
DeleteProfiles(ok) ==
  IF ok THEN NoFault /\ pref' = NoPref /\ prefDisk' = NoPref
        ELSE Fault /\ UNCHANGED <<pref, prefDisk>>

ResetApnAll(t, ok) ==
  /\ run[t] = Idle /\ Free
  /\ DeleteProfiles(ok)
  /\ run' = [run EXCEPT ![t] = [kind |-> "resetAll", step |-> "begin", opkey |-> Common,
                                todo |-> Profiles]]
  /\ edits' = {}
  /\ exposed' = exposed \union (IF Overlaps(t, "init") \/ ~ok THEN {"checksum"} ELSE {})
                        \union (IF ok THEN {} ELSE {"preferred"})
  /\ UNCHANGED <<db, nests, file>>

BeginTransaction(t, ok) ==
  LET possible == nests \/ stack = <<>> IN
  /\ At(t, "begin")
  /\ \/ /\ ok /\ possible /\ NoFault /\ Len(stack) <= MaxOpen
        /\ stack' = <<view>> \o stack
        /\ Go(t, IF run[t].kind = "resetAll" THEN "create" ELSE "clear")
        /\ Expose("checksum", stack # <<>>)
     \/ /\ ~ok /\ (IF possible THEN Fault ELSE NoFault)
        /\ Return(t)
        /\ Expose("checksum", run[t].kind = "reset")
        /\ UNCHANGED stack
  /\ UNCHANGED <<view, disk, nests, pref, prefDisk, file, edits>>

(* ClearData: the operator's rows that no client edited; the result is     *)
(* ignored.                                                                *)
Unedited(tbl, o) == {r \in tbl.rows : r.opkey = o /\ r.version # User}

ClearData(t, ok) ==
  LET tbl == view.pdp_profile IN
  /\ At(t, "clear")
  /\ IF ok
     THEN /\ tbl.there /\ NoFault
          /\ Execute([view EXCEPT !.pdp_profile = Deleted(tbl, Unedited(tbl, run[t].opkey))])
     ELSE /\ IF tbl.there THEN Fault ELSE NoFault
          /\ UNCHANGED <<view, disk>>
  /\ Go(t, "load")
  /\ Expose("checksum", ~ok)
  /\ UNCHANGED <<stack, nests, pref, prefDisk, file, edits>>

(* ResetApn: the temporary table.  On an error it returns with its         *)
(* transaction open.                                                       *)
CreateTemp(t, ok) ==
  /\ At(t, "create")
  /\ \/ /\ ok /\ NoFault
        /\ Execute([view EXCEPT !.temp.there = TRUE])
        /\ Go(t, "parse")
        /\ UNCHANGED exposed
     \/ /\ ~ok /\ Fault
        /\ Return(t)
        /\ UNCHANGED <<view, disk, exposed>>
  /\ UNCHANGED <<stack, nests, pref, prefDisk, file, edits>>

(* ParserPdpProfileJson: in RESET of one operator before the transaction,  *)
(* in RESET of everything inside it.                                       *)
ParserPdpProfileJson(t, ok) ==
  /\ At(t, "parse")
  /\ IF ok THEN NoFault ELSE Fault
  /\ IF run[t].kind = "resetAll" THEN Go(t, IF ok THEN "load" ELSE "rollback")
     ELSE IF ok THEN Go(t, "begin") ELSE Return(t)
  /\ Expose("checksum", ~ok /\ run[t].kind = "reset")
  /\ UNCHANGED <<db, nests, pref, prefDisk, file, edits>>

(* The insert of one entry; the result is ignored.  The temporary table    *)
(* refuses an equal row where pdp_profile replaces it.                     *)
Insert(t, p, ok) ==
  LET name == IF run[t].kind = "resetAll" THEN "temp" ELSE "pdp_profile"
      left == run[t].todo \ {p}
      possible == /\ view[name].there
                  /\ name = "temp" => ~\E r \in view.temp.rows : r.profile = p /\ r.version = file IN
  /\ At(t, "load") /\ p \in run[t].todo
  /\ IF ok
     THEN /\ possible /\ view[name].last < MaxId /\ NoFault
          /\ Execute([view EXCEPT ![name] = Inserted(@, run[t].opkey, p, file)])
     ELSE /\ IF possible THEN Fault ELSE NoFault
          /\ UNCHANGED <<view, disk>>
  /\ run' = [run EXCEPT ![t].todo = left,
                        ![t].step = IF left # {} THEN "load"
                                    ELSE IF run[t].kind = "resetAll" THEN "drop" ELSE "commit"]
  /\ Expose("checksum", ~ok /\ run[t].kind # "resetAll")
  /\ UNCHANGED <<stack, nests, pref, prefDisk, file, edits>>

DropTable(t, ok) ==
  /\ At(t, "drop")
  /\ IF ok
     THEN /\ view.pdp_profile.there /\ NoFault
          /\ Execute([view EXCEPT !.pdp_profile = Empty(FALSE)])
     ELSE /\ IF view.pdp_profile.there THEN Fault ELSE NoFault
          /\ UNCHANGED <<view, disk>>
  /\ Go(t, IF ok THEN "rename" ELSE "rollback")
  /\ UNCHANGED <<stack, nests, pref, prefDisk, file, edits, exposed>>

RenameTable(t, ok) ==
  LET possible == view.temp.there /\ ~view.pdp_profile.there IN
  /\ At(t, "rename")
  /\ IF ok
     THEN /\ possible /\ NoFault
          /\ Execute([pdp_profile |-> view.temp, temp |-> Empty(FALSE)])
     ELSE /\ IF possible THEN Fault ELSE NoFault
          /\ UNCHANGED <<view, disk>>
  /\ Go(t, IF ok THEN "commit" ELSE "rollback")
  /\ UNCHANGED <<stack, nests, pref, prefDisk, file, edits, exposed>>

(* InitAPNDatabase goes on to save the checksum, ResetApn returns.         *)
AfterCommit(kind, ok) ==
  IF ~ok THEN "rollback" ELSE IF kind = "resetAll" THEN "idle" ELSE "save"

(* CommitTransactionAction: only the outermost commit makes anything       *)
(* durable, whoever began which.                                           *)
Commit(t, ok) ==
  LET possible == stack # <<>> IN
  /\ At(t, "commit")
  /\ \/ /\ ok /\ possible /\ NoFault
        /\ stack' = Tail(stack)
        /\ disk' = IF Len(stack) = 1 THEN view ELSE disk
     \/ /\ ~ok /\ (IF possible THEN Fault ELSE NoFault)
        /\ UNCHANGED <<stack, disk>>
  /\ Go(t, AfterCommit(run[t].kind, ok))
  /\ UNCHANGED <<view, nests, pref, prefDisk, file, edits, exposed>>

RollBack(t, ok) ==
  LET possible == stack # <<>> IN
  /\ At(t, "rollback")
  /\ \/ /\ ok /\ possible /\ NoFault
        /\ view' = Head(stack) /\ stack' = Tail(stack)
     \/ /\ ~ok /\ (IF possible THEN Fault ELSE NoFault)
        /\ UNCHANGED <<view, stack>>
  /\ Return(t)
  /\ Expose("checksum", run[t].kind = "reset")
  /\ UNCHANGED <<disk, nests, pref, prefDisk, file, edits>>

SetPreferApnConfChecksum(t) ==
  /\ At(t, "save")
  /\ pref' = [pref EXCEPT !.checksum[run[t].opkey] = file]
  /\ Return(t)
  /\ UNCHANGED <<db, nests, prefDisk, file, faults, edits, exposed>>

-----------------------------------------------------------------------------
(* Edits by clients, under lock_.  One made while a transaction is open is *)
(* not durable yet.                                                        *)
Confirmed(S) == edits' = IF stack = <<>> THEN edits \union S ELSE edits

InsertEdited(o, p) ==
  LET tbl == view.pdp_profile IN
  /\ Free /\ tbl.there /\ tbl.last < MaxId
  /\ ~\E r \in tbl.rows : r.opkey = o /\ r.profile = p /\ r.version = User
  /\ Execute([view EXCEPT !.pdp_profile = Inserted(tbl, o, p, User)])
  /\ Confirmed({<<o, p>>})
  /\ UNCHANGED <<stack, nests, pref, prefDisk, file, run, faults, exposed>>

UpdateApn(r) ==
  LET tbl == view.pdp_profile IN
  /\ Free /\ r.version # User
  /\ ~\E q \in tbl.rows : q.opkey = r.opkey /\ q.profile = r.profile /\ q.version = User
  /\ Execute([view EXCEPT !.pdp_profile =
        [Taken(tbl, r) EXCEPT !.rows = (@ \ {r}) \union {[r EXCEPT !.version = User]}]])
  /\ Confirmed({<<r.opkey, r.profile>>})
  /\ UNCHANGED <<stack, nests, pref, prefDisk, file, run, faults, exposed>>

DeleteApn(r) ==
  /\ Free
  /\ Execute([view EXCEPT !.pdp_profile = Deleted(Taken(view.pdp_profile, r), {r})])
  /\ edits' = IF r.version = User THEN edits \ {<<r.opkey, r.profile>>} ELSE edits
  /\ UNCHANGED <<stack, nests, pref, prefDisk, file, run, faults, exposed>>

(* SET_PREFER of a profile the client has read.                            *)
SetPreferApn(o, r) ==
  /\ Free /\ r.opkey = o
  /\ pref' = [pref EXCEPT !.prefer[o] = [id |-> r.id, of |-> <<o, r.profile>>]]
  /\ Expose("preferred", stack # <<>>)
  /\ UNCHANGED <<db, nests, prefDisk, file, run, faults, edits>>

(* The preferences library writes the file out.                            *)
FlushPreferences ==
  /\ prefDisk # pref /\ prefDisk' = pref
  /\ UNCHANGED <<db, nests, pref, file, run, faults, edits, exposed>>

(* The process dies; the next one may find newer files.                    *)
Crash(updated) ==
  /\ updated => file < MaxVersion
  /\ file' = IF updated THEN file + 1 ELSE file
  /\ view' = disk /\ stack' = <<>>
  /\ pref' = prefDisk
  /\ run' = [t \in Threads |-> Idle]
  /\ Expose("checksum", \E t \in Threads : run[t].kind = "reset")
  /\ UNCHANGED <<disk, nests, prefDisk, faults, edits>>

Thread(t) ==
  \/ \E o \in Opkeys : InitAPNDatabase(t, o) \/ ResetApn(t, o)
  \/ SetPreferApnConfChecksum(t)
  \/ \E ok \in BOOLEAN :
       \/ DeleteOpkey(t, ok) \/ ResetApnAll(t, ok) \/ BeginTransaction(t, ok)
       \/ ClearData(t, ok) \/ CreateTemp(t, ok) \/ ParserPdpProfileJson(t, ok)
       \/ DropTable(t, ok) \/ RenameTable(t, ok) \/ Commit(t, ok) \/ RollBack(t, ok)
       \/ \E p \in Profiles : Insert(t, p, ok)

Client ==
  \/ \E o \in Opkeys, p \in Profiles : InsertEdited(o, p)
  \/ \E r \in view.pdp_profile.rows :
       UpdateApn(r) \/ DeleteApn(r) \/ \E o \in Opkeys : SetPreferApn(o, r)

Next ==
  \/ \E t \in Threads : Thread(t)
  \/ Client
  \/ FlushPreferences
  \/ \E updated \in BOOLEAN : Crash(updated)

Spec == Init /\ [][Next]_vars

-----------------------------------------------------------------------------
TypeOK ==
  /\ \A s \in {view, disk} \union Range(stack) : s \in [pdp_profile : Table, temp : Table]
  /\ nests \in BOOLEAN
  /\ \A q \in {pref, prefDisk} :
       /\ q.checksum \in [Opkeys -> Versions \union {NoChecksum}]
       /\ \A o \in Opkeys : q.prefer[o].id \in 0..MaxId
  /\ file \in Versions
  /\ \A t \in Threads : /\ run[t].kind \in Kinds /\ run[t].step \in Steps
                        /\ run[t].opkey \in Opkeys \union {Common}
                        /\ run[t].todo \subseteq Profiles
  /\ faults \in 0..MaxFaults
  /\ edits \subseteq (Opkeys \union {Common}) \X Profiles

(* The operator's rows are those of this version of its file, apart from   *)
(* what clients took.                                                      *)
Loaded(tbl, o, v) ==
  /\ tbl.there
  /\ \A r \in tbl.rows : r.opkey = o => r.version \in {v, User}
  /\ \A p \in Profiles : \/ <<o, p>> \in tbl.taken
                         \/ \E r \in tbl.rows : r.opkey = o /\ r.profile = p /\ r.version = v

(* INIT skips a file only if it is loaded: the checksum on record is that  *)
(* of the rows on disk after any crash, edit or failing commit.  What      *)
(* undermines this, and is excluded, is listed where it happens: inserts   *)
(* whose failure is ignored, a RESET that ends between deleting and        *)
(* loading, and transactions of two threads that are open at once.         *)
ChecksumMeansLoaded ==
  "checksum" \notin exposed =>
    \A o \in Opkeys :
      \/ pref.checksum[o] # file
      \/ \E t \in Threads : run[t].kind = "reset" /\ run[t].opkey = o
      \/ Loaded(disk.pdp_profile, o, file)

(* A user's profile, once confirmed, survives every load of its operator's *)
(* file and every crash until a client deletes or RESET discards it, with  *)
(* any overlap of transactions and any failure.                            *)
EditsSurvive ==
  \A e \in edits : \E r \in disk.pdp_profile.rows : <<r.opkey, r.profile>> = e /\ r.version = User

(* The stored preferred profile_id never comes to denote another profile   *)
(* than the one chosen, although the ids start again when RESET rebuilds   *)
(* the table.  Excluded: DeleteProfiles that failed, and a choice made     *)
(* inside a transaction, whose rollback gives the id out again.            *)
PreferredIsChosen ==
  "preferred" \notin exposed =>
    \A o \in Opkeys : \A r \in view.pdp_profile.rows :
      r.id = pref.prefer[o].id => <<r.opkey, r.profile>> = pref.prefer[o].of
=============================================================================
