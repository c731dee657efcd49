---------------------------- MODULE ConfigLoader ----------------------------
(***************************************************************************)
(* The tables that are filled from configuration files: num_match and      *)
(* ecc_data when the store of the global parameters is opened, opkey_info  *)
(* when its store is created and on every OPKEY_INIT.  A load is skipped   *)
(* when the digest on record is that of the file.  The digests of all      *)
(* tables are in one preference file, written some time after they were    *)
(* set and deleted by a RESET of the APN profiles.  A load clears its      *)
(* table before it begins a transaction, and nobody rolls one back.        *)
(***************************************************************************)
EXTENDS Integers, Sequences

CONSTANTS
  Entries,      (* The entries of a file, by the columns of UNIQUE.        *)
  AskedFor,     (* Bound: which sets of stores clients ask for; a store is *)
                (* opened on its first use.                                *)
  MaxVersion,   (* Bound: contents a file may have.                        *)
  MaxOpen,      (* Bound: transactions left open before one more begins.   *)
  MaxFaults     (* Bound: operations that fail.                            *)

Global == {"num_match", "ecc_data"}
Tables == Global \union {"opkey_info"}
Stores == {"global_params", "opkey"}
StoreOf(t) == IF t \in Global THEN "global_params" ELSE "opkey"

ASSUME ConfigAssumption ==
  /\ AskedFor \subseteq SUBSET Stores
  /\ MaxVersion \in Nat \ {0} /\ {MaxOpen, MaxFaults} \subseteq Nat

Versions == 1..MaxVersion
NoDigest == 0
Missing == 0        (* No row of this entry,                               *)
Gone == -1          (* a client deleted it,                                *)
Changed == -2       (* a client wrote it.                                  *)
EmptyTable == [e \in Entries |-> Missing]

VARIABLES
  asked,        (* The stores of this behaviour.                           *)
  view,         (* The tables, as the connection of their store sees them. *)
  disk,         (* The same as a crash leaves them.                        *)
  created,      (* Stores whose creation is complete: [view, disk].        *)
  open,         (* How many transactions are open on each connection.      *)
  nests,        (* Whether a transaction may begin inside another one.     *)
  pref,         (* digest and temp (TEMP_SUFFIX) of each table.            *)
  prefDisk,     (* The same as flushed.                                    *)
  file,         (* The content of the file of each table.                  *)
  ready,        (* Per store: closed, loading or ready.                    *)
  todo,         (* Loads ahead: [table, check].  The first is under way,   *)
  step,         (* at this step,                                           *)
  version,      (* with this content.                                      *)
  faults,
  clean,        (* History: nothing failed since the loading began.        *)
  broken        (* History: digests that do not mean "loaded" any more.    *)

db   == <<view, disk, created, open>>
load == <<ready, todo, step, version>>
fixed == <<asked, nests>>
vars == <<fixed, db, pref, prefDisk, file, load, faults, clean, broken>>

Digests == [digest : [Tables -> 0..MaxVersion], temp : [Tables -> 0..MaxVersion]]
Rows == [Tables -> [Entries -> {Missing, Gone, Changed} \union Versions]]
Load == [table : Tables, check : BOOLEAN]

TypeOK ==
  /\ asked \in AskedFor
  /\ view \in Rows /\ disk \in Rows
  /\ created \in [view : SUBSET Stores, disk : SUBSET Stores]
  /\ open \in [Stores -> Nat] /\ nests \in BOOLEAN
  /\ pref \in Digests /\ prefDisk \in Digests
  /\ file \in [Tables -> Versions]
  /\ ready \in [Stores -> {"closed", "loading", "ready"}]
  /\ todo \in [Stores -> Seq(Load)]
  /\ step \in [Stores -> {"parse", "clear", "begin", "insert", "commit", "save"}]
  /\ version \in [Stores -> 0..MaxVersion]
  /\ faults \in Nat
  /\ clean \in [Stores -> BOOLEAN] /\ broken \in [Tables -> SUBSET Versions]
  /\ \A s \in Stores : todo[s] # <<>> <=> ready[s] = "loading"
  /\ \A s \in Stores : todo[s] = <<>> => step[s] = "parse"
  /\ \A s \in Stores : \A i \in DOMAIN todo[s] : StoreOf(todo[s][i].table) = s

NoPref == [digest |-> [t \in Tables |-> NoDigest], temp |-> [t \in Tables |-> NoDigest]]

Init ==
  /\ asked \in AskedFor
  /\ view = [t \in Tables |-> EmptyTable] /\ disk = view
  /\ created = [view |-> {}, disk |-> {}]
  /\ open = [s \in Stores |-> 0] /\ nests \in BOOLEAN
  /\ pref = NoPref /\ prefDisk = NoPref
  /\ file = [t \in Tables |-> 1]
  /\ ready = [s \in Stores |-> "closed"] /\ todo = [s \in Stores |-> <<>>]
  /\ step = [s \in Stores |-> "parse"] /\ version = [s \in Stores |-> 0]
  /\ faults = 0
  /\ clean = [s \in Stores |-> TRUE] /\ broken = [t \in Tables |-> {}]

-----------------------------------------------------------------------------
At(s, st) == todo[s] # <<>> /\ step[s] = st
Current(s) == Head(todo[s]).table
UnderWay(t) ==
  LET s == StoreOf(t) IN todo[s] # <<>> /\ step[s] # "parse" /\ t = Current(s)
Go(s, st) == step' = [step EXCEPT ![s] = st] /\ UNCHANGED <<ready, todo, version>>

Works == UNCHANGED <<faults, clean>>
Fails(s) ==
  /\ faults < MaxFaults /\ faults' = faults + 1
  /\ clean' = [clean EXCEPT ![s] = FALSE]
CannotWork(s) == UNCHANGED faults /\ clean' = [clean EXCEPT ![s] = FALSE]

(* A statement takes effect at once unless a transaction is open.          *)
Execute(t, rows) ==
  /\ view' = [view EXCEPT ![t] = rows]
  /\ disk' = IF open[StoreOf(t)] = 0 THEN [disk EXCEPT ![t] = rows] ELSE disk

OnRecord(t) == {pref.digest[t], prefDisk.digest[t]} \ {NoDigest}
Break(t, digests) == broken' = [broken EXCEPT ![t] = @ \union digests]

(* The loads of OnCreate, where those of the global parameters do not look *)
(* at the digest, and of OnOpen.                                           *)
Loads(check) == <<[table |-> "num_match", check |-> check], [table |-> "ecc_data", check |-> check]>>
OnCreate(s) == IF s = "opkey" THEN <<[table |-> "opkey_info", check |-> TRUE]>> ELSE Loads(FALSE)
OnOpen(s) == IF s = "opkey" THEN <<>> ELSE Loads(TRUE)

(* The version of the store is set once OnCreate has returned.             *)
CreatedBy(s) ==
  IF s \in created.view \/ Len(todo[s]) # Len(OnOpen(s)) + 1 THEN UNCHANGED created
  ELSE created' = [view |-> created.view \union {s},
                   disk |-> IF open[s] = 0 THEN created.disk \union {s} ELSE created.disk]

(* Still said to be loading after the last load, for comparison.           *)
ReturnLoading(s) ==
  /\ todo' = [todo EXCEPT ![s] = Tail(@)] /\ UNCHANGED ready
  /\ step' = [step EXCEPT ![s] = "parse"] /\ version' = [version EXCEPT ![s] = 0]
  /\ CreatedBy(s)

(* The load is over, well or not.                                          *)
Return(s) ==
  /\ todo' = [todo EXCEPT ![s] = Tail(@)]
  /\ ready' = IF Len(todo[s]) = 1 THEN [ready EXCEPT ![s] = "ready"] ELSE ready
  /\ step' = [step EXCEPT ![s] = "parse"] /\ version' = [version EXCEPT ![s] = 0]
  /\ CreatedBy(s)

ClearTempDigest(t) == pref' = [pref EXCEPT !.temp[t] = NoDigest]

(* The temporary digest, if there is one: a load of OnCreate records none, *)
(* but finds the one of a start that died before its creation was durable. *)
RefreshDigest(t) ==
  pref' = [pref EXCEPT !.digest[t] = IF pref.temp[t] = NoDigest THEN @ ELSE pref.temp[t],
                       !.temp[t] = NoDigest]

(* The digest of a load that failed is recorded, for comparison.           *)
ErrorRefreshed(s) ==
  /\ IF s = "opkey" THEN UNCHANGED pref ELSE RefreshDigest(Current(s))
  /\ Return(s)

(* A load that failed; that of an operator key leaves no trace.            *)
Error(s) ==
  /\ IF s = "opkey" THEN UNCHANGED pref ELSE ClearTempDigest(Current(s))
  /\ Return(s)

-----------------------------------------------------------------------------
(* The ability of a store is created: the store is opened.                 *)
DoInit(s) ==
  /\ s \in asked /\ ready[s] = "closed"
  /\ LET loads == (IF s \in created.view THEN <<>> ELSE OnCreate(s)) \o OnOpen(s)
     IN /\ todo' = [todo EXCEPT ![s] = loads]
        /\ ready' = [ready EXCEPT ![s] = IF loads = <<>> THEN "ready" ELSE "loading"]
  /\ clean' = [clean EXCEPT ![s] = TRUE]
  /\ UNCHANGED <<db, fixed, pref, prefDisk, file, step, version, faults, broken>>

(* OPKEY_INIT, under lock_.                                                *)
InitOpKeyDatabase ==
  /\ ready["opkey"] = "ready"
  /\ todo' = [todo EXCEPT !["opkey"] = OnCreate("opkey")]
  /\ ready' = [ready EXCEPT !["opkey"] = "loading"]
  /\ clean' = [clean EXCEPT !["opkey"] = TRUE]
  /\ UNCHANGED <<db, fixed, pref, prefDisk, file, step, version, faults, broken>>

(* Compared with the digest of another table, for comparison.              *)
IsDigestChangedOfAny(t) == \A u \in Tables : pref.digest[u] # file[t]

IsDigestChanged(t) == pref.digest[t] # file[t]

(* The file is compared with its digest and read.  A checked load of a     *)
(* global parameter records the new digest under a temporary name.         *)
Parse(s, ok) ==
  LET t == Current(s)
      check == Head(todo[s]).check IN
  /\ At(s, "parse")
  /\ \/ /\ ok
        /\ check => IsDigestChanged(t)
        /\ pref' = IF check /\ t \in Global THEN [pref EXCEPT !.temp[t] = file[t]] ELSE pref
        /\ step' = [step EXCEPT ![s] = "clear"]
        /\ version' = [version EXCEPT ![s] = file[t]]
        /\ UNCHANGED <<ready, todo, created>> /\ Works
     \/ ok /\ check /\ ~IsDigestChanged(t) /\ Error(s) /\ Works
     \/ ~ok /\ Error(s) /\ Fails(s)
  /\ UNCHANGED <<view, disk, open, fixed, prefDisk, file, broken>>

(* ClearData, whose result is ignored.                                     *)
ClearData(s, ok) ==
  /\ At(s, "clear")
  /\ IF ok THEN Execute(Current(s), EmptyTable) /\ Works
           ELSE UNCHANGED <<view, disk>> /\ Fails(s)
  /\ Go(s, "begin")
  /\ UNCHANGED <<created, open, fixed, pref, prefDisk, file, broken>>

(* Inside a transaction left open no other begins, or its commit does not  *)
(* make anything durable.                                                  *)
BeginTransaction(s, ok) ==
  LET possible == nests \/ open[s] = 0
      t == Current(s) IN
  /\ At(s, "begin")
  /\ IF ok
     THEN /\ possible /\ open[s] <= MaxOpen /\ Works
          /\ open' = [open EXCEPT ![s] = @ + 1]
          /\ IF open[s] > 0 THEN Break(t, {version[s]}) ELSE UNCHANGED broken
          /\ Go(s, "insert") /\ UNCHANGED <<pref, created>>
     ELSE /\ IF possible THEN Fails(s) ELSE CannotWork(s)
          /\ UNCHANGED open
          /\ Break(t, OnRecord(t)) /\ Error(s)
  /\ UNCHANGED <<view, disk, fixed, prefDisk, file>>

Present(row) == row \notin {Missing, Gone}

(* The entries of S are inserted, unless a row is in the way.              *)
Inserted(rows, S, v) == [e \in Entries |-> IF e \in S /\ ~Present(rows[e]) THEN v ELSE rows[e]]

(* Global parameters row by row, every result ignored.                     *)
Insert(s, lost) ==
  LET t == Current(s)
      after == Inserted(view[t], Entries \ lost, version[s]) IN
  /\ At(s, "insert") /\ s = "global_params"
  /\ Execute(t, after)
  /\ IF lost = {} THEN Works ELSE Fails(s)
  /\ IF \A e \in Entries : after[e] = version[s] THEN UNCHANGED broken
                                                ELSE Break(t, {version[s]})
  /\ Go(s, "commit")
  /\ UNCHANGED <<created, open, fixed, pref, prefDisk, file>>

(* Operator keys all at once; on an error some of the rows may be there,   *)
(* and the transaction stays open.                                         *)
BatchInsert(ok, S) ==
  LET s == "opkey"
      t == "opkey_info"
      possible == \A e \in Entries : ~Present(view[t][e]) IN
  /\ At(s, "insert")
  /\ IF ok THEN possible /\ S = Entries /\ Works /\ Go(s, "commit") /\ UNCHANGED <<broken, pref, created>>
     ELSE /\ IF possible THEN Fails(s) ELSE CannotWork(s)
          /\ Break(t, OnRecord(t)) /\ Error(s)
  /\ Execute(t, Inserted(view[t], S, version[s]))
  /\ UNCHANGED <<open, fixed, prefDisk, file>>

(* The result of Commit is ignored, for comparison.                        *)
CommitFailureIgnored(s) == Go(s, "save") /\ UNCHANGED <<pref, broken, created>>

(* Its transaction stays open.                                             *)
CommitFailed(s) == Break(Current(s), OnRecord(Current(s))) /\ Error(s)

(* The outermost commit makes everything of the connection durable.        *)
Commit(s, ok) ==
  /\ At(s, "commit")
  /\ IF ok
     THEN /\ open' = [open EXCEPT ![s] = @ - 1]
          /\ disk' = IF open[s] = 1
                     THEN [u \in Tables |-> IF StoreOf(u) = s THEN view[u] ELSE disk[u]] ELSE disk
          /\ created' = IF open[s] = 1 /\ s \in created.view
                        THEN [created EXCEPT !.disk = @ \union {s}] ELSE created
          /\ Go(s, "save") /\ UNCHANGED <<pref, broken>> /\ Works
     ELSE UNCHANGED <<open, disk>> /\ Fails(s) /\ CommitFailed(s)
  /\ UNCHANGED <<view, fixed, prefDisk, file>>

(* The digest is recorded.                                                 *)
Save(s) ==
  LET t == Current(s) IN
  /\ At(s, "save")
  /\ IF s = "opkey" THEN pref' = [pref EXCEPT !.digest[t] = version[s]] ELSE RefreshDigest(t)
  /\ Break(t, IF Head(todo[s]).check THEN {}
              ELSE (OnRecord(t) \union {pref.temp[t]}) \ {NoDigest, version[s]})
  /\ Return(s)
  /\ UNCHANGED <<view, disk, open, fixed, prefDisk, file>> /\ Works

-----------------------------------------------------------------------------
(* A client inserts, updates or deletes an operator key, under lock_.      *)
EditOpKey(e, row) ==
  /\ ready["opkey"] = "ready"
  /\ row = Gone => Present(view["opkey_info"][e])
  /\ Execute("opkey_info", [view["opkey_info"] EXCEPT ![e] = row])
  /\ UNCHANGED <<created, open, fixed, pref, prefDisk, file, load, faults, clean, broken>>

(* The preference file is written.                                         *)
Flush ==
  /\ prefDisk # pref /\ prefDisk' = pref
  /\ UNCHANGED <<db, fixed, pref, file, load, faults, clean, broken>>

(* A RESET of all APN profiles deletes it, with the digests of all tables. *)
DeleteProfiles ==
  /\ pref' = NoPref /\ prefDisk' = NoPref
  /\ UNCHANGED <<db, fixed, file, load, faults, clean, broken>>

(* Another directory of the operator, or an update: the next load finds    *)
(* another file.                                                           *)
CustChanged(t, v) ==
  /\ StoreOf(t) \in asked /\ ready[StoreOf(t)] # "loading"
  /\ v # file[t] /\ file' = [file EXCEPT ![t] = v]
  /\ UNCHANGED <<db, fixed, pref, prefDisk, load, faults, clean, broken>>

(* The process dies.  The digest of before is on record again for a table  *)
(* that was being loaded or whose digest was not flushed.                  *)
Crash ==
  /\ \E s \in Stores : ready[s] # "closed"
  /\ view' = disk /\ created' = [created EXCEPT !.view = created.disk]
  /\ open' = [s \in Stores |-> 0]
  /\ pref' = prefDisk
  /\ ready' = [s \in Stores |-> "closed"] /\ todo' = [s \in Stores |-> <<>>]
  /\ step' = [s \in Stores |-> "parse"] /\ version' = [s \in Stores |-> 0]
  /\ broken' = [t \in Tables |->
       broken[t] \union IF UnderWay(t) \/ pref.digest[t] # prefDisk.digest[t]
                        THEN OnRecord(t) ELSE {}]
  /\ clean' = [s \in Stores |-> TRUE]
  /\ UNCHANGED <<disk, fixed, prefDisk, file, faults>>

Next ==
  \/ \E s \in asked : DoInit(s)
  \/ InitOpKeyDatabase
  \/ \E s \in asked, ok \in BOOLEAN : Parse(s, ok)
  \/ \E s \in asked, ok \in BOOLEAN : ClearData(s, ok)
  \/ \E s \in asked, ok \in BOOLEAN : BeginTransaction(s, ok)
  \/ \E s \in asked, lost \in SUBSET Entries : Insert(s, lost)
  \/ \E ok \in BOOLEAN, S \in SUBSET Entries : BatchInsert(ok, S)
  \/ \E s \in asked, ok \in BOOLEAN : Commit(s, ok)
  \/ \E s \in asked : Save(s)
  \/ \E e \in Entries, row \in {Gone, Changed} : EditOpKey(e, row)
  \/ Flush \/ DeleteProfiles \/ Crash
  \/ \E t \in Tables, v \in Versions : CustChanged(t, v)

Spec == Init /\ [][Next]_vars

-----------------------------------------------------------------------------
(* Properties.                                                             *)

LoadedWith(rows, v) == \A e \in Entries : rows[e] \in {v, Gone, Changed}

(* A digest on record means that the table holds the rows of that content, *)
(* but for those clients took: on disk too, so that a load which is        *)
(* skipped was not needed, now or after a crash.  Not while a load is      *)
(* under way, nor of a digest that stayed on record when a load was cut    *)
(* short or its own digest was lost, nor of one recorded after an insert   *)
(* that failed or inside a transaction left open, nor of one that a load   *)
(* of OnCreate found on record and left there.                             *)
DigestMeansLoaded ==
  \A t \in Tables :
    LET v == pref.digest[t] IN
    v \notin broken[t] \union {NoDigest} /\ ~UnderWay(t) =>
      LoadedWith(view[t], v) /\ LoadedWith(disk[t], v)

(* Of a load under way: with what it has committed or is about to, and     *)
(* that the digest of before is gone if the new one is.                    *)
LoadProgress(s) ==
  LET t == Current(s)
      v == version[s]
      done == v \in broken[t] \/ LoadedWith(view[t], v) IN
  /\ version[s] \in Versions
  /\ At(s, "insert") \/ At(s, "commit") => open[s] = 1 \/ (open[s] > 1 /\ v \in broken[t])
  /\ At(s, "commit") => done
  /\ At(s, "save") => done /\ (v \in broken[t] \/ LoadedWith(disk[t], v))
  /\ Head(todo[s]).check /\ t \in Global =>
       pref.temp[t] = v \/ (pref.temp[t] = NoDigest /\ pref.digest[t] = NoDigest)

(* The invariant that carries DigestMeansLoaded through a load.            *)
LoaderInv ==
  /\ TypeOK /\ DigestMeansLoaded
  /\ \A s \in Stores : todo[s] # <<>> /\ step[s] # "parse" => LoadProgress(s)

(* A start, or an OPKEY_INIT, in which nothing failed ends with the tables *)
(* of the store holding the present files, unless it skipped one for such  *)
(* a digest, whatever earlier starts left behind.                          *)
CleanLoadLoads ==
  [][\A s \in Stores :
       ready[s] = "loading" /\ ready'[s] = "ready" /\ clean'[s] =>
         \A t \in Tables :
           StoreOf(t) = s => file[t] \in broken[t] \/ LoadedWith(view'[t], file[t])]_vars
=============================================================================
