------------------------ MODULE SchemaUpgradeProofs ------------------------
(***************************************************************************)
(* Proofs for SchemaUpgrade: UpgradeInv is inductive, and from it an open  *)
(* store has the version of the code, and what a backup held stays in the  *)
(* backup and is served.  CarryInv is inductive on top of it: what the two *)
(* steps that move rows move is there once.  Of the schema it uses only    *)
(* which statements drop or make the column rcs_id and the favourites.     *)
(* SchemaInv is inductive on top of UpgradeInv too, and uses all of the    *)
(* statements: what a schema lacks on the way is made by the steps to      *)
(* come, and so every way to the present version ends in the same schema.  *)
(***************************************************************************)
EXTENDS SchemaUpgrade, SequenceTheorems, TLAPS

(* Every store has at least one version.                                   *)
LEMMA Versions == \A s \in Stores : VERSION[s] \in Nat \ {0}
BY DEF VERSION, Stores

(* The fields of a file some fields of which are replaced.                 *)
LEMMA SchemaSet ==
  ASSUME NEW d, NEW x, IsFile(d)
  PROVE  /\ IsFile([d EXCEPT !.schema = x])
         /\ [d EXCEPT !.schema = x].version = d.version
         /\ [d EXCEPT !.schema = x].rows = d.rows
BY DEF IsFile

LEMMA RowsSet ==
  ASSUME NEW d, NEW x, IsFile(d)
  PROVE  /\ IsFile([d EXCEPT !.rows = x])
         /\ [d EXCEPT !.rows = x].version = d.version
         /\ [d EXCEPT !.rows = x].rows = x
BY DEF IsFile

LEMMA RcsSet ==
  ASSUME NEW d, NEW x, IsFile(d)
  PROVE  /\ IsFile([d EXCEPT !.rcs = x])
         /\ [d EXCEPT !.rcs = x].version = d.version
         /\ [d EXCEPT !.rcs = x].rows = d.rows
BY DEF IsFile

LEMMA FavSet ==
  ASSUME NEW d, NEW x, IsFile(d)
  PROVE  /\ IsFile([d EXCEPT !.fav = x])
         /\ [d EXCEPT !.fav = x].version = d.version
         /\ [d EXCEPT !.fav = x].rows = d.rows
BY DEF IsFile

LEMMA VersionSet ==
  ASSUME NEW d, NEW x, IsFile(d)
  PROVE  /\ IsFile([d EXCEPT !.version = x])
         /\ [d EXCEPT !.version = x].version = x
         /\ [d EXCEPT !.version = x].rows = d.rows
BY DEF IsFile

-----------------------------------------------------------------------------
(* The types of UpgradeInv; and what every step does that neither sets the *)
(* version nor touches the backup: it keeps the rows of all messages that  *)
(* were saved and are not removed.                                         *)
Typed ==
  /\ store \in Stores /\ IsFile(db) /\ IsFile(bak)
  /\ db.version \in Nat /\ (bak = NoBackup \/ bak.version \in Nat)
  /\ db.rows \in [Msgs -> 0..2] /\ bak.rows \in [Msgs -> 0..2]
  /\ saved \subseteq Msgs

Carried ==
  /\ IsFile(db') /\ db'.version = db.version /\ db'.rows \in [Msgs -> 0..2]
  /\ saved' \subseteq saved /\ flaws \subseteq flaws'
  /\ \A m \in saved' : db.rows[m] > 0 => db'.rows[m] > 0
  /\ UNCHANGED <<store, bak, damaged>>

LEMMA CarriedKeeps ==
  ASSUME UpgradeInv, Carried
  PROVE  /\ Typed'
         /\ saved \subseteq Held(bak) => saved' \subseteq Held(bak')
         /\ saved \subseteq Held(db) => saved' \subseteq Held(db')
         /\ Waiting' <=> Waiting
         /\ Fresh' <=> Fresh
         /\ saved = {} => saved' = {}
<1>1. Typed'
  BY DEF UpgradeInv, Typed, Carried
<1>2. saved \subseteq Held(bak) => saved' \subseteq Held(bak')
  BY DEF Carried, Held
<1>3. saved \subseteq Held(db) => saved' \subseteq Held(db')
  BY DEF Carried, Held
<1>4. (Waiting' <=> Waiting) /\ (Fresh' <=> Fresh) /\ (saved = {} => saved' = {})
  BY DEF Carried, Waiting, Fresh
<1> QED BY <1>1, <1>2, <1>3, <1>4

LEMMA Parts == UpgradeInv <=> Typed /\ VersionKept /\ RowsKept
BY DEF UpgradeInv, Typed

(* The process dies.                                                       *)
LEMMA Dies ==
  ASSUME UpgradeInv, Carried, Die, pc # "closed", DeathFlaws \subseteq flaws'
  PROVE  UpgradeInv'
<1>1. /\ Typed'
      /\ saved \subseteq Held(bak) => saved' \subseteq Held(bak')
      /\ saved \subseteq Held(db) => saved' \subseteq Held(db')
      /\ Waiting' <=> Waiting
      /\ Fresh' <=> Fresh
      /\ saved = {} => saved' = {}
  BY CarriedKeeps
<1>2. pc' = "closed" /\ needBackup' = FALSE /\ rebuilt' = FALSE
  BY DEF Die
<1>3. store' = store /\ bak' = bak /\ damaged' = damaged /\ flaws \subseteq flaws'
  BY DEF Carried
<1>4. "backup" \notin flaws' => ~InOnOpen /\ "backup" \notin flaws
  BY <1>3 DEF DeathFlaws, InOnOpen
<1>5. "rebuild" \notin flaws' => ~rebuilt /\ "rebuild" \notin flaws
  BY <1>3 DEF DeathFlaws
<1>6. VersionKept'
  <2>1. "backup" \notin flaws' => Fresh' \/ StaleBackup'
    <3> SUFFICES ASSUME "backup" \notin flaws' PROVE Fresh' \/ StaleBackup'
      OBVIOUS
    <3>1. Fresh \/ (Waiting /\ ~damaged)
      BY <1>4, SMT DEF UpgradeInv, VersionKept, StaleBackup
    <3> QED BY <3>1, <1>1, <1>2, <1>3 DEF StaleBackup
  <2> QED BY <2>1, <1>2 DEF VersionKept, InOnOpen
<1>7. RowsKept'
  BY <1>1, <1>2, <1>3, <1>5 DEF UpgradeInv, RowsKept
<1> QED BY <1>1, <1>6, <1>7, Parts DEF Typed, UpgradeInv

(* A step of the upgrade leads into itself, to the next one or to the end. *)
LEMMA Goes ==
  ASSUME UpgradeInv, Carried, pc \in {"OnUpgrade", "copy", "history"}, rebuilt' = rebuilt,
         \/ pc' \in {"OnUpgrade", "copy", "history"} /\ needBackup' = needBackup
         \/ pc' = "SetVersion" /\ needBackup' = (store = "sms_mms")
  PROVE  UpgradeInv'
<1>1. /\ Typed'
      /\ saved \subseteq Held(bak) => saved' \subseteq Held(bak')
      /\ saved \subseteq Held(db) => saved' \subseteq Held(db')
      /\ Waiting' <=> Waiting
      /\ Fresh' <=> Fresh
      /\ saved = {} => saved' = {}
  BY CarriedKeeps
<1>2. store' = store /\ bak' = bak /\ damaged' = damaged /\ flaws \subseteq flaws'
  BY DEF Carried
<1>3. Waiting /\ ~damaged
  BY DEF UpgradeInv, VersionKept
<1>4. VersionKept'
  <2>1. "backup" \notin flaws' => Fresh' \/ StaleBackup'
    <3>1. CASE pc' \in {"OnUpgrade", "copy", "history"}
      BY <3>1, <1>1, <1>2, <1>3 DEF StaleBackup
    <3>2. CASE pc' = "SetVersion" /\ store = "sms_mms" /\ needBackup'
      BY <3>2, <1>1, <1>3 DEF StaleBackup
    <3>3. CASE store # "sms_mms"
      BY <3>3, <1>1 DEF UpgradeInv, RowsKept, Fresh
    <3> QED BY <3>1, <3>2, <3>3
  <2>2. pc' \in {"OnUpgrade", "copy", "history", "SetVersion"}
    OBVIOUS
  <2> QED BY <2>1, <2>2, <1>1, <1>2, <1>3 DEF VersionKept, InOnOpen
<1>5. RowsKept'
  <2>1. pc' # "closed" /\ pc' # "ready"
    OBVIOUS
  <2> QED BY <2>1, <1>1, <1>2, <1>3 DEF UpgradeInv, RowsKept
<1> QED BY <1>1, <1>4, <1>5, Parts DEF Typed, UpgradeInv

LEMMA Proceeds ==
  ASSUME UpgradeInv, Carried, Proceed, pc \in {"OnUpgrade", "copy", "history"}, rebuilt' = rebuilt
  PROVE  UpgradeInv'
<1>1. \/ pc' \in {"OnUpgrade", "copy", "history"} /\ needBackup' = needBackup
      \/ pc' = "SetVersion" /\ needBackup' = (store = "sms_mms")
  BY DEF Proceed
<1> QED BY <1>1, Goes

-----------------------------------------------------------------------------
(* The steps of a creation and of an upgrade.                              *)
LEMMA CarriedSchema ==
  ASSUME UpgradeInv, NEW x, db' = [db EXCEPT !.schema = x], saved' = saved,
         flaws \subseteq flaws', UNCHANGED <<store, bak, damaged>>
  PROVE  Carried
<1>1. IsFile(db') /\ db'.version = db.version /\ db'.rows = db.rows
  BY SchemaSet DEF UpgradeInv
<1> QED BY <1>1 DEF Carried, UpgradeInv

LEMMA CarriedSame ==
  ASSUME UpgradeInv, db' = db, saved' = saved, flaws \subseteq flaws', UNCHANGED <<store, bak, damaged>>
  PROVE  Carried
BY DEF Carried, UpgradeInv

LEMMA OnCreateStep == ASSUME UpgradeInv, OnCreate PROVE UpgradeInv'
<1>1. PICK o \in Outcomes(Creation[store]) :
        /\ Execute(Creation[store], o)
        /\ \/ /\ pc' = "SetVersion"
              /\ UNCHANGED <<at, needBackup, complete, rebuilt, retried, flaws>>
           \/ UNCHANGED <<pc, at, needBackup, complete, rebuilt, flaws>>
           \/ Die /\ flaws' = flaws \union DeathFlaws
  BY DEF OnCreate
<1>2. pc = "OnCreate" /\ UNCHANGED <<store, bak, damaged, unrepaired, saved>>
  BY DEF OnCreate
<1>3. flaws \subseteq flaws'
  BY <1>1
<1>4. Carried
  BY <1>1, <1>2, <1>3, CarriedSchema DEF Execute
<1>5. CASE Die /\ flaws' = flaws \union DeathFlaws
  BY <1>2, <1>4, <1>5, Dies
<1>6. ASSUME pc' \in {"OnCreate", "SetVersion"}, needBackup' = needBackup, rebuilt' = rebuilt, flaws' = flaws
      PROVE  UpgradeInv'
  <2>1. /\ Typed'
        /\ saved \subseteq Held(bak) => saved' \subseteq Held(bak')
        /\ saved \subseteq Held(db) => saved' \subseteq Held(db')
        /\ Waiting' <=> Waiting
        /\ Fresh' <=> Fresh
        /\ saved = {} => saved' = {}
    BY <1>4, CarriedKeeps
  <2>2. db.version = 0 /\ db'.version = 0 /\ ~damaged
    BY <1>2, <1>4 DEF UpgradeInv, VersionKept, Carried
  <2>3. "backup" \notin flaws => Fresh
    BY <1>2, <2>2 DEF UpgradeInv, VersionKept, StaleBackup, Waiting, InOnOpen
  <2>4. VersionKept'
    BY <1>2, <1>6, <2>1, <2>2, <2>3 DEF VersionKept, InOnOpen
  <2>5. RowsKept'
    BY <1>2, <1>6, <2>1 DEF UpgradeInv, RowsKept
  <2> QED BY <2>1, <2>4, <2>5, Parts DEF Typed, UpgradeInv
<1> QED BY <1>1, <1>2, <1>5, <1>6

LEMMA VersionUpToStep ==
  ASSUME UpgradeInv, NEW p \in 1..VERSION[store], VersionUpTo(p) PROVE UpgradeInv'
<1>1. PICK o \in Outcomes(StatementsOf(p)) :
        /\ Execute(StatementsOf(p), o)
        /\ (Die /\ flaws' = flaws \union DeathFlaws) \/ GoOn
  BY DEF VersionUpTo
<1>2. pc = "OnUpgrade" /\ UNCHANGED <<store, bak, damaged, unrepaired, saved>>
  BY DEF VersionUpTo
<1>3. flaws \subseteq flaws'
  BY <1>1 DEF GoOn
<1>4. Carried
  BY <1>1, <1>2, <1>3, CarriedSchema DEF Execute
<1> QED BY <1>1, <1>2, <1>4, Dies, Proceeds DEF GoOn

LEMMA VersionUpToTwelveStep == ASSUME UpgradeInv, VersionUpToTwelve PROVE UpgradeInv'
<1>1. pc = "OnUpgrade" /\ UNCHANGED <<store, bak, damaged, unrepaired, saved>>
  BY DEF VersionUpToTwelve
<1>2. CASE GoOn /\ UNCHANGED db
  <2>1. Carried
    BY <1>1, <1>2, CarriedSame DEF GoOn
  <2> QED BY <1>1, <1>2, <2>1, Proceeds DEF GoOn
<1>3. CASE pc' = "copy" /\ Flaw("rcs twice") /\ UNCHANGED <<db, failed, at, needBackup, complete, rebuilt, retried>>
  <2>1. Carried
    BY <1>1, <1>3, CarriedSame DEF Flaw
  <2> QED BY <1>1, <1>3, <2>1, Goes
<1>4. ASSUME NEW o \in Outcomes(Twelve), Execute(Twelve, o),
             \/ Die /\ flaws' = flaws \union DeathFlaws \union (IF o[1] > 0 THEN {"rcs copy"} ELSE {})
             \/ pc' = "copy" /\ UNCHANGED <<at, needBackup, complete, rebuilt, retried, flaws>>
      PROVE  UpgradeInv'
  <2>1. flaws \subseteq flaws'
    BY <1>4
  <2>2. Carried
    BY <1>1, <1>4, <2>1, CarriedSchema DEF Execute
  <2> QED BY <1>1, <1>4, <2>2, Dies, Goes
<1> QED BY <1>2, <1>3, <1>4 DEF VersionUpToTwelve

LEMMA CopyStep == ASSUME UpgradeInv, RcsInfoInsertSmsMmsInfo PROVE UpgradeInv'
<1>1. pc = "copy" /\ UNCHANGED <<store, bak, damaged, failed, unrepaired, saved>>
  BY DEF RcsInfoInsertSmsMmsInfo
<1>2. PICK copied \in SUBSET db.rcs, dies \in BOOLEAN :
        /\ db' = [db EXCEPT !.rows = [m \in Msgs |-> Count(@[m] + (IF m \in copied THEN 1 ELSE 0))]]
        /\ flaws' = flaws \union (IF dies THEN DeathFlaws ELSE {})
                      \union (IF dies \/ copied # db.rcs THEN {"rcs copy"} ELSE {})
        /\ IF dies THEN Die ELSE Proceed /\ UNCHANGED <<complete, rebuilt, retried>>
  BY DEF RcsInfoInsertSmsMmsInfo
<1>3. Carried
  <2> DEFINE new == [m \in Msgs |-> Count(db.rows[m] + (IF m \in copied THEN 1 ELSE 0))]
  <2>1. db' = [db EXCEPT !.rows = new]
    BY <1>2
  <2>2. \A m \in Msgs : db.rows[m] \in 0..2
    BY DEF UpgradeInv
  <2>3. new \in [Msgs -> 0..2] /\ \A m \in Msgs : db.rows[m] > 0 => new[m] > 0
    BY <2>2 DEF Count
  <2> HIDE DEF new
  <2>4. IsFile(db') /\ db'.version = db.version /\ db'.rows = new
    BY <2>1, RowsSet DEF UpgradeInv
  <2> QED BY <1>1, <1>2, <2>3, <2>4 DEF Carried, UpgradeInv
<1> QED BY <1>1, <1>2, <1>3, Dies, Proceeds

LEMMA FavoritesStep == ASSUME UpgradeInv, CreateFavoriteTable PROVE UpgradeInv'
<1>1. pc = "OnUpgrade" /\ UNCHANGED <<store, bak, damaged, unrepaired, saved>>
  BY DEF CreateFavoriteTable
<1>2. CASE GoOn /\ UNCHANGED db
  <2>1. Carried
    BY <1>1, <1>2, CarriedSame DEF GoOn
  <2> QED BY <1>1, <1>2, <2>1, Proceeds DEF GoOn
<1>3. CASE pc' = "history" /\ Flaw("favourites") /\ UNCHANGED <<db, failed, at, needBackup, complete, rebuilt, retried>>
  <2>1. Carried
    BY <1>1, <1>3, CarriedSame DEF Flaw
  <2> QED BY <1>1, <1>3, <2>1, Goes
<1>4. CASE /\ db' = [db EXCEPT !.schema = Executed(@, {CreateFavorites[1]})]
           /\ pc' = "history"
           /\ UNCHANGED <<faults, failed, flaws, at, needBackup, complete, rebuilt, retried>>
  <2>1. Carried
    BY <1>1, <1>4, CarriedSchema
  <2> QED BY <1>1, <1>4, <2>1, Goes
<1>5. CASE /\ Proceed /\ flaws' = (IF at = 34 THEN flaws \union {"favourites"} ELSE flaws)
           /\ UNCHANGED <<db, complete, rebuilt, retried>>
  <2>1. Carried
    BY <1>1, <1>5, CarriedSame
  <2> QED BY <1>1, <1>5, <2>1, Proceeds
<1> QED BY <1>2, <1>3, <1>4, <1>5 DEF CreateFavoriteTable

LEMMA HistoryStep == ASSUME UpgradeInv, GetHistoryFavoriteItem PROVE UpgradeInv'
<1>1. /\ pc = "history" /\ Proceed /\ flaws \subseteq flaws'
      /\ UNCHANGED <<store, bak, damaged, complete, rebuilt, retried, failed, unrepaired, saved>>
  BY DEF GetHistoryFavoriteItem, Flaw
<1>2. (\E x : db' = [db EXCEPT !.fav = x]) \/ db' = db
  BY DEF GetHistoryFavoriteItem
<1>3. IsFile(db') /\ db'.version = db.version /\ db'.rows = db.rows
  <2>1. CASE db' = db
    BY <2>1 DEF UpgradeInv
  <2>2. CASE \E x : db' = [db EXCEPT !.fav = x]
    <3> PICK x : db' = [db EXCEPT !.fav = x]
      BY <2>2
    <3>1. IsFile(db)
      BY DEF UpgradeInv
    <3> QED BY <3>1, FavSet
  <2> QED BY <1>2, <2>1, <2>2
<1>4. Carried
  BY <1>1, <1>3 DEF Carried, UpgradeInv
<1> QED BY <1>1, <1>4, Proceeds

LEMMA RemoveOrphansStep == ASSUME UpgradeInv, VersionUpTo26 PROVE UpgradeInv'
<1>1. /\ pc = "OnUpgrade" /\ Proceed
      /\ UNCHANGED <<store, bak, damaged, complete, rebuilt, retried, failed, unrepaired>>
  BY DEF VersionUpTo26
<1>2. PICK info \in BOOLEAN, rcs \in BOOLEAN :
        LET gone == IF info /\ <<Sms, "is_blocked">> \in db.schema THEN Orphans ELSE {}
        IN /\ db' = [db EXCEPT !.rows = [m \in Msgs |-> IF m \in gone THEN 0 ELSE @[m]],
                               !.rcs = IF rcs THEN @ \ Orphans ELSE @]
           /\ saved' = saved \ gone
           /\ flaws' = IF gone = Orphans /\ rcs THEN flaws ELSE flaws \union {"orphans"}
  BY DEF VersionUpTo26
<1> DEFINE gone == IF info /\ <<Sms, "is_blocked">> \in db.schema THEN Orphans ELSE {}
           rows == [m \in Msgs |-> IF m \in gone THEN 0 ELSE db.rows[m]]
           listed == IF rcs THEN db.rcs \ Orphans ELSE db.rcs
<1>3. db' = [db EXCEPT !.rows = rows, !.rcs = listed] /\ saved' = saved \ gone /\ flaws \subseteq flaws'
  BY <1>2
<1>4. \A m \in Msgs : db.rows[m] \in 0..2
  BY DEF UpgradeInv
<1>5. rows \in [Msgs -> 0..2] /\ \A m \in Msgs \ gone : rows[m] = db.rows[m]
  BY <1>4
<1> HIDE DEF gone, rows, listed
<1>6. IsFile(db') /\ db'.version = db.version /\ db'.rows = rows
  <2> DEFINE d == [db EXCEPT !.rows = rows]
  <2>1. IsFile(d) /\ d.version = db.version /\ d.rows = rows
    BY RowsSet DEF UpgradeInv
  <2>2. db' = [d EXCEPT !.rcs = listed]
    BY <1>3
  <2> HIDE DEF d
  <2> QED BY <2>1, <2>2, RcsSet
<1>7. Carried
  BY <1>1, <1>3, <1>5, <1>6 DEF Carried, UpgradeInv
<1> QED BY <1>1, <1>7, Proceeds

LEMMA PdpUpToFourStep == ASSUME UpgradeInv, PdpUpToFour PROVE UpgradeInv'
<1>1. /\ pc = "OnUpgrade" /\ store = "pdp_profile"
      /\ UNCHANGED <<store, bak, damaged, unrepaired, saved>>
  BY DEF PdpUpToFour
<1>2. PICK o \in Outcomes(PdpFour), cleared \in BOOLEAN :
        /\ db' = [db EXCEPT !.schema = Executed(db.schema, Ran(PdpFour, o)),
                            !.rows = IF cleared THEN NoRows ELSE @]
        /\ (Die /\ flaws' = flaws \union DeathFlaws) \/ GoOn
  BY DEF PdpUpToFour
<1>3. flaws \subseteq flaws'
  BY <1>2 DEF GoOn
<1>4. saved' = {}
  BY <1>1 DEF UpgradeInv, RowsKept
<1> DEFINE rows == IF cleared THEN NoRows ELSE db.rows
           schema == Executed(db.schema, Ran(PdpFour, o))
<1>5. db' = [db EXCEPT !.schema = schema, !.rows = rows]
  BY <1>2
<1>6. rows \in [Msgs -> 0..2]
  BY DEF UpgradeInv, NoRows
<1> HIDE DEF rows, schema
<1>7. IsFile(db') /\ db'.version = db.version /\ db'.rows = rows
  <2> DEFINE d == [db EXCEPT !.schema = schema]
  <2>1. IsFile(d) /\ d.version = db.version
    BY SchemaSet DEF UpgradeInv
  <2>2. db' = [d EXCEPT !.rows = rows]
    BY <1>5
  <2> HIDE DEF d
  <2> QED BY <2>1, <2>2, RowsSet
<1>8. Carried
  BY <1>1, <1>3, <1>4, <1>6, <1>7 DEF Carried
<1> QED BY <1>1, <1>2, <1>8, Dies, Proceeds DEF GoOn

-----------------------------------------------------------------------------
(* Opening a file, and the calls of OnOpen.                                *)
LEMMA OpeningCases ==
  ASSUME NEW d, d.version \in Nat, store \in Stores
  PROVE  \/ Opening(d) = "OnCreate" /\ d.version = 0
         \/ Opening(d) = "OnUpgrade" /\ d.version \in 1..(VERSION[store] - 1)
         \/ Opening(d) = "OnOpen" /\ d.version = VERSION[store]
         \/ Opening(d) = "OnDowngrade" /\ d.version > VERSION[store]
<1>1. VERSION[store] \in Nat \ {0}
  BY Versions
<1> QED BY <1>1 DEF Opening

LEMMA EmptyFile == IsFile(Empty) /\ Empty.version = 0 /\ Empty.rows = NoRows /\ NoRows \in [Msgs -> 0..2]
BY DEF Empty, IsFile, NoRows

LEMMA NoBackupFile == IsFile(NoBackup) /\ NoBackup.version = -1 /\ NoBackup.rows = NoRows /\ Held(NoBackup) = {}
<1>1. IsFile(NoBackup) /\ NoBackup.version = -1 /\ NoBackup.rows = NoRows
  BY DEF NoBackup, Empty, IsFile
<1> QED BY <1>1 DEF Held, NoRows

LEMMA OpenStep == ASSUME UpgradeInv, Open PROVE UpgradeInv'
<1>1. /\ pc = "closed" /\ damaged' = FALSE /\ pc' = Opening(db') /\ needBackup' = FALSE
      /\ UNCHANGED <<store, bak, faults, history>>
      /\ ~rebuilt
  BY DEF Open, UpgradeInv, RowsKept
<1>2. saved' = saved /\ flaws' = flaws
  BY <1>1 DEF history
<1>3. CASE damaged
  <2>1. db' = Empty /\ (rebuilt' <=> store = "sms_mms")
    BY <1>3 DEF Open
  <2>2. pc' = "OnCreate" /\ ~Waiting'
    <3>1. store' = store /\ store \in Stores /\ db'.version = 0
      BY <1>1, <2>1, EmptyFile DEF UpgradeInv
    <3>2. VERSION[store] \in Nat \ {0}
      BY <3>1, Versions
    <3>3. Opening(db') = "OnCreate"
      BY <3>1, <3>2, OpeningCases
    <3> QED BY <1>1, <3>1, <3>2, <3>3 DEF Waiting
  <2>3. Typed'
    BY <1>1, <1>2, <2>1, EmptyFile DEF Typed, UpgradeInv
  <2>4. "backup" \notin flaws => Fresh
    BY <1>1, <1>3 DEF UpgradeInv, VersionKept, StaleBackup, InOnOpen
  <2>5. VersionKept'
    BY <1>1, <1>2, <2>1, <2>2, <2>4, EmptyFile DEF VersionKept, InOnOpen, Fresh
  <2>6. RowsKept'
    BY <1>1, <1>2, <2>1, <2>2 DEF UpgradeInv, RowsKept
  <2> QED BY <2>3, <2>5, <2>6, Parts DEF Typed, UpgradeInv
<1>4. CASE ~damaged
  <2>1. db' = db /\ ~rebuilt'
    BY <1>4 DEF Open
  <2>2. Typed'
    BY <1>1, <1>2, <2>1 DEF Typed, UpgradeInv
  <2>3. \/ pc' = "OnCreate" /\ db.version = 0
        \/ pc' = "OnUpgrade" /\ Waiting
        \/ pc' = "OnOpen" /\ db.version = VERSION[store]
        \/ pc' = "OnDowngrade" /\ db.version > VERSION[store]
    <3>1. Opening(db') = Opening(db)
      BY <2>1, <1>1 DEF Opening
    <3> QED BY <1>1, <3>1, OpeningCases DEF UpgradeInv, Waiting
  <2>4. VERSION[store] \in Nat \ {0}
    BY Versions DEF UpgradeInv
  <2>5. pc' = "OnUpgrade" <=> Waiting
    BY <2>3, <2>4 DEF Waiting
  <2>6. "backup" \notin flaws => Fresh \/ Waiting
    BY <1>1 DEF UpgradeInv, VersionKept, StaleBackup, InOnOpen
  <2>7. (Waiting' <=> Waiting) /\ (Fresh' <=> Fresh)
    BY <1>1, <2>1 DEF Waiting, Fresh
  <2>8. VersionKept'
    BY <1>1, <1>2, <2>1, <2>3, <2>5, <2>6, <2>7 DEF VersionKept, InOnOpen, StaleBackup
  <2>9. RowsKept'
    <3>1. pc' # "closed" /\ pc' # "ready" /\ Held(db') = Held(db)
      BY <2>1, <2>3 DEF Held
    <3>2. "rebuild" \notin flaws => ("repair" \notin flaws => saved \subseteq Held(db))
      BY <1>1 DEF UpgradeInv, RowsKept
    <3>3. Waiting => ("repair" \notin flaws => saved \subseteq Held(db))
      BY DEF UpgradeInv, RowsKept
    <3> QED BY <1>1, <1>2, <2>1, <2>7, <3>1, <3>2, <3>3 DEF UpgradeInv, RowsKept
  <2> QED BY <2>2, <2>8, <2>9, Parts DEF Typed, UpgradeInv
<1> QED BY <1>3, <1>4

LEMMA OnDowngradeStep == ASSUME UpgradeInv, OnDowngrade PROVE UpgradeInv'
<1>1. /\ pc = "OnDowngrade" /\ pc' = "SetVersion"
      /\ UNCHANGED <<store, db, bak, damaged, needBackup, rebuilt, saved, flaws>>
  BY DEF OnDowngrade, history
<1>2. Carried
  BY <1>1, CarriedSame
<1>3. /\ Typed'
      /\ saved \subseteq Held(bak) => saved' \subseteq Held(bak')
      /\ saved \subseteq Held(db) => saved' \subseteq Held(db')
      /\ Waiting' <=> Waiting
      /\ Fresh' <=> Fresh
      /\ saved = {} => saved' = {}
  BY <1>2, CarriedKeeps
<1>4. ~damaged /\ ("backup" \notin flaws => Fresh)
  BY <1>1 DEF UpgradeInv, VersionKept, StaleBackup, InOnOpen
<1>5. VersionKept'
  BY <1>1, <1>3, <1>4 DEF VersionKept, InOnOpen
<1>6. RowsKept'
  BY <1>1, <1>3 DEF UpgradeInv, RowsKept
<1> QED BY <1>3, <1>5, <1>6, Parts DEF Typed, UpgradeInv

LEMMA SetVersionStep == ASSUME UpgradeInv, SetVersion PROVE UpgradeInv'
<1>1. /\ pc = "SetVersion" /\ pc' = "OnOpen" /\ db' = [db EXCEPT !.version = VERSION[store]]
      /\ UNCHANGED <<store, bak, damaged, needBackup, rebuilt, saved, flaws>>
  BY DEF SetVersion, history
<1>2. VERSION[store] \in Nat \ {0}
  BY Versions DEF UpgradeInv
<1>3. IsFile(db') /\ db'.version = VERSION[store] /\ db'.rows = db.rows
  BY <1>1, VersionSet DEF UpgradeInv
<1>4. Typed'
  BY <1>1, <1>2, <1>3 DEF Typed, UpgradeInv
<1>5. ~Waiting' /\ (Fresh' <=> Fresh) /\ Held(db') = Held(db) /\ Held(bak') = Held(bak)
  BY <1>1, <1>2, <1>3 DEF Waiting, Fresh, Held
<1>6. ~damaged /\ ("backup" \notin flaws => Fresh \/ needBackup)
  BY <1>1 DEF UpgradeInv, VersionKept, StaleBackup, InOnOpen
<1>7. VersionKept'
  BY <1>1, <1>3, <1>5, <1>6 DEF VersionKept, InOnOpen, StaleBackup
<1>8. RowsKept'
  BY <1>1, <1>5 DEF UpgradeInv, RowsKept
<1> QED BY <1>4, <1>7, <1>8, Parts DEF Typed, UpgradeInv

(* From one call of OnOpen to the next.  A backup that becomes wanted may  *)
(* not be one of a store that was not restored.                            *)
LEMMA Checks ==
  ASSUME UpgradeInv, Carried, InOnOpen,
         pc' \in {"fields", "components", "backup", "opened"}, rebuilt' = rebuilt,
         needBackup => needBackup',
         pc' # "opened" => store = "sms_mms",
         "backup" \notin flaws' => complete' /\ pc' # "opened",
         "repair" \notin flaws' => needBackup \/ ~needBackup' \/ (~rebuilt /\ "rebuild" \notin flaws)
  PROVE  UpgradeInv'
<1>1. /\ Typed'
      /\ saved \subseteq Held(bak) => saved' \subseteq Held(bak')
      /\ saved \subseteq Held(db) => saved' \subseteq Held(db')
      /\ Waiting' <=> Waiting
      /\ Fresh' <=> Fresh
      /\ saved = {} => saved' = {}
  BY CarriedKeeps
<1>2. store' = store /\ bak' = bak /\ damaged' = damaged /\ flaws \subseteq flaws' /\ db'.version = db.version
  BY DEF Carried
<1>3. /\ db.version = VERSION[store] /\ ~damaged
      /\ "backup" \notin flaws' => Fresh \/ needBackup
  BY <1>2, Zenon DEF UpgradeInv, VersionKept, StaleBackup, InOnOpen
<1>4. VersionKept'
  <2>1. "backup" \notin flaws' => Fresh' \/ StaleBackup'
    BY <1>1, <1>3 DEF StaleBackup, InOnOpen
  <2>2. /\ pc' \notin {"OnUpgrade", "copy", "history", "OnCreate", "ready", "closed"}
        /\ "backup" \notin flaws' => complete'
    OBVIOUS
  <2>3. db'.version = VERSION[store'] /\ ~damaged' /\ (pc' \in {"fields", "components", "backup"} => store' = "sms_mms")
    BY <1>2, <1>3
  <2> QED BY <2>1, <2>2, <2>3 DEF VersionKept
<1>5. RowsKept'
  <2>1. pc' \notin {"closed", "ready"}
    OBVIOUS
  <2> QED BY <2>1, <1>1, <1>2 DEF UpgradeInv, RowsKept
<1> QED BY <1>1, <1>4, <1>5, Parts DEF Typed, UpgradeInv

LEMMA OnOpenOtherStep == ASSUME UpgradeInv, OnOpenOther PROVE UpgradeInv'
<1>1. /\ pc = "OnOpen" /\ store # "sms_mms" /\ pc' = "opened"
      /\ UNCHANGED <<store, db, bak, damaged, needBackup, rebuilt, saved, flaws>>
  BY DEF OnOpenOther, history
<1>2. Carried
  BY <1>1, CarriedSame
<1>3. /\ Typed'
      /\ saved \subseteq Held(bak) => saved' \subseteq Held(bak')
      /\ saved \subseteq Held(db) => saved' \subseteq Held(db')
      /\ Waiting' <=> Waiting
      /\ Fresh' <=> Fresh
      /\ saved = {} => saved' = {}
  BY <1>2, CarriedKeeps
<1>4. ~damaged /\ Fresh /\ db.version = VERSION[store]
  BY <1>1 DEF UpgradeInv, VersionKept, RowsKept, InOnOpen, Fresh
<1>5. VersionKept'
  BY <1>1, <1>3, <1>4 DEF VersionKept, InOnOpen
<1>6. RowsKept'
  BY <1>1, <1>3 DEF UpgradeInv, RowsKept
<1> QED BY <1>3, <1>5, <1>6, Parts DEF Typed, UpgradeInv

LEMMA OnOpenNoVersionStep == ASSUME UpgradeInv, OnOpenNoVersion PROVE UpgradeInv'
<1>1. /\ pc = "OnOpen" /\ store = "sms_mms" /\ pc' = "opened" /\ Flaw("backup")
      /\ UNCHANGED <<store, db, bak, damaged, needBackup, rebuilt, saved>>
  BY DEF OnOpenNoVersion
<1>2. Carried
  BY <1>1, CarriedSame DEF Flaw
<1> QED BY <1>1, <1>2, Checks DEF Flaw, InOnOpen

LEMMA OnOpenStep == ASSUME UpgradeInv, OnOpen PROVE UpgradeInv'
<1>1. pc = "OnOpen" /\ store = "sms_mms" /\ UNCHANGED <<store, bak, damaged, failed, saved>>
  BY DEF OnOpen
<1>2. CASE /\ complete' = TRUE /\ pc' = "fields"
           /\ UNCHANGED <<db, faults, unrepaired, flaws, at, needBackup, rebuilt, retried>>
  <2>1. Carried
    BY <1>1, <1>2, CarriedSame
  <2> QED BY <1>1, <1>2, <2>1, Checks DEF InOnOpen
<1>3. ASSUME NEW o \in Outcomes(InitCreateTableVec), Execute(InitCreateTableVec, o),
             \/ Die /\ flaws' = flaws \union DeathFlaws
             \/ complete' = FALSE /\ pc' = "fields" /\ Flaw("backup") /\ UNCHANGED <<at, needBackup, rebuilt, retried>>
      PROVE  UpgradeInv'
  <2>1. flaws \subseteq flaws'
    BY <1>3 DEF Flaw
  <2>2. Carried
    BY <1>1, <1>3, <2>1, CarriedSchema DEF Execute
  <2> QED BY <1>1, <1>3, <2>2, Dies, Checks DEF InOnOpen, Flaw
<1>4. CASE /\ db' = [db EXCEPT !.schema = Executed(@, {InitCreateTableVec[i] : i \in DOMAIN InitCreateTableVec})]
           /\ complete' = FALSE /\ pc' = "fields" /\ Flaw("backup")
           /\ UNCHANGED <<unrepaired, at, needBackup, rebuilt, retried>>
  <2>1. flaws \subseteq flaws'
    BY <1>4 DEF Flaw
  <2>2. Carried
    BY <1>1, <1>4, <2>1, CarriedSchema
  <2> QED BY <1>1, <1>4, <2>2, Checks DEF InOnOpen, Flaw
<1> QED BY <1>2, <1>3, <1>4 DEF OnOpen

LEMMA RepairStep ==
  ASSUME UpgradeInv, NEW stmts, NEW unseen, NEW next \in {"components", "backup"},
         pc \in {"fields", "components"}, Repair(stmts, unseen, next)
  PROVE  UpgradeInv'
<1>1. PICK o \in Outcomes(stmts) :
        /\ db' = [db EXCEPT !.schema = Executed(db.schema, Ran(stmts, o))]
        /\ \/ Die /\ flaws' = flaws \union DeathFlaws
           \/ /\ pc' = next
              /\ needBackup' = (needBackup \/ stmts # <<>>)
              /\ flaws' = IF stmts # <<>> /\ (rebuilt \/ "rebuild" \in flaws) THEN flaws \union {"repair"} ELSE flaws
              /\ UNCHANGED <<at, complete, rebuilt, retried>>
        /\ UNCHANGED <<store, bak, damaged, failed, saved>>
  BY DEF Repair
<1>2. flaws \subseteq flaws'
  BY <1>1
<1>3. Carried
  BY <1>1, <1>2, CarriedSchema
<1>4. CASE Die /\ flaws' = flaws \union DeathFlaws
  BY <1>3, <1>4, Dies
<1>5. ASSUME pc' = next, needBackup' = (needBackup \/ stmts # <<>>),
             flaws' = IF stmts # <<>> /\ (rebuilt \/ "rebuild" \in flaws) THEN flaws \union {"repair"} ELSE flaws,
             complete' = complete, rebuilt' = rebuilt
      PROVE  UpgradeInv'
  <2>1. store = "sms_mms" /\ ("backup" \notin flaws => complete) /\ InOnOpen
    BY DEF UpgradeInv, VersionKept, InOnOpen
  <2>2. needBackup => needBackup'
    BY <1>5
  <2>3. "repair" \notin flaws' => needBackup \/ ~needBackup' \/ (~rebuilt /\ "rebuild" \notin flaws)
    BY <1>5
  <2>4. "backup" \notin flaws' => complete' /\ pc' # "opened"
    BY <1>2, <1>5, <2>1
  <2> QED BY <1>3, <1>5, <2>1, <2>2, <2>3, <2>4, Checks
<1> QED BY <1>1, <1>4, <1>5

LEMMA DoBackUpDBStep == ASSUME UpgradeInv, DoBackUpDB PROVE UpgradeInv'
<1>1. /\ pc = "backup" /\ pc' = "opened"
      /\ UNCHANGED <<store, db, damaged, needBackup, complete, rebuilt>>
  BY DEF DoBackUpDB
<1>2. store = "sms_mms" /\ ~damaged /\ db.version = VERSION[store] /\ ("backup" \notin flaws => complete)
  BY <1>1 DEF UpgradeInv, VersionKept, InOnOpen
<1>3. VERSION[store] \in Nat \ {0}
  BY Versions DEF UpgradeInv
<1>4. ~Waiting' /\ Held(db') = Held(db)
  BY <1>1, <1>2, <1>3 DEF Waiting, Held
<1>5. CASE /\ ~(complete /\ WantsBackup)
           /\ UNCHANGED <<bak, saved, faults, flaws>>
  <2>1. Typed'
    BY <1>1, <1>5 DEF Typed, UpgradeInv
  <2>2. "backup" \notin flaws => Fresh
    BY <1>1, <1>2, <1>5 DEF UpgradeInv, VersionKept, StaleBackup, WantsBackup
  <2>3. Fresh' <=> Fresh
    BY <1>1, <1>5 DEF Fresh
  <2>4. VersionKept'
    BY <1>1, <1>2, <1>5, <2>2, <2>3 DEF VersionKept, InOnOpen
  <2>5. RowsKept'
    BY <1>1, <1>2, <1>4, <1>5 DEF UpgradeInv, RowsKept, Held
  <2> QED BY <2>1, <2>4, <2>5, Parts DEF Typed, UpgradeInv
<1>6. CASE /\ complete /\ WantsBackup
           /\ bak' = db /\ saved' = saved \union Held(db)
           /\ UNCHANGED <<faults, flaws>>
  <2>1. Typed'
    BY <1>1, <1>6 DEF Typed, UpgradeInv, Held
  <2>2. Fresh'
    BY <1>1, <1>2, <1>3, <1>6 DEF Fresh
  <2>3. VersionKept'
    BY <1>1, <1>2, <1>6, <2>2 DEF VersionKept, InOnOpen
  <2>4. "repair" \notin flaws => saved \subseteq Held(db)
    <3>1. CASE bak = NoBackup
      BY <3>1, NoBackupFile DEF UpgradeInv, RowsKept
    <3>2. CASE needBackup
      BY <3>2 DEF UpgradeInv, RowsKept
    <3> QED BY <3>1, <3>2, <1>6 DEF WantsBackup
  <2>5. Held(bak') = Held(db)
    BY <1>6 DEF Held
  <2>6. RowsKept'
    BY <1>1, <1>2, <1>4, <1>6, <2>4, <2>5 DEF RowsKept
  <2> QED BY <2>1, <2>3, <2>6, Parts DEF Typed, UpgradeInv
<1>7. CASE Flaw("backup") /\ UNCHANGED <<bak, saved>>
  <2>1. Typed'
    BY <1>1, <1>7 DEF Typed, UpgradeInv
  <2>2. "backup" \in flaws' /\ flaws \subseteq flaws'
    BY <1>7 DEF Flaw
  <2>3. VersionKept'
    BY <1>1, <1>2, <2>2 DEF VersionKept, InOnOpen
  <2>4. RowsKept'
    BY <1>1, <1>2, <1>4, <1>7, <2>2 DEF UpgradeInv, RowsKept, Held
  <2> QED BY <2>1, <2>3, <2>4, Parts DEF Typed, UpgradeInv
<1> QED BY <1>5, <1>6, <1>7 DEF DoBackUpDB

-----------------------------------------------------------------------------
(* The restore of a rebuilt store, and the life of an open one.            *)
LEMMA RestoreStep == ASSUME UpgradeInv, Restore PROVE UpgradeInv'
<1>1. /\ pc = "opened" /\ rebuilt' = FALSE /\ pc' = Opening(db')
      /\ UNCHANGED <<store, bak, damaged, needBackup, saved>>
      /\ (db' = Restored /\ flaws' = flaws) \/ (Flaw("rebuild") /\ db' = db)
  BY DEF Restore
<1>2. ~damaged /\ db.version = VERSION[store] /\ ("backup" \notin flaws => Fresh)
  BY <1>1 DEF UpgradeInv, VersionKept, StaleBackup, InOnOpen
<1>3. VERSION[store] \in Nat \ {0}
  BY Versions DEF UpgradeInv
<1>4. db' = db \/ (db' = bak /\ bak # NoBackup)
  BY <1>1 DEF Restored
<1>5. Typed'
  BY <1>1, <1>4 DEF Typed, UpgradeInv, Flaw
<1>6. \/ pc' = "OnCreate" /\ db'.version = 0
      \/ pc' = "OnUpgrade" /\ Waiting'
      \/ pc' = "OnOpen" /\ db'.version = VERSION[store]
      \/ pc' = "OnDowngrade" /\ db'.version > VERSION[store]
  <2>1. db'.version \in Nat /\ store \in Stores /\ store' = store
    BY <1>1, <1>5 DEF Typed, UpgradeInv
  <2> QED BY <1>1, <2>1, OpeningCases DEF Waiting
<1>7. flaws \subseteq flaws' /\ (Fresh' <=> Fresh)
  BY <1>1 DEF Flaw, Fresh
<1>8. VersionKept'
  BY <1>1, <1>2, <1>6, <1>7 DEF VersionKept, InOnOpen
<1>9. RowsKept'
  <2>1. pc' \notin {"closed", "ready"}
    BY <1>6
  <2>2. Held(bak') = Held(bak)
    BY <1>1 DEF Held
  <2>3. CASE db' = bak /\ bak # NoBackup
    <3>1. Held(db') = Held(bak)
      BY <2>3 DEF Held
    <3> QED BY <1>1, <1>7, <2>1, <2>2, <3>1 DEF UpgradeInv, RowsKept
  <2>4. CASE db' = db
    <3>1. Held(db') = Held(db) /\ ~Waiting'
      BY <1>1, <1>2, <1>3, <2>4 DEF Held, Waiting
    <3>2. "rebuild" \notin flaws' => bak = NoBackup \/ bak = db
      BY <1>1, <2>4 DEF Restored, Flaw
    <3>3. "rebuild" \notin flaws' /\ "repair" \notin flaws' => saved \subseteq Held(db)
      <4> SUFFICES ASSUME "rebuild" \notin flaws', "repair" \notin flaws' PROVE saved \subseteq Held(db)
        OBVIOUS
      <4>1. saved \subseteq Held(bak)
        BY <1>7 DEF UpgradeInv, RowsKept
      <4> QED BY <4>1, <3>2, NoBackupFile
    <3> QED BY <1>1, <1>7, <2>1, <2>2, <3>1, <3>3 DEF UpgradeInv, RowsKept
  <2> QED BY <1>4, <2>3, <2>4
<1> QED BY <1>5, <1>8, <1>9, Parts DEF Typed, UpgradeInv

LEMMA ServeStep == ASSUME UpgradeInv, Serve PROVE UpgradeInv'
<1>1. /\ pc = "opened" /\ ~rebuilt /\ pc' = "ready"
      /\ UNCHANGED <<store, db, bak, damaged, needBackup, rebuilt, saved, flaws>>
  BY DEF Serve, history
<1>2. ~damaged /\ db.version = VERSION[store] /\ ("backup" \notin flaws => Fresh)
  BY <1>1 DEF UpgradeInv, VersionKept, StaleBackup, InOnOpen
<1>3. VERSION[store] \in Nat \ {0}
  BY Versions DEF UpgradeInv
<1>4. (Fresh' <=> Fresh) /\ (Waiting' <=> Waiting) /\ Held(db') = Held(db) /\ Held(bak') = Held(bak)
  BY <1>1 DEF Fresh, Waiting, Held
<1>5. VersionKept'
  BY <1>1, <1>2, <1>3, <1>4 DEF VersionKept, InOnOpen
<1>6. RowsKept'
  BY <1>1, <1>4 DEF UpgradeInv, RowsKept
<1> QED BY <1>1, <1>5, <1>6, Parts DEF Typed, UpgradeInv

(* A step of the open store that leaves the opening alone.                 *)
LEMMA Serves ==
  ASSUME UpgradeInv, Carried, pc = "ready", UNCHANGED opening, flaws' = flaws
  PROVE  UpgradeInv'
<1>1. /\ Typed'
      /\ saved \subseteq Held(bak) => saved' \subseteq Held(bak')
      /\ saved \subseteq Held(db) => saved' \subseteq Held(db')
      /\ Waiting' <=> Waiting
      /\ Fresh' <=> Fresh
      /\ saved = {} => saved' = {}
  BY CarriedKeeps
<1>2. /\ store' = store /\ bak' = bak /\ damaged' = damaged /\ db'.version = db.version
      /\ pc' = "ready" /\ needBackup' = needBackup /\ rebuilt' = rebuilt
  BY DEF Carried, opening
<1>3. "backup" \notin flaws => Fresh /\ db.version >= VERSION[store]
  BY DEF UpgradeInv, VersionKept, StaleBackup, InOnOpen
<1>4. VersionKept'
  BY <1>1, <1>2, <1>3 DEF VersionKept, InOnOpen
<1>5. RowsKept'
  BY <1>1, <1>2 DEF UpgradeInv, RowsKept
<1> QED BY <1>1, <1>4, <1>5, Parts DEF Typed, UpgradeInv

LEMMA ReceiveStep == ASSUME UpgradeInv, NEW m \in Msgs, Receive(m) PROVE UpgradeInv'
<1>1. /\ pc = "ready" /\ UNCHANGED opening /\ flaws' = flaws /\ saved' = saved
      /\ UNCHANGED <<store, bak, damaged>>
  BY DEF Receive, history
<1> DEFINE rows == [db.rows EXCEPT ![m] = 1]
           listed == IF m \in RcsMsgs THEN db.rcs \union {m} ELSE db.rcs
           d == [db EXCEPT !.rows = rows]
<1>2. db' = [db EXCEPT !.rows[m] = 1, !.rcs = IF m \in RcsMsgs THEN @ \union {m} ELSE @]
  BY DEF Receive
<1>3. d = [db EXCEPT !.rows[m] = 1]
  OBVIOUS
<1>4. d.rcs = db.rcs
  BY DEF UpgradeInv, IsFile
<1>5. db' = [d EXCEPT !.rcs = listed]
  BY <1>2, <1>3, <1>4
<1>6. rows \in [Msgs -> 0..2] /\ \A k \in Msgs : db.rows[k] > 0 => rows[k] > 0
  BY DEF UpgradeInv
<1> HIDE DEF rows, listed
<1>7. IsFile(d) /\ d.version = db.version /\ d.rows = rows
  BY RowsSet DEF UpgradeInv
<1> HIDE DEF d
<1>8. IsFile(db') /\ db'.version = db.version /\ db'.rows = rows
  BY <1>5, <1>7, RcsSet
<1>9. Carried
  BY <1>1, <1>6, <1>8 DEF Carried, UpgradeInv
<1> QED BY <1>1, <1>9, Serves

LEMMA RemoveStep == ASSUME UpgradeInv, NEW m \in Msgs, Remove(m) PROVE UpgradeInv'
<1>1. /\ pc = "ready" /\ UNCHANGED opening /\ flaws' = flaws /\ saved' = saved \ {m}
      /\ UNCHANGED <<store, bak, damaged>>
  BY DEF Remove
<1> DEFINE rows == [db.rows EXCEPT ![m] = 0]
           listed == db.rcs \ {m}
           d == [db EXCEPT !.rows = rows]
<1>2. db' = [db EXCEPT !.rows[m] = 0, !.rcs = @ \ {m}]
  BY DEF Remove
<1>3. d = [db EXCEPT !.rows[m] = 0]
  OBVIOUS
<1>4. d.rcs = db.rcs
  BY DEF UpgradeInv, IsFile
<1>5. db' = [d EXCEPT !.rcs = listed]
  BY <1>2, <1>3, <1>4
<1>6. rows \in [Msgs -> 0..2] /\ \A k \in Msgs \ {m} : rows[k] = db.rows[k]
  BY DEF UpgradeInv
<1> HIDE DEF rows, listed
<1>7. IsFile(d) /\ d.version = db.version /\ d.rows = rows
  BY RowsSet DEF UpgradeInv
<1> HIDE DEF d
<1>8. IsFile(db') /\ db'.version = db.version /\ db'.rows = rows
  BY <1>5, <1>7, RcsSet
<1>9. Carried
  BY <1>1, <1>6, <1>8 DEF Carried, UpgradeInv
<1> QED BY <1>1, <1>9, Serves

LEMMA DamageStep == ASSUME UpgradeInv, Damage PROVE UpgradeInv'
<1>1. /\ pc = "ready" /\ flaws' = flaws \union {"damage"}
      /\ UNCHANGED <<store, db, bak, opening, saved>>
  BY DEF Damage, Flaw
<1>2. /\ pc' = "ready" /\ needBackup' = needBackup /\ rebuilt' = rebuilt
      /\ (Fresh' <=> Fresh) /\ (Waiting' <=> Waiting) /\ Held(db') = Held(db) /\ Held(bak') = Held(bak)
  BY <1>1 DEF opening, Fresh, Waiting, Held
<1>3. "backup" \notin flaws => Fresh /\ db.version >= VERSION[store]
  BY <1>1 DEF UpgradeInv, VersionKept, StaleBackup, InOnOpen
<1>4. VersionKept'
  BY <1>1, <1>2, <1>3 DEF VersionKept, InOnOpen
<1>5. RowsKept'
  BY <1>1, <1>2 DEF UpgradeInv, RowsKept
<1>6. Typed'
  BY <1>1 DEF UpgradeInv, Typed
<1> QED BY <1>4, <1>5, <1>6, Parts DEF Typed, UpgradeInv

LEMMA TryRestoreStep == ASSUME UpgradeInv, TryRestore PROVE UpgradeInv'
<1>1. /\ pc = "ready" /\ bak # NoBackup /\ db' = bak /\ damaged' = FALSE
      /\ UNCHANGED <<store, bak, opening, saved, flaws>>
  BY DEF TryRestore, history
<1>2. /\ pc' = "ready" /\ needBackup' = needBackup /\ rebuilt' = rebuilt
      /\ (Fresh' <=> Fresh) /\ Held(db') = Held(bak) /\ Held(bak') = Held(bak)
  BY <1>1 DEF opening, Fresh, Held
<1>3. "backup" \notin flaws => Fresh
  BY <1>1 DEF UpgradeInv, VersionKept, StaleBackup, InOnOpen
<1>4. "backup" \notin flaws => db'.version >= VERSION[store]
  BY <1>1, <1>3 DEF Fresh
<1>5. VersionKept'
  BY <1>1, <1>2, <1>3, <1>4 DEF VersionKept, InOnOpen
<1>6. RowsKept'
  BY <1>1, <1>2 DEF UpgradeInv, RowsKept
<1>7. Typed'
  BY <1>1 DEF UpgradeInv, Typed
<1> QED BY <1>5, <1>6, <1>7, Parts DEF Typed, UpgradeInv

LEMMA CloseStep == ASSUME UpgradeInv, Close PROVE UpgradeInv'
<1>1. /\ pc = "ready" /\ Die
      /\ UNCHANGED <<store, db, bak, damaged, saved, flaws>>
  BY DEF Close, history
<1>2. Carried
  BY <1>1, CarriedSame
<1>3. DeathFlaws = {}
  BY <1>1 DEF DeathFlaws, UpgradeInv, RowsKept
<1> QED BY <1>1, <1>2, <1>3, Dies

LEMMA CrashStep == ASSUME UpgradeInv, Crash PROVE UpgradeInv'
<1>1. /\ pc # "closed" /\ Die
      /\ flaws \subseteq flaws' /\ DeathFlaws \subseteq flaws'
      /\ UNCHANGED <<store, db, bak, damaged, saved>>
  BY DEF Crash
<1>2. Carried
  BY <1>1, CarriedSame
<1> QED BY <1>1, <1>2, Dies

-----------------------------------------------------------------------------
LEMMA ReleasedFile ==
  ASSUME NEW s \in Stores, NEW v \in Nat, NEW p
  PROVE  /\ IsFile(Found(s, v, p)) /\ Found(s, v, p).version = v
         /\ Found(s, v, p).rows \in [Msgs -> 0..2]
<1>1. CASE v = 0
  BY <1>1, EmptyFile DEF Found
<1>2. CASE v # 0
  <2> DEFINE schema == Release(s, IF p > VERSION[s] THEN VERSION[s] ELSE p)
                      \union (IF p > v /\ s = "sms_mms" THEN Columns("mms_info", UpgradedView) ELSE {})
             rows == [m \in Msgs |-> IF m \notin Later /\ (m \in RcsMsgs => p >= 12) THEN 1 ELSE 0]
             rcs == RcsMsgs \ Later
             fav == [m \in Msgs |-> IF m \in Collected \ Later /\ p >= 23 THEN 1 ELSE 0]
  <2>1. Found(s, v, p) = [version |-> v, schema |-> schema, rows |-> rows, rcs |-> rcs, fav |-> fav]
    BY <1>2 DEF Found
  <2>2. rows \in [Msgs -> 0..2]
    OBVIOUS
  <2> HIDE DEF schema, rows, rcs, fav
  <2> QED BY <2>1, <2>2 DEF IsFile
<1> QED BY <1>1, <1>2

LEMMA ReleasedRows ==
  ASSUME NEW s \in Stores, NEW v \in Nat, NEW p, v # 0, NEW m \in Msgs
  PROVE  Found(s, v, p).rows[m] = IF m \notin Later /\ (m \in RcsMsgs => p >= 12) THEN 1 ELSE 0
BY DEF Found

LEMMA UpgradeInit == Init => UpgradeInv
<1> SUFFICES ASSUME Init PROVE UpgradeInv
  OBVIOUS
<1>1. PICK start \in Starts : store = start[1] /\ db = Found(start[1], start[2], start[3])
  BY DEF Init
<1>2. start \in Stores \X Nat \X Nat
  BY SchemaAssumption
<1>3. store \in Stores /\ start[2] \in Nat
  BY <1>1, <1>2
<1>4. IsFile(db) /\ db.version = start[2] /\ db.rows \in [Msgs -> 0..2]
  BY <1>1, <1>3, ReleasedFile
<1>5. bak = NoBackup \/ (store = "sms_mms" /\ db.version > 0 /\ bak = Found(store, db.version, db.version))
  BY DEF Init
<1>6. /\ IsFile(bak) /\ bak.rows \in [Msgs -> 0..2]
      /\ bak = NoBackup \/ (store = "sms_mms" /\ db.version > 0 /\ bak.version = db.version)
  <2>1. CASE bak = NoBackup
    BY <2>1, NoBackupFile, EmptyFile
  <2>2. CASE store = "sms_mms" /\ db.version > 0 /\ bak = Found(store, db.version, db.version)
    BY <2>2, <1>3, <1>4, ReleasedFile
  <2> QED BY <1>5, <2>1, <2>2
<1>7. /\ pc = "closed" /\ ~damaged /\ ~needBackup /\ ~rebuilt
      /\ saved = IF bak = NoBackup THEN {} ELSE Held(bak)
  BY DEF Init
<1>8. VERSION[store] \in Nat \ {0}
  BY <1>3, Versions
<1>9. VersionKept
  <2>1. Fresh \/ Waiting
    BY <1>3, <1>4, <1>6, <1>8 DEF Fresh, Waiting
  <2> QED BY <1>7, <2>1 DEF VersionKept, InOnOpen, StaleBackup
<1>10. RowsKept
  <2>1. saved \subseteq Held(bak) /\ (store # "sms_mms" => bak = NoBackup /\ saved = {})
    BY <1>6, <1>7
  <2>2. saved \subseteq Held(db)
    <3>1. CASE bak = NoBackup
      BY <3>1, <1>7
    <3>2. CASE bak # NoBackup
      <4>1. bak = Found(store, db.version, db.version)
        BY <1>5, <3>2
      <4>2. \A m \in Msgs : bak.rows[m] > 0 => db.rows[m] > 0
        <5> SUFFICES ASSUME NEW m \in Msgs, bak.rows[m] > 0 PROVE db.rows[m] > 0
          OBVIOUS
        <5>1. start[2] # 0 /\ start[3] \in Nat /\ start[2] <= start[3]
          BY <1>2, <1>4, <1>6, <3>2, SchemaAssumption
        <5>2. bak.rows[m] = IF m \notin Later /\ (m \in RcsMsgs => start[2] >= 12) THEN 1 ELSE 0
          BY <1>3, <1>4, <4>1, <5>1, ReleasedRows
        <5>3. db.rows[m] = IF m \notin Later /\ (m \in RcsMsgs => start[3] >= 12) THEN 1 ELSE 0
          BY <1>1, <1>3, <5>1, ReleasedRows
        <5>4. m \notin Later /\ (m \in RcsMsgs => start[2] >= 12)
          BY <5>2
        <5> QED BY <1>3, <5>1, <5>3, <5>4
      <4> QED BY <1>7, <3>2, <4>2 DEF Held
    <3> QED BY <3>1, <3>2
  <2> QED BY <1>7, <2>1, <2>2 DEF RowsKept
<1>11. saved \subseteq Msgs
  BY <1>7 DEF Held
<1> QED BY <1>3, <1>4, <1>6, <1>9, <1>10, <1>11 DEF UpgradeInv

LEMMA UpgradeNext == UpgradeInv /\ [Next]_vars => UpgradeInv'
<1> SUFFICES ASSUME UpgradeInv, [Next]_vars PROVE UpgradeInv'
  OBVIOUS
<1>1. CASE \E p \in 1..VERSION[store] : VersionUpTo(p)
  BY <1>1, VersionUpToStep
<1>2. CASE \E m \in Msgs : Receive(m) \/ Remove(m)
  BY <1>2, ReceiveStep, RemoveStep
<1>3. CASE Open \/ OnCreate \/ OnDowngrade \/ SetVersion
  BY <1>3, OpenStep, OnCreateStep, OnDowngradeStep, SetVersionStep
<1>4. CASE VersionUpToTwelve \/ RcsInfoInsertSmsMmsInfo \/ CreateFavoriteTable
             \/ GetHistoryFavoriteItem \/ VersionUpTo26 \/ PdpUpToFour
  BY <1>4, VersionUpToTwelveStep, CopyStep, FavoritesStep, HistoryStep, RemoveOrphansStep, PdpUpToFourStep
<1>5. CASE OnOpenOther \/ OnOpenNoVersion \/ OnOpen \/ DoBackUpDB
  BY <1>5, OnOpenOtherStep, OnOpenNoVersionStep, OnOpenStep, DoBackUpDBStep
<1>6. CASE CheckAndCompleteFields
  <2> PICK unseen \in Unseen(CheckedFields) : Repair(Fields(unseen), unseen, "components")
    BY <1>6 DEF CheckAndCompleteFields
  <2> QED BY <1>6, RepairStep DEF CheckAndCompleteFields
<1>7. CASE CheckAndCompleteComponent
  <2> PICK unseen \in Unseen(CheckedComponents) : Repair(Components(unseen), unseen, "backup")
    BY <1>7 DEF CheckAndCompleteComponent
  <2> QED BY <1>7, RepairStep DEF CheckAndCompleteComponent
<1>8. CASE Restore \/ Serve \/ Damage \/ TryRestore \/ Close \/ Crash
  BY <1>8, RestoreStep, ServeStep, DamageStep, TryRestoreStep, CloseStep, CrashStep
<1>9. CASE UNCHANGED vars
  <2>1. UNCHANGED <<store, db, bak, damaged, pc, needBackup, complete, rebuilt, saved, flaws>>
    BY <1>9 DEF vars, opening, history
  <2>2. (Fresh' <=> Fresh) /\ (Waiting' <=> Waiting) /\ Held(db') = Held(db) /\ Held(bak') = Held(bak)
    BY <2>1 DEF Fresh, Waiting, Held
  <2>3. VersionKept'
    BY <2>1, <2>2 DEF UpgradeInv, VersionKept, InOnOpen, StaleBackup
  <2>4. RowsKept'
    BY <2>1, <2>2 DEF UpgradeInv, RowsKept
  <2> QED BY <2>1, <2>3, <2>4 DEF UpgradeInv
<1> QED BY <1>1, <1>2, <1>3, <1>4, <1>5, <1>6, <1>7, <1>8, <1>9 DEF Next

(* The inductive invariant of every opening, of any store, from any        *)
(* release and with any number of failures.                                *)
THEOREM UpgradeIsSafe == Spec => []UpgradeInv
<1>1. Init => UpgradeInv
  BY UpgradeInit
<1>2. UpgradeInv /\ [Next]_vars => UpgradeInv'
  BY UpgradeNext
<1> QED BY <1>1, <1>2, PTL DEF Spec

(* An open store has the version of the code, whatever was restored into   *)
(* it, unless the backup of its upgrade was not made.                      *)
THEOREM OpensCurrent == Spec => []OpenStoreCurrent
<1>1. UpgradeInv => OpenStoreCurrent
  BY DEF UpgradeInv, VersionKept, OpenStoreCurrent
<1> QED BY <1>1, UpgradeIsSafe, PTL

(* No opening loses a message that a backup held.                          *)
THEOREM BackupKept == Spec => []BackedUpNotLost
<1>1. UpgradeInv => BackedUpNotLost
  BY DEF UpgradeInv, RowsKept, BackedUpNotLost, Held
<1> QED BY <1>1, UpgradeIsSafe, PTL

(* And it serves it.                                                       *)
THEOREM BackupRestored == Spec => []BackedUpServed
<1>1. UpgradeInv => BackedUpServed
  BY DEF UpgradeInv, RowsKept, BackedUpServed, Held
<1> QED BY <1>1, UpgradeIsSafe, PTL

-----------------------------------------------------------------------------
(* The rows: which statements can touch the column that links the two      *)
(* tables of messages, or the table of the favourites.                     *)
Guarded == {RcsLink, Table(Fav)}
Sparing(s) == s.drop \intersect Guarded = {}
Mild(s) == s.drop \intersect Guarded = {} /\ s.make \intersect Guarded = {}
IsSeq(stmts) == stmts \in Seq({stmts[i] : i \in DOMAIN stmts})
AllSparing(stmts) == IsSeq(stmts) /\ \A i \in DOMAIN stmts : Sparing(stmts[i])
AllMild(stmts) == IsSeq(stmts) /\ \A i \in DOMAIN stmts : Mild(stmts[i])

LEMMA KeepsThing ==
  ASSUME NEW schema, NEW S, NEW o, \A s \in S : o \notin s.drop, o \in schema
  PROVE  o \in Executed(schema, S)
BY DEF Executed, Left

LEMMA MakesNoThing ==
  ASSUME NEW schema, NEW S, NEW o, \A s \in S : o \notin s.make, o \notin schema
  PROVE  o \notin Executed(schema, S)
BY DEF Executed, Left, Effective, Able

LEMMA ExecutesNothing == ASSUME NEW schema PROVE Executed(schema, {}) = schema
<1>1. Left(schema, {}) = schema /\ Effective(schema, {}) = {}
  BY DEF Left, Effective, Able
<1> QED BY <1>1 DEF Executed

LEMMA RanOf ==
  ASSUME NEW stmts, IsSeq(stmts), NEW o \in Outcomes(stmts), NEW s \in Ran(stmts, o)
  PROVE  \E i \in DOMAIN stmts : s = stmts[i]
<1>1. 1..o[1] \subseteq DOMAIN stmts
  BY DEF Outcomes, IsSeq
<1> QED BY <1>1 DEF Ran

(* What is left of the guarded objects when such statements are run.       *)
LEMMA SparingRuns ==
  ASSUME NEW stmts, AllSparing(stmts), NEW o \in Outcomes(stmts), NEW schema
  PROVE  Guarded \intersect schema \subseteq Executed(schema, Ran(stmts, o))
<1>1. \A s \in Ran(stmts, o) : s.drop \intersect Guarded = {}
  BY RanOf DEF AllSparing, Sparing
<1> SUFFICES ASSUME NEW x \in Guarded \intersect schema PROVE x \in Executed(schema, Ran(stmts, o))
  OBVIOUS
<1> QED BY <1>1, KeepsThing

LEMMA MildRuns ==
  ASSUME NEW stmts, AllMild(stmts), NEW o \in Outcomes(stmts), NEW schema
  PROVE  Guarded \intersect Executed(schema, Ran(stmts, o)) = Guarded \intersect schema
<1>1. \A s \in Ran(stmts, o) : s.drop \intersect Guarded = {} /\ s.make \intersect Guarded = {}
  BY RanOf DEF AllMild, Mild
<1>2. ASSUME NEW x \in Guarded PROVE x \in schema <=> x \in Executed(schema, Ran(stmts, o))
  <2>1. CASE x \in schema
    BY <1>1, <1>2, <2>1, KeepsThing
  <2>2. CASE x \notin schema
    BY <1>1, <1>2, <2>2, MakesNoThing
  <2> QED BY <2>1, <2>2
<1> QED BY <1>2

LEMMA SeqJoins ==
  ASSUME NEW s, NEW t, IsSeq(s), IsSeq(t)
  PROVE  /\ IsSeq(s \o t)
         /\ \A i \in DOMAIN (s \o t) : \/ \E j \in DOMAIN s : (s \o t)[i] = s[j]
                                       \/ \E j \in DOMAIN t : (s \o t)[i] = t[j]
<1> DEFINE X == {s[i] : i \in DOMAIN s} \union {t[i] : i \in DOMAIN t}
           u == s \o t
<1>1. s \in Seq(X) /\ t \in Seq(X)
  <2>1. /\ Len(s) \in Nat /\ DOMAIN s = 1..Len(s) /\ s = [i \in 1..Len(s) |-> s[i]]
        /\ Len(t) \in Nat /\ DOMAIN t = 1..Len(t) /\ t = [i \in 1..Len(t) |-> t[i]]
    BY DEF IsSeq
  <2> QED BY <2>1
<1> HIDE DEF X
<1>2. u \in Seq(X) /\ Len(u) = Len(s) + Len(t)
  BY <1>1
<1>3. \A i \in 1..Len(u) : u[i] = IF i <= Len(s) THEN s[i] ELSE t[i - Len(s)]
  BY <1>1, ConcatProperties
<1>4. /\ DOMAIN u = 1..Len(u) /\ DOMAIN s = 1..Len(s) /\ DOMAIN t = 1..Len(t)
      /\ Len(s) \in Nat /\ Len(t) \in Nat /\ Len(u) \in Nat
  BY <1>1, <1>2
<1> HIDE DEF u
<1>5. IsSeq(u)
  <2> DEFINE U == {u[i] : i \in DOMAIN u}
  <2>1. u = [i \in 1..Len(u) |-> u[i]]
    BY <1>2
  <2>2. \A i \in 1..Len(u) : u[i] \in U
    BY <1>4
  <2> HIDE DEF U
  <2>3. u \in Seq(U)
    BY <1>4, <2>1, <2>2
  <2> QED BY <2>3 DEF IsSeq, U
<1>6. ASSUME NEW i \in DOMAIN u
      PROVE (\E j \in DOMAIN s : u[i] = s[j]) \/ (\E j \in DOMAIN t : u[i] = t[j])
  <2>1. CASE i <= Len(s)
    <3>1. i \in DOMAIN s /\ u[i] = s[i]
      BY <1>2, <1>3, <1>4, <2>1
    <3> QED BY <3>1
  <2>2. CASE ~(i <= Len(s))
    <3>1. (i - Len(s)) \in DOMAIN t /\ u[i] = t[i - Len(s)]
      BY <1>2, <1>3, <1>4, <2>2
    <3> QED BY <3>1
  <2> QED BY <2>1, <2>2
<1> QED BY <1>5, <1>6 DEF u

LEMMA JoinsIn ==
  ASSUME NEW s, NEW t, NEW X, IsSeq(s), IsSeq(t),
         \A i \in DOMAIN s : s[i] \in X, \A i \in DOMAIN t : t[i] \in X
  PROVE  IsSeq(s \o t) /\ \A i \in DOMAIN (s \o t) : (s \o t)[i] \in X
<1> DEFINE u == s \o t
<1>1. /\ IsSeq(u)
      /\ \A i \in DOMAIN u : (\E j \in DOMAIN s : u[i] = s[j]) \/ (\E j \in DOMAIN t : u[i] = t[j])
  BY SeqJoins
<1> HIDE DEF u
<1>2. \A i \in DOMAIN u : u[i] \in X
  BY <1>1
<1> QED BY <1>1, <1>2 DEF u

LEMMA MildJoins == ASSUME NEW s, NEW t, AllMild(s), AllMild(t) PROVE AllMild(s \o t)
<1>1. /\ IsSeq(s) /\ IsSeq(t)
      /\ \A i \in DOMAIN s : Mild(s[i])
      /\ \A i \in DOMAIN t : Mild(t[i])
  BY DEF AllMild
<1>2. ASSUME NEW u, u = s \o t PROVE AllMild(u)
  <2>1. /\ IsSeq(u)
        /\ \A i \in DOMAIN u : (\E j \in DOMAIN s : u[i] = s[j]) \/ (\E j \in DOMAIN t : u[i] = t[j])
    BY ONLY <1>1, <1>2, SeqJoins
  <2>2. \A i \in DOMAIN u : Mild(u[i])
    BY <1>1, <2>1
  <2> QED BY <2>1, <2>2 DEF AllMild
<1> QED BY <1>2

LEMMA SparingJoins == ASSUME NEW s, NEW t, AllSparing(s), AllSparing(t) PROVE AllSparing(s \o t)
<1>1. /\ IsSeq(s) /\ IsSeq(t)
      /\ \A i \in DOMAIN s : Sparing(s[i])
      /\ \A i \in DOMAIN t : Sparing(t[i])
  BY DEF AllSparing
<1>2. ASSUME NEW u, u = s \o t PROVE AllSparing(u)
  <2>1. /\ IsSeq(u)
        /\ \A i \in DOMAIN u : (\E j \in DOMAIN s : u[i] = s[j]) \/ (\E j \in DOMAIN t : u[i] = t[j])
    BY ONLY <1>1, <1>2, SeqJoins
  <2>2. \A i \in DOMAIN u : Sparing(u[i])
    BY <1>1, <2>1
  <2> QED BY <2>1, <2>2 DEF AllSparing
<1> QED BY <1>2

LEMMA MildIsSparing == ASSUME NEW s, AllMild(s) PROVE AllSparing(s)
BY DEF AllMild, AllSparing, Mild, Sparing

LEMMA MildSingle == ASSUME NEW s, Mild(s) PROVE AllMild(<<s>>)
BY DEF AllMild, IsSeq
LEMMA MildPair == ASSUME NEW s, NEW t, Mild(s), Mild(t) PROVE AllMild(<<s, t>>)
BY DEF AllMild, IsSeq
LEMMA MildNone == AllMild(<<>>)
BY DEF AllMild, IsSeq

-----------------------------------------------------------------------------
(* The constructors of statements.                                         *)
LEMMA MildColumn ==
  ASSUME NEW t, NEW name, t \in {Sms, Rcs, Session, Part}, t # Sms \/ name # "rcs_id"
  PROVE  Mild(AddColumn(t, name))
BY DEF Mild, Guarded, AddColumn, Statement, RcsLink, Table, Sms, Rcs, Session, Part, Fav

LEMMA MildColumns ==
  ASSUME NEW t, NEW names, t \in {Sms, Rcs, Session, Part}, names \in Seq({names[i] : i \in DOMAIN names}),
         t # Sms \/ \A i \in DOMAIN names : names[i] # "rcs_id"
  PROVE  AllMild(AddColumns(t, names))
<1>1. DOMAIN names = 1..Len(names) /\ Len(names) \in Nat
  OBVIOUS
<1> DEFINE stmts == AddColumns(t, names)
<1>2. stmts = [i \in 1..Len(names) |-> AddColumn(t, names[i])]
  BY <1>1 DEF AddColumns
<1> HIDE DEF stmts
<1>3. DOMAIN stmts = 1..Len(names) /\ \A i \in DOMAIN stmts : stmts[i] = AddColumn(t, names[i])
  BY <1>2
<1>4. \A i \in DOMAIN stmts : Mild(stmts[i])
  BY <1>1, <1>3, MildColumn
<1>5. IsSeq(stmts)
  BY <1>1, <1>2, <1>3 DEF IsSeq
<1> QED BY <1>4, <1>5 DEF AllMild, stmts

(* For the lists of names that occur.                                      *)
LEMMA MildOne ==
  ASSUME NEW t, NEW a, t \in {Sms, Rcs, Session, Part}, t # Sms \/ a # "rcs_id"
  PROVE  AllMild(AddColumns(t, <<a>>))
<1> DEFINE names == <<a>>
<1>1. DOMAIN names = {1} /\ names[1] = a /\ names \in Seq({names[i] : i \in DOMAIN names})
  OBVIOUS
<1> HIDE DEF names
<1>2. AllMild(AddColumns(t, names))
  BY <1>1, MildColumns
<1> QED BY <1>2 DEF names

LEMMA MildTwo ==
  ASSUME NEW t, NEW a, NEW b, t \in {Sms, Rcs, Session, Part}, t # Sms \/ (a # "rcs_id" /\ b # "rcs_id")
  PROVE  AllMild(AddColumns(t, <<a, b>>))
<1> DEFINE names == <<a, b>>
<1>1. /\ DOMAIN names = {1, 2} /\ names[1] = a /\ names[2] = b
      /\ names \in Seq({names[i] : i \in DOMAIN names})
  OBVIOUS
<1> HIDE DEF names
<1>2. AllMild(AddColumns(t, names))
  BY <1>1, MildColumns
<1> QED BY <1>2 DEF names

LEMMA MildMore ==
  /\ AllMild(AddColumns(Rcs, <<"is_collect", "receive_state", "fail_receive_context">>))
  /\ AllMild(AddColumns(Sms, <<"is_blocked">> \o Blocked)) /\ AllMild(AddColumns(Rcs, Blocked))
<1> DEFINE names == <<"is_collect", "receive_state", "fail_receive_context">>
           blocked == Blocked
           more == <<"is_blocked">> \o Blocked
<1>1. names \in Seq({names[i] : i \in DOMAIN names}) /\ blocked \in Seq({blocked[i] : i \in DOMAIN blocked})
  BY DEF Blocked
<1>2. IsSeq(<<"is_blocked">>) /\ IsSeq(Blocked)
  BY DEF IsSeq, Blocked
<1>3. more \in Seq({more[i] : i \in DOMAIN more}) /\ \A i \in DOMAIN more : more[i] # "rcs_id"
  <2> DEFINE X == {"is_blocked", "blocked_reason", "blocked_sources", "blocked_type", "blocked_type_text"}
             first == <<"is_blocked">>
  <2>1. /\ \A i \in DOMAIN blocked : blocked[i] \in X
        /\ \A i \in DOMAIN first : first[i] \in X
        /\ \A x \in X : x # "rcs_id"
        /\ more = first \o blocked /\ IsSeq(first) /\ IsSeq(blocked)
    BY <1>2 DEF Blocked
  <2> HIDE DEF X, first, blocked, more
  <2>2. IsSeq(more) /\ \A i \in DOMAIN more : more[i] \in X
    BY <2>1, JoinsIn
  <2> QED BY <2>1, <2>2 DEF IsSeq
<1> HIDE DEF names, blocked, more
<1>4. /\ AllMild(AddColumns(Rcs, names)) /\ AllMild(AddColumns(Sms, more)) /\ AllMild(AddColumns(Rcs, blocked))
  <2>1. Rcs # Sms
    BY DEF Rcs, Sms
  <2> QED BY <1>1, <1>3, <2>1, MildColumns
<1> QED BY <1>4 DEF names, blocked, more

LEMMA MildTrigger == \A n, t : Mild(CreateTrigger(n, t)) /\ Mild(Drop({Trigger(n)}))
BY DEF Mild, Guarded, CreateTrigger, Drop, Trigger, Statement, RcsLink, Table, Sms, Fav

LEMMA MildIndex == \A n, on : Mild(CreateIndex(n, on)) /\ Mild(Drop({Index(n)}))
BY DEF Mild, Guarded, CreateIndex, Drop, Index, Statement, RcsLink, Table, Sms, Fav

LEMMA MildView == \A names : Mild(CreateView(names))
BY DEF Mild, Guarded, CreateView, View, Columns, Statement, RcsLink, Table, Sms, Fav

LEMMA MildDropView == \A names : Mild(Drop({View} \union Columns("mms_info", names)))
BY DEF Mild, Guarded, Drop, View, Columns, Statement, RcsLink, Table, Sms, Fav

LEMMA MildTable ==
  ASSUME NEW t, NEW names, t \notin {Sms, Fav, "table"} PROVE Mild(CreateTable(t, names))
BY DEF Mild, Guarded, CreateTable, Columns, Statement, RcsLink, Table, Sms, Fav

LEMMA SparingTable == \A t, names : Sparing(CreateTable(t, names))
BY DEF Sparing, Guarded, CreateTable, Statement

LEMMA MildRenewView == AllMild(RenewView) /\ Mild(CreateView(UpgradedView))
<1>1. Mild(DropView) /\ Mild(CreateView(UpgradedView))
  BY MildView, MildDropView DEF DropView
<1> QED BY <1>1, MildPair DEF RenewView

-----------------------------------------------------------------------------
(* What the statements of the message store can touch: of the version      *)
(* steps only the 12th makes the link, only the 23rd and the 34th the      *)
(* table of the favourites, and none drops either.                         *)
LEMMA MildSteps2To7 == AllMild(Two) /\ AllMild(Three) /\ AllMild(Four) /\ AllMild(Seven)
<1>1. AllMild(Two)
  <2>1. AllMild(AddColumns(Sms, <<"is_advanced_security">>)) /\ AllMild(AddColumns(Rcs, <<"is_advanced_security">>))
    BY MildOne, MildTwo
  <2> QED BY <2>1, MildJoins DEF Two
<1>2. AllMild(Three)
  BY MildOne, MildTwo DEF Three
<1>3. AllMild(Four)
  <2>1. AllMild(AddColumns(Sms, <<"expires_time", "mms_pdu">>))
    BY MildTwo
  <2> QED BY <2>1, MildMore, MildJoins DEF Four
<1>4. AllMild(Seven)
  BY MildRenewView, MildSingle DEF Seven
<1> QED BY <1>1, <1>2, <1>3, <1>4

LEMMA MildSteps8To11 == AllMild(Eight) /\ AllMild(Nine) /\ AllMild(Ten) /\ AllMild(Eleven)
<1>1. AllMild(Eight)
  <2>1. /\ AllMild(AddColumns(Sms, <<"is_blocked">> \o Blocked)) /\ AllMild(AddColumns(Rcs, Blocked))
    BY MildMore
  <2> QED BY <2>1, MildRenewView, MildJoins DEF Eight
<1>2. AllMild(Nine)
  <2>1. /\ AllMild(AddColumns(Part, <<"rcs_id">>)) /\ AllMild(AddColumns(Rcs, <<"clur_size", "total_size">>))
    BY MildOne, MildTwo DEF Sms, Part, Rcs
  <2> QED BY <2>1, MildRenewView, MildJoins DEF Nine
<1>3. AllMild(Ten)
  <2>1. /\ AllMild(AddColumns(Sms, <<"risk_url_body", "has_be_reported_as_spam">>))
        /\ AllMild(AddColumns(Rcs, <<"risk_url_body", "has_be_reported_as_spam">>))
    BY MildOne, MildTwo
  <2>2. AllMild(<<CreateRiskUrlRecordTable>>)
    BY MildTable, MildSingle DEF CreateRiskUrlRecordTable, Sms, Fav
  <2> QED BY <2>1, <2>2, MildRenewView, MildJoins DEF Ten
<1>4. AllMild(Eleven)
  <2>1. AllMild(AddColumns(Sms, <<"is_report">>)) /\ AllMild(AddColumns(Rcs, <<"is_report">>))
    BY MildOne, MildTwo
  <2> QED BY <2>1, MildRenewView, MildJoins DEF Eleven
<1> QED BY <1>1, <1>2, <1>3, <1>4

LEMMA MildSteps13To17 ==
  AllMild(Thirteen) /\ AllMild(Fourteen) /\ AllMild(Fifteen) /\ AllMild(UpTo16) /\ AllMild(Seventeen)
<1>1. AllMild(Thirteen) /\ AllMild(Fifteen)
  BY MildRenewView DEF Thirteen, Fifteen
<1>2. AllMild(Fourteen)
  <2>1. AllMild(AddColumns(Sms, <<"detect_res_content">>)) /\ AllMild(AddColumns(Rcs, <<"detect_res_content">>))
    BY MildOne, MildTwo
  <2> QED BY <2>1, MildRenewView, MildJoins DEF Fourteen
<1>3. AllMild(UpTo16)
  <2>1. AllMild(AddColumns(Sms, Numbers)) /\ AllMild(AddColumns(Rcs, Numbers))
    BY MildOne, MildTwo DEF Numbers
  <2> QED BY <2>1, MildRenewView, MildJoins DEF UpTo16
<1>4. AllMild(Seventeen)
  <2>1. AllMild(AddColumns(Sms, <<"msg_code_str">>)) /\ AllMild(AddColumns(Session, <<"yellow_page_id">>))
    BY MildOne, MildTwo
  <2> QED BY <2>1, MildRenewView, MildJoins DEF Seventeen
<1> QED BY <1>1, <1>2, <1>3, <1>4

LEMMA MildTriggers ==
  /\ Mild(InsertSmsTrigger) /\ Mild(InsertRcsTrigger)
  /\ Mild(UpdateBlockSmsTrigger) /\ Mild(UpdateBlockRcsTrigger)
  /\ Mild(Drop(InsertSmsTrigger.make)) /\ Mild(Drop(InsertRcsTrigger.make))
  /\ Mild(Drop(UpdateBlockSmsTrigger.make)) /\ Mild(Drop(UpdateBlockRcsTrigger.make))
<1>1. \A n, t : CreateTrigger(n, t).make = {Trigger(n)}
  BY DEF CreateTrigger, Statement
<1> QED BY <1>1, MildTrigger DEF InsertSmsTrigger, InsertRcsTrigger, UpdateBlockSmsTrigger, UpdateBlockRcsTrigger

LEMMA MildIndexes == Mild(RcsIndex) /\ Mild(SmsIndex) /\ Mild(SessionIndex) /\ AllMild(RenewIndexes)
<1>1. \A n, on : CreateIndex(n, on).make = {Index(n)}
  BY DEF CreateIndex, Statement
<1>2. /\ Mild(RcsIndex) /\ Mild(SmsIndex) /\ Mild(SessionIndex)
      /\ Mild(Drop(RcsIndex.make)) /\ Mild(Drop(SmsIndex.make)) /\ Mild(Drop(SessionIndex.make))
  BY <1>1, MildIndex DEF RcsIndex, SmsIndex, SessionIndex
<1>3. IsSeq(RenewIndexes)
  BY DEF IsSeq, RenewIndexes
<1>4. \A i \in DOMAIN RenewIndexes : Mild(RenewIndexes[i])
  BY <1>2 DEF RenewIndexes
<1> QED BY <1>2, <1>3, <1>4 DEF AllMild

LEMMA MildSteps18To25 ==
  AllMild(UpTo18) /\ AllMild(UpTo19) /\ AllMild(UpTo20) /\ AllMild(UpTo21) /\ AllMild(UpTo22)
    /\ AllMild(UpTo24) /\ AllMild(UpTo25)
<1>1. AllMild(UpTo18)
  BY MildTriggers DEF UpTo18, AllMild, IsSeq
<1>2. AllMild(UpTo20)
  BY MildTriggers DEF UpTo20, AllMild, IsSeq
<1>3. AllMild(UpTo19)
  BY MildOne, MildTwo DEF UpTo19
<1>4. AllMild(UpTo21)
  <2>1. AllMild(AddColumns(Sms, <<"blocked_pref_number">>)) /\ AllMild(AddColumns(Rcs, <<"blocked_pref_number">>))
    BY MildOne, MildTwo
  <2> QED BY <2>1, MildRenewView, MildJoins DEF UpTo21
<1>5. AllMild(UpTo22)
  BY MildIndexes DEF UpTo22
<1>6. AllMild(UpTo24)
  BY MildTable, MildPair
     DEF UpTo24, CreateTableSpecificChatBotsInfo, CreateTableChatBotsInfo, Sms, Fav
<1>7. AllMild(UpTo25)
  BY MildTable, MildSingle DEF UpTo25, CreateTableSmcInfo, Sms, Fav
<1> QED BY <1>1, <1>2, <1>3, <1>4, <1>5, <1>6, <1>7

LEMMA MildSteps27To35 ==
  AllMild(UpTo27) /\ AllMild(UpTo28) /\ AllMild(UpTo29) /\ AllMild(UpTo30) /\ AllMild(UpTo31)
    /\ AllMild(UpTo32) /\ AllMild(UpTo33) /\ AllMild(UpTo35)
<1>1. AllMild(UpTo27)
  <2>1. AllMild(AddColumns(Rcs, <<"msg_id">>))
    BY MildOne, MildTwo
  <2> QED BY <2>1, MildRenewView, MildJoins DEF UpTo27
<1>2. AllMild(UpTo28) /\ AllMild(UpTo32)
  BY MildOne, MildTwo DEF UpTo28, UpTo32
<1>3. AllMild(UpTo29) /\ AllMild(UpTo35)
  BY MildOne, MildTwo DEF UpTo29, UpTo35
<1>4. AllMild(UpTo30)
  <2>1. AllMild(AddColumns(Sms, <<"blocked_pref_number">>)) /\ AllMild(AddColumns(Rcs, <<"blocked_pref_number">>))
    BY MildOne, MildTwo
  <2> QED BY <2>1, MildRenewView, MildJoins DEF UpTo30
<1>5. AllMild(UpTo31)
  BY MildNone DEF UpTo31
<1>6. AllMild(UpTo33)
  BY MildTrigger, MildPair DEF UpTo33
<1> QED BY <1>1, <1>2, <1>3, <1>4, <1>5, <1>6

(* Of the steps that run their statements one by one.                      *)
LEMMA StepsByNumber ==
  /\ SmsSteps[2] = Two /\ SmsSteps[3] = Three /\ SmsSteps[4] = Four /\ SmsSteps[5] = <<>>
  /\ SmsSteps[6] = <<>> /\ SmsSteps[7] = Seven /\ SmsSteps[8] = Eight /\ SmsSteps[9] = Nine
  /\ SmsSteps[10] = Ten /\ SmsSteps[11] = Eleven /\ SmsSteps[13] = Thirteen /\ SmsSteps[14] = Fourteen
  /\ SmsSteps[15] = Fifteen /\ SmsSteps[16] = UpTo16 /\ SmsSteps[17] = Seventeen /\ SmsSteps[18] = UpTo18
  /\ SmsSteps[19] = UpTo19 /\ SmsSteps[20] = UpTo20 /\ SmsSteps[21] = UpTo21 /\ SmsSteps[22] = UpTo22
  /\ SmsSteps[24] = UpTo24 /\ SmsSteps[25] = UpTo25 /\ SmsSteps[26] = <<>> /\ SmsSteps[27] = UpTo27
  /\ SmsSteps[28] = UpTo28 /\ SmsSteps[29] = UpTo29 /\ SmsSteps[30] = UpTo30 /\ SmsSteps[31] = UpTo31
  /\ SmsSteps[32] = UpTo32 /\ SmsSteps[33] = UpTo33 /\ SmsSteps[35] = UpTo35
BY DEF SmsSteps

LEMMA MildSmsSteps == \A p \in 2..35 : p \notin {12, 23, 34} => AllMild(SmsSteps[p])
<1>1. /\ AllMild(SmsSteps[2]) /\ AllMild(SmsSteps[3]) /\ AllMild(SmsSteps[4]) /\ AllMild(SmsSteps[5])
      /\ AllMild(SmsSteps[6]) /\ AllMild(SmsSteps[7]) /\ AllMild(SmsSteps[8]) /\ AllMild(SmsSteps[9])
      /\ AllMild(SmsSteps[10]) /\ AllMild(SmsSteps[11]) /\ AllMild(SmsSteps[13]) /\ AllMild(SmsSteps[14])
      /\ AllMild(SmsSteps[15]) /\ AllMild(SmsSteps[16]) /\ AllMild(SmsSteps[17]) /\ AllMild(SmsSteps[18])
      /\ AllMild(SmsSteps[19]) /\ AllMild(SmsSteps[20]) /\ AllMild(SmsSteps[21]) /\ AllMild(SmsSteps[22])
      /\ AllMild(SmsSteps[24]) /\ AllMild(SmsSteps[25]) /\ AllMild(SmsSteps[26]) /\ AllMild(SmsSteps[27])
      /\ AllMild(SmsSteps[28]) /\ AllMild(SmsSteps[29]) /\ AllMild(SmsSteps[30]) /\ AllMild(SmsSteps[31])
      /\ AllMild(SmsSteps[32]) /\ AllMild(SmsSteps[33]) /\ AllMild(SmsSteps[35])
  BY StepsByNumber, MildNone, MildSteps2To7, MildSteps8To11, MildSteps13To17, MildSteps18To25, MildSteps27To35
<1>2. \A p \in 2..35 : \/ p \in {2, 3, 4, 5, 6, 7, 8, 9, 10, 11, 12, 13, 14, 15, 16, 17, 18}
                       \/ p \in {19, 20, 21, 22, 23, 24, 25, 26, 27, 28, 29, 30, 31, 32, 33, 34, 35}
  OBVIOUS
<1> QED BY <1>1, <1>2

LEMMA MildStatementsOf ==
  ASSUME store = "sms_mms", NEW p \in 1..35, p \notin {12, 23, 34}
  PROVE  AllMild(StatementsOf(p))
<1>1. Steps["sms_mms"] = SmsSteps
  BY DEF Steps, Stores
<1>2. AllMild(CreateRcsInfoTableForcely)
  BY MildTable, MildSingle DEF CreateRcsInfoTableForcely, Rcs, Sms, Fav
<1>3. CASE p > 1
  BY <1>1, <1>3, MildSmsSteps DEF StatementsOf
<1>4. CASE p = 1
  BY <1>2, <1>4, MildNone DEF StatementsOf
<1> QED BY <1>3, <1>4

LEMMA SparingTwelve ==
  /\ AllSparing(Twelve)
  /\ \A i \in DOMAIN Twelve : Table(Fav) \notin Twelve[i].make
<1> DEFINE first == AddColumns(Sms, <<"rcs_id">>)
<1>1. /\ IsSeq(first) /\ first[1] = AddColumn(Sms, "rcs_id") /\ DOMAIN first = {1}
  BY DEF AddColumns, IsSeq
<1>2. AddColumn(Sms, "rcs_id").drop = {} /\ Table(Fav) \notin AddColumn(Sms, "rcs_id").make
  BY DEF AddColumn, Statement, Table, Sms, Fav
<1>3. AllMild(RenewView) /\ IsSeq(RenewView)
  BY MildRenewView DEF AllMild
<1> HIDE DEF first
<1>4. /\ IsSeq(Twelve)
      /\ \A i \in DOMAIN Twelve : \/ Twelve[i] = AddColumn(Sms, "rcs_id")
                                  \/ \E j \in DOMAIN RenewView : Twelve[i] = RenewView[j]
  <2> DEFINE view == RenewView
             twelve == Twelve
             X == {AddColumn(Sms, "rcs_id")} \union {view[j] : j \in DOMAIN view}
  <2>1. twelve = first \o view /\ IsSeq(view)
    BY <1>3 DEF Twelve, first
  <2> HIDE DEF view, twelve
  <2>2. (\A i \in DOMAIN first : first[i] \in X) /\ (\A i \in DOMAIN view : view[i] \in X)
    BY <1>1
  <2> HIDE DEF X
  <2>3. IsSeq(twelve) /\ \A i \in DOMAIN twelve : twelve[i] \in X
    BY <1>1, <2>1, <2>2, JoinsIn
  <2> QED BY <2>3 DEF twelve, view, X
<1>5. ASSUME NEW i \in DOMAIN Twelve
      PROVE  Sparing(Twelve[i]) /\ Table(Fav) \notin Twelve[i].make
  BY <1>2, <1>3, <1>4 DEF AllMild, Mild, Sparing, Guarded
<1> QED BY <1>4, <1>5 DEF AllSparing

LEMMA SparingCreation == AllSparing(InitCreateTableVec)
<1> DEFINE tables == <<SmsMmsInfo, MmsProtocol, RcsInfo, SmsSubsection, MmsPart, SessionTable, MmsPdu, RiskUrlRecord,
                       MmsInfoView, InsertSms, InsertRcs, UpdateBlockSms, UpdateBlockRcs>>
           chats == <<ChatBots, SpecificChatBots, Smc>>
<1>1. AllSparing(tables)
  <2>1. \A x : Mild(x) => Sparing(x)
    BY DEF Mild, Sparing
  <2>2. /\ Sparing(SmsMmsInfo) /\ Sparing(MmsProtocol) /\ Sparing(RcsInfo) /\ Sparing(SmsSubsection)
        /\ Sparing(MmsPart) /\ Sparing(SessionTable) /\ Sparing(MmsPdu) /\ Sparing(RiskUrlRecord)
    BY SparingTable DEF SmsMmsInfo, MmsProtocol, RcsInfo, SmsSubsection, MmsPart, SessionTable, MmsPdu, RiskUrlRecord
  <2>3. /\ Sparing(MmsInfoView) /\ Sparing(InsertSms) /\ Sparing(InsertRcs)
        /\ Sparing(UpdateBlockSms) /\ Sparing(UpdateBlockRcs)
    BY <2>1, MildView, MildTrigger DEF MmsInfoView, InsertSms, InsertRcs, UpdateBlockSms, UpdateBlockRcs
  <2>4. IsSeq(tables)
    BY DEF IsSeq
  <2> QED BY <2>2, <2>3, <2>4 DEF AllSparing
<1>2. AllSparing(RenewIndexes)
  BY MildIndexes, MildIsSparing
<1>3. AllSparing(CreateFavorites)
  BY SparingTable DEF CreateFavorites, AllSparing, IsSeq
<1>4. AllSparing(chats)
  BY SparingTable DEF AllSparing, IsSeq, ChatBots, SpecificChatBots, Smc
<1> HIDE DEF tables, chats
<1>5. AllSparing(RenewIndexes \o CreateFavorites \o chats)
  BY <1>2, <1>3, <1>4, SparingJoins
<1>6. AllSparing(tables \o (RenewIndexes \o CreateFavorites \o chats))
  BY <1>1, <1>5, SparingJoins
<1> QED BY <1>6 DEF tables, chats, InitCreateTableVec, InitCreateTableIndex

(* What the checks of OnOpen run.                                          *)
LEMMA MildFields == \A unseen : AllMild(Fields(unseen))
<1> SUFFICES ASSUME NEW unseen PROVE AllMild(Fields(unseen))
  OBVIOUS
<1> DEFINE Check(s, more) == IF s.make \subseteq db.schema \ unseen THEN <<>> ELSE <<s>> \o more
<1>1. \A s, more : Mild(s) /\ AllMild(more) => AllMild(Check(s, more))
  BY MildNone, MildSingle, MildJoins
<1>2. /\ Mild(ViewFields[1]) /\ Mild(ViewFields[2]) /\ Mild(OtherFields[1]) /\ Mild(OtherFields[2])
      /\ Mild(OtherFields[3]) /\ Mild(OtherFields[4])
  BY MildColumn DEF ViewFields, OtherFields
<1>3. /\ AllMild(Check(ViewFields[1], RenewView)) /\ AllMild(Check(ViewFields[2], RenewView))
      /\ AllMild(Check(OtherFields[1], <<>>)) /\ AllMild(Check(OtherFields[2], <<>>))
      /\ AllMild(Check(OtherFields[3], <<>>)) /\ AllMild(Check(OtherFields[4], <<>>))
  BY <1>1, <1>2, MildRenewView, MildNone
<1>4. Fields(unseen) = Check(ViewFields[1], RenewView) \o Check(ViewFields[2], RenewView)
       \o Check(OtherFields[1], <<>>) \o Check(OtherFields[2], <<>>)
       \o Check(OtherFields[3], <<>>) \o Check(OtherFields[4], <<>>)
  BY DEF Fields
<1> HIDE DEF Check
<1>5. AllMild(Check(ViewFields[1], RenewView) \o Check(ViewFields[2], RenewView)
       \o Check(OtherFields[1], <<>>) \o Check(OtherFields[2], <<>>))
  BY <1>3, MildJoins
<1> QED BY <1>3, <1>4, <1>5, MildJoins

LEMMA MildComponents == \A unseen : AllMild(Components(unseen))
<1> SUFFICES ASSUME NEW unseen PROVE AllMild(Components(unseen))
  OBVIOUS
<1> DEFINE Check(s, o) == IF o \in db.schema \ unseen THEN <<>> ELSE <<s>>
           Obsolete(n) == IF Trigger(n) \in db.schema \ unseen THEN <<Drop({Trigger(n)})>> ELSE <<>>
<1>1. \A s, o : Mild(s) => AllMild(Check(s, o))
  BY MildNone, MildSingle
<1>2. \A n : AllMild(Obsolete(n))
  BY MildNone, MildSingle, MildTrigger
<1>3. Components(unseen) =
       Check(InsertSmsTrigger, Trigger("insertSms_unread_count"))
       \o Check(InsertRcsTrigger, Trigger("insertRcs_unread_count"))
       \o Check(UpdateBlockSmsTrigger, Trigger("updateBlockSms_unread_count"))
       \o Check(UpdateBlockRcsTrigger, Trigger("updateBlockRcs_unread_count"))
       \o Obsolete("updateSms_unread_count") \o Obsolete("updateRcs_unread_count")
       \o Check(CreateView(UpgradedView), View)
       \o Check(SessionIndex, Index("session_time_IDX"))
       \o Check(SmsIndex, Index("sms_mms_info_sessionId_IDX"))
       \o Check(RcsIndex, Index("rcs_info_sessionId_IDX"))
  BY DEF Components
<1> HIDE DEF Check, Obsolete
<1>4. AllMild(Check(InsertSmsTrigger, Trigger("insertSms_unread_count"))
       \o Check(InsertRcsTrigger, Trigger("insertRcs_unread_count"))
       \o Check(UpdateBlockSmsTrigger, Trigger("updateBlockSms_unread_count"))
       \o Check(UpdateBlockRcsTrigger, Trigger("updateBlockRcs_unread_count")))
  BY <1>1, MildTriggers, MildJoins
<1>5. AllMild(Check(InsertSmsTrigger, Trigger("insertSms_unread_count"))
       \o Check(InsertRcsTrigger, Trigger("insertRcs_unread_count"))
       \o Check(UpdateBlockSmsTrigger, Trigger("updateBlockSms_unread_count"))
       \o Check(UpdateBlockRcsTrigger, Trigger("updateBlockRcs_unread_count"))
       \o Obsolete("updateSms_unread_count") \o Obsolete("updateRcs_unread_count"))
  BY <1>2, <1>4, MildJoins
<1> QED BY <1>1, <1>3, <1>5, MildRenewView, MildIndexes, MildJoins

-----------------------------------------------------------------------------
(* The guarded objects in the file of an earlier release.                  *)
LEMMA GuardedMade ==
  /\ \A p \in 1..11 : RcsLink \notin Made(SmsSteps[p])
  /\ \A p \in 1..22 : Table(Fav) \notin Made(SmsSteps[p])
  /\ RcsLink \in Made(SmsSteps[12]) /\ Table(Fav) \in Made(SmsSteps[23])
<1>1. \A stmts : AllMild(stmts) => RcsLink \notin Made(stmts) /\ Table(Fav) \notin Made(stmts)
  BY DEF AllMild, Mild, Guarded, Made
<1>2. AllMild(SmsSteps[1])
  BY MildNone DEF SmsSteps
<1>3. \A p \in 1..35 : p \notin {12, 23, 34} => AllMild(SmsSteps[p])
  BY <1>2, MildSmsSteps
<1>4. SmsSteps[12] = Twelve /\ SmsSteps[23] = CreateFavorites
  BY DEF SmsSteps
<1>5. Table(Fav) \notin Made(Twelve)
  BY SparingTwelve DEF Made
<1>6. RcsLink \in Made(Twelve)
  <2> DEFINE first == AddColumns(Sms, <<"rcs_id">>)
             view == RenewView
  <2>1. /\ IsSeq(first) /\ Len(first) = 1 /\ first[1] = AddColumn(Sms, "rcs_id")
        /\ IsSeq(view) /\ Twelve = first \o view
    BY MildRenewView DEF AddColumns, IsSeq, AllMild, Twelve
  <2> HIDE DEF first, view
  <2> DEFINE X == {first[i] : i \in DOMAIN first} \union {view[i] : i \in DOMAIN view}
  <2>2. first \in Seq(X) /\ view \in Seq(X)
    <3>1. /\ DOMAIN first = 1..Len(first) /\ first = [i \in 1..Len(first) |-> first[i]] /\ Len(first) \in Nat
          /\ DOMAIN view = 1..Len(view) /\ view = [i \in 1..Len(view) |-> view[i]] /\ Len(view) \in Nat
      BY <2>1 DEF IsSeq
    <3> QED BY <3>1
  <2> HIDE DEF X
  <2>3. 1 \in DOMAIN Twelve /\ Twelve[1] = AddColumn(Sms, "rcs_id")
    BY <2>1, <2>2
  <2>4. RcsLink \in AddColumn(Sms, "rcs_id").make
    BY DEF AddColumn, Statement, RcsLink
  <2> QED BY <2>3, <2>4 DEF Made
<1>7. Table(Fav) \in Made(CreateFavorites)
  BY DEF Made, CreateFavorites, CreateTable, Statement
<1> QED BY <1>1, <1>3, <1>4, <1>5, <1>6, <1>7

LEMMA ReleaseGuarded ==
  ASSUME NEW v \in 1..35
  PROVE  /\ RcsLink \in Release("sms_mms", v) <=> v >= 12
         /\ Table(Fav) \in Release("sms_mms", v) <=> v >= 23
<1> DEFINE first == {Table(t) : t \in {Sms, "mms_protocol", Rcs, "sms_subsection", Part, Session, "mms_pdu"}}
           stepped == first \union UNION {Made(SmsSteps[p]) : p \in 1..v}
           seen == {o \in stepped : o[1] = "mms_info" => \E t \in {Sms, Rcs} : <<t, o[2]>> \in stepped}
<1>1. Release("sms_mms", v) = seen \union (IF v \in 18..32 THEN OldTriggers ELSE {})
  BY DEF Release, Steps, Stores
<1>2. RcsLink \notin OldTriggers /\ Table(Fav) \notin OldTriggers
  BY DEF OldTriggers, RcsLink, Table, Trigger, Sms, Fav
<1>3. RcsLink \notin first /\ Table(Fav) \notin first
  BY DEF RcsLink, Table, Sms, Rcs, Part, Session, Fav
<1>4. RcsLink[1] # "mms_info" /\ Table(Fav)[1] # "mms_info"
  BY DEF RcsLink, Table, Sms
<1> HIDE DEF first
<1>5. RcsLink \in stepped <=> v >= 12
  <2>1. CASE v >= 12
    <3>1. 12 \in 1..v
      BY <2>1
    <3> QED BY <2>1, <3>1, GuardedMade
  <2>2. CASE ~(v >= 12)
    <3>1. \A p \in 1..v : p \in 1..11
      BY <2>2
    <3> QED BY <1>3, <2>2, <3>1, GuardedMade
  <2> QED BY <2>1, <2>2
<1>6. Table(Fav) \in stepped <=> v >= 23
  <2>1. CASE v >= 23
    <3>1. 23 \in 1..v
      BY <2>1
    <3> QED BY <2>1, <3>1, GuardedMade
  <2>2. CASE ~(v >= 23)
    <3>1. \A p \in 1..v : p \in 1..22
      BY <2>2
    <3> QED BY <1>3, <2>2, <3>1, GuardedMade
  <2> QED BY <2>1, <2>2
<1> HIDE DEF stepped
<1>7. (RcsLink \in seen <=> RcsLink \in stepped) /\ (Table(Fav) \in seen <=> Table(Fav) \in stepped)
  BY <1>4
<1> HIDE DEF seen
<1> QED BY <1>1, <1>2, <1>5, <1>6, <1>7

LEMMA Version35 == VERSION["sms_mms"] = 35
BY DEF VERSION, Stores

LEMMA FoundFile ==
  ASSUME NEW v \in Nat, NEW p \in Nat, v <= p, v > 0
  PROVE  /\ Found("sms_mms", v, p).version = v
         /\ RcsLink \in Found("sms_mms", v, p).schema <=> p >= 12
         /\ Table(Fav) \in Found("sms_mms", v, p).schema <=> p >= 23
         /\ Found("sms_mms", v, p).rcs = RcsMsgs \ Later
         /\ Found("sms_mms", v, p).rows =
              [m \in Msgs |-> IF m \notin Later /\ (m \in RcsMsgs => p >= 12) THEN 1 ELSE 0]
         /\ Found("sms_mms", v, p).fav =
              [m \in Msgs |-> IF m \in Marked /\ p >= 23 THEN 1 ELSE 0]
<1> DEFINE q == IF p > 35 THEN 35 ELSE p
           old == Release("sms_mms", q)
           view == IF p > v THEN Columns("mms_info", UpgradedView) ELSE {}
           rows == [m \in Msgs |-> IF m \notin Later /\ (m \in RcsMsgs => p >= 12) THEN 1 ELSE 0]
           fav == [m \in Msgs |-> IF m \in Marked /\ p >= 23 THEN 1 ELSE 0]
<1>1. Found("sms_mms", v, p) =
        [version |-> v, schema |-> old \union view, rows |-> rows, rcs |-> RcsMsgs \ Later, fav |-> fav]
  BY Version35 DEF Found, Marked
<1>2. q \in 1..35 /\ (q >= 12 <=> p >= 12) /\ (q >= 23 <=> p >= 23)
  OBVIOUS
<1> HIDE DEF q
<1>3. (RcsLink \in old <=> p >= 12) /\ (Table(Fav) \in old <=> p >= 23)
  BY <1>2, ReleaseGuarded
<1>4. RcsLink \notin view /\ Table(Fav) \notin view
  BY DEF Columns, RcsLink, Table, Sms, Fav
<1> HIDE DEF old, view, rows, fav
<1>5. (RcsLink \in old \union view <=> p >= 12) /\ (Table(Fav) \in old \union view <=> p >= 23)
  BY <1>3, <1>4
<1> QED BY <1>1, <1>5 DEF rows, fav

(* The table of the favourites, once it is created.                        *)
LEMMA FavoritesMade ==
  ASSUME NEW schema, Table(Fav) \notin schema
  PROVE  /\ Table(Fav) \in Executed(schema, {CreateFavorites[1]})
         /\ RcsLink \in Executed(schema, {CreateFavorites[1]}) <=> RcsLink \in schema
<1> DEFINE s == CreateFavorites[1]
<1>1. s.drop = {} /\ s.make = {Table(Fav)} /\ s.unless = {Table(Fav)} /\ s.on = {}
  BY DEF CreateFavorites, CreateTable, Statement, Columns
<1> HIDE DEF s
<1>2. Left(schema, {s}) = schema
  BY <1>1 DEF Left
<1>3. s \in Effective(schema, {s})
  BY <1>1, <1>2 DEF Effective, Able
<1>4. Effective(schema, {s}) = {s}
  BY <1>3 DEF Effective, Able
<1>5. Executed(schema, {s}) = schema \union {Table(Fav)}
  BY <1>1, <1>2, <1>4 DEF Executed
<1>6. RcsLink # Table(Fav)
  BY DEF RcsLink, Table, Sms, Fav
<1> QED BY <1>5, <1>6 DEF s

-----------------------------------------------------------------------------
(* What stays true of a file of which only the schema changes.             *)
SameRows(d, e) == e.version = d.version /\ e.rows = d.rows /\ e.rcs = d.rcs /\ e.fav = d.fav
Nothing(d) == d.rcs = {} /\ Held(d) = {}

LEMMA SchemaFields ==
  ASSUME NEW d, NEW x, IsFile(d)
  PROVE  SameRows(d, [d EXCEPT !.schema = x]) /\ [d EXCEPT !.schema = x].schema = x
BY DEF IsFile, SameRows

LEMMA SoundSchema ==
  ASSUME NEW d, NEW e, NEW F, Sound(d, F), SameRows(d, e), Guarded \intersect d.schema \subseteq e.schema
  PROVE  Sound(e, F)
<1>1. RcsLink \notin e.schema => RcsLink \notin d.schema
  BY DEF Guarded
<1>2. Held(e) = Held(d)
  BY DEF SameRows, Held
<1> QED BY <1>1, <1>2 DEF Sound, SameRows

LEMMA ListedSchema ==
  ASSUME NEW d, NEW e, NEW F, NEW b \in BOOLEAN, NEW c \in BOOLEAN, ListedOnce(d, F, b), SameRows(d, e),
         Guarded \intersect d.schema \subseteq e.schema,
         RcsLink \in e.schema => RcsLink \in d.schema \/ b \/ d.rcs = {},
         c => b \/ d.rcs = {}
  PROVE  ListedOnce(e, F, c)
<1>1. RcsLink \notin e.schema => RcsLink \notin d.schema
  BY DEF Guarded
<1> QED BY <1>1 DEF ListedOnce, SameRows

LEMMA MarkedSchema ==
  ASSUME NEW d, NEW e, NEW F, NEW b \in BOOLEAN, NEW c \in BOOLEAN, MarkedOnce(d, F, b), SameRows(d, e),
         Guarded \intersect d.schema \subseteq e.schema,
         Table(Fav) \in e.schema => Table(Fav) \in d.schema \/ b \/ Nothing(d),
         c => b \/ Nothing(d)
  PROVE  MarkedOnce(e, F, c)
<1>1. /\ RcsLink \notin e.schema => RcsLink \notin d.schema
      /\ Table(Fav) \notin e.schema => Table(Fav) \notin d.schema
  BY DEF Guarded
<1>2. Held(e) = Held(d)
  BY DEF SameRows, Held
<1> QED BY <1>1, <1>2 DEF MarkedOnce, SameRows, Nothing

LEMMA EmptyCarried ==
  ASSUME NEW F, NEW b \in BOOLEAN
  PROVE  /\ Sound(Empty, F) /\ ListedOnce(Empty, F, b) /\ MarkedOnce(Empty, F, b)
         /\ Sound(NoBackup, F) /\ ListedOnce(NoBackup, F, b) /\ MarkedOnce(NoBackup, F, b)
<1>1. /\ Empty.schema = {} /\ Empty.rcs = {} /\ Empty.rows = NoRows /\ Empty.fav = NoRows
      /\ NoBackup.schema = {} /\ NoBackup.rcs = {} /\ NoBackup.rows = NoRows /\ NoBackup.fav = NoRows
  BY DEF Empty, NoBackup
<1>2. NoRows \in [Msgs -> 0..2] /\ \A m \in Msgs : NoRows[m] = 0
  BY DEF NoRows
<1>3. Held(Empty) = {} /\ Held(NoBackup) = {}
  BY <1>1, <1>2 DEF Held
<1>4. Marked \subseteq Msgs
  BY SchemaAssumption DEF Marked
<1>5. Sound(Empty, F) /\ Sound(NoBackup, F)
  <2>1. \A m \in Msgs : NoRows[m] <= 1
    BY <1>2
  <2>2. Sound(Empty, F)
    BY <1>1, <1>2, <1>3, <2>1, Zenon DEF Sound
  <2>3. Sound(NoBackup, F)
    BY <1>1, <1>2, <1>3, <2>1, Zenon DEF Sound
  <2> QED BY <2>2, <2>3
<1>6. ListedOnce(Empty, F, b) /\ ListedOnce(NoBackup, F, b)
  BY <1>1 DEF ListedOnce
<1>7. MarkedOnce(Empty, F, b) /\ MarkedOnce(NoBackup, F, b)
  BY <1>1, <1>2, <1>3, <1>4 DEF MarkedOnce
<1> QED BY <1>5, <1>6, <1>7

-----------------------------------------------------------------------------
(* Where the upgrade gets to.                                              *)
LEMMA BeyondStays ==
  ASSUME NEW p \in Nat, db'.version = db.version, pc' # "SetVersion", p > 0,
         pc' \in {"OnUpgrade", "history"} => at' = 1, pc' = "OnDowngrade" => db.version >= p
  PROVE  Beyond(p)' => Beyond(p)
BY DEF Beyond

LEMMA BeyondProceeds ==
  ASSUME UpgradeInv, CarryInv, store = "sms_mms", Proceed, pc \in {"OnUpgrade", "copy", "history"},
         db'.version = db.version
  PROVE  /\ \A p \in 1..35 : Beyond(p)' => at >= p \/ db.version >= p
         /\ at' \in 1..35 /\ pc' \in {"OnUpgrade", "SetVersion"}
         /\ pc' = "OnUpgrade" /\ at' > 1 => db'.version < at'
<1>1. VERSION[store] = 35
  BY Version35
<1>2. db.version \in 1..34 /\ at \in 1..35 /\ (at > 1 => db.version < at)
  BY <1>1 DEF UpgradeInv, VersionKept, Waiting, CarryInv
<1> DEFINE next == IF at = 1 /\ db.version > 0 THEN db.version + 1 ELSE at + 1
<1>3. \/ next <= 35 /\ at' = next /\ pc' = "OnUpgrade"
      \/ ~(next <= 35) /\ at' = 1 /\ pc' = "SetVersion"
  BY <1>1 DEF Proceed
<1>4. next \in 2..36 /\ next > db.version
  BY <1>2
<1>5. \A p \in 1..35 : next > p => at >= p \/ db.version >= p
  BY <1>2
<1> HIDE DEF next
<1>6. ASSUME NEW p \in 1..35, Beyond(p)' PROVE at >= p \/ db.version >= p
  <2>1. db.version >= p \/ next > p
    BY <1>3, <1>4, <1>6 DEF Beyond
  <2> QED BY <2>1, <1>5
<1>7. at' \in 1..35 /\ pc' \in {"OnUpgrade", "SetVersion"}
  BY <1>3, <1>4
<1>8. pc' = "OnUpgrade" /\ at' > 1 => db'.version < at'
  BY <1>3, <1>4
<1> QED BY <1>6, <1>7, <1>8

(* The backup, where a step leaves it alone.                               *)
LEMMA BackupCarried ==
  ASSUME CarryInv, store = "sms_mms", bak' = bak, flaws \subseteq flaws'
  PROVE  /\ Sound(bak', flaws') /\ ListedOnce(bak', flaws', bak'.version >= 12)
         /\ MarkedOnce(bak', flaws', bak'.version >= 34)
<1>1. Sound(bak, flaws) /\ ListedOnce(bak, flaws, bak.version >= 12) /\ MarkedOnce(bak, flaws, bak.version >= 34)
  BY DEF CarryInv
<1>2. Sound(bak, flaws') /\ ListedOnce(bak, flaws', bak.version >= 12) /\ MarkedOnce(bak, flaws', bak.version >= 34)
  <2>1. Sound(bak, flaws')
    BY <1>1 DEF Sound
  <2>2. ListedOnce(bak, flaws', bak.version >= 12)
    BY <1>1 DEF ListedOnce
  <2>3. MarkedOnce(bak, flaws', bak.version >= 34)
    BY <1>1 DEF MarkedOnce
  <2> QED BY <2>1, <2>2, <2>3
<1> QED BY <1>2

(* A step that leaves the backup and ends outside the copies.              *)
LEMMA CarryGoes ==
  ASSUME CarryInv, store = "sms_mms", UNCHANGED <<store, bak>>, flaws \subseteq flaws',
         pc' \notin {"copy", "history"}, at' \in 1..35,
         pc' = "OnUpgrade" /\ at' > 1 => db'.version < at',
         Sound(db', flaws'), ListedOnce(db', flaws', Beyond(12)'), MarkedOnce(db', flaws', Beyond(34)')
  PROVE  CarryInv'
<1>1. /\ Sound(bak', flaws') /\ ListedOnce(bak', flaws', bak'.version >= 12)
      /\ MarkedOnce(bak', flaws', bak'.version >= 34)
  BY BackupCarried
<1>2. VERSION[store'] = 35
  BY Version35
<1>3. pc' \in {"OnUpgrade", "copy", "history"} /\ at' > 1 => db'.version < at'
  OBVIOUS
<1> QED BY <1>1, <1>2, <1>3 DEF CarryInv

(* And one that changes at most the schema of the file.                    *)
LEMMA SchemaGoes ==
  ASSUME CarryInv, store = "sms_mms", UNCHANGED <<store, bak>>, flaws \subseteq flaws',
         pc \notin {"copy", "history"}, pc' \notin {"copy", "history"}, at' \in 1..35,
         pc' = "OnUpgrade" /\ at' > 1 => db'.version < at',
         SameRows(db, db'), Guarded \intersect db.schema \subseteq db'.schema,
         RcsLink \in db'.schema => RcsLink \in db.schema \/ Beyond(12) \/ Nothing(db),
         Table(Fav) \in db'.schema => Table(Fav) \in db.schema \/ Beyond(34) \/ Nothing(db),
         Beyond(12)' => Beyond(12) \/ Nothing(db), Beyond(34)' => Beyond(34) \/ Nothing(db)
  PROVE  CarryInv'
<1>1. Sound(db, flaws) /\ ListedOnce(db, flaws, Beyond(12)) /\ MarkedOnce(db, flaws, Beyond(34))
  BY DEF CarryInv
<1>2. /\ Beyond(12) \in BOOLEAN /\ Beyond(34) \in BOOLEAN
      /\ Beyond(12)' \in BOOLEAN /\ Beyond(34)' \in BOOLEAN
  BY DEF Beyond
<1>3. Nothing(db) => db.rcs = {}
  BY DEF Nothing
<1>4. Sound(db', flaws)
  BY <1>1, SoundSchema
<1>5. ListedOnce(db', flaws, Beyond(12)')
  BY <1>1, <1>2, <1>3, ListedSchema
<1>6. MarkedOnce(db', flaws, Beyond(34)')
  BY <1>1, <1>2, MarkedSchema
<1>7. Sound(db', flaws') /\ ListedOnce(db', flaws', Beyond(12)') /\ MarkedOnce(db', flaws', Beyond(34)')
  <2>1. Sound(db', flaws')
    BY <1>4 DEF Sound
  <2>2. ListedOnce(db', flaws', Beyond(12)')
    BY <1>5 DEF ListedOnce
  <2>3. MarkedOnce(db', flaws', Beyond(34)')
    BY <1>6 DEF MarkedOnce
  <2> QED BY <2>1, <2>2, <2>3
<1> QED BY <1>7, CarryGoes

-----------------------------------------------------------------------------
(* The steps of an opening.                                                *)
LEMMA CarryTyped ==
  ASSUME UpgradeInv, CarryInv, store = "sms_mms"
  PROVE  /\ IsFile(db) /\ db.version \in Nat /\ db.rows \in [Msgs -> 0..2]
         /\ db.rcs \subseteq Msgs /\ db.fav \in [Msgs -> 0..2] /\ at \in 1..35 /\ VERSION[store] = 35
         /\ Sound(db, flaws) /\ Sound(bak, flaws)
         /\ pc # "copy" => ListedOnce(db, flaws, Beyond(12))
         /\ pc # "history" => MarkedOnce(db, flaws, Beyond(34))
BY Version35, SchemaAssumption DEF UpgradeInv, CarryInv, Sound

LEMMA OpenCarries == ASSUME UpgradeInv, CarryInv, store = "sms_mms", Open PROVE CarryInv'
<1>1. pc = "closed" /\ pc' = Opening(db') /\ at' = 1 /\ UNCHANGED <<store, bak, flaws>>
  BY DEF Open, history
<1>2. db'.version \in Nat
  BY EmptyFile DEF Open, UpgradeInv
<1>3. pc' \in {"OnCreate", "OnUpgrade", "OnOpen", "OnDowngrade"}
  <2>1. store' = store /\ store \in Stores
    BY <1>1 DEF UpgradeInv
  <2> QED BY <1>1, <1>2, <2>1, OpeningCases
<1>4. CASE damaged
  <2>1. db' = Empty
    BY <1>4 DEF Open
  <2>2. Beyond(12)' \in BOOLEAN /\ Beyond(34)' \in BOOLEAN
    BY DEF Beyond
  <2>3. Sound(db', flaws') /\ ListedOnce(db', flaws', Beyond(12)') /\ MarkedOnce(db', flaws', Beyond(34)')
    BY <2>1, <2>2, EmptyCarried
  <2> QED BY <1>1, <1>3, <2>3, CarryGoes
<1>5. CASE ~damaged
  <2>1. db' = db
    BY <1>5 DEF Open
  <2>2. (Beyond(12)' => Beyond(12)) /\ (Beyond(34)' => Beyond(34))
    <3>1. pc' = "OnDowngrade" => db.version >= 34
      <4>1. db.version \in Nat /\ VERSION[store'] = 35
        BY <1>1, Version35 DEF UpgradeInv
      <4> QED BY <1>1, <2>1, <4>1 DEF Opening
    <3>2. db.version >= 34 => db.version >= 12
      BY <1>2, <2>1
    <3> QED BY <1>1, <1>3, <2>1, <3>1, <3>2, BeyondStays
  <2> QED BY <1>1, <1>3, <2>1, <2>2, SchemaGoes DEF SameRows
<1> QED BY <1>4, <1>5

(* The process dies, outside the copies.                                   *)
LEMMA DeathCarries ==
  ASSUME UpgradeInv, CarryInv, store = "sms_mms", Die, UNCHANGED <<store, bak>>, flaws \subseteq flaws',
         pc \notin {"copy", "history"},
         SameRows(db, db'), Guarded \intersect db.schema \subseteq db'.schema,
         RcsLink \in db'.schema => RcsLink \in db.schema \/ Beyond(12) \/ Nothing(db),
         Table(Fav) \in db'.schema => Table(Fav) \in db.schema \/ Beyond(34) \/ Nothing(db)
  PROVE  CarryInv'
<1>1. pc' = "closed" /\ at' = 1 /\ db'.version = db.version
  BY DEF Die, SameRows
<1>2. (Beyond(12)' => Beyond(12)) /\ (Beyond(34)' => Beyond(34))
  BY <1>1, BeyondStays
<1> QED BY <1>1, <1>2, SchemaGoes

(* What the statements of a function leave of the rows and of the guarded  *)
(* objects.                                                                *)
LEMMA SchemaStep ==
  ASSUME UpgradeInv, CarryInv, store = "sms_mms", NEW stmts, NEW o \in Outcomes(stmts),
         db' = [db EXCEPT !.schema = Executed(db.schema, Ran(stmts, o))]
  PROVE  /\ SameRows(db, db')
         /\ AllSparing(stmts) => Guarded \intersect db.schema \subseteq db'.schema
         /\ AllMild(stmts) => /\ Guarded \intersect db.schema \subseteq db'.schema
                              /\ RcsLink \in db'.schema => RcsLink \in db.schema
                              /\ Table(Fav) \in db'.schema => Table(Fav) \in db.schema
<1> DEFINE x == Executed(db.schema, Ran(stmts, o))
<1>1. IsFile(db)
  BY DEF UpgradeInv
<1>2. AllSparing(stmts) => Guarded \intersect db.schema \subseteq x
  BY SparingRuns
<1>3. AllMild(stmts) => Guarded \intersect x = Guarded \intersect db.schema
  BY MildRuns
<1>4. db' = [db EXCEPT !.schema = x]
  OBVIOUS
<1> HIDE DEF x
<1>5. SameRows(db, db') /\ db'.schema = x
  BY <1>1, <1>4, SchemaFields
<1> QED BY <1>2, <1>3, <1>5 DEF Guarded

LEMMA OnCreateCarries == ASSUME UpgradeInv, CarryInv, store = "sms_mms", OnCreate PROVE CarryInv'
<1>1. Creation[store] = InitCreateTableVec
  BY DEF Creation, Stores
<1>2. PICK o \in Outcomes(InitCreateTableVec) :
        /\ Execute(InitCreateTableVec, o)
        /\ \/ /\ pc' = "SetVersion" /\ UNCHANGED <<at, flaws>>
           \/ UNCHANGED <<pc, at, flaws>>
           \/ Die /\ flaws' = flaws \union DeathFlaws
  BY <1>1 DEF OnCreate
<1>3. pc = "OnCreate" /\ UNCHANGED <<store, bak, damaged, unrepaired, saved>>
  BY DEF OnCreate
<1>4. Nothing(db) /\ at \in 1..35 /\ flaws \subseteq flaws'
  <2>1. db.version = 0
    BY <1>3 DEF UpgradeInv, VersionKept
  <2> QED BY <1>2, <2>1, CarryTyped DEF Sound, Nothing
<1>5. SameRows(db, db') /\ Guarded \intersect db.schema \subseteq db'.schema
  BY <1>2, SchemaStep, SparingCreation DEF Execute
<1>6. CASE Die
  BY <1>3, <1>4, <1>5, <1>6, DeathCarries
<1>7. CASE pc' \in {"OnCreate", "SetVersion"} /\ at' = at
  BY <1>3, <1>4, <1>5, <1>7, SchemaGoes
<1> QED BY <1>2, <1>3, <1>6, <1>7

LEMMA VersionUpToCarries ==
  ASSUME UpgradeInv, CarryInv, store = "sms_mms", NEW p \in 1..VERSION[store], VersionUpTo(p) PROVE CarryInv'
<1>1. PICK o \in Outcomes(StatementsOf(p)) :
        /\ Execute(StatementsOf(p), o)
        /\ (Die /\ flaws' = flaws \union DeathFlaws) \/ GoOn
  BY DEF VersionUpTo
<1>2. pc = "OnUpgrade" /\ at = p /\ p \notin {12, 23, 26, 34} /\ UNCHANGED <<store, bak>>
  BY DEF VersionUpTo, WithRows
<1>3. p \in 1..35 /\ flaws \subseteq flaws'
  BY <1>1, Version35 DEF GoOn
<1>4. AllMild(StatementsOf(p))
  BY <1>2, <1>3, MildStatementsOf
<1>5. /\ SameRows(db, db') /\ Guarded \intersect db.schema \subseteq db'.schema
      /\ RcsLink \in db'.schema => RcsLink \in db.schema
      /\ Table(Fav) \in db'.schema => Table(Fav) \in db.schema
  BY <1>1, <1>4, SchemaStep DEF Execute
<1>6. CASE Die
  BY <1>2, <1>3, <1>5, <1>6, DeathCarries
<1>7. CASE GoOn
  <2>1. /\ \A q \in 1..35 : Beyond(q)' => at >= q \/ db.version >= q
        /\ at' \in 1..35 /\ pc' \in {"OnUpgrade", "SetVersion"}
        /\ pc' = "OnUpgrade" /\ at' > 1 => db'.version < at'
    BY <1>2, <1>5, <1>7, BeyondProceeds DEF GoOn, SameRows
  <2>2. (Beyond(12)' => Beyond(12)) /\ (Beyond(34)' => Beyond(34))
    BY <1>2, <1>3, <2>1 DEF Beyond
  <2> QED BY <1>2, <1>3, <1>5, <2>1, <2>2, SchemaGoes
<1> QED BY <1>1, <1>6, <1>7

LEMMA TwelveCarries == ASSUME UpgradeInv, CarryInv, store = "sms_mms", VersionUpToTwelve PROVE CarryInv'
<1>1. pc = "OnUpgrade" /\ at = 12 /\ UNCHANGED <<store, bak>> /\ db.version < 12
  <2>1. pc = "OnUpgrade" /\ at = 12 /\ UNCHANGED <<store, bak>>
    BY DEF VersionUpToTwelve
  <2>2. pc \in {"OnUpgrade", "copy", "history"} /\ at > 1 => db.version < at
    BY DEF CarryInv
  <2> QED BY <2>1, <2>2
<1>2. Sound(db, flaws) /\ ListedOnce(db, flaws, Beyond(12)) /\ MarkedOnce(db, flaws, Beyond(34)) /\ IsFile(db)
      /\ db.version \in Nat
  BY <1>1, CarryTyped
<1>3. ~Beyond(12) /\ ~Beyond(34)
  BY <1>1, <1>2 DEF Beyond
<1>4. CASE LinksRcs /\ GoOn /\ UNCHANGED db
  <2>1. /\ \A q \in 1..35 : Beyond(q)' => at >= q \/ db.version >= q
        /\ at' \in 1..35 /\ pc' \in {"OnUpgrade", "SetVersion"}
        /\ pc' = "OnUpgrade" /\ at' > 1 => db'.version < at'
    BY <1>1, <1>4, BeyondProceeds DEF GoOn
  <2>2. ~Beyond(34)'
    BY <1>1, <1>2, <2>1
  <2>3. RcsLink \in db.schema /\ flaws' = flaws
    BY <1>4 DEF LinksRcs, RcsLink, GoOn
  <2>4. ListedOnce(db', flaws', Beyond(12)')
    BY <1>2, <1>4, <2>3 DEF ListedOnce
  <2>5. MarkedOnce(db', flaws', Beyond(34)')
    BY <1>2, <1>3, <1>4, <2>2, <2>3 DEF MarkedOnce
  <2> QED BY <1>1, <1>2, <1>4, <2>1, <2>3, <2>4, <2>5, CarryGoes
<1>5. ASSUME pc' = "copy", at' = at, flaws \subseteq flaws', SameRows(db, db'),
             Guarded \intersect db.schema \subseteq db'.schema,
             Table(Fav) \in db'.schema => Table(Fav) \in db.schema,
             "rcs twice" \in flaws' \/ RcsLink \notin db.schema
      PROVE  CarryInv'
  <2>1. ~Beyond(34)'
    <3>1. db'.version = db.version
      BY <1>5 DEF SameRows
    <3>2. ~(db.version >= 34)
      BY <1>1, <1>2
    <3> QED BY <1>5, <3>1, <3>2 DEF Beyond
  <2>2. Sound(db', flaws)
    BY <1>2, <1>5, SoundSchema
  <2>3. MarkedOnce(db', flaws, Beyond(34)')
    <3>1. Beyond(34) \in BOOLEAN /\ Beyond(34)' \in BOOLEAN
      BY DEF Beyond
    <3> QED BY <1>2, <1>5, <2>1, <3>1, MarkedSchema
  <2>4. Sound(db', flaws') /\ MarkedOnce(db', flaws', Beyond(34)')
    BY <1>5, <2>2, <2>3 DEF Sound, MarkedOnce
  <2>5. "rcs twice" \in flaws' \/ \A m \in db'.rcs : db'.rows[m] = 0
    BY <1>2, <1>5 DEF Sound, SameRows
  <2>6. flaws' \intersect {"favourites", "rcs twice"} = {} /\ Table(Fav) \in db'.schema => db'.rcs = {}
    BY <1>2, <1>5 DEF MarkedOnce, SameRows
  <2>7. AboutToCopy'
    BY <1>1, <1>5, <2>5, <2>6 DEF AboutToCopy
  <2>8. /\ Sound(bak', flaws') /\ ListedOnce(bak', flaws', bak'.version >= 12)
        /\ MarkedOnce(bak', flaws', bak'.version >= 34)
    BY <1>1, <1>5, BackupCarried
  <2>9. VERSION[store'] = 35 /\ at' \in 1..35 /\ db'.version < at'
    <3>1. db'.version = db.version /\ at' = 12
      BY <1>1, <1>5 DEF SameRows
    <3> QED BY <1>1, <3>1, Version35
  <2> QED BY <1>5, <2>4, <2>7, <2>8, <2>9 DEF CarryInv
<1>6. ASSUME NEW o \in Outcomes(Twelve), Execute(Twelve, o), ~LinksRcs,
             \/ Die /\ flaws' = flaws \union DeathFlaws \union (IF o[1] > 0 THEN {"rcs copy"} ELSE {})
             \/ pc' = "copy" /\ UNCHANGED <<at, needBackup, complete, rebuilt, retried, flaws>>
      PROVE  CarryInv'
  <2>1. RcsLink \notin db.schema /\ flaws \subseteq flaws'
    BY <1>6 DEF LinksRcs, RcsLink
  <2>2. db' = [db EXCEPT !.schema = Executed(db.schema, Ran(Twelve, o))]
    BY <1>6 DEF Execute
  <2>3. SameRows(db, db') /\ Guarded \intersect db.schema \subseteq db'.schema
        /\ db'.schema = Executed(db.schema, Ran(Twelve, o))
    BY <1>2, <2>2, SchemaStep, SparingTwelve, SchemaFields
  <2>4. Table(Fav) \in db'.schema => Table(Fav) \in db.schema
    <3>1. \A s \in Ran(Twelve, o) : Table(Fav) \notin s.make
      BY SparingTwelve, RanOf DEF AllSparing
    <3> QED BY <2>3, <3>1, MakesNoThing
  <2>5. CASE pc' = "copy" /\ at' = at
    BY <1>5, <2>1, <2>3, <2>4, <2>5
  <2>6. CASE Die /\ o[1] > 0 /\ "rcs copy" \in flaws'
    <3>1. pc' = "closed" /\ at' = 1 /\ db'.version = db.version
      BY <2>3, <2>6 DEF Die, SameRows
    <3>2. ~Beyond(34)'
      BY <1>1, <1>2, <3>1 DEF Beyond
    <3>3. Sound(db', flaws)
      BY <1>2, <2>3, SoundSchema
    <3>4. MarkedOnce(db', flaws, Beyond(34)')
      <4>1. Beyond(34) \in BOOLEAN /\ Beyond(34)' \in BOOLEAN
        BY DEF Beyond
      <4> QED BY <1>2, <2>3, <2>4, <3>2, <4>1, MarkedSchema
    <3>5. Sound(db', flaws') /\ MarkedOnce(db', flaws', Beyond(34)')
      BY <2>1, <3>3, <3>4 DEF Sound, MarkedOnce
    <3>6. ListedOnce(db', flaws', Beyond(12)')
      BY <2>6 DEF ListedOnce
    <3> QED BY <1>1, <2>1, <3>1, <3>5, <3>6, CarryGoes
  <2>7. CASE Die /\ o[1] = 0
    <3>1. Ran(Twelve, o) = {}
      BY <2>7 DEF Ran
    <3>2. db'.schema = db.schema
      BY <2>3, <3>1, ExecutesNothing
    <3> QED BY <1>1, <2>1, <2>3, <2>7, <3>2, DeathCarries
  <2>8. o[1] \in Nat
    BY DEF Outcomes
  <2>9. o[1] > 0 \/ o[1] = 0
    BY <2>8
  <2>10. o[1] > 0 /\ Die => "rcs copy" \in flaws'
    <3>1. CASE flaws' = flaws \union DeathFlaws \union (IF o[1] > 0 THEN {"rcs copy"} ELSE {})
      BY <3>1
    <3>2. CASE pc' = "copy"
      BY <3>2 DEF Die
    <3> QED BY <1>6, <3>1, <3>2
  <2> QED BY <1>6, <2>5, <2>6, <2>7, <2>9, <2>10
<1>7. CASE LinksRcs /\ pc' = "copy" /\ Flaw("rcs twice") /\ UNCHANGED <<db, at>>
  <2>1. flaws \subseteq flaws' /\ "rcs twice" \in flaws' /\ SameRows(db, db')
    BY <1>7 DEF Flaw, SameRows
  <2> QED BY <1>5, <1>7, <2>1
<1> QED BY <1>4, <1>6, <1>7 DEF VersionUpToTwelve

LEMMA CopyCarries ==
  ASSUME UpgradeInv, CarryInv, store = "sms_mms", RcsInfoInsertSmsMmsInfo PROVE CarryInv'
<1> DEFINE able == {<<Sms, "rcs_id">>, <<Rcs, "is_collect">>} \subseteq db.schema
           rows(copied) == [m \in Msgs |-> Count(db.rows[m] + (IF m \in copied THEN 1 ELSE 0))]
<1>1. PICK copied \in SUBSET db.rcs, dies \in BOOLEAN :
        /\ ~able => copied = {}
        /\ db' = [db EXCEPT !.rows = rows(copied)]
        /\ flaws' = flaws \union (IF dies THEN DeathFlaws ELSE {})
                      \union (IF dies \/ copied # db.rcs THEN {"rcs copy"} ELSE {})
        /\ IF dies THEN Die ELSE Proceed /\ UNCHANGED <<complete, rebuilt, retried>>
  BY DEF RcsInfoInsertSmsMmsInfo
<1>2. pc = "copy" /\ at = 12 /\ UNCHANGED <<store, bak>> /\ AboutToCopy
  <2>1. pc = "copy" /\ UNCHANGED <<store, bak>>
    BY DEF RcsInfoInsertSmsMmsInfo
  <2>2. AboutToCopy
    BY <2>1 DEF CarryInv
  <2> QED BY <2>1, <2>2 DEF AboutToCopy
<1>3. /\ IsFile(db) /\ Sound(db, flaws) /\ MarkedOnce(db, flaws, Beyond(34)) /\ db.version \in 1..34
      /\ db.rows \in [Msgs -> 0..2] /\ db.rcs \subseteq Msgs /\ db.version < 12
  <2>1. db.version < at
    BY <1>2 DEF CarryInv
  <2>2. Waiting
    BY <1>2 DEF UpgradeInv, VersionKept
  <2> QED BY <1>2, <2>1, <2>2, CarryTyped, Version35 DEF Waiting
<1> DEFINE new == rows(copied)
<1>4. /\ db'.version = db.version /\ db'.schema = db.schema /\ db'.rcs = db.rcs /\ db'.fav = db.fav
      /\ db'.rows = new
  BY <1>1, <1>3 DEF IsFile
<1>5. \A m \in Msgs : new[m] = IF m \in copied THEN Count(db.rows[m] + 1) ELSE db.rows[m]
  BY <1>3 DEF Count
<1> HIDE DEF new, able, rows
<1>6. flaws \subseteq flaws'
  BY <1>1
<1>7. RcsLink \notin db.schema => copied = {}
  <2>1. able => RcsLink \in db.schema
    BY DEF able, RcsLink
  <2> QED BY <1>1, <2>1
<1>8. copied \subseteq Msgs /\ copied \subseteq db.rcs
  BY <1>1, <1>3
<1>9. "rcs copy" \notin flaws' => copied = db.rcs
  BY <1>1
<1>10. "rcs twice" \notin flaws => \A m \in db.rcs : db.rows[m] = 0
  BY <1>2 DEF AboutToCopy
<1>11. pc' \in {"closed", "OnUpgrade", "SetVersion"} /\ at' \in 1..35
       /\ (pc' = "OnUpgrade" /\ at' > 1 => db'.version < at')
       /\ ~Beyond(34)'
  <2>1. CASE Die
    <3>1. pc' = "closed" /\ at' = 1
      BY <2>1 DEF Die
    <3> QED BY <1>3, <1>4, <3>1 DEF Beyond
  <2>2. CASE Proceed
    <3>1. /\ \A q \in 1..35 : Beyond(q)' => at >= q \/ db.version >= q
          /\ at' \in 1..35 /\ pc' \in {"OnUpgrade", "SetVersion"}
          /\ pc' = "OnUpgrade" /\ at' > 1 => db'.version < at'
      BY <1>2, <1>4, <2>2, BeyondProceeds
    <3>2. ~Beyond(34)'
      BY <1>2, <1>3, <3>1
    <3> QED BY <3>1, <3>2
  <2> QED BY <1>1, <2>1, <2>2
<1>12. Sound(db', flaws')
  <2>1. db'.rcs \subseteq RcsMsgs /\ db'.fav \in [Msgs -> 0..2]
    BY <1>3, <1>4 DEF Sound
  <2>2. db'.version # 0
    BY <1>3, <1>4
  <2>3. "rcs twice" \notin flaws' => \A m \in Msgs : new[m] <= 1
    <3>1. "rcs twice" \notin flaws' =>
            /\ \A m \in Msgs : db.rows[m] <= 1
            /\ \A m \in copied : db.rows[m] = 0
      BY <1>3, <1>6, <1>8, <1>10 DEF Sound
    <3>2. \A m \in Msgs : db.rows[m] <= 1 /\ (m \in copied => db.rows[m] = 0) => new[m] <= 1
      BY <1>5 DEF Count
    <3> QED BY <3>1, <3>2
  <2>4. RcsLink \notin db.schema => \A m \in db.rcs : new[m] = 0
    <3> SUFFICES ASSUME RcsLink \notin db.schema, NEW m \in db.rcs PROVE new[m] = 0
      OBVIOUS
    <3>1. db.rows[m] = 0 /\ m \in Msgs /\ m \notin copied
      BY <1>3, <1>7 DEF Sound
    <3> QED BY <1>5, <3>1
  <2> QED BY <1>4, <2>1, <2>2, <2>3, <2>4 DEF Sound
<1>13. ListedOnce(db', flaws', Beyond(12)')
  <2>1. RcsLink \notin db.schema /\ "rcs copy" \notin flaws' => db.rcs = {}
    BY <1>7, <1>9
  <2>2. ASSUME flaws' \intersect {"rcs copy", "rcs twice", "orphans"} = {}, NEW m \in db.rcs PROVE new[m] = 1
    <3>1. "rcs twice" \notin flaws /\ m \in copied /\ m \in Msgs
      BY <1>3, <1>6, <1>9, <2>2
    <3>2. db.rows[m] = 0
      BY <1>10, <3>1
    <3>3. new[m] = Count(db.rows[m] + 1)
      BY <1>5, <3>1
    <3> QED BY <3>2, <3>3 DEF Count
  <2> QED BY <1>4, <2>1, <2>2 DEF ListedOnce
<1>14. MarkedOnce(db', flaws', Beyond(34)')
  <2>1. Table(Fav) \notin db.schema => \A m \in Marked : db.fav[m] = 0
    BY <1>3 DEF MarkedOnce
  <2>2. "favourites" \notin flaws' /\ Table(Fav) \in db.schema => RcsLink \in db.schema \/ db.rcs = {}
    BY <1>3, <1>6 DEF MarkedOnce
  <2>3. ASSUME "favourites" \notin flaws', "rcs twice" \notin flaws', Table(Fav) \in db.schema,
               NEW m \in Marked \intersect Held(db') PROVE db.fav[m] = 1
    <3>1. "favourites" \notin flaws /\ "rcs twice" \notin flaws
      BY <1>6, <2>3
    <3>2. db.rcs = {}
      BY <1>2, <2>3, <3>1 DEF AboutToCopy
    <3>3. m \in Msgs /\ new[m] > 0 /\ m \notin copied
      BY <1>4, <1>8, <2>3, <3>2 DEF Held
    <3>4. m \in Held(db)
      BY <1>5, <3>3 DEF Held
    <3> QED BY <1>3, <2>3, <3>1, <3>4 DEF MarkedOnce
  <2> QED BY <1>4, <1>11, <2>1, <2>2, <2>3 DEF MarkedOnce
<1> QED BY <1>2, <1>6, <1>11, <1>12, <1>13, <1>14, CarryGoes

LEMMA FavoriteCarries ==
  ASSUME UpgradeInv, CarryInv, store = "sms_mms", CreateFavoriteTable PROVE CarryInv'
<1>1. pc = "OnUpgrade" /\ at \in {23, 34} /\ UNCHANGED <<store, bak>> /\ VERSION[store] = 35
  BY Version35 DEF CreateFavoriteTable
<1>2. /\ IsFile(db) /\ Sound(db, flaws) /\ ListedOnce(db, flaws, Beyond(12)) /\ MarkedOnce(db, flaws, Beyond(34))
      /\ db.version \in Nat /\ db.version < at
  <2>1. db.version < at
    BY <1>1 DEF CarryInv
  <2> QED BY <1>1, <2>1, CarryTyped
<1>3. Beyond(12) /\ (Beyond(12)' => Beyond(12))
  BY <1>1 DEF Beyond
<1>4. ASSUME Proceed, UNCHANGED db
      PROVE  /\ Beyond(34)' => at = 34
             /\ at' \in 1..35 /\ pc' \in {"OnUpgrade", "SetVersion"}
             /\ pc' = "OnUpgrade" /\ at' > 1 => db'.version < at'
  <2>1. /\ \A q \in 1..35 : Beyond(q)' => at >= q \/ db.version >= q
        /\ at' \in 1..35 /\ pc' \in {"OnUpgrade", "SetVersion"}
        /\ pc' = "OnUpgrade" /\ at' > 1 => db'.version < at'
    BY <1>1, <1>4, BeyondProceeds
  <2>2. Beyond(34)' => at = 34
    BY <1>1, <1>2, <2>1
  <2> QED BY <2>1, <2>2
<1>5. ASSUME Proceed, UNCHANGED db, flaws \subseteq flaws',
             Table(Fav) \in db.schema \/ (at = 34 => "favourites" \in flaws')
      PROVE  CarryInv'
  <2>1. Sound(db, flaws')
    BY <1>2, <1>5 DEF Sound
  <2>2. ListedOnce(db, flaws', Beyond(12)')
    BY <1>2, <1>3, <1>5 DEF ListedOnce
  <2>3. MarkedOnce(db, flaws', Beyond(34)')
    <3>1. Beyond(34)' => at = 34
      BY <1>4, <1>5
    <3>2. CASE Table(Fav) \in db.schema
      BY <1>2, <1>5, <3>2 DEF MarkedOnce
    <3>3. CASE Table(Fav) \notin db.schema /\ ("favourites" \in flaws' \/ ~Beyond(34)')
      BY <1>2, <1>5, <3>3 DEF MarkedOnce
    <3> QED BY <1>5, <3>1, <3>2, <3>3
  <2>4. at' \in 1..35 /\ pc' \in {"OnUpgrade", "SetVersion"} /\ (pc' = "OnUpgrade" /\ at' > 1 => db'.version < at')
    BY <1>4, <1>5
  <2> QED BY <1>1, <1>5, <2>1, <2>2, <2>3, <2>4, CarryGoes
<1>6. ASSUME pc' = "history", at' = at, flaws \subseteq flaws', SameRows(db, db'),
             Guarded \intersect db.schema \subseteq db'.schema,
             RcsLink \in db'.schema => RcsLink \in db.schema,
             Table(Fav) \in db'.schema,
             "favourites" \in flaws' \/ Table(Fav) \notin db.schema
      PROVE  CarryInv'
  <2>1. Sound(db', flaws)
    BY <1>2, <1>6, SoundSchema
  <2>2. ListedOnce(db', flaws, Beyond(12)')
    <3>1. Beyond(12) \in BOOLEAN /\ Beyond(12)' \in BOOLEAN
      BY DEF Beyond
    <3> QED BY <1>2, <1>3, <1>6, <3>1, ListedSchema
  <2>3. Sound(db', flaws') /\ ListedOnce(db', flaws', Beyond(12)')
    BY <1>6, <2>1, <2>2 DEF Sound, ListedOnce
  <2>4. "favourites" \in flaws' \/ \A m \in Marked : db'.fav[m] = 0
    BY <1>2, <1>6 DEF MarkedOnce, SameRows
  <2>5. AboutToFill'
    BY <1>1, <1>6, <2>4 DEF AboutToFill
  <2>6. /\ Sound(bak', flaws') /\ ListedOnce(bak', flaws', bak'.version >= 12)
        /\ MarkedOnce(bak', flaws', bak'.version >= 34)
    BY <1>1, <1>6, BackupCarried
  <2>7. VERSION[store'] = 35 /\ at' \in 1..35 /\ db'.version < at'
    <3>1. db'.version = db.version
      BY <1>6 DEF SameRows
    <3> QED BY <1>1, <1>2, <1>6, <3>1
  <2> QED BY <1>6, <2>3, <2>5, <2>6, <2>7 DEF CarryInv
<1>7. CASE IsFavTableExist /\ GoOn /\ UNCHANGED db
  <2>1. Proceed /\ flaws' = flaws /\ Table(Fav) \in db.schema
    BY <1>7 DEF GoOn, IsFavTableExist
  <2> QED BY <1>5, <1>7, <2>1
<1>8. CASE IsFavTableExist /\ pc' = "history" /\ Flaw("favourites") /\ UNCHANGED <<db, at>>
  <2>1. flaws \subseteq flaws' /\ "favourites" \in flaws' /\ SameRows(db, db') /\ Table(Fav) \in db.schema
    BY <1>8 DEF Flaw, SameRows, IsFavTableExist
  <2> QED BY <1>6, <1>8, <2>1
<1>9. CASE /\ ~IsFavTableExist
           /\ db' = [db EXCEPT !.schema = Executed(@, {CreateFavorites[1]})]
           /\ pc' = "history" /\ UNCHANGED <<flaws, at>>
  <2>1. Table(Fav) \notin db.schema
    BY <1>9 DEF IsFavTableExist
  <2> DEFINE x == Executed(db.schema, {CreateFavorites[1]})
  <2>2. Guarded \intersect db.schema \subseteq x /\ Table(Fav) \in x /\ (RcsLink \in x => RcsLink \in db.schema)
    BY <2>1, FavoritesMade DEF Guarded
  <2>3. db' = [db EXCEPT !.schema = x]
    BY <1>9
  <2> HIDE DEF x
  <2>4. SameRows(db, db') /\ db'.schema = x
    BY <1>2, <2>3, SchemaFields
  <2> QED BY <1>6, <1>9, <2>1, <2>2, <2>4
<1>10. CASE Proceed /\ flaws' = (IF at = 34 THEN flaws \union {"favourites"} ELSE flaws) /\ UNCHANGED db
  <2>1. flaws \subseteq flaws' /\ (at = 34 => "favourites" \in flaws')
    BY <1>10
  <2> QED BY <1>5, <1>10, <2>1
<1> QED BY <1>7, <1>8, <1>9, <1>10 DEF CreateFavoriteTable

LEMMA HistoryCarries ==
  ASSUME UpgradeInv, CarryInv, store = "sms_mms", GetHistoryFavoriteItem PROVE CarryInv'
<1> DEFINE able == {<<Sms, "rcs_id">>, <<Sms, "detect_res_content">>} \subseteq db.schema
           past == IF able THEN Collected \intersect Held(db) ELSE {}
           new == [m \in Msgs |-> Count(db.fav[m] + (IF m \in past THEN db.rows[m] ELSE 0))]
<1>1. \/ /\ db' = [db EXCEPT !.fav = new]
         /\ flaws' = IF able THEN flaws ELSE flaws \union {"favourites"}
      \/ Flaw("favourites") /\ UNCHANGED db
  BY DEF GetHistoryFavoriteItem
<1>2. pc = "history" /\ Proceed /\ at \in {23, 34} /\ UNCHANGED <<store, bak>> /\ AboutToFill
  <2>1. pc = "history" /\ Proceed /\ UNCHANGED <<store, bak>>
    BY DEF GetHistoryFavoriteItem
  <2>2. AboutToFill
    BY <2>1 DEF CarryInv
  <2> QED BY <2>1, <2>2 DEF AboutToFill
<1>3. /\ IsFile(db) /\ Sound(db, flaws) /\ ListedOnce(db, flaws, Beyond(12))
      /\ db.rows \in [Msgs -> 0..2] /\ db.fav \in [Msgs -> 0..2] /\ db.version \in 1..34
  <2>1. Waiting
    BY <1>2 DEF UpgradeInv, VersionKept
  <2> QED BY <1>2, <2>1, CarryTyped, Version35 DEF Waiting
<1>4. \A m \in Msgs : new[m] = Count(db.fav[m] + (IF m \in past THEN db.rows[m] ELSE 0))
  OBVIOUS
<1>5. new \in [Msgs -> 0..2]
  <2>1. ASSUME NEW m \in Msgs PROVE Count(db.fav[m] + (IF m \in past THEN db.rows[m] ELSE 0)) \in 0..2
    BY <1>3 DEF Count
  <2> QED BY <2>1
<1>6. Table(Fav) \in db.schema /\ Beyond(12) /\ Marked \subseteq Collected /\ Marked \subseteq Msgs
  BY <1>2, SchemaAssumption DEF AboutToFill, Beyond, Marked
<1>7. able => RcsLink \in db.schema
  BY DEF RcsLink
<1>8. able => past = Collected \intersect Held(db)
  OBVIOUS
<1> HIDE DEF new, past, able
<1>9. flaws \subseteq flaws' /\ ("favourites" \notin flaws' => able /\ db' = [db EXCEPT !.fav = new])
  BY <1>1 DEF Flaw
<1>10. /\ db'.version = db.version /\ db'.schema = db.schema /\ db'.rows = db.rows /\ db'.rcs = db.rcs
       /\ db'.fav \in [Msgs -> 0..2]
  <2>1. CASE db' = [db EXCEPT !.fav = new]
    BY <1>3, <1>5, <2>1 DEF IsFile
  <2>2. CASE UNCHANGED db
    BY <1>3, <2>2
  <2> QED BY <1>1, <2>1, <2>2
<1>11. /\ at' \in 1..35 /\ pc' \in {"OnUpgrade", "SetVersion"}
       /\ pc' = "OnUpgrade" /\ at' > 1 => db'.version < at'
  BY <1>2, <1>10, BeyondProceeds
<1>12. Sound(db', flaws')
  <2>1. Held(db') = Held(db)
    BY <1>10 DEF Held
  <2> QED BY <1>3, <1>9, <1>10, <2>1 DEF Sound
<1>13. ListedOnce(db', flaws', Beyond(12)')
  BY <1>3, <1>6, <1>9, <1>10 DEF ListedOnce
<1>14. MarkedOnce(db', flaws', Beyond(34)')
  <2>1. ASSUME "favourites" \notin flaws', "rcs twice" \notin flaws', NEW m \in Marked \intersect Held(db')
        PROVE  db'.fav[m] = 1
    <3>1. "favourites" \notin flaws /\ "rcs twice" \notin flaws /\ able /\ db' = [db EXCEPT !.fav = new]
      BY <1>9, <2>1
    <3>2. m \in Msgs /\ db.rows[m] > 0 /\ db.rows[m] <= 1 /\ m \in Held(db)
      BY <1>3, <1>6, <1>10, <2>1, <3>1 DEF Sound, Held
    <3>3. db.rows[m] = 1
      BY <1>3, <3>2
    <3>4. db.fav[m] = 0
      BY <1>2, <3>1 DEF AboutToFill
    <3>5. m \in past
      BY <1>6, <1>8, <3>1, <3>2
    <3>6. new[m] = Count(0 + 1)
      BY <1>4, <3>2, <3>3, <3>4, <3>5
    <3>7. db'.fav[m] = new[m]
      BY <1>3, <3>1 DEF IsFile
    <3> QED BY <3>6, <3>7 DEF Count
  <2>2. "favourites" \notin flaws' => RcsLink \in db.schema
    BY <1>7, <1>9
  <2> QED BY <1>6, <1>10, <2>1, <2>2 DEF MarkedOnce
<1> QED BY <1>2, <1>9, <1>11, <1>12, <1>13, <1>14, CarryGoes

(* Fewer messages in the rows, and those of rcs_info gone with them.       *)
LEMMA OrphansCarry ==
  ASSUME UpgradeInv, CarryInv, store = "sms_mms", VersionUpTo26 PROVE CarryInv'
<1>1. PICK info, rcs \in BOOLEAN :
        LET gone == IF info /\ <<Sms, "is_blocked">> \in db.schema THEN Orphans ELSE {}
        IN /\ db' = [db EXCEPT !.rows = [m \in Msgs |-> IF m \in gone THEN 0 ELSE @[m]],
                               !.rcs = IF rcs THEN @ \ Orphans ELSE @]
           /\ flaws' = IF gone = Orphans /\ rcs THEN flaws ELSE flaws \union {"orphans"}
  BY DEF VersionUpTo26
<1> DEFINE gone == IF info /\ <<Sms, "is_blocked">> \in db.schema THEN Orphans ELSE {}
           new == [m \in Msgs |-> IF m \in gone THEN 0 ELSE db.rows[m]]
           left == IF rcs THEN db.rcs \ Orphans ELSE db.rcs
<1>2. pc = "OnUpgrade" /\ Proceed /\ at = 26 /\ UNCHANGED <<store, bak>>
  BY DEF VersionUpTo26
<1>3. /\ IsFile(db) /\ Sound(db, flaws) /\ ListedOnce(db, flaws, Beyond(12)) /\ MarkedOnce(db, flaws, Beyond(34))
      /\ db.rows \in [Msgs -> 0..2] /\ db.rcs \subseteq Msgs /\ db.version \in 1..34 /\ db.version < 26
  <2>1. db.version < at
    BY <1>2 DEF CarryInv
  <2>2. Waiting
    BY <1>2 DEF UpgradeInv, VersionKept
  <2> QED BY <1>2, <2>1, <2>2, CarryTyped, Version35 DEF Waiting
<1>4. /\ db'.version = db.version /\ db'.schema = db.schema /\ db'.fav = db.fav
      /\ db'.rows = new /\ db'.rcs = left
  <2> DEFINE d == [db EXCEPT !.rows = new]
  <2>1. db' = [d EXCEPT !.rcs = left]
    BY <1>1
  <2>2. /\ IsFile(d) /\ d.version = db.version /\ d.schema = db.schema /\ d.fav = db.fav /\ d.rows = new
    BY <1>3 DEF IsFile
  <2> HIDE DEF d
  <2> QED BY <2>1, <2>2 DEF IsFile
<1>5. flaws \subseteq flaws' /\ ("orphans" \notin flaws' => gone = Orphans /\ left = db.rcs \ Orphans)
  BY <1>1
<1>6. /\ \A m \in Msgs : new[m] = IF m \in gone THEN 0 ELSE db.rows[m]
      /\ left \subseteq db.rcs
  OBVIOUS
<1> HIDE DEF gone, new, left
<1>7. Beyond(12) /\ ~Beyond(34)'
      /\ at' \in 1..35 /\ pc' \in {"OnUpgrade", "SetVersion"}
      /\ (pc' = "OnUpgrade" /\ at' > 1 => db'.version < at')
  <2>1. /\ \A q \in 1..35 : Beyond(q)' => at >= q \/ db.version >= q
        /\ at' \in 1..35 /\ pc' \in {"OnUpgrade", "SetVersion"}
        /\ pc' = "OnUpgrade" /\ at' > 1 => db'.version < at'
    BY <1>2, <1>4, BeyondProceeds
  <2>2. Beyond(12)
    BY <1>2 DEF Beyond
  <2>3. ~Beyond(34)'
    BY <1>2, <1>3, <2>1
  <2> QED BY <2>1, <2>2, <2>3
<1>8. \A m \in Msgs : new[m] = 0 \/ new[m] = db.rows[m]
  BY <1>6
<1>9. Held(db') \subseteq Held(db)
  BY <1>4, <1>8 DEF Held
<1>10. Sound(db', flaws')
  <2>1. db'.version # 0
    BY <1>3, <1>4
  <2>2. "rcs twice" \notin flaws' => \A m \in Msgs : new[m] <= 1
    <3>1. "rcs twice" \notin flaws' => \A m \in Msgs : db.rows[m] <= 1
      BY <1>3, <1>5 DEF Sound
    <3>2. \A m \in Msgs : db.rows[m] <= 1 => new[m] <= 1
      BY <1>8
    <3> QED BY <3>1, <3>2
  <2>3. RcsLink \notin db.schema => \A m \in left : new[m] = 0
    BY <1>3, <1>6, <1>8 DEF Sound
  <2> QED BY <1>3, <1>4, <1>6, <2>1, <2>2, <2>3 DEF Sound
<1>11. ListedOnce(db', flaws', Beyond(12)')
  <2>1. RcsLink \notin db.schema /\ "rcs copy" \notin flaws' => left = {}
    BY <1>3, <1>5, <1>6, <1>7 DEF ListedOnce
  <2>2. ASSUME RcsLink \in db.schema, flaws' \intersect {"rcs copy", "rcs twice", "orphans"} = {}, NEW m \in left
        PROVE  new[m] = 1
    <3>1. flaws \intersect {"rcs copy", "rcs twice", "orphans"} = {} /\ "orphans" \notin flaws'
      BY <1>5, <2>2
    <3>2. m \in db.rcs /\ m \notin gone /\ m \in Msgs
      BY <1>3, <1>5, <1>6, <2>2, <3>1
    <3>3. db.rows[m] = 1
      BY <1>3, <2>2, <3>1, <3>2 DEF ListedOnce
    <3> QED BY <1>6, <3>2, <3>3
  <2> QED BY <1>4, <2>1, <2>2 DEF ListedOnce
<1>12. MarkedOnce(db', flaws', Beyond(34)')
  <2>1. "favourites" \notin flaws' /\ Table(Fav) \in db.schema => RcsLink \in db.schema \/ left = {}
    BY <1>3, <1>5, <1>6 DEF MarkedOnce
  <2>2. "favourites" \notin flaws' /\ "rcs twice" \notin flaws' /\ Table(Fav) \in db.schema
          => \A m \in Marked \intersect Held(db') : db.fav[m] = 1
    BY <1>3, <1>5, <1>9 DEF MarkedOnce
  <2>3. Table(Fav) \notin db.schema => \A m \in Marked : db.fav[m] = 0
    BY <1>3 DEF MarkedOnce
  <2> QED BY <1>4, <1>7, <2>1, <2>2, <2>3 DEF MarkedOnce
<1> QED BY <1>2, <1>5, <1>7, <1>10, <1>11, <1>12, CarryGoes

(* The version is set, when all steps are behind.                          *)
LEMMA SetVersionCarries ==
  ASSUME UpgradeInv, CarryInv, store = "sms_mms", SetVersion PROVE CarryInv'
<1>1. pc = "SetVersion" /\ pc' = "OnOpen" /\ at' = at /\ UNCHANGED <<store, bak, flaws>>
      /\ db' = [db EXCEPT !.version = VERSION[store]]
  BY DEF SetVersion, history
<1>2. /\ IsFile(db) /\ Sound(db, flaws) /\ ListedOnce(db, flaws, Beyond(12)) /\ MarkedOnce(db, flaws, Beyond(34))
      /\ at \in 1..35
  BY <1>1, CarryTyped
<1>3. /\ db'.version = 35 /\ db'.schema = db.schema /\ db'.rows = db.rows /\ db'.rcs = db.rcs /\ db'.fav = db.fav
  BY <1>1, <1>2, Version35 DEF IsFile
<1>4. Beyond(12) /\ Beyond(34) /\ Held(db') = Held(db)
  BY <1>1, <1>3 DEF Beyond, Held
<1>5. Sound(db', flaws')
  <2>1. db'.version # 0
    BY <1>3
  <2> QED BY <1>1, <1>2, <1>3, <2>1 DEF Sound
<1>6. ListedOnce(db', flaws', Beyond(12)')
  BY <1>1, <1>2, <1>3, <1>4 DEF ListedOnce
<1>7. MarkedOnce(db', flaws', Beyond(34)')
  BY <1>1, <1>2, <1>3, <1>4 DEF MarkedOnce
<1> QED BY <1>1, <1>2, <1>5, <1>6, <1>7, CarryGoes

-----------------------------------------------------------------------------
(* OnOpen, which has the version of the code before it.                    *)
LEMMA BeyondAll ==
  ASSUME UpgradeInv, store = "sms_mms", InOnOpen \/ pc = "opened"
  PROVE  db.version = 35 /\ Beyond(12) /\ Beyond(34)
<1>1. db.version = 35
  BY Version35 DEF UpgradeInv, VersionKept
<1> QED BY <1>1 DEF Beyond

(* The file stays as it is.                                                *)
LEMMA SameCarries ==
  ASSUME UpgradeInv, CarryInv, store = "sms_mms", UNCHANGED <<store, db, bak>>, flaws \subseteq flaws',
         pc \notin {"copy", "history"}, pc' \notin {"copy", "history", "OnUpgrade", "OnDowngrade", "SetVersion"},
         at' \in 1..35
  PROVE  CarryInv'
<1>1. SameRows(db, db') /\ Guarded \intersect db.schema \subseteq db'.schema
  BY DEF SameRows
<1>2. (Beyond(12)' => Beyond(12)) /\ (Beyond(34)' => Beyond(34))
  BY DEF Beyond
<1> QED BY <1>1, <1>2, SchemaGoes

LEMMA OnDowngradeCarries ==
  ASSUME UpgradeInv, CarryInv, store = "sms_mms", OnDowngrade PROVE CarryInv'
<1>1. pc = "OnDowngrade" /\ pc' = "SetVersion" /\ UNCHANGED <<store, db, bak, at, flaws>>
  BY DEF OnDowngrade, history
<1>2. SameRows(db, db') /\ Guarded \intersect db.schema \subseteq db'.schema /\ Beyond(12) /\ Beyond(34)
  BY <1>1 DEF SameRows, Beyond
<1> QED BY <1>1, <1>2, CarryTyped, SchemaGoes

LEMMA OnOpenNoVersionCarries ==
  ASSUME UpgradeInv, CarryInv, store = "sms_mms", OnOpenNoVersion PROVE CarryInv'
BY CarryTyped, SameCarries DEF OnOpenNoVersion, Flaw

LEMMA OnOpenCarries ==
  ASSUME UpgradeInv, CarryInv, store = "sms_mms", OnOpen PROVE CarryInv'
<1>1. pc = "OnOpen" /\ UNCHANGED <<store, bak>> /\ at \in 1..35 /\ IsFile(db)
  BY CarryTyped DEF OnOpen
<1>2. Beyond(12) /\ Beyond(34)
  BY <1>1, BeyondAll DEF InOnOpen
<1>3. CASE pc' = "fields" /\ UNCHANGED <<db, flaws, at>>
  BY <1>1, <1>3, SameCarries
<1>4. ASSUME NEW o \in Outcomes(InitCreateTableVec), Execute(InitCreateTableVec, o),
             \/ Die /\ flaws' = flaws \union DeathFlaws
             \/ pc' = "fields" /\ Flaw("backup") /\ UNCHANGED at
      PROVE  CarryInv'
  <2>1. db' = [db EXCEPT !.schema = Executed(db.schema, Ran(InitCreateTableVec, o))]
    BY <1>4 DEF Execute
  <2>2. SameRows(db, db') /\ Guarded \intersect db.schema \subseteq db'.schema
    BY <2>1, SchemaStep, SparingCreation
  <2>3. CASE Die /\ flaws' = flaws \union DeathFlaws
    BY <1>1, <1>2, <2>2, <2>3, DeathCarries
  <2>4. CASE pc' = "fields" /\ at' = at /\ flaws \subseteq flaws'
    BY <1>1, <1>2, <2>2, <2>4, SchemaGoes
  <2> QED BY <1>4, <2>3, <2>4 DEF Flaw
<1>5. CASE /\ db' = [db EXCEPT !.schema = Executed(@, {InitCreateTableVec[i] : i \in DOMAIN InitCreateTableVec})]
           /\ pc' = "fields" /\ Flaw("backup") /\ UNCHANGED at
  <2> DEFINE all == {InitCreateTableVec[i] : i \in DOMAIN InitCreateTableVec}
  <2>1. \A s \in all : Sparing(s)
    BY SparingCreation DEF AllSparing
  <2> HIDE DEF all
  <2>2. Guarded \intersect db.schema \subseteq Executed(db.schema, all)
    BY <2>1, KeepsThing DEF Sparing
  <2>3. db' = [db EXCEPT !.schema = Executed(db.schema, all)]
    BY <1>5 DEF all
  <2>4. SameRows(db, db') /\ db'.schema = Executed(db.schema, all)
    BY <1>1, <2>3, SchemaFields
  <2>5. flaws \subseteq flaws'
    BY <1>5 DEF Flaw
  <2> QED BY <1>1, <1>2, <1>5, <2>2, <2>4, <2>5, SchemaGoes
<1> QED BY <1>1, <1>3, <1>4, <1>5 DEF OnOpen

LEMMA RepairCarries ==
  ASSUME UpgradeInv, CarryInv, store = "sms_mms", NEW stmts, NEW unseen, NEW next \in {"components", "backup"},
         pc \in {"fields", "components"}, AllMild(stmts), Repair(stmts, unseen, next)
  PROVE  CarryInv'
<1>1. PICK o \in Outcomes(stmts) :
        /\ db' = [db EXCEPT !.schema = Executed(db.schema, Ran(stmts, o))]
        /\ \/ Die /\ flaws' = flaws \union DeathFlaws
           \/ /\ pc' = next
              /\ flaws' = IF stmts # <<>> /\ (rebuilt \/ "rebuild" \in flaws) THEN flaws \union {"repair"} ELSE flaws
              /\ UNCHANGED at
        /\ UNCHANGED <<store, bak>>
  BY DEF Repair
<1>2. flaws \subseteq flaws' /\ at \in 1..35
  BY <1>1, CarryTyped
<1>3. Beyond(12) /\ Beyond(34)
  BY BeyondAll DEF InOnOpen
<1>4. SameRows(db, db') /\ Guarded \intersect db.schema \subseteq db'.schema
  BY <1>1, SchemaStep
<1>5. CASE Die
  BY <1>1, <1>2, <1>3, <1>4, <1>5, DeathCarries
<1>6. CASE pc' = next /\ at' = at
  BY <1>1, <1>2, <1>3, <1>4, <1>6, SchemaGoes
<1> QED BY <1>1, <1>5, <1>6

-----------------------------------------------------------------------------
(* The file and its backup.                                                *)
LEMMA DoBackUpDBCarries ==
  ASSUME UpgradeInv, CarryInv, store = "sms_mms", DoBackUpDB PROVE CarryInv'
<1>1. pc = "backup" /\ pc' = "opened" /\ UNCHANGED <<store, db, at>>
  BY DEF DoBackUpDB
<1>2. at \in 1..35 /\ Sound(db, flaws) /\ ListedOnce(db, flaws, Beyond(12)) /\ MarkedOnce(db, flaws, Beyond(34))
  BY <1>1, CarryTyped
<1>3. db.version = 35 /\ Beyond(12) /\ Beyond(34)
  BY <1>1, BeyondAll DEF InOnOpen
<1>4. CASE bak' = bak /\ flaws \subseteq flaws'
  BY <1>1, <1>2, <1>4, SameCarries
<1>5. CASE bak' = db /\ flaws' = flaws
  <2>1. Sound(db, flaws) /\ ListedOnce(db, flaws, TRUE) /\ MarkedOnce(db, flaws, TRUE)
    BY <1>2, <1>3 DEF ListedOnce, MarkedOnce
  <2>2. Beyond(12)' /\ Beyond(34)' /\ VERSION[store'] = 35
    BY <1>1, <1>3, Version35 DEF Beyond
  <2>3. (db.version >= 12) = TRUE /\ (db.version >= 34) = TRUE
    BY <1>3
  <2>4. ListedOnce(bak', flaws', bak'.version >= 12) /\ MarkedOnce(bak', flaws', bak'.version >= 34)
    BY <1>5, <2>1, <2>3 DEF ListedOnce, MarkedOnce
  <2>5. ListedOnce(db', flaws', Beyond(12)') /\ MarkedOnce(db', flaws', Beyond(34)')
    BY <1>1, <1>5, <2>1 DEF ListedOnce, MarkedOnce
  <2>6. Sound(db', flaws') /\ Sound(bak', flaws')
    BY <1>1, <1>5, <2>1
  <2> QED BY <1>1, <1>2, <2>2, <2>4, <2>5, <2>6 DEF CarryInv
<1> QED BY <1>4, <1>5 DEF DoBackUpDB, Flaw

(* The backup takes the place of the file, which is opened or just read.   *)
LEMMA BackupTakesOver ==
  ASSUME UpgradeInv, CarryInv, store = "sms_mms", UNCHANGED <<store, bak>>, flaws \subseteq flaws', db' = bak,
         at' \in 1..35, pc' \notin {"copy", "history", "SetVersion"}, pc' = "OnUpgrade" => at' = 1,
         pc' = "OnDowngrade" => db'.version >= 34
  PROVE  CarryInv'
<1>1. /\ Sound(bak', flaws') /\ ListedOnce(bak', flaws', bak'.version >= 12)
      /\ MarkedOnce(bak', flaws', bak'.version >= 34)
  BY BackupCarried
<1>2. (Beyond(12)' => bak'.version >= 12) /\ (Beyond(34)' => bak'.version >= 34)
  <2>1. bak'.version \in Int
    BY NoBackupFile DEF UpgradeInv
  <2>2. bak'.version >= 34 => bak'.version >= 12
    BY <2>1
  <2> QED BY <2>2 DEF Beyond
<1>3. Sound(db', flaws') /\ ListedOnce(db', flaws', Beyond(12)') /\ MarkedOnce(db', flaws', Beyond(34)')
  BY <1>1, <1>2 DEF ListedOnce, MarkedOnce
<1> QED BY <1>3, CarryGoes

LEMMA RestoreCarries ==
  ASSUME UpgradeInv, CarryInv, store = "sms_mms", Restore PROVE CarryInv'
<1>1. /\ pc = "opened" /\ pc' = Opening(db') /\ at' = 1 /\ UNCHANGED <<store, bak>>
      /\ (db' = Restored /\ flaws' = flaws) \/ (Flaw("rebuild") /\ db' = db)
  BY DEF Restore
<1>2. db' = db \/ (db' = bak /\ bak # NoBackup)
  BY <1>1 DEF Restored
<1>3. flaws \subseteq flaws'
  BY <1>1 DEF Flaw
<1>4. /\ pc' \in {"OnCreate", "OnUpgrade", "OnOpen", "OnDowngrade"}
      /\ pc' = "OnDowngrade" => db'.version >= 34
  <2>1. db'.version \in Nat /\ store \in Stores /\ store' = store /\ VERSION[store'] = 35
    BY <1>1, <1>2, Version35 DEF UpgradeInv
  <2>2. pc' = "OnDowngrade" => db'.version > 35
    BY <1>1, <2>1 DEF Opening
  <2> QED BY <1>1, <2>1, <2>2, OpeningCases
<1>5. CASE db' = db
  <2>1. Beyond(12) /\ Beyond(34) /\ SameRows(db, db') /\ Guarded \intersect db.schema \subseteq db'.schema
    BY <1>1, <1>5, BeyondAll DEF SameRows
  <2> QED BY <1>1, <1>3, <1>4, <1>5, <2>1, SchemaGoes
<1>6. CASE db' = bak
  BY <1>1, <1>3, <1>4, <1>6, BackupTakesOver
<1> QED BY <1>2, <1>5, <1>6

LEMMA TryRestoreCarries ==
  ASSUME UpgradeInv, CarryInv, store = "sms_mms", TryRestore PROVE CarryInv'
<1>1. pc = "ready" /\ db' = bak /\ UNCHANGED <<store, bak, pc, at, flaws>>
  BY DEF TryRestore, opening, history
<1> QED BY <1>1, CarryTyped, BackupTakesOver

-----------------------------------------------------------------------------
(* The life of an open store.                                              *)
LEMMA QuietCarries ==
  ASSUME UpgradeInv, CarryInv, store = "sms_mms", Serve \/ Damage \/ Close PROVE CarryInv'
<1>1. /\ UNCHANGED <<store, db, bak>> /\ pc \in {"opened", "ready"} /\ pc' \in {"closed", "ready"}
      /\ at' \in {1, at} /\ flaws \subseteq flaws'
  BY DEF Serve, Damage, Close, Die, Flaw, opening, history
<1>2. at' \in 1..35
  BY <1>1, CarryTyped
<1> QED BY <1>1, <1>2, SameCarries

(* A message that arrives: new rows, at least one of a known link.         *)
LEMMA ReceiveCarries ==
  ASSUME UpgradeInv, CarryInv, Versioned, store = "sms_mms", NEW x \in Msgs, Receive(x) PROVE CarryInv'
<1> DEFINE more == IF x \in RcsMsgs THEN db.rcs \union {x} ELSE db.rcs
<1>1. /\ pc = "ready" /\ x \in Later /\ db.rows[x] = 0 /\ (x \in RcsMsgs => RcsLink \in db.schema)
      /\ UNCHANGED <<store, bak, pc, at, flaws>>
  BY DEF Receive, LinksRcs, RcsLink, opening, history
<1>2. db' = [db EXCEPT !.rows[x] = 1, !.rcs = more]
  BY DEF Receive
<1>3. /\ IsFile(db) /\ db.rows \in [Msgs -> 0..2] /\ db.rcs \subseteq Msgs /\ at \in 1..35 /\ db.version \in Nat
      /\ Sound(db, flaws) /\ ListedOnce(db, flaws, Beyond(12)) /\ MarkedOnce(db, flaws, Beyond(34))
  BY <1>1, CarryTyped
<1> DEFINE new == [db.rows EXCEPT ![x] = 1]
<1>4. /\ db'.version = db.version /\ db'.schema = db.schema /\ db'.fav = db.fav
      /\ db'.rows = new /\ db'.rcs = more
  <2> DEFINE d == [db EXCEPT !.rows = new]
  <2>1. db' = [d EXCEPT !.rcs = more]
    BY <1>2
  <2>2. /\ IsFile(d) /\ d.version = db.version /\ d.schema = db.schema /\ d.fav = db.fav /\ d.rows = new
    BY <1>3 DEF IsFile
  <2> HIDE DEF d
  <2> QED BY <2>1, <2>2 DEF IsFile
<1>5. /\ new[x] = 1 /\ \A m \in Msgs : m # x => new[m] = db.rows[m]
      /\ more \subseteq db.rcs \union {x} /\ (x \in more => x \in RcsMsgs \/ x \in db.rcs)
  BY <1>3
<1> HIDE DEF new, more
<1>6. db.version # 0 /\ x \notin Marked /\ Marked \subseteq Msgs
  <2>1. db.version # 0
    BY <1>1 DEF Versioned
  <2> QED BY <1>1, <2>1, SchemaAssumption DEF Marked
<1>7. Sound(db', flaws')
  <2>1. "rcs twice" \notin flaws => \A m \in Msgs : new[m] <= 1
    <3>1. "rcs twice" \notin flaws => \A m \in Msgs : db.rows[m] <= 1
      BY <1>3 DEF Sound
    <3>2. \A m \in Msgs : db.rows[m] <= 1 => new[m] <= 1
      BY <1>5
    <3> QED BY <3>1, <3>2
  <2>2. more \subseteq RcsMsgs /\ (RcsLink \notin db.schema => x \notin more)
    BY <1>1, <1>3, <1>5 DEF Sound
  <2>3. RcsLink \notin db.schema => \A m \in more : new[m] = 0
    BY <1>3, <1>5, <2>2 DEF Sound
  <2> QED BY <1>1, <1>3, <1>4, <1>5, <1>6, <2>1, <2>2, <2>3 DEF Sound
<1>8. ListedOnce(db', flaws', Beyond(12)')
  <2>1. Beyond(12)' => Beyond(12)
    BY <1>1, <1>4 DEF Beyond
  <2>2. RcsLink \notin db.schema /\ Beyond(12)' /\ "rcs copy" \notin flaws => more = {}
    BY <1>1, <1>3, <1>5, <2>1 DEF ListedOnce
  <2>3. ASSUME RcsLink \in db.schema, flaws \intersect {"rcs copy", "rcs twice", "orphans"} = {}, NEW m \in more
        PROVE  new[m] = 1
    <3>1. CASE m = x
      BY <1>5, <3>1
    <3>2. CASE m # x
      BY <1>3, <1>5, <2>3, <3>2 DEF ListedOnce
    <3> QED BY <3>1, <3>2
  <2> QED BY <1>1, <1>4, <2>2, <2>3 DEF ListedOnce
<1>9. MarkedOnce(db', flaws', Beyond(34)')
  <2>1. Beyond(34)' => Beyond(34)
    BY <1>1, <1>4 DEF Beyond
  <2>2. \A m \in Marked : m \in Held(db') => m \in Held(db)
    BY <1>4, <1>5, <1>6 DEF Held
  <2>3. RcsLink \in db.schema \/ more = db.rcs
    BY <1>1 DEF more
  <2> QED BY <1>1, <1>3, <1>4, <2>1, <2>2, <2>3 DEF MarkedOnce
<1> QED BY <1>1, <1>3, <1>7, <1>8, <1>9, CarryGoes

LEMMA RemoveCarries ==
  ASSUME UpgradeInv, CarryInv, store = "sms_mms", NEW x \in Msgs, Remove(x) PROVE CarryInv'
<1> DEFINE left == db.rcs \ {x}
           new == [db.rows EXCEPT ![x] = 0]
<1>1. pc = "ready" /\ UNCHANGED <<store, bak, pc, at, flaws>> /\ db' = [db EXCEPT !.rows[x] = 0, !.rcs = left]
  BY DEF Remove, opening
<1>2. /\ IsFile(db) /\ db.rows \in [Msgs -> 0..2] /\ db.rcs \subseteq Msgs /\ at \in 1..35
      /\ Sound(db, flaws) /\ ListedOnce(db, flaws, Beyond(12)) /\ MarkedOnce(db, flaws, Beyond(34))
  BY <1>1, CarryTyped
<1>3. /\ db'.version = db.version /\ db'.schema = db.schema /\ db'.fav = db.fav
      /\ db'.rows = new /\ db'.rcs = left
  <2> DEFINE d == [db EXCEPT !.rows = new]
  <2>1. db' = [d EXCEPT !.rcs = left]
    BY <1>1
  <2>2. /\ IsFile(d) /\ d.version = db.version /\ d.schema = db.schema /\ d.fav = db.fav /\ d.rows = new
    BY <1>2 DEF IsFile
  <2> HIDE DEF d
  <2> QED BY <2>1, <2>2 DEF IsFile
<1>4. new[x] = 0 /\ (\A m \in Msgs : m # x => new[m] = db.rows[m]) /\ left \subseteq db.rcs /\ x \notin left
  BY <1>2
<1> HIDE DEF new, left
<1>5. Held(db') \subseteq Held(db) /\ (\A m \in left : new[m] = db.rows[m])
  BY <1>2, <1>3, <1>4 DEF Held
<1>6. (Beyond(12)' => Beyond(12)) /\ (Beyond(34)' => Beyond(34))
  BY <1>1, <1>3 DEF Beyond
<1>7. Sound(db', flaws')
  <2>1. "rcs twice" \notin flaws => \A m \in Msgs : new[m] <= 1
    <3>1. "rcs twice" \notin flaws => \A m \in Msgs : db.rows[m] <= 1
      BY <1>2 DEF Sound
    <3>2. \A m \in Msgs : db.rows[m] <= 1 => new[m] <= 1
      BY <1>4
    <3> QED BY <3>1, <3>2
  <2>2. RcsLink \notin db.schema => \A m \in left : new[m] = 0
    BY <1>2, <1>4, <1>5 DEF Sound
  <2>3. db.version = 0 => left = {} /\ Held(db') = {}
    BY <1>2, <1>4, <1>5 DEF Sound
  <2> QED BY <1>1, <1>2, <1>3, <1>4, <2>1, <2>2, <2>3 DEF Sound
<1>8. ListedOnce(db', flaws', Beyond(12)')
  BY <1>1, <1>2, <1>3, <1>4, <1>5, <1>6 DEF ListedOnce
<1>9. MarkedOnce(db', flaws', Beyond(34)')
  BY <1>1, <1>2, <1>3, <1>4, <1>5, <1>6 DEF MarkedOnce
<1> QED BY <1>1, <1>2, <1>7, <1>8, <1>9, CarryGoes

LEMMA CrashCarries ==
  ASSUME UpgradeInv, CarryInv, store = "sms_mms", Crash PROVE CarryInv'
<1>1. /\ pc \in {"SetVersion", "OnOpen", "history", "backup", "opened"} /\ UNCHANGED <<store, db, bak>>
      /\ pc' = "closed" /\ at' = 1 /\ flaws \subseteq flaws' /\ (pc = "history" => "favourites" \in flaws')
  BY DEF Crash, Die
<1>2. CASE pc # "history"
  BY <1>1, <1>2, SameCarries
<1>3. CASE pc = "history"
  <2>1. /\ Sound(db, flaws) /\ ListedOnce(db, flaws, Beyond(12)) /\ AboutToFill /\ (Beyond(12)' => Beyond(12))
    BY <1>1, <1>3 DEF CarryInv, Beyond
  <2>2. Sound(db', flaws') /\ ListedOnce(db', flaws', Beyond(12)')
    BY <1>1, <2>1 DEF Sound, ListedOnce
  <2>3. MarkedOnce(db', flaws', Beyond(34)')
    BY <1>1, <1>3, <2>1 DEF MarkedOnce, AboutToFill
  <2> QED BY <1>1, <2>2, <2>3, CarryGoes
<1> QED BY <1>2, <1>3

-----------------------------------------------------------------------------
(* Versioned, from the versions that UpgradeInv gives.                     *)
LEMMA VersionedNext == UpgradeInv /\ Versioned /\ [Next]_vars => Versioned'
<1> SUFFICES ASSUME UpgradeInv, Versioned, [Next]_vars PROVE Versioned'
  OBVIOUS
<1>1. VERSION[store] \in Nat \ {0} /\ (InOnOpen \/ pc = "opened" => db.version = VERSION[store])
  BY Versions DEF UpgradeInv, VersionKept
<1>2. ASSUME bak' = bak, pc' # "ready" PROVE Versioned'
  BY <1>2 DEF Versioned
<1>3. ASSUME bak' = bak, pc = "ready", db'.version = db.version PROVE Versioned'
  BY <1>3 DEF Versioned
<1>4. CASE Open \/ Restore
  <2>1. bak' = bak /\ pc' = Opening(db')
    BY <1>4 DEF Open, Restore
  <2>2. db'.version \in Nat /\ store \in Stores
    BY <1>4, EmptyFile DEF Open, Restore, Restored, UpgradeInv
  <2> QED BY <1>2, <2>1, <2>2, OpeningCases
<1>5. ASSUME NEW stmts, NEW unseen, NEW next \in {"components", "backup"}, Repair(stmts, unseen, next) PROVE Versioned'
  BY <1>2, <1>5 DEF Repair, Die
<1>6. CASE CheckAndCompleteFields \/ CheckAndCompleteComponent
  BY <1>5, <1>6 DEF CheckAndCompleteFields, CheckAndCompleteComponent
<1>7. CASE DoBackUpDB
  <2>1. pc = "backup" /\ pc' = "opened" /\ (bak' = bak \/ bak' = db)
    BY <1>7 DEF DoBackUpDB
  <2>2. db.version > 0
    BY <1>1, <2>1 DEF InOnOpen
  <2> QED BY <2>1, <2>2 DEF Versioned
<1>8. CASE Serve
  <2>1. pc = "opened" /\ UNCHANGED <<db, bak>>
    BY <1>8 DEF Serve
  <2> QED BY <1>1, <2>1 DEF Versioned
<1>9. CASE \E m \in Msgs : Receive(m) \/ Remove(m)
  <2>1. IsFile(db)
    BY DEF UpgradeInv
  <2>2. bak' = bak /\ pc = "ready" /\ db'.version = db.version
    BY <1>9, <2>1 DEF Receive, Remove, IsFile
  <2> QED BY <1>3, <2>2
<1>10. CASE TryRestore
  BY <1>10 DEF TryRestore, Versioned
<1>11. CASE Damage \/ UNCHANGED vars
  <2>1. UNCHANGED <<db, bak, pc>>
    BY <1>11 DEF Damage, vars, opening
  <2> QED BY <2>1 DEF Versioned
<1>12. CASE Close \/ Crash
  BY <1>2, <1>12 DEF Close, Crash, Die
<1>13. ASSUME Proceed PROVE pc' # "ready"
  BY <1>13 DEF Proceed
<1>14. CASE OnCreate \/ OnDowngrade \/ SetVersion \/ OnOpenOther \/ OnOpenNoVersion \/ OnOpen
  BY <1>2, <1>14 DEF OnCreate, OnDowngrade, SetVersion, OnOpenOther, OnOpenNoVersion, OnOpen, Die
<1>15. CASE \/ \E p \in 1..VERSION[store] : VersionUpTo(p)
            \/ VersionUpToTwelve \/ PdpUpToFour
  BY <1>2, <1>13, <1>15 DEF VersionUpTo, VersionUpToTwelve, PdpUpToFour, GoOn, Die
<1>16. CASE RcsInfoInsertSmsMmsInfo \/ CreateFavoriteTable \/ GetHistoryFavoriteItem \/ VersionUpTo26
  BY <1>2, <1>13, <1>16 DEF RcsInfoInsertSmsMmsInfo, CreateFavoriteTable, GetHistoryFavoriteItem,
         VersionUpTo26, GoOn, Die
<1> QED BY <1>4, <1>6, <1>7, <1>8, <1>9, <1>10, <1>11, <1>12, <1>14, <1>15, <1>16 DEF Next

LEMMA CarryNext == UpgradeInv /\ Versioned /\ CarryInv /\ [Next]_vars => CarryInv'
<1> SUFFICES ASSUME UpgradeInv, Versioned, CarryInv, [Next]_vars, store' = "sms_mms" PROVE CarryInv'
  BY DEF CarryInv
<1>1. store = "sms_mms"
  <2>1. store' = store
    BY DEF Next, vars, Open, OnCreate, OnDowngrade, SetVersion, VersionUpTo, VersionUpToTwelve,
           RcsInfoInsertSmsMmsInfo, CreateFavoriteTable, GetHistoryFavoriteItem, VersionUpTo26, PdpUpToFour,
           OnOpenOther, OnOpenNoVersion, OnOpen, CheckAndCompleteFields, CheckAndCompleteComponent, Repair,
           DoBackUpDB, Restore, Serve, Receive, Remove, Damage, TryRestore, Close, Crash
  <2> QED BY <2>1
<1>2. CASE \E p \in 1..VERSION[store] : VersionUpTo(p)
  BY <1>1, <1>2, VersionUpToCarries
<1>3. CASE \E m \in Msgs : Receive(m) \/ Remove(m)
  BY <1>1, <1>3, ReceiveCarries, RemoveCarries
<1>4. CASE Open \/ OnCreate \/ OnDowngrade \/ SetVersion
  BY <1>1, <1>4, OpenCarries, OnCreateCarries, OnDowngradeCarries, SetVersionCarries
<1>5. CASE VersionUpToTwelve \/ RcsInfoInsertSmsMmsInfo \/ CreateFavoriteTable
             \/ GetHistoryFavoriteItem \/ VersionUpTo26
  BY <1>1, <1>5, TwelveCarries, CopyCarries, FavoriteCarries, HistoryCarries, OrphansCarry
<1>6. ~PdpUpToFour /\ ~OnOpenOther
  BY <1>1 DEF PdpUpToFour, OnOpenOther
<1>7. CASE OnOpenNoVersion \/ OnOpen \/ DoBackUpDB
  BY <1>1, <1>7, OnOpenNoVersionCarries, OnOpenCarries, DoBackUpDBCarries
<1>8. CASE CheckAndCompleteFields
  <2> PICK unseen \in Unseen(CheckedFields) : Repair(Fields(unseen), unseen, "components")
    BY <1>8 DEF CheckAndCompleteFields
  <2> QED BY <1>1, <1>8, MildFields, RepairCarries DEF CheckAndCompleteFields
<1>9. CASE CheckAndCompleteComponent
  <2> PICK unseen \in Unseen(CheckedComponents) : Repair(Components(unseen), unseen, "backup")
    BY <1>9 DEF CheckAndCompleteComponent
  <2> QED BY <1>1, <1>9, MildComponents, RepairCarries DEF CheckAndCompleteComponent
<1>10. CASE Restore \/ TryRestore \/ Serve \/ Damage \/ Close \/ Crash
  BY <1>1, <1>10, RestoreCarries, TryRestoreCarries, QuietCarries, CrashCarries
<1>11. CASE UNCHANGED vars
  <2>1. UNCHANGED <<store, db, bak, pc, at, flaws>>
    BY <1>11 DEF vars, opening, history
  <2>2. (Beyond(12)' <=> Beyond(12)) /\ (Beyond(34)' <=> Beyond(34)) /\ (AboutToCopy' <=> AboutToCopy)
        /\ (AboutToFill' <=> AboutToFill)
    BY <2>1 DEF Beyond, AboutToCopy, AboutToFill
  <2>3. Beyond(12) \in BOOLEAN /\ Beyond(34) \in BOOLEAN /\ Beyond(12)' \in BOOLEAN /\ Beyond(34)' \in BOOLEAN
    BY DEF Beyond
  <2>4. (ListedOnce(db', flaws', Beyond(12)') <=> ListedOnce(db, flaws, Beyond(12)))
        /\ (MarkedOnce(db', flaws', Beyond(34)') <=> MarkedOnce(db, flaws, Beyond(34)))
    BY <2>1, <2>2, <2>3 DEF ListedOnce, MarkedOnce
  <2> QED BY <2>1, <2>2, <2>4 DEF CarryInv
<1> QED BY <1>2, <1>3, <1>4, <1>5, <1>6, <1>7, <1>8, <1>9, <1>10, <1>11 DEF Next

-----------------------------------------------------------------------------
(* The files that are found.                                               *)
LEMMA FoundCarried ==
  ASSUME NEW v \in Nat, NEW p \in Nat, v <= p, v > 0, NEW b12 \in BOOLEAN, NEW b34 \in BOOLEAN,
         b12 => v >= 12, b34 => v >= 34
  PROVE  /\ Sound(Found("sms_mms", v, p), {}) /\ ListedOnce(Found("sms_mms", v, p), {}, b12)
         /\ MarkedOnce(Found("sms_mms", v, p), {}, b34)
<1> DEFINE d == Found("sms_mms", v, p)
<1>1. /\ d.version = v /\ (RcsLink \in d.schema <=> p >= 12) /\ (Table(Fav) \in d.schema <=> p >= 23)
      /\ d.rcs = RcsMsgs \ Later
      /\ d.rows = [m \in Msgs |-> IF m \notin Later /\ (m \in RcsMsgs => p >= 12) THEN 1 ELSE 0]
      /\ d.fav = [m \in Msgs |-> IF m \in Marked /\ p >= 23 THEN 1 ELSE 0]
  BY FoundFile
<1> HIDE DEF d
<1>2. RcsMsgs \subseteq Msgs /\ Marked \subseteq Msgs
  BY SchemaAssumption DEF Marked
<1>3. (b12 => p >= 12) /\ (b34 => p >= 23) /\ (p >= 23 => p >= 12) /\ v # 0
  OBVIOUS
<1>4. Sound(d, {})
  BY <1>1, <1>2, <1>3 DEF Sound
<1>5. ListedOnce(d, {}, b12)
  BY <1>1, <1>2, <1>3 DEF ListedOnce
<1>6. MarkedOnce(d, {}, b34)
  BY <1>1, <1>2, <1>3 DEF MarkedOnce
<1> QED BY <1>4, <1>5, <1>6 DEF d

LEMMA CarryInit == Init => Versioned /\ CarryInv
<1> SUFFICES ASSUME Init PROVE Versioned /\ CarryInv
  OBVIOUS
<1>1. PICK start \in Starts : store = start[1] /\ db = Found(start[1], start[2], start[3])
  BY DEF Init
<1>2. start \in Stores \X Nat \X Nat /\ start[2] <= start[3]
  BY <1>1, SchemaAssumption
<1>3. store \in Stores /\ start[2] \in Nat /\ start[3] \in Nat /\ db.version = start[2]
  BY <1>1, <1>2, ReleasedFile
<1>4. pc = "closed" /\ at = 1 /\ flaws = {}
  BY DEF Init
<1>5. bak = NoBackup \/ (store = "sms_mms" /\ db.version > 0 /\ bak = Found(store, db.version, db.version))
  BY DEF Init
<1>6. bak = NoBackup \/ bak.version = db.version
  BY <1>3, <1>5, ReleasedFile
<1>7. Versioned
  BY <1>4, <1>5, <1>6 DEF Versioned
<1>8. ASSUME store = "sms_mms" PROVE CarryInv
  <2>1. VERSION[store] = 35 /\ (Beyond(12) <=> db.version >= 12) /\ (Beyond(34) <=> db.version >= 34)
    BY <1>4, <1>8, Version35 DEF Beyond
  <2>2. Beyond(12) \in BOOLEAN /\ Beyond(34) \in BOOLEAN
    BY DEF Beyond
  <2>3. Sound(db, flaws) /\ ListedOnce(db, flaws, Beyond(12)) /\ MarkedOnce(db, flaws, Beyond(34))
    <3>1. CASE start[2] = 0
      <4>1. db = Empty
        BY <1>1, <3>1 DEF Found
      <4> QED BY <2>2, <4>1, EmptyCarried
    <3>2. CASE start[2] # 0
      <4>1. db = Found("sms_mms", start[2], start[3]) /\ start[2] > 0
        BY <1>1, <1>3, <1>8, <3>2
      <4> QED BY <1>2, <1>3, <1>4, <2>1, <2>2, <4>1, FoundCarried
    <3> QED BY <3>1, <3>2
  <2>4. Sound(bak, flaws) /\ ListedOnce(bak, flaws, bak.version >= 12) /\ MarkedOnce(bak, flaws, bak.version >= 34)
    <3> DEFINE v == db.version
    <3>1. (bak.version >= 12) \in BOOLEAN /\ (bak.version >= 34) \in BOOLEAN
      OBVIOUS
    <3>2. CASE bak = NoBackup
      BY <3>1, <3>2, EmptyCarried
    <3>3. CASE bak = Found("sms_mms", v, v) /\ v > 0 /\ bak.version = v
      <4>1. v \in Nat /\ v <= v
        BY <1>3
      <4> HIDE DEF v
      <4> QED BY <1>4, <3>1, <3>3, <4>1, FoundCarried
    <3> QED BY <1>5, <1>6, <1>8, <3>2, <3>3
  <2> QED BY <1>4, <2>1, <2>3, <2>4 DEF CarryInv
<1> QED BY <1>7, <1>8 DEF CarryInv

(* What rows of rcs_info and favourites have become at every point of      *)
(* every opening, whatever failed before.                                  *)
THEOREM UpgradeCarries == Spec => []CarryInv
<1>1. Init => UpgradeInv /\ Versioned /\ CarryInv
  BY UpgradeInit, CarryInit
<1>2. UpgradeInv /\ Versioned /\ CarryInv /\ [Next]_vars => UpgradeInv' /\ Versioned' /\ CarryInv'
  BY UpgradeNext, VersionedNext, CarryNext
<1> QED BY <1>1, <1>2, PTL DEF Spec

LEMMA BeyondCurrent == ASSUME db.version = 35 PROVE Beyond(12) /\ Beyond(34)
BY DEF Beyond

(* A message of rcs_info is in sms_mms_info once in an upgraded store.     *)
THEOREM RcsCarriedOnce == Spec => []RcsListedOnce
<1>1. UpgradeInv /\ CarryInv => RcsListedOnce
  <2> SUFFICES ASSUME UpgradeInv, CarryInv, pc = "ready", store = "sms_mms", db.version = VERSION[store],
                      flaws \intersect {"rcs copy", "rcs twice", "orphans"} = {}
               PROVE  \A m \in db.rcs : db.rows[m] = 1
    BY DEF RcsListedOnce
  <2>1. ListedOnce(db, flaws, Beyond(12))
    BY CarryTyped
  <2>2. Beyond(12)
    <3>1. db.version = 35
      BY CarryTyped
    <3> QED BY <3>1, BeyondCurrent
  <2> QED BY <2>1, <2>2 DEF ListedOnce
<1> QED BY <1>1, UpgradeIsSafe, UpgradeCarries, PTL

(* A favourite of before the table of favourites is in that table once.    *)
THEOREM FavouritesCarried == Spec => []FavouritesCarriedOnce
<1>1. UpgradeInv /\ CarryInv => FavouritesCarriedOnce
  <2> SUFFICES ASSUME UpgradeInv, CarryInv, pc = "ready", store = "sms_mms", db.version = VERSION[store],
                      flaws \intersect {"favourites", "rcs twice"} = {}
               PROVE  \A m \in Marked \intersect Held(db) : db.fav[m] = 1
    BY DEF FavouritesCarriedOnce, Marked
  <2>1. MarkedOnce(db, flaws, Beyond(34))
    BY CarryTyped
  <2>2. Beyond(34)
    <3>1. db.version = 35
      BY CarryTyped
    <3> QED BY <3>1, BeyondCurrent
  <2> QED BY <2>1, <2>2 DEF MarkedOnce
<1> QED BY <1>1, UpgradeIsSafe, UpgradeCarries, PTL

(* The statements of a list, what they drop and make.                      *)
Items(stmts) == {stmts[i] : i \in DOMAIN stmts}
Drops(S) == UNION {s.drop : s \in S}
Makes(S) == UNION {s.make : s \in S}

(* Statements that, once all were run, leave w there: the one that makes   *)
(* it is not kept from it, or by nothing that the others do not drop.      *)
Brings(S, w) ==
  \E s \in S : w \in s.make
               /\ (s.unless \subseteq {w} \/ \E d \in S : s.unless \union {w} \subseteq d.drop)

(* A step that brings what it makes and makes again what it drops.         *)
Tidy(stmts) ==
  /\ IsSeq(stmts)
  /\ \A w \in Makes(Items(stmts)) : Brings(Items(stmts), w)
  /\ Drops(Items(stmts)) \subseteq Makes(Items(stmts)) \union OldTriggers

LEMMA MadeIs == \A stmts : Made(stmts) = Makes(Items(stmts))
BY DEF Made, Makes, Items

LEMMA RanItems ==
  ASSUME NEW stmts, IsSeq(stmts), NEW o \in Outcomes(stmts)
  PROVE  Ran(stmts, o) \subseteq Items(stmts)
BY RanOf DEF Items

(* A statement that was not run, although the list was, is the one that    *)
(* failed.                                                                 *)
LEMMA RunsAll ==
  ASSUME NEW stmts, IsSeq(stmts), NEW o \in Outcomes(stmts), ~Cut(stmts, o), NEW s \in Items(stmts)
  PROVE  s \in Ran(stmts, o) \/ s.make \union s.drop \subseteq Unmade(stmts, o)
<1>1. Len(stmts) \in Nat /\ DOMAIN stmts = 1..Len(stmts)
  BY DEF IsSeq
<1>2. o[1] = Len(stmts)
  BY <1>1 DEF Outcomes, Cut
<1>3. PICK i \in 1..Len(stmts) : s = stmts[i]
  BY <1>1 DEF Items
<1>4. CASE i = o[2]
  <2>1. o[2] > 0
    BY <1>3, <1>4
  <2> QED BY <1>3, <1>4, <2>1 DEF Unmade
<1>5. CASE i # o[2]
  BY <1>2, <1>3, <1>5 DEF Ran
<1> QED BY <1>4, <1>5

LEMMA RunBrings ==
  ASSUME NEW stmts, IsSeq(stmts), NEW o \in Outcomes(stmts), ~Cut(stmts, o),
         NEW w, Brings(Items(stmts), w)
  PROVE  w \in Executed(db.schema, Ran(stmts, o)) \union Unmade(stmts, o)
<1> DEFINE R == Ran(stmts, o)
           S == Items(stmts)
           U == Unmade(stmts, o)
<1>1. /\ \A s \in S : s \in R \/ s.make \union s.drop \subseteq U
      /\ Refused(db.schema, R) \subseteq U
  BY RunsAll DEF Unmade
<1>2. PICK s \in S : /\ w \in s.make
                     /\ s.unless \subseteq {w} \/ \E d \in S : s.unless \union {w} \subseteq d.drop
  BY DEF Brings
<1> HIDE DEF R, S, U
<1>3. SUFFICES ASSUME w \notin U PROVE w \in Executed(db.schema, R)
  BY DEF R, U
<1>4. s \in R
  BY <1>1, <1>2, <1>3
<1>5. s.on \subseteq Ground(db.schema, R)
  BY <1>1, <1>2, <1>3, <1>4 DEF Refused
<1>6. CASE s.unless \intersect Left(db.schema, R) = {}
  <2>1. s \in Effective(db.schema, R)
    BY <1>4, <1>5, <1>6 DEF Effective, Able
  <2> QED BY <1>2, <2>1 DEF Executed
<1>7. CASE s.unless \intersect Left(db.schema, R) # {}
  <2>1. CASE s.unless \subseteq {w}
    BY <1>7, <2>1 DEF Executed
  <2>2. CASE \E d \in S : s.unless \union {w} \subseteq d.drop
    <3>1. PICK d \in S : s.unless \union {w} \subseteq d.drop
      BY <2>2
    <3>2. d \in R
      BY <1>1, <1>3, <3>1
    <3>3. s.unless \intersect Left(db.schema, R) = {}
      BY <3>1, <3>2 DEF Left
    <3> QED BY <1>7, <3>3
  <2> QED BY <1>2, <2>1, <2>2
<1> QED BY <1>6, <1>7

LEMMA RunKeeps ==
  ASSUME NEW stmts, IsSeq(stmts), NEW o \in Outcomes(stmts), NEW schema,
         NEW w \in schema, w \notin Drops(Items(stmts))
  PROVE  w \in Executed(schema, Ran(stmts, o))
<1>1. \A s \in Ran(stmts, o) : w \notin s.drop
  BY RanItems DEF Drops
<1> QED BY <1>1, KeepsThing

LEMMA RunMakesNot ==
  ASSUME NEW stmts, IsSeq(stmts), NEW o \in Outcomes(stmts), NEW schema,
         NEW w, w \notin schema, w \notin Makes(Items(stmts))
  PROVE  w \notin Executed(schema, Ran(stmts, o))
<1>1. \A s \in Ran(stmts, o) : w \notin s.make
  BY RanItems DEF Makes
<1> QED BY <1>1, MakesNoThing

(* The view and its columns come and go together.                          *)
ViewObjects == {View} \union Columns("mms_info", UpgradedView)
ViewTogether(S) ==
  \A s \in S : /\ View \in s.make => ViewObjects \subseteq s.make
               /\ s.drop \intersect ViewObjects # {} => View \in s.drop
ViewWhole(schema, gone) == View \in schema => ViewObjects \subseteq schema \union gone

LEMMA RunView ==
  ASSUME NEW stmts, IsSeq(stmts), NEW o \in Outcomes(stmts), NEW schema, NEW gone,
         ViewTogether(Items(stmts)), ViewWhole(schema, gone)
  PROVE  ViewWhole(Executed(schema, Ran(stmts, o)), gone)
<1> DEFINE R == Ran(stmts, o)
<1>1. \A s \in R : /\ View \in s.make => ViewObjects \subseteq s.make
                   /\ s.drop \intersect ViewObjects # {} => View \in s.drop
  BY RanItems DEF ViewTogether
<1> HIDE DEF R
<1> SUFFICES ASSUME View \in Executed(schema, R)
             PROVE  ViewObjects \subseteq Executed(schema, R) \union gone
  BY DEF ViewWhole, R
<1>2. CASE \E s \in Effective(schema, R) : View \in s.make
  <2>1. PICK s \in Effective(schema, R) : View \in s.make
    BY <1>2
  <2>2. s \in R
    BY <2>1 DEF Effective, Able
  <2> QED BY <1>1, <2>1, <2>2 DEF Executed
<1>3. CASE View \in Left(schema, R)
  <2>1. View \in schema /\ \A s \in R : s.drop \intersect ViewObjects = {}
    BY <1>1, <1>3 DEF Left
  <2>2. ViewObjects \subseteq schema \union gone
    BY <2>1 DEF ViewWhole
  <2>3. ViewObjects \subseteq Left(schema, R) \union gone
    BY <2>1, <2>2 DEF Left
  <2> QED BY <2>3 DEF Executed
<1> QED BY <1>2, <1>3 DEF Executed

(* Joining lists.                                                          *)
LEMMA ItemsJoin ==
  ASSUME NEW s, NEW t, IsSeq(s), IsSeq(t)
  PROVE  IsSeq(s \o t) /\ Items(s \o t) = Items(s) \union Items(t)
<1> DEFINE X == Items(s) \union Items(t)
           u == s \o t
<1>1. /\ Len(s) \in Nat /\ DOMAIN s = 1..Len(s) /\ s = [i \in 1..Len(s) |-> s[i]]
      /\ Len(t) \in Nat /\ DOMAIN t = 1..Len(t) /\ t = [i \in 1..Len(t) |-> t[i]]
  BY DEF IsSeq
<1>2. s \in Seq(X) /\ t \in Seq(X)
  BY <1>1 DEF Items
<1> HIDE DEF X
<1>3. u \in Seq(X) /\ Len(u) = Len(s) + Len(t)
      /\ \A i \in 1..Len(u) : u[i] = IF i <= Len(s) THEN s[i] ELSE t[i - Len(s)]
  BY <1>2, ConcatProperties
<1> HIDE DEF u
<1>4. DOMAIN u = 1..(Len(s) + Len(t)) /\ u = [i \in 1..Len(u) |-> u[i]]
  BY <1>3
<1>5. ASSUME NEW j \in DOMAIN s PROVE s[j] \in Items(u)
  <2>1. j \in DOMAIN u /\ u[j] = s[j]
    BY <1>1, <1>3, <1>4
  <2> QED BY <2>1 DEF Items
<1>6. ASSUME NEW j \in DOMAIN t PROVE t[j] \in Items(u)
  <2>1. (j + Len(s)) \in DOMAIN u /\ u[j + Len(s)] = t[j]
    BY <1>1, <1>3, <1>4
  <2> QED BY <2>1 DEF Items
<1>7. Items(u) \subseteq X
  BY <1>3, <1>4 DEF Items
<1>8. IsSeq(u)
  <2> DEFINE U == {u[i] : i \in DOMAIN u}
  <2>1. Len(u) \in Nat /\ DOMAIN u = 1..Len(u)
    BY <1>3, <1>4
  <2>2. \A i \in 1..Len(u) : u[i] \in U
    BY <2>1
  <2> HIDE DEF U
  <2>3. u \in Seq(U)
    BY <1>4, <2>1, <2>2
  <2> QED BY <2>3 DEF IsSeq, U
<1>9. Items(u) = Items(s) \union Items(t)
  BY <1>5, <1>6, <1>7 DEF Items, X
<1> QED BY <1>8, <1>9 DEF u

LEMMA TidyJoin == ASSUME NEW s, NEW t, Tidy(s), Tidy(t) PROVE Tidy(s \o t)
<1> DEFINE S == Items(s)
           T == Items(t)
<1>1. IsSeq(s \o t) /\ Items(s \o t) = S \union T
  BY ItemsJoin DEF Tidy
<1>2. /\ \A w \in Makes(S) : Brings(S, w)
      /\ \A w \in Makes(T) : Brings(T, w)
      /\ Drops(S) \subseteq Makes(S) \union OldTriggers
      /\ Drops(T) \subseteq Makes(T) \union OldTriggers
  BY DEF Tidy
<1> HIDE DEF S, T
<1>3. Makes(S \union T) = Makes(S) \union Makes(T) /\ Drops(S \union T) = Drops(S) \union Drops(T)
  BY DEF Makes, Drops
<1>4. \A w : Brings(S, w) \/ Brings(T, w) => Brings(S \union T, w)
  BY DEF Brings
<1> QED BY <1>1, <1>2, <1>3, <1>4 DEF Tidy

LEMMA MadeJoin ==
  ASSUME NEW s, NEW t, IsSeq(s), IsSeq(t) PROVE Made(s \o t) = Made(s) \union Made(t)
<1>1. Items(s \o t) = Items(s) \union Items(t)
  BY ItemsJoin
<1> QED BY <1>1, MadeIs DEF Makes

-----------------------------------------------------------------------------
(* What the steps make.                                                    *)
Does(stmts, M) == Tidy(stmts) /\ Made(stmts) = M

LEMMA DoesJoin ==
  ASSUME NEW s, NEW t, NEW M, NEW N, Does(s, M), Does(t, N) PROVE Does(s \o t, M \union N)
<1>1. IsSeq(s) /\ IsSeq(t)
  BY DEF Does, Tidy
<1> QED BY <1>1, TidyJoin, MadeJoin DEF Does

LEMMA OneItem == ASSUME NEW a PROVE IsSeq(<<a>>) /\ Items(<<a>>) = {a}
BY DEF IsSeq, Items
LEMMA TwoItems == ASSUME NEW a, NEW b PROVE IsSeq(<<a, b>>) /\ Items(<<a, b>>) = {a, b}
BY DEF IsSeq, Items
LEMMA DoesNothing == Does(<<>>, {})
<1>1. IsSeq(<<>>) /\ Items(<<>>) = {}
  BY DEF IsSeq, Items
<1> QED BY <1>1, MadeIs DEF Does, Tidy, Makes, Drops

LEMMA DoesColumns ==
  ASSUME NEW t, NEW names, names \in Seq({names[i] : i \in DOMAIN names})
  PROVE  Does(AddColumns(t, names), Columns(t, {names[i] : i \in DOMAIN names}))
<1> DEFINE N == {names[i] : i \in DOMAIN names}
           stmts == AddColumns(t, names)
<1>1. DOMAIN names = 1..Len(names) /\ Len(names) \in Nat
  OBVIOUS
<1>2. stmts = [i \in 1..Len(names) |-> AddColumn(t, names[i])]
  BY <1>1 DEF AddColumns
<1> HIDE DEF stmts
<1>3. DOMAIN stmts = 1..Len(names) /\ \A i \in DOMAIN stmts : stmts[i] = AddColumn(t, names[i])
  BY <1>2
<1>4. IsSeq(stmts)
  BY <1>1, <1>2, <1>3 DEF IsSeq
<1>5. Items(stmts) = {AddColumn(t, n) : n \in N}
  BY <1>1, <1>3 DEF Items
<1>6. \A n : AddColumn(t, n).make = {<<t, n>>} /\ AddColumn(t, n).drop = {} /\ AddColumn(t, n).unless = {}
  BY DEF AddColumn, Statement
<1> HIDE DEF N
<1>7. Drops(Items(stmts)) = {} /\ \A w \in Makes(Items(stmts)) : Brings(Items(stmts), w)
  BY <1>5, <1>6 DEF Drops, Makes, Brings
<1>8. Makes(Items(stmts)) = {<<t, n>> : n \in N}
  BY <1>5, <1>6 DEF Makes
<1>9. {<<t, n>> : n \in N} = Columns(t, N)
  BY DEF Columns
<1> QED BY <1>4, <1>7, <1>8, <1>9, MadeIs DEF Does, Tidy, stmts, N

LEMMA DoesOne == ASSUME NEW t, NEW a PROVE Does(AddColumns(t, <<a>>), Columns(t, {a}))
<1> DEFINE names == <<a>>
<1>1. {names[i] : i \in DOMAIN names} = {a} /\ names \in Seq({names[i] : i \in DOMAIN names})
  OBVIOUS
<1> HIDE DEF names
<1>2. Does(AddColumns(t, names), Columns(t, {a}))
  BY <1>1, DoesColumns
<1> QED BY <1>2 DEF names

LEMMA DoesTwo == ASSUME NEW t, NEW a, NEW b PROVE Does(AddColumns(t, <<a, b>>), Columns(t, {a, b}))
<1> DEFINE names == <<a, b>>
<1>1. {names[i] : i \in DOMAIN names} = {a, b} /\ names \in Seq({names[i] : i \in DOMAIN names})
  OBVIOUS
<1> HIDE DEF names
<1>2. Does(AddColumns(t, names), Columns(t, {a, b}))
  BY <1>1, DoesColumns
<1> QED BY <1>2 DEF names

LEMMA DoesThree ==
  ASSUME NEW t, NEW a, NEW b, NEW c PROVE Does(AddColumns(t, <<a, b, c>>), Columns(t, {a, b, c}))
<1> DEFINE names == <<a, b, c>>
<1>1. {names[i] : i \in DOMAIN names} = {a, b, c} /\ names \in Seq({names[i] : i \in DOMAIN names})
  OBVIOUS
<1> HIDE DEF names
<1>2. Does(AddColumns(t, names), Columns(t, {a, b, c}))
  BY <1>1, DoesColumns
<1> QED BY <1>2 DEF names

BlockedNames == {"is_blocked", "blocked_reason", "blocked_sources", "blocked_type", "blocked_type_text"}
LEMMA DoesBlocked ==
  /\ Does(AddColumns(Sms, <<"is_blocked">> \o Blocked), Columns(Sms, BlockedNames))
  /\ Does(AddColumns(Rcs, Blocked), Columns(Rcs, BlockedNames))
<1> DEFINE names == Blocked
           first == <<"is_blocked">>
           more == first \o names
<1>1. Items(names) = BlockedNames /\ IsSeq(names) /\ Items(first) = {"is_blocked"} /\ IsSeq(first)
  BY DEF Items, Blocked, BlockedNames, IsSeq
<1> HIDE DEF names, first
<1>2. IsSeq(more) /\ Items(more) = {"is_blocked"} \union BlockedNames
  BY <1>1, ItemsJoin
<1> HIDE DEF more
<1>3. {more[i] : i \in DOMAIN more} = BlockedNames /\ {names[i] : i \in DOMAIN names} = BlockedNames
  BY <1>1, <1>2 DEF Items, BlockedNames
<1>4. names \in Seq({names[i] : i \in DOMAIN names}) /\ more \in Seq({more[i] : i \in DOMAIN more})
  BY <1>1, <1>2 DEF IsSeq
<1>5. Does(AddColumns(Sms, more), Columns(Sms, BlockedNames))
     /\ Does(AddColumns(Rcs, names), Columns(Rcs, BlockedNames))
  <2>1. Does(AddColumns(Sms, more), Columns(Sms, {more[i] : i \in DOMAIN more}))
    BY <1>4, DoesColumns
  <2>2. Does(AddColumns(Rcs, names), Columns(Rcs, {names[i] : i \in DOMAIN names}))
    BY <1>4, DoesColumns
  <2> QED BY <1>3, <2>1, <2>2
<1> QED BY <1>5 DEF more, first, names

(* An object that is dropped and made again; a table, which alone is       *)
(* created unless it exists.                                               *)
LEMMA DoesAgain ==
  ASSUME NEW x, x.unless = {}, x.drop = {} PROVE Does(<<Drop(x.make), x>>, x.make)
<1> DEFINE d == Drop(x.make)
<1>1. d.drop = x.make /\ d.make = {} /\ IsSeq(<<d, x>>) /\ Items(<<d, x>>) = {d, x}
  BY TwoItems DEF Drop, Statement
<1> HIDE DEF d
<1>2. Makes({d, x}) = x.make /\ Drops({d, x}) = x.make
  BY <1>1 DEF Makes, Drops
<1>3. \A w \in x.make : Brings({d, x}, w)
  BY DEF Brings
<1> QED BY <1>1, <1>2, <1>3, MadeIs DEF Does, Tidy, d

LEMMA DoesView == Does(RenewView, ViewObjects)
<1> DEFINE d == DropView
           x == CreateView(UpgradedView)
<1>1. /\ d.drop = ViewObjects /\ d.make = {} /\ x.make = ViewObjects /\ x.drop = {} /\ x.unless = {View}
      /\ View \in ViewObjects
  BY DEF DropView, Drop, CreateView, Statement, ViewObjects
<1>2. IsSeq(RenewView) /\ Items(RenewView) = {d, x}
  BY TwoItems DEF RenewView
<1> HIDE DEF d, x
<1>3. Makes({d, x}) = ViewObjects /\ Drops({d, x}) = ViewObjects
  BY <1>1 DEF Makes, Drops
<1>4. \A w \in ViewObjects : Brings({d, x}, w)
  BY <1>1 DEF Brings
<1> QED BY <1>2, <1>3, <1>4, MadeIs DEF Does, Tidy

LEMMA DoesTable == ASSUME NEW t PROVE Does(<<CreateTable(t, {})>>, {Table(t)})
<1> DEFINE x == CreateTable(t, {})
<1>1. x.make = {Table(t)} /\ x.drop = {} /\ x.unless = {Table(t)}
  BY DEF CreateTable, Statement, Columns
<1>2. IsSeq(<<x>>) /\ Items(<<x>>) = {x}
  BY OneItem
<1> HIDE DEF x
<1>3. Makes({x}) = {Table(t)} /\ Drops({x}) = {} /\ Brings({x}, Table(t))
  BY <1>1 DEF Makes, Drops, Brings
<1> QED BY <1>2, <1>3, MadeIs DEF Does, Tidy, x

(* The steps of the messages.                                              *)
LEMMA ColumnSteps2To4 ==
  /\ Does(Two, Columns(Sms, {"is_advanced_security"}) \union Columns(Rcs, {"is_advanced_security"}))
  /\ Does(Three, Columns(Session, {"contact_id", "contact_name"}))
  /\ Does(Four, Columns(Rcs, {"is_collect", "receive_state", "fail_receive_context"})
                  \union Columns(Sms, {"expires_time", "mms_pdu"}))
BY DoesOne, DoesTwo, DoesThree, DoesJoin DEF Two, Three, Four

LEMMA ViewSteps8To12 ==
  /\ Does(Eight, Columns(Sms, BlockedNames) \union Columns(Rcs, BlockedNames) \union ViewObjects)
  /\ Does(Nine, Columns(Part, {"rcs_id"}) \union Columns(Rcs, {"clur_size", "total_size"}) \union ViewObjects)
  /\ Does(Ten, Columns(Sms, {"risk_url_body", "has_be_reported_as_spam"})
                 \union Columns(Rcs, {"risk_url_body", "has_be_reported_as_spam"})
                 \union ViewObjects \union {Table("risk_url_record")})
  /\ Does(Eleven, Columns(Sms, {"is_report"}) \union Columns(Rcs, {"is_report"}) \union ViewObjects)
  /\ Does(Twelve, Columns(Sms, {"rcs_id"}) \union ViewObjects)
<1>1. Does(Eight, Columns(Sms, BlockedNames) \union Columns(Rcs, BlockedNames) \union ViewObjects)
  BY DoesBlocked, DoesView, DoesJoin DEF Eight
<1>2. Does(Nine, Columns(Part, {"rcs_id"}) \union Columns(Rcs, {"clur_size", "total_size"}) \union ViewObjects)
  BY DoesOne, DoesTwo, DoesView, DoesJoin DEF Nine
<1>3. Does(Ten, Columns(Sms, {"risk_url_body", "has_be_reported_as_spam"})
                  \union Columns(Rcs, {"risk_url_body", "has_be_reported_as_spam"})
                  \union ViewObjects \union {Table("risk_url_record")})
  BY DoesTwo, DoesView, DoesTable, DoesJoin DEF Ten, CreateRiskUrlRecordTable
<1>4. Does(Eleven, Columns(Sms, {"is_report"}) \union Columns(Rcs, {"is_report"}) \union ViewObjects)
  BY DoesOne, DoesView, DoesJoin DEF Eleven
<1>5. Does(Twelve, Columns(Sms, {"rcs_id"}) \union ViewObjects)
  BY DoesOne, DoesView, DoesJoin DEF Twelve
<1> QED BY <1>1, <1>2, <1>3, <1>4, <1>5

LEMMA ViewSteps13To17 ==
  /\ Does(Thirteen, ViewObjects) /\ Does(Fifteen, ViewObjects)
  /\ Does(Fourteen, Columns(Sms, {"detect_res_content"}) \union Columns(Rcs, {"detect_res_content"})
                      \union ViewObjects)
  /\ Does(UpTo16, Columns(Sms, {"phone_number", "format_phone_number"})
                    \union Columns(Rcs, {"phone_number", "format_phone_number"}) \union ViewObjects)
  /\ Does(Seventeen, Columns(Sms, {"msg_code_str"}) \union Columns(Session, {"yellow_page_id"})
                       \union ViewObjects)
<1>1. Does(Thirteen, ViewObjects) /\ Does(Fifteen, ViewObjects)
  BY DoesView DEF Thirteen, Fifteen
<1>2. Does(Fourteen, Columns(Sms, {"detect_res_content"}) \union Columns(Rcs, {"detect_res_content"})
                       \union ViewObjects)
  BY DoesOne, DoesView, DoesJoin DEF Fourteen
<1>3. Does(UpTo16, Columns(Sms, {"phone_number", "format_phone_number"})
                     \union Columns(Rcs, {"phone_number", "format_phone_number"}) \union ViewObjects)
  BY DoesTwo, DoesView, DoesJoin DEF UpTo16, Numbers
<1>4. Does(Seventeen, Columns(Sms, {"msg_code_str"}) \union Columns(Session, {"yellow_page_id"})
                        \union ViewObjects)
  BY DoesOne, DoesView, DoesJoin DEF Seventeen
<1> QED BY <1>1, <1>2, <1>3, <1>4

LEMMA DoesTrigger ==
  ASSUME NEW n, NEW t
  PROVE  Does(<<Drop(CreateTrigger(n, t).make), CreateTrigger(n, t)>>, {Trigger(n)})
<1>1. CreateTrigger(n, t).make = {Trigger(n)} /\ CreateTrigger(n, t).unless = {} /\ CreateTrigger(n, t).drop = {}
  BY DEF CreateTrigger, Statement
<1> DEFINE x == CreateTrigger(n, t)
<1> HIDE DEF x
<1>2. x.make = {Trigger(n)} => Does(<<Drop(x.make), x>>, {Trigger(n)}) \/ x.unless # {} \/ x.drop # {}
  BY DoesAgain
<1> QED BY <1>1, <1>2 DEF x

LEMMA FourItems ==
  ASSUME NEW a, NEW b, NEW c, NEW d
  PROVE  IsSeq(<<a, b, c, d>>) /\ Items(<<a, b, c, d>>) = {a, b, c, d}
BY DEF IsSeq, Items
LEMMA SixItems ==
  ASSUME NEW a, NEW b, NEW c, NEW d, NEW e, NEW f
  PROVE  IsSeq(<<a, b, c, d, e, f>>) /\ Items(<<a, b, c, d, e, f>>) = {a, b, c, d, e, f}
BY DEF IsSeq, Items

(* What a list does depends on its statements only.                        *)
LEMMA SameItems ==
  ASSUME NEW s, NEW t, NEW M, IsSeq(s), Items(s) = Items(t), Does(t, M) PROVE Does(s, M)
BY MadeIs DEF Does, Tidy

LEMMA AgainBoth ==
  ASSUME NEW a, NEW b, NEW c, NEW d, NEW M, NEW N, Does(<<a, b>>, M), Does(<<c, d>>, N)
  PROVE  Does(<<a, b, c, d>>, M \union N)
<1>1. IsSeq(<<a, b, c, d>>) /\ Items(<<a, b, c, d>>) = {a, b, c, d}
      /\ Items(<<a, b>>) = {a, b} /\ Items(<<c, d>>) = {c, d}
      /\ IsSeq(<<a, b>>) /\ IsSeq(<<c, d>>)
  BY TwoItems, FourItems
<1>2. Items(<<a, b>> \o <<c, d>>) = {a, b, c, d}
  BY <1>1, ItemsJoin
<1>3. Does(<<a, b>> \o <<c, d>>, M \union N)
  BY DoesJoin
<1> QED BY <1>1, <1>2, <1>3, SameItems

LEMMA TriggerSteps ==
  Does(UpTo18, InsertTriggers) /\ Does(UpTo20, BlockTriggers)
<1>1. /\ Does(<<Drop(InsertSmsTrigger.make), InsertSmsTrigger>>, {Trigger("insertSms_unread_count")})
      /\ Does(<<Drop(InsertRcsTrigger.make), InsertRcsTrigger>>, {Trigger("insertRcs_unread_count")})
      /\ Does(<<Drop(UpdateBlockSmsTrigger.make), UpdateBlockSmsTrigger>>, {Trigger("updateBlockSms_unread_count")})
      /\ Does(<<Drop(UpdateBlockRcsTrigger.make), UpdateBlockRcsTrigger>>, {Trigger("updateBlockRcs_unread_count")})
  BY DoesTrigger DEF InsertSmsTrigger, InsertRcsTrigger, UpdateBlockSmsTrigger, UpdateBlockRcsTrigger
<1>2. Does(UpTo18, {Trigger("insertSms_unread_count")} \union {Trigger("insertRcs_unread_count")})
  BY <1>1, AgainBoth DEF UpTo18
<1>3. Does(UpTo20, {Trigger("updateBlockSms_unread_count")} \union {Trigger("updateBlockRcs_unread_count")})
  BY <1>1, AgainBoth DEF UpTo20
<1>4. /\ InsertTriggers = {Trigger("insertSms_unread_count")} \union {Trigger("insertRcs_unread_count")}
      /\ BlockTriggers = {Trigger("updateBlockSms_unread_count")} \union {Trigger("updateBlockRcs_unread_count")}
  BY DEF InsertTriggers, BlockTriggers
<1> QED BY <1>2, <1>3, <1>4

IndexNames == {"rcs_info_sessionId_IDX", "sms_mms_info_sessionId_IDX", "session_time_IDX"}
LEMMA IndexesAre == Indexes = {Index(n) : n \in IndexNames}
BY DEF Indexes, RcsIndex, SmsIndex, SessionIndex, CreateIndex, Statement, IndexNames

LEMMA DoesIndexes == Does(RenewIndexes, Indexes)
<1> DEFINE a == Drop(RcsIndex.make)
           b == Drop(SmsIndex.make)
           c == Drop(SessionIndex.make)
<1>1. /\ Does(<<a, RcsIndex>>, RcsIndex.make)
      /\ Does(<<b, SmsIndex>>, SmsIndex.make)
      /\ Does(<<c, SessionIndex>>, SessionIndex.make)
  <2>1. /\ RcsIndex.unless = {} /\ RcsIndex.drop = {} /\ SmsIndex.unless = {} /\ SmsIndex.drop = {}
        /\ SessionIndex.unless = {} /\ SessionIndex.drop = {}
    BY DEF RcsIndex, SmsIndex, SessionIndex, CreateIndex, Statement
  <2> QED BY <2>1, DoesAgain
<1> HIDE DEF a, b, c
<1>2. Does(<<a, RcsIndex, b, SmsIndex>>, RcsIndex.make \union SmsIndex.make)
  BY <1>1, AgainBoth
<1>3. Does(<<a, RcsIndex, b, SmsIndex>> \o <<c, SessionIndex>>, Indexes)
  BY <1>1, <1>2, DoesJoin DEF Indexes
<1>4. /\ IsSeq(<<a, RcsIndex, b, SmsIndex>>) /\ IsSeq(<<c, SessionIndex>>)
      /\ Items(<<a, RcsIndex, b, SmsIndex>>) = {a, RcsIndex, b, SmsIndex}
      /\ Items(<<c, SessionIndex>>) = {c, SessionIndex}
  BY TwoItems, FourItems
<1>5. Items(<<a, RcsIndex, b, SmsIndex>> \o <<c, SessionIndex>>) = {a, RcsIndex, b, SmsIndex, c, SessionIndex}
  BY <1>4, ItemsJoin
<1>6. IsSeq(RenewIndexes) /\ Items(RenewIndexes) = {a, RcsIndex, b, SmsIndex, c, SessionIndex}
  BY SixItems DEF RenewIndexes, a, b, c
<1> QED BY <1>3, <1>5, <1>6, SameItems

LEMMA ObsoleteStep == Does(UpTo33, {})
<1> DEFINE a == Drop({Trigger("updateSms_unread_count")})
           b == Drop({Trigger("updateRcs_unread_count")})
<1>1. /\ a.make = {} /\ b.make = {} /\ a.drop \union b.drop = OldTriggers
  BY DEF Drop, Statement, OldTriggers
<1>2. IsSeq(UpTo33) /\ Items(UpTo33) = {a, b}
  BY TwoItems DEF UpTo33
<1> HIDE DEF a, b
<1> QED BY <1>1, <1>2, MadeIs DEF Does, Tidy, Makes, Drops

LEMMA TableSteps ==
  /\ Does(CreateFavorites, {Table(Fav)})
  /\ Does(UpTo24, {Table("specific_chatbots"), Table("chatbots")})
  /\ Does(UpTo25, {Table("smc")})
<1>1. Does(CreateFavorites, {Table(Fav)}) /\ Does(UpTo25, {Table("smc")})
  BY DoesTable DEF CreateFavorites, UpTo25, CreateTableSmcInfo
<1> DEFINE a == CreateTableSpecificChatBotsInfo
           b == CreateTableChatBotsInfo
<1>2. Does(<<a>>, {Table("specific_chatbots")}) /\ Does(<<b>>, {Table("chatbots")})
  BY DoesTable DEF CreateTableSpecificChatBotsInfo, CreateTableChatBotsInfo
<1> HIDE DEF a, b
<1>3. Does(<<a>> \o <<b>>, {Table("specific_chatbots")} \union {Table("chatbots")})
  BY <1>2, DoesJoin
<1>4. IsSeq(<<a>>) /\ IsSeq(<<b>>) /\ Items(<<a>>) = {a} /\ Items(<<b>>) = {b}
      /\ IsSeq(<<a, b>>) /\ Items(<<a, b>>) = {a, b}
  BY OneItem, TwoItems
<1>5. Items(<<a>> \o <<b>>) = Items(<<a, b>>)
  <2>1. Items(<<a>> \o <<b>>) = Items(<<a>>) \union Items(<<b>>)
    BY <1>4, ItemsJoin
  <2> QED BY <1>4, <2>1
<1>6. Does(<<a, b>>, {Table("specific_chatbots")} \union {Table("chatbots")})
  BY <1>3, <1>4, <1>5, SameItems
<1>7. {Table("specific_chatbots")} \union {Table("chatbots")} = {Table("specific_chatbots"), Table("chatbots")}
  OBVIOUS
<1> QED BY <1>1, <1>6, <1>7 DEF UpTo24, a, b

LEMMA ColumnSteps19To35 ==
  /\ Does(UpTo19, Columns(Part, {"ct"}))
  /\ Does(UpTo21, Columns(Sms, {"blocked_pref_number"}) \union Columns(Rcs, {"blocked_pref_number"}) \union ViewObjects)
  /\ Does(UpTo27, Columns(Rcs, {"msg_id"}) \union ViewObjects)
  /\ Does(UpTo28, Columns(Session, {"blocked_type"}))
  /\ Does(UpTo29, Columns(Part, {"is_fraud"}))
  /\ Does(UpTo30, Columns(Sms, {"blocked_pref_number"}) \union Columns(Rcs, {"blocked_pref_number"}) \union ViewObjects)
  /\ Does(UpTo32, Columns(Session, {"pinning_time"}))
  /\ Does(UpTo35, Columns(Part, {"reference_count"}))
<1>1. Does(UpTo19, Columns(Part, {"ct"})) /\ Does(UpTo28, Columns(Session, {"blocked_type"}))
      /\ Does(UpTo29, Columns(Part, {"is_fraud"})) /\ Does(UpTo32, Columns(Session, {"pinning_time"}))
      /\ Does(UpTo35, Columns(Part, {"reference_count"}))
  BY DoesOne DEF UpTo19, UpTo28, UpTo29, UpTo32, UpTo35
<1>2. /\ Does(UpTo21, Columns(Sms, {"blocked_pref_number"}) \union Columns(Rcs, {"blocked_pref_number"})
                        \union ViewObjects)
      /\ Does(UpTo27, Columns(Rcs, {"msg_id"}) \union ViewObjects)
  BY DoesOne, DoesView, DoesJoin DEF UpTo21, UpTo27
<1>3. Does(UpTo30, Columns(Sms, {"blocked_pref_number"}) \union Columns(Rcs, {"blocked_pref_number"})
                        \union ViewObjects)
  BY DoesOne, DoesView, DoesJoin DEF UpTo30
<1> QED BY <1>1, <1>2, <1>3

-----------------------------------------------------------------------------
(* All that a store of the messages consists of: what the first release    *)
(* had and the steps made, and what a creation makes.                      *)
First(s) ==
  CASE s = "sms_mms" ->
         {Table(t) : t \in {Sms, "mms_protocol", Rcs, "sms_subsection", Part, Session, "mms_pdu"}}
    [] s = "sim" -> {Table(Sim), <<Sim, "is_active">>}
    [] s = "pdp_profile" -> {Table(Pdp), Table("pse_base_station"), Trigger("pse_trigger")}
Brought(s, v) == UNION {Made(Steps[s][p]) : p \in 1..v}
All(s) == First(s) \union Brought(s, VERSION[s])

SmsNames ==
  {"is_advanced_security", "expires_time", "mms_pdu", "is_blocked", "blocked_reason",
   "blocked_sources", "blocked_type", "blocked_type_text", "blocked_pref_number",
   "risk_url_body", "has_be_reported_as_spam", "is_report", "rcs_id", "detect_res_content",
   "phone_number", "format_phone_number", "msg_code_str"}
RcsNames ==
  {"msg_id", "is_advanced_security", "is_collect", "receive_state", "fail_receive_context",
   "is_blocked", "blocked_reason", "blocked_sources", "blocked_type", "blocked_type_text",
   "blocked_pref_number", "clur_size", "total_size", "risk_url_body",
   "has_be_reported_as_spam", "is_report", "detect_res_content", "phone_number",
   "format_phone_number"}
PartNames == {"ct", "rcs_id", "is_fraud", "reference_count"}
SessionNames == {"contact_id", "contact_name", "yellow_page_id", "blocked_type", "pinning_time"}
TableNames ==
  {Sms, "mms_protocol", Rcs, "sms_subsection", Part, Session, "mms_pdu", "risk_url_record", Fav,
   "chatbots", "specific_chatbots", "smc"}
AllColumns ==
  Columns(Sms, SmsNames) \union Columns(Rcs, RcsNames) \union Columns(Part, PartNames)
    \union Columns(Session, SessionNames)
AllSms ==
  AllColumns \union {Table(t) : t \in TableNames} \union ViewObjects \union InsertTriggers
    \union BlockTriggers \union Indexes

LEMMA InColumns == \A t, names, X : Columns(t, names) \subseteq X <=> \A n \in names : <<t, n>> \in X
BY DEF Columns

LEMMA MadeBy == \A stmts, M : Does(stmts, M) => Made(stmts) = M
BY DEF Does

LEMMA SmsMade2To7 ==
  /\ Made(SmsSteps[2]) = Columns(Sms, {"is_advanced_security"}) \union Columns(Rcs, {"is_advanced_security"})
  /\ Made(SmsSteps[3]) = Columns(Session, {"contact_id", "contact_name"})
  /\ Made(SmsSteps[4]) = Columns(Rcs, {"is_collect", "receive_state", "fail_receive_context"})
                           \union Columns(Sms, {"expires_time", "mms_pdu"})
  /\ Made(SmsSteps[7]) = ViewObjects
<1>1. Made(Seven) = ViewObjects
  BY OneItem, MadeIs DEF Seven, Makes, CreateView, Statement, ViewObjects
<1>2. SmsSteps[2] = Two /\ SmsSteps[3] = Three /\ SmsSteps[4] = Four /\ SmsSteps[7] = Seven
  BY StepsByNumber
<1> QED BY <1>1, <1>2, ColumnSteps2To4, MadeBy

LEMMA SmsMade8To12 ==
  /\ Made(SmsSteps[8]) = Columns(Sms, BlockedNames) \union Columns(Rcs, BlockedNames) \union ViewObjects
  /\ Made(SmsSteps[9]) = Columns(Part, {"rcs_id"}) \union Columns(Rcs, {"clur_size", "total_size"})
                           \union ViewObjects
  /\ Made(SmsSteps[10]) = Columns(Sms, {"risk_url_body", "has_be_reported_as_spam"})
                            \union Columns(Rcs, {"risk_url_body", "has_be_reported_as_spam"})
                            \union ViewObjects \union {Table("risk_url_record")}
  /\ Made(SmsSteps[11]) = Columns(Sms, {"is_report"}) \union Columns(Rcs, {"is_report"}) \union ViewObjects
  /\ Made(SmsSteps[12]) = Columns(Sms, {"rcs_id"}) \union ViewObjects
<1>1. SmsSteps[12] = Twelve
  BY DEF SmsSteps
<1>2. SmsSteps[8] = Eight /\ SmsSteps[9] = Nine /\ SmsSteps[10] = Ten /\ SmsSteps[11] = Eleven
  BY StepsByNumber
<1> QED BY <1>1, <1>2, ViewSteps8To12, MadeBy

LEMMA SmsMade13To17 ==
  /\ Made(SmsSteps[13]) = ViewObjects /\ Made(SmsSteps[15]) = ViewObjects
  /\ Made(SmsSteps[14]) = Columns(Sms, {"detect_res_content"}) \union Columns(Rcs, {"detect_res_content"})
                            \union ViewObjects
  /\ Made(SmsSteps[16]) = Columns(Sms, {"phone_number", "format_phone_number"})
                            \union Columns(Rcs, {"phone_number", "format_phone_number"}) \union ViewObjects
  /\ Made(SmsSteps[17]) = Columns(Sms, {"msg_code_str"}) \union Columns(Session, {"yellow_page_id"})
                            \union ViewObjects
<1>1. /\ SmsSteps[13] = Thirteen /\ SmsSteps[14] = Fourteen /\ SmsSteps[15] = Fifteen
      /\ SmsSteps[16] = UpTo16 /\ SmsSteps[17] = Seventeen
  BY StepsByNumber
<1> QED BY <1>1, ViewSteps13To17, MadeBy

LEMMA SmsMadeTriggers ==
  /\ Made(SmsSteps[18]) = InsertTriggers /\ Made(SmsSteps[20]) = BlockTriggers
  /\ Made(SmsSteps[22]) = Indexes
<1>1. SmsSteps[18] = UpTo18 /\ SmsSteps[20] = UpTo20 /\ SmsSteps[22] = UpTo22
  BY StepsByNumber
<1>2. UpTo22 = RenewIndexes
  BY DEF UpTo22
<1> QED BY <1>1, <1>2, TriggerSteps, DoesIndexes, MadeBy

LEMMA SmsMadeTables ==
  /\ Made(SmsSteps[23]) = {Table(Fav)} /\ Made(SmsSteps[34]) = {Table(Fav)}
  /\ Made(SmsSteps[24]) = {Table("specific_chatbots"), Table("chatbots")}
  /\ Made(SmsSteps[25]) = {Table("smc")}
<1>1. SmsSteps[23] = CreateFavorites /\ SmsSteps[34] = CreateFavorites
  BY DEF SmsSteps, UpTo34
<1>2. SmsSteps[24] = UpTo24 /\ SmsSteps[25] = UpTo25
  BY StepsByNumber
<1> QED BY <1>1, <1>2, TableSteps, MadeBy

LEMMA SmsMade19To35 ==
  /\ Made(SmsSteps[19]) = Columns(Part, {"ct"})
  /\ Made(SmsSteps[21]) = Columns(Sms, {"blocked_pref_number"}) \union Columns(Rcs, {"blocked_pref_number"})
                            \union ViewObjects
  /\ Made(SmsSteps[27]) = Columns(Rcs, {"msg_id"}) \union ViewObjects
  /\ Made(SmsSteps[28]) = Columns(Session, {"blocked_type"})
  /\ Made(SmsSteps[29]) = Columns(Part, {"is_fraud"})
  /\ Made(SmsSteps[30]) = Columns(Sms, {"blocked_pref_number"}) \union Columns(Rcs, {"blocked_pref_number"})
                            \union ViewObjects
  /\ Made(SmsSteps[32]) = Columns(Session, {"pinning_time"})
  /\ Made(SmsSteps[35]) = Columns(Part, {"reference_count"})
<1>1. /\ SmsSteps[19] = UpTo19 /\ SmsSteps[21] = UpTo21 /\ SmsSteps[27] = UpTo27 /\ SmsSteps[28] = UpTo28
      /\ SmsSteps[29] = UpTo29 /\ SmsSteps[30] = UpTo30 /\ SmsSteps[32] = UpTo32 /\ SmsSteps[35] = UpTo35
  BY StepsByNumber
<1> QED BY <1>1, ColumnSteps19To35, MadeBy

LEMMA SmsMadeNothing == \A p \in {1, 5, 6, 26, 31, 33} : Made(SmsSteps[p]) = {}
<1>1. SmsSteps[1] = <<>>
  BY DEF SmsSteps
<1>2. SmsSteps[5] = <<>> /\ SmsSteps[6] = <<>> /\ SmsSteps[26] = <<>> /\ SmsSteps[31] = UpTo31
      /\ SmsSteps[33] = UpTo33
  BY StepsByNumber
<1>3. UpTo31 = <<>>
  BY DEF UpTo31
<1>4. Made(<<>>) = {} /\ Made(UpTo33) = {}
  BY DoesNothing, ObsoleteStep, MadeBy
<1> QED BY <1>1, <1>2, <1>3, <1>4

LEMMA SevenRuns == IsSeq(Seven) /\ Drops(Items(Seven)) = {}
BY OneItem DEF Seven, Drops, CreateView, Statement

LEMMA TidySmsSteps == \A p \in 2..35 : p # 7 => Tidy(SmsSteps[p])
<1>1. SmsSteps[12] = Twelve /\ SmsSteps[23] = CreateFavorites /\ SmsSteps[34] = CreateFavorites
  BY DEF SmsSteps, UpTo34
<1>2. UpTo31 = <<>> /\ UpTo22 = RenewIndexes
  BY DEF UpTo31, UpTo22
<1>3. /\ Tidy(SmsSteps[2]) /\ Tidy(SmsSteps[3]) /\ Tidy(SmsSteps[4]) /\ Tidy(SmsSteps[5]) /\ Tidy(SmsSteps[6])
      /\ Tidy(SmsSteps[8]) /\ Tidy(SmsSteps[9]) /\ Tidy(SmsSteps[10]) /\ Tidy(SmsSteps[11]) /\ Tidy(SmsSteps[12])
      /\ Tidy(SmsSteps[13]) /\ Tidy(SmsSteps[14]) /\ Tidy(SmsSteps[15]) /\ Tidy(SmsSteps[16]) /\ Tidy(SmsSteps[17])
  <2>1. Tidy(Two) /\ Tidy(Three) /\ Tidy(Four) /\ Tidy(<<>>)
    BY ColumnSteps2To4, DoesNothing DEF Does
  <2>2. Tidy(Eight) /\ Tidy(Nine) /\ Tidy(Ten) /\ Tidy(Eleven) /\ Tidy(Twelve)
    BY ViewSteps8To12 DEF Does
  <2>3. Tidy(Thirteen) /\ Tidy(Fourteen) /\ Tidy(Fifteen) /\ Tidy(UpTo16) /\ Tidy(Seventeen)
    BY ViewSteps13To17 DEF Does
  <2> QED BY <1>1, <2>1, <2>2, <2>3, StepsByNumber
<1>4. /\ Tidy(SmsSteps[18]) /\ Tidy(SmsSteps[19]) /\ Tidy(SmsSteps[20]) /\ Tidy(SmsSteps[21]) /\ Tidy(SmsSteps[22])
      /\ Tidy(SmsSteps[23]) /\ Tidy(SmsSteps[24]) /\ Tidy(SmsSteps[25]) /\ Tidy(SmsSteps[26]) /\ Tidy(SmsSteps[27])
      /\ Tidy(SmsSteps[28]) /\ Tidy(SmsSteps[29]) /\ Tidy(SmsSteps[30]) /\ Tidy(SmsSteps[31]) /\ Tidy(SmsSteps[32])
      /\ Tidy(SmsSteps[33]) /\ Tidy(SmsSteps[34]) /\ Tidy(SmsSteps[35])
  <2>1. Tidy(UpTo18) /\ Tidy(UpTo20) /\ Tidy(RenewIndexes)
    BY TriggerSteps, DoesIndexes DEF Does
  <2>2. Tidy(CreateFavorites) /\ Tidy(UpTo24) /\ Tidy(UpTo25) /\ Tidy(UpTo33) /\ Tidy(<<>>)
    BY TableSteps, ObsoleteStep, DoesNothing DEF Does
  <2>3. /\ Tidy(UpTo19) /\ Tidy(UpTo21) /\ Tidy(UpTo27) /\ Tidy(UpTo28) /\ Tidy(UpTo29)
        /\ Tidy(UpTo30) /\ Tidy(UpTo32) /\ Tidy(UpTo35)
    BY ColumnSteps19To35 DEF Does
  <2> QED BY <1>1, <1>2, <2>1, <2>2, <2>3, StepsByNumber
<1>5. \A p \in 2..35 : \/ p \in {2, 3, 4, 5, 6, 7, 8, 9, 10, 11, 12, 13, 14, 15, 16, 17, 18}
                       \/ p \in {19, 20, 21, 22, 23, 24, 25, 26, 27, 28, 29, 30, 31, 32, 33, 34, 35}
  OBVIOUS
<1> QED BY <1>3, <1>4, <1>5

LEMMA BroughtBy == ASSUME NEW s, NEW v, NEW p \in 1..v PROVE Made(Steps[s][p]) \subseteq Brought(s, v)
BY DEF Brought

LEMMA SmsStepsAre == Steps["sms_mms"] = SmsSteps
BY DEF Steps, Stores

(* By step 30 all columns of the view have come.                           *)
LEMMA SmsColumnsBrought ==
  /\ Columns(Sms, SmsNames) \subseteq Brought("sms_mms", 30)
  /\ Columns(Rcs, RcsNames) \subseteq Brought("sms_mms", 30)
<1> DEFINE X == Brought("sms_mms", 30)
<1>1. \A p \in 1..30 : Made(SmsSteps[p]) \subseteq X
  BY BroughtBy, SmsStepsAre
<1> HIDE DEF X
<1>2. /\ Columns(Sms, {"is_advanced_security"}) \subseteq X /\ Columns(Sms, {"expires_time", "mms_pdu"}) \subseteq X
      /\ Columns(Sms, BlockedNames) \subseteq X
      /\ Columns(Sms, {"risk_url_body", "has_be_reported_as_spam"}) \subseteq X
      /\ Columns(Sms, {"is_report"}) \subseteq X /\ Columns(Sms, {"rcs_id"}) \subseteq X
      /\ Columns(Sms, {"detect_res_content"}) \subseteq X
      /\ Columns(Sms, {"phone_number", "format_phone_number"}) \subseteq X
      /\ Columns(Sms, {"msg_code_str"}) \subseteq X /\ Columns(Sms, {"blocked_pref_number"}) \subseteq X
  <2>1. Columns(Sms, {"is_advanced_security"}) \subseteq X /\ Columns(Sms, {"expires_time", "mms_pdu"}) \subseteq X
    BY <1>1, SmsMade2To7
  <2>2. /\ Columns(Sms, BlockedNames) \subseteq X
        /\ Columns(Sms, {"risk_url_body", "has_be_reported_as_spam"}) \subseteq X
        /\ Columns(Sms, {"is_report"}) \subseteq X /\ Columns(Sms, {"rcs_id"}) \subseteq X
    BY <1>1, SmsMade8To12
  <2>3. /\ Columns(Sms, {"detect_res_content"}) \subseteq X
        /\ Columns(Sms, {"phone_number", "format_phone_number"}) \subseteq X
        /\ Columns(Sms, {"msg_code_str"}) \subseteq X
    BY <1>1, SmsMade13To17
  <2>4. Columns(Sms, {"blocked_pref_number"}) \subseteq X
    BY <1>1, SmsMade19To35
  <2> QED BY <2>1, <2>2, <2>3, <2>4
<1>3. /\ Columns(Rcs, {"is_advanced_security"}) \subseteq X
      /\ Columns(Rcs, {"is_collect", "receive_state", "fail_receive_context"}) \subseteq X
      /\ Columns(Rcs, BlockedNames) \subseteq X /\ Columns(Rcs, {"clur_size", "total_size"}) \subseteq X
      /\ Columns(Rcs, {"risk_url_body", "has_be_reported_as_spam"}) \subseteq X
      /\ Columns(Rcs, {"is_report"}) \subseteq X /\ Columns(Rcs, {"detect_res_content"}) \subseteq X
      /\ Columns(Rcs, {"phone_number", "format_phone_number"}) \subseteq X
      /\ Columns(Rcs, {"blocked_pref_number"}) \subseteq X /\ Columns(Rcs, {"msg_id"}) \subseteq X
  <2>1. /\ Columns(Rcs, {"is_advanced_security"}) \subseteq X
        /\ Columns(Rcs, {"is_collect", "receive_state", "fail_receive_context"}) \subseteq X
    BY <1>1, SmsMade2To7
  <2>2. /\ Columns(Rcs, BlockedNames) \subseteq X /\ Columns(Rcs, {"clur_size", "total_size"}) \subseteq X
        /\ Columns(Rcs, {"risk_url_body", "has_be_reported_as_spam"}) \subseteq X
        /\ Columns(Rcs, {"is_report"}) \subseteq X
    BY <1>1, SmsMade8To12
  <2>3. /\ Columns(Rcs, {"detect_res_content"}) \subseteq X
        /\ Columns(Rcs, {"phone_number", "format_phone_number"}) \subseteq X
    BY <1>1, SmsMade13To17
  <2>4. Columns(Rcs, {"blocked_pref_number"}) \subseteq X /\ Columns(Rcs, {"msg_id"}) \subseteq X
    BY <1>1, SmsMade19To35
  <2> QED BY <2>1, <2>2, <2>3, <2>4
<1>4. \A n \in SmsNames : <<Sms, n>> \in X
  BY <1>2, InColumns DEF SmsNames, BlockedNames
<1>5. \A n \in RcsNames : <<Rcs, n>> \in X
  BY <1>3, InColumns DEF RcsNames, BlockedNames
<1> QED BY <1>4, <1>5, InColumns DEF X

LEMMA BroughtLater == ASSUME NEW s, NEW v \in Nat, NEW w \in Nat, v <= w PROVE Brought(s, v) \subseteq Brought(s, w)
BY DEF Brought

LEMMA AllSmsIs == All("sms_mms") = AllSms
<1> DEFINE X == All("sms_mms")
<1>1. X = First("sms_mms") \union Brought("sms_mms", 35)
  BY Version35 DEF All
<1>2. First("sms_mms") = {Table(t) : t \in {Sms, "mms_protocol", Rcs, "sms_subsection", Part, Session, "mms_pdu"}}
  BY DEF First
<1>3. \A p \in 1..35 : Made(SmsSteps[p]) \subseteq X
  BY <1>1, BroughtBy, SmsStepsAre
<1>4. Columns(Sms, SmsNames) \union Columns(Rcs, RcsNames) \subseteq X
  BY <1>1, SmsColumnsBrought, BroughtLater
<1> HIDE DEF X
<1>5. Columns(Part, PartNames) \subseteq X
  <2>1. /\ Columns(Part, {"ct"}) \subseteq X /\ Columns(Part, {"rcs_id"}) \subseteq X
        /\ Columns(Part, {"is_fraud"}) \subseteq X /\ Columns(Part, {"reference_count"}) \subseteq X
    BY <1>3, SmsMade8To12, SmsMade19To35
  <2>2. \A n \in PartNames : <<Part, n>> \in X
    BY <2>1, InColumns DEF PartNames
  <2> QED BY <2>2, InColumns
<1>6. Columns(Session, SessionNames) \subseteq X
  <2>1. /\ Columns(Session, {"contact_id", "contact_name"}) \subseteq X
        /\ Columns(Session, {"yellow_page_id"}) \subseteq X
        /\ Columns(Session, {"blocked_type"}) \subseteq X /\ Columns(Session, {"pinning_time"}) \subseteq X
    <3>1. Columns(Session, {"contact_id", "contact_name"}) \subseteq X
      BY <1>3, SmsMade2To7
    <3>2. Columns(Session, {"yellow_page_id"}) \subseteq X
      BY <1>3, SmsMade13To17
    <3>3. Columns(Session, {"blocked_type"}) \subseteq X /\ Columns(Session, {"pinning_time"}) \subseteq X
      BY <1>3, SmsMade19To35
    <3> QED BY <3>1, <3>2, <3>3
  <2>2. \A n \in SessionNames : <<Session, n>> \in X
    BY <2>1, InColumns DEF SessionNames
  <2> QED BY <2>2, InColumns
<1>7. ViewObjects \union InsertTriggers \union BlockTriggers \union Indexes \subseteq X
  <2>1. ViewObjects \subseteq X
    BY <1>3, SmsMade2To7
  <2>2. InsertTriggers \subseteq X /\ BlockTriggers \subseteq X /\ Indexes \subseteq X
    BY <1>3, SmsMadeTriggers
  <2> QED BY <2>1, <2>2
<1>8. {Table(t) : t \in TableNames} \subseteq X
  <2>1. {Table("risk_url_record"), Table(Fav), Table("chatbots"), Table("specific_chatbots"), Table("smc")} \subseteq X
    <3>1. Table("risk_url_record") \in X
      BY <1>3, SmsMade8To12
    <3>2. {Table(Fav), Table("chatbots"), Table("specific_chatbots"), Table("smc")} \subseteq X
      BY <1>3, SmsMadeTables
    <3> QED BY <3>1, <3>2
  <2>2. {Table(Sms), Table("mms_protocol"), Table(Rcs), Table("sms_subsection"), Table(Part), Table(Session),
         Table("mms_pdu")} \subseteq X
    BY <1>1, <1>2
  <2> QED BY <2>1, <2>2 DEF TableNames
<1>9. AllSms \subseteq X
  BY <1>4, <1>5, <1>6, <1>7, <1>8 DEF AllSms, AllColumns
<1>10. \A p \in 1..35 : Made(SmsSteps[p]) \subseteq AllSms
  <2> DEFINE Y == AllSms
  <2>1. /\ \A n \in SmsNames : <<Sms, n>> \in Y
        /\ \A n \in RcsNames : <<Rcs, n>> \in Y
        /\ \A n \in PartNames : <<Part, n>> \in Y
        /\ \A n \in SessionNames : <<Session, n>> \in Y
        /\ \A t \in TableNames : Table(t) \in Y
        /\ ViewObjects \subseteq Y /\ InsertTriggers \subseteq Y /\ BlockTriggers \subseteq Y /\ Indexes \subseteq Y
    <3>1. AllColumns \subseteq Y
      BY DEF AllSms
    <3>2. /\ Columns(Sms, SmsNames) \subseteq Y /\ Columns(Rcs, RcsNames) \subseteq Y
          /\ Columns(Part, PartNames) \subseteq Y /\ Columns(Session, SessionNames) \subseteq Y
      <4> HIDE DEF Y
      <4> QED BY <3>1 DEF AllColumns
    <3>3. /\ \A t \in TableNames : Table(t) \in Y
          /\ ViewObjects \subseteq Y /\ InsertTriggers \subseteq Y /\ BlockTriggers \subseteq Y /\ Indexes \subseteq Y
      BY DEF AllSms
    <3> HIDE DEF Y
    <3> QED BY <3>2, <3>3, InColumns
  <2> HIDE DEF Y
  <2>2. /\ Columns(Sms, {"is_advanced_security"}) \subseteq Y /\ Columns(Sms, {"expires_time", "mms_pdu"}) \subseteq Y
        /\ Columns(Sms, BlockedNames) \subseteq Y
        /\ Columns(Sms, {"risk_url_body", "has_be_reported_as_spam"}) \subseteq Y
        /\ Columns(Sms, {"is_report"}) \subseteq Y /\ Columns(Sms, {"rcs_id"}) \subseteq Y
        /\ Columns(Sms, {"detect_res_content"}) \subseteq Y
        /\ Columns(Sms, {"phone_number", "format_phone_number"}) \subseteq Y
        /\ Columns(Sms, {"msg_code_str"}) \subseteq Y /\ Columns(Sms, {"blocked_pref_number"}) \subseteq Y
    <3>1. \A names : names \subseteq SmsNames => Columns(Sms, names) \subseteq Y
      BY <2>1, InColumns
    <3>2. /\ {"is_advanced_security"} \subseteq SmsNames /\ {"expires_time", "mms_pdu"} \subseteq SmsNames
          /\ BlockedNames \subseteq SmsNames /\ {"risk_url_body", "has_be_reported_as_spam"} \subseteq SmsNames
          /\ {"is_report"} \subseteq SmsNames /\ {"rcs_id"} \subseteq SmsNames
      BY DEF SmsNames, BlockedNames
    <3>3. /\ {"detect_res_content"} \subseteq SmsNames /\ {"phone_number", "format_phone_number"} \subseteq SmsNames
          /\ {"msg_code_str"} \subseteq SmsNames /\ {"blocked_pref_number"} \subseteq SmsNames
      BY DEF SmsNames
    <3> QED BY <3>1, <3>2, <3>3
  <2>3. /\ Columns(Rcs, {"is_advanced_security"}) \subseteq Y
        /\ Columns(Rcs, {"is_collect", "receive_state", "fail_receive_context"}) \subseteq Y
        /\ Columns(Rcs, BlockedNames) \subseteq Y /\ Columns(Rcs, {"clur_size", "total_size"}) \subseteq Y
        /\ Columns(Rcs, {"risk_url_body", "has_be_reported_as_spam"}) \subseteq Y
        /\ Columns(Rcs, {"is_report"}) \subseteq Y /\ Columns(Rcs, {"detect_res_content"}) \subseteq Y
        /\ Columns(Rcs, {"phone_number", "format_phone_number"}) \subseteq Y
        /\ Columns(Rcs, {"blocked_pref_number"}) \subseteq Y /\ Columns(Rcs, {"msg_id"}) \subseteq Y
    <3>1. \A names : names \subseteq RcsNames => Columns(Rcs, names) \subseteq Y
      BY <2>1, InColumns
    <3>2. /\ {"is_advanced_security"} \subseteq RcsNames
          /\ {"is_collect", "receive_state", "fail_receive_context"} \subseteq RcsNames
          /\ BlockedNames \subseteq RcsNames /\ {"clur_size", "total_size"} \subseteq RcsNames
          /\ {"risk_url_body", "has_be_reported_as_spam"} \subseteq RcsNames
      BY DEF RcsNames, BlockedNames
    <3>3. /\ {"is_report"} \subseteq RcsNames /\ {"detect_res_content"} \subseteq RcsNames
          /\ {"phone_number", "format_phone_number"} \subseteq RcsNames
          /\ {"blocked_pref_number"} \subseteq RcsNames /\ {"msg_id"} \subseteq RcsNames
      BY DEF RcsNames
    <3> QED BY <3>1, <3>2, <3>3
  <2>4. /\ Columns(Part, {"ct"}) \subseteq Y /\ Columns(Part, {"rcs_id"}) \subseteq Y
        /\ Columns(Part, {"is_fraud"}) \subseteq Y /\ Columns(Part, {"reference_count"}) \subseteq Y
        /\ Columns(Session, {"contact_id", "contact_name"}) \subseteq Y
        /\ Columns(Session, {"yellow_page_id"}) \subseteq Y
        /\ Columns(Session, {"blocked_type"}) \subseteq Y /\ Columns(Session, {"pinning_time"}) \subseteq Y
    BY <2>1, InColumns DEF PartNames, SessionNames
  <2>5. {Table("risk_url_record"), Table(Fav), Table("chatbots"), Table("specific_chatbots"), Table("smc")} \subseteq Y
    BY <2>1 DEF TableNames
  <2>6. /\ Made(SmsSteps[2]) \subseteq Y /\ Made(SmsSteps[3]) \subseteq Y /\ Made(SmsSteps[4]) \subseteq Y
        /\ Made(SmsSteps[7]) \subseteq Y
    BY <2>1, <2>2, <2>3, <2>4, SmsMade2To7
  <2>7. /\ Made(SmsSteps[8]) \subseteq Y /\ Made(SmsSteps[9]) \subseteq Y /\ Made(SmsSteps[10]) \subseteq Y
        /\ Made(SmsSteps[11]) \subseteq Y /\ Made(SmsSteps[12]) \subseteq Y
    <3>1. ViewObjects \subseteq Y /\ Table("risk_url_record") \in Y
      BY <2>1, <2>5
    <3>2. Made(SmsSteps[8]) \subseteq Y /\ Made(SmsSteps[9]) \subseteq Y
      BY <2>2, <2>3, <2>4, <3>1, SmsMade8To12
    <3>3. Made(SmsSteps[10]) \subseteq Y
      BY <2>2, <2>3, <3>1, SmsMade8To12
    <3>4. Made(SmsSteps[11]) \subseteq Y /\ Made(SmsSteps[12]) \subseteq Y
      BY <2>2, <2>3, <3>1, SmsMade8To12
    <3> QED BY <3>2, <3>3, <3>4
  <2>8. /\ Made(SmsSteps[13]) \subseteq Y /\ Made(SmsSteps[14]) \subseteq Y /\ Made(SmsSteps[15]) \subseteq Y
        /\ Made(SmsSteps[16]) \subseteq Y /\ Made(SmsSteps[17]) \subseteq Y
    <3>1. ViewObjects \subseteq Y
      BY <2>1
    <3>2. Made(SmsSteps[13]) \subseteq Y /\ Made(SmsSteps[15]) \subseteq Y
      BY <3>1, SmsMade13To17
    <3>3. Made(SmsSteps[14]) \subseteq Y /\ Made(SmsSteps[16]) \subseteq Y
      BY <2>2, <2>3, <3>1, SmsMade13To17
    <3>4. Made(SmsSteps[17]) \subseteq Y
      BY <2>2, <2>4, <3>1, SmsMade13To17
    <3> QED BY <3>2, <3>3, <3>4
  <2>9. /\ Made(SmsSteps[18]) \subseteq Y /\ Made(SmsSteps[20]) \subseteq Y /\ Made(SmsSteps[22]) \subseteq Y
        /\ Made(SmsSteps[23]) \subseteq Y /\ Made(SmsSteps[24]) \subseteq Y /\ Made(SmsSteps[25]) \subseteq Y
        /\ Made(SmsSteps[34]) \subseteq Y
    <3>1. Made(SmsSteps[18]) \subseteq Y /\ Made(SmsSteps[20]) \subseteq Y /\ Made(SmsSteps[22]) \subseteq Y
      BY <2>1, SmsMadeTriggers
    <3>2. /\ Made(SmsSteps[23]) \subseteq Y /\ Made(SmsSteps[24]) \subseteq Y
          /\ Made(SmsSteps[25]) \subseteq Y /\ Made(SmsSteps[34]) \subseteq Y
      BY <2>5, SmsMadeTables
    <3> QED BY <3>1, <3>2
  <2>10. /\ Made(SmsSteps[19]) \subseteq Y /\ Made(SmsSteps[21]) \subseteq Y /\ Made(SmsSteps[27]) \subseteq Y
         /\ Made(SmsSteps[28]) \subseteq Y /\ Made(SmsSteps[29]) \subseteq Y /\ Made(SmsSteps[30]) \subseteq Y
         /\ Made(SmsSteps[32]) \subseteq Y /\ Made(SmsSteps[35]) \subseteq Y
    <3>1. ViewObjects \subseteq Y
      BY <2>1
    <3>2. Made(SmsSteps[21]) \subseteq Y /\ Made(SmsSteps[27]) \subseteq Y /\ Made(SmsSteps[30]) \subseteq Y
      BY <2>2, <2>3, <3>1, SmsMade19To35
    <3>3. /\ Made(SmsSteps[19]) \subseteq Y /\ Made(SmsSteps[28]) \subseteq Y /\ Made(SmsSteps[29]) \subseteq Y
          /\ Made(SmsSteps[32]) \subseteq Y /\ Made(SmsSteps[35]) \subseteq Y
      BY <2>4, SmsMade19To35
    <3> QED BY <3>2, <3>3
  <2>11. \A p \in 1..35 : \/ p \in {2, 3, 4, 7, 8, 9, 10, 11, 12, 13, 14, 15, 16, 17}
                         \/ p \in {18, 19, 20, 21, 22, 23, 24, 25, 27, 28, 29, 30, 32, 34, 35}
                         \/ p \in {1, 5, 6, 26, 31, 33}
    OBVIOUS
  <2>12. \A p \in {1, 5, 6, 26, 31, 33} : Made(SmsSteps[p]) \subseteq Y
    BY SmsMadeNothing
  <2> QED BY <2>6, <2>7, <2>8, <2>9, <2>10, <2>11, <2>12 DEF Y
<1>11. First("sms_mms") \subseteq AllSms
  BY <1>2 DEF AllSms, TableNames
<1>12. X \subseteq AllSms
  BY <1>1, <1>10, <1>11, SmsStepsAre DEF Brought
<1> QED BY <1>9, <1>12 DEF X

(* The statements that create the store of the messages.                   *)
SmsCreated ==
  {SmsMmsInfo, MmsProtocol, RcsInfo, SmsSubsection, MmsPart, SessionTable, MmsPdu, RiskUrlRecord,
   CreateFavorites[1], ChatBots, SpecificChatBots, Smc}
SmsMore == {InsertSms, InsertRcs, UpdateBlockSms, UpdateBlockRcs}

LEMMA CreationItems ==
  /\ IsSeq(InitCreateTableVec)
  /\ Items(InitCreateTableVec) = SmsCreated \union {MmsInfoView} \union SmsMore \union Items(RenewIndexes)
<1> DEFINE tables == <<SmsMmsInfo, MmsProtocol, RcsInfo, SmsSubsection, MmsPart, SessionTable, MmsPdu, RiskUrlRecord,
                       MmsInfoView, InsertSms, InsertRcs, UpdateBlockSms, UpdateBlockRcs>>
           chats == <<ChatBots, SpecificChatBots, Smc>>
<1>1. /\ IsSeq(tables)
      /\ Items(tables) = {SmsMmsInfo, MmsProtocol, RcsInfo, SmsSubsection, MmsPart, SessionTable, MmsPdu,
                          RiskUrlRecord, MmsInfoView, InsertSms, InsertRcs, UpdateBlockSms, UpdateBlockRcs}
  BY DEF IsSeq, Items
<1>2. IsSeq(chats) /\ Items(chats) = {ChatBots, SpecificChatBots, Smc}
  BY DEF IsSeq, Items
<1>3. IsSeq(RenewIndexes)
  BY DoesIndexes DEF Does, Tidy
<1>4. IsSeq(CreateFavorites) /\ Items(CreateFavorites) = {CreateFavorites[1]}
  BY DEF CreateFavorites, IsSeq, Items
<1> HIDE DEF tables, chats
<1>5. /\ IsSeq(RenewIndexes \o CreateFavorites)
      /\ Items(RenewIndexes \o CreateFavorites) = Items(RenewIndexes) \union Items(CreateFavorites)
  BY <1>3, <1>4, ItemsJoin
<1>6. /\ IsSeq(RenewIndexes \o CreateFavorites \o chats)
      /\ Items(RenewIndexes \o CreateFavorites \o chats) = Items(RenewIndexes \o CreateFavorites) \union Items(chats)
  BY <1>2, <1>5, ItemsJoin
<1>7. InitCreateTableVec = tables \o (RenewIndexes \o CreateFavorites \o chats)
  BY DEF tables, chats, InitCreateTableVec, InitCreateTableIndex
<1>8. /\ IsSeq(InitCreateTableVec)
      /\ Items(InitCreateTableVec) = Items(tables) \union Items(RenewIndexes \o CreateFavorites \o chats)
  BY <1>1, <1>6, <1>7, ItemsJoin
<1> HIDE DEF Items
<1> QED BY <1>1, <1>2, <1>4, <1>5, <1>6, <1>8 DEF SmsCreated, SmsMore

LEMMA TableCreated ==
  ASSUME NEW t \in TableNames, NEW names
  PROVE  /\ CreateTable(t, names).unless = {Table(t)} /\ CreateTable(t, names).drop = {}
         /\ CreateTable(t, names).make = {Table(t)} \union Columns(t, names)
         /\ \A u : Table(u) \in CreateTable(t, names).make => u = t
         /\ CreateTable(t, names).make \intersect (ViewObjects \union Indexes) = {}
<1>1. t # "table" /\ t # "view" /\ t # "index" /\ t # "mms_info"
  BY DEF TableNames, Sms, Rcs, Part, Session, Fav
<1>2. /\ CreateTable(t, names).unless = {Table(t)} /\ CreateTable(t, names).drop = {}
      /\ CreateTable(t, names).make = {Table(t)} \union Columns(t, names)
  BY DEF CreateTable, Statement
<1>3. \A u : Table(u) \in {Table(t)} \union Columns(t, names) => u = t
  BY <1>1 DEF Table, Columns
<1>4. ({Table(t)} \union Columns(t, names)) \intersect ViewObjects = {}
  BY <1>1 DEF ViewObjects, View, Table, Columns
<1>5. ({Table(t)} \union Columns(t, names)) \intersect Indexes = {}
  BY <1>1, IndexesAre DEF Table, Columns, Index
<1> QED BY <1>2, <1>3, <1>4, <1>5

(* What they make and that no two are of one table.                        *)
LEMMA SmsTables ==
  /\ SmsMmsInfo = CreateTable(Sms, SmsNames) /\ RcsInfo = CreateTable(Rcs, RcsNames)
  /\ MmsPart = CreateTable(Part, PartNames) /\ SessionTable = CreateTable(Session, SessionNames)
  /\ MmsProtocol = CreateTable("mms_protocol", {}) /\ SmsSubsection = CreateTable("sms_subsection", {})
  /\ MmsPdu = CreateTable("mms_pdu", {}) /\ RiskUrlRecord = CreateTable("risk_url_record", {})
  /\ CreateFavorites[1] = CreateTable(Fav, {}) /\ ChatBots = CreateTable("chatbots", {})
  /\ SpecificChatBots = CreateTable("specific_chatbots", {}) /\ Smc = CreateTable("smc", {})
BY DEF SmsMmsInfo, SmsNames, RcsInfo, RcsNames, MmsPart, PartNames, SessionTable, SessionNames, MmsProtocol,
       SmsSubsection, MmsPdu, RiskUrlRecord, CreateFavorites, ChatBots, SpecificChatBots, Smc

NamesOf(t) ==
  IF t = Sms THEN SmsNames ELSE IF t = Rcs THEN RcsNames ELSE IF t = Part THEN PartNames
  ELSE IF t = Session THEN SessionNames ELSE {}
LEMMA SmsCreatedAre == SmsCreated = {CreateTable(t, NamesOf(t)) : t \in TableNames}
<1>1. /\ NamesOf(Sms) = SmsNames /\ NamesOf(Rcs) = RcsNames /\ NamesOf(Part) = PartNames
      /\ NamesOf(Session) = SessionNames
      /\ \A t \in {"mms_protocol", "sms_subsection", "mms_pdu", "risk_url_record", Fav, "chatbots",
                   "specific_chatbots", "smc"} : NamesOf(t) = {}
  BY DEF NamesOf, Sms, Rcs, Part, Session, Fav
<1> HIDE DEF NamesOf
<1> QED BY <1>1, SmsTables DEF SmsCreated, TableNames

LEMMA SmsMoreAre ==
  ASSUME NEW s \in SmsMore
  PROVE  /\ s.unless = {} /\ s.drop = {} /\ s.make \subseteq InsertTriggers \union BlockTriggers
         /\ s.make \intersect (ViewObjects \union {Table(t) : t \in TableNames}) = {}
<1>1. PICK n : s.unless = {} /\ s.drop = {} /\ s.make = {Trigger(n)}
            /\ Trigger(n) \in InsertTriggers \union BlockTriggers
  <2>1. \A n, t : /\ CreateTrigger(n, t).unless = {} /\ CreateTrigger(n, t).drop = {}
                  /\ CreateTrigger(n, t).make = {Trigger(n)}
    BY DEF CreateTrigger, Statement
  <2> QED BY <2>1 DEF SmsMore, InsertSms, InsertRcs, UpdateBlockSms, UpdateBlockRcs, InsertTriggers, BlockTriggers
<1>2. Trigger(n) \notin ViewObjects \union {Table(t) : t \in TableNames}
  BY DEF Trigger, Table, ViewObjects, View, Columns
<1> QED BY <1>1, <1>2

LEMMA SmsMoreMake == Makes(SmsMore) = InsertTriggers \union BlockTriggers
<1>1. \A n, t : CreateTrigger(n, t).make = {Trigger(n)}
  BY DEF CreateTrigger, Statement
<1>2. /\ InsertSms.make = {Trigger("insertSms_unread_count")} /\ InsertRcs.make = {Trigger("insertRcs_unread_count")}
      /\ UpdateBlockSms.make = {Trigger("updateBlockSms_unread_count")}
      /\ UpdateBlockRcs.make = {Trigger("updateBlockRcs_unread_count")}
  BY <1>1 DEF InsertSms, InsertRcs, UpdateBlockSms, UpdateBlockRcs
<1> QED BY <1>2 DEF SmsMore, Makes, InsertTriggers, BlockTriggers

LEMMA RenewIndexesAre ==
  /\ \A s \in Items(RenewIndexes) : s.unless = {} /\ s.drop \union s.make \subseteq Indexes
  /\ Drops(Items(RenewIndexes)) \subseteq Indexes /\ Makes(Items(RenewIndexes)) = Indexes
  /\ Indexes \intersect (ViewObjects \union {Table(t) : t \in TableNames}) = {}
<1>1. Items(RenewIndexes) = {Drop(RcsIndex.make), RcsIndex, Drop(SmsIndex.make), SmsIndex,
                             Drop(SessionIndex.make), SessionIndex}
  BY SixItems DEF RenewIndexes
<1>2. \A x : Drop(x).unless = {} /\ Drop(x).make = {} /\ Drop(x).drop = x
  BY DEF Drop, Statement
<1>3. /\ RcsIndex.unless = {} /\ SmsIndex.unless = {} /\ SessionIndex.unless = {}
      /\ RcsIndex.drop = {} /\ SmsIndex.drop = {} /\ SessionIndex.drop = {}
  BY DEF RcsIndex, SmsIndex, SessionIndex, CreateIndex, Statement
<1>4. Indexes = RcsIndex.make \union SmsIndex.make \union SessionIndex.make
  BY DEF Indexes
<1>5. \A s \in Items(RenewIndexes) : s.unless = {} /\ s.drop \union s.make \subseteq Indexes
  <2> HIDE DEF RcsIndex, SmsIndex, SessionIndex, Indexes
  <2> QED BY <1>1, <1>2, <1>3, <1>4
<1>6. Makes(Items(RenewIndexes)) = Indexes
  BY DoesIndexes, MadeIs DEF Does
<1>7. Indexes \intersect (ViewObjects \union {Table(t) : t \in TableNames}) = {}
  BY IndexesAre DEF Index, Table, ViewObjects, View, Columns
<1> QED BY <1>5, <1>6, <1>7 DEF Drops

(* What matters of the statements of a creation: only indexes are dropped, *)
(* never anything that is made once only; and what keeps a statement from  *)
(* being run was made together with all that it makes.                     *)
Creates(stmts) ==
  /\ IsSeq(stmts)
  /\ Drops(Items(stmts)) \subseteq Indexes
  /\ \A s \in Items(stmts) : s.unless = {} \/ s.make \intersect Drops(Items(stmts)) = {}
  /\ \A s, t \in Items(stmts) : s.unless \intersect t.make # {} => s.make \subseteq t.make
  /\ ViewTogether(Items(stmts))

LEMMA ViewCreated == MmsInfoView.unless = {View} /\ MmsInfoView.drop = {} /\ MmsInfoView.make = ViewObjects
<1>1. MmsInfoView = CreateView(UpgradedView)
  BY DEF MmsInfoView, UpgradedView
<1> QED BY <1>1 DEF CreateView, Statement, ViewObjects

LEMMA SmsCreates == Creates(InitCreateTableVec) /\ Made(InitCreateTableVec) = AllSms
<1> DEFINE S == Items(InitCreateTableVec)
           R == Items(RenewIndexes)
           Tables == {Table(t) : t \in TableNames}
<1>1. IsSeq(InitCreateTableVec) /\ S = SmsCreated \union {MmsInfoView} \union SmsMore \union R
  BY CreationItems
<1>2. \A s \in SmsCreated :
        \E t \in TableNames : /\ s = CreateTable(t, NamesOf(t)) /\ s.unless = {Table(t)} /\ s.drop = {}
                              /\ Table(t) \in s.make
                              /\ \A u : Table(u) \in s.make => u = t
                              /\ s.make \intersect (ViewObjects \union Indexes) = {}
  BY SmsCreatedAre, TableCreated
<1>3. View \in ViewObjects /\ View \notin Tables /\ ViewObjects \intersect Tables = {}
  BY DEF ViewObjects, View, Table, Columns
<1>4. \A s \in R : /\ s.unless = {} /\ s.drop \subseteq Indexes
                   /\ s.make \intersect (ViewObjects \union Tables) = {}
                   /\ s.drop \intersect ViewObjects = {}
  BY RenewIndexesAre
<1>5. \A s \in SmsMore : s.unless = {} /\ s.drop = {} /\ s.make \intersect (ViewObjects \union Tables) = {}
  BY SmsMoreAre
<1>6. MmsInfoView.unless = {View} /\ MmsInfoView.drop = {} /\ MmsInfoView.make = ViewObjects
  BY ViewCreated
<1>7. ViewObjects \intersect Indexes = {}
  BY RenewIndexesAre
<1> HIDE DEF S, R, Tables
<1>8. Drops(S) \subseteq Indexes
  BY <1>1, <1>2, <1>4, <1>5, <1>6 DEF Drops
<1>9. \A s \in S : s.unless = {} \/ s.make \intersect Drops(S) = {}
  BY <1>1, <1>2, <1>4, <1>5, <1>6, <1>7, <1>8
<1>10. ASSUME NEW s \in S, NEW t \in S, s.unless \intersect t.make # {} PROVE s.make \subseteq t.make
  <2>1. CASE s = MmsInfoView
    <3>1. View \in t.make
      BY <1>6, <1>10, <2>1
    <3>2. t = MmsInfoView
      BY <1>1, <1>2, <1>3, <1>4, <1>5, <3>1
    <3> QED BY <2>1, <3>2
  <2>2. CASE s \in SmsCreated
    <3>1. PICK n \in TableNames : s = CreateTable(n, NamesOf(n)) /\ s.unless = {Table(n)}
      BY <1>2, <2>2
    <3>2. Table(n) \in t.make /\ Table(n) \in Tables
      BY <1>10, <3>1 DEF Tables
    <3>3. t \in SmsCreated
      BY <1>1, <1>3, <1>4, <1>5, <1>6, <3>2
    <3>4. PICK u \in TableNames : t = CreateTable(u, NamesOf(u)) /\ u = n
      BY <1>2, <3>2, <3>3
    <3> QED BY <3>1, <3>4
  <2>3. CASE s \in SmsMore \union R
    BY <1>4, <1>5, <1>10, <2>3
  <2> QED BY <1>1, <2>1, <2>2, <2>3
<1>11. ViewTogether(S)
  <2>1. ASSUME NEW s \in S, View \in s.make PROVE ViewObjects \subseteq s.make
    BY <1>1, <1>2, <1>3, <1>4, <1>5, <1>6, <2>1
  <2>2. ASSUME NEW s \in S PROVE s.drop \intersect ViewObjects = {}
    BY <1>1, <1>2, <1>4, <1>5, <1>6
  <2> QED BY <2>1, <2>2 DEF ViewTogether
<1>12. Makes(S) = AllSms
  <2>1. Makes(S) = Makes(SmsCreated) \union ViewObjects \union Makes(SmsMore) \union Makes(R)
    BY <1>1, <1>6 DEF Makes
  <2>2. Makes(SmsCreated) = AllColumns \union Tables
    <3>1. Makes(SmsCreated) = UNION {{Table(t)} \union Columns(t, NamesOf(t)) : t \in TableNames}
      BY SmsCreatedAre, TableCreated DEF Makes
    <3>2. /\ NamesOf(Sms) = SmsNames /\ NamesOf(Rcs) = RcsNames /\ NamesOf(Part) = PartNames
          /\ NamesOf(Session) = SessionNames
          /\ {Sms, Rcs, Part, Session} \subseteq TableNames
      BY DEF NamesOf, Sms, Rcs, Part, Session, Fav, TableNames
    <3>3. \A t \in TableNames : t \in {Sms, Rcs, Part, Session} \/ NamesOf(t) = {}
      BY DEF NamesOf
    <3>4. \A t : Columns(t, {}) = {}
      BY DEF Columns
    <3> HIDE DEF NamesOf, TableNames
    <3>5. Makes(SmsCreated) \subseteq AllColumns \union Tables
      <4>1. ASSUME NEW t \in TableNames PROVE Columns(t, NamesOf(t)) \subseteq AllColumns
        <5>1. CASE NamesOf(t) = {}
          BY <3>4, <5>1
        <5>2. CASE t \in {Sms, Rcs, Part, Session}
          BY <3>2, <5>2 DEF AllColumns
        <5> QED BY <3>3, <5>1, <5>2
      <4>2. \A t \in TableNames : Table(t) \in Tables
        BY DEF Tables
      <4> HIDE DEF Tables
      <4> QED BY <3>1, <4>1, <4>2
    <3>6. Columns(Sms, NamesOf(Sms)) \union Columns(Rcs, NamesOf(Rcs)) \union Columns(Part, NamesOf(Part))
            \union Columns(Session, NamesOf(Session)) \subseteq Makes(SmsCreated)
      BY <3>1, <3>2
    <3>7. Tables \subseteq Makes(SmsCreated)
      BY <3>1 DEF Tables
    <3> QED BY <3>2, <3>5, <3>6, <3>7 DEF AllColumns
  <2>3. Makes(SmsMore) = InsertTriggers \union BlockTriggers
    BY SmsMoreMake
  <2>4. Makes(R) = Indexes
    BY RenewIndexesAre DEF R
  <2> QED BY <2>1, <2>2, <2>3, <2>4 DEF AllSms, Tables
<1> QED BY <1>1, <1>8, <1>9, <1>10, <1>11, <1>12, MadeIs DEF Creates, S

(* The other stores.                                                       *)
SimNames ==
  {"is_active", "opkey", "mcc", "mnc", "is_esim", "sim_label_index", "operator_name",
   "phy_card", "lsi", "mnc_len", "efust", "gid1", "gid2", "spn", "ehplmn"}
PdpNames == {"mvno_type", "mvno_match_data", "edited_status", "server", "opkey"}

LEMMA SimSteps ==
  /\ VERSION["sim"] = 5 /\ Steps["sim"][1] = <<>>
  /\ Does(Steps["sim"][2], Columns(Sim, {"is_active"}))
  /\ Does(Steps["sim"][3], Columns(Sim, {"opkey", "mcc", "mnc"}))
  /\ Does(Steps["sim"][4], Columns(Sim, {"is_esim", "sim_label_index", "operator_name"}))
  /\ Does(Steps["sim"][5],
          Columns(Sim, {"phy_card", "lsi", "mnc_len", "efust", "gid1", "gid2", "spn", "ehplmn"}))
<1>1. Does(SimTwo, Columns(Sim, {"is_active"}))
  <2> DEFINE x == AddColumn(Sim, "is_active")
  <2>1. x.make = {<<Sim, "is_active">>} /\ x.unless = {} /\ x.drop = {}
    BY DEF AddColumn, Statement
  <2>2. Columns(Sim, {"is_active"}) = {<<Sim, "is_active">>}
    BY DEF Columns
  <2>3. SimTwo = <<Drop({<<Sim, "is_active">>}), x>>
    BY DEF SimTwo
  <2> HIDE DEF x
  <2>4. Does(<<Drop(x.make), x>>, x.make)
    BY <2>1, DoesAgain
  <2> QED BY <2>1, <2>2, <2>3, <2>4
<1>2. Does(SimThree, Columns(Sim, {"opkey", "mcc", "mnc"}))
      /\ Does(SimFour, Columns(Sim, {"is_esim", "sim_label_index", "operator_name"}))
  BY DoesThree DEF SimThree, SimFour
<1>3. Does(UpgradeToV5, Columns(Sim, {"phy_card", "lsi", "mnc_len", "efust", "gid1", "gid2", "spn", "ehplmn"}))
  <2> DEFINE names == <<"phy_card", "lsi", "mnc_len", "efust", "gid1", "gid2", "spn", "ehplmn">>
             N == {"phy_card", "lsi", "mnc_len", "efust", "gid1", "gid2", "spn", "ehplmn"}
  <2>1. {names[i] : i \in DOMAIN names} = N /\ names \in Seq({names[i] : i \in DOMAIN names})
    OBVIOUS
  <2>2. UpgradeToV5 = AddColumns(Sim, names)
    BY DEF UpgradeToV5
  <2> HIDE DEF names, N
  <2>3. Does(AddColumns(Sim, names), Columns(Sim, N))
    BY <2>1, DoesColumns
  <2> QED BY <2>2, <2>3 DEF N
<1>4. /\ VERSION["sim"] = 5 /\ Steps["sim"][1] = <<>> /\ Steps["sim"][2] = SimTwo
      /\ Steps["sim"][3] = SimThree /\ Steps["sim"][4] = SimFour /\ Steps["sim"][5] = UpgradeToV5
  BY DEF VERSION, Steps, Stores
<1> QED BY <1>1, <1>2, <1>3, <1>4

LEMMA PdpSteps ==
  /\ VERSION["pdp_profile"] = 4 /\ Steps["pdp_profile"][1] = <<>>
  /\ Does(Steps["pdp_profile"][2], Columns(Pdp, {"mvno_type", "mvno_match_data"}))
  /\ Does(Steps["pdp_profile"][3], Columns(Pdp, {"edited_status", "server"}))
  /\ Does(Steps["pdp_profile"][4], Columns(Pdp, {"opkey"}))
<1>1. /\ VERSION["pdp_profile"] = 4 /\ Steps["pdp_profile"][1] = <<>> /\ Steps["pdp_profile"][2] = PdpTwo
      /\ Steps["pdp_profile"][3] = PdpThree /\ Steps["pdp_profile"][4] = PdpFour
  BY DEF VERSION, Steps, Stores
<1> QED BY <1>1, DoesOne, DoesTwo DEF PdpTwo, PdpThree, PdpFour

(* A table other than the view, created alone or with things that need     *)
(* nothing to be absent.                                                   *)
LEMMA OtherTable ==
  ASSUME NEW t \in {Sim, Pdp, "pse_base_station"}, NEW names
  PROVE  /\ CreateTable(t, names).unless = {Table(t)} /\ CreateTable(t, names).drop = {}
         /\ CreateTable(t, names).make = {Table(t)} \union Columns(t, names)
         /\ \A u : Table(u) \in CreateTable(t, names).make => u = t
         /\ CreateTable(t, names).make \intersect ViewObjects = {}
<1>1. t # "table" /\ t # "view" /\ t # "mms_info"
  BY DEF Sim, Pdp
<1>2. /\ CreateTable(t, names).unless = {Table(t)} /\ CreateTable(t, names).drop = {}
      /\ CreateTable(t, names).make = {Table(t)} \union Columns(t, names)
  BY DEF CreateTable, Statement
<1>3. \A u : Table(u) \in {Table(t)} \union Columns(t, names) => u = t
  BY <1>1 DEF Table, Columns
<1>4. ({Table(t)} \union Columns(t, names)) \intersect ViewObjects = {}
  BY <1>1 DEF ViewObjects, View, Table, Columns
<1> QED BY <1>2, <1>3, <1>4

LEMMA SimCreates ==
  Creates(Creation["sim"]) /\ Made(Creation["sim"]) = {Table(Sim)} \union Columns(Sim, SimNames)
<1>1. Creation["sim"] = <<SimTable>> /\ SimTable = CreateTable(Sim, SimNames)
  BY DEF Creation, Stores, SimTable, SimNames
<1> DEFINE x == SimTable
<1>2. /\ x.unless = {Table(Sim)} /\ x.drop = {} /\ x.make = {Table(Sim)} \union Columns(Sim, SimNames)
      /\ x.make \intersect ViewObjects = {}
  BY <1>1, OtherTable
<1>3. View \in ViewObjects
  BY DEF ViewObjects
<1>4. IsSeq(<<x>>) /\ Items(<<x>>) = {x}
  BY OneItem
<1> HIDE DEF x
<1>5. Drops({x}) = {} /\ Makes({x}) = x.make
  BY <1>2 DEF Drops, Makes
<1>6. ViewTogether({x})
  BY <1>2, <1>3 DEF ViewTogether
<1>7. Creates(<<x>>)
  BY <1>4, <1>5, <1>6 DEF Creates
<1> QED BY <1>1, <1>2, <1>4, <1>5, <1>7, MadeIs DEF x

LEMMA PdpCreates ==
  /\ Creates(Creation["pdp_profile"])
  /\ Made(Creation["pdp_profile"]) =
       {Table(Pdp), Table("pse_base_station"), Trigger("pse_trigger")} \union Columns(Pdp, PdpNames)
<1>1. /\ Creation["pdp_profile"] = <<PdpTable, PseTable, PseTrigger>>
      /\ PdpTable = CreateTable(Pdp, PdpNames) /\ PseTable = CreateTable("pse_base_station", {})
  BY DEF Creation, Stores, PdpTable, PdpNames, PseTable
<1> DEFINE x == PdpTable
           y == PseTable
           z == PseTrigger
<1>2. /\ x.unless = {Table(Pdp)} /\ x.drop = {} /\ x.make = {Table(Pdp)} \union Columns(Pdp, PdpNames)
      /\ x.make \intersect ViewObjects = {} /\ \A u : Table(u) \in x.make => u = Pdp
  BY <1>1, OtherTable
<1>3. /\ y.unless = {Table("pse_base_station")} /\ y.drop = {}
      /\ y.make = {Table("pse_base_station")} \union Columns("pse_base_station", {})
      /\ y.make \intersect ViewObjects = {} /\ \A u : Table(u) \in y.make => u = "pse_base_station"
  BY <1>1, OtherTable
<1>4. z.unless = {} /\ z.drop = {} /\ z.make = {Trigger("pse_trigger")}
  BY DEF PseTrigger, CreateTrigger, Statement
<1>5. View \in ViewObjects /\ Trigger("pse_trigger") \notin ViewObjects /\ (\A u : Table(u) # Trigger("pse_trigger"))
  BY DEF ViewObjects, Trigger, View, Table, Columns
<1>6. IsSeq(<<x, y, z>>) /\ Items(<<x, y, z>>) = {x, y, z}
  BY DEF IsSeq, Items
<1>7. Columns("pse_base_station", {}) = {} /\ Pdp # "pse_base_station"
  BY DEF Columns, Pdp
<1> HIDE DEF x, y, z
<1>8. Drops({x, y, z}) = {} /\ Makes({x, y, z}) = x.make \union y.make \union z.make
  BY <1>2, <1>3, <1>4 DEF Drops, Makes
<1>9. ViewTogether({x, y, z})
  BY <1>2, <1>3, <1>4, <1>5 DEF ViewTogether
<1>10. \A s, t \in {x, y, z} : s.unless \intersect t.make # {} => s.make \subseteq t.make
  <2>1. Table("pse_base_station") \notin x.make /\ Table(Pdp) \notin y.make
    BY <1>2, <1>3, <1>7
  <2>2. Table("pse_base_station") \notin z.make /\ Table(Pdp) \notin z.make
    BY <1>4, <1>5
  <2> QED BY <1>2, <1>3, <1>4, <2>1, <2>2
<1>11. Creates(<<x, y, z>>)
  BY <1>6, <1>8, <1>9, <1>10 DEF Creates
<1>12. Makes({x, y, z}) = {Table(Pdp), Table("pse_base_station"), Trigger("pse_trigger")} \union Columns(Pdp, PdpNames)
  BY <1>2, <1>3, <1>4, <1>7, <1>8
<1> QED BY <1>1, <1>6, <1>11, <1>12, MadeIs DEF x, y, z

-----------------------------------------------------------------------------
(* What every store comes to, by a creation and by all the steps.          *)
LEMMA SimMade ==
  /\ Made(Steps["sim"][1]) = {}
  /\ Made(Steps["sim"][2]) = Columns(Sim, {"is_active"})
  /\ Made(Steps["sim"][3]) = Columns(Sim, {"opkey", "mcc", "mnc"})
  /\ Made(Steps["sim"][4]) = Columns(Sim, {"is_esim", "sim_label_index", "operator_name"})
  /\ Made(Steps["sim"][5]) =
       Columns(Sim, {"phy_card", "lsi", "mnc_len", "efust", "gid1", "gid2", "spn", "ehplmn"})
BY SimSteps, DoesNothing DEF Does

LEMMA PdpMade ==
  /\ Made(Steps["pdp_profile"][1]) = {}
  /\ Made(Steps["pdp_profile"][2]) = Columns(Pdp, {"mvno_type", "mvno_match_data"})
  /\ Made(Steps["pdp_profile"][3]) = Columns(Pdp, {"edited_status", "server"})
  /\ Made(Steps["pdp_profile"][4]) = Columns(Pdp, {"opkey"})
BY PdpSteps, DoesNothing DEF Does

LEMMA AllSimIs == All("sim") = {Table(Sim)} \union Columns(Sim, SimNames)
<1> DEFINE M(p) == Made(Steps["sim"][p])
<1>1. All("sim") = {Table(Sim), <<Sim, "is_active">>} \union UNION {M(p) : p \in 1..5}
  BY SimSteps DEF All, First, Brought
<1> HIDE DEF M
<1>2. UNION {M(p) : p \in 1..5} = M(1) \union M(2) \union M(3) \union M(4) \union M(5)
  <2>1. 1..5 = {1, 2, 3, 4, 5}
    OBVIOUS
  <2> QED BY <2>1
<1>3. M(1) \union M(2) \union M(3) \union M(4) \union M(5) = Columns(Sim, SimNames)
  <2>1. /\ M(1) = {} /\ M(2) = Columns(Sim, {"is_active"}) /\ M(3) = Columns(Sim, {"opkey", "mcc", "mnc"})
        /\ M(4) = Columns(Sim, {"is_esim", "sim_label_index", "operator_name"})
        /\ M(5) = Columns(Sim, {"phy_card", "lsi", "mnc_len", "efust", "gid1", "gid2", "spn", "ehplmn"})
    BY SimMade DEF M
  <2>2. SimNames = {"is_active"} \union {"opkey", "mcc", "mnc"} \union {"is_esim", "sim_label_index", "operator_name"}
                     \union {"phy_card", "lsi", "mnc_len", "efust", "gid1", "gid2", "spn", "ehplmn"}
    BY DEF SimNames
  <2> QED BY <2>1, <2>2 DEF Columns
<1>4. <<Sim, "is_active">> \in Columns(Sim, SimNames)
  BY DEF Columns, SimNames
<1> QED BY <1>1, <1>2, <1>3, <1>4

LEMMA AllPdpIs ==
  All("pdp_profile") = {Table(Pdp), Table("pse_base_station"), Trigger("pse_trigger")} \union Columns(Pdp, PdpNames)
<1> DEFINE M(p) == Made(Steps["pdp_profile"][p])
<1>1. All("pdp_profile") = {Table(Pdp), Table("pse_base_station"), Trigger("pse_trigger")}
                             \union UNION {M(p) : p \in 1..4}
  BY PdpSteps DEF All, First, Brought
<1> HIDE DEF M
<1>2. UNION {M(p) : p \in 1..4} = M(1) \union M(2) \union M(3) \union M(4)
  <2>1. 1..4 = {1, 2, 3, 4}
    OBVIOUS
  <2> QED BY <2>1
<1>3. M(1) \union M(2) \union M(3) \union M(4) = Columns(Pdp, PdpNames)
  <2>1. /\ M(1) = {} /\ M(2) = Columns(Pdp, {"mvno_type", "mvno_match_data"})
        /\ M(3) = Columns(Pdp, {"edited_status", "server"}) /\ M(4) = Columns(Pdp, {"opkey"})
    BY PdpMade DEF M
  <2>2. PdpNames = {"mvno_type", "mvno_match_data"} \union {"edited_status", "server"} \union {"opkey"}
    BY DEF PdpNames
  <2> QED BY <2>1, <2>2 DEF Columns
<1> QED BY <1>1, <1>2, <1>3

(* A creation and all the steps make the same objects.                     *)
LEMMA CreationMade == ASSUME NEW s \in Stores PROVE Creates(Creation[s]) /\ Made(Creation[s]) = All(s)
<1>1. Creation["sms_mms"] = InitCreateTableVec
  BY DEF Creation, Stores
<1>2. s \in {"sms_mms", "sim", "pdp_profile"}
  BY DEF Stores
<1> QED BY <1>1, <1>2, SmsCreates, SimCreates, PdpCreates, AllSmsIs, AllSimIs, AllPdpIs

(* The triggers that releases 18 to 32 had are none of them.               *)
LEMMA NoOldTriggers == ASSUME NEW s \in Stores PROVE OldTriggers \intersect All(s) = {}
<1>1. \A n \in {"updateSms_unread_count", "updateRcs_unread_count"} :
        /\ \A t \in {Sms, Rcs, Part, Session, Sim, Pdp, "mms_info"} : \A names : Trigger(n) \notin Columns(t, names)
        /\ \A t : Trigger(n) # Table(t)
        /\ \A m : Trigger(n) # Index(m)
        /\ Trigger(n) # View /\ Trigger(n) # Trigger("pse_trigger")
        /\ Trigger(n) \notin InsertTriggers \union BlockTriggers
  BY DEF Trigger, Columns, Table, Index, View, InsertTriggers, BlockTriggers, Sms, Rcs, Part, Session, Sim, Pdp
<1>2. OldTriggers = {Trigger(n) : n \in {"updateSms_unread_count", "updateRcs_unread_count"}}
  BY DEF OldTriggers
<1>3. s \in {"sms_mms", "sim", "pdp_profile"}
  BY DEF Stores
<1>4. CASE s = "sms_mms"
  <2>1. \A o \in OldTriggers : o \notin AllSms
    <3>1. \A o \in OldTriggers : o \notin AllColumns /\ o \notin ViewObjects /\ o \notin Indexes
      BY <1>1, <1>2, IndexesAre DEF AllColumns, ViewObjects
    <3> QED BY <1>1, <1>2, <3>1 DEF AllSms
  <2> QED BY <1>4, <2>1, AllSmsIs
<1>5. CASE s = "sim"
  BY <1>1, <1>2, <1>5, AllSimIs
<1>6. CASE s = "pdp_profile"
  BY <1>1, <1>2, <1>6, AllPdpIs
<1> QED BY <1>3, <1>4, <1>5, <1>6

LEMMA TidySteps ==
  ASSUME NEW s \in Stores, NEW p \in 2..VERSION[s], ~(s = "sms_mms" /\ p = 7) PROVE Tidy(Steps[s][p])
<1>1. s \in {"sms_mms", "sim", "pdp_profile"}
  BY DEF Stores
<1>2. CASE s = "sms_mms"
  BY <1>2, TidySmsSteps, SmsStepsAre, Version35
<1>3. CASE s = "sim"
  <2>1. p \in {2, 3, 4, 5}
    BY <1>3, SimSteps
  <2> QED BY <1>3, <2>1, SimSteps DEF Does
<1>4. CASE s = "pdp_profile"
  <2>1. p \in {2, 3, 4}
    BY <1>4, PdpSteps
  <2> QED BY <1>4, <2>1, PdpSteps DEF Does
<1> QED BY <1>1, <1>2, <1>3, <1>4

(* The schema of an earlier release has all that the steps made so far,    *)
(* but columns of the view that no table has; from 30 on it lacks none.    *)
LEMMA ViewColumns ==
  ASSUME NEW s \in Stores, NEW o \in All(s), o[1] = "mms_info"
  PROVE  s = "sms_mms" /\ o \in Columns("mms_info", UpgradedView)
<1>1. s \in {"sms_mms", "sim", "pdp_profile"}
  BY DEF Stores
<1>2. /\ \A t \in {Sms, Rcs, Part, Session, Sim, Pdp} : \A names : \A c \in Columns(t, names) : c[1] # "mms_info"
      /\ \A t : Table(t)[1] # "mms_info" /\ Trigger(t)[1] # "mms_info" /\ Index(t)[1] # "mms_info"
      /\ View[1] # "mms_info"
  BY DEF Columns, Table, Trigger, Index, View, Sms, Rcs, Part, Session, Sim, Pdp
<1>3. CASE s = "sms_mms"
  <2>1. o \in AllSms
    BY <1>3, AllSmsIs
  <2>2. o \notin AllColumns
    BY <1>2 DEF AllColumns
  <2>3. o \notin InsertTriggers \union BlockTriggers /\ o \notin Indexes
    BY <1>2, IndexesAre DEF InsertTriggers, BlockTriggers
  <2>4. o \in ViewObjects
    BY <1>2, <2>1, <2>2, <2>3 DEF AllSms
  <2> QED BY <1>2, <1>3, <2>4 DEF ViewObjects
<1>4. CASE s = "sim"
  <2>1. o \in {Table(Sim)} \union Columns(Sim, SimNames)
    BY <1>4, AllSimIs
  <2> QED BY <1>2, <2>1
<1>5. CASE s = "pdp_profile"
  <2>1. o \in {Table(Pdp), Table("pse_base_station"), Trigger("pse_trigger")} \union Columns(Pdp, PdpNames)
    BY <1>5, AllPdpIs
  <2> QED BY <1>2, <2>1
<1> QED BY <1>1, <1>3, <1>4, <1>5

LEMMA StepsMake ==
  ASSUME NEW s \in Stores, NEW p \in 1..VERSION[s] PROVE Made(Steps[s][p]) \subseteq All(s)
BY BroughtBy DEF All

LEMMA ReleaseIs ==
  ASSUME NEW s \in Stores, NEW v \in 1..VERSION[s]
  PROVE  /\ Release(s, v) \subseteq First(s) \union Brought(s, v)
                                      \union (IF s = "sms_mms" /\ v \in 18..32 THEN OldTriggers ELSE {})
         /\ (First(s) \union Brought(s, v)) \ Columns("mms_info", UpgradedView) \subseteq Release(s, v)
         /\ s # "sms_mms" \/ v >= 30 => First(s) \union Brought(s, v) \subseteq Release(s, v)
<1> DEFINE stepped == First(s) \union Brought(s, v)
           seen == {o \in stepped : o[1] = "mms_info" => \E t \in {Sms, Rcs} : <<t, o[2]>> \in stepped}
           old == IF s = "sms_mms" /\ v \in 18..32 THEN OldTriggers ELSE {}
           columns == Columns("mms_info", UpgradedView)
<1>1. Release(s, v) = seen \union old
  BY DEF Release, First, Brought
<1>2. VERSION[s] \in Nat \ {0}
  BY Versions
<1>3. stepped \subseteq All(s)
  BY <1>2, BroughtLater DEF All
<1>4. \A o \in stepped : o[1] = "mms_info" => s = "sms_mms" /\ o \in columns
  BY <1>3, ViewColumns
<1>5. ASSUME s = "sms_mms", v >= 30, NEW o \in columns
      PROVE  \E t \in {Sms, Rcs} : <<t, o[2]>> \in stepped
  <2>1. Brought("sms_mms", 30) \subseteq stepped
    BY <1>5, BroughtLater
  <2> HIDE DEF stepped
  <2>2. o[2] \in UpgradedView
    BY DEF Columns
  <2>3. o[2] \in SmsNames \union RcsNames
    BY <2>2 DEF UpgradedView, SmsNames, RcsNames
  <2>4. <<Sms, o[2]>> \in Columns(Sms, SmsNames) \/ <<Rcs, o[2]>> \in Columns(Rcs, RcsNames)
    BY <2>3 DEF Columns
  <2> QED BY <2>1, <2>4, SmsColumnsBrought
<1> HIDE DEF stepped, old, columns
<1>6. seen \subseteq stepped /\ stepped \ columns \subseteq seen
  BY <1>4
<1>7. s # "sms_mms" \/ v >= 30 => stepped \subseteq seen
  BY <1>4, <1>5
<1> QED BY <1>1, <1>6, <1>7 DEF stepped, old, columns

LEMMA WantedIs == ASSUME NEW s \in Stores PROVE Wanted[s] = All(s)
<1>1. VERSION[s] \in 1..VERSION[s]
  BY Versions
<1>2. VERSION[s] >= 30 \/ s # "sms_mms"
  BY Version35
<1>3. ~(s = "sms_mms" /\ VERSION[s] \in 18..32)
  BY Version35
<1>4. Release(s, VERSION[s]) = All(s)
  BY <1>1, <1>2, <1>3, ReleaseIs DEF All
<1>5. Schema(s) \subseteq All(s)
  <2>1. {Creation[s][i] : i \in DOMAIN Creation[s]} = Items(Creation[s])
    BY DEF Items
  <2>2. \A x \in Items(Creation[s]) : x.make \subseteq All(s)
    BY CreationMade, MadeIs DEF Makes
  <2> QED BY <2>1, <2>2 DEF Schema, Executed, Left, Effective, Able
<1> QED BY <1>4, <1>5 DEF Wanted

-----------------------------------------------------------------------------
(* What a schema still lacks is made by the steps p and later, or is gone: *)
(* a statement about it failed.                                            *)
Owed(s, p) == UNION {Made(Steps[s][q]) : q \in p..VERSION[s]}
Upgradable(s, schema, p, gone) == All(s) \subseteq schema \union gone \union Owed(s, p)

LEMMA OwedStep ==
  ASSUME NEW s \in Stores, NEW p \in 1..VERSION[s]
  PROVE  Owed(s, p) = Made(Steps[s][p]) \union Owed(s, p + 1)
<1>1. VERSION[s] \in Nat \ {0}
  BY Versions
<1>2. p..VERSION[s] = {p} \union ((p + 1)..VERSION[s])
  BY <1>1
<1> QED BY <1>2 DEF Owed

LEMMA OwedEarlier ==
  ASSUME NEW s \in Stores, NEW p \in Nat, NEW v \in Nat, v <= p PROVE Owed(s, p) \subseteq Owed(s, v)
BY DEF Owed

LEMMA OwedNone == ASSUME NEW s \in Stores PROVE Owed(s, VERSION[s] + 1) = {}
BY Versions DEF Owed

(* What a step runs; all but step 7 bring what they make, and what step 7  *)
(* makes comes again.                                                      *)
Steady(s, p, stmts) ==
  /\ IsSeq(stmts)
  /\ Drops(Items(stmts)) \subseteq Makes(Items(stmts)) \union OldTriggers
  /\ Makes(Items(stmts)) = Made(Steps[s][p])
  /\ \A w \in Makes(Items(stmts)) : Brings(Items(stmts), w) \/ w \in Owed(s, p + 1)

LEMMA StepSteady == ASSUME NEW s \in Stores, NEW p \in 2..VERSION[s] PROVE Steady(s, p, Steps[s][p])
<1>1. CASE s = "sms_mms" /\ p = 7
  <2>1. Steps[s][p] = Seven
    BY <1>1, SmsStepsAre, StepsByNumber
  <2>2. Made(Seven) = ViewObjects
    BY <1>1, <2>1, SmsMade2To7, StepsByNumber
  <2>3. ViewObjects \subseteq Owed(s, 8)
    <3>1. 30 \in 8..VERSION["sms_mms"] /\ ViewObjects \subseteq Made(Steps["sms_mms"][30])
      BY Version35, SmsMade19To35, SmsStepsAre
    <3> QED BY <1>1, <3>1 DEF Owed
  <2> QED BY <1>1, <2>1, <2>2, <2>3, SevenRuns, MadeIs DEF Steady
<1>2. CASE ~(s = "sms_mms" /\ p = 7)
  <2>1. Tidy(Steps[s][p])
    BY <1>2, TidySteps
  <2> QED BY <2>1, MadeIs DEF Steady, Tidy
<1> QED BY <1>1, <1>2

LEMMA SteadyRuns ==
  ASSUME NEW s \in Stores, NEW p \in 1..VERSION[s], NEW stmts, Steady(s, p, stmts), NEW o \in Outcomes(stmts), NEW gone
  PROVE  /\ ~Cut(stmts, o) /\ Upgradable(s, db.schema, p, gone) =>
              Upgradable(s, Executed(db.schema, Ran(stmts, o)), p + 1, gone \union Unmade(stmts, o))
         /\ \A v \in 1..p : Upgradable(s, db.schema, v, gone) =>
              Upgradable(s, Executed(db.schema, Ran(stmts, o)), v, gone)
         /\ OldTriggers \intersect db.schema = {} =>
              OldTriggers \intersect Executed(db.schema, Ran(stmts, o)) = {}
<1> DEFINE E == Executed(db.schema, Ran(stmts, o))
           S == Items(stmts)
           U == Unmade(stmts, o)
<1>1. /\ IsSeq(stmts) /\ Drops(S) \subseteq Makes(S) \union OldTriggers
      /\ Makes(S) = Made(Steps[s][p])
      /\ \A w \in Makes(S) : Brings(S, w) \/ w \in Owed(s, p + 1)
  BY DEF Steady
<1>2. \A w \in db.schema : w \notin Drops(S) => w \in E
  BY <1>1, RunKeeps
<1>3. ~Cut(stmts, o) => \A w : Brings(S, w) => w \in E \union U
  BY <1>1, RunBrings
<1>4. \A w : w \notin db.schema /\ w \notin Makes(S) => w \notin E
  BY <1>1, RunMakesNot
<1>5. OldTriggers \intersect All(s) = {} /\ Makes(S) \subseteq All(s) /\ Owed(s, p) = Makes(S) \union Owed(s, p + 1)
  BY <1>1, NoOldTriggers, StepsMake, OwedStep
<1>6. \A v \in 1..p : Owed(s, p) \subseteq Owed(s, v)
  <2>1. VERSION[s] \in Nat
    BY Versions
  <2> QED BY <2>1, OwedEarlier
<1> HIDE DEF E, S, U
<1>7. ASSUME ~Cut(stmts, o), Upgradable(s, db.schema, p, gone) PROVE Upgradable(s, E, p + 1, gone \union U)
  <2> SUFFICES ASSUME NEW w \in All(s) PROVE w \in E \union gone \union U \union Owed(s, p + 1)
    BY DEF Upgradable
  <2>1. w \in db.schema \union gone \union Makes(S) \union Owed(s, p + 1)
    BY <1>5, <1>7 DEF Upgradable
  <2>2. w \notin OldTriggers
    BY <1>5
  <2> QED BY <1>1, <1>2, <1>3, <1>7, <2>1, <2>2
<1>8. ASSUME NEW v \in 1..p, Upgradable(s, db.schema, v, gone) PROVE Upgradable(s, E, v, gone)
  <2> SUFFICES ASSUME NEW w \in All(s) PROVE w \in E \union gone \union Owed(s, v)
    BY DEF Upgradable
  <2>1. w \in db.schema \union gone \union Owed(s, v)
    BY <1>8 DEF Upgradable
  <2>2. w \notin OldTriggers
    BY <1>5
  <2> QED BY <1>1, <1>2, <1>5, <1>6, <2>1, <2>2
<1>9. OldTriggers \intersect db.schema = {} => OldTriggers \intersect E = {}
  BY <1>4, <1>5
<1> QED BY <1>7, <1>8, <1>9 DEF E, U

-----------------------------------------------------------------------------
(* The schema of a file that a creation has begun: what keeps a statement  *)
(* from being run came with all that the statement makes.                  *)
Begun(s, schema, gone) ==
  \A x \in Items(Creation[s]) : x.unless \intersect schema # {} => x.make \subseteq schema \union gone

LEMMA CreationRuns ==
  ASSUME NEW s \in Stores, NEW o \in Outcomes(Creation[s]), NEW gone, Begun(s, db.schema, gone)
  PROVE  /\ ~Cut(Creation[s], o) =>
              All(s) \subseteq Executed(db.schema, Ran(Creation[s], o)) \union gone \union Unmade(Creation[s], o)
         /\ Begun(s, Executed(db.schema, Ran(Creation[s], o)), gone)
         /\ OldTriggers \intersect db.schema = {} =>
              OldTriggers \intersect Executed(db.schema, Ran(Creation[s], o)) = {}
<1> DEFINE stmts == Creation[s]
           R == Ran(stmts, o)
           E == Executed(db.schema, R)
           S == Items(stmts)
           U == Unmade(stmts, o)
<1>1. /\ IsSeq(stmts) /\ Makes(S) = All(s)
      /\ \A x \in S : x.unless = {} \/ x.make \intersect Drops(S) = {}
      /\ \A x, y \in S : x.unless \intersect y.make # {} => x.make \subseteq y.make
  BY CreationMade, MadeIs DEF Creates
<1>2. \A w \in db.schema : w \notin Drops(S) => w \in E
  BY <1>1, RunKeeps
<1>3. ~Cut(stmts, o) => \A x \in S : x \in R \/ x.make \subseteq U
  BY <1>1, RunsAll
<1>4. \A w : w \notin db.schema /\ w \notin Makes(S) => w \notin E
  BY <1>1, RunMakesNot
<1>5. R \subseteq S /\ Refused(db.schema, R) \subseteq U
  BY <1>1, RanItems DEF Unmade
<1>6. \A x \in S : x.unless \intersect db.schema # {} => x.make \subseteq E \union gone
  BY <1>1, <1>2 DEF Begun
<1> HIDE DEF R, S, U, stmts
<1>7. Left(db.schema, R) \subseteq db.schema
  BY DEF Left
<1>8. ASSUME ~Cut(stmts, o), NEW w \in All(s) PROVE w \in E \union gone \union U
  <2>1. PICK x \in S : w \in x.make
    BY <1>1 DEF Makes
  <2>2. CASE x \in Effective(db.schema, R)
    BY <2>1, <2>2 DEF Executed
  <2>3. CASE x \in R /\ ~(x.on \subseteq Ground(db.schema, R))
    BY <1>5, <2>1, <2>3 DEF Refused
  <2>4. CASE x.unless \intersect db.schema # {}
    BY <1>6, <2>1, <2>4
  <2>5. CASE x \notin R
    BY <1>3, <1>8, <2>1, <2>5
  <2>6. x \in R /\ x.on \subseteq Ground(db.schema, R) /\ x.unless \intersect db.schema = {}
          => x \in Effective(db.schema, R)
    BY <1>7 DEF Effective, Able
  <2> QED BY <2>2, <2>3, <2>4, <2>5, <2>6
<1>9. ASSUME NEW x \in S, x.unless \intersect E # {} PROVE x.make \subseteq E \union gone
  <2>1. CASE x.unless \intersect db.schema # {}
    BY <1>6, <2>1
  <2>2. CASE x.unless \intersect db.schema = {}
    <3>1. PICK y \in Effective(db.schema, R) : x.unless \intersect y.make # {}
      BY <1>7, <1>9, <2>2 DEF Executed
    <3>2. y \in S
      BY <1>5, <3>1 DEF Effective, Able
    <3>3. x.make \subseteq y.make
      BY <1>1, <3>1, <3>2
    <3> QED BY <3>1, <3>3 DEF Executed
  <2> QED BY <2>1, <2>2
<1>10. OldTriggers \intersect db.schema = {} => OldTriggers \intersect E = {}
  BY <1>1, <1>4, NoOldTriggers
<1>11. Begun(s, E, gone)
  BY <1>9 DEF Begun, S, stmts
<1> QED BY <1>8, <1>10, <1>11 DEF E, R, U, stmts

-----------------------------------------------------------------------------
(* The schema of a store of the present version, before OnOpen has checked *)
(* it: a store of the messages may have lost indexes, or the whole view.   *)
Loose(s, schema, gone) ==
  IF s = "sms_mms"
  THEN All(s) \ (Indexes \union ViewObjects) \subseteq schema \union gone /\ ViewWhole(schema, gone)
  ELSE All(s) \subseteq schema \union gone
(* And after it: SchemaComplete, of any schema.                            *)
Missing(s, schema) == (All(s) \ schema) \union (OldTriggers \intersect schema)
Full(s, schema, gone, repairs) ==
  /\ Missing(s, schema) \subseteq gone
  /\ s = "sms_mms" => Missing(s, schema) \intersect Checked \subseteq repairs

LEMMA LackingIs == ASSUME store \in Stores, NEW d PROVE Lacking(d) = Missing(store, d.schema)
BY WantedIs DEF Lacking, Missing

LEMMA ViewIsOf == ViewObjects \subseteq All("sms_mms") /\ Indexes \subseteq All("sms_mms") /\ View \in ViewObjects
BY AllSmsIs DEF AllSms, ViewObjects

LEMMA AllLoose ==
  ASSUME NEW s \in Stores, NEW schema, NEW gone, All(s) \subseteq schema \union gone PROVE Loose(s, schema, gone)
BY ViewIsOf DEF Loose, ViewWhole

(* Statements OnOpen may run: they drop nothing but these.                 *)
Repairing(stmts) ==
  /\ IsSeq(stmts)
  /\ Drops(Items(stmts)) \subseteq Indexes \union ViewObjects \union OldTriggers
  /\ ViewTogether(Items(stmts))

LEMMA RepairingRuns ==
  ASSUME NEW stmts, Repairing(stmts), NEW o \in Outcomes(stmts), NEW schema, NEW gone,
         Loose("sms_mms", schema, gone)
  PROVE  Loose("sms_mms", Executed(schema, Ran(stmts, o)), gone)
<1> DEFINE E == Executed(schema, Ran(stmts, o))
           D == Drops(Items(stmts))
<1>1. D \subseteq Indexes \union ViewObjects \union OldTriggers
  BY DEF Repairing
<1>2. \A w \in schema : w \notin D => w \in E
  BY RunKeeps DEF Repairing
<1>3. OldTriggers \intersect All("sms_mms") = {}
  BY NoOldTriggers DEF Stores
<1>4. ViewWhole(E, gone)
  BY RunView DEF Repairing, Loose
<1> HIDE DEF D, E
<1>5. All("sms_mms") \ (Indexes \union ViewObjects) \subseteq E \union gone
  BY <1>1, <1>2, <1>3 DEF Loose
<1> QED BY <1>4, <1>5 DEF Loose, E

(* The tables IsDbComplete counts are not among them, and neither are the  *)
(* columns it looks for.                                                   *)
LEMMA CountedApart ==
  /\ CountedTables \subseteq {Table(t) : t \in TableNames}
  /\ CountedTables \intersect (Indexes \union ViewObjects \union OldTriggers) = {}
<1>1. CountedTables \subseteq {Table(t) : t \in TableNames}
  BY DEF CountedTables, TableNames
<1>2. \A t : Table(t) \notin OldTriggers
  BY DEF Table, OldTriggers, Trigger
<1> QED BY <1>1, <1>2, RenewIndexesAre, SMT DEF ViewObjects, View, Table, Columns

FieldsLooked ==
  {<<Sms, "blocked_pref_number">>, <<Rcs, "blocked_pref_number">>, <<Session, "blocked_type">>,
   <<Part, "is_fraud">>, <<Part, "reference_count">>, <<Session, "pinning_time">>}
LEMMA AddColumnIs ==
  ASSUME NEW t, NEW n
  PROVE  AddColumn(t, n).make = {<<t, n>>} /\ AddColumn(t, n).drop = {} /\ AddColumn(t, n).unless = {}
BY DEF AddColumn, Statement

LEMMA CheckedFieldsAre ==
  CheckedFields = FieldsLooked /\ FieldsLooked \intersect (Indexes \union ViewObjects \union OldTriggers) = {}
<1>1. Made(ViewFields) = {<<Sms, "blocked_pref_number">>, <<Rcs, "blocked_pref_number">>}
  <2>1. Items(ViewFields) = {AddColumn(Sms, "blocked_pref_number"), AddColumn(Rcs, "blocked_pref_number")}
    BY TwoItems DEF ViewFields
  <2>2. \A a, b : Makes({a, b}) = a.make \union b.make
    BY DEF Makes
  <2> QED BY <2>1, <2>2, MadeIs, AddColumnIs
<1>2. Made(OtherFields) = {<<Session, "blocked_type">>, <<Part, "is_fraud">>, <<Part, "reference_count">>,
                           <<Session, "pinning_time">>}
  <2>1. Items(OtherFields) = {AddColumn(Session, "blocked_type"), AddColumn(Part, "is_fraud"),
                              AddColumn(Part, "reference_count"), AddColumn(Session, "pinning_time")}
    BY FourItems DEF OtherFields
  <2>2. \A a, b, c, d : Makes({a, b, c, d}) = a.make \union b.make \union c.make \union d.make
    BY DEF Makes
  <2> QED BY <2>1, <2>2, MadeIs, AddColumnIs
<1>3. \A t \in {Sms, Rcs, Session, Part} : \A n : <<t, n>> \notin Indexes /\ <<t, n>> \notin ViewObjects
                                             /\ <<t, n>> \notin OldTriggers
  BY IndexesAre DEF Sms, Rcs, Session, Part, Index, ViewObjects, View, Columns, OldTriggers, Trigger
<1>4. CheckedFields = FieldsLooked
  BY <1>1, <1>2 DEF CheckedFields, FieldsLooked
<1>5. \A w \in FieldsLooked : w \notin Indexes /\ w \notin ViewObjects /\ w \notin OldTriggers
  BY <1>3 DEF FieldsLooked
<1> QED BY <1>4, <1>5

(* The first branch of OnOpen: a store is given all statements of a new one.*)
LEMMA CreationRepairs ==
  /\ Repairing(InitCreateTableVec)
  /\ Drops(Items(InitCreateTableVec)) \intersect CountedTables = {}
  /\ \A w \in CountedTables : Brings(Items(InitCreateTableVec), w)
<1>1. Creates(InitCreateTableVec)
  BY SmsCreates
<1>2. Repairing(InitCreateTableVec)
  BY <1>1 DEF Creates, Repairing
<1>3. Drops(Items(InitCreateTableVec)) \intersect CountedTables = {}
  BY <1>1, CountedApart DEF Creates
<1>4. ASSUME NEW w \in CountedTables PROVE Brings(Items(InitCreateTableVec), w)
  <2>1. PICK t \in TableNames : w = Table(t)
    BY CountedApart
  <2> DEFINE x == CreateTable(t, NamesOf(t))
  <2>2. x \in Items(InitCreateTableVec)
    BY CreationItems, SmsCreatedAre
  <2>3. x.unless = {w} /\ w \in x.make
    BY <2>1, TableCreated
  <2> HIDE DEF x
  <2> QED BY <2>2, <2>3 DEF Brings
<1> QED BY <1>2, <1>3, <1>4

LEMMA RanAll ==
  ASSUME NEW stmts, IsSeq(stmts)
  PROVE  \E o \in Outcomes(stmts) : Ran(stmts, o) = Items(stmts) /\ ~Cut(stmts, o)
<1>1. Len(stmts) \in Nat /\ DOMAIN stmts = 1..Len(stmts)
  BY DEF IsSeq
<1> DEFINE o == <<Len(stmts), 0>>
<1>2. o \in Outcomes(stmts) /\ ~Cut(stmts, o)
  BY <1>1 DEF Outcomes, Cut
<1>3. (1..o[1]) \ {o[2]} = DOMAIN stmts
  BY <1>1
<1>4. Ran(stmts, o) = Items(stmts)
  BY <1>3 DEF Ran, Items
<1> QED BY <1>2, <1>4

LEMMA JoinFive ==
  ASSUME NEW a, NEW b, NEW c, NEW d, NEW e, IsSeq(a), IsSeq(b), IsSeq(c), IsSeq(d), IsSeq(e)
  PROVE  /\ IsSeq(a \o b \o c \o d \o e)
         /\ Items(a \o b \o c \o d \o e) = Items(a) \union Items(b) \union Items(c) \union Items(d) \union Items(e)
<1>1. IsSeq(a \o b) /\ Items(a \o b) = Items(a) \union Items(b)
  BY ItemsJoin
<1>2. IsSeq(a \o b \o c) /\ Items(a \o b \o c) = Items(a \o b) \union Items(c)
  BY <1>1, ItemsJoin
<1>3. IsSeq(a \o b \o c \o d) /\ Items(a \o b \o c \o d) = Items(a \o b \o c) \union Items(d)
  BY <1>2, ItemsJoin
<1>4. IsSeq(a \o b \o c \o d \o e) /\ Items(a \o b \o c \o d \o e) = Items(a \o b \o c \o d) \union Items(e)
  BY <1>3, ItemsJoin
<1> QED BY <1>1, <1>2, <1>3, <1>4

(* The checks of the columns.                                              *)
Renewing(x) ==
  /\ x.drop \subseteq ViewObjects
  /\ View \in x.make => ViewObjects \subseteq x.make
  /\ x.drop \intersect ViewObjects # {} => View \in x.drop

LEMMA RenewsView == IsSeq(RenewView) /\ \A x \in Items(RenewView) : Renewing(x)
<1>1. /\ DropView.drop = ViewObjects /\ DropView.make = {} /\ View \in ViewObjects
      /\ CreateView(UpgradedView).make = ViewObjects /\ CreateView(UpgradedView).drop = {}
  BY DEF DropView, Drop, CreateView, Statement, ViewObjects
<1>2. Renewing(DropView) /\ Renewing(CreateView(UpgradedView))
  BY <1>1 DEF Renewing
<1>3. IsSeq(RenewView) /\ Items(RenewView) = {DropView, CreateView(UpgradedView)}
  BY TwoItems DEF RenewView
<1> QED BY <1>2, <1>3

LEMMA FieldsDo ==
  ASSUME NEW unseen
  PROVE  /\ Repairing(Fields(unseen)) /\ Drops(Items(Fields(unseen))) \subseteq ViewObjects
         /\ \A c \in CheckedFields : c \in db.schema \/ Brings(Items(Fields(unseen)), c)
<1> DEFINE Check(s, more) == IF s.make \subseteq db.schema \ unseen THEN <<>> ELSE <<s>> \o more
           Sound1(list) == IsSeq(list) /\ \A x \in Items(list) : Renewing(x)
           Adds(list, t, n) == <<t, n>> \in db.schema \/ AddColumn(t, n) \in Items(list)
<1>1. Fields(unseen) = Check(ViewFields[1], RenewView) \o Check(ViewFields[2], RenewView)
       \o Check(OtherFields[1], <<>>) \o Check(OtherFields[2], <<>>)
       \o Check(OtherFields[3], <<>>) \o Check(OtherFields[4], <<>>)
  BY DEF Fields
<1>2. /\ ViewFields[1] = AddColumn(Sms, "blocked_pref_number") /\ ViewFields[2] = AddColumn(Rcs, "blocked_pref_number")
      /\ OtherFields[1] = AddColumn(Session, "blocked_type") /\ OtherFields[2] = AddColumn(Part, "is_fraud")
      /\ OtherFields[3] = AddColumn(Part, "reference_count") /\ OtherFields[4] = AddColumn(Session, "pinning_time")
  BY DEF ViewFields, OtherFields
<1>3. ASSUME NEW t \in {Sms, Rcs, Session, Part}, NEW n, NEW more, Sound1(more)
      PROVE  Sound1(Check(AddColumn(t, n), more)) /\ Adds(Check(AddColumn(t, n), more), t, n)
  <2> DEFINE s == AddColumn(t, n)
  <2>1. s.make = {<<t, n>>} /\ s.drop = {}
    BY AddColumnIs
  <2>2. <<t, n>> # View
    BY DEF Sms, Rcs, Session, Part, View
  <2> HIDE DEF s
  <2>3. Renewing(s)
    BY <2>1, <2>2 DEF Renewing
  <2>4. CASE s.make \subseteq db.schema \ unseen
    <3>1. IsSeq(<<>>) /\ Items(<<>>) = {}
      BY DEF IsSeq, Items
    <3> QED BY <2>1, <2>4, <3>1 DEF s
  <2>5. CASE ~(s.make \subseteq db.schema \ unseen)
    <3>1. IsSeq(<<s>>) /\ Items(<<s>>) = {s}
      BY OneItem
    <3>2. IsSeq(<<s>> \o more) /\ Items(<<s>> \o more) = {s} \union Items(more)
      BY <1>3, <3>1, ItemsJoin
    <3>3. Check(s, more) = <<s>> \o more
      BY <2>5
    <3>4. Sound1(Check(s, more)) /\ s \in Items(Check(s, more))
      BY <1>3, <2>3, <3>2, <3>3
    <3> QED BY <3>4 DEF s
  <2> QED BY <2>4, <2>5
<1>4. Sound1(RenewView) /\ Sound1(<<>>)
  <2>1. IsSeq(<<>>) /\ Items(<<>>) = {}
    BY DEF IsSeq, Items
  <2> QED BY <2>1, RenewsView
<1> DEFINE a == Check(ViewFields[1], RenewView)
           b == Check(ViewFields[2], RenewView)
           c == Check(OtherFields[1], <<>>)
           d == Check(OtherFields[2], <<>>)
           e == Check(OtherFields[3], <<>>)
           f == Check(OtherFields[4], <<>>)
<1> HIDE DEF Check, Sound1, Adds
<1>5. /\ Sound1(a) /\ Adds(a, Sms, "blocked_pref_number") /\ Sound1(b) /\ Adds(b, Rcs, "blocked_pref_number")
      /\ Sound1(c) /\ Adds(c, Session, "blocked_type") /\ Sound1(d) /\ Adds(d, Part, "is_fraud")
      /\ Sound1(e) /\ Adds(e, Part, "reference_count") /\ Sound1(f) /\ Adds(f, Session, "pinning_time")
  BY <1>2, <1>3, <1>4
<1> HIDE DEF a, b, c, d, e, f
<1> DEFINE all == a \o b \o c \o d \o e
<1>6. IsSeq(a) /\ IsSeq(b) /\ IsSeq(c) /\ IsSeq(d) /\ IsSeq(e) /\ IsSeq(f)
  BY <1>5 DEF Sound1
<1>7. IsSeq(all) /\ Items(all) = Items(a) \union Items(b) \union Items(c) \union Items(d) \union Items(e)
  BY <1>6, JoinFive
<1> HIDE DEF all
<1>8. IsSeq(all \o f) /\ Items(all \o f) = Items(all) \union Items(f)
  BY <1>6, <1>7, ItemsJoin
<1>9. Fields(unseen) = all \o f
  BY <1>1 DEF all, a, b, c, d, e, f
<1> DEFINE F == Items(Fields(unseen))
<1>10. /\ IsSeq(Fields(unseen))
       /\ F = Items(a) \union Items(b) \union Items(c) \union Items(d) \union Items(e) \union Items(f)
  BY <1>7, <1>8, <1>9
<1> HIDE DEF F
<1>11. \A x \in F : Renewing(x)
  BY <1>5, <1>10 DEF Sound1
<1>12. Drops(F) \subseteq ViewObjects /\ ViewTogether(F)
  BY <1>11 DEF Renewing, Drops, ViewTogether
<1>13. /\ \A t, n : AddColumn(t, n) \in Items(a) \/ AddColumn(t, n) \in Items(b) \/ AddColumn(t, n) \in Items(c)
                    \/ AddColumn(t, n) \in Items(d) \/ AddColumn(t, n) \in Items(e) \/ AddColumn(t, n) \in Items(f)
                    => Brings(F, <<t, n>>)
  BY <1>10, AddColumnIs DEF Brings
<1>14. \A o \in FieldsLooked : o \in db.schema \/ Brings(F, o)
  BY <1>5, <1>13 DEF Adds, FieldsLooked
<1> QED BY <1>10, <1>12, <1>14, CheckedFieldsAre DEF Repairing, F

(* The checks of the components.                                           *)
LEMMA TriggerIs ==
  ASSUME NEW n, NEW t
  PROVE  /\ CreateTrigger(n, t).make = {Trigger(n)} /\ CreateTrigger(n, t).drop = {}
         /\ CreateTrigger(n, t).unless = {}
BY DEF CreateTrigger, Statement

LEMMA IndexIs ==
  ASSUME NEW n, NEW on
  PROVE  /\ CreateIndex(n, on).make = {Index(n)} /\ CreateIndex(n, on).drop = {} /\ CreateIndex(n, on).unless = {}
BY DEF CreateIndex, Statement

LEMMA ViewIs ==
  /\ CreateView(UpgradedView).make = ViewObjects /\ CreateView(UpgradedView).drop = {}
  /\ CreateView(UpgradedView).unless = {View}
BY DEF CreateView, Statement, ViewObjects

Completed == InsertTriggers \union BlockTriggers \union Indexes \union {View}
Completing(x) ==
  /\ x.drop \subseteq OldTriggers
  /\ x.make \subseteq Completed \union ViewObjects
  /\ View \in x.make => ViewObjects \subseteq x.make

LEMMA CompletedApart ==
  /\ (Completed \union ViewObjects) \intersect OldTriggers = {}
  /\ OldTriggers \intersect ViewObjects = {}
<1>1. Completed \union ViewObjects \subseteq All("sms_mms")
  BY ViewIsOf, AllSmsIs DEF AllSms, Completed
<1>2. OldTriggers \intersect All("sms_mms") = {}
  BY NoOldTriggers DEF Stores
<1> QED BY <1>1, <1>2

LEMMA ComponentsDo ==
  ASSUME NEW unseen
  PROVE  /\ Repairing(Components(unseen)) /\ Drops(Items(Components(unseen))) \subseteq OldTriggers
         /\ \A o \in Completed : o \in db.schema \/ Brings(Items(Components(unseen)), o)
         /\ View \in db.schema \/ CreateView(UpgradedView) \in Items(Components(unseen))
         /\ \A o \in OldTriggers : o \in db.schema \ unseen => \E x \in Items(Components(unseen)) : o \in x.drop
         /\ Makes(Items(Components(unseen))) \intersect OldTriggers = {}
<1> DEFINE Check(s, o) == IF o \in db.schema \ unseen THEN <<>> ELSE <<s>>
           Obsolete(n) == IF Trigger(n) \in db.schema \ unseen THEN <<Drop({Trigger(n)})>> ELSE <<>>
           Sound1(list) == IsSeq(list) /\ \A x \in Items(list) : Completing(x)
           Makes1(list, s, o) == o \in db.schema \/ s \in Items(list)
           Loses(list, o) == o \in db.schema \ unseen => \E x \in Items(list) : o \in x.drop
           a == Check(InsertSmsTrigger, Trigger("insertSms_unread_count"))
           b == Check(InsertRcsTrigger, Trigger("insertRcs_unread_count"))
           c == Check(UpdateBlockSmsTrigger, Trigger("updateBlockSms_unread_count"))
           d == Check(UpdateBlockRcsTrigger, Trigger("updateBlockRcs_unread_count"))
           e == Obsolete("updateSms_unread_count")
           f == Obsolete("updateRcs_unread_count")
           g == Check(CreateView(UpgradedView), View)
           h == Check(SessionIndex, Index("session_time_IDX"))
           i == Check(SmsIndex, Index("sms_mms_info_sessionId_IDX"))
           j == Check(RcsIndex, Index("rcs_info_sessionId_IDX"))
<1>1. Components(unseen) = a \o b \o c \o d \o e \o f \o g \o h \o i \o j
  BY DEF Components
<1>2. IsSeq(<<>>) /\ Items(<<>>) = {}
  BY DEF IsSeq, Items
<1>3. ASSUME NEW s, NEW o, Completing(s) PROVE Sound1(Check(s, o)) /\ Makes1(Check(s, o), s, o)
  <2>1. IsSeq(<<s>>) /\ Items(<<s>>) = {s}
    BY OneItem
  <2> QED BY <1>2, <1>3, <2>1
<1>4. ASSUME NEW n, Trigger(n) \in OldTriggers PROVE Sound1(Obsolete(n)) /\ Loses(Obsolete(n), Trigger(n))
  <2> DEFINE s == Drop({Trigger(n)})
  <2>1. s.drop = {Trigger(n)} /\ s.make = {}
    BY DEF Drop, Statement
  <2> HIDE DEF s
  <2>2. IsSeq(<<s>>) /\ Items(<<s>>) = {s} /\ Completing(s)
    BY <1>4, <2>1, OneItem DEF Completing
  <2>3. CASE Trigger(n) \in db.schema \ unseen
    <3>1. Obsolete(n) = <<s>>
      BY <2>3 DEF s
    <3> QED BY <2>1, <2>2, <3>1
  <2>4. CASE Trigger(n) \notin db.schema \ unseen
    <3>1. Obsolete(n) = <<>>
      BY <2>4
    <3> QED BY <1>2, <2>4, <3>1
  <2> QED BY <2>3, <2>4
<1>5. /\ Completing(InsertSmsTrigger) /\ Completing(InsertRcsTrigger) /\ Completing(UpdateBlockSmsTrigger)
      /\ Completing(UpdateBlockRcsTrigger)
  <2>1. \A n : Trigger(n) # View
    BY DEF Trigger, View
  <2> QED BY <2>1, TriggerIs DEF Completing, Completed, InsertTriggers, BlockTriggers,
          InsertSmsTrigger, InsertRcsTrigger,
                   UpdateBlockSmsTrigger, UpdateBlockRcsTrigger
<1>6. Completing(SessionIndex) /\ Completing(SmsIndex) /\ Completing(RcsIndex)
  <2>1. \A n : Index(n) # View
    BY DEF Index, View
  <2> QED BY <2>1, IndexIs, IndexesAre DEF Completing, Completed, SessionIndex, SmsIndex, RcsIndex, IndexNames
<1>7. Completing(CreateView(UpgradedView))
  BY ViewIs DEF Completing
<1>8. Trigger("updateSms_unread_count") \in OldTriggers /\ Trigger("updateRcs_unread_count") \in OldTriggers
  BY DEF OldTriggers
<1> HIDE DEF Check, Obsolete, Sound1, Makes1, Loses
<1>9. /\ Sound1(a) /\ Makes1(a, InsertSmsTrigger, Trigger("insertSms_unread_count"))
      /\ Sound1(b) /\ Makes1(b, InsertRcsTrigger, Trigger("insertRcs_unread_count"))
      /\ Sound1(c) /\ Makes1(c, UpdateBlockSmsTrigger, Trigger("updateBlockSms_unread_count"))
      /\ Sound1(d) /\ Makes1(d, UpdateBlockRcsTrigger, Trigger("updateBlockRcs_unread_count"))
      /\ Sound1(e) /\ Loses(e, Trigger("updateSms_unread_count"))
      /\ Sound1(f) /\ Loses(f, Trigger("updateRcs_unread_count"))
  BY <1>3, <1>4, <1>5, <1>8
<1>10. /\ Sound1(g) /\ Makes1(g, CreateView(UpgradedView), View)
       /\ Sound1(h) /\ Makes1(h, SessionIndex, Index("session_time_IDX"))
       /\ Sound1(i) /\ Makes1(i, SmsIndex, Index("sms_mms_info_sessionId_IDX"))
       /\ Sound1(j) /\ Makes1(j, RcsIndex, Index("rcs_info_sessionId_IDX"))
  BY <1>3, <1>6, <1>7
<1> HIDE DEF a, b, c, d, e, f, g, h, i, j
<1> DEFINE k == a \o b \o c \o d \o e
           l == k \o f \o g \o h \o i
           F == Items(Components(unseen))
<1>11. /\ IsSeq(a) /\ IsSeq(b) /\ IsSeq(c) /\ IsSeq(d) /\ IsSeq(e)
       /\ IsSeq(f) /\ IsSeq(g) /\ IsSeq(h) /\ IsSeq(i) /\ IsSeq(j)
  BY <1>9, <1>10 DEF Sound1
<1>12. IsSeq(k) /\ Items(k) = Items(a) \union Items(b) \union Items(c) \union Items(d) \union Items(e)
  BY <1>11, JoinFive
<1>13. Components(unseen) = l \o j
  BY <1>1
<1> HIDE DEF k
<1>14. IsSeq(l) /\ Items(l) = Items(k) \union Items(f) \union Items(g) \union Items(h) \union Items(i)
  BY <1>11, <1>12, JoinFive
<1> HIDE DEF l
<1>15. IsSeq(l \o j) /\ Items(l \o j) = Items(l) \union Items(j)
  BY <1>11, <1>14, ItemsJoin
<1>16. /\ IsSeq(Components(unseen))
       /\ F = Items(a) \union Items(b) \union Items(c) \union Items(d) \union Items(e)
                \union Items(f) \union Items(g) \union Items(h) \union Items(i) \union Items(j)
  BY <1>12, <1>13, <1>14, <1>15
<1> HIDE DEF F
<1>17. \A x \in F : Completing(x)
  BY <1>9, <1>10, <1>16 DEF Sound1
<1>18. Drops(F) \subseteq OldTriggers /\ Makes(F) \intersect OldTriggers = {} /\ ViewTogether(F)
  BY <1>17, CompletedApart DEF Completing, Drops, Makes, ViewTogether
<1>19. View \in db.schema \/ CreateView(UpgradedView) \in F
  BY <1>10, <1>16 DEF Makes1
<1>20. View \in db.schema \/ Brings(F, View)
  <2>1. View \in ViewObjects
    BY ViewIsOf
  <2> QED BY <1>19, <2>1, ViewIs DEF Brings
<1>21. \A o \in InsertTriggers \union BlockTriggers : o \in db.schema \/ Brings(F, o)
  <2>1. \A n : \A s \in F : s.make = {Trigger(n)} /\ s.unless = {} => Brings(F, Trigger(n))
    BY DEF Brings
  <2>2. /\ InsertSmsTrigger.make = {Trigger("insertSms_unread_count")} /\ InsertSmsTrigger.unless = {}
        /\ InsertRcsTrigger.make = {Trigger("insertRcs_unread_count")} /\ InsertRcsTrigger.unless = {}
        /\ UpdateBlockSmsTrigger.make = {Trigger("updateBlockSms_unread_count")} /\ UpdateBlockSmsTrigger.unless = {}
        /\ UpdateBlockRcsTrigger.make = {Trigger("updateBlockRcs_unread_count")} /\ UpdateBlockRcsTrigger.unless = {}
    BY TriggerIs DEF InsertSmsTrigger, InsertRcsTrigger, UpdateBlockSmsTrigger, UpdateBlockRcsTrigger
  <2>3. /\ Trigger("insertSms_unread_count") \in db.schema \/ InsertSmsTrigger \in F
        /\ Trigger("insertRcs_unread_count") \in db.schema \/ InsertRcsTrigger \in F
        /\ Trigger("updateBlockSms_unread_count") \in db.schema \/ UpdateBlockSmsTrigger \in F
        /\ Trigger("updateBlockRcs_unread_count") \in db.schema \/ UpdateBlockRcsTrigger \in F
    BY <1>9, <1>16 DEF Makes1
  <2>4. \A n \in {"insertSms_unread_count", "insertRcs_unread_count",
                 "updateBlockSms_unread_count", "updateBlockRcs_unread_count"} :
          Trigger(n) \in db.schema \/ Brings(F, Trigger(n))
    BY <2>1, <2>2, <2>3
  <2> QED BY <2>4 DEF InsertTriggers, BlockTriggers
<1>22. \A o \in Indexes : o \in db.schema \/ Brings(F, o)
  <2>1. \A n : \A s \in F : s.make = {Index(n)} /\ s.unless = {} => Brings(F, Index(n))
    BY DEF Brings
  <2>2. /\ SessionIndex.make = {Index("session_time_IDX")} /\ SessionIndex.unless = {}
        /\ SmsIndex.make = {Index("sms_mms_info_sessionId_IDX")} /\ SmsIndex.unless = {}
        /\ RcsIndex.make = {Index("rcs_info_sessionId_IDX")} /\ RcsIndex.unless = {}
    BY IndexIs DEF SessionIndex, SmsIndex, RcsIndex
  <2>3. /\ Index("session_time_IDX") \in db.schema \/ SessionIndex \in F
        /\ Index("sms_mms_info_sessionId_IDX") \in db.schema \/ SmsIndex \in F
        /\ Index("rcs_info_sessionId_IDX") \in db.schema \/ RcsIndex \in F
    BY <1>10, <1>16 DEF Makes1
  <2>4. \A n \in IndexNames : Index(n) \in db.schema \/ Brings(F, Index(n))
    BY <2>1, <2>2, <2>3 DEF IndexNames
  <2> QED BY <2>4, IndexesAre
<1>23. \A o \in OldTriggers : o \in db.schema \ unseen => \E x \in F : o \in x.drop
  BY <1>9, <1>16 DEF Loses, OldTriggers
<1>24. \A o \in Completed : o \in db.schema \/ Brings(F, o)
  BY <1>20, <1>21, <1>22 DEF Completed
<1> QED BY <1>16, <1>18, <1>19, <1>23, <1>24 DEF Repairing, F

(* An OnOpen that was not cut leaves nothing of what it looks for.         *)
LEMMA ComponentsRun ==
  ASSUME NEW unseen, NEW o \in Outcomes(Components(unseen)), ~Cut(Components(unseen), o),
         NEW gone, NEW repairs, repairs \subseteq gone, Loose("sms_mms", db.schema, gone),
         CountedTables \union CheckedFields \subseteq db.schema \union repairs,
         NEW more, Unmade(Components(unseen), o) \union (unseen \intersect OldTriggers) \subseteq more
  PROVE  Full("sms_mms", Executed(db.schema, Ran(Components(unseen), o)), gone \union more, repairs \union more)
<1> DEFINE stmts == Components(unseen)
           R == Ran(stmts, o)
           E == Executed(db.schema, R)
           S == Items(stmts)
<1>1. /\ IsSeq(stmts) /\ Repairing(stmts) /\ Drops(S) \subseteq OldTriggers
      /\ \A w \in Completed : w \in db.schema \/ Brings(S, w)
      /\ View \in db.schema \/ CreateView(UpgradedView) \in S
      /\ \A w \in OldTriggers : w \in db.schema \ unseen => \E x \in S : w \in x.drop
      /\ Makes(S) \intersect OldTriggers = {}
  BY ComponentsDo DEF Repairing
<1>2. \A w \in db.schema : w \notin Drops(S) => w \in E
  BY <1>1, RunKeeps
<1>3. \A w : Brings(S, w) => w \in E \union more
  BY <1>1, RunBrings
<1>4. \A x \in S : x \in R \/ x.make \union x.drop \subseteq more
  BY <1>1, RunsAll
<1>5. \A w : w \notin db.schema /\ w \notin Makes(S) => w \notin E
  BY <1>1, RunMakesNot
<1>6. OldTriggers \intersect All("sms_mms") = {} /\ View \in ViewObjects /\ ViewObjects \subseteq All("sms_mms")
  BY NoOldTriggers, ViewIsOf DEF Stores
<1>7. R \subseteq S
  BY <1>1, RanItems
<1>8. Loose("sms_mms", E, gone)
  BY <1>1, RepairingRuns
<1> HIDE DEF S, R, stmts
<1>9. ASSUME NEW w \in OldTriggers, w \in E PROVE w \in more
  <2>1. w \in db.schema
    BY <1>1, <1>5, <1>9
  <2>2. CASE w \in unseen
    BY <2>2
  <2>3. CASE w \notin unseen
    <3>1. PICK x \in S : w \in x.drop
      BY <1>1, <2>1, <2>3
    <3>2. x \notin R
      <4>1. \A y \in R : w \notin y.make
        BY <1>1, <1>7 DEF Makes
      <4>2. x \in R => w \notin E
        BY <3>1, <4>1 DEF Executed, Left, Effective, Able
      <4> QED BY <1>9, <4>2
    <3> QED BY <1>4, <3>1, <3>2
  <2> QED BY <2>2, <2>3
<1>10. \A w \in Completed : w \in E \union more
  BY <1>1, <1>2, <1>3, CompletedApart
<1>11. ViewObjects \subseteq E \union gone \union more
  <2>1. CASE View \in db.schema
    <3>1. ViewObjects \subseteq db.schema \union gone
      BY <2>1 DEF Loose, ViewWhole
    <3>2. \A w \in ViewObjects : w \notin Drops(S)
      BY <1>1, CompletedApart
    <3> QED BY <1>2, <3>1, <3>2
  <2>2. CASE View \notin db.schema
    <3> DEFINE x == CreateView(UpgradedView)
    <3>1. x \in S /\ x.unless = {View} /\ x.make = ViewObjects
      BY <1>1, <2>2, ViewIs
    <3>2. x.on = {}
      BY DEF CreateView, Statement
    <3> HIDE DEF x
    <3>3. CASE x \in R
      <4>1. x \in Effective(db.schema, R)
        BY <2>2, <3>1, <3>2, <3>3 DEF Effective, Able, Left
      <4> QED BY <3>1, <4>1 DEF Executed
    <3>4. CASE x \notin R
      BY <1>4, <3>1, <3>4
    <3> QED BY <3>3, <3>4
  <2> QED BY <2>1, <2>2
<1>12. \A w \in CountedTables \union CheckedFields : w \in E \union repairs
  <2>1. \A w \in CountedTables \union CheckedFields : w \notin OldTriggers
    BY CountedApart, CheckedFieldsAre
  <2> QED BY <1>1, <1>2, <2>1
<1>13. All("sms_mms") \ (Indexes \union ViewObjects) \subseteq E \union gone
  BY <1>8 DEF Loose
<1> HIDE DEF E
<1>14. Indexes \subseteq Completed
  BY DEF Completed
<1>15. Missing("sms_mms", E) \subseteq gone \union more
  BY <1>9, <1>10, <1>11, <1>13, <1>14 DEF Missing
<1>16. CheckedComponents = Completed \union OldTriggers
  BY DEF CheckedComponents, Completed
<1>17. Missing("sms_mms", E) \intersect Checked \subseteq repairs \union more
  BY <1>6, <1>9, <1>10, <1>12, <1>16 DEF Missing, Checked
<1> QED BY <1>15, <1>17 DEF Full, E, R, stmts

LEMMA FieldsRun ==
  ASSUME NEW unseen, NEW o \in Outcomes(Fields(unseen)), NEW repairs,
         CountedTables \subseteq db.schema \union repairs,
         NEW more, Unmade(Fields(unseen), o) \subseteq more
  PROVE  /\ CountedTables \subseteq Executed(db.schema, Ran(Fields(unseen), o)) \union repairs
         /\ ~Cut(Fields(unseen), o) =>
              CheckedFields \subseteq Executed(db.schema, Ran(Fields(unseen), o)) \union more
<1> DEFINE E == Executed(db.schema, Ran(Fields(unseen), o))
           S == Items(Fields(unseen))
<1>1. /\ IsSeq(Fields(unseen)) /\ Drops(S) \subseteq ViewObjects
      /\ \A c \in CheckedFields : c \in db.schema \/ Brings(S, c)
  BY FieldsDo DEF Repairing
<1>2. \A w \in db.schema : w \notin Drops(S) => w \in E
  BY <1>1, RunKeeps
<1>3. ~Cut(Fields(unseen), o) => \A w : Brings(S, w) => w \in E \union more
  BY <1>1, RunBrings
<1>4. /\ \A w \in CountedTables : w \notin ViewObjects
      /\ \A w \in CheckedFields : w \notin ViewObjects
  BY CountedApart, CheckedFieldsAre
<1> HIDE DEF E, S
<1>5. CountedTables \subseteq E \union repairs
  BY <1>1, <1>2, <1>4
<1>6. ~Cut(Fields(unseen), o) => CheckedFields \subseteq E \union more
  BY <1>1, <1>2, <1>3, <1>4
<1> QED BY <1>5, <1>6 DEF E

-----------------------------------------------------------------------------
(* The schema of a file of version v, whatever opening it waits for.       *)
Fits(s, v, schema, gone) ==
  /\ s # "sms_mms" => OldTriggers \intersect schema = {}
  /\ v = 0 => Begun(s, schema, gone)
  /\ v \in 1..(VERSION[s] - 1) => Upgradable(s, schema, v + 1, gone)
  /\ v >= VERSION[s] => Loose(s, schema, gone)

(* What has failed so far excuses what a schema lacks.                     *)
Gone == failed \union unrepaired

(* Where an opening is; and an open store is complete.                     *)
OnTheWay ==
  /\ pc \in {"OnUpgrade", "copy", "history"} => at \in 1..VERSION[store] /\ (at > 1 => db.version < at)
  /\ pc = "OnUpgrade" /\ at > 1 => Upgradable(store, db.schema, at, Gone)
  /\ pc \in {"copy", "history"} => at > 1 /\ Upgradable(store, db.schema, at + 1, Gone)
  /\ pc = "SetVersion" => Loose(store, db.schema, Gone)
  /\ pc = "OnDowngrade" => db.version > VERSION[store]
  /\ pc \in {"fields", "components"} => CountedTables \subseteq db.schema \union unrepaired
  /\ pc = "components" => CheckedFields \subseteq db.schema \union unrepaired
  /\ pc \in {"backup", "opened", "ready"} /\ db.version >= VERSION[store] =>
       Full(store, db.schema, Gone, unrepaired)

SchemaInv ==
  /\ Fits(store, db.version, db.schema, Gone)
  /\ Fits(store, bak.version, bak.schema, Gone)
  /\ bak.version >= VERSION[store] => Full(store, bak.schema, Gone, unrepaired)
  /\ OnTheWay

LEMMA FitsLater ==
  ASSUME NEW s, NEW v, NEW schema, NEW gone, NEW more, gone \subseteq more, Fits(s, v, schema, gone)
  PROVE  Fits(s, v, schema, more)
BY DEF Fits, Begun, Upgradable, Loose, ViewWhole

LEMMA FullLater ==
  ASSUME NEW s, NEW schema, NEW gone, NEW more, gone \subseteq more,
         NEW repairs, NEW later, repairs \subseteq later, Full(s, schema, gone, repairs)
  PROVE  Full(s, schema, more, later)
BY DEF Full

(* A step that leaves the backup alone.                                    *)
LEMMA BackupStays ==
  ASSUME SchemaInv, store' = store, bak' = bak, failed \subseteq failed', unrepaired \subseteq unrepaired',
         Fits(store, db'.version, db'.schema, Gone'), OnTheWay'
  PROVE  SchemaInv'
<1>1. Gone \subseteq Gone'
  BY DEF Gone
<1>2. Fits(store, bak.version, bak.schema, Gone')
  BY <1>1, FitsLater DEF SchemaInv
<1>3. bak.version >= VERSION[store] => Full(store, bak.schema, Gone', unrepaired')
  BY <1>1, FullLater DEF SchemaInv
<1> QED BY <1>2, <1>3 DEF SchemaInv

(* The end of a step of the upgrade, whose next step finds what it needs.  *)
LEMMA Arrives ==
  ASSUME UpgradeInv, SchemaInv, pc \in {"OnUpgrade", "copy", "history"}, Proceed,
         store' = store, db'.version = db.version,
         at = 1 => Upgradable(store, db'.schema, db.version + 1, Gone'),
         at > 1 => Upgradable(store, db'.schema, at + 1, Gone')
  PROVE  OnTheWay'
<1> DEFINE V == VERSION[store]
           next == IF at = 1 /\ db.version > 0 THEN db.version + 1 ELSE at + 1
<1>1. /\ store \in Stores /\ V \in Nat \ {0} /\ db.version \in 1..(V - 1)
      /\ at \in 1..V /\ (at > 1 => db.version < at) /\ (pc \in {"copy", "history"} => at > 1)
  BY Versions DEF UpgradeInv, VersionKept, Waiting, SchemaInv, OnTheWay
<1>2. /\ next \in 2..(V + 1) /\ Upgradable(store, db'.schema, next, Gone')
      /\ db.version < next
  BY <1>1
<1>3. \/ next <= V /\ at' = next /\ pc' = "OnUpgrade"
      \/ next > V /\ at' = 1 /\ pc' = "SetVersion"
  BY <1>1 DEF Proceed
<1> HIDE DEF V, next
<1>4. CASE next <= V /\ at' = next /\ pc' = "OnUpgrade"
  BY <1>1, <1>2, <1>4 DEF OnTheWay, V
<1>5. CASE next > V /\ at' = 1 /\ pc' = "SetVersion"
  <2>1. next = V + 1
    BY <1>1, <1>2, <1>5
  <2>2. All(store) \subseteq db'.schema \union Gone'
    BY <1>1, <1>2, <2>1, OwedNone DEF Upgradable, V
  <2>3. Loose(store, db'.schema, Gone')
    BY <1>1, <2>2, AllLoose
  <2> QED BY <1>5, <2>3 DEF OnTheWay
<1> QED BY <1>3, <1>4, <1>5

LEMMA DeathOnTheWay == ASSUME pc' = "closed" PROVE OnTheWay'
BY DEF OnTheWay

(* The file of an upgrade waits for the steps after its version.           *)
LEMMA FitsUpgrade ==
  ASSUME UpgradeInv, SchemaInv, pc \in {"OnUpgrade", "copy", "history"},
         NEW schema, NEW gone, Gone \subseteq gone,
         Upgradable(store, schema, db.version + 1, gone),
         store # "sms_mms" => OldTriggers \intersect schema = {}
  PROVE  Fits(store, db.version, schema, gone)
<1>1. db.version \in 1..(VERSION[store] - 1) /\ VERSION[store] \in Nat \ {0}
  BY Versions DEF UpgradeInv, VersionKept, Waiting
<1> QED BY <1>1 DEF Fits

LEMMA WaitsFor ==
  ASSUME UpgradeInv, SchemaInv, pc \in {"OnUpgrade", "copy", "history"}
  PROVE  /\ store \in Stores /\ VERSION[store] \in Nat \ {0} /\ db.version \in 1..(VERSION[store] - 1)
         /\ Upgradable(store, db.schema, db.version + 1, Gone)
         /\ store # "sms_mms" => OldTriggers \intersect db.schema = {}
         /\ at \in 1..VERSION[store] /\ (at > 1 => db.version + 1 <= at)
BY Versions DEF UpgradeInv, VersionKept, Waiting, SchemaInv, Fits, OnTheWay

LEMMA UpgradableLater ==
  ASSUME NEW s, NEW schema, NEW p, NEW gone, NEW more, gone \subseteq more, Upgradable(s, schema, p, gone)
  PROVE  Upgradable(s, schema, p, more)
BY DEF Upgradable

(* A step past the first that runs its statements.                         *)
LEMMA StepRuns ==
  ASSUME UpgradeInv, SchemaInv, pc = "OnUpgrade", at > 1,
         NEW stmts, stmts = Steps[store][at], NEW o \in Outcomes(stmts),
         db'.version = db.version, db'.schema = Executed(db.schema, Ran(stmts, o)),
         failed' = failed \union Unmade(stmts, o), unrepaired' = unrepaired, store' = store
  PROVE  /\ Fits(store, db'.version, db'.schema, Gone')
         /\ ~Cut(stmts, o) => Upgradable(store, db'.schema, at + 1, Gone')
<1> DEFINE E == Executed(db.schema, Ran(stmts, o))
<1>1. /\ store \in Stores /\ VERSION[store] \in Nat \ {0} /\ db.version \in 1..(VERSION[store] - 1)
      /\ Upgradable(store, db.schema, db.version + 1, Gone)
      /\ store # "sms_mms" => OldTriggers \intersect db.schema = {}
      /\ at \in 1..VERSION[store] /\ db.version + 1 <= at
  BY WaitsFor
<1>2. Steady(store, at, stmts)
  <2>1. at \in 2..VERSION[store]
    BY <1>1
  <2> QED BY <1>1, <2>1, StepSteady
<1>3. db.version + 1 \in 1..at
  BY <1>1
<1>4. /\ ~Cut(stmts, o) /\ Upgradable(store, db.schema, at, Gone) =>
           Upgradable(store, E, at + 1, Gone \union Unmade(stmts, o))
      /\ Upgradable(store, E, db.version + 1, Gone)
      /\ store # "sms_mms" => OldTriggers \intersect E = {}
  BY <1>1, <1>2, <1>3, SteadyRuns
<1>5. Upgradable(store, db.schema, at, Gone)
  BY DEF SchemaInv, OnTheWay
<1>6. Gone' = Gone \union Unmade(stmts, o)
  BY DEF Gone
<1> HIDE DEF E
<1>7. db'.schema = E
  BY DEF E
<1>8. Upgradable(store, E, db.version + 1, Gone')
  BY <1>4, <1>6, UpgradableLater
<1>9. Fits(store, db.version, E, Gone')
  BY <1>4, <1>6, <1>8, FitsUpgrade
<1> QED BY <1>4, <1>5, <1>6, <1>7, <1>9

LEMMA VersionUpToCompletes ==
  ASSUME UpgradeInv, SchemaInv, NEW p \in 1..VERSION[store], VersionUpTo(p) PROVE SchemaInv'
<1>1. PICK o \in Outcomes(StatementsOf(p)) :
        /\ Execute(StatementsOf(p), o)
        /\ failed' = failed \union Unmade(StatementsOf(p), o)
        /\ IF Cut(StatementsOf(p), o) THEN Die /\ flaws' = flaws \union DeathFlaws ELSE GoOn
  BY DEF VersionUpTo
<1>2. pc = "OnUpgrade" /\ at = p /\ UNCHANGED <<store, bak, damaged, unrepaired, saved>>
  BY DEF VersionUpTo
<1> DEFINE stmts == StatementsOf(p)
           E == Executed(db.schema, Ran(stmts, o))
<1>3. db'.version = db.version /\ db'.schema = E
  <2>1. IsFile(db) /\ db' = [db EXCEPT !.schema = E]
    BY <1>1 DEF Execute, UpgradeInv
  <2> QED BY <2>1, SchemaSet DEF IsFile
<1>4. /\ store \in Stores /\ VERSION[store] \in Nat \ {0} /\ db.version \in 1..(VERSION[store] - 1)
      /\ Upgradable(store, db.schema, db.version + 1, Gone)
      /\ store # "sms_mms" => OldTriggers \intersect db.schema = {}
      /\ at \in 1..VERSION[store] /\ (at > 1 => db.version + 1 <= at)
  BY <1>2, WaitsFor
<1>5. Fits(store, db'.version, db'.schema, Gone')
      /\ (~Cut(stmts, o) => /\ at > 1 => Upgradable(store, db'.schema, at + 1, Gone')
                            /\ at = 1 => Upgradable(store, db'.schema, db.version + 1, Gone'))
  <2>1. CASE at > 1
    <3>1. stmts = Steps[store][at]
      BY <1>2, <2>1 DEF StatementsOf
    <3> HIDE DEF stmts
    <3> QED BY <1>1, <1>2, <1>3, <2>1, <3>1, StepRuns DEF stmts
  <2>2. CASE at = 1
    <3>1. stmts = IF store = "sms_mms" /\ db.version < 6 THEN CreateRcsInfoTableForcely ELSE <<>>
      BY <1>2, <2>2 DEF StatementsOf
    <3>2. /\ IsSeq(stmts) /\ Drops(Items(stmts)) = {}
          /\ store # "sms_mms" => Makes(Items(stmts)) = {}
      <4>1. IsSeq(<<>>) /\ Items(<<>>) = {}
        BY DEF IsSeq, Items
      <4>2. IsSeq(CreateRcsInfoTableForcely) /\ Drops(Items(CreateRcsInfoTableForcely)) = {}
        BY OneItem DEF CreateRcsInfoTableForcely, Drops, CreateTable, Statement
      <4> HIDE DEF stmts
      <4> QED BY <3>1, <4>1, <4>2 DEF Drops, Makes
    <3> HIDE DEF stmts
    <3>3. db.schema \subseteq E
      BY <1>1, <3>2, RunKeeps DEF stmts
    <3>4. store # "sms_mms" => OldTriggers \intersect E = {}
      BY <1>1, <1>4, <3>2, RunMakesNot DEF stmts
    <3> HIDE DEF E
    <3>5. Gone \subseteq Gone'
      BY <1>1, <1>2 DEF Gone
    <3>6. Upgradable(store, E, db.version + 1, Gone')
      BY <1>4, <3>3, <3>5 DEF Upgradable
    <3>7. Fits(store, db.version, E, Gone')
      BY <1>2, <3>4, <3>5, <3>6, FitsUpgrade
    <3> QED BY <1>3, <2>2, <3>6, <3>7
  <2> QED BY <1>4, <2>1, <2>2
<1> HIDE DEF stmts, E
<1>6. OnTheWay'
  <2>1. CASE Die
    BY <2>1, DeathOnTheWay DEF Die
  <2>2. CASE ~Cut(stmts, o) /\ GoOn
    BY <1>2, <1>3, <1>5, <2>2, Arrives DEF GoOn
  <2> QED BY <1>1, <2>1, <2>2 DEF stmts
<1>7. failed \subseteq failed' /\ unrepaired' = unrepaired
  BY <1>1, <1>2
<1> QED BY <1>2, <1>5, <1>6, <1>7, BackupStays

(* A step that finds done what it makes, or has tried it.                  *)
LEMMA StepSkipped ==
  ASSUME NEW s \in Stores, NEW p \in 1..VERSION[s], NEW schema, NEW gone,
         Made(Steps[s][p]) \subseteq schema \union gone \union Owed(s, p + 1), Upgradable(s, schema, p, gone)
  PROVE  Upgradable(s, schema, p + 1, gone)
BY OwedStep DEF Upgradable

LEMMA FileSchemaSet ==
  ASSUME NEW d, NEW x, IsFile(d)
  PROVE  [d EXCEPT !.schema = x].version = d.version /\ [d EXCEPT !.schema = x].schema = x
BY DEF IsFile

LEMMA SmsAt ==
  ASSUME UpgradeInv, SchemaInv, pc = "OnUpgrade", store = "sms_mms", at > 1
  PROVE  /\ at \in 1..VERSION["sms_mms"] /\ Upgradable("sms_mms", db.schema, at, Gone)
         /\ Fits("sms_mms", db.version, db.schema, Gone)
BY WaitsFor DEF SchemaInv, OnTheWay

LEMMA SmsStores == "sms_mms" \in Stores
BY DEF Stores

LEMMA TwelveCompletes == ASSUME UpgradeInv, SchemaInv, VersionUpToTwelve PROVE SchemaInv'
<1>1. pc = "OnUpgrade" /\ store = "sms_mms" /\ at = 12 /\ UNCHANGED <<store, bak, damaged, unrepaired, saved>>
  BY DEF VersionUpToTwelve
<1>2. CASE LinksRcs /\ UNCHANGED <<db, failed>>
             /\ (GoOn \/ (pc' = "copy" /\ at' = at))
  <2>1. Gone' = Gone
    BY <1>1, <1>2 DEF Gone
  <2>2. 12 \in 1..VERSION["sms_mms"] /\ Upgradable("sms_mms", db.schema, 12, Gone)
        /\ Fits("sms_mms", db.version, db.schema, Gone)
    BY <1>1, SmsAt
  <2>3. Made(Steps["sms_mms"][12]) \subseteq db.schema \union Gone \union Owed("sms_mms", 13)
    <3>1. ViewObjects \subseteq Owed("sms_mms", 13)
      <4>1. 13 \in 13..VERSION["sms_mms"] /\ ViewObjects = Made(Steps["sms_mms"][13])
        BY Version35, SmsMade13To17, SmsStepsAre
      <4> QED BY <4>1 DEF Owed
    <3>2. Columns(Sms, {"rcs_id"}) \subseteq db.schema
      BY <1>2 DEF LinksRcs, Columns
    <3> QED BY <3>1, <3>2, SmsMade8To12, SmsStepsAre
  <2>4. Upgradable("sms_mms", db.schema, 13, Gone)
    BY <2>2, <2>3, StepSkipped, SmsStores
  <2>5. Upgradable(store, db'.schema, at + 1, Gone') /\ Fits(store, db'.version, db'.schema, Gone')
    BY <1>1, <1>2, <2>1, <2>2, <2>4
  <2>6. OnTheWay'
    <3>1. CASE GoOn
      BY <1>1, <1>2, <2>5, <3>1, Arrives DEF GoOn
    <3>2. CASE pc' = "copy" /\ at' = at
      <4>1. at \in 1..VERSION[store] /\ (at > 1 => db.version < at)
        BY <1>1 DEF SchemaInv, OnTheWay
      <4> QED BY <1>1, <1>2, <2>5, <3>2, <4>1 DEF OnTheWay
    <3> QED BY <1>2, <3>1, <3>2
  <2> QED BY <1>1, <1>2, <2>5, <2>6, BackupStays
<1>3. CASE \E o \in Outcomes(Twelve) :
             /\ Execute(Twelve, o)
             /\ failed' = failed \union Unmade(Twelve, o)
             /\ \/ Cut(Twelve, o) /\ Die
                \/ ~Cut(Twelve, o) /\ pc' = "copy" /\ UNCHANGED <<at, needBackup, complete, rebuilt, retried, flaws>>
  <2>1. PICK o \in Outcomes(Twelve) :
             /\ Execute(Twelve, o)
             /\ failed' = failed \union Unmade(Twelve, o)
             /\ \/ Cut(Twelve, o) /\ Die
                \/ ~Cut(Twelve, o) /\ pc' = "copy" /\ UNCHANGED <<at, needBackup, complete, rebuilt, retried, flaws>>
    BY <1>3
  <2>2. db'.version = db.version /\ db'.schema = Executed(db.schema, Ran(Twelve, o))
    BY <2>1, FileSchemaSet DEF Execute, UpgradeInv
  <2>3. Twelve = Steps[store][at]
    <3>1. SmsSteps[12] = Twelve
      BY DEF SmsSteps
    <3> QED BY <1>1, <3>1, SmsStepsAre
  <2>4. Fits(store, db'.version, db'.schema, Gone')
        /\ (~Cut(Twelve, o) => Upgradable(store, db'.schema, at + 1, Gone'))
    <3>1. at > 1
      BY <1>1
    <3> QED BY <1>1, <2>1, <2>2, <2>3, <3>1, StepRuns
  <2>5. OnTheWay'
    <3>1. CASE Die
      BY <3>1, DeathOnTheWay DEF Die
    <3>2. CASE ~Cut(Twelve, o) /\ pc' = "copy" /\ at' = at
      <4>1. at \in 1..VERSION[store] /\ (at > 1 => db.version < at)
        BY <1>1 DEF SchemaInv, OnTheWay
      <4> QED BY <1>1, <2>2, <2>4, <3>2, <4>1 DEF OnTheWay
    <3> QED BY <2>1, <3>1, <3>2
  <2>6. failed \subseteq failed' /\ unrepaired' = unrepaired
    BY <1>1, <2>1
  <2> QED BY <1>1, <2>4, <2>5, <2>6, BackupStays
<1> QED BY <1>2, <1>3 DEF VersionUpToTwelve

(* Steps that move rows only.                                              *)
LEMMA RowsComplete ==
  ASSUME UpgradeInv, SchemaInv, pc \in {"OnUpgrade", "copy", "history"}, store' = store, bak' = bak,
         db'.version = db.version, db'.schema = db.schema, failed' = failed, unrepaired' = unrepaired,
         Proceed \/ Die,
         at > 1, Upgradable(store, db.schema, at + 1, Gone)
  PROVE  SchemaInv'
<1>1. Gone' = Gone
  BY DEF Gone
<1>2. Fits(store, db'.version, db'.schema, Gone')
  BY <1>1 DEF SchemaInv
<1>3. CASE Die
  BY <1>2, <1>3, DeathOnTheWay, BackupStays DEF Die
<1>4. CASE Proceed
  <2>1. at \in Nat
    BY WaitsFor
  <2>2. at # 1
    BY <2>1
  <2>3. OnTheWay'
    BY <1>1, <1>4, <2>2, Arrives
  <2> QED BY <1>2, <2>3, BackupStays
<1> QED BY <1>3, <1>4

LEMMA CopyCompletes == ASSUME UpgradeInv, SchemaInv, RcsInfoInsertSmsMmsInfo PROVE SchemaInv'
<1>1. pc = "copy" /\ UNCHANGED <<store, bak, damaged, failed, unrepaired, saved>> /\ (Proceed \/ Die)
  BY DEF RcsInfoInsertSmsMmsInfo
<1>2. PICK x : db' = [db EXCEPT !.rows = x]
  BY DEF RcsInfoInsertSmsMmsInfo
<1>3. db'.version = db.version /\ db'.schema = db.schema
  BY <1>2 DEF UpgradeInv, IsFile
<1>4. at > 1 /\ Upgradable(store, db.schema, at + 1, Gone)
  BY <1>1 DEF SchemaInv, OnTheWay
<1> QED BY <1>1, <1>3, <1>4, RowsComplete

LEMMA HistoryCompletes == ASSUME UpgradeInv, SchemaInv, GetHistoryFavoriteItem PROVE SchemaInv'
<1>1. pc = "history" /\ UNCHANGED <<store, bak, damaged, failed, unrepaired, saved>> /\ Proceed
  BY DEF GetHistoryFavoriteItem
<1>2. db' = db \/ \E x : db' = [db EXCEPT !.fav = x]
  BY DEF GetHistoryFavoriteItem
<1>3. db'.version = db.version /\ db'.schema = db.schema
  BY <1>2 DEF UpgradeInv, IsFile
<1>4. at > 1 /\ Upgradable(store, db.schema, at + 1, Gone)
  BY <1>1 DEF SchemaInv, OnTheWay
<1> QED BY <1>1, <1>3, <1>4, RowsComplete

LEMMA OrphansComplete == ASSUME UpgradeInv, SchemaInv, VersionUpTo26 PROVE SchemaInv'
<1>1. pc = "OnUpgrade" /\ store = "sms_mms" /\ at = 26 /\ UNCHANGED <<store, bak, failed, unrepaired>> /\ Proceed
  BY DEF VersionUpTo26
<1>2. PICK x, y : db' = [db EXCEPT !.rows = x, !.rcs = y]
  BY DEF VersionUpTo26
<1>3. db'.version = db.version /\ db'.schema = db.schema
  BY <1>2 DEF UpgradeInv, IsFile
<1>4. 26 \in 1..VERSION["sms_mms"] /\ Upgradable("sms_mms", db.schema, 26, Gone) /\ at > 1
  BY <1>1, SmsAt
<1>5. Made(Steps["sms_mms"][26]) = {}
  BY SmsMadeNothing, SmsStepsAre
<1>6. Upgradable("sms_mms", db.schema, 27, Gone)
  BY <1>4, <1>5, StepSkipped, SmsStores
<1> QED BY <1>1, <1>3, <1>4, <1>6, RowsComplete

(* The table of the favourites, at both steps that create it.              *)
LEMMA FavoritesComplete == ASSUME UpgradeInv, SchemaInv, CreateFavoriteTable PROVE SchemaInv'
<1> DEFINE x == CreateFavorites[1]
<1>1. pc = "OnUpgrade" /\ store = "sms_mms" /\ at \in {23, 34} /\ UNCHANGED <<store, bak, damaged, unrepaired, saved>>
  BY DEF CreateFavoriteTable
<1>2. at \in 1..VERSION["sms_mms"] /\ Upgradable("sms_mms", db.schema, at, Gone) /\ at > 1
      /\ Fits("sms_mms", db.version, db.schema, Gone) /\ db.version < at
  BY <1>1, SmsAt DEF SchemaInv, OnTheWay
<1>3. Made(Steps["sms_mms"][at]) = {Table(Fav)}
  BY <1>1, SmsMadeTables, SmsStepsAre
<1>4. x.make = {Table(Fav)} /\ x.drop = {} /\ x.unless = {Table(Fav)} /\ x.on = {}
  BY DEF CreateFavorites, CreateTable, Statement, Columns
<1> HIDE DEF x
<1>5. CASE db' = db /\ IsFavTableExist /\ failed' = failed /\ (GoOn \/ (pc' = "history" /\ at' = at))
  <2>1. Gone' = Gone
    BY <1>1, <1>5 DEF Gone
  <2>2. Upgradable("sms_mms", db.schema, at + 1, Gone)
    BY <1>2, <1>3, <1>5, StepSkipped, SmsStores DEF IsFavTableExist
  <2>3. CASE GoOn
    BY <1>1, <1>2, <1>5, <2>2, <2>3, RowsComplete DEF GoOn
  <2>4. CASE pc' = "history" /\ at' = at
    <3>1. OnTheWay'
      BY <1>1, <1>2, <1>5, <2>1, <2>2, <2>4 DEF OnTheWay
    <3> QED BY <1>1, <1>2, <1>5, <2>1, <3>1, BackupStays
  <2> QED BY <1>5, <2>3, <2>4
<1>6. CASE db' = [db EXCEPT !.schema = Executed(@, {x})] /\ ~IsFavTableExist /\ failed' = failed
             /\ pc' = "history" /\ at' = at
  <2>1. Gone' = Gone
    BY <1>1, <1>6 DEF Gone
  <2>2. db'.version = db.version /\ db'.schema = Executed(db.schema, {x})
    BY <1>6, FileSchemaSet DEF UpgradeInv
  <2>3. db.schema \subseteq Executed(db.schema, {x}) /\ Table(Fav) \in Executed(db.schema, {x})
    <3>1. Left(db.schema, {x}) = db.schema
      BY <1>4 DEF Left
    <3>2. x \in Effective(db.schema, {x})
      BY <1>4, <1>6, <3>1 DEF Effective, Able, IsFavTableExist
    <3> QED BY <1>4, <3>1, <3>2 DEF Executed
  <2> DEFINE E == Executed(db.schema, {x})
  <2> HIDE DEF E
  <2>4. Upgradable("sms_mms", E, at, Gone)
    BY <1>2, <2>3 DEF Upgradable, E
  <2>5. Upgradable("sms_mms", E, at + 1, Gone)
    BY <1>2, <1>3, <2>3, <2>4, StepSkipped, SmsStores DEF E
  <2>6. Fits("sms_mms", db.version, E, Gone)
    <3>1. Upgradable("sms_mms", db.schema, db.version + 1, Gone)
      BY <1>1, WaitsFor
    <3>2. Upgradable("sms_mms", E, db.version + 1, Gone)
      BY <2>3, <3>1 DEF Upgradable, E
    <3> QED BY <1>1, <3>2, FitsUpgrade
  <2>7. OnTheWay'
    BY <1>1, <1>2, <1>6, <2>1, <2>2, <2>5 DEF OnTheWay, E
  <2> QED BY <1>1, <1>6, <2>1, <2>2, <2>6, <2>7, BackupStays DEF E
<1>7. CASE db' = db /\ failed' = failed \union x.make /\ Proceed
  <2>1. Gone' = Gone \union {Table(Fav)}
    BY <1>1, <1>4, <1>7 DEF Gone
  <2>2. Upgradable("sms_mms", db.schema, at, Gone')
    BY <1>2, <2>1, UpgradableLater
  <2>3. Upgradable("sms_mms", db.schema, at + 1, Gone')
    BY <1>2, <1>3, <2>1, <2>2, StepSkipped, SmsStores
  <2>4. Fits("sms_mms", db.version, db.schema, Gone')
    BY <1>2, <2>1, FitsLater
  <2>5. OnTheWay'
    BY <1>1, <1>2, <1>7, <2>3, Arrives
  <2> QED BY <1>1, <1>7, <2>4, <2>5, BackupStays
<1> QED BY <1>5, <1>6, <1>7 DEF CreateFavoriteTable, x

LEMMA PdpFourCompletes == ASSUME UpgradeInv, SchemaInv, PdpUpToFour PROVE SchemaInv'
<1>1. /\ pc = "OnUpgrade" /\ store = "pdp_profile" /\ at = 4
      /\ UNCHANGED <<store, bak, damaged, unrepaired, saved>>
  BY DEF PdpUpToFour
<1>2. PICK o \in Outcomes(PdpFour) : \E rows :
        /\ db' = [db EXCEPT !.schema = Executed(db.schema, Ran(PdpFour, o)), !.rows = rows]
        /\ failed' = failed \union Unmade(PdpFour, o)
        /\ IF Cut(PdpFour, o) THEN Die ELSE GoOn
  BY DEF PdpUpToFour
<1>3. db'.version = db.version /\ db'.schema = Executed(db.schema, Ran(PdpFour, o))
  BY <1>2 DEF UpgradeInv, IsFile
<1>4. PdpFour = Steps[store][at] /\ at > 1
  BY <1>1 DEF Steps, Stores
<1>5. /\ Fits(store, db'.version, db'.schema, Gone')
      /\ ~Cut(PdpFour, o) => Upgradable(store, db'.schema, at + 1, Gone')
  BY <1>1, <1>2, <1>3, <1>4, StepRuns
<1>6. OnTheWay'
  <2>1. CASE Die
    BY <2>1, DeathOnTheWay DEF Die
  <2>2. CASE ~Cut(PdpFour, o) /\ GoOn
    BY <1>1, <1>3, <1>5, <2>2, Arrives DEF GoOn
  <2> QED BY <1>2, <2>1, <2>2
<1>7. failed \subseteq failed'
  BY <1>2
<1> QED BY <1>1, <1>5, <1>6, <1>7, BackupStays

-----------------------------------------------------------------------------
(* The creation, and the version.                                          *)
LEMMA OnCreateCompletes == ASSUME UpgradeInv, SchemaInv, OnCreate PROVE SchemaInv'
<1> DEFINE stmts == Creation[store]
<1>1. PICK o \in Outcomes(stmts) :
        /\ Execute(stmts, o)
        /\ failed' = failed \union Unmade(stmts, o)
        /\ \/ ~Cut(stmts, o) /\ pc' = "SetVersion"
           \/ pc' = "OnCreate"
           \/ Die
  BY DEF OnCreate
<1>2. pc = "OnCreate" /\ UNCHANGED <<store, bak, damaged, unrepaired, saved>>
  BY DEF OnCreate
<1> DEFINE E == Executed(db.schema, Ran(stmts, o))
<1>3. db'.version = db.version /\ db'.schema = E
  BY <1>1, FileSchemaSet DEF Execute, UpgradeInv
<1>4. store \in Stores /\ db.version = 0 /\ VERSION[store] \in Nat \ {0}
  BY <1>2, Versions DEF UpgradeInv, VersionKept
<1>5. Begun(store, db.schema, Gone) /\ (store # "sms_mms" => OldTriggers \intersect db.schema = {})
  BY <1>4 DEF SchemaInv, Fits
<1>6. /\ ~Cut(stmts, o) => All(store) \subseteq E \union Gone \union Unmade(stmts, o)
      /\ Begun(store, E, Gone)
      /\ store # "sms_mms" => OldTriggers \intersect E = {}
  BY <1>4, <1>5, CreationRuns
<1>7. Gone' = Gone \union Unmade(stmts, o)
  BY <1>1, <1>2 DEF Gone
<1> HIDE DEF stmts, E
<1>8. Fits(store, db'.version, db'.schema, Gone')
  BY <1>3, <1>4, <1>6, <1>7 DEF Fits, Begun
<1>9. OnTheWay'
  <2>1. CASE ~Cut(stmts, o) /\ pc' = "SetVersion"
    <3>1. Loose(store, E, Gone')
      BY <1>4, <1>6, <1>7, <2>1, AllLoose
    <3> QED BY <1>2, <1>3, <2>1, <3>1 DEF OnTheWay
  <2>2. CASE pc' = "OnCreate"
    BY <2>2 DEF OnTheWay
  <2>3. CASE Die
    BY <2>3, DeathOnTheWay DEF Die
  <2> QED BY <1>1, <2>1, <2>2, <2>3
<1>10. failed \subseteq failed'
  BY <1>1
<1> QED BY <1>2, <1>8, <1>9, <1>10, BackupStays

LEMMA SetVersionCompletes == ASSUME UpgradeInv, SchemaInv, SetVersion PROVE SchemaInv'
<1>1. /\ pc = "SetVersion" /\ pc' = "OnOpen" /\ db' = [db EXCEPT !.version = VERSION[store]]
      /\ UNCHANGED <<store, bak, failed, unrepaired>>
  BY DEF SetVersion, history
<1>2. db'.version = VERSION[store] /\ db'.schema = db.schema
  BY <1>1 DEF UpgradeInv, IsFile
<1>3. Gone' = Gone /\ Loose(store, db.schema, Gone) /\ (store # "sms_mms" => OldTriggers \intersect db.schema = {})
  BY <1>1 DEF Gone, SchemaInv, OnTheWay, Fits
<1>4. VERSION[store] \in Nat \ {0}
  BY Versions DEF UpgradeInv
<1>5. Fits(store, db'.version, db'.schema, Gone')
  BY <1>2, <1>3, <1>4 DEF Fits
<1>6. OnTheWay'
  BY <1>1 DEF OnTheWay
<1> QED BY <1>1, <1>5, <1>6, BackupStays

LEMMA OnDowngradeCompletes == ASSUME UpgradeInv, SchemaInv, OnDowngrade PROVE SchemaInv'
<1>1. pc = "OnDowngrade" /\ pc' = "SetVersion" /\ UNCHANGED <<store, db, bak, failed, unrepaired>>
  BY DEF OnDowngrade, history
<1>2. Gone' = Gone
  BY <1>1 DEF Gone
<1>3. db.version > VERSION[store] /\ db.version \in Nat /\ VERSION[store] \in Nat
  BY <1>1, Versions DEF SchemaInv, OnTheWay, UpgradeInv
<1>4. Loose(store, db.schema, Gone) /\ Fits(store, db.version, db.schema, Gone)
  BY <1>3 DEF SchemaInv, Fits
<1>5. OnTheWay'
  BY <1>1, <1>2, <1>4 DEF OnTheWay
<1> QED BY <1>1, <1>2, <1>4, <1>5, BackupStays

(* A new file, or none.                                                    *)
LEMMA NewFits ==
  ASSUME NEW s \in Stores, NEW gone
  PROVE  Fits(s, Empty.version, Empty.schema, gone) /\ Fits(s, NoBackup.version, NoBackup.schema, gone)
         /\ NoBackup.version = -1
<1>1. Empty.version = 0 /\ Empty.schema = {} /\ NoBackup.version = -1 /\ NoBackup.schema = {}
  BY DEF Empty, NoBackup
<1>2. VERSION[s] \in Nat \ {0}
  BY Versions
<1> QED BY <1>1, <1>2 DEF Fits, Begun

(* The callback that GetRdbStore calls for a file.                         *)
LEMMA OpeningFits ==
  ASSUME store \in Stores, store' = store, db'.version \in Nat, pc' = Opening(db'), at' = 1 PROVE OnTheWay'
<1>1. VERSION[store] \in Nat \ {0}
  BY Versions
<1>2. pc' = Opening(db')
  OBVIOUS
<1>3. \/ Opening(db') = "OnCreate" /\ db'.version = 0
      \/ Opening(db') = "OnUpgrade" /\ db'.version \in 1..(VERSION[store] - 1)
      \/ Opening(db') = "OnOpen" /\ db'.version = VERSION[store]
      \/ Opening(db') = "OnDowngrade" /\ db'.version > VERSION[store]
  BY OpeningCases
<1> QED BY <1>1, <1>2, <1>3 DEF OnTheWay

LEMMA OpenCompletes == ASSUME UpgradeInv, SchemaInv, Open PROVE SchemaInv'
<1>1. /\ db' = (IF damaged THEN Empty ELSE db) /\ UNCHANGED <<store, bak, failed, unrepaired>>
  BY DEF Open, history
<1>2. Gone' = Gone /\ store \in Stores
  BY <1>1 DEF Gone, UpgradeInv
<1>3. db'.version \in Nat /\ Fits(store, db'.version, db'.schema, Gone')
  <2>1. CASE damaged
    BY <1>1, <1>2, <2>1, NewFits, EmptyFile
  <2>2. CASE ~damaged
    BY <1>1, <1>2, <2>2 DEF SchemaInv, UpgradeInv
  <2> QED BY <2>1, <2>2
<1>4. pc' = Opening(db') /\ at' = 1 /\ store' = store
  BY <1>1 DEF Open
<1>5. OnTheWay'
  BY <1>2, <1>3, <1>4, OpeningFits
<1> QED BY <1>1, <1>3, <1>5, BackupStays

-----------------------------------------------------------------------------
(* OnOpen and its checks.                                                  *)
LEMMA Current ==
  ASSUME UpgradeInv, SchemaInv, InOnOpen \/ pc = "opened"
  PROVE  /\ store \in Stores /\ VERSION[store] \in Nat \ {0} /\ db.version = VERSION[store]
         /\ Loose(store, db.schema, Gone) /\ (store # "sms_mms" => OldTriggers \intersect db.schema = {})
         /\ pc \in {"fields", "components", "backup"} => store = "sms_mms"
         /\ Fits(store, db.version, db.schema, Gone)
<1>1. /\ store \in Stores /\ db.version = VERSION[store]
      /\ pc \in {"fields", "components", "backup"} => store = "sms_mms"
  BY DEF UpgradeInv, VersionKept
<1>2. VERSION[store] \in Nat \ {0}
  BY <1>1, Versions
<1> QED BY <1>1, <1>2 DEF SchemaInv, Fits

LEMMA LooseFits ==
  ASSUME NEW s \in Stores, NEW schema, NEW gone, Loose(s, schema, gone),
         s # "sms_mms" => OldTriggers \intersect schema = {}
  PROVE  Fits(s, VERSION[s], schema, gone)
BY Versions DEF Fits

LEMMA OnOpenOtherCompletes == ASSUME UpgradeInv, SchemaInv, OnOpenOther PROVE SchemaInv'
<1>1. pc = "OnOpen" /\ store # "sms_mms" /\ pc' = "opened" /\ UNCHANGED <<store, db, bak, failed, unrepaired>>
  BY DEF OnOpenOther, history
<1>2. Gone' = Gone
  BY <1>1 DEF Gone
<1>3. Loose(store, db.schema, Gone) /\ OldTriggers \intersect db.schema = {} /\ Fits(store, db.version, db.schema, Gone)
  BY <1>1, Current DEF InOnOpen
<1>4. Full(store, db.schema, Gone, unrepaired)
  BY <1>1, <1>3 DEF Loose, Full, Missing
<1>5. OnTheWay'
  BY <1>1, <1>2, <1>4 DEF OnTheWay
<1> QED BY <1>1, <1>2, <1>3, <1>5, BackupStays

LEMMA OnOpenNoVersionCompletes == ASSUME UpgradeInv, SchemaInv, OnOpenNoVersion PROVE SchemaInv'
<1>1. /\ pc = "OnOpen" /\ pc' = "opened" /\ UNCHANGED <<store, db, bak, failed>>
      /\ unrepaired' = unrepaired \union Lacking(db)
  BY DEF OnOpenNoVersion
<1>2. Gone \subseteq Gone' /\ unrepaired' \subseteq Gone'
  BY <1>1 DEF Gone
<1>3. store \in Stores /\ Fits(store, db.version, db.schema, Gone)
  BY <1>1, Current DEF InOnOpen
<1>4. Missing(store, db.schema) \subseteq unrepaired'
  BY <1>1, <1>3, LackingIs
<1>5. Full(store, db.schema, Gone', unrepaired')
  BY <1>2, <1>4 DEF Full
<1>6. OnTheWay'
  BY <1>1, <1>5 DEF OnTheWay
<1>7. Fits(store, db'.version, db'.schema, Gone')
  BY <1>1, <1>2, <1>3, FitsLater
<1> QED BY <1>1, <1>6, <1>7, BackupStays

(* What statements that drop only what OnOpen looks after leave of a store *)
(* of the messages.                                                        *)
LEMMA RepairFits ==
  ASSUME UpgradeInv, SchemaInv, InOnOpen, store = "sms_mms", store' = store, failed' = failed,
         NEW stmts, Repairing(stmts), NEW o \in Outcomes(stmts),
         db' = [db EXCEPT !.schema = Executed(db.schema, Ran(stmts, o))], unrepaired \subseteq unrepaired'
  PROVE  /\ Fits(store, db'.version, db'.schema, Gone')
         /\ db'.version = VERSION[store] /\ db'.schema = Executed(db.schema, Ran(stmts, o))
         /\ Gone' = Gone \union unrepaired'
<1>1. db'.version = db.version /\ db'.schema = Executed(db.schema, Ran(stmts, o))
  BY FileSchemaSet DEF UpgradeInv
<1>2. Gone' = Gone \union unrepaired'
  BY DEF Gone
<1>3. Loose("sms_mms", db.schema, Gone) /\ db.version = VERSION[store] /\ store \in Stores
  BY Current
<1>4. Loose("sms_mms", Executed(db.schema, Ran(stmts, o)), Gone)
  BY <1>3, RepairingRuns
<1>5. Fits(store, db'.version, db'.schema, Gone)
  BY <1>1, <1>3, <1>4, LooseFits
<1> QED BY <1>1, <1>2, <1>3, <1>5, FitsLater

LEMMA OnOpenCompletes == ASSUME UpgradeInv, SchemaInv, OnOpen PROVE SchemaInv'
<1>1. pc = "OnOpen" /\ store = "sms_mms" /\ UNCHANGED <<store, bak, damaged, failed, saved>> /\ InOnOpen
  BY DEF OnOpen, InOnOpen
<1>2. CASE IsDbComplete /\ pc' = "fields" /\ UNCHANGED <<db, unrepaired>>
  <2>1. Gone' = Gone
    BY <1>1, <1>2 DEF Gone
  <2>2. Fits(store, db.version, db.schema, Gone)
    BY <1>1, Current
  <2>3. OnTheWay'
    BY <1>2 DEF OnTheWay, IsDbComplete
  <2> QED BY <1>1, <1>2, <2>1, <2>2, <2>3, BackupStays
<1>3. ASSUME NEW o \in Outcomes(InitCreateTableVec), Execute(InitCreateTableVec, o),
             unrepaired' = unrepaired \union Unmade(InitCreateTableVec, o),
             (Cut(InitCreateTableVec, o) /\ Die) \/ (~Cut(InitCreateTableVec, o) /\ pc' = "fields")
      PROVE  SchemaInv'
  <2>1. db' = [db EXCEPT !.schema = Executed(db.schema, Ran(InitCreateTableVec, o))]
    BY <1>3 DEF Execute
  <2>2. unrepaired \subseteq unrepaired'
    BY <1>3
  <2>3. /\ Fits(store, db'.version, db'.schema, Gone')
        /\ db'.schema = Executed(db.schema, Ran(InitCreateTableVec, o))
    BY <1>1, <2>1, <2>2, CreationRepairs, RepairFits
  <2>4. CASE Die
    BY <1>1, <2>2, <2>3, <2>4, DeathOnTheWay, BackupStays DEF Die
  <2>5. CASE ~Cut(InitCreateTableVec, o) /\ pc' = "fields"
    <3>1. IsSeq(InitCreateTableVec)
      BY CreationRepairs DEF Repairing
    <3>2. ASSUME NEW w \in CountedTables
          PROVE  w \in Executed(db.schema, Ran(InitCreateTableVec, o)) \union Unmade(InitCreateTableVec, o)
      <4>1. Brings(Items(InitCreateTableVec), w)
        BY CreationRepairs
      <4> QED BY <1>3, <2>5, <3>1, <4>1, RunBrings
    <3>3. CountedTables \subseteq db'.schema \union unrepaired'
      BY <1>3, <2>3, <3>2
    <3>4. OnTheWay'
      BY <2>5, <3>3 DEF OnTheWay
    <3> QED BY <1>1, <2>2, <2>3, <3>4, BackupStays
  <2> QED BY <1>3, <2>4, <2>5
<1>4. CASE /\ db' = [db EXCEPT !.schema = Executed(@, {InitCreateTableVec[i] : i \in DOMAIN InitCreateTableVec})]
           /\ pc' = "fields" /\ UNCHANGED unrepaired /\ IsDbComplete
  <2>1. IsSeq(InitCreateTableVec)
    BY CreationRepairs DEF Repairing
  <2>2. PICK o \in Outcomes(InitCreateTableVec) : Ran(InitCreateTableVec, o) = Items(InitCreateTableVec)
    BY <2>1, RanAll
  <2>3. db' = [db EXCEPT !.schema = Executed(db.schema, Ran(InitCreateTableVec, o))]
    BY <1>4, <2>2 DEF Items
  <2>4. /\ Fits(store, db'.version, db'.schema, Gone')
        /\ db'.schema = Executed(db.schema, Ran(InitCreateTableVec, o))
    BY <1>1, <1>4, <2>3, CreationRepairs, RepairFits
  <2>5. CountedTables \subseteq db'.schema
    <3>1. \A w \in CountedTables : w \in db.schema /\ w \notin Drops(Items(InitCreateTableVec))
      BY <1>4, CreationRepairs DEF IsDbComplete
    <3>2. \A w \in CountedTables : w \in Executed(db.schema, Ran(InitCreateTableVec, o))
      BY <2>1, <3>1, RunKeeps
    <3> QED BY <2>4, <3>2
  <2>6. OnTheWay'
    BY <1>4, <2>5 DEF OnTheWay
  <2> QED BY <1>1, <1>4, <2>4, <2>6, BackupStays
<1> QED BY <1>1, <1>2, <1>3, <1>4 DEF OnOpen

LEMMA FieldsComplete == ASSUME UpgradeInv, SchemaInv, CheckAndCompleteFields PROVE SchemaInv'
<1>1. PICK unseen : Repair(Fields(unseen), unseen, "components")
  BY DEF CheckAndCompleteFields
<1> DEFINE stmts == Fields(unseen)
<1>2. PICK o \in Outcomes(stmts) :
        /\ db' = [db EXCEPT !.schema = Executed(db.schema, Ran(stmts, o))]
        /\ unrepaired' = unrepaired \union Unmade(stmts, o) \union (unseen \intersect OldTriggers)
        /\ (Cut(stmts, o) /\ Die) \/ (~Cut(stmts, o) /\ pc' = "components")
        /\ UNCHANGED <<store, bak, failed>>
  BY <1>1 DEF Repair
<1>3. pc = "fields" /\ store = "sms_mms" /\ InOnOpen /\ CountedTables \subseteq db.schema \union unrepaired
  BY DEF CheckAndCompleteFields, UpgradeInv, VersionKept, InOnOpen, SchemaInv, OnTheWay
<1>4. unrepaired \subseteq unrepaired' /\ Unmade(stmts, o) \subseteq unrepaired'
  BY <1>2
<1>5. Repairing(stmts)
  BY FieldsDo
<1>6. /\ CountedTables \subseteq Executed(db.schema, Ran(stmts, o)) \union unrepaired
      /\ ~Cut(stmts, o) => CheckedFields \subseteq Executed(db.schema, Ran(stmts, o)) \union unrepaired'
  BY <1>3, <1>4, FieldsRun
<1> HIDE DEF stmts
<1>7. Fits(store, db'.version, db'.schema, Gone') /\ db'.schema = Executed(db.schema, Ran(stmts, o))
  BY <1>2, <1>3, <1>4, <1>5, RepairFits
<1>8. CASE Die
  BY <1>2, <1>4, <1>7, <1>8, DeathOnTheWay, BackupStays DEF Die
<1>9. CASE ~Cut(stmts, o) /\ pc' = "components"
  <2>1. CountedTables \subseteq db'.schema \union unrepaired' /\ CheckedFields \subseteq db'.schema \union unrepaired'
    BY <1>4, <1>6, <1>7, <1>9
  <2>2. OnTheWay'
    BY <1>9, <2>1 DEF OnTheWay
  <2> QED BY <1>2, <1>4, <1>7, <2>2, BackupStays
<1> QED BY <1>2, <1>8, <1>9

LEMMA ComponentsComplete == ASSUME UpgradeInv, SchemaInv, CheckAndCompleteComponent PROVE SchemaInv'
<1>1. PICK unseen : Repair(Components(unseen), unseen, "backup")
  BY DEF CheckAndCompleteComponent
<1> DEFINE stmts == Components(unseen)
<1>2. PICK o \in Outcomes(stmts) :
        /\ db' = [db EXCEPT !.schema = Executed(db.schema, Ran(stmts, o))]
        /\ unrepaired' = unrepaired \union Unmade(stmts, o) \union (unseen \intersect OldTriggers)
        /\ (Cut(stmts, o) /\ Die) \/ (~Cut(stmts, o) /\ pc' = "backup")
        /\ UNCHANGED <<store, bak, failed>>
  BY <1>1 DEF Repair
<1>3. /\ pc = "components" /\ store = "sms_mms" /\ InOnOpen
      /\ CountedTables \union CheckedFields \subseteq db.schema \union unrepaired
  BY DEF CheckAndCompleteComponent, UpgradeInv, VersionKept, InOnOpen, SchemaInv, OnTheWay
<1> DEFINE more == Unmade(stmts, o) \union (unseen \intersect OldTriggers)
<1>4. unrepaired' = unrepaired \union more /\ unrepaired \subseteq Gone
  BY <1>2 DEF Gone
<1>5. Repairing(stmts)
  BY ComponentsDo
<1>6. Loose("sms_mms", db.schema, Gone)
  BY <1>3, Current
<1>7. ~Cut(stmts, o) => Full("sms_mms", Executed(db.schema, Ran(stmts, o)), Gone \union more, unrepaired \union more)
  BY <1>3, <1>4, <1>6, ComponentsRun
<1> HIDE DEF stmts, more
<1>8. /\ Fits(store, db'.version, db'.schema, Gone') /\ db'.schema = Executed(db.schema, Ran(stmts, o))
      /\ Gone' = Gone \union unrepaired'
  BY <1>2, <1>3, <1>4, <1>5, RepairFits
<1>9. CASE Die
  BY <1>2, <1>4, <1>8, <1>9, DeathOnTheWay, BackupStays DEF Die
<1>10. CASE ~Cut(stmts, o) /\ pc' = "backup"
  <2>1. Gone' = Gone \union more
    BY <1>4, <1>8
  <2>2. Full(store, db'.schema, Gone', unrepaired')
    BY <1>3, <1>4, <1>7, <1>8, <1>10, <2>1
  <2>3. OnTheWay'
    BY <1>2, <1>10, <2>2 DEF OnTheWay
  <2> QED BY <1>2, <1>4, <1>8, <2>3, BackupStays
<1> QED BY <1>2, <1>9, <1>10

-----------------------------------------------------------------------------
(* The backup, the restore, and the life of an open store.                 *)
LEMMA DoBackUpDBCompletes == ASSUME UpgradeInv, SchemaInv, DoBackUpDB PROVE SchemaInv'
<1>1. /\ pc = "backup" /\ pc' = "opened" /\ UNCHANGED <<store, db, failed, unrepaired>>
      /\ bak' = bak \/ bak' = db
  BY DEF DoBackUpDB
<1>2. Gone' = Gone
  BY <1>1 DEF Gone
<1>3. store \in Stores /\ db.version = VERSION[store] /\ VERSION[store] \in Nat \ {0}
  BY <1>1, Current DEF InOnOpen
<1>4. Fits(store, db.version, db.schema, Gone) /\ Full(store, db.schema, Gone, unrepaired)
  BY <1>1, <1>3 DEF SchemaInv, OnTheWay
<1>5. OnTheWay'
  BY <1>1, <1>2, <1>4 DEF OnTheWay
<1>6. CASE bak' = bak
  BY <1>1, <1>2, <1>4, <1>5, <1>6, BackupStays
<1>7. CASE bak' = db
  BY <1>1, <1>2, <1>4, <1>5, <1>7 DEF SchemaInv
<1> QED BY <1>1, <1>6, <1>7

LEMMA RestoreCompletes == ASSUME UpgradeInv, SchemaInv, Restore PROVE SchemaInv'
<1>1. /\ pc = "opened" /\ pc' = Opening(db') /\ at' = 1 /\ UNCHANGED <<store, bak, failed, unrepaired>>
      /\ db' = Restored \/ db' = db
  BY DEF Restore
<1>2. Gone' = Gone
  BY <1>1 DEF Gone
<1>3. db' = db \/ (db' = bak /\ bak # NoBackup)
  BY <1>1 DEF Restored
<1>4. store \in Stores /\ db'.version \in Nat
  BY <1>3 DEF UpgradeInv
<1>5. Fits(store, db'.version, db'.schema, Gone')
  BY <1>2, <1>3 DEF SchemaInv
<1>6. store' = store /\ pc' = Opening(db') /\ at' = 1
  BY <1>1
<1>7. OnTheWay'
  BY <1>4, <1>6, OpeningFits
<1> QED BY <1>1, <1>5, <1>7, BackupStays

LEMMA TryRestoreCompletes == ASSUME UpgradeInv, SchemaInv, TryRestore PROVE SchemaInv'
<1>1. pc = "ready" /\ pc' = pc /\ db' = bak /\ UNCHANGED <<store, bak, failed, unrepaired>>
  BY DEF TryRestore, opening, history
<1>2. Gone' = Gone
  BY <1>1 DEF Gone
<1>3. Fits(store, db'.version, db'.schema, Gone')
  BY <1>1, <1>2 DEF SchemaInv
<1>4. OnTheWay'
  BY <1>1, <1>2 DEF SchemaInv, OnTheWay
<1> QED BY <1>1, <1>3, <1>4, BackupStays

(* Steps that leave the schema alone and close the store or keep it open.  *)
LEMMA QuietCompletes ==
  ASSUME UpgradeInv, SchemaInv, UNCHANGED <<store, bak, failed, unrepaired>>,
         db'.version = db.version, db'.schema = db.schema,
         pc' = "closed" \/ (pc \in {"opened", "ready"} /\ pc' = "ready")
  PROVE  SchemaInv'
<1>1. Gone' = Gone
  BY DEF Gone
<1>2. Fits(store, db'.version, db'.schema, Gone')
  BY <1>1 DEF SchemaInv
<1>3. OnTheWay'
  BY <1>1 DEF SchemaInv, OnTheWay
<1> QED BY <1>2, <1>3, BackupStays

LEMMA ReceiveCompletes == ASSUME UpgradeInv, SchemaInv, NEW m \in Msgs, Receive(m) PROVE SchemaInv'
<1>1. pc = "ready" /\ pc' = pc /\ UNCHANGED <<store, bak, failed, unrepaired>>
  BY DEF Receive, opening, history
<1>2. PICK rows, rcs : db' = [db EXCEPT !.rows = rows, !.rcs = rcs]
  <2> DEFINE more == IF m \in RcsMsgs THEN db.rcs \union {m} ELSE db.rcs
  <2>1. db' = [db EXCEPT !.rows[m] = 1, !.rcs = more]
    BY DEF Receive
  <2>2. db' = [db EXCEPT !.rows = [db.rows EXCEPT ![m] = 1], !.rcs = more]
    BY <2>1
  <2> QED BY <2>2
<1>3. db'.version = db.version /\ db'.schema = db.schema
  BY <1>2 DEF UpgradeInv, IsFile
<1> QED BY <1>1, <1>3, QuietCompletes

LEMMA RemoveCompletes == ASSUME UpgradeInv, SchemaInv, NEW m \in Msgs, Remove(m) PROVE SchemaInv'
<1>1. pc = "ready" /\ pc' = pc /\ UNCHANGED <<store, bak, failed, unrepaired>>
  BY DEF Remove, opening
<1>2. PICK rows, rcs : db' = [db EXCEPT !.rows = rows, !.rcs = rcs]
  <2>1. db' = [db EXCEPT !.rows[m] = 0, !.rcs = db.rcs \ {m}]
    BY DEF Remove
  <2>2. db' = [db EXCEPT !.rows = [db.rows EXCEPT ![m] = 0], !.rcs = db.rcs \ {m}]
    BY <2>1
  <2> QED BY <2>2
<1>3. db'.version = db.version /\ db'.schema = db.schema
  BY <1>2 DEF UpgradeInv, IsFile
<1> QED BY <1>1, <1>3, QuietCompletes

LEMMA LifeCompletes == ASSUME UpgradeInv, SchemaInv, Serve \/ Damage \/ Close \/ Crash PROVE SchemaInv'
<1>1. UNCHANGED <<store, db, bak, failed, unrepaired>>
  BY DEF Serve, Damage, Close, Crash, history
<1>2. pc' = "closed" \/ (pc \in {"opened", "ready"} /\ pc' = "ready")
  BY DEF Serve, Damage, Close, Crash, Die, opening
<1> QED BY <1>1, <1>2, QuietCompletes

LEMMA SchemaNext == UpgradeInv /\ SchemaInv /\ [Next]_vars => SchemaInv'
<1> SUFFICES ASSUME UpgradeInv, SchemaInv, [Next]_vars PROVE SchemaInv'
  OBVIOUS
<1>1. CASE \E p \in 1..VERSION[store] : VersionUpTo(p)
  BY <1>1, VersionUpToCompletes
<1>2. CASE \E m \in Msgs : Receive(m) \/ Remove(m)
  BY <1>2, ReceiveCompletes, RemoveCompletes
<1>3. CASE Open \/ OnCreate \/ OnDowngrade \/ SetVersion
  BY <1>3, OpenCompletes, OnCreateCompletes, OnDowngradeCompletes, SetVersionCompletes
<1>4. CASE VersionUpToTwelve \/ RcsInfoInsertSmsMmsInfo \/ CreateFavoriteTable
             \/ GetHistoryFavoriteItem \/ VersionUpTo26 \/ PdpUpToFour
  BY <1>4, TwelveCompletes, CopyCompletes, FavoritesComplete, HistoryCompletes, OrphansComplete, PdpFourCompletes
<1>5. CASE OnOpenOther \/ OnOpenNoVersion \/ OnOpen \/ DoBackUpDB
  BY <1>5, OnOpenOtherCompletes, OnOpenNoVersionCompletes, OnOpenCompletes, DoBackUpDBCompletes
<1>6. CASE CheckAndCompleteFields \/ CheckAndCompleteComponent
  BY <1>6, FieldsComplete, ComponentsComplete
<1>7. CASE Restore \/ Serve \/ Damage \/ TryRestore \/ Close \/ Crash
  BY <1>7, RestoreCompletes, TryRestoreCompletes, LifeCompletes
<1>8. CASE UNCHANGED vars
  <2>1. UNCHANGED <<store, db, bak, pc, at, failed, unrepaired>>
    BY <1>8 DEF vars, opening, history
  <2>2. Gone' = Gone
    BY <2>1 DEF Gone
  <2>3. OnTheWay'
    BY <2>1, <2>2 DEF SchemaInv, OnTheWay
  <2> QED BY <2>1, <2>2, <2>3 DEF SchemaInv
<1> QED BY <1>1, <1>2, <1>3, <1>4, <1>5, <1>6, <1>7, <1>8 DEF Next

-----------------------------------------------------------------------------
(* The files that are found: what they lack, the steps they wait for make. *)
LEMMA ReleaseFits ==
  ASSUME NEW s \in Stores, NEW v \in 1..VERSION[s], NEW q \in v..VERSION[s]
  PROVE  /\ v < VERSION[s] => Upgradable(s, Release(s, q), v + 1, {})
         /\ v = VERSION[s] => All(s) \subseteq Release(s, q)
         /\ s # "sms_mms" \/ v = VERSION[s] => OldTriggers \intersect Release(s, q) = {}
<1>1. VERSION[s] \in Nat \ {0} /\ q \in 1..VERSION[s]
  BY Versions
<1>2. /\ Release(s, q) \subseteq First(s) \union Brought(s, q)
                                       \union (IF s = "sms_mms" /\ q \in 18..32 THEN OldTriggers ELSE {})
      /\ (First(s) \union Brought(s, q)) \ Columns("mms_info", UpgradedView) \subseteq Release(s, q)
      /\ s # "sms_mms" \/ q >= 30 => First(s) \union Brought(s, q) \subseteq Release(s, q)
  BY <1>1, ReleaseIs
<1>3. ASSUME v < VERSION[s], NEW w \in All(s) PROVE w \in Release(s, q) \union Owed(s, v + 1)
  <2>1. CASE w \in First(s) \union Brought(s, q)
    <3>1. CASE w \notin Columns("mms_info", UpgradedView) \/ s # "sms_mms" \/ q >= 30
      BY <1>2, <2>1, <3>1
    <3>2. CASE w \in Columns("mms_info", UpgradedView) /\ s = "sms_mms" /\ ~(q >= 30)
      <4>1. 30 \in (v + 1)..VERSION[s] /\ w \in ViewObjects
        BY <3>2, Version35 DEF ViewObjects
      <4>2. ViewObjects \subseteq Made(Steps[s][30])
        BY <3>2, SmsMade19To35, SmsStepsAre
      <4> QED BY <4>1, <4>2 DEF Owed
    <3> QED BY <3>1, <3>2
  <2>2. CASE w \notin First(s) \union Brought(s, q)
    <3>1. PICK r \in 1..VERSION[s] : w \in Made(Steps[s][r])
      BY <1>3, <2>2 DEF All, Brought
    <3>2. r \notin 1..q
      BY <2>2, <3>1 DEF Brought
    <3>3. r \in (v + 1)..VERSION[s]
      BY <1>1, <3>1, <3>2
    <3> QED BY <3>1, <3>3 DEF Owed
  <2> QED BY <2>1, <2>2
<1>4. ASSUME v = VERSION[s] PROVE All(s) \subseteq Release(s, q)
  <2>1. q = VERSION[s]
    BY <1>1, <1>4
  <2>2. s # "sms_mms" \/ q >= 30
    BY <2>1, Version35
  <2> QED BY <1>2, <2>1, <2>2 DEF All
<1>5. ASSUME s # "sms_mms" \/ v = VERSION[s] PROVE OldTriggers \intersect Release(s, q) = {}
  <2>1. ~(s = "sms_mms" /\ q \in 18..32)
    BY <1>1, <1>5, Version35
  <2>2. First(s) \union Brought(s, q) \subseteq All(s)
    BY <1>1, BroughtLater DEF All
  <2> QED BY <1>2, <2>1, <2>2, NoOldTriggers
<1> QED BY <1>3, <1>4, <1>5 DEF Upgradable

LEMMA FoundFits ==
  ASSUME NEW s \in Stores, NEW v \in Nat, NEW p \in Nat, v <= p
  PROVE  /\ Fits(s, v, Found(s, v, p).schema, {})
         /\ v >= VERSION[s] /\ v = p => Full(s, Found(s, v, p).schema, {}, {})
<1>1. VERSION[s] \in Nat \ {0}
  BY Versions
<1>2. CASE v = 0
  <2>1. Found(s, v, p) = Empty /\ Empty.version = 0
    BY <1>2, EmptyFile DEF Found
  <2> QED BY <1>1, <1>2, <2>1, NewFits
<1>3. CASE v > 0
  <2> DEFINE q == IF p > VERSION[s] THEN VERSION[s] ELSE p
             view == IF p > v /\ s = "sms_mms" THEN Columns("mms_info", UpgradedView) ELSE {}
             u == IF v > VERSION[s] THEN VERSION[s] ELSE v
  <2>1. Found(s, v, p).schema = Release(s, q) \union view
    BY <1>3 DEF Found
  <2>2. /\ u \in 1..VERSION[s] /\ q \in u..VERSION[s]
        /\ u < VERSION[s] <=> v < VERSION[s]
        /\ u = VERSION[s] <=> v >= VERSION[s]
        /\ u < VERSION[s] => u = v
    BY <1>1, <1>3
  <2>3. (s # "sms_mms" => view = {}) /\ (v = p => view = {})
    OBVIOUS
  <2> HIDE DEF q, view, u
  <2>4. /\ u < VERSION[s] => Upgradable(s, Release(s, q), u + 1, {})
        /\ u = VERSION[s] => All(s) \subseteq Release(s, q)
        /\ s # "sms_mms" \/ u = VERSION[s] => OldTriggers \intersect Release(s, q) = {}
    BY <2>2, ReleaseFits
  <2>5. v < VERSION[s] => Upgradable(s, Release(s, q) \union view, v + 1, {})
    BY <2>2, <2>4 DEF Upgradable
  <2>6. v >= VERSION[s] => Loose(s, Release(s, q) \union view, {})
    <3>1. v >= VERSION[s] => All(s) \subseteq (Release(s, q) \union view) \union {}
      BY <2>2, <2>4
    <3> QED BY <3>1, AllLoose
  <2>7. s # "sms_mms" => OldTriggers \intersect (Release(s, q) \union view) = {}
    BY <2>3, <2>4
  <2>8. v >= VERSION[s] /\ v = p => Full(s, Release(s, q) \union view, {}, {})
    BY <2>2, <2>3, <2>4 DEF Full, Missing
  <2> QED BY <1>1, <1>3, <2>1, <2>5, <2>6, <2>7, <2>8 DEF Fits
<1> QED BY <1>2, <1>3

LEMMA SchemaInit == Init => SchemaInv
<1> SUFFICES ASSUME Init PROVE SchemaInv
  OBVIOUS
<1>1. PICK start \in Starts : store = start[1] /\ db = Found(start[1], start[2], start[3])
  BY DEF Init
<1>2. start \in Stores \X Nat \X Nat /\ start[2] <= start[3]
  BY <1>1, SchemaAssumption
<1>3. store \in Stores /\ start[2] \in Nat /\ start[3] \in Nat /\ db.version = start[2]
  BY <1>1, <1>2, ReleasedFile
<1>4. pc = "closed" /\ failed = {} /\ unrepaired = {} /\ Gone = {}
  BY DEF Init, Gone
<1>5. Fits(store, db.version, db.schema, Gone)
  BY <1>1, <1>2, <1>3, <1>4, FoundFits
<1>6. OnTheWay
  BY <1>4 DEF OnTheWay
<1>7. CASE bak = NoBackup
  <2>1. VERSION[store] \in Nat
    BY <1>3, Versions
  <2>2. Fits(store, bak.version, bak.schema, Gone) /\ bak.version = -1
    BY <1>3, <1>7, NewFits
  <2> QED BY <1>5, <1>6, <2>1, <2>2 DEF SchemaInv
<1>8. CASE bak = Found(store, start[2], start[2])
  <2>1. bak.version = start[2]
    BY <1>3, <1>8, ReleasedFile
  <2>2. /\ Fits(store, bak.version, bak.schema, Gone)
        /\ bak.version >= VERSION[store] => Full(store, bak.schema, Gone, unrepaired)
    BY <1>3, <1>4, <1>8, <2>1, FoundFits
  <2> QED BY <1>5, <1>6, <2>2 DEF SchemaInv
<1> QED BY <1>3, <1>7, <1>8 DEF Init

(* What a schema may lack at every point of every opening: what the steps  *)
(* to come make, or OnOpen looks for, or a statement that failed was about.*)
THEOREM SchemaCompletes == Spec => []SchemaInv
<1>1. Init => UpgradeInv /\ SchemaInv
  BY UpgradeInit, SchemaInit
<1>2. UpgradeInv /\ SchemaInv /\ [Next]_vars => UpgradeInv' /\ SchemaInv'
  BY UpgradeNext, SchemaNext
<1> QED BY <1>1, <1>2, PTL DEF Spec

(* An open store of the present version has the schema of a new one, short *)
(* only of what a failed statement was about, and of what OnOpen looks     *)
(* after only where its own repair failed.                                 *)
THEOREM SchemaIsComplete == Spec => []SchemaComplete
<1>1. UpgradeInv /\ SchemaInv => SchemaComplete
  <2> SUFFICES ASSUME UpgradeInv, SchemaInv, pc = "ready", db.version = VERSION[store]
               PROVE  /\ Lacking(db) \subseteq failed \union unrepaired
                      /\ store = "sms_mms" => Lacking(db) \intersect Checked \subseteq unrepaired
    BY DEF SchemaComplete
  <2>1. store \in Stores /\ VERSION[store] \in Nat
    BY Versions DEF UpgradeInv
  <2>2. Full(store, db.schema, Gone, unrepaired)
    BY <2>1 DEF SchemaInv, OnTheWay
  <2>3. Lacking(db) = Missing(store, db.schema)
    BY <2>1, LackingIs
  <2> QED BY <2>2, <2>3 DEF Full, Gone
<1> QED BY <1>1, UpgradeIsSafe, SchemaCompletes, PTL
=============================================================================
