------------------------- MODULE ConfigLoaderProofs -------------------------
(* Types of ConfigLoader, that a digest on record means "loaded", and that *)
(* a start in which nothing failed loads.                                  *)
EXTENDS ConfigLoader, SequenceTheorems, TLAPS

DbTypes ==
  /\ view \in Rows /\ disk \in Rows
  /\ open \in [Stores -> Nat]
  /\ pref \in Digests /\ prefDisk \in Digests
  /\ file \in [Tables -> Versions]
  /\ broken \in [Tables -> SUBSET Versions]

LoadTypes ==
  /\ created \in [view : SUBSET Stores, disk : SUBSET Stores]
  /\ ready \in [Stores -> {"closed", "loading", "ready"}]
  /\ todo \in [Stores -> Seq(Load)]
  /\ step \in [Stores -> {"parse", "clear", "begin", "insert", "commit", "save"}]
  /\ version \in [Stores -> 0..MaxVersion]
  /\ \A s \in Stores : todo[s] # <<>> <=> ready[s] = "loading"
  /\ \A s \in Stores : todo[s] = <<>> => step[s] = "parse"
  /\ \A s \in Stores : \A i \in DOMAIN todo[s] : StoreOf(todo[s][i].table) = s

RestTypes ==
  /\ asked \in AskedFor /\ nests \in BOOLEAN
  /\ faults \in Nat /\ clean \in [Stores -> BOOLEAN]

(* The types fall into those of the data, of the loads and of the rest.    *)
LEMMA TypeParts == TypeOK <=> DbTypes /\ LoadTypes /\ RestTypes
  BY DEF TypeOK, DbTypes, LoadTypes, RestTypes

LEMMA NoElement == ASSUME NEW S, NEW q \in Seq(S) PROVE q = <<>> <=> Len(q) = 0
  BY EmptySeq

LEMMA Tailed ==
  ASSUME NEW q \in Seq(Load), q # <<>>
  PROVE  /\ Head(q) \in Load /\ Head(q) = q[1] /\ 1 \in DOMAIN q
         /\ Tail(q) \in Seq(Load)
         /\ Tail(q) = <<>> <=> Len(q) = 1
         /\ \A i \in DOMAIN Tail(q) : i + 1 \in DOMAIN q /\ Tail(q)[i] = q[i + 1]
  <1>1. Len(q) \in Nat \ {0} /\ DOMAIN q = 1..Len(q) OBVIOUS
  <1>2. Head(q) \in Load /\ Head(q) = q[1] OBVIOUS
  <1>3. Tail(q) \in Seq(Load) /\ Len(Tail(q)) = Len(q) - 1 OBVIOUS
  <1>4. Tail(q) = <<>> <=> Len(Tail(q)) = 0 BY <1>3, NoElement
  <1>5. \A i \in DOMAIN Tail(q) : i + 1 \in DOMAIN q /\ Tail(q)[i] = q[i + 1]
    <2> TAKE i \in DOMAIN Tail(q)
    <2>1. i \in 1..(Len(q) - 1) BY <1>3
    <2> QED BY <2>1, <1>1
  <1> QED BY <1>1, <1>2, <1>3, <1>4, <1>5

LEMMA AskedStore == RestTypes => asked \subseteq Stores
  BY ConfigAssumption DEF RestTypes

LEMMA StoreTypes == \A t \in Tables : StoreOf(t) \in Stores
  BY DEF Stores, StoreOf

(* The table of the load under way is one of the store.                    *)
LEMMA CurrentTable ==
  ASSUME LoadTypes, NEW s \in Stores, todo[s] # <<>>
  PROVE  Current(s) \in Tables /\ StoreOf(Current(s)) = s /\ Head(todo[s]).check \in BOOLEAN
  <1>1. todo[s] \in Seq(Load) BY DEF LoadTypes
  <1>2. Head(todo[s]) \in Load /\ Head(todo[s]) = todo[s][1] /\ 1 \in DOMAIN todo[s] BY <1>1, Tailed
  <1> QED BY <1>2 DEF LoadTypes, Current, Load

-----------------------------------------------------------------------------
(* Types of the loads.                                                     *)

LEMMA GoTypes ==
  ASSUME LoadTypes, NEW s \in Stores,
         NEW st \in {"parse", "clear", "begin", "insert", "commit", "save"},
         todo[s] # <<>>, Go(s, st), UNCHANGED created
  PROVE  LoadTypes'
  BY DEF LoadTypes, Go

LEMMA ReturnTypes ==
  ASSUME LoadTypes, NEW s \in Stores, todo[s] # <<>>, Return(s)
  PROVE  LoadTypes'
  <1> DEFINE q == todo[s]
  <1>1. q \in Seq(Load) BY DEF LoadTypes
  <1>2. Tail(q) \in Seq(Load) /\ (Tail(q) = <<>> <=> Len(q) = 1)
        /\ \A i \in DOMAIN Tail(q) : i + 1 \in DOMAIN q /\ Tail(q)[i] = q[i + 1]
    BY <1>1, Tailed
  <1>3. todo' = [todo EXCEPT ![s] = Tail(q)] BY DEF Return
  <1>4. todo' \in [Stores -> Seq(Load)] BY <1>2, <1>3 DEF LoadTypes
  <1>5. ASSUME NEW r \in Stores PROVE todo'[r] # <<>> <=> ready'[r] = "loading"
    <2>1. CASE r = s
      <3>1. ready[s] = "loading" BY DEF LoadTypes
      <3>2. CASE Len(q) = 1 BY <1>2, <1>3, <2>1, <3>2 DEF LoadTypes, Return
      <3>3. CASE Len(q) # 1 BY <1>2, <1>3, <2>1, <3>1, <3>3 DEF LoadTypes, Return
      <3> QED BY <3>2, <3>3
    <2>2. CASE r # s BY <1>3, <2>2 DEF LoadTypes, Return
    <2> QED BY <2>1, <2>2
  <1>6. ASSUME NEW r \in Stores, NEW i \in DOMAIN todo'[r] PROVE StoreOf(todo'[r][i].table) = r
    <2>1. CASE r = s
      <3>1. todo'[r] = Tail(q) BY <1>3, <2>1 DEF LoadTypes
      <3>2. i + 1 \in DOMAIN q /\ Tail(q)[i] = q[i + 1] BY <1>2, <3>1
      <3> QED BY <3>1, <3>2, <2>1 DEF LoadTypes
    <2>2. CASE r # s BY <1>3, <2>2 DEF LoadTypes
    <2> QED BY <2>1, <2>2
  <1>7. created' \in [view : SUBSET Stores, disk : SUBSET Stores]
    BY DEF LoadTypes, Return, CreatedBy
  <1>8. ready' \in [Stores -> {"closed", "loading", "ready"}] BY DEF LoadTypes, Return
  <1>9. step' \in [Stores -> {"parse", "clear", "begin", "insert", "commit", "save"}]
        /\ version' \in [Stores -> 0..MaxVersion]
    BY ConfigAssumption DEF LoadTypes, Return
  <1>10. \A r \in Stores : todo'[r] = <<>> => step'[r] = "parse"
    BY <1>3 DEF LoadTypes, Return
  <1> QED BY <1>4, <1>5, <1>6, <1>7, <1>8, <1>9, <1>10 DEF LoadTypes

-----------------------------------------------------------------------------
(* What the parts of an action do to the data.                             *)

Steps == {"parse", "clear", "begin", "insert", "commit", "save"}
RowsOf == [Entries -> {Missing, Gone, Changed} \union Versions]

LEMMA ExecuteTypes ==
  ASSUME DbTypes, NEW t \in Tables, NEW rows \in RowsOf, Execute(t, rows)
  PROVE  /\ view' \in Rows /\ disk' \in Rows
         /\ view'[t] = rows
         /\ disk'[t] = IF open[StoreOf(t)] = 0 THEN rows ELSE disk[t]
         /\ \A u \in Tables : u # t => view'[u] = view[u] /\ disk'[u] = disk[u]
  BY DEF DbTypes, Rows, RowsOf, Execute

LEMMA BreakTypes ==
  ASSUME DbTypes, NEW t \in Tables, NEW D \in SUBSET Versions, Break(t, D)
  PROVE  /\ broken' \in [Tables -> SUBSET Versions]
         /\ broken'[t] = broken[t] \union D
         /\ \A u \in Tables : u # t => broken'[u] = broken[u]
  BY DEF DbTypes, Break

LEMMA RecordTypes ==
  DbTypes => \A t \in Tables : /\ OnRecord(t) \in SUBSET Versions
                              /\ pref.digest[t] \in Versions \union {NoDigest}
                              /\ pref.temp[t] \in Versions \union {NoDigest}
                              /\ pref.digest[t] \in OnRecord(t) \union {NoDigest}
  BY ConfigAssumption DEF DbTypes, Digests, OnRecord, Versions, NoDigest

LEMMA ClearTempTypes ==
  ASSUME DbTypes, NEW t \in Tables, ClearTempDigest(t)
  PROVE  /\ pref' \in Digests /\ pref'.digest = pref.digest
         /\ \A u \in Tables : u # t => pref'.temp[u] = pref.temp[u]
  BY ConfigAssumption DEF DbTypes, Digests, ClearTempDigest, NoDigest

LEMMA RefreshTypes ==
  ASSUME DbTypes, NEW t \in Tables, RefreshDigest(t)
  PROVE  /\ pref' \in Digests
         /\ pref'.digest[t] = IF pref.temp[t] = NoDigest THEN pref.digest[t] ELSE pref.temp[t]
         /\ \A u \in Tables : u # t => /\ pref'.digest[u] = pref.digest[u]
                                     /\ pref'.temp[u] = pref.temp[u]
  <1> DEFINE d == IF pref.temp[t] = NoDigest THEN pref.digest[t] ELSE pref.temp[t]
             D == [pref.digest EXCEPT ![t] = d]
             T == [pref.temp EXCEPT ![t] = NoDigest]
  <1>1. pref' = [pref EXCEPT !.digest = D, !.temp = T]
    BY DEF RefreshDigest
  <1>2. d \in 0..MaxVersion /\ NoDigest \in 0..MaxVersion
    BY ConfigAssumption DEF DbTypes, Digests, NoDigest
  <1>3. /\ D \in [Tables -> 0..MaxVersion] /\ T \in [Tables -> 0..MaxVersion]
        /\ D[t] = d
        /\ \A u \in Tables : u # t => D[u] = pref.digest[u] /\ T[u] = pref.temp[u]
    <2> HIDE DEF d
    <2> QED BY <1>2 DEF DbTypes, Digests
  <1>4. pref' \in Digests /\ pref'.digest = D /\ pref'.temp = T
    <2> HIDE DEF D, T
    <2> QED BY <1>1, <1>3 DEF DbTypes, Digests
  <1> HIDE DEF D, T
  <1> QED BY <1>3, <1>4

LEMMA ErrorTypes ==
  ASSUME DbTypes, LoadTypes, NEW s \in Stores, todo[s] # <<>>, Error(s)
  PROVE  /\ LoadTypes' /\ Return(s)
         /\ pref' \in Digests /\ pref'.digest = pref.digest
         /\ \A u \in Tables : u # Current(s) => pref'.temp[u] = pref.temp[u]
  <1>1. Return(s) BY DEF Error
  <1>2. LoadTypes' BY <1>1, ReturnTypes
  <1>3. Current(s) \in Tables BY CurrentTable
  <1>4. CASE s = "opkey" BY <1>1, <1>2, <1>4 DEF Error, DbTypes
  <1>5. CASE s # "opkey"
    <2>1. ClearTempDigest(Current(s)) BY <1>5 DEF Error
    <2> QED BY <1>1, <1>2, <1>3, <2>1, ClearTempTypes
  <1> QED BY <1>4, <1>5

LEMMA RestKept ==
  ASSUME RestTypes, UNCHANGED fixed, NEW s \in Stores, Works \/ Fails(s) \/ CannotWork(s)
  PROVE  RestTypes'
  <1>1. asked' \in AskedFor /\ nests' \in BOOLEAN BY Zenon DEF RestTypes, fixed
  <1>2. faults' \in Nat BY DEF RestTypes, Works, Fails, CannotWork
  <1>3. clean' \in [Stores -> BOOLEAN] BY DEF RestTypes, Works, Fails, CannotWork
  <1> QED BY <1>1, <1>2, <1>3 DEF RestTypes

LEMMA ReturnStep ==
  ASSUME LoadTypes, NEW s \in Stores, Return(s)
  PROVE  /\ step'[s] = "parse"
         /\ \A r \in Stores : r # s => /\ todo'[r] = todo[r] /\ step'[r] = step[r]
                                     /\ version'[r] = version[r]
  BY DEF LoadTypes, Return

LEMMA GoStep ==
  ASSUME LoadTypes, NEW s \in Stores, NEW st \in Steps, Go(s, st)
  PROVE  /\ step'[s] = st /\ UNCHANGED <<todo, version>>
         /\ \A r \in Stores : r # s => step'[r] = step[r]
  BY DEF LoadTypes, Go
-----------------------------------------------------------------------------
(* The tables and loads that a step of the load of s leaves alone.         *)

Meant(t) ==
  pref.digest[t] \notin broken[t] \union {NoDigest} /\ ~UnderWay(t) =>
    LoadedWith(view[t], pref.digest[t]) /\ LoadedWith(disk[t], pref.digest[t])

Elsewhere(s) ==
  /\ \A t \in Tables : t # Current(s) =>
       /\ view'[t] = view[t] /\ disk'[t] \in {disk[t], view[t]}
       /\ pref'.digest[t] = pref.digest[t] /\ pref'.temp[t] = pref.temp[t]
       /\ broken'[t] = broken[t]
  /\ \A r \in Stores : r # s => /\ todo'[r] = todo[r] /\ step'[r] = step[r]
                              /\ version'[r] = version[r] /\ open'[r] = open[r]

LEMMA Meaning == DigestMeansLoaded <=> \A t \in Tables : Meant(t)
  BY DEF DigestMeansLoaded, Meant

LEMMA OtherTables ==
  ASSUME LoadTypes, NEW s \in Stores, todo[s] # <<>>, Elsewhere(s),
         NEW t \in Tables, t # Current(s), Meant(t)
  PROVE  Meant(t)'
  <1>1. ~UnderWay(t)' => ~UnderWay(t)
    <2>1. CASE StoreOf(t) = s BY <2>1 DEF UnderWay
    <2>2. CASE StoreOf(t) # s
      <3>1. StoreOf(t) \in Stores BY StoreTypes
      <3>2. todo'[StoreOf(t)] = todo[StoreOf(t)] /\ step'[StoreOf(t)] = step[StoreOf(t)]
        BY <2>2, <3>1 DEF Elsewhere
      <3> QED BY <3>2 DEF UnderWay, Current
    <2> QED BY <2>1, <2>2
  <1>2. /\ view'[t] = view[t] /\ disk'[t] \in {disk[t], view[t]}
        /\ pref'.digest[t] = pref.digest[t] /\ broken'[t] = broken[t]
    BY DEF Elsewhere
  <1> QED BY <1>1, <1>2 DEF Meant

LEMMA OtherLoads ==
  ASSUME LoadTypes, NEW s \in Stores, todo[s] # <<>>, Elsewhere(s),
         NEW r \in Stores, r # s, todo[r] # <<>>, LoadProgress(r)
  PROVE  LoadProgress(r)'
  <1>1. Current(r) \in Tables /\ Current(r) # Current(s) BY CurrentTable
  <1>2. /\ todo'[r] = todo[r] /\ step'[r] = step[r]
        /\ version'[r] = version[r] /\ open'[r] = open[r]
    BY DEF Elsewhere
  <1>3. Current(r)' = Current(r) BY <1>2 DEF Current
  <1> DEFINE t == Current(r)
  <1>4. /\ view'[t] = view[t] /\ disk'[t] \in {disk[t], view[t]}
        /\ pref'.digest[t] = pref.digest[t] /\ pref'.temp[t] = pref.temp[t]
        /\ broken'[t] = broken[t]
    BY <1>1 DEF Elsewhere
  <1> QED BY <1>2, <1>3, <1>4 DEF LoadProgress, At

(* What is left to show of a step of the load of s: the types, its own     *)
(* progress and what the digest of its own table means.                    *)
LEMMA LoadStep ==
  ASSUME LoaderInv, DbTypes', LoadTypes', RestTypes',
         NEW s \in Stores, todo[s] # <<>>, Elsewhere(s),
         step'[s] = "parse" \/ (LoadProgress(s)' /\ todo'[s] = todo[s]),
         step'[s] = "parse" => \A t \in Tables : t = Current(s) => Meant(t)'
  PROVE  LoaderInv'
  <1>1. LoadTypes BY TypeParts DEF LoaderInv
  <1>2. ASSUME NEW t \in Tables PROVE Meant(t)'
    <2>1. CASE t # Current(s) BY <1>1, <2>1, OtherTables, Meaning DEF LoaderInv
    <2>2. CASE t = Current(s) /\ step'[s] = "parse" BY <2>2
    <2>3. CASE t = Current(s) /\ step'[s] # "parse"
      <3>1. StoreOf(t) = s BY <1>1, <2>3, CurrentTable
      <3>2. UnderWay(t)' BY <2>3, <3>1 DEF UnderWay, Current
      <3> QED BY <3>2 DEF Meant
    <2> QED BY <2>1, <2>2, <2>3
  <1>3. ASSUME NEW r \in Stores, todo'[r] # <<>>, step'[r] # "parse" PROVE LoadProgress(r)'
    <2>1. CASE r = s BY <1>3, <2>1
    <2>2. CASE r # s
      <3>1. todo'[r] = todo[r] /\ step'[r] = step[r] BY <2>2 DEF Elsewhere
      <3> QED BY <1>1, <1>3, <2>2, <3>1, OtherLoads DEF LoaderInv
    <2> QED BY <2>1, <2>2
  <1>4. TypeOK' BY TypeParts DEF DbTypes, LoadTypes, RestTypes, TypeOK
  <1>5. DigestMeansLoaded' BY <1>2 DEF Meant, DigestMeansLoaded
  <1> QED BY <1>3, <1>4, <1>5 DEF LoaderInv
(* A load that fails past its file: what is on record is given up.         *)
LEMMA ErrorKeeps ==
  ASSUME LoaderInv, RestTypes', NEW s \in Stores, todo[s] # <<>>,
         UNCHANGED <<open, prefDisk, file>>, view' \in Rows, disk' \in Rows,
         \A u \in Tables : u # Current(s) => view'[u] = view[u] /\ disk'[u] = disk[u],
         Break(Current(s), OnRecord(Current(s))), Error(s)
  PROVE  LoaderInv'
  <1> DEFINE t == Current(s)
  <1>1. DbTypes /\ LoadTypes /\ RestTypes BY TypeParts DEF LoaderInv
  <1>2. t \in Tables BY <1>1, CurrentTable
  <1>3. /\ LoadTypes' /\ Return(s) /\ pref' \in Digests /\ pref'.digest = pref.digest
        /\ \A u \in Tables : u # t => pref'.temp[u] = pref.temp[u]
    BY <1>1, ErrorTypes
  <1>4. /\ OnRecord(t) \in SUBSET Versions
        /\ pref.digest[t] \in OnRecord(t) \union {NoDigest}
    BY <1>1, <1>2, RecordTypes
  <1>5. /\ broken' \in [Tables -> SUBSET Versions]
        /\ broken'[t] = broken[t] \union OnRecord(t)
        /\ \A u \in Tables : u # t => broken'[u] = broken[u]
    BY <1>1, <1>2, <1>4, BreakTypes
  <1>6. DbTypes' BY <1>1, <1>3, <1>5 DEF DbTypes
  <1>7. /\ step'[s] = "parse"
        /\ \A r \in Stores : r # s => todo'[r] = todo[r] /\ step'[r] = step[r] /\ version'[r] = version[r]
    BY <1>1, <1>3, ReturnStep
  <1>8. Elsewhere(s) BY <1>3, <1>5, <1>7 DEF Elsewhere
  <1>9. \A u \in Tables : u = t => Meant(u)' BY <1>3, <1>4, <1>5 DEF Meant
  <1> QED BY <1>3, <1>6, <1>7, <1>8, <1>9, LoadStep

-----------------------------------------------------------------------------
(* The steps of a load.                                                    *)

LEMMA ParseKeeps ==
  ASSUME LoaderInv, NEW s \in Stores, NEW ok \in BOOLEAN, Parse(s, ok)
  PROVE  LoaderInv'
  <1> DEFINE t == Current(s)
             check == Head(todo[s]).check
  <1>1. DbTypes /\ LoadTypes /\ RestTypes BY TypeParts DEF LoaderInv
  <1>2. todo[s] # <<>> /\ step[s] = "parse" BY DEF Parse, At
  <1>3. t \in Tables /\ StoreOf(t) = s /\ check \in BOOLEAN BY <1>1, <1>2, CurrentTable
  <1>4. UNCHANGED <<view, disk, open, asked, nests, prefDisk, file, broken>>
    BY DEF Parse, fixed
  <1>5. file[t] \in Versions BY <1>1, <1>3 DEF DbTypes
  <1>6. CASE /\ check => IsDigestChanged(t)
             /\ pref' = IF check /\ t \in Global THEN [pref EXCEPT !.temp[t] = file[t]] ELSE pref
             /\ step' = [step EXCEPT ![s] = "clear"]
             /\ version' = [version EXCEPT ![s] = file[t]]
             /\ UNCHANGED <<ready, todo, created>> /\ Works
    <2> DEFINE T == [pref.temp EXCEPT ![t] = file[t]]
    <2>1. T \in [Tables -> 0..MaxVersion] /\ T[t] = file[t] /\ \A u \in Tables : u # t => T[u] = pref.temp[u]
      <3> HIDE DEF t
      <3> QED BY <1>1, <1>3, <1>5 DEF DbTypes, Digests, Versions
    <2>2. pref' = IF check /\ t \in Global THEN [pref EXCEPT !.temp = T] ELSE pref
      BY <1>6
    <2>3. /\ pref' \in Digests /\ pref'.digest = pref.digest
          /\ \A u \in Tables : u # t => pref'.temp[u] = pref.temp[u]
          /\ check /\ t \in Global => pref'.temp[t] = file[t]
      <3>1. CASE check /\ t \in Global
        <4>1. pref' = [pref EXCEPT !.temp = T] BY <2>2, <3>1
        <4>2. pref' \in Digests /\ pref'.digest = pref.digest /\ pref'.temp = T
          <5> HIDE DEF T
          <5> QED BY <1>1, <2>1, <4>1 DEF DbTypes, Digests
        <4> HIDE DEF T, t
        <4> QED BY <2>1, <4>2
      <3>2. CASE ~(check /\ t \in Global)
        <4>1. pref' = pref BY <2>2, <3>2
        <4> QED BY <1>1, <3>2, <4>1 DEF DbTypes
      <3> HIDE DEF T, t, check
      <3> QED BY <3>1, <3>2, Zenon
    <2>4. DbTypes' BY <1>1, <1>4, <2>3 DEF DbTypes
    <2>5. file[t] \in 0..MaxVersion BY <1>5 DEF Versions
    <2>6. LoadTypes'
      <3> HIDE DEF t
      <3> QED BY <1>1, <1>2, <1>6, <2>5 DEF LoadTypes
    <2>7. RestTypes' BY <1>1, <1>4, <1>6, RestKept DEF fixed
    <2>8. step'[s] = "clear" /\ version'[s] = file[t] /\ todo' = todo
          /\ \A r \in Stores : r # s => step'[r] = step[r] /\ version'[r] = version[r]
      <3> HIDE DEF t
      <3> QED BY <1>1, <1>6 DEF LoadTypes
    <2>9. Elsewhere(s) BY <1>4, <2>3, <2>8 DEF Elsewhere
    <2>10. LoadProgress(s)'
      <3>1. Current(s)' = t /\ Head(todo[s])' = Head(todo[s]) BY <2>8 DEF Current
      <3> HIDE DEF t
      <3> QED BY <1>5, <2>3, <2>8, <3>1 DEF LoadProgress, At
    <2> QED BY <1>2, <2>4, <2>6, <2>7, <2>8, <2>9, <2>10, LoadStep
  <1>7. CASE Error(s) /\ (Works \/ Fails(s))
    <2>1. /\ LoadTypes' /\ Return(s) /\ pref' \in Digests /\ pref'.digest = pref.digest
          /\ \A u \in Tables : u # Current(s) => pref'.temp[u] = pref.temp[u]
      BY <1>1, <1>2, <1>7, ErrorTypes
    <2>2. DbTypes' BY <1>1, <1>4, <2>1 DEF DbTypes
    <2>3. RestTypes' BY <1>1, <1>4, <1>7, RestKept DEF fixed
    <2>4. /\ step'[s] = "parse"
          /\ \A r \in Stores : r # s => todo'[r] = todo[r] /\ step'[r] = step[r] /\ version'[r] = version[r]
      BY <1>1, <2>1, ReturnStep
    <2>5. Elsewhere(s) BY <1>4, <2>1, <2>4 DEF Elsewhere
    <2>6. ~UnderWay(t) BY <1>2, <1>3 DEF UnderWay
    <2>7. Meant(t) BY <1>3, Meaning DEF LoaderInv
    <2>8. \A u \in Tables : u = t => Meant(u)'
      BY <1>4, <2>1, <2>6, <2>7 DEF Meant
    <2> QED BY <1>2, <2>1, <2>2, <2>3, <2>4, <2>5, <2>8, LoadStep
  <1> QED BY <1>6, <1>7 DEF Parse

LEMMA ClearDataKeeps ==
  ASSUME LoaderInv, NEW s \in Stores, NEW ok \in BOOLEAN, ClearData(s, ok)
  PROVE  LoaderInv'
  <1> DEFINE t == Current(s)
  <1>1. DbTypes /\ LoadTypes /\ RestTypes BY TypeParts DEF LoaderInv
  <1>2. todo[s] # <<>> /\ step[s] = "clear" BY DEF ClearData, At
  <1>3. t \in Tables /\ StoreOf(t) = s BY <1>1, <1>2, CurrentTable
  <1>4. UNCHANGED <<created, open, asked, nests, pref, prefDisk, file, broken>> /\ Go(s, "begin")
    BY DEF ClearData, fixed
  <1>5. /\ view' \in Rows /\ disk' \in Rows
        /\ \A u \in Tables : u # t => view'[u] = view[u] /\ disk'[u] = disk[u]
    <2>1. CASE ok
      <3>1. Execute(t, EmptyTable) BY <2>1 DEF ClearData
      <3>2. EmptyTable \in RowsOf BY DEF EmptyTable, RowsOf
      <3> QED BY <1>1, <1>3, <3>1, <3>2, ExecuteTypes
    <2>2. CASE ~ok BY <1>1, <2>2 DEF ClearData, DbTypes
    <2> QED BY <2>1, <2>2
  <1>6. DbTypes' BY <1>1, <1>4, <1>5 DEF DbTypes
  <1>7. LoadTypes' BY <1>1, <1>2, <1>4, GoTypes
  <1>8. RestTypes'
    <2>1. Works \/ Fails(s) BY DEF ClearData
    <2> QED BY <1>1, <1>4, <2>1, RestKept DEF fixed
  <1>9. /\ step'[s] = "begin" /\ UNCHANGED <<todo, version>>
        /\ \A r \in Stores : r # s => step'[r] = step[r]
    BY <1>1, <1>4, GoStep DEF Steps
  <1>10. Elsewhere(s) BY <1>4, <1>5, <1>9 DEF Elsewhere
  <1>11. LoadProgress(s) BY <1>2 DEF LoaderInv
  <1>12. LoadProgress(s)' BY <1>4, <1>9, <1>11 DEF LoadProgress, At, Current
  <1> QED BY <1>2, <1>6, <1>7, <1>8, <1>9, <1>10, <1>12, LoadStep
LEMMA BeginKeeps ==
  ASSUME LoaderInv, NEW s \in Stores, NEW ok \in BOOLEAN, BeginTransaction(s, ok)
  PROVE  LoaderInv'
  <1> DEFINE t == Current(s)
  <1>1. DbTypes /\ LoadTypes /\ RestTypes BY TypeParts DEF LoaderInv
  <1>2. todo[s] # <<>> /\ step[s] = "begin" BY DEF BeginTransaction, At
  <1>3. t \in Tables /\ StoreOf(t) = s BY <1>1, <1>2, CurrentTable
  <1>4. UNCHANGED <<view, disk, asked, nests, prefDisk, file>> BY DEF BeginTransaction, fixed
  <1>5. RestTypes'
    <2>1. Works \/ Fails(s) \/ CannotWork(s) BY DEF BeginTransaction
    <2> QED BY <1>1, <1>4, <2>1, RestKept DEF fixed
  <1>6. LoadProgress(s) BY <1>2 DEF LoaderInv
  <1>7. CASE ok
    <2>1. /\ UNCHANGED <<pref, created>> /\ Go(s, "insert")
          /\ open' = [open EXCEPT ![s] = @ + 1]
          /\ IF open[s] > 0 THEN Break(t, {version[s]}) ELSE UNCHANGED broken
      BY <1>7 DEF BeginTransaction
    <2>2. version[s] \in Versions BY <1>6 DEF LoadProgress
    <2>3. open[s] \in Nat /\ open' \in [Stores -> Nat] /\ open'[s] = open[s] + 1
          /\ \A r \in Stores : r # s => open'[r] = open[r]
      BY <1>1, <2>1 DEF DbTypes
    <2>4. /\ broken' \in [Tables -> SUBSET Versions]
          /\ open[s] > 0 => version[s] \in broken'[t]
          /\ broken[t] \subseteq broken'[t]
          /\ \A u \in Tables : u # t => broken'[u] = broken[u]
      <3>1. CASE open[s] > 0
        <4>1. {version[s]} \in SUBSET Versions BY <2>2
        <4> QED BY <1>1, <1>3, <2>1, <3>1, <4>1, BreakTypes
      <3>2. CASE ~(open[s] > 0) BY <1>1, <2>1, <3>2 DEF DbTypes
      <3> QED BY <3>1, <3>2
    <2>5. DbTypes' BY <1>1, <1>4, <2>1, <2>3, <2>4 DEF DbTypes
    <2>6. LoadTypes' BY <1>1, <1>2, <2>1, GoTypes
    <2>7. /\ step'[s] = "insert" /\ UNCHANGED <<todo, version>>
          /\ \A r \in Stores : r # s => step'[r] = step[r]
      BY <1>1, <2>1, GoStep DEF Steps
    <2>8. Elsewhere(s) BY <1>4, <2>1, <2>3, <2>4, <2>7 DEF Elsewhere
    <2>9. LoadProgress(s)'
      <3>1. Current(s)' = t BY <2>7 DEF Current
      <3>2. open'[s] = 1 \/ (open'[s] > 1 /\ version[s] \in broken'[t]) BY <2>3, <2>4
      <3> HIDE DEF t
      <3>3. Head(todo[s]).check /\ t \in Global =>
              pref.temp[t] = version[s] \/ (pref.temp[t] = NoDigest /\ pref.digest[t] = NoDigest)
        BY <1>6 DEF LoadProgress, t
      <3> QED BY <2>1, <2>2, <2>7, <3>1, <3>2, <3>3 DEF LoadProgress, At
    <2> QED BY <1>2, <1>5, <2>5, <2>6, <2>7, <2>8, <2>9, LoadStep
  <1>8. CASE ~ok
    <2>1. UNCHANGED open /\ Break(t, OnRecord(t)) /\ Error(s) BY <1>8 DEF BeginTransaction
    <2>2. /\ UNCHANGED <<open, prefDisk, file>> /\ view' \in Rows /\ disk' \in Rows
          /\ \A u \in Tables : view'[u] = view[u] /\ disk'[u] = disk[u]
      BY <1>1, <1>4, <2>1 DEF DbTypes
    <2> QED BY <1>2, <1>5, <2>1, <2>2, ErrorKeeps
  <1> QED BY <1>7, <1>8
(* The rows that an insert leaves.                                         *)
LEMMA InsertedRows ==
  ASSUME NEW rows \in RowsOf, NEW S \in SUBSET Entries, NEW v \in Versions
  PROVE  /\ Inserted(rows, S, v) \in RowsOf
         /\ (\A e \in Entries : ~Present(rows[e])) /\ S = Entries =>
              LoadedWith(Inserted(rows, S, v), v)
  BY DEF RowsOf, Inserted, LoadedWith

LEMMA InsertKeeps ==
  ASSUME LoaderInv, NEW s \in Stores, NEW lost \in SUBSET Entries, Insert(s, lost)
  PROVE  LoaderInv'
  <1> DEFINE t == Current(s)
             after == Inserted(view[t], Entries \ lost, version[s])
  <1>1. DbTypes /\ LoadTypes /\ RestTypes BY TypeParts DEF LoaderInv
  <1>2. todo[s] # <<>> /\ step[s] = "insert" BY DEF Insert, At
  <1>3. t \in Tables /\ StoreOf(t) = s BY <1>1, <1>2, CurrentTable
  <1>4. UNCHANGED <<created, open, asked, nests, pref, prefDisk, file>> /\ Go(s, "commit")
    BY DEF Insert, fixed
  <1>5. LoadProgress(s) BY <1>2 DEF LoaderInv
  <1>6. version[s] \in Versions BY <1>5 DEF LoadProgress
  <1>7. after \in RowsOf
    <2>1. view[t] \in RowsOf BY <1>1, <1>3 DEF DbTypes, Rows, RowsOf
    <2> QED BY <1>6, <2>1, InsertedRows
  <1>8. /\ view' \in Rows /\ disk' \in Rows /\ view'[t] = after
        /\ \A u \in Tables : u # t => view'[u] = view[u] /\ disk'[u] = disk[u]
    <2>1. Execute(t, after) BY DEF Insert
    <2> HIDE DEF t, after
    <2> QED BY <1>1, <1>3, <1>7, <2>1, ExecuteTypes
  <1>9. /\ broken' \in [Tables -> SUBSET Versions] /\ broken[t] \subseteq broken'[t]
        /\ version[s] \in broken'[t] \/ LoadedWith(after, version[s])
        /\ \A u \in Tables : u # t => broken'[u] = broken[u]
    <2>1. CASE \A e \in Entries : after[e] = version[s]
      <3>1. LoadedWith(after, version[s]) BY <2>1 DEF LoadedWith
      <3>2. UNCHANGED broken BY <2>1 DEF Insert
      <3> QED BY <1>1, <3>1, <3>2 DEF DbTypes
    <2>2. CASE ~(\A e \in Entries : after[e] = version[s])
      <3>1. Break(t, {version[s]}) BY <2>2 DEF Insert
      <3>2. {version[s]} \in SUBSET Versions BY <1>6
      <3> QED BY <1>1, <1>3, <3>1, <3>2, BreakTypes
    <2> QED BY <2>1, <2>2
  <1>10. DbTypes' BY <1>1, <1>4, <1>8, <1>9 DEF DbTypes
  <1>11. LoadTypes' BY <1>1, <1>2, <1>4, GoTypes
  <1>12. RestTypes'
    <2>1. Works \/ Fails(s) BY DEF Insert
    <2> QED BY <1>1, <1>4, <2>1, RestKept DEF fixed
  <1>13. /\ step'[s] = "commit" /\ UNCHANGED <<todo, version>>
         /\ \A r \in Stores : r # s => step'[r] = step[r]
    BY <1>1, <1>4, GoStep DEF Steps
  <1>14. Elsewhere(s) BY <1>4, <1>8, <1>9, <1>13 DEF Elsewhere
  <1>15. LoadProgress(s)'
    <2>1. Current(s)' = t BY <1>13 DEF Current
    <2>2. open[s] = 1 \/ (open[s] > 1 /\ version[s] \in broken[t])
      BY <1>2, <1>5 DEF LoadProgress, At
    <2>3. Head(todo[s]).check /\ t \in Global =>
            pref.temp[t] = version[s] \/ (pref.temp[t] = NoDigest /\ pref.digest[t] = NoDigest)
      BY <1>5 DEF LoadProgress
    <2> HIDE DEF t, after
    <2> QED BY <1>4, <1>6, <1>8, <1>9, <1>13, <2>1, <2>2, <2>3 DEF LoadProgress, At
  <1> QED BY <1>2, <1>10, <1>11, <1>12, <1>13, <1>14, <1>15, LoadStep

LEMMA BatchInsertKeeps ==
  ASSUME LoaderInv, NEW ok \in BOOLEAN, NEW S \in SUBSET Entries, BatchInsert(ok, S)
  PROVE  LoaderInv'
  <1> DEFINE s == "opkey"
             t == "opkey_info"
             after == Inserted(view[t], S, version[s])
  <1>1. DbTypes /\ LoadTypes /\ RestTypes BY TypeParts DEF LoaderInv
  <1>2. s \in Stores /\ todo[s] # <<>> /\ step[s] = "insert" BY DEF BatchInsert, At, Stores
  <1>3. Current(s) = t
    <2>1. Current(s) \in Tables /\ StoreOf(Current(s)) = s BY <1>1, <1>2, CurrentTable
    <2> QED BY <2>1 DEF Tables, Global, StoreOf
  <1>4. UNCHANGED <<open, asked, nests, prefDisk, file>> BY DEF BatchInsert, fixed
  <1>5. LoadProgress(s) BY <1>2 DEF LoaderInv
  <1>6. version[s] \in Versions BY <1>5 DEF LoadProgress
  <1>7. t \in Tables /\ view[t] \in RowsOf /\ t \notin Global
    BY <1>1 DEF DbTypes, Rows, RowsOf, Tables, Global
  <1>8. after \in RowsOf BY <1>6, <1>7, InsertedRows
  <1>9. /\ view' \in Rows /\ disk' \in Rows /\ view'[t] = after
        /\ \A u \in Tables : u # t => view'[u] = view[u] /\ disk'[u] = disk[u]
    <2>1. Execute(t, after) BY DEF BatchInsert
    <2> HIDE DEF after
    <2> QED BY <1>1, <1>7, <1>8, <2>1, ExecuteTypes
  <1>10. RestTypes'
    <2>1. Works \/ Fails(s) \/ CannotWork(s) BY DEF BatchInsert
    <2> QED BY <1>1, <1>2, <1>4, <2>1, RestKept DEF fixed
  <1>11. CASE ok
    <2>1. /\ \A e \in Entries : ~Present(view[t][e])
          /\ S = Entries /\ Go(s, "commit") /\ UNCHANGED <<broken, pref, created>>
      BY <1>11 DEF BatchInsert
    <2>2. LoadedWith(after, version[s]) BY <1>6, <1>7, <2>1, InsertedRows
    <2>3. DbTypes' BY <1>1, <1>4, <1>9, <2>1 DEF DbTypes
    <2>4. LoadTypes' BY <1>1, <1>2, <2>1, GoTypes
    <2>5. /\ step'[s] = "commit" /\ UNCHANGED <<todo, version>>
          /\ \A r \in Stores : r # s => step'[r] = step[r]
      BY <1>1, <1>2, <2>1, GoStep DEF Steps
    <2>6. Elsewhere(s) BY <1>3, <1>4, <1>9, <2>1, <2>5 DEF Elsewhere
    <2>7. LoadProgress(s)'
      <3>1. Current(s)' = t BY <1>3, <2>5 DEF Current
      <3>2. open[s] = 1 \/ (open[s] > 1 /\ version[s] \in broken[t])
        BY <1>2, <1>3, <1>5 DEF LoadProgress, At
      <3> HIDE DEF after
      <3> QED BY <1>4, <1>6, <1>7, <1>9, <2>1, <2>2, <2>5, <3>1, <3>2 DEF LoadProgress, At
    <2> QED BY <1>2, <1>10, <2>3, <2>4, <2>5, <2>6, <2>7, LoadStep
  <1>12. CASE ~ok
    <2>1. Break(t, OnRecord(t)) /\ Error(s) BY <1>12 DEF BatchInsert
    <2> QED BY <1>2, <1>3, <1>4, <1>9, <1>10, <2>1, ErrorKeeps
  <1> QED BY <1>11, <1>12
LEMMA CommitKeeps ==
  ASSUME LoaderInv, NEW s \in Stores, NEW ok \in BOOLEAN, Commit(s, ok)
  PROVE  LoaderInv'
  <1> DEFINE t == Current(s)
  <1>1. DbTypes /\ LoadTypes /\ RestTypes BY TypeParts DEF LoaderInv
  <1>2. todo[s] # <<>> /\ step[s] = "commit" BY DEF Commit, At
  <1>3. t \in Tables /\ StoreOf(t) = s BY <1>1, <1>2, CurrentTable
  <1>4. UNCHANGED <<view, asked, nests, prefDisk, file>> BY DEF Commit, fixed
  <1>5. LoadProgress(s) BY <1>2 DEF LoaderInv
  <1>6. RestTypes'
    <2>1. Works \/ Fails(s) BY DEF Commit
    <2> QED BY <1>1, <1>4, <2>1, RestKept DEF fixed
  <1>7. CASE ok
    <2>1. /\ open' = [open EXCEPT ![s] = @ - 1]
          /\ disk' = IF open[s] = 1
                     THEN [u \in Tables |-> IF StoreOf(u) = s THEN view[u] ELSE disk[u]] ELSE disk
          /\ created' = IF open[s] = 1 /\ s \in created.view
                        THEN [created EXCEPT !.disk = @ \union {s}] ELSE created
          /\ Go(s, "save") /\ UNCHANGED <<pref, broken>>
      BY <1>7 DEF Commit
    <2>2. version[s] \in Versions /\ (open[s] = 1 \/ (open[s] > 1 /\ version[s] \in broken[t]))
      BY <1>2, <1>5 DEF LoadProgress, At
    <2>3. open' \in [Stores -> Nat] /\ \A r \in Stores : r # s => open'[r] = open[r]
      <3>1. open[s] \in Nat /\ open[s] - 1 \in Nat BY <1>1, <2>2 DEF DbTypes
      <3> QED BY <1>1, <2>1, <3>1 DEF DbTypes
    <2>4. /\ disk' \in Rows /\ \A u \in Tables : disk'[u] \in {disk[u], view[u]}
          /\ open[s] = 1 => disk'[t] = view[t]
      <3>1. CASE open[s] = 1
        <4>1. disk' = [u \in Tables |-> IF StoreOf(u) = s THEN view[u] ELSE disk[u]] BY <2>1, <3>1
        <4> HIDE DEF t
        <4> QED BY <1>1, <1>3, <4>1 DEF DbTypes, Rows
      <3>2. CASE open[s] # 1 BY <1>1, <2>1, <3>2 DEF DbTypes
      <3> QED BY <3>1, <3>2
    <2>5. DbTypes' BY <1>1, <1>4, <2>1, <2>3, <2>4 DEF DbTypes
    <2>6. LoadTypes'
      <3>1. created' \in [view : SUBSET Stores, disk : SUBSET Stores] BY <1>1, <2>1 DEF LoadTypes
      <3> QED BY <1>1, <1>2, <2>1, <3>1 DEF LoadTypes, Go
    <2>7. /\ step'[s] = "save" /\ UNCHANGED <<todo, version>>
          /\ \A r \in Stores : r # s => step'[r] = step[r]
      BY <1>1, <2>1, GoStep DEF Steps
    <2>8. Elsewhere(s) BY <1>4, <2>1, <2>3, <2>4, <2>7 DEF Elsewhere
    <2>9. LoadProgress(s)'
      <3>1. Current(s)' = t BY <2>7 DEF Current
      <3>2. /\ version[s] \in broken[t] \/ LoadedWith(view[t], version[s])
            /\ Head(todo[s]).check /\ t \in Global =>
                 pref.temp[t] = version[s] \/ (pref.temp[t] = NoDigest /\ pref.digest[t] = NoDigest)
        BY <1>2, <1>5 DEF LoadProgress, At
      <3> HIDE DEF t
      <3>3. version[s] \in broken[t] \/ LoadedWith(disk'[t], version[s]) BY <2>2, <2>4, <3>2
      <3> QED BY <1>4, <2>1, <2>2, <2>7, <3>1, <3>2, <3>3 DEF LoadProgress, At
    <2> QED BY <1>2, <1>6, <2>5, <2>6, <2>7, <2>8, <2>9, LoadStep
  <1>8. CASE ~ok
    <2>1. UNCHANGED <<open, disk>> /\ Break(t, OnRecord(t)) /\ Error(s)
      BY <1>8 DEF Commit, CommitFailed
    <2>2. /\ UNCHANGED <<open, prefDisk, file>> /\ view' \in Rows /\ disk' \in Rows
          /\ \A u \in Tables : view'[u] = view[u] /\ disk'[u] = disk[u]
      BY <1>1, <1>4, <2>1 DEF DbTypes
    <2> QED BY <1>2, <1>6, <2>1, <2>2, ErrorKeeps
  <1> QED BY <1>7, <1>8

LEMMA SaveKeeps ==
  ASSUME LoaderInv, NEW s \in Stores, Save(s)
  PROVE  LoaderInv'
  <1> DEFINE t == Current(s)
             v == version[s]
             check == Head(todo[s]).check
             old == OnRecord(t) \union {pref.temp[t]}
             D == IF check THEN {} ELSE old \ {NoDigest, v}
  <1>1. DbTypes /\ LoadTypes /\ RestTypes BY TypeParts DEF LoaderInv
  <1>2. todo[s] # <<>> /\ step[s] = "save" BY DEF Save, At
  <1>3. t \in Tables /\ StoreOf(t) = s BY <1>1, <1>2, CurrentTable
  <1>4. UNCHANGED <<view, disk, open, asked, nests, prefDisk, file>> /\ Return(s) /\ Works
    BY DEF Save, fixed
  <1>5. LoadProgress(s) BY <1>2 DEF LoaderInv
  <1>6. /\ v \in Versions /\ (v \in broken[t] \/ (LoadedWith(view[t], v) /\ LoadedWith(disk[t], v)))
        /\ check /\ t \in Global => pref.temp[t] = v \/ (pref.temp[t] = NoDigest /\ pref.digest[t] = NoDigest)
    BY <1>2, <1>5 DEF LoadProgress, At
  <1>7. /\ OnRecord(t) \in SUBSET Versions
        /\ pref.temp[t] \in Versions \union {NoDigest}
        /\ pref.digest[t] \in OnRecord(t) \union {NoDigest}
    BY <1>1, <1>3, RecordTypes
  <1>8. /\ broken' \in [Tables -> SUBSET Versions] /\ broken'[t] = broken[t] \union D
        /\ \A u \in Tables : u # t => broken'[u] = broken[u]
    <2>1. D \in SUBSET Versions BY <1>7
    <2>2. Break(t, D) BY DEF Save
    <2> HIDE DEF D, t
    <2> QED BY <1>1, <1>3, <2>1, <2>2, BreakTypes
  <1>9. /\ pref' \in Digests
        /\ pref'.digest[t] = IF s = "opkey" THEN v
                             ELSE IF pref.temp[t] = NoDigest THEN pref.digest[t] ELSE pref.temp[t]
        /\ \A u \in Tables : u # t => pref'.digest[u] = pref.digest[u] /\ pref'.temp[u] = pref.temp[u]
    <2>1. CASE s = "opkey"
      <3> DEFINE E == [pref.digest EXCEPT ![t] = v]
      <3>1. pref' = [pref EXCEPT !.digest = E] BY <2>1 DEF Save
      <3>2. v \in 0..MaxVersion BY <1>6 DEF Versions
      <3>3. E \in [Tables -> 0..MaxVersion] /\ E[t] = v /\ \A u \in Tables : u # t => E[u] = pref.digest[u]
        <4> HIDE DEF t, v
        <4> QED BY <1>1, <1>3, <3>2 DEF DbTypes, Digests
      <3>4. pref' \in Digests /\ pref'.digest = E /\ pref'.temp = pref.temp
        <4> HIDE DEF E
        <4> QED BY <1>1, <3>1, <3>3 DEF DbTypes, Digests
      <3> HIDE DEF E, t, v
      <3> QED BY <2>1, <3>3, <3>4
    <2>2. CASE s # "opkey"
      <3>1. RefreshDigest(t) BY <2>2 DEF Save
      <3> HIDE DEF t, v
      <3> QED BY <1>1, <1>3, <2>2, <3>1, RefreshTypes
    <2> QED BY <2>1, <2>2
  <1>10. DbTypes' BY <1>1, <1>4, <1>8, <1>9 DEF DbTypes
  <1>11. LoadTypes' BY <1>1, <1>2, <1>4, ReturnTypes
  <1>12. RestTypes' BY <1>1, <1>4, RestKept DEF fixed
  <1>13. /\ step'[s] = "parse"
         /\ \A r \in Stores : r # s => todo'[r] = todo[r] /\ step'[r] = step[r] /\ version'[r] = version[r]
    BY <1>1, <1>4, ReturnStep
  <1>14. Elsewhere(s) BY <1>4, <1>8, <1>9, <1>13 DEF Elsewhere
  <1>15. pref'.digest[t] \in broken'[t] \union {NoDigest, v}
    <2>1. s = "opkey" \/ t \in Global
      BY <1>3 DEF Tables, StoreOf
    <2> HIDE DEF t, v, check
    <2> QED BY <1>6, <1>7, <1>8, <1>9, <2>1
  <1>16. \A u \in Tables : u = t => Meant(u)'
    <2> HIDE DEF D, t, v
    <2> QED BY <1>4, <1>6, <1>8, <1>15 DEF Meant
  <1> QED BY <1>2, <1>10, <1>11, <1>12, <1>13, <1>14, <1>16, LoadStep
-----------------------------------------------------------------------------
(* Between the loads.                                                      *)

(* A step that starts loads, or has none to do with the tables.            *)
LEMMA Idle ==
  ASSUME LoaderInv, DbTypes', LoadTypes', RestTypes',
         UNCHANGED <<view, disk, open, pref, step, version, broken>>,
         \A r \in Stores : todo'[r] = todo[r] \/ step[r] = "parse"
  PROVE  LoaderInv'
  <1>1. ASSUME NEW t \in Tables PROVE Meant(t)'
    <2>1. Meant(t) BY Meaning DEF LoaderInv
    <2>2. StoreOf(t) \in Stores BY StoreTypes
    <2>3. UnderWay(t)' <=> UnderWay(t)
      <3>1. CASE todo'[StoreOf(t)] = todo[StoreOf(t)] BY <3>1 DEF UnderWay, Current
      <3>2. CASE step[StoreOf(t)] = "parse" BY <3>2 DEF UnderWay
      <3> QED BY <2>2, <3>1, <3>2
    <2> QED BY <2>1, <2>3 DEF Meant
  <1>2. ASSUME NEW r \in Stores, todo'[r] # <<>>, step'[r] # "parse" PROVE LoadProgress(r)'
    <2>1. todo'[r] = todo[r] BY <1>2
    <2>2. LoadProgress(r) BY <1>2, <2>1 DEF LoaderInv
    <2> QED BY <2>1, <2>2 DEF LoadProgress, At, Current
  <1>3. TypeOK' BY TypeParts DEF DbTypes, LoadTypes, RestTypes, TypeOK
  <1>4. DigestMeansLoaded' BY <1>1 DEF Meant, DigestMeansLoaded
  <1> QED BY <1>2, <1>3, <1>4 DEF LoaderInv

(* Sequences whose elements are all in P.                                  *)
LEMMA OneElement ==
  ASSUME NEW S, NEW P, NEW a \in S, a \in P
  PROVE  <<a>> \in Seq(S) /\ \A i \in DOMAIN <<a>> : <<a>>[i] \in P
  <1>1. <<a>> \in Seq(S) /\ DOMAIN <<a>> = 1..1 OBVIOUS
  <1>2. <<a>>[1] = a /\ \A i \in 1..1 : i = 1 OBVIOUS
  <1> QED BY <1>1, <1>2, Zenon

LEMMA TwoElements ==
  ASSUME NEW S, NEW P, NEW a \in S, NEW b \in S, a \in P, b \in P
  PROVE  <<a, b>> \in Seq(S) /\ \A i \in DOMAIN <<a, b>> : <<a, b>>[i] \in P
  <1>1. <<a, b>> \in Seq(S) OBVIOUS
  <1>2. DOMAIN <<a, b>> = 1..2 OBVIOUS
  <1>3. <<a, b>>[1] = a /\ <<a, b>>[2] = b OBVIOUS
  <1>4. \A i \in 1..2 : i = 1 \/ i = 2 OBVIOUS
  <1> QED BY <1>1, <1>2, <1>3, <1>4, Zenon

LEMMA Appended ==
  ASSUME NEW S, NEW P, NEW p \in Seq(S), NEW q \in Seq(S),
         \A i \in DOMAIN p : p[i] \in P, \A i \in DOMAIN q : q[i] \in P
  PROVE  p \o q \in Seq(S) /\ \A i \in DOMAIN (p \o q) : (p \o q)[i] \in P
  <1>1. p \o q \in Seq(S) /\ Len(p \o q) = Len(p) + Len(q) BY ConcatProperties
  <1>2. ASSUME NEW i \in 1..(Len(p) + Len(q)) PROVE (p \o q)[i] \in P
    <2>1. (p \o q)[i] = IF i <= Len(p) THEN p[i] ELSE q[i - Len(p)] BY ConcatProperties
    <2>2. CASE i <= Len(p)
      <3>1. i \in DOMAIN p BY <2>2
      <3> QED BY <2>1, <2>2, <3>1
    <2>3. CASE ~(i <= Len(p))
      <3>1. i - Len(p) \in DOMAIN q BY <2>3
      <3> QED BY <2>1, <2>3, <3>1
    <2> QED BY <2>2, <2>3
  <1>3. DOMAIN (p \o q) = 1..(Len(p) + Len(q)) BY <1>1
  <1> QED BY <1>1, <1>2, <1>3

(* The loads of a store are of its tables.                                 *)
LoadsOf(s) == {l \in Load : StoreOf(l.table) = s}

LEMMA LoadsOfStore ==
  ASSUME NEW s \in Stores, NEW q \in {<<>>, OnCreate(s)}
  PROVE  /\ \A r \in {OnCreate(s), q \o OnOpen(s)} :
              r \in Seq(Load) /\ \A i \in DOMAIN r : StoreOf(r[i].table) = s
  <1>1. /\ \A r \in {OnCreate(s), OnOpen(s)} :
              r \in Seq(Load) /\ \A i \in DOMAIN r : r[i] \in LoadsOf(s)
    <2>1. CASE s = "opkey"
      <3> DEFINE a == [table |-> "opkey_info", check |-> TRUE]
      <3>1. OnCreate(s) = <<a>> /\ OnOpen(s) = <<>> BY <2>1 DEF OnCreate, OnOpen
      <3>2. a \in Load /\ a \in LoadsOf(s)
        BY <2>1 DEF Load, LoadsOf, Tables, Global, StoreOf
      <3> HIDE DEF a
      <3>3. <<a>> \in Seq(Load) /\ \A i \in DOMAIN <<a>> : <<a>>[i] \in LoadsOf(s)
        BY <3>2, OneElement
      <3>4. <<>> \in Seq(Load) /\ \A i \in DOMAIN <<>> : <<>>[i] \in LoadsOf(s)
        OBVIOUS
      <3> QED BY <3>1, <3>3, <3>4
    <2>2. CASE s # "opkey"
      <3> DEFINE a(c) == [table |-> "num_match", check |-> c]
                 b(c) == [table |-> "ecc_data", check |-> c]
      <3>1. OnCreate(s) = <<a(FALSE), b(FALSE)>> /\ OnOpen(s) = <<a(TRUE), b(TRUE)>>
        BY <2>2 DEF OnCreate, OnOpen, Loads
      <3>2. \A c \in BOOLEAN : {a(c), b(c)} \subseteq Load \intersect LoadsOf(s)
        BY <2>2 DEF Load, LoadsOf, Tables, Global, StoreOf, Stores
      <3> HIDE DEF a, b
      <3>3. \A c \in BOOLEAN : /\ <<a(c), b(c)>> \in Seq(Load)
                              /\ \A i \in DOMAIN <<a(c), b(c)>> : <<a(c), b(c)>>[i] \in LoadsOf(s)
        <4> TAKE c \in BOOLEAN
        <4> DEFINE x == a(c)
                   y == b(c)
        <4>1. x \in Load /\ y \in Load /\ x \in LoadsOf(s) /\ y \in LoadsOf(s) BY <3>2
        <4> HIDE DEF x, y
        <4>2. <<x, y>> \in Seq(Load) /\ \A i \in DOMAIN <<x, y>> : <<x, y>>[i] \in LoadsOf(s)
          BY <4>1, TwoElements
        <4> QED BY <4>2 DEF x, y
      <3> QED BY <3>1, <3>3
    <2> QED BY <2>1, <2>2
  <1>2. q \in Seq(Load) /\ \A i \in DOMAIN q : q[i] \in LoadsOf(s)
    <2>1. <<>> \in Seq(Load) /\ \A i \in DOMAIN <<>> : <<>>[i] \in LoadsOf(s)
      OBVIOUS
    <2> QED BY <1>1, <2>1
  <1>3. q \o OnOpen(s) \in Seq(Load)
        /\ \A i \in DOMAIN (q \o OnOpen(s)) : (q \o OnOpen(s))[i] \in LoadsOf(s)
    BY <1>1, <1>2, Appended
  <1>4. \A l \in LoadsOf(s) : StoreOf(l.table) = s BY DEF LoadsOf
  <1> QED BY <1>1, <1>3, <1>4

LEMMA StartTypes ==
  ASSUME LoadTypes, NEW s \in Stores, todo[s] = <<>>, NEW q \in Seq(Load),
         \A i \in DOMAIN q : StoreOf(q[i].table) = s,
         todo' = [todo EXCEPT ![s] = q],
         ready' = [ready EXCEPT ![s] = IF q = <<>> THEN "ready" ELSE "loading"],
         UNCHANGED <<created, step, version>>
  PROVE  LoadTypes' /\ \A r \in Stores : todo'[r] = todo[r] \/ step[r] = "parse"
  <1>1. step[s] = "parse" BY DEF LoadTypes
  <1>2. todo'[s] = q /\ \A r \in Stores : r # s => todo'[r] = todo[r] /\ ready'[r] = ready[r]
    BY DEF LoadTypes
  <1>3. todo' \in [Stores -> Seq(Load)]
        /\ ready' \in [Stores -> {"closed", "loading", "ready"}]
    BY DEF LoadTypes
  <1>4. \A r \in Stores : todo'[r] # <<>> <=> ready'[r] = "loading"
    BY <1>2 DEF LoadTypes
  <1>5. \A r \in Stores : todo'[r] = <<>> => step'[r] = "parse"
    BY <1>1, <1>2 DEF LoadTypes
  <1>6. \A r \in Stores : \A i \in DOMAIN todo'[r] : StoreOf(todo'[r][i].table) = r
    BY <1>2 DEF LoadTypes
  <1> QED BY <1>1, <1>2, <1>3, <1>4, <1>5, <1>6 DEF LoadTypes

LEMMA DoInitKeeps ==
  ASSUME LoaderInv, NEW s \in Stores, DoInit(s)
  PROVE  LoaderInv'
  <1> DEFINE loads == (IF s \in created.view THEN <<>> ELSE OnCreate(s)) \o OnOpen(s)
  <1>1. DbTypes /\ LoadTypes /\ RestTypes BY TypeParts DEF LoaderInv
  <1>2. /\ UNCHANGED <<view, disk, created, open, asked, nests, pref, prefDisk, file, step, version, faults, broken>>
        /\ ready[s] = "closed" /\ todo' = [todo EXCEPT ![s] = loads]
        /\ ready' = [ready EXCEPT ![s] = IF loads = <<>> THEN "ready" ELSE "loading"]
        /\ clean' = [clean EXCEPT ![s] = TRUE]
    BY DEF DoInit, db, fixed
  <1>3. todo[s] = <<>> BY <1>1, <1>2 DEF LoadTypes
  <1>4. loads \in Seq(Load) /\ \A i \in DOMAIN loads : StoreOf(loads[i].table) = s
    <2> DEFINE q == IF s \in created.view THEN <<>> ELSE OnCreate(s)
    <2>1. loads = q \o OnOpen(s) /\ q \in {<<>>, OnCreate(s)} OBVIOUS
    <2> HIDE DEF loads, q
    <2> QED BY <2>1, LoadsOfStore
  <1>5. LoadTypes' /\ \A r \in Stores : todo'[r] = todo[r] \/ step[r] = "parse"
    <2> HIDE DEF loads
    <2>1. todo[s] = <<>> /\ loads \in Seq(Load) /\ \A i \in DOMAIN loads : StoreOf(loads[i].table) = s
      BY <1>1, <1>2, <1>3, <1>4
    <2>2. /\ todo' = [todo EXCEPT ![s] = loads]
          /\ ready' = [ready EXCEPT ![s] = IF loads = <<>> THEN "ready" ELSE "loading"]
          /\ created' = created /\ step' = step /\ version' = version
      BY <1>2
    <2>3. LoadTypes
      BY <1>1
    <2> QED BY ONLY <2>1, <2>2, <2>3, s \in Stores, StartTypes
  <1>6. DbTypes' BY <1>1, <1>2 DEF DbTypes
  <1>7. RestTypes'
    <2>1. asked' \in AskedFor /\ nests' \in BOOLEAN BY <1>1, <1>2, Zenon DEF RestTypes
    <2>2. faults' \in Nat /\ clean' \in [Stores -> BOOLEAN] BY <1>1, <1>2 DEF RestTypes
    <2> QED BY <2>1, <2>2 DEF RestTypes
  <1> HIDE DEF loads
  <1> QED BY <1>2, <1>5, <1>6, <1>7, Idle

LEMMA InitOpKeyKeeps == LoaderInv /\ InitOpKeyDatabase => LoaderInv'
  <1> SUFFICES ASSUME LoaderInv, InitOpKeyDatabase PROVE LoaderInv'
    OBVIOUS
  <1> DEFINE s == "opkey"
             loads == OnCreate(s)
  <1>1. DbTypes /\ LoadTypes /\ RestTypes BY TypeParts DEF LoaderInv
  <1>2. /\ UNCHANGED <<view, disk, created, open, asked, nests, pref, prefDisk, file, step, version, faults, broken>>
        /\ ready[s] = "ready" /\ todo' = [todo EXCEPT ![s] = loads]
        /\ ready' = [ready EXCEPT ![s] = "loading"]
        /\ clean' = [clean EXCEPT ![s] = TRUE]
    BY DEF InitOpKeyDatabase, db, fixed
  <1>3. s \in Stores /\ todo[s] = <<>> BY <1>1, <1>2 DEF LoadTypes, Stores
  <1>4. loads \in Seq(Load) /\ \A i \in DOMAIN loads : StoreOf(loads[i].table) = s
    BY <1>3, LoadsOfStore
  <1>5. loads # <<>> BY DEF OnCreate
  <1>6. LoadTypes' /\ \A r \in Stores : todo'[r] = todo[r] \/ step[r] = "parse"
    <2> HIDE DEF loads, s
    <2>1. ready' = [ready EXCEPT ![s] = IF loads = <<>> THEN "ready" ELSE "loading"] BY <1>2, <1>5
    <2>2. s \in Stores /\ todo[s] = <<>> /\ todo' = [todo EXCEPT ![s] = loads]
          /\ loads \in Seq(Load) /\ \A i \in DOMAIN loads : StoreOf(loads[i].table) = s
      BY <1>2, <1>3, <1>4
    <2>3. LoadTypes /\ created' = created /\ step' = step /\ version' = version
      BY <1>1, <1>2
    <2> QED BY ONLY <2>1, <2>2, <2>3, StartTypes
  <1>7. DbTypes' BY <1>1, <1>2 DEF DbTypes
  <1>8. RestTypes'
    <2>1. asked' \in AskedFor /\ nests' \in BOOLEAN BY <1>1, <1>2, Zenon DEF RestTypes
    <2>2. faults' \in Nat /\ clean' \in [Stores -> BOOLEAN] BY <1>1, <1>2 DEF RestTypes
    <2> QED BY <2>1, <2>2 DEF RestTypes
  <1> HIDE DEF loads
  <1> QED BY <1>2, <1>6, <1>7, <1>8, Idle
LEMMA EditKeeps ==
  ASSUME LoaderInv, NEW e \in Entries, NEW row \in {Gone, Changed}, EditOpKey(e, row)
  PROVE  LoaderInv'
  <1> DEFINE t == "opkey_info"
             rows == [view[t] EXCEPT ![e] = row]
  <1>1. DbTypes /\ LoadTypes /\ RestTypes BY TypeParts DEF LoaderInv
  <1>2. /\ UNCHANGED <<created, open, asked, nests, pref, prefDisk, file, ready, todo, step, version, faults, clean, broken>>
        /\ ready["opkey"] = "ready" /\ Execute(t, rows)
    BY DEF EditOpKey, fixed, load
  <1>3. t \in Tables /\ StoreOf(t) = "opkey" /\ "opkey" \in Stores BY DEF Tables, Global, StoreOf, Stores
  <1>4. view[t] \in RowsOf /\ rows \in RowsOf BY <1>1, <1>3 DEF DbTypes, Rows, RowsOf
  <1>5. /\ view' \in Rows /\ disk' \in Rows /\ view'[t] = rows
        /\ disk'[t] \in {rows, disk[t]}
        /\ \A u \in Tables : u # t => view'[u] = view[u] /\ disk'[u] = disk[u]
    <2> HIDE DEF rows, t
    <2> QED BY <1>1, <1>2, <1>3, <1>4, ExecuteTypes
  <1>6. DbTypes' BY <1>1, <1>2, <1>5 DEF DbTypes
  <1>7. LoadTypes' BY <1>1, <1>2 DEF LoadTypes
  <1>8. RestTypes'
    <2>1. asked' \in AskedFor /\ nests' \in BOOLEAN BY <1>1, <1>2, Zenon DEF RestTypes
    <2>2. faults' \in Nat /\ clean' \in [Stores -> BOOLEAN] BY <1>1, <1>2 DEF RestTypes
    <2> QED BY <2>1, <2>2 DEF RestTypes
  <1>9. ASSUME NEW u \in Tables PROVE Meant(u)'
    <2>1. Meant(u) BY Meaning DEF LoaderInv
    <2>2. UnderWay(u)' <=> UnderWay(u) BY <1>2 DEF UnderWay, Current
    <2>3. CASE u # t BY <1>2, <1>5, <2>1, <2>2, <2>3 DEF Meant
    <2>4. CASE u = t
      <3>1. \A v : LoadedWith(view[t], v) => LoadedWith(rows, v) BY <1>4 DEF LoadedWith, RowsOf
      <3> HIDE DEF rows, t
      <3>2. \A v : LoadedWith(view[t], v) => LoadedWith(view'[t], v) BY <1>5, <3>1
      <3>3. \A v : LoadedWith(view[t], v) /\ LoadedWith(disk[t], v) => LoadedWith(disk'[t], v) BY <1>5, <3>1
      <3> QED BY <1>2, <2>1, <2>2, <2>4, <3>2, <3>3 DEF Meant
    <2> QED BY <2>3, <2>4
  <1>10. ASSUME NEW r \in Stores, todo'[r] # <<>>, step'[r] # "parse" PROVE LoadProgress(r)'
    <2>1. todo[r] # <<>> /\ r # "opkey" BY <1>1, <1>2, <1>10 DEF LoadTypes
    <2>2. Current(r) \in Tables /\ Current(r) # t BY <1>1, <1>3, <2>1, CurrentTable
    <2>3. LoadProgress(r) BY <1>2, <1>10, <2>1 DEF LoaderInv
    <2>4. view'[Current(r)] = view[Current(r)] /\ disk'[Current(r)] = disk[Current(r)] BY <1>5, <2>2
    <2>5. Current(r)' = Current(r) BY <1>2 DEF Current
    <2> QED BY <1>2, <2>3, <2>4, <2>5 DEF LoadProgress, At
  <1>11. TypeOK' BY <1>6, <1>7, <1>8, TypeParts DEF DbTypes, LoadTypes, RestTypes, TypeOK
  <1>12. DigestMeansLoaded' BY <1>9 DEF Meant, DigestMeansLoaded
  <1> QED BY <1>10, <1>11, <1>12 DEF LoaderInv

LEMMA DeleteKeeps == LoaderInv /\ DeleteProfiles => LoaderInv'
  <1> SUFFICES ASSUME LoaderInv, DeleteProfiles PROVE LoaderInv'
    OBVIOUS
  <1>1. DbTypes /\ LoadTypes /\ RestTypes BY TypeParts DEF LoaderInv
  <1>2. /\ UNCHANGED <<view, disk, created, open, asked, nests, file, ready, todo, step, version, faults, clean, broken>>
        /\ pref' = NoPref /\ prefDisk' = NoPref
    BY DEF DeleteProfiles, db, fixed, load
  <1>3. /\ NoPref \in Digests
        /\ \A t \in Tables : NoPref.digest[t] = NoDigest /\ NoPref.temp[t] = NoDigest
    BY ConfigAssumption DEF NoPref, Digests, NoDigest
  <1>4. DbTypes' BY <1>1, <1>2, <1>3 DEF DbTypes
  <1>5. LoadTypes' BY <1>1, <1>2 DEF LoadTypes
  <1>6. RestTypes'
    <2>1. asked' \in AskedFor /\ nests' \in BOOLEAN BY <1>1, <1>2, Zenon DEF RestTypes
    <2>2. faults' \in Nat /\ clean' \in [Stores -> BOOLEAN] BY <1>1, <1>2 DEF RestTypes
    <2> QED BY <2>1, <2>2 DEF RestTypes
  <1>7. \A t \in Tables : Meant(t)' BY <1>2, <1>3 DEF Meant
  <1>8. ASSUME NEW r \in Stores, todo'[r] # <<>>, step'[r] # "parse" PROVE LoadProgress(r)'
    <2>1. LoadProgress(r) BY <1>2, <1>8 DEF LoaderInv
    <2>2. Current(r) \in Tables BY <1>1, <1>2, <1>8, CurrentTable
    <2>3. Current(r)' = Current(r) BY <1>2 DEF Current
    <2> QED BY <1>2, <1>3, <2>1, <2>2, <2>3 DEF LoadProgress, At
  <1>9. TypeOK' BY <1>4, <1>5, <1>6, TypeParts DEF DbTypes, LoadTypes, RestTypes, TypeOK
  <1>10. DigestMeansLoaded' BY <1>7 DEF Meant, DigestMeansLoaded
  <1> QED BY <1>8, <1>9, <1>10 DEF LoaderInv

LEMMA CustKeeps ==
  ASSUME LoaderInv, Flush \/ \E t \in Tables, v \in Versions : CustChanged(t, v)
  PROVE  LoaderInv'
  <1>1. DbTypes /\ LoadTypes /\ RestTypes BY TypeParts DEF LoaderInv
  <1>2. UNCHANGED <<view, disk, created, open, asked, nests, pref, ready, todo, step, version, faults, clean, broken>>
    BY DEF Flush, CustChanged, db, fixed, load
  <1>3. prefDisk' \in Digests /\ file' \in [Tables -> Versions]
    BY <1>1 DEF Flush, CustChanged, DbTypes
  <1>4. DbTypes' BY <1>1, <1>2, <1>3 DEF DbTypes
  <1>5. LoadTypes' BY <1>1, <1>2 DEF LoadTypes
  <1>6. RestTypes'
    <2>1. asked' \in AskedFor /\ nests' \in BOOLEAN BY <1>1, <1>2, Zenon DEF RestTypes
    <2>2. faults' \in Nat /\ clean' \in [Stores -> BOOLEAN] BY <1>1, <1>2 DEF RestTypes
    <2> QED BY <2>1, <2>2 DEF RestTypes
  <1> QED BY <1>2, <1>4, <1>5, <1>6, Idle

(* What a crash brings back to record it also gives up.                    *)
LEMMA CrashKeeps == LoaderInv /\ Crash => LoaderInv'
  <1> SUFFICES ASSUME LoaderInv, Crash PROVE LoaderInv'
    OBVIOUS
  <1> DEFINE Lost(t) == UnderWay(t) \/ pref.digest[t] # prefDisk.digest[t]
             Given(t) == IF Lost(t) THEN OnRecord(t) ELSE {}
  <1>1. DbTypes /\ LoadTypes /\ RestTypes BY TypeParts DEF LoaderInv
  <1>2. /\ UNCHANGED <<disk, asked, nests, prefDisk, file, faults>>
        /\ view' = disk /\ created' = [created EXCEPT !.view = created.disk]
        /\ open' = [s \in Stores |-> 0] /\ pref' = prefDisk
        /\ ready' = [s \in Stores |-> "closed"] /\ todo' = [s \in Stores |-> <<>>]
        /\ step' = [s \in Stores |-> "parse"] /\ version' = [s \in Stores |-> 0]
        /\ broken' = [t \in Tables |-> broken[t] \union Given(t)]
        /\ clean' = [s \in Stores |-> TRUE]
    BY DEF Crash, fixed
  <1>3. \A t \in Tables : OnRecord(t) \in SUBSET Versions BY <1>1, RecordTypes
  <1>4. /\ broken' \in [Tables -> SUBSET Versions]
        /\ \A t \in Tables : /\ broken[t] \subseteq broken'[t]
                             /\ Lost(t) => OnRecord(t) \subseteq broken'[t]
    <2>1. \A t \in Tables : Given(t) \in SUBSET Versions /\ (Lost(t) => Given(t) = OnRecord(t)) BY <1>3
    <2> HIDE DEF Given, Lost
    <2> QED BY <1>1, <1>2, <2>1 DEF DbTypes
  <1>5. DbTypes' BY <1>1, <1>2, <1>4 DEF DbTypes
  <1>6. LoadTypes'
    <2>1. \A s \in Stores : todo'[s] = <<>> /\ ready'[s] = "closed" /\ step'[s] = "parse" BY <1>2
    <2>2. created' \in [view : SUBSET Stores, disk : SUBSET Stores] BY <1>1, <1>2 DEF LoadTypes
    <2>3. version' \in [Stores -> 0..MaxVersion] BY <1>2, ConfigAssumption
    <2>4. /\ ready' \in [Stores -> {"closed", "loading", "ready"}]
          /\ step' \in [Stores -> {"parse", "clear", "begin", "insert", "commit", "save"}]
          /\ todo' \in [Stores -> Seq(Load)]
      BY <1>2
    <2> QED BY <2>1, <2>2, <2>3, <2>4 DEF LoadTypes
  <1>7. RestTypes'
    <2>1. asked' \in AskedFor /\ nests' \in BOOLEAN BY <1>1, <1>2, Zenon DEF RestTypes
    <2>2. faults' \in Nat /\ clean' \in [Stores -> BOOLEAN] BY <1>1, <1>2 DEF RestTypes
    <2> QED BY <2>1, <2>2 DEF RestTypes
  <1>8. ASSUME NEW t \in Tables PROVE Meant(t)'
    <2>1. Meant(t) BY Meaning DEF LoaderInv
    <2>2. CASE Lost(t)
      <3>1. prefDisk.digest[t] \in OnRecord(t) \union {NoDigest} BY DEF OnRecord
      <3> QED BY <1>2, <1>4, <2>2, <3>1 DEF Meant
    <2>3. CASE ~Lost(t)
      <3>1. ~UnderWay(t) /\ pref.digest[t] = prefDisk.digest[t] BY <2>3
      <3> QED BY <1>2, <1>4, <2>1, <3>1 DEF Meant
    <2> QED BY <2>2, <2>3
  <1>9. \A r \in Stores : todo'[r] = <<>> BY <1>2
  <1>10. TypeOK' BY <1>5, <1>6, <1>7, TypeParts DEF DbTypes, LoadTypes, RestTypes, TypeOK
  <1>11. DigestMeansLoaded' BY <1>8 DEF Meant, DigestMeansLoaded
  <1> QED BY <1>9, <1>10, <1>11 DEF LoaderInv

-----------------------------------------------------------------------------
LEMMA InitInv == Init => LoaderInv
  <1> SUFFICES ASSUME Init PROVE LoaderInv
    OBVIOUS
  <1>1. \A s \in Stores : todo[s] = <<>> /\ ready[s] = "closed" /\ step[s] = "parse"
    BY DEF Init
  <1>2. EmptyTable \in RowsOf BY DEF EmptyTable, RowsOf
  <1>3. view \in Rows /\ disk \in Rows BY <1>2 DEF Init, Rows, RowsOf
  <1>4. NoPref \in Digests /\ \A t \in Tables : NoPref.digest[t] = NoDigest
    BY ConfigAssumption DEF NoPref, Digests, NoDigest
  <1>5. DbTypes BY <1>3, <1>4, ConfigAssumption DEF Init, DbTypes, Versions
  <1>6. LoadTypes
    <2>1. /\ created \in [view : SUBSET Stores, disk : SUBSET Stores]
          /\ ready \in [Stores -> {"closed", "loading", "ready"}]
          /\ todo \in [Stores -> Seq(Load)]
          /\ step \in [Stores -> {"parse", "clear", "begin", "insert", "commit", "save"}]
          /\ version \in [Stores -> 0..MaxVersion]
      BY ConfigAssumption DEF Init
    <2> QED BY <1>1, <2>1 DEF LoadTypes
  <1>7. RestTypes
    <2>1. asked \in AskedFor /\ nests \in BOOLEAN BY Zenon DEF Init, RestTypes
    <2>2. faults \in Nat /\ clean \in [Stores -> BOOLEAN] BY DEF Init
    <2> QED BY <2>1, <2>2 DEF RestTypes
  <1>8. TypeOK BY <1>5, <1>6, <1>7, TypeParts
  <1>9. \A t \in Tables : pref.digest[t] = NoDigest BY <1>4 DEF Init
  <1>10. DigestMeansLoaded BY <1>9 DEF DigestMeansLoaded
  <1> QED BY <1>1, <1>8, <1>10 DEF LoaderInv

LEMMA NextInv == LoaderInv /\ [Next]_vars => LoaderInv'
  <1> SUFFICES ASSUME LoaderInv, [Next]_vars PROVE LoaderInv'
    OBVIOUS
  <1>1. asked \subseteq Stores BY TypeParts, AskedStore DEF LoaderInv
  <1>2. CASE \E s \in asked : DoInit(s) BY <1>1, <1>2, DoInitKeeps
  <1>3. CASE InitOpKeyDatabase BY <1>3, InitOpKeyKeeps
  <1>4. CASE \E s \in asked, ok \in BOOLEAN : Parse(s, ok) BY <1>1, <1>4, ParseKeeps
  <1>5. CASE \E s \in asked, ok \in BOOLEAN : ClearData(s, ok) BY <1>1, <1>5, ClearDataKeeps
  <1>6. CASE \E s \in asked, ok \in BOOLEAN : BeginTransaction(s, ok) BY <1>1, <1>6, BeginKeeps
  <1>7. CASE \E s \in asked, lost \in SUBSET Entries : Insert(s, lost) BY <1>1, <1>7, InsertKeeps
  <1>8. CASE \E ok \in BOOLEAN, S \in SUBSET Entries : BatchInsert(ok, S) BY <1>8, BatchInsertKeeps
  <1>9. CASE \E s \in asked, ok \in BOOLEAN : Commit(s, ok) BY <1>1, <1>9, CommitKeeps
  <1>10. CASE \E s \in asked : Save(s) BY <1>1, <1>10, SaveKeeps
  <1>11. CASE \E e \in Entries, row \in {Gone, Changed} : EditOpKey(e, row) BY <1>11, EditKeeps
  <1>12. CASE DeleteProfiles BY <1>12, DeleteKeeps
  <1>13. CASE Flush \/ \E t \in Tables, v \in Versions : CustChanged(t, v) BY <1>13, CustKeeps
  <1>14. CASE Crash BY <1>14, CrashKeeps
  <1>15. CASE UNCHANGED vars
    <2>1. UNCHANGED <<asked, nests, view, disk, created, open, pref, prefDisk, file, ready, todo, step, version, faults, clean, broken>>
      BY <1>15 DEF vars, db, fixed, load
    <2>2. DbTypes /\ LoadTypes /\ RestTypes BY TypeParts DEF LoaderInv
    <2>3. DbTypes' /\ LoadTypes' BY <2>1, <2>2 DEF DbTypes, LoadTypes
    <2>4. RestTypes' BY <2>1, <2>2, Zenon DEF RestTypes
    <2> QED BY <2>1, <2>3, <2>4, Idle
  <1> QED BY <1>2, <1>3, <1>4, <1>5, <1>6, <1>7, <1>8, <1>9, <1>10, <1>11, <1>12, <1>13, <1>14, <1>15
          DEF Next

(* A load of which some steps are taken is where its transaction, its rows *)
(* and its temporary digest say it is, and a digest on record that no      *)
(* failure left behind means that the rows are there.                      *)
THEOREM LoaderInvariant == Spec => []LoaderInv
  BY InitInv, NextInv, PTL DEF Spec

(* The state of the loaders is well-typed: for one, no commit ends a       *)
(* transaction that was not begun.                                         *)
THEOREM TypeCorrect == Spec => []TypeOK
  <1>1. LoaderInv => TypeOK BY DEF LoaderInv
  <1> QED BY <1>1, LoaderInvariant, PTL

(* A load that is skipped because the digest of the file is on record was  *)
(* not needed, before a crash or after it, for all files and clients.      *)
THEOREM DigestTrusted == Spec => []DigestMeansLoaded
  <1>1. LoaderInv => DigestMeansLoaded BY DEF LoaderInv
  <1> QED BY <1>1, LoaderInvariant, PTL
-----------------------------------------------------------------------------
(* A load in which nothing failed: its file stays the one it has read, and  *)
(* the tables it has done hold theirs.                                      *)
Settled(t) == file[t] \in broken[t] \/ LoadedWith(view[t], file[t])

Ahead(s) == {todo[s][i].table : i \in DOMAIN todo[s]}

CleanLoad(s) ==
  ready[s] = "loading" /\ clean[s] =>
    /\ step[s] # "parse" => version[s] = file[Current(s)]
    /\ \A t \in Tables : StoreOf(t) = s /\ t \notin Ahead(s) => Settled(t)

CleanInv == \A s \in Stores : CleanLoad(s)

(* What CleanLoadLoads says of a step and a store.                          *)
LeftSettled(t) == file[t] \in broken[t] \/ LoadedWith(view'[t], file[t])

EndsLoaded(s) ==
  ready[s] = "loading" /\ ready'[s] = "ready" /\ clean'[s] =>
    \A t \in Tables : StoreOf(t) = s => LeftSettled(t)

(* The first load of the list is done.                                      *)
LEMMA AheadOfTail ==
  ASSUME LoadTypes, NEW s \in Stores, todo[s] # <<>>, NEW q, q = Tail(todo[s]),
         NEW t, \A i \in DOMAIN q : q[i].table # t
  PROVE  t = Current(s) \/ t \notin Ahead(s)
<1>1. todo[s] \in Seq(Load)
  BY DEF LoadTypes
<1>2. Len(todo[s]) \in Nat \ {0} /\ DOMAIN todo[s] = 1..Len(todo[s])
  BY <1>1
<1>3. DOMAIN q = 1..(Len(todo[s]) - 1) /\ \A i \in DOMAIN q : q[i] = todo[s][i + 1]
  BY <1>1, <1>2
<1>4. Head(todo[s]) = todo[s][1]
  BY <1>1, <1>2
<1>5. SUFFICES ASSUME NEW i \in DOMAIN todo[s], todo[s][i].table = t PROVE t = Current(s)
  BY DEF Ahead
<1>6. CASE i = 1
  BY <1>4, <1>5, <1>6 DEF Current
<1>7. CASE i # 1
  <2>1. i - 1 \in DOMAIN q /\ (i - 1) + 1 = i
    BY <1>2, <1>3, <1>7
  <2> QED BY <1>3, <1>5, <2>1
<1> QED BY <1>6, <1>7

(* A step of the load of s, which goes on or returns.                       *)
Goes(s) ==
  /\ todo' = todo /\ ready' = ready
  /\ clean'[s] /\ step'[s] # "parse" => version'[s] = file[Current(s)]

Returns(s) == Return(s) /\ (clean'[s] => LeftSettled(Current(s)))

LEMMA CleanStep ==
  ASSUME LoaderInv, CleanInv, NEW s \in Stores, todo[s] # <<>>, file' = file,
         \A t \in Tables : /\ broken[t] \subseteq broken'[t]
                           /\ t # Current(s) => view'[t] = view[t],
         \A r \in Stores : r # s => /\ step'[r] = step[r] /\ version'[r] = version[r]
                                    /\ clean'[r] = clean[r],
         clean'[s] => clean[s],
         Goes(s) \/ Returns(s)
  PROVE  CleanInv' /\ \A r \in Stores : EndsLoaded(r)
<1>1. DbTypes /\ LoadTypes /\ RestTypes
  BY TypeParts DEF LoaderInv
<1>2. ready[s] = "loading" /\ Current(s) \in Tables /\ StoreOf(Current(s)) = s
  BY <1>1, CurrentTable DEF LoadTypes
<1>3. ASSUME NEW t \in Tables, t # Current(s), Settled(t)
      PROVE  LeftSettled(t) /\ Settled(t)'
  BY <1>3 DEF Settled, LeftSettled
<1>4. ASSUME NEW r \in Stores, r # s
      PROVE  CleanLoad(r)' /\ EndsLoaded(r)
  <2>1. todo'[r] = todo[r] /\ ready'[r] = ready[r]
    BY <1>1, <1>4 DEF Goes, Returns, Return, LoadTypes
  <2>2. Ahead(r)' = Ahead(r) /\ Current(r)' = Current(r)
    BY <2>1 DEF Ahead, Current
  <2>3. ASSUME ready[r] = "loading", clean[r], step[r] # "parse"
        PROVE  version'[r] = file'[Current(r)']
    BY <1>4, <2>2, <2>3 DEF CleanInv, CleanLoad
  <2>4. ASSUME ready[r] = "loading", clean[r], NEW t \in Tables, StoreOf(t) = r, t \notin Ahead(r)
        PROVE  Settled(t)'
    BY <1>2, <1>3, <1>4, <2>4 DEF CleanInv, CleanLoad
  <2>5. CleanLoad(r)'
    BY <1>4, <2>1, <2>2, <2>3, <2>4 DEF CleanLoad
  <2> QED BY <2>1, <2>5 DEF EndsLoaded
<1>5. CASE Goes(s)
  <2>1. Ahead(s)' = Ahead(s) /\ Current(s)' = Current(s) /\ Current(s) \in Ahead(s)
    <3>1. todo[s] \in Seq(Load)
      BY <1>1 DEF LoadTypes
    <3>2. Head(todo[s]) = todo[s][1] /\ 1 \in DOMAIN todo[s]
      BY <3>1, Tailed
    <3> QED BY <1>5, <3>2 DEF Goes, Ahead, Current
  <2>2. ASSUME clean'[s], NEW t \in Tables, StoreOf(t) = s, t \notin Ahead(s)
        PROVE  Settled(t)'
    BY <1>2, <1>3, <2>1, <2>2 DEF CleanInv, CleanLoad
  <2>3. CleanLoad(s)' /\ EndsLoaded(s)
    BY <1>2, <1>5, <2>1, <2>2 DEF Goes, CleanLoad, EndsLoaded
  <2> QED BY <1>4, <2>3 DEF CleanInv
<1>6. CASE Returns(s)
  <2>1. step'[s] = "parse" /\ todo'[s] = Tail(todo[s])
    BY <1>1, <1>6 DEF Returns, Return, LoadTypes
  <2>2. ASSUME clean'[s], NEW t \in Tables, StoreOf(t) = s, t \notin Ahead(s)'
        PROVE  LeftSettled(t) /\ Settled(t)'
    <3>1. \A i \in DOMAIN todo'[s] : todo'[s][i].table # t
      BY <2>2 DEF Ahead
    <3>2. t = Current(s) \/ t \notin Ahead(s)
      <4>1. SUFFICES ASSUME NEW q, q = Tail(todo[s]), \A i \in DOMAIN q : q[i].table # t
                     PROVE  t = Current(s) \/ t \notin Ahead(s)
        BY <2>1, <3>1
      <4> QED BY <1>1, <4>1, AheadOfTail
    <3>3. CASE t = Current(s)
      BY <1>6, <2>2, <3>3 DEF Returns, LeftSettled, Settled
    <3>4. CASE t # Current(s)
      BY <1>2, <1>3, <2>2, <3>2, <3>4 DEF CleanInv, CleanLoad
    <3> QED BY <3>3, <3>4
  <2>3. CleanLoad(s)'
    BY <2>1, <2>2 DEF CleanLoad
  <2>4. EndsLoaded(s)
    <3>1. SUFFICES ASSUME ready'[s] = "ready", clean'[s], NEW t \in Tables, StoreOf(t) = s
                   PROVE  LeftSettled(t)
      BY DEF EndsLoaded
    <3>2. Len(todo[s]) = 1
      BY <1>1, <1>2, <1>6, <3>1 DEF Returns, Return, LoadTypes
    <3>3. Tail(todo[s]) = <<>>
      <4>1. todo[s] \in Seq(Load)
        BY <1>1 DEF LoadTypes
      <4> QED BY <3>2, <4>1, Tailed
    <3>4. Ahead(s)' = {}
      BY <2>1, <3>3 DEF Ahead
    <3> QED BY <2>2, <3>1, <3>4
  <2> QED BY <1>4, <2>3, <2>4 DEF CleanInv
<1> QED BY <1>5, <1>6

(* The steps of a load, one by one.                                         *)
LEMMA LoadingEnds ==
  ASSUME LoaderInv, CleanInv, NEW s \in Stores,
         \/ \E ok \in BOOLEAN : \/ Parse(s, ok) \/ ClearData(s, ok) \/ BeginTransaction(s, ok)
                                \/ Commit(s, ok)
         \/ \E lost \in SUBSET Entries : Insert(s, lost)
         \/ s = "opkey" /\ \E ok \in BOOLEAN, S \in SUBSET Entries : BatchInsert(ok, S)
         \/ Save(s)
  PROVE  CleanInv' /\ \A r \in Stores : EndsLoaded(r)
<1>1. DbTypes /\ LoadTypes /\ RestTypes
  BY TypeParts DEF LoaderInv
<1>2. todo[s] # <<>> /\ file' = file
  BY DEF Parse, ClearData, BeginTransaction, Commit, Insert, BatchInsert, Save, At
<1>3. /\ Current(s) \in Tables /\ StoreOf(Current(s)) = s
      /\ s = "opkey" => Current(s) = "opkey_info"
  <2>1. Current(s) \in Tables /\ StoreOf(Current(s)) = s
    BY <1>1, <1>2, CurrentTable
  <2> QED BY <2>1 DEF Tables, Global, StoreOf
<1> DEFINE c == Current(s)
<1>4. Works \/ Fails(s) \/ CannotWork(s)
  BY DEF Parse, ClearData, BeginTransaction, Commit, Insert, BatchInsert, Save
<1>5. /\ \A r \in Stores : r # s => clean'[r] = clean[r]
      /\ clean'[s] => clean[s] /\ Works
  BY <1>1, <1>4 DEF Works, Fails, CannotWork, RestTypes
<1>6. \A t \in Tables : t # c => view'[t] = view[t]
  <2>1. \A rows : Execute(c, rows) => \A t \in Tables : t # c => view'[t] = view[t]
    BY <1>1, <1>3 DEF Execute, DbTypes, Rows
  <2> QED BY <1>3, <2>1 DEF Parse, ClearData, BeginTransaction, Commit, Insert, BatchInsert, Save
<1>7. \A t \in Tables : broken[t] \subseteq broken'[t]
  <2>1. \A D : Break(c, D) => \A t \in Tables : broken[t] \subseteq broken'[t]
    BY <1>1, <1>3 DEF Break, DbTypes
  <2> QED BY <1>3, <2>1 DEF Parse, ClearData, BeginTransaction, Commit, CommitFailed, Insert,
             BatchInsert, Save
<1>8. \/ step[s] # "parse" /\ \E st \in Steps : Go(s, st)
      \/ Return(s)
      \/ Parse(s, TRUE) /\ ~Error(s)
  BY DEF Parse, ClearData, BeginTransaction, Commit, CommitFailed, Insert, BatchInsert, Save, Error,
         Steps, At
<1>9. \A r \in Stores : r # s => step'[r] = step[r] /\ version'[r] = version[r]
  <2>1. ASSUME NEW st \in Steps, Go(s, st) PROVE \A r \in Stores : r # s => step'[r] = step[r] /\ version'[r] = version[r]
    BY <1>1, <2>1, GoStep
  <2>2. CASE Return(s)
    BY <1>1, <2>2, ReturnStep
  <2>3. CASE Parse(s, TRUE) /\ ~Error(s)
    BY <1>1, <2>3 DEF Parse, LoadTypes
  <2> QED BY <1>8, <2>1, <2>2, <2>3
<1>10. CASE Parse(s, TRUE) /\ ~Error(s)
  <2>1. Goes(s)
    BY <1>1, <1>10 DEF Parse, Goes, LoadTypes
  <2> QED BY <1>2, <1>5, <1>6, <1>7, <1>9, <2>1, CleanStep
<1>11. CASE step[s] # "parse" /\ \E st \in Steps : Go(s, st)
  <2>1. clean'[s] => version[s] = file[c]
    BY <1>1, <1>2, <1>5, <1>11 DEF CleanInv, CleanLoad, LoadTypes
  <2>2. Goes(s)
    BY <1>11, <2>1 DEF Go, Goes
  <2> QED BY <1>2, <1>5, <1>6, <1>7, <1>9, <2>2, CleanStep
<1>12. CASE Return(s)
  <2>1. ASSUME clean'[s] PROVE LeftSettled(c)
    <3>1. Works /\ clean[s] /\ ready[s] = "loading"
      BY <1>1, <1>2, <1>5, <2>1 DEF LoadTypes
    <3>2. Save(s) \/ (step[s] = "parse" /\ ~IsDigestChanged(c) /\ view' = view /\ broken' = broken)
      <4>1. step'[s] = "parse" /\ step[s] \in Steps
        BY <1>1, <1>12, ReturnStep DEF LoadTypes, Steps
      <4>2. \A st \in Steps : Go(s, st) => step'[s] = st
        BY <1>1, GoStep
      <4>3. ~Fails(s) /\ ~CannotWork(s)
        BY <1>1, <2>1 DEF Fails, CannotWork, RestTypes
      <4>4. ASSUME NEW ok \in BOOLEAN, Parse(s, ok)
            PROVE  step[s] = "parse" /\ ~IsDigestChanged(c) /\ view' = view /\ broken' = broken
        BY <1>1, <4>1, <4>3, <4>4 DEF Parse, At, LoadTypes
      <4>5. ASSUME NEW ok \in BOOLEAN
            PROVE  ~ClearData(s, ok) /\ ~BeginTransaction(s, ok) /\ ~Commit(s, ok)
        BY <4>1, <4>2, <4>3 DEF ClearData, BeginTransaction, Commit, Steps
      <4>6. \A lost \in SUBSET Entries : ~Insert(s, lost)
        BY <4>1, <4>2 DEF Insert, Steps
      <4>7. \A ok \in BOOLEAN, S \in SUBSET Entries : s = "opkey" => ~BatchInsert(ok, S)
        BY <4>1, <4>2, <4>3 DEF BatchInsert, Steps
      <4> QED BY <4>4, <4>5, <4>6, <4>7
    <3>3. CASE Save(s)
      <4>1. step[s] = "save" /\ view' = view
        BY <3>3 DEF Save, At
      <4>2. version[s] = file[c]
        BY <3>1, <4>1 DEF CleanInv, CleanLoad
      <4>3. version[s] \in broken[c] \/ LoadedWith(view[c], version[s])
        BY <1>2, <4>1 DEF LoaderInv, LoadProgress, At
      <4> QED BY <4>1, <4>2, <4>3 DEF LeftSettled
    <3>4. CASE step[s] = "parse" /\ ~IsDigestChanged(c) /\ view' = view /\ broken' = broken
      <4>1. pref.digest[c] = file[c] /\ file[c] # NoDigest
        BY <1>1, <1>3, <3>4, ConfigAssumption DEF IsDigestChanged, DbTypes, Versions, NoDigest
      <4>2. ~UnderWay(c)
        BY <1>3, <3>4 DEF UnderWay
      <4>3. Settled(c)
        BY <1>3, <4>1, <4>2 DEF LoaderInv, DigestMeansLoaded, Settled
      <4> QED BY <1>2, <3>4, <4>3 DEF Settled, LeftSettled
    <3> QED BY <3>2, <3>3, <3>4
  <2>2. Returns(s)
    BY <1>12, <2>1 DEF Returns
  <2> QED BY <1>2, <1>5, <1>6, <1>7, <1>9, <2>2, CleanStep
<1> QED BY <1>8, <1>10, <1>11, <1>12

(* The steps outside the loads.                                             *)
LEMMA RestEnds ==
  ASSUME LoaderInv, CleanInv,
         \/ \E s \in Stores : DoInit(s)
         \/ InitOpKeyDatabase
         \/ \E e \in Entries, row \in {Gone, Changed} : EditOpKey(e, row)
         \/ Flush \/ DeleteProfiles \/ Crash
         \/ \E t \in Tables, v \in Versions : CustChanged(t, v)
         \/ UNCHANGED vars
  PROVE  CleanInv' /\ \A r \in Stores : EndsLoaded(r)
<1>1. DbTypes /\ LoadTypes /\ RestTypes
  BY TypeParts DEF LoaderInv
<1>2. ASSUME NEW s \in Stores, NEW loads,
             todo[s] = <<>>, todo' = [todo EXCEPT ![s] = loads],
             ready' = [ready EXCEPT ![s] = IF loads = <<>> THEN "ready" ELSE "loading"],
             clean' = [clean EXCEPT ![s] = TRUE],
             UNCHANGED <<view, file, step, version, broken>>,
             loads = <<>> \/ \A t \in Tables : StoreOf(t) = s =>
                             \E i \in DOMAIN loads : loads[i].table = t
      PROVE  CleanInv' /\ \A r \in Stores : EndsLoaded(r)
  <2>1. ASSUME NEW r \in Stores, r # s PROVE CleanLoad(r)' /\ EndsLoaded(r)
    <3>1. todo'[r] = todo[r] /\ ready'[r] = ready[r] /\ clean'[r] = clean[r]
      BY <1>1, <1>2, <2>1 DEF LoadTypes, RestTypes
    <3>2. Ahead(r)' = Ahead(r) /\ Current(r)' = Current(r)
      BY <3>1 DEF Ahead, Current
    <3> QED BY <1>2, <3>1, <3>2 DEF CleanInv, CleanLoad, Settled, EndsLoaded
  <2>2. step'[s] = "parse" /\ ready[s] # "loading"
    BY <1>1, <1>2 DEF LoadTypes
  <2>3. todo'[s] = loads /\ ready'[s] = IF loads = <<>> THEN "ready" ELSE "loading"
    BY <1>1, <1>2 DEF LoadTypes
  <2>4. ready'[s] = "loading" => \A t \in Tables : StoreOf(t) = s => t \in Ahead(s)'
    BY <1>2, <2>3 DEF Ahead
  <2>5. CleanLoad(s)' /\ EndsLoaded(s)
    BY <2>2, <2>4 DEF CleanLoad, EndsLoaded
  <2> QED BY <2>1, <2>5 DEF CleanInv
<1>3. ASSUME NEW s \in Stores
      PROVE  \/ OnCreate(s) \o OnOpen(s) = <<>>
             \/ \A t \in Tables : StoreOf(t) = s =>
                  \E i \in DOMAIN (OnCreate(s) \o OnOpen(s)) : (OnCreate(s) \o OnOpen(s))[i].table = t
  BY <1>3 DEF Stores, Tables, Global, StoreOf, OnCreate, OnOpen, Loads
<1>4. ASSUME NEW s \in Stores
      PROVE  \/ OnOpen(s) = <<>>
             \/ \A t \in Tables : StoreOf(t) = s =>
                  \E i \in DOMAIN OnOpen(s) : OnOpen(s)[i].table = t
  BY <1>4 DEF Stores, Tables, Global, StoreOf, OnOpen, Loads
<1>5. ASSUME NEW s \in Stores, DoInit(s)
      PROVE  CleanInv' /\ \A r \in Stores : EndsLoaded(r)
  <2> DEFINE loads == (IF s \in created.view THEN <<>> ELSE OnCreate(s)) \o OnOpen(s)
  <2>1. loads = OnOpen(s) \/ loads = OnCreate(s) \o OnOpen(s)
    <3>1. OnOpen(s) \in Seq(Load)
      BY <1>5, LoadsOfStore
    <3>2. <<>> \o OnOpen(s) = OnOpen(s)
      BY <3>1
    <3> QED BY <3>2
  <2>2. loads = <<>> \/ \A t \in Tables : StoreOf(t) = s =>
                           \E i \in DOMAIN loads : loads[i].table = t
    <3>1. CASE loads = OnOpen(s)
      <4> HIDE DEF loads
      <4> QED BY <3>1, <1>4
    <3>2. CASE loads = OnCreate(s) \o OnOpen(s)
      <4> HIDE DEF loads
      <4> QED BY <3>2, <1>3
    <3> QED BY <2>1, <3>1, <3>2
  <2>3. /\ ready[s] = "closed" /\ todo' = [todo EXCEPT ![s] = loads]
        /\ ready' = [ready EXCEPT ![s] = IF loads = <<>> THEN "ready" ELSE "loading"]
        /\ clean' = [clean EXCEPT ![s] = TRUE]
        /\ UNCHANGED <<view, file, step, version, broken>>
    BY <1>5 DEF DoInit, db
  <2>4. todo[s] = <<>>
    BY <1>1, <2>3 DEF LoadTypes
  <2> HIDE DEF loads
  <2> QED BY <1>2, <2>2, <2>3, <2>4
<1>6. CASE InitOpKeyDatabase
  <2> DEFINE s == "opkey"
             loads == OnCreate(s)
  <2>1. loads = <<[table |-> "opkey_info", check |-> TRUE]>>
    BY DEF OnCreate
  <2>2. loads # <<>> /\ \A t \in Tables : StoreOf(t) = s => \E i \in DOMAIN loads : loads[i].table = t
    BY <2>1 DEF Tables, Global, StoreOf
  <2>3. /\ ready[s] = "ready" /\ todo' = [todo EXCEPT ![s] = loads]
        /\ ready' = [ready EXCEPT ![s] = "loading"]
        /\ clean' = [clean EXCEPT ![s] = TRUE]
        /\ UNCHANGED <<view, file, step, version, broken>>
    BY <1>6 DEF InitOpKeyDatabase, db
  <2>4. s \in Stores /\ todo[s] = <<>>
    BY <1>1, <2>3 DEF LoadTypes, Stores
  <2> HIDE DEF loads, s
  <2> QED BY <1>2, <2>2, <2>3, <2>4
<1>7. CASE \E e \in Entries, row \in {Gone, Changed} : EditOpKey(e, row)
  <2>1. /\ UNCHANGED <<file, ready, todo, step, version, clean, broken>>
        /\ ready["opkey"] # "loading"
        /\ \A t \in Tables : t # "opkey_info" => view'[t] = view[t]
    BY <1>1, <1>7 DEF EditOpKey, Execute, load, DbTypes, Rows
  <2>2. ASSUME NEW r \in Stores PROVE CleanLoad(r)' /\ EndsLoaded(r)
    <3>1. Ahead(r)' = Ahead(r) /\ Current(r)' = Current(r)
      BY <2>1 DEF Ahead, Current
    <3>2. \A t \in Tables : StoreOf(t) = r /\ ready[r] = "loading" => t # "opkey_info"
      BY <2>1 DEF StoreOf, Global
    <3> QED BY <2>1, <3>1, <3>2 DEF CleanInv, CleanLoad, Settled, EndsLoaded
  <2> QED BY <2>2 DEF CleanInv
<1>8. CASE Flush \/ DeleteProfiles \/ UNCHANGED vars
  <2>1. UNCHANGED <<view, file, ready, todo, step, version, clean, broken>>
    BY <1>8 DEF Flush, DeleteProfiles, vars, db, load
  <2>2. ASSUME NEW r \in Stores PROVE CleanLoad(r)' /\ EndsLoaded(r)
    BY <2>1 DEF CleanInv, CleanLoad, Settled, EndsLoaded, Ahead, Current
  <2> QED BY <2>2 DEF CleanInv
<1>9. CASE Crash
  BY <1>9 DEF Crash, CleanInv, CleanLoad, EndsLoaded
<1>10. ASSUME NEW u \in Tables, NEW v \in Versions, CustChanged(u, v)
       PROVE  CleanInv' /\ \A r \in Stores : EndsLoaded(r)
  <2>1. /\ UNCHANGED <<view, ready, todo, step, version, clean, broken>>
        /\ ready[StoreOf(u)] # "loading"
        /\ \A t \in Tables : t # u => file'[t] = file[t]
    BY <1>1, <1>10 DEF CustChanged, db, load, DbTypes
  <2>2. ASSUME NEW r \in Stores PROVE CleanLoad(r)' /\ EndsLoaded(r)
    <3>1. Ahead(r)' = Ahead(r) /\ Current(r)' = Current(r)
      BY <2>1 DEF Ahead, Current
    <3>2. ready[r] = "loading" => Current(r) \in Tables /\ StoreOf(Current(r)) = r
      BY <1>1, CurrentTable DEF LoadTypes
    <3>3. \A t \in Tables : StoreOf(t) = r /\ ready[r] = "loading" => file'[t] = file[t]
      BY <2>1
    <3> QED BY <2>1, <3>1, <3>2, <3>3 DEF CleanInv, CleanLoad, Settled, EndsLoaded
  <2> QED BY <2>2 DEF CleanInv
<1> QED BY <1>5, <1>6, <1>7, <1>8, <1>9, <1>10

LEMMA CleanNext ==
  ASSUME LoaderInv, CleanInv, [Next]_vars
  PROVE  CleanInv' /\ \A r \in Stores : EndsLoaded(r)
<1>1. asked \subseteq Stores
  BY TypeParts, AskedStore DEF LoaderInv
<1>2. "opkey" \in Stores
  BY DEF Stores
<1> QED BY <1>1, <1>2, LoadingEnds, RestEnds DEF Next

(* As long as nothing fails, the tables that a loading store has done hold  *)
(* their present files, and the load under way is of the present one.       *)
THEOREM CleanInvariant == Spec => [](LoaderInv /\ CleanInv)
<1>1. Init => CleanInv
  BY DEF Init, CleanInv, CleanLoad
<1> QED BY <1>1, InitInv, NextInv, CleanNext, PTL DEF Spec

(* A start, or an OPKEY_INIT, in which nothing failed leaves the tables of  *)
(* the store with the present files, or with a digest known to be broken.   *)
THEOREM CleanStartLoads == Spec => CleanLoadLoads
<1>1. ASSUME LoaderInv, CleanInv, [Next]_vars
      PROVE  [\A s \in Stores :
               ready[s] = "loading" /\ ready'[s] = "ready" /\ clean'[s] =>
                 \A t \in Tables :
                   StoreOf(t) = s => file[t] \in broken[t] \/ LoadedWith(view'[t], file[t])]_vars
  BY <1>1, CleanNext DEF EndsLoaded, LeftSettled
<1> QED BY <1>1, CleanInvariant, PTL DEF Spec, CleanLoadLoads
=============================================================================
