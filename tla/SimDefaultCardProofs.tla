------------------------ MODULE SimDefaultCardProofs ------------------------
(***************************************************************************)
(* Proofs about SimDefaultCard for every set of cards and kinds and every  *)
(* bound: the types, that no kind ever has two default cards, that a       *)
(* confirmed default survives, and that the table on disk implements       *)
(* DefaultCardRegister.                                                    *)
(***************************************************************************)
EXTENDS SimDefaultCard, SequenceTheorems, TLAPS

(* What the changes of sim_info do to a well-typed table.                  *)
LEMMA InsertTable ==
  ASSUME NEW tbl \in Tables, NEW c \in Cards
  PROVE  LET new == [tbl EXCEPT !.given = @ \union {c}, !.rows = @ \union {c}] IN
         new \in Tables /\ new.flags = tbl.flags
BY DEF Tables

LEMMA RemovedTable ==
  ASSUME NEW tbl \in Tables, NEW c \in Cards
  PROVE  /\ Removed(tbl, c) \in Tables
         /\ \A t \in Types : Removed(tbl, c).flags[t] = tbl.flags[t] \ {c}
BY DEF Tables, Removed

LEMMA ClearedTable ==
  ASSUME NEW tbl \in Tables, NEW u \in Types
  PROVE  /\ Cleared(tbl, u) \in Tables
         /\ Cleared(tbl, u).flags[u] = {}
         /\ \A t \in Types : t # u => Cleared(tbl, u).flags[t] = tbl.flags[t]
BY DEF Tables, Cleared

LEMMA FlaggedTable ==
  ASSUME NEW tbl \in Tables, NEW u \in Types, NEW c \in Cards \union {NoCard}
  PROVE  /\ Flagged(tbl, u, c) \in Tables
         /\ Flagged(tbl, u, c).flags[u] = tbl.flags[u] \union ({c} \intersect tbl.rows)
         /\ \A t \in Types : t # u => Flagged(tbl, u, c).flags[t] = tbl.flags[t]
BY DEF Tables, Flagged

(* Opening and ending transactions, on the stack alone.                    *)
LEMMA PushStack ==
  ASSUME NEW s \in Seq(Tables), NEW tbl \in Tables
  PROVE  LET new == <<tbl>> \o s IN
         /\ new \in Seq(Tables) /\ Len(new) = Len(s) + 1 /\ new[1] = tbl
         /\ \A i \in DOMAIN new : i # 1 => i - 1 \in DOMAIN s /\ new[i] = s[i - 1]
<1> DEFINE new == <<tbl>> \o s
<1>1. <<tbl>> \in Seq(Tables) /\ Len(<<tbl>>) = 1 /\ <<tbl>>[1] = tbl
  OBVIOUS
<1>2. new \in Seq(Tables) /\ Len(new) = Len(s) + 1
  BY <1>1
<1>3. new[1] = tbl
  BY <1>1
<1>4. ASSUME NEW i \in DOMAIN new, i # 1
      PROVE  i - 1 \in DOMAIN s /\ new[i] = s[i - 1]
  BY <1>1, <1>2, <1>4
<1> QED
  BY <1>2, <1>3, <1>4

LEMMA PopStack ==
  ASSUME NEW s \in Seq(Tables), s # <<>>
  PROVE  /\ Tail(s) \in Seq(Tables) /\ Len(Tail(s)) = Len(s) - 1
         /\ Head(s) = s[1] /\ s[1] \in Tables /\ 1 \in DOMAIN s
         /\ \A i \in DOMAIN Tail(s) : i + 1 \in DOMAIN s /\ Tail(s)[i] = s[i + 1]
OBVIOUS

-----------------------------------------------------------------------------
FaultsInBound == faults \in 0..MaxFaults

LEMMA CountingFaults == FaultsInBound /\ (Fault \/ NoFault) => FaultsInBound'
BY CardAssumption DEF FaultsInBound, Fault, NoFault

LEMMA TypeInit == Init => TypeOK
<1> SUFFICES ASSUME Init
             PROVE  TypeOK
  OBVIOUS
<1>1. view \in Tables /\ disk \in Tables
  BY DEF Init, Tables
<1>2. stack \in Seq(Tables)
  BY DEF Init
<1>3. faults \in 0..MaxFaults
  BY CardAssumption DEF Init
<1>4. nests \in BOOLEAN /\ stored \in BOOLEAN /\ leaked \in BOOLEAN
  BY Zenon DEF Init
<1>5. step \in Steps
  BY DEF Init, Steps
<1>6. simId \in Cards \union {NoCard} /\ type \in Types \union {BadType}
  BY DEF Init
<1>7. reply \in [ok : BOOLEAN, card : Cards \union {NoCard}, type : Types \union {BadType}]
  BY DEF Init
<1>8. acked \in [Types -> Cards \union {NoCard}]
  BY DEF Init
<1> QED
  BY <1>1, <1>2, <1>3, <1>4, <1>5, <1>6, <1>7, <1>8 DEF TypeOK

(* How a call returns keeps the types of the call.                         *)
CallTyped ==
  /\ step \in Steps
  /\ simId \in Cards \union {NoCard}
  /\ type \in Types \union {BadType}
  /\ stored \in BOOLEAN
  /\ reply \in [ok : BOOLEAN, card : Cards \union {NoCard}, type : Types \union {BadType}]

LEMMA ReturnTyped ==
  ASSUME CallTyped, NEW ok \in BOOLEAN, Return(ok)
  PROVE  CallTyped'
<1>1. step' \in Steps /\ simId' \in Cards \union {NoCard} /\ type' \in Types \union {BadType}
  BY DEF Return, Steps
<1>2. stored' \in BOOLEAN
  BY Zenon DEF Return
<1>3. reply' \in [ok : BOOLEAN, card : Cards \union {NoCard}, type : Types \union {BadType}]
  BY DEF Return, CallTyped
<1> QED
  BY <1>1, <1>2, <1>3 DEF CallTyped

TablesTyped == view \in Tables /\ disk \in Tables /\ stack \in Seq(Tables)

LEMMA ExecuteTyped ==
  ASSUME TablesTyped, NEW tbl \in Tables, Execute(tbl), UNCHANGED stack
  PROVE  TablesTyped'
BY DEF TablesTyped, Execute

HistoryTyped == leaked \in BOOLEAN /\ acked \in [Types -> Cards \union {NoCard}]

LEMMA TypeParts ==
  TypeOK <=> TablesTyped /\ CallTyped /\ HistoryTyped /\ nests \in BOOLEAN /\ FaultsInBound
BY Zenon DEF TypeOK, TablesTyped, CallTyped, HistoryTyped, FaultsInBound

(* While a call is between begin and end its transaction is open.          *)
LEMMA StackInCall == TypeOK /\ OpenTransactions /\ InCall => stack # <<>> /\ Len(stack) >= 1
<1> SUFFICES ASSUME TypeOK, OpenTransactions, InCall
             PROVE  stack # <<>> /\ Len(stack) >= 1
  OBVIOUS
<1>1. stack \in Seq(Tables)
  BY DEF TypeOK
<1>2. Len(stack) > Own \/ Len(stack) = Own
  BY Zenon DEF OpenTransactions
<1>3. Own = 1
  BY DEF Own
<1> QED
  BY <1>1, <1>2, <1>3

LEMMA TablesNext == TypeOK /\ OpenTransactions /\ [Next]_vars => TablesTyped'
<1> SUFFICES ASSUME TypeOK, OpenTransactions, [Next]_vars
             PROVE  TablesTyped'
  OBVIOUS
<1>0. TablesTyped
  BY TypeParts
<1>1. ASSUME NEW c \in Cards, InsertCard(c)
      PROVE  TablesTyped'
  BY <1>0, <1>1, InsertTable, ExecuteTyped DEF InsertCard, TablesTyped
<1>2. ASSUME NEW c \in Cards, DeleteCard(c)
      PROVE  TablesTyped'
  BY <1>0, <1>2, RemovedTable, ExecuteTyped DEF DeleteCard, TablesTyped
<1>3. ASSUME NEW c \in Cards, NEW t \in Types \union {BadType}, SetCard(c, t)
      PROVE  TablesTyped'
  BY <1>0, <1>3 DEF SetCard, TablesTyped
<1>4. ASSUME NEW ok \in BOOLEAN, BeginTransaction(ok)
      PROVE  TablesTyped'
  <2>1. CASE Push
    BY <1>0, <1>4, <2>1, PushStack DEF BeginTransaction, Push, TablesTyped
  <2>2. CASE UNCHANGED stack
    BY <1>0, <1>4, <2>2 DEF BeginTransaction, TablesTyped
  <2> QED
    BY <1>4, <2>1, <2>2 DEF BeginTransaction
<1>5. ASSUME NEW ok \in BOOLEAN, UpdateCardStateByType(ok)
      PROVE  TablesTyped'
  <2>1. CASE type \in Types /\ Execute(Cleared(view, type))
    BY <1>0, <1>5, <2>1, ClearedTable, ExecuteTyped DEF UpdateCardStateByType, TablesTyped
  <2>2. CASE UNCHANGED <<view, disk>>
    BY <1>0, <1>5, <2>2 DEF UpdateCardStateByType, TablesTyped
  <2> QED
    BY <1>5, <2>1, <2>2 DEF UpdateCardStateByType
<1>6. ASSUME NEW ok \in BOOLEAN, SetFlag(ok)
      PROVE  TablesTyped'
  <2> SUFFICES Flagged(view, type, simId) \in Tables
    BY <1>0, <1>6, ExecuteTyped DEF SetFlag, TablesTyped
  <2>1. view \in Tables /\ simId \in Cards \union {NoCard}
    BY DEF TypeOK
  <2>2. view.rows \in SUBSET Cards /\ view.flags \in [Types -> SUBSET Cards]
    BY <2>1 DEF Tables
  <2>3. [view.flags EXCEPT ![type] = @ \union ({simId} \intersect view.rows)]
           \in [Types -> SUBSET Cards]
    BY <2>2
  <2> QED
    BY <2>1, <2>3 DEF Flagged, Tables
<1>7. ASSUME NEW ok \in BOOLEAN, Commit(ok)
      PROVE  TablesTyped'
  <2>1. stack # <<>>
    BY <1>7, StackInCall DEF Commit, InCall
  <2> QED
    BY <1>0, <1>7, <2>1, PopStack DEF Commit, TablesTyped
<1>8. ASSUME NEW ok \in BOOLEAN, RollBack(ok)
      PROVE  TablesTyped'
  <2>1. stack # <<>>
    BY <1>8, StackInCall DEF RollBack, InCall
  <2> QED
    BY <1>0, <1>8, <2>1, PopStack DEF RollBack, TablesTyped
<1>9. CASE Crash
  BY <1>0, <1>9 DEF Crash, TablesTyped
<1>10. CASE UNCHANGED vars
  BY <1>0, <1>10 DEF vars, TablesTyped
<1> QED
  BY <1>1, <1>2, <1>3, <1>4, <1>5, <1>6, <1>7, <1>8, <1>9, <1>10, Zenon DEF Next

LEMMA CallNext == TypeOK /\ [Next]_vars => CallTyped'
<1> SUFFICES ASSUME TypeOK, [Next]_vars
             PROVE  CallTyped'
  OBVIOUS
<1>0. CallTyped
  BY TypeParts
<1>1. ASSUME UNCHANGED <<call, reply>>
      PROVE  CallTyped'
  BY <1>0, <1>1 DEF call, CallTyped
<1>2. ASSUME NEW c \in Cards, InsertCard(c) \/ DeleteCard(c)
      PROVE  CallTyped'
  BY <1>1, <1>2, Zenon DEF InsertCard, DeleteCard
<1>3. ASSUME NEW c \in Cards, NEW t \in Types \union {BadType}, SetCard(c, t)
      PROVE  CallTyped'
  BY <1>0, <1>3, Zenon DEF SetCard, CallTyped, Steps
<1>4. ASSUME NEW s \in Steps, step' = s, UNCHANGED <<simId, type, reply>>, stored' \in BOOLEAN
      PROVE  CallTyped'
  BY <1>0, <1>4 DEF CallTyped
<1>5. stored \in BOOLEAN
  BY Zenon, <1>0 DEF CallTyped
<1>6. ASSUME NEW ok \in BOOLEAN, BeginTransaction(ok)
      PROVE  CallTyped'
  BY <1>0, <1>4, <1>5, <1>6, ReturnTyped DEF BeginTransaction, Steps
<1>7. ASSUME NEW ok \in BOOLEAN, UpdateCardStateByType(ok)
      PROVE  CallTyped'
  BY <1>0, <1>4, <1>5, <1>7, ReturnTyped DEF UpdateCardStateByType, Steps
<1>8. ASSUME NEW ok \in BOOLEAN, SetFlag(ok)
      PROVE  CallTyped'
  <2>1. CASE stored' = (simId \in view.rows)
    BY <1>4, <1>8, <2>1, SMT DEF SetFlag, Steps
  <2>2. CASE UNCHANGED stored
    BY <1>4, <1>5, <1>8, <2>2 DEF SetFlag, Steps
  <2> QED
    BY <1>8, <2>1, <2>2, Zenon DEF SetFlag
<1>9. ASSUME NEW ok \in BOOLEAN, Commit(ok)
      PROVE  CallTyped'
  BY <1>0, <1>4, <1>5, <1>9, ReturnTyped DEF Commit, Steps
<1>10. ASSUME NEW ok \in BOOLEAN, RollBack(ok)
      PROVE  CallTyped'
  BY <1>0, <1>10, ReturnTyped DEF RollBack
<1>11. CASE Crash
  BY <1>0, <1>11, Zenon DEF Crash, CallTyped, Steps
<1>12. CASE UNCHANGED vars
  BY <1>1, <1>12 DEF vars, call
<1> QED
  BY <1>2, <1>3, <1>6, <1>7, <1>8, <1>9, <1>10, <1>11, <1>12, Zenon DEF Next

LEMMA HistoryNext == TypeOK /\ [Next]_vars => HistoryTyped'
<1> SUFFICES ASSUME TypeOK, [Next]_vars
             PROVE  HistoryTyped'
  OBVIOUS
<1>0. HistoryTyped /\ simId \in Cards \union {NoCard}
  BY Zenon DEF TypeOK, HistoryTyped
<1>1. leaked' = leaked \/ leaked' \in BOOLEAN
  BY Zenon DEF Next, InsertCard, DeleteCard, SetCard, BeginTransaction,
     UpdateCardStateByType, SetFlag, Commit, RollBack, Crash, vars
<1>2. leaked' \in BOOLEAN
  BY <1>0, <1>1, Zenon DEF HistoryTyped
<1>3. acked' \in [Types -> Cards \union {NoCard}]
  <2>1. ASSUME NEW c \in Cards, DeleteCard(c)
        PROVE  acked' \in [Types -> Cards \union {NoCard}]
    BY <1>0, <2>1 DEF DeleteCard, HistoryTyped
  <2>2. ASSUME NEW ok \in BOOLEAN, Commit(ok)
        PROVE  acked' \in [Types -> Cards \union {NoCard}]
    BY <1>0, <2>2 DEF Commit, HistoryTyped
  <2>3. ASSUME UNCHANGED acked
        PROVE  acked' \in [Types -> Cards \union {NoCard}]
    BY <1>0, <2>3 DEF HistoryTyped
  <2> QED
    BY <2>1, <2>2, <2>3, Zenon DEF Next, InsertCard, SetCard, BeginTransaction,
       UpdateCardStateByType, SetFlag, RollBack, Crash, vars
<1> QED
  BY <1>2, <1>3 DEF HistoryTyped

LEMMA TypeNext == TypeOK /\ OpenTransactions /\ [Next]_vars => TypeOK'
<1> SUFFICES ASSUME TypeOK, OpenTransactions, [Next]_vars
             PROVE  TypeOK'
  OBVIOUS
<1>1. FaultsInBound'
  <2>1. FaultsInBound
    BY TypeParts
  <2>2. Fault \/ NoFault
    BY Zenon DEF Next, InsertCard, DeleteCard, SetCard, BeginTransaction,
       UpdateCardStateByType, SetFlag, Commit, RollBack, Crash, vars, NoFault
  <2> QED
    BY <2>1, <2>2, CountingFaults
<1>2. nests' \in BOOLEAN
  BY Zenon DEF TypeOK, Next, InsertCard, DeleteCard, SetCard, BeginTransaction,
     UpdateCardStateByType, SetFlag, Commit, RollBack, Crash, vars
<1>3. TablesTyped' /\ CallTyped' /\ HistoryTyped'
  BY TablesNext, CallNext, HistoryNext
<1> QED
  BY <1>1, <1>2, <1>3, Zenon DEF TypeOK, TablesTyped, CallTyped, HistoryTyped, FaultsInBound

-----------------------------------------------------------------------------
(* Each conjunct of the inductive invariant is preserved by every step.    *)
IInv == TypeOK /\ CardInv

LEMMA IInvInit == Init => IInv
<1> SUFFICES ASSUME Init
             PROVE  CardInv
  BY TypeInit DEF IInv
<1>1. AtMostOneDefault /\ UniqueStack
  BY DEF Init, AtMostOneDefault, Unique, UniqueStack
<1>2. OpenTransactions
  BY DEF Init, OpenTransactions, InCall, Own
<1>3. CallProgress /\ AckedDurable
  BY DEF Init, CallProgress, AckedDurable
<1> QED
  BY <1>1, <1>2, <1>3 DEF CardInv

(* What the step changes of the two tables, whatever its kind: a new value *)
(* of the view is made durable only if no transaction is open.             *)
LEMMA UniqueExecute ==
  ASSUME AtMostOneDefault, NEW tbl, Unique(tbl), Execute(tbl)
  PROVE  AtMostOneDefault'
BY DEF AtMostOneDefault, Unique, Execute

LEMMA UniqueNext == IInv /\ [Next]_vars => AtMostOneDefault'
<1> SUFFICES ASSUME IInv, [Next]_vars
             PROVE  AtMostOneDefault'
  OBVIOUS
<1>0. TypeOK /\ AtMostOneDefault /\ UniqueStack /\ OpenTransactions /\ CallProgress
  BY DEF IInv, CardInv
<1>00. view \in Tables /\ disk \in Tables /\ stack \in Seq(Tables)
  BY <1>0 DEF TypeOK
<1>1. ASSUME NEW c \in Cards, InsertCard(c)
      PROVE  AtMostOneDefault'
  <2> DEFINE new == [view EXCEPT !.given = @ \union {c}, !.rows = @ \union {c}]
  <2>1. new.flags = view.flags
    BY <1>00, InsertTable
  <2>2. Unique(new)
    BY <1>0, <2>1 DEF AtMostOneDefault, Unique
  <2>3. Execute(new)
    BY <1>1 DEF InsertCard
  <2> HIDE DEF new
  <2> QED
    BY <1>0, <2>2, <2>3, UniqueExecute
<1>2. ASSUME NEW c \in Cards, DeleteCard(c)
      PROVE  AtMostOneDefault'
  BY <1>0, <1>00, <1>2, RemovedTable, UniqueExecute DEF DeleteCard, AtMostOneDefault, Unique
<1>3. ASSUME UNCHANGED <<view, disk>>
      PROVE  AtMostOneDefault'
  BY <1>0, <1>3 DEF AtMostOneDefault, Unique
<1>4. ASSUME NEW ok \in BOOLEAN, UpdateCardStateByType(ok)
      PROVE  AtMostOneDefault'
  <2>1. CASE type \in Types /\ Execute(Cleared(view, type))
    <3> DEFINE new == Cleared(view, type)
    <3>1. Unique(view) /\ type \in Types /\ Execute(new)
      BY <1>0, <2>1 DEF AtMostOneDefault
    <3>2. new.flags[type] = {} /\ \A t \in Types : t # type => new.flags[t] = view.flags[t]
      BY <1>00, <3>1, ClearedTable
    <3> HIDE DEF new
    <3>3. Unique(new)
      BY <3>1, <3>2 DEF Unique
    <3> QED
      BY <1>0, <3>1, <3>3, UniqueExecute
  <2> QED
    BY <1>3, <1>4, <2>1, Zenon DEF UpdateCardStateByType
<1>5. ASSUME NEW ok \in BOOLEAN, SetFlag(ok)
      PROVE  AtMostOneDefault'
  <2>1. CASE Execute(Flagged(view, type, simId))
    <3>1. type \in Types /\ simId \in Cards /\ view.flags[type] = {}
      BY <1>0, <1>5 DEF CallProgress, SetFlag
    <3>2. Unique(Flagged(view, type, simId))
      BY <1>0, <1>00, <3>1, FlaggedTable DEF AtMostOneDefault, Unique
    <3> QED
      BY <1>0, <2>1, <3>2, UniqueExecute
  <2> QED
    BY <1>3, <1>5, <2>1, Zenon DEF SetFlag
<1>6. ASSUME NEW ok \in BOOLEAN, Commit(ok)
      PROVE  AtMostOneDefault'
  BY <1>0, <1>6 DEF Commit, AtMostOneDefault, Unique
<1>7. ASSUME NEW ok \in BOOLEAN, RollBack(ok)
      PROVE  AtMostOneDefault'
  <2>1. stack # <<>>
    BY <1>0, <1>7, StackInCall DEF RollBack, InCall
  <2>2. Unique(Head(stack))
    BY <1>0, <1>00, <2>1, PopStack DEF UniqueStack
  <2> QED
    BY <1>0, <1>7, <2>2 DEF RollBack, AtMostOneDefault, Unique
<1>8. CASE Crash
  BY <1>0, <1>8 DEF Crash, AtMostOneDefault, Unique
<1> QED
  BY <1>1, <1>2, <1>3, <1>4, <1>5, <1>6, <1>7, <1>8, Zenon
     DEF Next, SetCard, BeginTransaction, vars

LEMMA UniqueStackNext == IInv /\ [Next]_vars => UniqueStack'
<1> SUFFICES ASSUME IInv, [Next]_vars
             PROVE  UniqueStack'
  OBVIOUS
<1>0. TypeOK /\ AtMostOneDefault /\ UniqueStack /\ OpenTransactions
  BY DEF IInv, CardInv
<1>00. view \in Tables /\ stack \in Seq(Tables) /\ Unique(view)
  BY <1>0 DEF TypeOK, AtMostOneDefault
<1>1. CASE UNCHANGED stack
  BY <1>0, <1>1 DEF UniqueStack
<1>2. CASE Push
  BY <1>0, <1>00, <1>2, PushStack DEF Push, UniqueStack
<1>3. CASE stack # <<>> /\ stack' = Tail(stack)
  BY <1>0, <1>00, <1>3, PopStack DEF UniqueStack
<1>4. CASE Crash
  BY <1>4 DEF Crash, UniqueStack
<1>5. ASSUME NEW ok \in BOOLEAN, Commit(ok) \/ RollBack(ok)
      PROVE  stack # <<>> /\ (stack' = Tail(stack) \/ UNCHANGED stack)
  BY <1>0, <1>5, StackInCall DEF Commit, RollBack, InCall
<1>6. UNCHANGED stack \/ Push \/ (\E ok \in BOOLEAN : Commit(ok) \/ RollBack(ok)) \/ Crash
  BY Zenon DEF Next, InsertCard, DeleteCard, SetCard, BeginTransaction,
     UpdateCardStateByType, SetFlag, vars
<1> QED
  BY <1>1, <1>2, <1>3, <1>4, <1>5, <1>6, Zenon

LEMMA CallProgressNext == IInv /\ [Next]_vars => CallProgress'
<1> SUFFICES ASSUME IInv, [Next]_vars
             PROVE  CallProgress'
  OBVIOUS
<1>0. TypeOK /\ CallProgress
  BY DEF IInv, CardInv
<1>00. view \in Tables
  BY <1>0 DEF TypeOK
<1>1. ASSUME step' = "idle"
      PROVE  CallProgress'
  BY <1>1 DEF CallProgress
<1>2. ASSUME step = "idle", UNCHANGED call
      PROVE  CallProgress'
  BY <1>1, <1>2 DEF call
<1>3. ASSUME NEW c \in Cards, NEW t \in Types \union {BadType}, SetCard(c, t)
      PROVE  CallProgress'
  BY <1>3 DEF SetCard, CallProgress
<1>4. ASSUME NEW ok \in BOOLEAN, BeginTransaction(ok)
      PROVE  CallProgress'
  <2>1. CASE step' = "reset" /\ UNCHANGED <<simId, stored>>
    BY <1>0, <1>4, <2>1 DEF BeginTransaction, CallProgress
  <2>2. CASE ok
    BY <1>1, <1>4, <2>1, <2>2 DEF BeginTransaction, Return
  <2> QED
    BY <1>1, <1>4, <2>1, <2>2, Zenon DEF BeginTransaction, Return
<1>5. ASSUME NEW ok \in BOOLEAN, UpdateCardStateByType(ok)
      PROVE  CallProgress'
  <2>1. CASE /\ type \in Types /\ Execute(Cleared(view, type))
             /\ step' = "set" /\ UNCHANGED <<simId, type, stored>>
    <3>1. view'.flags[type] = {}
      BY <1>00, <2>1, ClearedTable DEF Execute
    <3> QED
      BY <1>0, <1>5, <2>1, <3>1 DEF UpdateCardStateByType, CallProgress
  <2> QED
    BY <1>1, <1>5, <2>1, Zenon DEF UpdateCardStateByType, Return
<1>6. ASSUME NEW ok \in BOOLEAN, SetFlag(ok)
      PROVE  CallProgress'
  <2>1. type \in Types /\ simId \in Cards /\ view.flags[type] = {} /\ ~stored
    BY <1>0, <1>6 DEF SetFlag, CallProgress
  <2>2. step' = "commit" /\ UNCHANGED <<simId, type>>
    BY <1>6 DEF SetFlag
  <2>3. ASSUME Execute(Flagged(view, type, simId)), simId \in view.rows
        PROVE  view'.flags[type] = {simId}
    BY <1>00, <2>1, <2>3, FlaggedTable DEF Execute
  <2>4. stored' => view'.flags[type] = {simId}
    BY <1>6, <2>1, <2>3 DEF SetFlag
  <2> QED
    BY <2>1, <2>2, <2>4 DEF CallProgress
<1>7. ASSUME NEW ok \in BOOLEAN, Commit(ok)
      PROVE  CallProgress'
  <2>1. CASE step' = "rollback" /\ UNCHANGED type
    BY <1>0, <1>7, <2>1 DEF Commit, CallProgress
  <2> QED
    BY <1>1, <1>7, <2>1, Zenon DEF Commit, Return
<1>8. ASSUME NEW ok \in BOOLEAN, RollBack(ok)
      PROVE  CallProgress'
  BY <1>1, <1>8, Zenon DEF RollBack, Return
<1>9. CASE Crash
  BY <1>1, <1>9, Zenon DEF Crash
<1>10. CASE UNCHANGED vars
  BY <1>0, <1>10 DEF CallProgress, vars, call
<1> QED
  BY <1>2, <1>3, <1>4, <1>5, <1>6, <1>7, <1>8, <1>9, <1>10, Zenon
     DEF Next, InsertCard, DeleteCard

LEMMA OpenNext == IInv /\ [Next]_vars => OpenTransactions'
<1> SUFFICES ASSUME IInv, [Next]_vars
             PROVE  OpenTransactions'
  OBVIOUS
<1>0. TypeOK /\ OpenTransactions /\ CallProgress
  BY DEF IInv, CardInv
<1>00. view \in Tables /\ disk \in Tables /\ stack \in Seq(Tables)
  BY <1>0 DEF TypeOK
<1>1. ASSUME ~InCall, ~InCall', UNCHANGED <<stack, leaked>>,
             UNCHANGED <<view, disk>> \/ \E tbl : Execute(tbl)
      PROVE  OpenTransactions'
  BY <1>0, <1>1 DEF OpenTransactions, Own, Execute
<1>2. ASSUME InCall, InCall', UNCHANGED <<stack, leaked, type, disk>>, type \in Types,
             \A t \in Types : t # type => view'.flags[t] = view.flags[t]
      PROVE  OpenTransactions'
  <2>1. stack # <<>>
    BY <1>0, <1>2, StackInCall
  <2> QED
    BY <1>0, <1>2, <2>1 DEF OpenTransactions, Own
<1>3. ASSUME NEW c \in Cards, InsertCard(c) \/ DeleteCard(c)
      PROVE  OpenTransactions'
  BY <1>1, <1>3, Zenon DEF InsertCard, DeleteCard, InCall, call
<1>4. ASSUME NEW c \in Cards, NEW t \in Types \union {BadType}, SetCard(c, t)
      PROVE  OpenTransactions'
  BY <1>1, <1>4 DEF SetCard, InCall
<1>5. ASSUME NEW ok \in BOOLEAN, BeginTransaction(ok)
      PROVE  OpenTransactions'
  <2>1. ~InCall /\ UNCHANGED <<view, disk, leaked>>
    BY <1>5 DEF BeginTransaction, InCall
  <2>2. CASE Push /\ step' = "reset"
    <3>1. InCall' /\ stack' # <<>> /\ Len(stack') = Len(stack) + 1 /\ stack'[1] = view
      BY <1>00, <2>2, PushStack DEF Push, InCall
    <3>2. leaked => Len(stack) > 0
      BY <1>0, <2>1 DEF OpenTransactions, Own
    <3>3. ~leaked => Len(stack) = 0 /\ view = disk
      BY <1>0, <1>00, <2>1 DEF OpenTransactions, Own
    <3>4. Len(stack) \in Nat
      BY <1>00
    <3> QED
      BY <2>1, <3>1, <3>2, <3>3, <3>4 DEF OpenTransactions, Own
  <2>3. CASE step' = "idle" /\ UNCHANGED stack
    BY <1>1, <2>1, <2>3 DEF InCall
  <2> QED
    BY <1>5, <2>2, <2>3, Zenon DEF BeginTransaction, Return
<1>6. ASSUME InCall, step' = "idle", leaked' = TRUE, UNCHANGED stack
      PROVE  OpenTransactions'
  <2>1. ~InCall' /\ Len(stack') > 0 /\ stack' # <<>>
    BY <1>0, <1>00, <1>6, StackInCall DEF InCall
  <2> QED
    BY <1>6, <2>1 DEF OpenTransactions, Own
<1>7. ASSUME NEW ok \in BOOLEAN, UpdateCardStateByType(ok)
      PROVE  OpenTransactions'
  <2>1. InCall /\ stack # <<>>
    BY <1>0, <1>7, StackInCall DEF UpdateCardStateByType, InCall
  <2>2. CASE /\ type \in Types /\ Execute(Cleared(view, type))
             /\ step' = "set" /\ UNCHANGED <<type, leaked>>
    BY <1>2, <1>7, <1>00, <2>1, <2>2, ClearedTable DEF UpdateCardStateByType, Execute, InCall
  <2> QED
    BY <1>6, <1>7, <2>1, <2>2, Zenon DEF UpdateCardStateByType, Return
<1>8. ASSUME NEW ok \in BOOLEAN, SetFlag(ok)
      PROVE  OpenTransactions'
  <2>1. /\ InCall /\ InCall' /\ stack # <<>> /\ type \in Types /\ simId \in Cards
        /\ UNCHANGED <<stack, leaked, type>>
    BY <1>0, <1>8, StackInCall DEF SetFlag, InCall, CallProgress
  <2>2. CASE Execute(Flagged(view, type, simId))
    BY <1>2, <1>00, <2>1, <2>2, FlaggedTable DEF Execute
  <2> QED
    BY <1>2, <1>8, <2>1, <2>2 DEF SetFlag
<1>9. ASSUME NEW ok \in BOOLEAN, Commit(ok)
      PROVE  OpenTransactions'
  <2>1. InCall /\ stack # <<>> /\ UNCHANGED <<view, leaked>> /\ Len(stack) \in Nat
    BY <1>0, <1>00, <1>9, StackInCall DEF Commit, InCall
  <2>2. CASE step' = "rollback" /\ UNCHANGED <<stack, disk, type>>
    <3>1. InCall' /\ type \in Types
      BY <1>0, <1>9, <2>2 DEF InCall, Commit, CallProgress
    <3> QED
      BY <1>2, <2>1, <2>2, <3>1
  <2>3. CASE /\ step' = "idle" /\ stack' = Tail(stack)
             /\ disk' = IF Len(stack) = 1 THEN view ELSE disk
    <3>1. ~InCall' /\ Len(stack') = Len(stack) - 1
      BY <1>00, <2>1, <2>3, PopStack DEF InCall
    <3>2. stack' = <<>> => Len(stack) = 1
      BY <2>1, <3>1
    <3> QED
      BY <1>0, <2>1, <2>3, <3>1, <3>2 DEF OpenTransactions, Own
  <2> QED
    BY <1>9, <2>2, <2>3, Zenon DEF Commit, Return
<1>10. ASSUME NEW ok \in BOOLEAN, RollBack(ok)
      PROVE  OpenTransactions'
  <2>1. InCall /\ stack # <<>> /\ UNCHANGED disk /\ Len(stack) \in Nat
    BY <1>0, <1>00, <1>10, StackInCall DEF RollBack, InCall
  <2>2. CASE /\ step' = "idle" /\ UNCHANGED leaked
             /\ view' = Head(stack) /\ stack' = Tail(stack)
    <3>1. ~InCall' /\ Len(stack') = Len(stack) - 1 /\ view' = stack[1]
      BY <1>00, <2>1, <2>2, PopStack DEF InCall
    <3>2. leaked => Len(stack) > 1
      BY <1>0, <2>1 DEF OpenTransactions, Own
    <3>3. ASSUME Len(stack) > 1
          PROVE  stack' # <<>>
      BY <2>1, <3>1, <3>3
    <3> QED
      BY <1>0, <2>1, <2>2, <3>1, <3>2, <3>3 DEF OpenTransactions, Own
  <2> QED
    BY <1>6, <1>10, <2>1, <2>2, Zenon DEF RollBack, Return
<1>11. CASE Crash
  BY <1>11 DEF Crash, OpenTransactions, InCall, Own
<1>12. CASE UNCHANGED vars
  BY <1>0, <1>12 DEF OpenTransactions, InCall, Own, vars, call
<1> QED
  BY <1>3, <1>4, <1>5, <1>7, <1>8, <1>9, <1>10, <1>11, <1>12, Zenon DEF Next

LEMMA AckedNext == IInv /\ [Next]_vars => AckedDurable'
<1> SUFFICES ASSUME IInv, [Next]_vars
             PROVE  AckedDurable'
  OBVIOUS
<1>0. TypeOK /\ OpenTransactions /\ CallProgress /\ AckedDurable
  BY DEF IInv, CardInv
<1>00. view \in Tables /\ disk \in Tables /\ stack \in Seq(Tables)
  BY <1>0 DEF TypeOK
<1>1. ASSUME UNCHANGED acked, \A t \in Types : disk'.flags[t] = disk.flags[t]
      PROVE  AckedDurable'
  BY <1>0, <1>1 DEF AckedDurable
<1>2. ASSUME NEW c \in Cards, InsertCard(c)
      PROVE  AckedDurable'
  <2> DEFINE new == [view EXCEPT !.given = @ \union {c}, !.rows = @ \union {c}]
  <2>1. new.flags = view.flags
    BY <1>00, InsertTable
  <2>2. Execute(new) /\ UNCHANGED acked
    BY <1>2 DEF InsertCard
  <2> HIDE DEF new
  <2>3. \A t \in Types : disk'.flags[t] = disk.flags[t]
    BY <1>0, <2>1, <2>2 DEF OpenTransactions, Execute
  <2> QED
    BY <1>1, <2>2, <2>3
<1>3. ASSUME NEW c \in Cards, DeleteCard(c)
      PROVE  AckedDurable'
  <2>1. ~InCall
    BY <1>3 DEF DeleteCard, InCall
  <2>2. CASE leaked
    <3>1. stack # <<>>
      BY <1>0, <1>00, <2>1, <2>2 DEF OpenTransactions, Own
    <3>2. disk' = disk
      BY <1>3, <3>1 DEF DeleteCard, Execute
    <3>3. \A t \in Types : acked'[t] = acked[t]
      BY <1>3, <2>2 DEF DeleteCard
    <3> QED
      BY <1>0, <3>2, <3>3 DEF AckedDurable
  <2>3. CASE ~leaked
    <3>1. stack = <<>> /\ view = disk
      BY <1>0, <1>00, <2>1, <2>3 DEF OpenTransactions, Own
    <3>2. disk' = Removed(disk, c)
      BY <1>3, <3>1 DEF DeleteCard, Execute
    <3>3. \A t \in Types : disk'.flags[t] = disk.flags[t] \ {c}
      BY <1>00, <3>2, RemovedTable
    <3>4. \A t \in Types : acked'[t] = IF acked[t] = c THEN NoCard ELSE acked[t]
      BY <1>3, <2>3 DEF DeleteCard
    <3> QED
      BY <1>0, <3>3, <3>4 DEF AckedDurable
  <2> QED
    BY <2>2, <2>3
<1>4. ASSUME UNCHANGED <<acked, disk>>
      PROVE  AckedDurable'
  BY <1>1, <1>4
<1>5. ASSUME NEW ok \in BOOLEAN, UpdateCardStateByType(ok) \/ SetFlag(ok)
      PROVE  AckedDurable'
  <2>1. stack # <<>>
    BY <1>0, <1>5, StackInCall DEF UpdateCardStateByType, SetFlag, InCall
  <2>2. UNCHANGED <<acked, disk>>
    BY <1>5, <2>1, Zenon DEF UpdateCardStateByType, SetFlag, Execute
  <2> QED
    BY <1>4, <2>2
<1>6. ASSUME NEW ok \in BOOLEAN, Commit(ok)
      PROVE  AckedDurable'
  <2>1. InCall /\ Own = 1
    BY <1>6 DEF Commit, InCall, Own
  <2>2. CASE UNCHANGED <<disk, acked>>
    BY <1>4, <2>2
  <2>3. CASE /\ disk' = IF Len(stack) = 1 THEN view ELSE disk
             /\ leaked /\ acked' = acked
    <3>1. Len(stack) > 1
      BY <1>0, <2>1, <2>3 DEF OpenTransactions, Own
    <3>2. ASSUME NEW n \in Nat, n > 1
          PROVE  n # 1
      BY <3>2
    <3> QED
      BY <1>00, <1>4, <2>3, <3>1, <3>2
  <2>4. CASE /\ disk' = IF Len(stack) = 1 THEN view ELSE disk
             /\ ~leaked /\ acked' = [acked EXCEPT ![type] = IF stored THEN simId ELSE NoCard]
    <3>1. /\ disk' = view
          /\ \A t \in Types : t # type => disk'.flags[t] = disk.flags[t]
      BY <1>0, <2>1, <2>4 DEF OpenTransactions
    <3>2. stored => view.flags[type] = {simId}
      BY <1>0, <1>6 DEF Commit, CallProgress
    <3>3. acked \in [Types -> Cards \union {NoCard}]
      BY <1>0 DEF TypeOK
    <3>4. ASSUME NEW t \in Types, acked'[t] # NoCard
          PROVE  disk'.flags[t] = {acked'[t]}
      <4>1. CASE t = type
        BY <2>4, <3>1, <3>2, <3>3, <3>4, <4>1
      <4>2. CASE t # type
        BY <1>0, <2>4, <3>1, <3>3, <3>4, <4>2 DEF AckedDurable
      <4> QED
        BY <4>1, <4>2
    <3> QED
      BY <3>4 DEF AckedDurable
  <2>5. leaked \in BOOLEAN
    BY <1>0, Zenon DEF TypeOK
  <2> QED
    BY <1>6, <2>2, <2>3, <2>4, <2>5, Zenon DEF Commit
<1> QED
  BY <1>2, <1>3, <1>4, <1>5, <1>6, Zenon
     DEF Next, SetCard, BeginTransaction, RollBack, Crash, vars

-----------------------------------------------------------------------------
LEMMA IInvNext == IInv /\ [Next]_vars => IInv'
<1>1. IInv /\ [Next]_vars => TypeOK'
  BY TypeNext DEF IInv, CardInv
<1>2. IInv /\ [Next]_vars => CardInv'
  BY UniqueNext, UniqueStackNext, OpenNext, CallProgressNext, AckedNext DEF CardInv
<1> QED
  BY <1>1, <1>2 DEF IInv

LEMMA AlwaysIInv == Spec => []IInv
BY IInvInit, IInvNext, PTL DEF Spec

(* The tables, the stack of open transactions, the call that runs and the  *)
(* histories always have their types.                                      *)
THEOREM TypeCorrect == Spec => []TypeOK
BY AlwaysIInv, PTL DEF IInv

(* The strengthening that makes the two properties below inductive.        *)
THEOREM CardInvariant == Spec => []CardInv
BY AlwaysIInv, PTL DEF IInv

(* However many cards, kinds, failures and left-open transactions: no kind *)
(* has two default cards, in the view of the clients or on disk.           *)
THEOREM DefaultsUnique == Spec => []AtMostOneDefault
<1>1. IInv => AtMostOneDefault
  BY DEF IInv, CardInv
<1> QED
  BY <1>1, AlwaysIInv, PTL

(* A default SET_CARD confirmed survives every later failure and crash.    *)
THEOREM ConfirmedSurvives == Spec => []AckedDurable
<1>1. IInv => AckedDurable
  BY DEF IInv, CardInv
<1> QED
  BY <1>1, AlwaysIInv, PTL

-----------------------------------------------------------------------------
(* The table on disk implements the register: a step changes one kind's    *)
(* default, removes a card from all, or changes none.                      *)
LEMMA DefaultValue ==
  ASSUME NEW tbl \in Tables, Unique(tbl), NEW t \in Types
  PROVE  /\ Default(tbl)[t] \in Cards \union {NoCard}
         /\ tbl.flags[t] = {} => Default(tbl)[t] = NoCard
         /\ \A c \in tbl.flags[t] : Default(tbl)[t] = c
<1>1. tbl.flags[t] \in SUBSET Cards
  BY DEF Tables
<1>2. CASE tbl.flags[t] = {}
  BY <1>2 DEF Default, Value
<1>3. CASE tbl.flags[t] # {}
  <2>1. PICK c \in Cards : c \in tbl.flags[t]
    BY <1>1, <1>3
  <2>2. \A d \in Cards : d \in tbl.flags[t] <=> d = c
    BY <1>1, <2>1 DEF Unique
  <2>3. (CHOOSE d \in tbl.flags[t] : TRUE) = c
    BY <1>1, <2>1, <2>2
  <2>4. Default(tbl)[t] = c
    BY <1>3, <2>3 DEF Default, Value
  <2> QED
    BY <1>1, <1>3, <2>1, <2>2, <2>4
<1> QED
  BY <1>2, <1>3

LEMMA DefaultTyped ==
  ASSUME NEW tbl \in Tables, Unique(tbl)
  PROVE  Default(tbl) \in [Types -> Cards \union {NoCard}]
BY DefaultValue DEF Default

(* A commit of the outermost transaction changes one kind.                 *)
LEMMA CommitSets ==
  ASSUME NEW a \in Tables, NEW b \in Tables, Unique(a), Unique(b), NEW u \in Types,
         \A t \in Types : t # u => b.flags[t] = a.flags[t]
  PROVE  Default(b) = [Default(a) EXCEPT ![u] = Default(b)[u]]
<1>1. /\ Default(a) \in [Types -> Cards \union {NoCard}]
      /\ Default(b) \in [Types -> Cards \union {NoCard}]
  BY DefaultTyped
<1>2. \A t \in Types : t # u => Default(b)[t] = Default(a)[t]
  BY DEF Default
<1> QED
  BY <1>1, <1>2

(* Removing a row removes the card from every kind.                        *)
LEMMA DeleteRemoves ==
  ASSUME NEW a \in Tables, NEW c \in Cards, Unique(a)
  PROVE  Default(Removed(a, c)) = [t \in Types |-> IF Default(a)[t] = c THEN NoCard ELSE Default(a)[t]]
<1> DEFINE b == Removed(a, c)
<1>1. b \in Tables /\ \A t \in Types : b.flags[t] = a.flags[t] \ {c}
  BY RemovedTable
<1> HIDE DEF b
<1>2. Unique(b)
  BY <1>1 DEF Unique
<1>3. ASSUME NEW t \in Types
      PROVE  Default(b)[t] = IF Default(a)[t] = c THEN NoCard ELSE Default(a)[t]
  <2>1. CASE a.flags[t] = {}
    BY <1>1, <1>2, <2>1, DefaultValue, CardAssumption
  <2>2. ASSUME NEW d \in a.flags[t]
        PROVE  Default(b)[t] = IF Default(a)[t] = c THEN NoCard ELSE Default(a)[t]
    <3>1. Default(a)[t] = d /\ a.flags[t] = {d}
      BY <2>2, DefaultValue DEF Unique
    <3>2. CASE d = c
      <4>1. b.flags[t] = {}
        BY <1>1, <3>1, <3>2
      <4> QED
        BY <1>1, <1>2, <3>1, <3>2, <4>1, DefaultValue
    <3>3. CASE d # c
      <4>1. d \in b.flags[t]
        BY <1>1, <3>1, <3>3
      <4> QED
        BY <1>1, <1>2, <3>1, <3>3, <4>1, DefaultValue
    <3> QED
      BY <3>2, <3>3
  <2> QED
    BY <2>1, <2>2
<1>4. Default(b) = [t \in Types |-> Default(b)[t]]
  BY DEF Default
<1> QED
  BY <1>3, <1>4 DEF b

LEMMA RegisterStep == IInv /\ IInv' /\ [Next]_vars => [Register!Next]_(Default(disk))
<1> SUFFICES ASSUME IInv, IInv', [Next]_vars
             PROVE  Register!Next \/ UNCHANGED Default(disk)
  OBVIOUS
<1>0. TypeOK /\ OpenTransactions /\ CallProgress /\ AtMostOneDefault
  BY DEF IInv, CardInv
<1>00. /\ view \in Tables /\ disk \in Tables /\ disk' \in Tables /\ stack \in Seq(Tables)
       /\ Unique(disk) /\ Unique(disk)'
  BY <1>0 DEF IInv, CardInv, AtMostOneDefault, TypeOK
<1>1. ASSUME \A t \in Types : disk'.flags[t] = disk.flags[t]
      PROVE  UNCHANGED Default(disk)
  BY <1>1 DEF Default
<1>2. ASSUME NEW c \in Cards, InsertCard(c)
      PROVE  UNCHANGED Default(disk)
  <2> DEFINE new == [view EXCEPT !.given = @ \union {c}, !.rows = @ \union {c}]
  <2>1. new.flags = view.flags
    BY <1>00, InsertTable
  <2>2. Execute(new)
    BY <1>2 DEF InsertCard
  <2> HIDE DEF new
  <2>3. \A t \in Types : disk'.flags[t] = disk.flags[t]
    BY <1>0, <2>1, <2>2 DEF OpenTransactions, Execute
  <2> QED
    BY <1>1, <2>3
<1>3. ASSUME NEW c \in Cards, DeleteCard(c)
      PROVE  Register!Next \/ UNCHANGED Default(disk)
  <2>1. CASE stack # <<>>
    BY <1>1, <1>3, <2>1 DEF DeleteCard, Execute
  <2>2. CASE stack = <<>>
    <3>1. disk' = Removed(disk, c)
      BY <1>0, <1>3, <2>2 DEF DeleteCard, Execute, OpenTransactions
    <3>2. Default(disk)' = Default(Removed(disk, c))
      BY <3>1 DEF Default
    <3>3. Register!Remove(c)
      BY <1>00, <3>2, DeleteRemoves DEF Register!Remove
    <3> QED
      BY <3>3 DEF Register!Next
  <2> QED
    BY <2>1, <2>2
<1>4. ASSUME UNCHANGED disk
      PROVE  UNCHANGED Default(disk)
  BY <1>1, <1>4
<1>5. ASSUME NEW ok \in BOOLEAN, UpdateCardStateByType(ok) \/ SetFlag(ok)
      PROVE  UNCHANGED disk
  <2>1. stack # <<>>
    BY <1>0, <1>5, StackInCall DEF UpdateCardStateByType, SetFlag, InCall
  <2> QED
    BY <1>5, <2>1, Zenon DEF UpdateCardStateByType, SetFlag, Execute
<1>6. ASSUME NEW ok \in BOOLEAN, Commit(ok)
      PROVE  Register!Next \/ UNCHANGED Default(disk)
  <2>1. CASE UNCHANGED disk
    BY <1>4, <2>1
  <2>2. CASE Len(stack) = 1 /\ disk' = view
    <3>1. InCall /\ Own = 1 /\ type \in Types
      BY <1>0, <1>6 DEF Commit, InCall, Own, CallProgress
    <3>2. ~leaked
      BY <1>0, <2>2, <3>1 DEF OpenTransactions, Own
    <3>3. \A t \in Types : t # type => disk'.flags[t] = disk.flags[t]
      BY <1>0, <2>2, <3>1, <3>2 DEF OpenTransactions
    <3>4. Default(disk') = [Default(disk) EXCEPT ![type] = Default(disk')[type]]
      BY <1>00, <3>1, <3>3, CommitSets
    <3>5. Default(disk')[type] \in Cards \union {NoCard}
      BY <1>00, <3>1, DefaultValue
    <3>6. Default(disk)' = Default(disk')
      BY DEF Default
    <3>7. Register!Set(type, Default(disk')[type])
      BY <3>4, <3>6 DEF Register!Set
    <3> QED
      BY <3>1, <3>5, <3>7 DEF Register!Next
  <2> QED
    BY <1>6, <2>1, <2>2, Zenon DEF Commit
<1> QED
  BY <1>2, <1>3, <1>4, <1>5, <1>6, Zenon
     DEF Next, SetCard, BeginTransaction, RollBack, Crash, vars

(* SET_CARD implements the register of default cards: whatever fails, on   *)
(* disk one kind changes at a time, from one complete value to the next.   *)
THEOREM RegisterRefinement == Spec => RegisterSpec
<1>1. Init => Register!Init
  <2> SUFFICES ASSUME Init
               PROVE  Default(disk) \in [Types -> Cards \union {NoCard}]
    BY DEF Register!Init
  <2>1. disk \in Tables /\ Unique(disk)
    BY IInvInit DEF IInv, CardInv, TypeOK, AtMostOneDefault
  <2> QED
    BY <2>1, DefaultTyped
<1> QED
  BY <1>1, AlwaysIInv, RegisterStep, PTL DEF Spec, RegisterSpec, Register!Spec
=============================================================================
