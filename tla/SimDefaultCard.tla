--------------------------- MODULE SimDefaultCard ---------------------------
(***************************************************************************)
(* The default cards of sim_info: SimAbility's SET_CARD clears the flag of *)
(* a kind on every row and sets it on one, in a transaction of the store's *)
(* only connection.  Calls hold lock_, so one runs at a time, but any      *)
(* statement may fail, a call that returns early leaves its transaction    *)
(* open, and the process may die after any statement.                      *)
(***************************************************************************)
EXTENDS Naturals, Sequences

CONSTANTS
  Cards,        (* Values of sim_id, never reused (AUTOINCREMENT).         *)
  Types,        (* The values of SimCardType.                              *)
  BadType,      (* A card type that is none of them.                       *)
  NoCard,
  MaxFaults,    (* Bound: operations of the store that fail.               *)
  MaxOpen       (* Bound: transactions left open when a call starts.       *)

ASSUME CardAssumption ==
  /\ BadType \notin Types
  /\ NoCard \notin Cards
  /\ MaxFaults \in Nat /\ MaxOpen \in Nat

(* sim_info: the ids ever given, those of its rows, and for each kind the  *)
(* rows with the flag set.                                                 *)
Tables == [given : SUBSET Cards, rows : SUBSET Cards, flags : [Types -> SUBSET Cards]]

Steps == {"idle", "begin", "reset", "set", "commit", "rollback"}

VARIABLES
  view,         (* sim_info as the connection sees it.                     *)
  disk,         (* sim_info as it will be found after a crash.             *)
  stack,        (* The open transactions: sim_info as each found it.       *)
  nests,        (* Whether the store lets transactions nest, else an error.*)
  step, simId, type,    (* The call of SetDefaultCardByType that runs.     *)
  stored,       (* History: this call's Update worked on an existing row.  *)
  reply,        (* The last answer of SetDefaultCardByType.                *)
  faults,
  leaked,       (* History: a call returned without ending its transaction.*)
  acked         (* History: for each kind the card last confirmed before   *)
                (* that, if any.                                           *)

call == <<step, simId, type, stored>>
vars == <<view, disk, stack, nests, call, reply, faults, acked, leaked>>

Fault == faults < MaxFaults /\ faults' = faults + 1
NoFault == UNCHANGED faults

Init ==
  /\ view = [given |-> {}, rows |-> {}, flags |-> [t \in Types |-> {}]]
  /\ disk = view
  /\ stack = <<>>
  /\ nests \in BOOLEAN
  /\ step = "idle" /\ simId = NoCard /\ type = BadType /\ stored = FALSE
  /\ reply = [ok |-> FALSE, card |-> NoCard, type |-> BadType]
  /\ faults = 0
  /\ acked = [t \in Types |-> NoCard]
  /\ leaked = FALSE

(* Variants with a plausible mistake, for comparison: statements outside   *)
(* the transaction, flags not cleared or cleared to a value, and the flags *)
(* of every kind set.                                                      *)
AutoCommit(tbl) == view' = tbl /\ disk' = tbl
NotCleared(tbl, t) == tbl
ClearedToValue(tbl, t) == [tbl EXCEPT !.flags[t] = {NoCard}]
EveryKind(tbl, t, c) == [tbl EXCEPT !.flags = [u \in Types |-> {c} \intersect tbl.rows]]

(* A statement takes effect at once unless a transaction is open.          *)
Execute(tbl) == view' = tbl /\ disk' = IF stack = <<>> THEN tbl ELSE disk

Return(ok) ==
  /\ step' = "idle" /\ simId' = NoCard /\ type' = BadType /\ stored' = FALSE
  /\ reply' = [ok |-> ok, card |-> simId, type |-> type]

-----------------------------------------------------------------------------
(* Insert and Delete of SimAbility; clients set the flags with SET_CARD.   *)
InsertCard(c) ==
  /\ step = "idle" /\ c \notin view.given
  /\ Execute([view EXCEPT !.given = @ \union {c}, !.rows = @ \union {c}])
  /\ UNCHANGED <<stack, nests, call, reply, faults, acked, leaked>>

Removed(tbl, c) ==
  [tbl EXCEPT !.rows = @ \ {c}, !.flags = [t \in Types |-> tbl.flags[t] \ {c}]]

DeleteCard(c) ==
  /\ step = "idle" /\ c \in view.rows
  /\ Execute(Removed(view, c))
  /\ acked' = [t \in Types |-> IF ~leaked /\ acked[t] = c THEN NoCard ELSE acked[t]]
  /\ UNCHANGED <<stack, nests, call, reply, faults, leaked>>

(* SetCard: any sim_id and card_type a client sends.                       *)
SetCard(c, t) ==
  /\ step = "idle" /\ Len(stack) <= MaxOpen
  /\ step' = "begin" /\ simId' = c /\ type' = t /\ stored' = FALSE
  /\ UNCHANGED <<view, disk, stack, nests, reply, faults, acked, leaked>>

Push == stack' = <<view>> \o stack

BeginTransaction(ok) ==
  LET possible == nests \/ stack = <<>> IN
  /\ step = "begin"
  /\ \/ /\ ok /\ possible /\ NoFault
        /\ Push
        /\ step' = "reset"
        /\ UNCHANGED <<simId, type, stored, reply>>
     \/ /\ ~ok /\ (IF possible THEN Fault ELSE NoFault)
        /\ Return(FALSE)
        /\ UNCHANGED stack
  /\ UNCHANGED <<view, disk, nests, acked, leaked>>

Cleared(tbl, t) == [tbl EXCEPT !.flags[t] = {}]

(* UpdateCardStateByType(type, 0, 1).  On an error, a wrong type among     *)
(* them, the call returns with its transaction open.                       *)
UpdateCardStateByType(ok) ==
  /\ step = "reset"
  /\ \/ /\ ok /\ type \in Types /\ NoFault
        /\ Execute(Cleared(view, type))
        /\ step' = "set"
        /\ UNCHANGED <<simId, type, stored, reply, leaked>>
     \/ /\ ~ok /\ (IF type \in Types THEN Fault ELSE NoFault)
        /\ Return(FALSE)
        /\ leaked' = TRUE
        /\ UNCHANGED <<view, disk>>
  /\ UNCHANGED <<stack, nests, acked>>

Flagged(tbl, t, c) ==
  [tbl EXCEPT !.flags[t] = @ \union ({c} \intersect tbl.rows)]

(* The second Update: an error is only logged, and so is finding no row.   *)
SetFlag(ok) ==
  /\ step = "set"
  /\ \/ ok /\ NoFault /\ Execute(Flagged(view, type, simId)) /\ stored' = (simId \in view.rows)
     \/ ~ok /\ Fault /\ UNCHANGED <<view, disk, stored>>
  /\ step' = "commit"
  /\ UNCHANGED <<stack, nests, simId, type, reply, acked, leaked>>

(* Only the outermost commit makes anything durable.                       *)
Commit(ok) ==
  /\ step = "commit"
  /\ \/ /\ ok /\ NoFault
        /\ stack' = Tail(stack)
        /\ disk' = IF Len(stack) = 1 THEN view ELSE disk
        /\ acked' = IF leaked THEN acked
                    ELSE [acked EXCEPT ![type] = IF stored THEN simId ELSE NoCard]
        /\ Return(TRUE)
     \/ /\ ~ok /\ Fault
        /\ step' = "rollback"
        /\ UNCHANGED <<stack, disk, acked, simId, type, stored, reply>>
  /\ UNCHANGED <<view, nests, leaked>>

(* RollBack's own result is ignored.                                       *)
RollBack(ok) ==
  /\ step = "rollback"
  /\ \/ /\ ok /\ NoFault
        /\ view' = Head(stack) /\ stack' = Tail(stack)
        /\ UNCHANGED leaked
     \/ /\ ~ok /\ Fault
        /\ leaked' = TRUE
        /\ UNCHANGED <<view, stack>>
  /\ Return(FALSE)
  /\ UNCHANGED <<disk, nests, acked>>

(* The process dies and starts again: what was not committed is lost.      *)
Crash ==
  /\ <<view, stack, step>> # <<disk, <<>>, "idle">>
  /\ view' = disk /\ stack' = <<>>
  /\ step' = "idle" /\ simId' = NoCard /\ type' = BadType /\ stored' = FALSE
  /\ leaked' = FALSE
  /\ UNCHANGED <<disk, nests, reply, faults, acked>>

Next ==
  \/ \E c \in Cards : InsertCard(c) \/ DeleteCard(c)
  \/ \E c \in Cards, t \in Types \union {BadType} : SetCard(c, t)
  \/ \E ok \in BOOLEAN :
       \/ BeginTransaction(ok) \/ UpdateCardStateByType(ok) \/ SetFlag(ok)
       \/ Commit(ok) \/ RollBack(ok)
  \/ Crash

Spec == Init /\ [][Next]_vars

-----------------------------------------------------------------------------
TypeOK ==
  /\ view \in Tables /\ disk \in Tables
  /\ stack \in Seq(Tables)
  /\ nests \in BOOLEAN
  /\ step \in Steps
  /\ simId \in Cards \union {NoCard}
  /\ type \in Types \union {BadType}
  /\ stored \in BOOLEAN
  /\ reply \in [ok : BOOLEAN, card : Cards \union {NoCard}, type : Types \union {BadType}]
  /\ faults \in 0..MaxFaults
  /\ leaked \in BOOLEAN
  /\ acked \in [Types -> Cards \union {NoCard}]

Unique(tbl) == \A t \in Types : \A a, b \in tbl.flags[t] : a = b

(* No kind of use ever has two default cards, neither as clients read it   *)
(* nor as a crash leaves it, whatever fails or stays open.                 *)
AtMostOneDefault == Unique(view) /\ Unique(disk)

(* A default that was confirmed is the default after any failure and crash *)
(* until it is replaced or its card deleted: clearing the old one and      *)
(* setting the new one are never separated on disk.                        *)
AckedDurable == \A t \in Types : acked[t] # NoCard => disk.flags[t] = {acked[t]}

(* The inductive invariant: the same uniqueness for every table a RollBack *)
(* can bring back, how many transactions are open, and how the call that   *)
(* runs relates what the connection sees to what is on disk.               *)
InCall == step \in {"reset", "set", "commit", "rollback"}
Own == IF InCall THEN 1 ELSE 0

UniqueStack == \A i \in DOMAIN stack : Unique(stack[i])

OpenTransactions ==
  /\ leaked => Len(stack) > Own
  /\ ~leaked => Len(stack) = Own
  /\ stack = <<>> => view = disk
  /\ ~leaked /\ InCall => /\ stack[1] = disk
                          /\ \A t \in Types : t # type => view.flags[t] = disk.flags[t]

CallProgress ==
  /\ step \in {"set", "commit", "rollback"} => type \in Types
  /\ step = "set" => view.flags[type] = {} /\ ~stored
  /\ step = "commit" /\ stored => view.flags[type] = {simId} /\ simId \in Cards
  /\ step \in {"begin", "reset"} => simId \in Cards /\ ~stored
  /\ step = "set" => simId \in Cards

CardInv == AtMostOneDefault /\ UniqueStack /\ OpenTransactions /\ CallProgress /\ AckedDurable

(* On disk the flags are the register of DefaultCardRegister.              *)
Value(cards) == IF cards = {} THEN NoCard ELSE CHOOSE c \in cards : TRUE
Default(tbl) == [t \in Types |-> Value(tbl.flags[t])]

Register == INSTANCE DefaultCardRegister WITH default <- Default(disk)
RegisterSpec == Register!Spec

=============================================================================
