------------------------ MODULE DefaultCardRegister ------------------------
(***************************************************************************)
(* What SET_CARD promises of the stored defaults: each kind of use (main,  *)
(* voice, message, cellular data) has one default card or none, and only   *)
(* one kind changes at a time, from one complete value to the next.        *)
(***************************************************************************)
CONSTANTS Cards, Types, NoCard

VARIABLE default

Init == default \in [Types -> Cards \union {NoCard}]

Set(t, c) == default' = [default EXCEPT ![t] = c]

(* A card that is removed stops being the default of anything.             *)
Remove(c) == default' = [t \in Types |-> IF default[t] = c THEN NoCard ELSE default[t]]

Next ==
  \/ \E t \in Types, c \in Cards \union {NoCard} : Set(t, c)
  \/ \E c \in Cards : Remove(c)

Spec == Init /\ [][Next]_default
=============================================================================
