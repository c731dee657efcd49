----------------------------- MODULE MCNextCopy -----------------------------
(* A short number, a telephone with and without its country code,    *)
(* sessions with drafts on either side, and messages of one sending.       *)
EXTENDS NextCopy, TLC

CONSTANTS a, ax, b

MCLastDigits == (a :> 1) @@ (ax :> 1) @@ (b :> NoTail)
MCNow == 20

S(tel, time, draft, pin, unread) ==
  [tel |-> tel, time |-> time, draft |-> draft, pin |-> pin, sending |-> "ok",
   unread |-> unread, count |-> 1]

M(sess, num, in, time, group, state) ==
  [sess |-> sess, num |-> num, in |-> in, time |-> time, rich |-> FALSE, rcs |-> NoRcs,
   group |-> group, state |-> state, read |-> ~in]

Rich(m, r) == [m EXCEPT !.rich = TRUE, !.rcs = r]

R(sess, num, in, time, group) ==
  [sess |-> sess, num |-> num, in |-> in, time |-> time, group |-> group, read |-> FALSE]

(* An RCS message and an RCS row in no message, one message to two         *)
(* receivers, a message stuck in sending that has their time by chance,    *)
(* and a draft of another time in its group.  The counter of ax is out of  *)
(* date, as deleting messages leaves it.                                   *)
Backup ==
  [session |-> <<S(a, 5, FALSE, 0, 1), S(ax, 4, FALSE, 2, 1), S(b, 6, TRUE, 0, 1)>>,
   msg |-> <<Rich(M(1, a, TRUE, 3, 3, "ok"), 1),
             M(2, ax, FALSE, 4, 4, "ok"), M(3, b, FALSE, 4, 4, "ok"),
             M(3, b, FALSE, 5, 6, "draft"), M(3, b, TRUE, 4, 6, "sending")>>,
   rcs |-> <<R(1, a, TRUE, 3, 3), R(3, b, FALSE, 2, 2)>>]

(* Drafts of a telephone that has a session with its country code as well. *)
BackupOfDrafts ==
  [session |-> <<S(a, 5, TRUE, 0, 0), S(ax, 4, FALSE, 0, 0)>>,
   msg |-> <<M(1, a, FALSE, 5, 5, "draft")>>, rcs |-> <<>>]

Empty == [session |-> <<>>, msg |-> <<>>, rcs |-> <<>>]

(* A later draft, and one message of the backup in a group of its own.     *)
Used ==
  [session |-> <<S(ax, 3, FALSE, 0, 1), S(b, 2, TRUE, 0, 0)>>,
   msg |-> <<M(2, b, FALSE, 7, 3, "draft"), M(1, a, TRUE, 3, 4, "ok"),
             Rich(M(1, ax, TRUE, 1, 6, "ok"), 1)>>,
   rcs |-> <<R(1, ax, TRUE, 1, 6)>>]

UsedWithDraft ==
  [session |-> <<S(ax, 3, TRUE, 0, 0)>>, msg |-> <<M(1, ax, FALSE, 7, 3, "draft")>>,
   rcs |-> <<>>]

MCOldDbs == {Backup}
MCNewDbs == {Empty, Used}
MCDraftOldDbs == {BackupOfDrafts}
MCDraftNewDbs == {UsedWithDraft}
=============================================================================
