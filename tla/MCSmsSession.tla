---------------------------- MODULE MCSmsSession ----------------------------
(* Constants for checking SmsSession with TLC.                             *)
EXTENDS SmsSession

CONSTANTS m1, m2, p1, p2

(* Every part belongs to the message of its number.                        *)
PartOwner == [p \in Parts |-> IF p = p1 THEN m1 ELSE m2]
=============================================================================
