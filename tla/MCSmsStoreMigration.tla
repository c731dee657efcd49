------------------------ MODULE MCSmsStoreMigration ------------------------
(* Small instances of SmsStoreMigration for TLC.                           *)
EXTENDS SmsStoreMigration
=============================================================================
