-------------------------- MODULE MCSchemaUpgrade --------------------------
(* Constants for checking SchemaUpgrade with TLC.                          *)
EXTENDS SchemaUpgrade

CONSTANTS sms, rcs, orphan, new

(* No file, the first release, those before the steps with data, the       *)
(* present and a later one; and upgrades that died behind such a step.     *)
Found0 ==
  {<<"sms_mms", v, v>> : v \in {0, 1, 11, 22, 33, 35, 36}}
    \union {<<"sms_mms", 11, 12>>, <<"sms_mms", 22, 23>>}
    \union {<<s, v, v>> : s \in {"sim", "pdp_profile"}, v \in {0, 1}}
=============================================================================
