---------------------------- MODULE ApnPassword ----------------------------
(***************************************************************************)
(* The passwords of APN profiles.  The rows of a file hold them in the     *)
(* clear and have edited = 0; what a client inserts or updates is sealed   *)
(* with a key of the key store and kept as a blob.  A query opens, in the  *)
(* rows whose edited is not 0, whatever auth_pwd is; when it has opened    *)
(* one it hands out a rewritten result, and the writer of its rows stops   *)
(* at a NULL cell.  Inserts, updates and deletes hold lock_.               *)
(***************************************************************************)
EXTENDS Naturals

CONSTANTS
  Rows,         (* Profiles of the table.                                  *)
  Pwds,         (* Passwords.                                              *)
  LongPwds,     (* Those whose sealed form exceeds AES_COMMON_SIZE.        *)
  NoPwd,        (* The empty password.                                     *)
  MaxKeys,      (* Bound: keys generated.                                  *)
  MaxKeyFaults  (* Bound: calls of the key store that fail.                *)

ASSUME PasswordAssumption ==
  /\ LongPwds \subseteq Pwds /\ NoPwd \notin Pwds
  /\ MaxKeys \in Nat /\ MaxKeyFaults \in Nat

(* A value of auth_pwd: a text, or what was sealed with a key.             *)
Text(p) == [form |-> "text", pwd |-> p, key |-> 0]
NoBlob == [form |-> "blob", pwd |-> NoPwd, key |-> 0]
Texts == [form : {"text"}, pwd : Pwds \union {NoPwd}, key : {0}]
Blobs == [form : {"blob"}, pwd : Pwds, key : 1..MaxKeys]
Values == Texts \union Blobs \union {NoBlob}

VARIABLES
  there,        (* The profiles in the table.                              *)
  edited,       (* Those whose edited is not 0.                            *)
  typed,        (* Those whose auth_type is not NULL: it has no default.   *)
  auth_pwd,     (* Their passwords.                                        *)
  key,          (* The key under APN_PWD_KEY_ALIAS; 0 is none.             *)
  keys,         (* How many were generated.                                *)
  chosen,       (* History: the password last given for each row.          *)
  fromFile,     (* History: rows whose password came from a file.          *)
  spoiled,      (* History: rows whose password was given up.              *)
  keyFaults

table    == <<there, edited, typed, auth_pwd>>
keystore == <<key, keys, keyFaults>>
history  == <<chosen, fromFile, spoiled>>
passwordVars     == <<table, keystore, history>>

Faults(n) == keyFaults + n <= MaxKeyFaults /\ keyFaults' = keyFaults + n

With(S, r, is) == IF is THEN S \union {r} ELSE S \ {r}

PasswordInit ==
  /\ there = {} /\ edited = {} /\ typed = {}
  /\ auth_pwd = [r \in Rows |-> Text(NoPwd)]
  /\ key = 0 /\ keys = 0
  /\ chosen = [r \in Rows |-> NoPwd]
  /\ fromFile = {} /\ spoiled = {}
  /\ keyFaults = 0

-----------------------------------------------------------------------------
(* HksGenerateKey: the new key takes the place of one under the alias.     *)
GenerateKey == keys < MaxKeys /\ keys' = keys + 1 /\ key' = keys + 1
KeepKey == UNCHANGED <<key, keys>>

(* Variants with a plausible mistake, to show that the properties can tell.*)
SealedBefore(p, k) == [form |-> "blob", pwd |-> p, key |-> k - 1]
GeneratesAlways(n) == GenerateKey /\ n = 0
LongInClear(p, k) == IF p \in LongPwds THEN Text(p)
                     ELSE [form |-> "blob", pwd |-> p, key |-> k]

(* AesCbcPkcs7EncryptInner.  A result that does not fit is an error, and   *)
(* EncryptData answers every error with an empty vector.                   *)
Sealed(p, k) == [form |-> "blob", pwd |-> p, key |-> k]
Fitting(p, k) == IF p \in LongPwds THEN NoBlob ELSE Sealed(p, k)

(* AesCbcPkcs7Encrypt: anything but success from HksKeyExist, an error     *)
(* too, leads to a new key.  n counts the failures.                        *)
KeyReady(n) ==
  \/ key # 0 /\ KeepKey /\ n = 0
  \/ key = 0 /\ GenerateKey /\ n = 0
  \/ key # 0 /\ GenerateKey /\ n = 1

EncryptData(r, p) ==
  \/ \E n \in {0, 1} :
       /\ KeyReady(n)
       /\ \/ Faults(n) /\ auth_pwd' = [auth_pwd EXCEPT ![r] = Fitting(p, key')]
          \/ Faults(n + 1) /\ auth_pwd' = [auth_pwd EXCEPT ![r] = NoBlob]
  \/ KeepKey /\ Faults(1) /\ auth_pwd' = [auth_pwd EXCEPT ![r] = NoBlob]

(* A variant: an empty password leaves the old one.                        *)
KeepsOnEmpty(r, p) ==
  IF p = NoPwd THEN UNCHANGED auth_pwd /\ KeepKey /\ Faults(0) ELSE EncryptData(r, p)

(* NeedUpdateValuesBucket: an empty password stays the empty text.         *)
NeedUpdateValuesBucket(r, p) ==
  IF p = NoPwd
  THEN auth_pwd' = [auth_pwd EXCEPT ![r] = Text(NoPwd)] /\ KeepKey /\ Faults(0)
  ELSE EncryptData(r, p)

(* History: a password is given up when sealing it fails or it is too      *)
(* long, when a failing key store replaces the key, and when edited does   *)
(* not agree with where it came from, since queries go by that.            *)
Replaced ==
  IF keyFaults' # keyFaults /\ key' # key THEN {q \in there : auth_pwd[q].form = "blob"} ELSE {}

GivenUp(r, p) ==
  LET failed == auth_pwd'[r] = NoBlob /\ (keyFaults' # keyFaults \/ p \in LongPwds) IN
  spoiled' = With(spoiled \union Replaced, r, p # NoPwd /\ (failed \/ r \notin edited'))

Give(r, p) ==
  /\ NeedUpdateValuesBucket(r, p)
  /\ chosen' = [chosen EXCEPT ![r] = p]
  /\ fromFile' = fromFile \ {r}
  /\ GivenUp(r, p)

-----------------------------------------------------------------------------
(* A row of an operator's file, as it is.                                  *)
LoadProfile(r, p) ==
  /\ r \notin there
  /\ there' = there \union {r} /\ edited' = edited \ {r} /\ typed' = typed \union {r}
  /\ auth_pwd' = [auth_pwd EXCEPT ![r] = Text(p)]
  /\ chosen' = [chosen EXCEPT ![r] = p]
  /\ fromFile' = fromFile \union {r} /\ spoiled' = spoiled \ {r}
  /\ UNCHANGED keystore

InsertPassword(r, p, isEdited, isTyped) ==
  /\ r \notin there
  /\ there' = there \union {r}
  /\ edited' = With(edited, r, isEdited) /\ typed' = With(typed, r, isTyped)
  /\ Give(r, p)

(* An update with a password, and one without.  One of several rows stores *)
(* the same in each.                                                       *)
UpdatePassword(r, p, isEdited) ==
  /\ r \in there
  /\ edited' = With(edited, r, isEdited)
  /\ Give(r, p)
  /\ UNCHANGED <<there, typed>>

UpdateOther(r, isEdited) ==
  /\ r \in there
  /\ edited' = With(edited, r, isEdited)
  /\ spoiled' = IF chosen[r] # NoPwd /\ (r \in fromFile) = isEdited
                THEN spoiled \union {r} ELSE spoiled
  /\ UNCHANGED <<there, typed, auth_pwd, keystore, chosen, fromFile>>

(* The statement of an insert or update fails after the key was made ready.*)
Refused ==
  /\ \E n \in {0, 1} : KeyReady(n) /\ Faults(n + 1)
  /\ spoiled' = spoiled \union Replaced
  /\ UNCHANGED <<table, chosen, fromFile>>

Delete(r) ==
  /\ r \in there
  /\ there' = there \ {r}
  /\ UNCHANGED <<edited, typed, auth_pwd, keystore, history>>

PasswordNext ==
  \E r \in Rows :
    \/ \E p \in Pwds \union {NoPwd}, isEdited \in BOOLEAN :
         \/ UpdatePassword(r, p, isEdited)
         \/ \E isTyped \in BOOLEAN : InsertPassword(r, p, isEdited, isTyped)
    \/ \E p \in Pwds \union {NoPwd} : LoadProfile(r, p)
    \/ \E isEdited \in BOOLEAN : UpdateOther(r, isEdited)
    \/ Refused \/ Delete(r)

PasswordSpec == PasswordInit /\ [][PasswordNext]_passwordVars

-----------------------------------------------------------------------------
(* AesCbcPkcs7Decrypt: only what this key sealed can be opened; an error   *)
(* gives the empty string.                                                 *)
DecryptData(v) == IF v.form = "blob" /\ v.key = key THEN v.pwd ELSE NoPwd

(* NeedUpdatePdpSharedPtrResult: what is opened.                           *)
Opens(r) == r \in edited /\ auth_pwd[r].pwd # NoPwd

(* GetNativeData and OnGo: a rewritten row ends at its NULL, which comes   *)
(* before auth_pwd.                                                        *)
Cut(r) == r \notin typed /\ \E q \in there : Opens(q)

(* What a query for all rows with both columns shows as the password.      *)
Query(r) ==
  IF Cut(r) THEN "cut"
  ELSE IF Opens(r) THEN DecryptData(auth_pwd[r])
  ELSE IF auth_pwd[r].form = "text" \/ auth_pwd[r] = NoBlob THEN auth_pwd[r].pwd
  ELSE "sealed"

PasswordTypeOK ==
  /\ there \in SUBSET Rows /\ edited \in SUBSET Rows /\ typed \in SUBSET Rows
  /\ auth_pwd \in [Rows -> Values]
  /\ keys \in 0..MaxKeys /\ key \in 0..keys
  /\ chosen \in [Rows -> Pwds \union {NoPwd}]
  /\ fromFile \in SUBSET Rows /\ spoiled \in SUBSET Rows
  /\ keyFaults \in 0..MaxKeyFaults

(* A client reads back the password it gave, or that of the file, however  *)
(* rows were inserted, updated and deleted around it.  Not for a row whose *)
(* password was given up, and not for one without auth_type.               *)
PasswordReadBack ==
  \A r \in there : r \in spoiled \/ r \notin typed \/ Query(r) = chosen[r]

(* Whatever fails: a row shows its password, none, or what cannot be read, *)
(* never one it had before or one of another row.                          *)
NeverAnother == \A r \in there : Query(r) \in {chosen[r], NoPwd, "sealed", "cut"}

(* A password a client gave is in the table sealed or not at all.          *)
NoPasswordInClear ==
  \A r \in there \ fromFile : auth_pwd[r].form = "text" => auth_pwd[r].pwd = NoPwd

=============================================================================
