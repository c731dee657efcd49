---------------------------- MODULE SchemaSteps ----------------------------
(***************************************************************************)
(* What the callbacks of the message, SIM and APN stores write into a      *)
(* database: the statements that create one and those of every version     *)
(* step.  A schema is a set of objects <<kind, name>>; a column is an      *)
(* object of its table.  Columns that every release has are left out, and  *)
(* so are types and defaults.                                              *)
(***************************************************************************)
EXTENDS Integers, Sequences

Sms == "sms_mms_info"
Rcs == "rcs_info"
Part == "mms_part"
Session == "session"
Fav == "favorate_info"
Sim == "sim_info"
Pdp == "pdp_profile"

Table(t) == <<"table", t>>
View == <<"view", "mms_info">>
Trigger(n) == <<"trigger", n>>
Index(n) == <<"index", n>>
Columns(t, names) == {t} \X names

(* A statement removes objects or makes some; `unless' are objects whose   *)
(* presence turns it into nothing (IF NOT EXISTS), `on' those it needs.    *)
Statement(drop, make, unless, on) == [drop |-> drop, make |-> make, unless |-> unless, on |-> on]
AddColumn(t, name) == Statement({}, {<<t, name>>}, {}, {Table(t)})
CreateTable(t, names) == Statement({}, {Table(t)} \union Columns(t, names), {Table(t)}, {})
CreateView(names) == Statement({}, {View} \union Columns("mms_info", names), {View}, {})
CreateTrigger(n, t) == Statement({}, {Trigger(n)}, {}, {Table(t)})
CreateIndex(n, on) == Statement({}, {Index(n)}, {}, on)
Drop(objects) == Statement(objects, {}, {}, {})

(* The schema after the statements of a set, given in any order: in the    *)
(* code drops come first and triggers, indexes and columns after the       *)
(* tables they need.                                                       *)
Left(schema, stmts) == schema \ UNION {s.drop : s \in stmts}
Able(schema, stmts) == {s \in stmts : s.unless \intersect Left(schema, stmts) = {}}
Ground(schema, stmts) ==
  Left(schema, stmts) \union UNION {s.make : s \in {t \in Able(schema, stmts) : t.on = {}}}
Effective(schema, stmts) == {s \in Able(schema, stmts) : s.on \subseteq Ground(schema, stmts)}
Executed(schema, stmts) ==
  Left(schema, stmts) \union UNION {s.make : s \in Effective(schema, stmts)}

(* What statements that report an error would have made.                   *)
Refused(schema, stmts) ==
  UNION {s.make : s \in {t \in stmts : ~(t.on \subseteq Ground(schema, stmts))}}

-----------------------------------------------------------------------------
(* The view, as RdbSmsMmsCallback creates it.                              *)
UpgradedView ==
  {"rcs_id", "receive_state", "fail_receive_context", "is_advanced_security", "expires_time",
   "mms_pdu", "is_blocked", "blocked_reason", "blocked_sources", "blocked_type",
   "blocked_type_text", "blocked_pref_number", "clur_size", "total_size", "risk_url_body",
   "has_be_reported_as_spam", "is_report", "detect_res_content", "phone_number",
   "format_phone_number", "msg_code_str"}
DropView == Drop({View} \union Columns("mms_info", UpgradedView))
RenewView == <<DropView, CreateView(UpgradedView)>>

InsertTriggers == {Trigger("insertSms_unread_count"), Trigger("insertRcs_unread_count")}
BlockTriggers == {Trigger("updateBlockSms_unread_count"), Trigger("updateBlockRcs_unread_count")}
OldTriggers == {Trigger("updateSms_unread_count"), Trigger("updateRcs_unread_count")}

InsertSmsTrigger == CreateTrigger("insertSms_unread_count", Sms)
InsertRcsTrigger == CreateTrigger("insertRcs_unread_count", Rcs)
UpdateBlockSmsTrigger == CreateTrigger("updateBlockSms_unread_count", Sms)
UpdateBlockRcsTrigger == CreateTrigger("updateBlockRcs_unread_count", Rcs)

RcsIndex == CreateIndex("rcs_info_sessionId_IDX", {Table(Rcs), <<Rcs, "is_blocked">>})
SmsIndex == CreateIndex("sms_mms_info_sessionId_IDX", {Table(Sms), <<Sms, "is_blocked">>})
SessionIndex == CreateIndex("session_time_IDX", {Table(Session)})
Indexes == RcsIndex.make \union SmsIndex.make \union SessionIndex.make
RenewIndexes ==
  <<Drop(RcsIndex.make), RcsIndex, Drop(SmsIndex.make), SmsIndex, Drop(SessionIndex.make), SessionIndex>>

(* The callback's own statements for tables RdbSmsMmsTables creates too.   *)
CreateRiskUrlRecordTable == CreateTable("risk_url_record", {})
CreateTableChatBotsInfo == CreateTable("chatbots", {})
CreateTableSpecificChatBotsInfo == CreateTable("specific_chatbots", {})
CreateTableSmcInfo == CreateTable("smc", {})

CreateRcsInfoTableForcely ==
  <<CreateTable(Rcs, {"msg_id", "is_advanced_security", "is_collect", "receive_state", "fail_receive_context"})>>

-----------------------------------------------------------------------------
(* The statements of each version step of the messages.                    *)
AddColumns(t, names) == [i \in DOMAIN names |-> AddColumn(t, names[i])]
Two == AddColumns(Sms, <<"is_advanced_security">>) \o AddColumns(Rcs, <<"is_advanced_security">>)
Three == AddColumns(Session, <<"contact_id", "contact_name">>)
Four ==
  AddColumns(Rcs, <<"is_collect", "receive_state", "fail_receive_context">>)
    \o AddColumns(Sms, <<"expires_time", "mms_pdu">>)
Seven == <<CreateView(UpgradedView)>>
Blocked == <<"is_blocked", "blocked_reason", "blocked_sources", "blocked_type", "blocked_type_text">>
Eight ==
  AddColumns(Sms, <<"is_blocked">> \o Blocked) \o AddColumns(Rcs, Blocked) \o RenewView
Nine ==
  AddColumns(Part, <<"rcs_id">>) \o AddColumns(Rcs, <<"clur_size", "total_size">>) \o RenewView
Ten ==
  AddColumns(Sms, <<"risk_url_body", "has_be_reported_as_spam">>)
    \o AddColumns(Rcs, <<"risk_url_body", "has_be_reported_as_spam">>)
    \o RenewView \o <<CreateRiskUrlRecordTable>>
Eleven == AddColumns(Sms, <<"is_report">>) \o AddColumns(Rcs, <<"is_report">>) \o RenewView
Twelve == AddColumns(Sms, <<"rcs_id">>) \o RenewView
Thirteen == RenewView
Fourteen ==
  AddColumns(Sms, <<"detect_res_content">>) \o AddColumns(Rcs, <<"detect_res_content">>) \o RenewView
Fifteen == RenewView
Numbers == <<"phone_number", "format_phone_number">>
UpTo16 == AddColumns(Sms, Numbers) \o AddColumns(Rcs, Numbers) \o RenewView
Seventeen ==
  AddColumns(Sms, <<"msg_code_str">>) \o AddColumns(Session, <<"yellow_page_id">>) \o RenewView
UpTo18 ==
  <<Drop(InsertSmsTrigger.make), InsertSmsTrigger, Drop(InsertRcsTrigger.make), InsertRcsTrigger>>
UpTo19 == AddColumns(Part, <<"ct">>)
UpTo20 ==
  <<Drop(UpdateBlockSmsTrigger.make), UpdateBlockSmsTrigger,
    Drop(UpdateBlockRcsTrigger.make), UpdateBlockRcsTrigger>>
UpTo21 ==
  AddColumns(Sms, <<"blocked_pref_number">>) \o AddColumns(Rcs, <<"blocked_pref_number">>) \o RenewView
UpTo22 == RenewIndexes
CreateFavorites == <<CreateTable(Fav, {})>>
UpTo24 == <<CreateTableSpecificChatBotsInfo, CreateTableChatBotsInfo>>
UpTo25 == <<CreateTableSmcInfo>>
UpTo27 == AddColumns(Rcs, <<"msg_id">>) \o RenewView
UpTo28 == AddColumns(Session, <<"blocked_type">>)
UpTo29 == AddColumns(Part, <<"is_fraud">>)
UpTo30 ==
  AddColumns(Sms, <<"blocked_pref_number">>) \o AddColumns(Rcs, <<"blocked_pref_number">>) \o RenewView
UpTo31 == <<>>
UpTo32 == AddColumns(Session, <<"pinning_time">>)
UpTo33 ==
  <<Drop({Trigger("updateSms_unread_count")}), Drop({Trigger("updateRcs_unread_count")})>>
UpTo34 == CreateFavorites
UpTo35 == AddColumns(Part, <<"reference_count">>)

SmsSteps ==
  <<(* 1 *) <<>>, Two, Three, Four, (* 5, 6 *) <<>>, <<>>, Seven, Eight, Nine, Ten,
    Eleven, Twelve, Thirteen, Fourteen, Fifteen, UpTo16, Seventeen, UpTo18, UpTo19, UpTo20,
    UpTo21, UpTo22, (* 23 *) CreateFavorites, UpTo24, UpTo25, (* 26 *) <<>>, UpTo27, UpTo28, UpTo29, UpTo30,
    UpTo31, UpTo32, UpTo33, UpTo34, UpTo35>>

-----------------------------------------------------------------------------
(* The statements of RdbSmsMmsTables, which create the store.              *)
SmsMmsInfo == CreateTable(Sms,
  {"is_advanced_security", "expires_time", "mms_pdu", "is_blocked", "blocked_reason",
   "blocked_sources", "blocked_type", "blocked_type_text", "blocked_pref_number",
   "risk_url_body", "has_be_reported_as_spam", "is_report", "rcs_id", "detect_res_content",
   "phone_number", "format_phone_number", "msg_code_str"})
RcsInfo == CreateTable(Rcs,
  {"msg_id", "is_advanced_security", "is_collect", "receive_state", "fail_receive_context",
   "is_blocked", "blocked_reason", "blocked_sources", "blocked_type", "blocked_type_text",
   "blocked_pref_number", "clur_size", "total_size", "risk_url_body",
   "has_be_reported_as_spam", "is_report", "detect_res_content", "phone_number",
   "format_phone_number"})
MmsProtocol == CreateTable("mms_protocol", {})
SmsSubsection == CreateTable("sms_subsection", {})
MmsPart == CreateTable(Part, {"ct", "rcs_id", "is_fraud", "reference_count"})
SessionTable == CreateTable(Session,
  {"contact_id", "contact_name", "yellow_page_id", "blocked_type", "pinning_time"})
MmsPdu == CreateTable("mms_pdu", {})
RiskUrlRecord == CreateTable("risk_url_record", {})
InsertSms == CreateTrigger("insertSms_unread_count", Sms)
InsertRcs == CreateTrigger("insertRcs_unread_count", Rcs)
UpdateBlockSms == CreateTrigger("updateBlockSms_unread_count", Sms)
UpdateBlockRcs == CreateTrigger("updateBlockRcs_unread_count", Rcs)
ChatBots == CreateTable("chatbots", {})
SpecificChatBots == CreateTable("specific_chatbots", {})
Smc == CreateTable("smc", {})
ViewOfAnOlderRelease == CreateView(UpgradedView \ {"msg_code_str"})
MmsInfoView == CreateView(
  {"rcs_id", "receive_state", "fail_receive_context", "is_advanced_security", "expires_time",
   "mms_pdu", "is_blocked", "blocked_reason", "blocked_sources", "blocked_type",
   "blocked_type_text", "blocked_pref_number", "clur_size", "total_size", "risk_url_body",
   "has_be_reported_as_spam", "is_report", "detect_res_content", "phone_number",
   "format_phone_number", "msg_code_str"})
InitCreateTableIndex ==
  RenewIndexes \o CreateFavorites
    \o <<ChatBots, SpecificChatBots, Smc>>
InitCreateTableVec ==
  <<SmsMmsInfo, MmsProtocol, RcsInfo, SmsSubsection, MmsPart, SessionTable, MmsPdu, RiskUrlRecord,
    MmsInfoView, InsertSms, InsertRcs, UpdateBlockSms, UpdateBlockRcs>>
    \o InitCreateTableIndex

(* The tables IsDbComplete counts.                                         *)
CountedTables ==
  {Table(t) : t \in {Sms, "sms_subsection", Rcs, "mms_pdu", Part, Session,
                     "specific_chatbots", Fav, "chatbots"}}

(* The columns OnOpen adds where they are missing, in two parts, because   *)
(* the first two also renew the view.                                      *)
ViewFields == <<AddColumn(Sms, "blocked_pref_number"), AddColumn(Rcs, "blocked_pref_number")>>
OtherFields ==
  <<AddColumn(Session, "blocked_type"), AddColumn(Part, "is_fraud"),
    AddColumn(Part, "reference_count"), AddColumn(Session, "pinning_time")>>

-----------------------------------------------------------------------------
(* The SIM and APN stores.                                                 *)
SimTwo == <<Drop({<<Sim, "is_active">>}), AddColumn(Sim, "is_active")>>
SimThree == AddColumns(Sim, <<"opkey", "mcc", "mnc">>)
SimFour == AddColumns(Sim, <<"is_esim", "sim_label_index", "operator_name">>)
UpgradeToV5 ==
  AddColumns(Sim, <<"phy_card", "lsi", "mnc_len", "efust", "gid1", "gid2", "spn", "ehplmn">>)
SimTable == CreateTable(Sim,
  {"is_active", "opkey", "mcc", "mnc", "is_esim", "sim_label_index", "operator_name",
   "phy_card", "lsi", "mnc_len", "efust", "gid1", "gid2", "spn", "ehplmn"})

PdpTwo == AddColumns(Pdp, <<"mvno_type", "mvno_match_data">>)
PdpThree == AddColumns(Pdp, <<"edited_status", "server">>)
PdpFour == AddColumns(Pdp, <<"opkey">>)
PdpTable == CreateTable(Pdp, {"mvno_type", "mvno_match_data", "edited_status", "server", "opkey"})
PseTable == CreateTable("pse_base_station", {})
PseTrigger == CreateTrigger("pse_trigger", "pse_base_station")

Stores == {"sms_mms", "sim", "pdp_profile"}
Steps ==
  [s \in Stores |->
     CASE s = "sms_mms" -> SmsSteps
       [] s = "sim" -> <<<<>>, SimTwo, SimThree, SimFour, UpgradeToV5>>
       [] s = "pdp_profile" -> <<<<>>, PdpTwo, PdpThree, PdpFour>>]
Creation ==
  [s \in Stores |->
     CASE s = "sms_mms" -> InitCreateTableVec
       [] s = "sim" -> <<SimTable>>
       [] s = "pdp_profile" -> <<PdpTable, PseTable, PseTrigger>>]
VERSION == [s \in Stores |-> CASE s = "sms_mms" -> 35 [] s = "sim" -> 5 [] s = "pdp_profile" -> 4]

(* What statements make; the schema of the present release, and of the     *)
(* release whose version is v.  The view of a release has the columns its  *)
(* tables have, and releases 18 to 32 had two more triggers.               *)
Made(stmts) == UNION {stmts[i].make : i \in DOMAIN stmts}
Schema(s) == Executed({}, {Creation[s][i] : i \in DOMAIN Creation[s]})
Release(s, v) ==
  LET first  == CASE s = "sms_mms" ->
                       {Table(t) : t \in {Sms, "mms_protocol", Rcs, "sms_subsection", Part, Session, "mms_pdu"}}
                  [] s = "sim" -> {Table(Sim), <<Sim, "is_active">>}
                  [] s = "pdp_profile" -> {Table(Pdp), Table("pse_base_station"), Trigger("pse_trigger")}
      stepped == first \union UNION {Made(Steps[s][p]) : p \in 1..v}
      seen    == {o \in stepped : o[1] = "mms_info" => \E t \in {Sms, Rcs} : <<t, o[2]>> \in stepped}
  IN seen \union (IF s = "sms_mms" /\ v \in 18..32 THEN OldTriggers ELSE {})
=============================================================================
