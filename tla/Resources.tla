----------------------------- MODULE Resources ------------------------------
(***************************************************************************)
(* The methods of the typed resources (src/src/questblue/_resources.py),   *)
(* one row each, and the functions that read the replies (parse_..._       *)
(* response of account.py, lnp.py, servers.py and the modules like them).  *)
(***************************************************************************)

(* The readers.  A reply's body has a shape, maybe a "warning" member that *)
(* is a list of strings or not, maybe an "error" member, and is accepted   *)
(* by the response model of the method or not.                             *)

Bodies ==
  { b \in [ shape : {"empty", "text", "object"}, warning : {"absent", "list", "malformed"},
            error : BOOLEAN, accepted : BOOLEAN ] :
      /\ b.shape # "object" => b.warning = "absent" /\ ~b.error
      /\ b.shape = "text" => ~b.accepted }

\* What a reader makes of a body: a model or None, a WarningResponse, or an
\* exception.
Parsed == {"value", "WarningResponse", "ValidationError", "QuestBlueResponseError"}

\* WarningResponse.model_validate on a body with a "warning".
WarningOf(b) == IF b.warning = "list" THEN "WarningResponse" ELSE "ValidationError"

\* Most modules let pydantic's ValidationError out.
ModelResponse(b) ==
  IF b.warning # "absent" THEN WarningOf(b)
  ELSE IF b.accepted THEN "value" ELSE "ValidationError"

\* reports.py and servers.py turn it into a QuestBlueResponseError.
WrappedResponse(b) ==
  IF b.warning # "absent" THEN WarningOf(b)
  ELSE IF b.accepted THEN "value" ELSE "QuestBlueResponseError"

\* lnp.py also raises for a body that reports an error.
LNPResponse(b) ==
  IF b.warning = "absent" /\ b.error THEN "QuestBlueResponseError" ELSE WrappedResponse(b)

\* The methods that expect no body.
EmptyResponse(b) ==
  IF b.shape = "empty" THEN "value"
  ELSE IF b.warning # "absent" THEN WarningOf(b) ELSE "QuestBlueResponseError"

\* servers.py reads any other body as a WarningResponse, whose warnings have a
\* default: every object is one.
EmptyServerResponse(b) ==
  IF b.shape = "empty" THEN "value"
  ELSE IF b.warning # "absent" THEN WarningOf(b)
  ELSE IF b.shape = "object" THEN "WarningResponse" ELSE "QuestBlueResponseError"

\* And so does lnp.py, except for an error.
EmptyLNPResponse(b) ==
  IF b.warning = "absent" /\ b.error THEN "QuestBlueResponseError" ELSE EmptyServerResponse(b)

Read(reader, b) ==
  CASE reader = "model"        -> ModelResponse(b)
    [] reader = "wrapped"      -> WrappedResponse(b)
    [] reader = "lnp"          -> LNPResponse(b)
    [] reader = "empty"        -> EmptyResponse(b)
    [] reader = "empty server" -> EmptyServerResponse(b)
    [] reader = "empty lnp"    -> EmptyLNPResponse(b)

-----------------------------------------------------------------------------
(* The methods.  changes: the method asks the provider to change something. *)
(* builds: the method makes the request model from its arguments, so that  *)
(* it is the one to refuse them; the others are given a request model.     *)

Row(resource, name, verb, changes, reader, builds) ==
  [ resource |-> resource, name |-> name, verb |-> verb, changes |-> changes,
    reader |-> reader, builds |-> builds ]

Reads(resource, names, reader)    == {Row(resource, n, "GET", FALSE, reader, FALSE) : n \in names}
ReadsOf(resource, names, reader)  == {Row(resource, n, "GET", FALSE, reader, TRUE) : n \in names}
Posts(resource, names, reader)    == {Row(resource, n, "POST", TRUE, reader, FALSE) : n \in names}
Puts(resource, names, reader)     == {Row(resource, n, "PUT", TRUE, reader, FALSE) : n \in names}
PutsOf(resource, names, reader)   == {Row(resource, n, "PUT", TRUE, reader, TRUE) : n \in names}
Deletes(resource, names, reader)  == {Row(resource, n, "DELETE", TRUE, reader, FALSE) : n \in names}
DeletesOf(resource, names, reader) == {Row(resource, n, "DELETE", TRUE, reader, TRUE) : n \in names}

Account ==
  Reads("account", {"balance", "details", "rates", "countries", "zone_2_rates",
                    "international_toll_free_rates", "callback_status"}, "model")
  \union ReadsOf("account", {"country_rate"}, "model")
  \union PutsOf("account", {"set_auto_refill", "set_balance_reload", "refill_balance"}, "empty")
  \union PutsOf("account", {"set_low_balance_alert", "set_daily_balance_alert"}, "model")
  \union {Row("account", "configure_callback", "POST", TRUE, "empty", TRUE)}

\* validate_fraud asks a question with a POST.
DIDs ==
  Reads("dids", {"list", "states", "available"}, "model")
  \union ReadsOf("dids", {"rate_centers"}, "model")
  \union {Row("dids", "validate_fraud", "POST", FALSE, "model", TRUE)}
  \union Posts("dids", {"order"}, "empty")
  \union Puts("dids", {"update"}, "empty")
  \union PutsOf("dids", {"move_to_fax"}, "empty")
  \union DeletesOf("dids", {"delete"}, "empty")

InternationalDIDs ==
  Reads("international_dids", {"countries", "list"}, "model")
  \union ReadsOf("international_dids", {"cities"}, "model")
  \union Posts("international_dids", {"order"}, "model")
  \union Puts("international_dids", {"update"}, "empty")
  \union DeletesOf("international_dids", {"delete"}, "empty")

SIPTrunks ==
  Reads("sip_trunks", {"list", "blocked_callers"}, "model")
  \union ReadsOf("sip_trunks", {"status"}, "model")
  \union Posts("sip_trunks", {"create", "block_caller"}, "empty")
  \union Puts("sip_trunks", {"update"}, "empty")
  \union DeletesOf("sip_trunks", {"delete"}, "empty")

SMS ==
  Reads("sms", {"list", "offnet_status", "history", "delivery_status", "carrier"}, "model")
  \union Posts("sms", {"send"}, "model")
  \union Posts("sms", {"offnet_order"}, "empty")
  \union Puts("sms", {"update"}, "model")

DLC ==
  Reads("dlc", {"list_brands", "list_campaigns"}, "model")
  \union Posts("dlc", {"create_brand", "create_campaign"}, "model")
  \union Puts("dlc", {"update_brand"}, "model")
  \union Puts("dlc", {"update_campaign"}, "empty")
  \union DeletesOf("dlc", {"delete_brand", "delete_campaign"}, "empty")

Fax ==
  Reads("fax", {"states", "available", "list"}, "model")
  \union ReadsOf("fax", {"rate_centers"}, "model")
  \union Posts("fax", {"create", "set_email_permission"}, "empty")
  \union Posts("fax", {"send"}, "model")
  \union Puts("fax", {"update", "pause"}, "empty")
  \union PutsOf("fax", {"move_to_voice"}, "empty")
  \union Deletes("fax", {"delete_email_permission"}, "empty")
  \union DeletesOf("fax", {"delete"}, "empty")

EnterpriseFax ==
  Reads("enterprise_fax", {"list", "list_emails", "list_groups", "list_users",
                           "list_permissions"}, "model")
  \union Posts("enterprise_fax", {"create", "set_email_permission", "create_group",
                                  "create_user", "set_permission"}, "empty")
  \union Posts("enterprise_fax", {"upload", "send"}, "model")
  \union Puts("enterprise_fax", {"update", "update_group", "update_user", "pause"}, "empty")
  \union Deletes("enterprise_fax", {"delete_email_permission", "delete_permission"}, "empty")
  \union DeletesOf("enterprise_fax", {"delete", "delete_group", "delete_user"}, "empty")

Reports ==
  Reads("reports", {"call_history", "fax_history"}, "wrapped")
  \union ReadsOf("reports", {"download_fax"}, "wrapped")

LNP ==
  Reads("lnp", {"check", "list"}, "lnp")
  \union Posts("lnp", {"create"}, "lnp")
  \union Puts("lnp", {"update"}, "empty lnp")
  \union DeletesOf("lnp", {"delete"}, "empty lnp")

\* Bug: a removal sent as a read.
ServersRemovedByGet ==
  Reads("servers", {"list"}, "wrapped")
  \union ReadsOf("servers", {"list_backups"}, "wrapped")
  \union Posts("servers", {"create", "restore_backup"}, "wrapped")
  \union Posts("servers", {"upgrade", "manage_backup_schedule"}, "empty server")
  \union Puts("servers", {"add_ip"}, "empty server")
  \union Deletes("servers", {"remove_backup"}, "wrapped")
  \union {Row("servers", n, "GET", TRUE, "empty server", TRUE) : n \in {"delete", "remove_ip"}}

Servers ==
  Reads("servers", {"list"}, "wrapped")
  \union ReadsOf("servers", {"list_backups"}, "wrapped")
  \union Posts("servers", {"create", "restore_backup"}, "wrapped")
  \union Posts("servers", {"upgrade", "manage_backup_schedule"}, "empty server")
  \union Puts("servers", {"add_ip"}, "empty server")
  \union Deletes("servers", {"remove_backup"}, "wrapped")
  \union DeletesOf("servers", {"delete", "remove_ip"}, "empty server")

\* The asynchronous classes were written out a second time: the same methods
\* with the same verbs, request models and readers.
AsyncAccount == Account
AsyncDIDs == DIDs
AsyncInternationalDIDs == InternationalDIDs
AsyncSIPTrunks == SIPTrunks
AsyncSMS == SMS
AsyncDLC == DLC
AsyncFax == Fax
AsyncEnterpriseFax == EnterpriseFax
AsyncReports == Reports
AsyncLNP == LNP
AsyncServers == Servers

SyncOperations ==
  UNION { Account, DIDs, InternationalDIDs, SIPTrunks, SMS, DLC, Fax, EnterpriseFax,
          Reports, LNP, Servers }

AsyncOperations ==
  UNION { AsyncAccount, AsyncDIDs, AsyncInternationalDIDs, AsyncSIPTrunks, AsyncSMS, AsyncDLC,
          AsyncFax, AsyncEnterpriseFax, AsyncReports, AsyncLNP, AsyncServers }

AllOperations == SyncOperations \union AsyncOperations
=============================================================================
