------------------------------ MODULE Builders ------------------------------
(***************************************************************************)
(* The plans the builders of simple/_workflows.py make: the operations in  *)
(* order, each with the risk it is announced with.  Workflows and          *)
(* AsyncWorkflows build the same plans.                                    *)
(***************************************************************************)
EXTENDS Sequences

Planned(name, risk) == [name |-> name, risk |-> risk]

VoiceNumber ==
  << Planned("sip_trunks.create", "routing-change"), Planned("dids.order", "billable") >>

FaxNumber == << Planned("fax.create", "billable") >>

OnboardEnterpriseFax ==
  << Planned("enterprise_fax.create_group", "routing-change"),
     Planned("enterprise_fax.create_user", "routing-change"),
     Planned("enterprise_fax.create", "billable"),
     Planned("enterprise_fax.set_permission", "routing-change") >>

SendEnterpriseFax == << Planned("enterprise_fax.upload_and_send", "destination-confirmation") >>

PortingDraft == << Planned("lnp.create", "compliance-sensitive") >>

\* The address and the backup schedule are optional.
ProvisionServer(address, schedule) ==
  << Planned("servers.create", "billable") >>
    \o (IF address THEN << Planned("servers.add_ip", "routing-change") >> ELSE << >>)
    \o (IF schedule THEN << Planned("servers.manage_backup_schedule", "routing-change") >> ELSE << >>)

\* The operation that uploads files first.
Uploads(operation) == operation.name = "enterprise_fax.upload_and_send"

BuiltPlans ==
  {VoiceNumber, FaxNumber, OnboardEnterpriseFax, SendEnterpriseFax, PortingDraft}
    \union {ProvisionServer(address, schedule) : address, schedule \in BOOLEAN}
=============================================================================
