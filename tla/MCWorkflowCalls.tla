--------------------------- MODULE MCWorkflowCalls ---------------------------
(***************************************************************************)
(* WorkflowCalls for TLC: every method called by the application, and the  *)
(* plans the builders make, with one method of every risk and shape they   *)
(* call.                                                                   *)
(***************************************************************************)
EXTENDS WorkflowCalls, Builders, TLC

\* A plan asks for the confirmation its calls then give in the user's name, and
\* says which of them upload; it never configures.
ASSUME PlansNameTheMethodsRisk ==
  \A p \in BuiltPlans : \A o \in DOMAIN p :
    \E method \in AllMethods :
      /\ method.name = p[o].name /\ method.risk = p[o].risk
      /\ method.shape = IF Uploads(p[o]) THEN "upload" ELSE "single"

MCPlans ==
  {[o \in DOMAIN p |-> [risk |-> p[o].risk, uploads |-> Uploads(p[o])]] : p \in BuiltPlans}

\* Every risk that can be confirmed, or one of them.
MCConfirmations ==
  { {"billable", "routing-change", "compliance-sensitive",
     "destination-confirmation", "destructive"},
    {"billable"} }

\* "servers.create" is the billable one, for its plan looks at the result.
MCPlannedMethods ==
  { method \in AllMethods :
      method.name \in {"servers.create", "servers.add_ip", "lnp.create",
                       "enterprise_fax.upload_and_send"} }
=============================================================================
