----------------------------- MODULE MCWorkflow -----------------------------
(***************************************************************************)
(* Workflow for TLC: the plans the builders make, and callers that confirm *)
(* everything, one risk only, or nothing.                                  *)
(***************************************************************************)
EXTENDS Workflow, Builders, TLC

MCPlans ==
  {[o \in DOMAIN p |-> [risk |-> p[o].risk, uploads |-> Uploads(p[o])]] : p \in BuiltPlans}

MCConfirmations == {Confirmable, {"routing-change"}, {}}
=============================================================================
