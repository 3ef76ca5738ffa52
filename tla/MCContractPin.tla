--------------------------- MODULE MCContractPin ---------------------------
(***************************************************************************)
(* ContractPin for TLC: two documents of one version and two of others, so *)
(* that an update rewrites its file, moves on, or comes back to a version. *)
(***************************************************************************)
EXTENDS ContractPin

MCVersionOf == [d1 |-> "2.3.2", d2 |-> "2.3.2", d3 |-> "2.4.0", d4 |-> "3.0.0"]
MCDocuments == DOMAIN MCVersionOf
MCVersions == {"2.3.2", "2.4.0", "3.0.0"}
=============================================================================
