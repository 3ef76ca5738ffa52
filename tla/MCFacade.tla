------------------------------ MODULE MCFacade ------------------------------
(***************************************************************************)
(* Facade for TLC: two facades, which own, share or are given their        *)
(* clients in every way, and waits of up to two attempts.                  *)
(***************************************************************************)
EXTENDS Facade

CONSTANTS f1, f2

MCFacades == {f1, f2}
=============================================================================
