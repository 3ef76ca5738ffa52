------------------------- MODULE MCServerProvision --------------------------
(***************************************************************************)
(* ServerProvision for TLC: three executions of one plan, and a server to  *)
(* spare.                                                                  *)
(***************************************************************************)
EXTENDS ServerProvision, TLC

CONSTANTS e1, e2, e3, s1, s2, s3

MCExecutions == {e1, e2, e3}
MCServers == {s1, s2, s3}

\* Executions and servers are interchangeable, and each property speaks
\* of all of them alike.
Symmetry == Permutations(MCExecutions) \union Permutations(MCServers)
=============================================================================
