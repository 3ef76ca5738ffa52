----------------------------- MODULE RemoteCall -----------------------------
(***************************************************************************)
(* What a client call promises, whatever the transport does to keep the    *)
(* promise.  The provider executes the call some number of times; a        *)
(* mutation at most once; and the ending the application sees never        *)
(* contradicts what the provider did.                                      *)
(***************************************************************************)
EXTENDS CallOutcomes

CONSTANT Attempts   \* identities of the executions the provider may perform

VARIABLES
  mutating,    \* does executing the call change the provider's state?
  executed,    \* the executions performed so far
  outcome      \* the ending, "none" while the call is running

callVars == <<mutating, executed, outcome>>

Init ==
  /\ mutating \in BOOLEAN
  /\ executed = {}
  /\ outcome = "none"

\* The provider executes the call.  For a mutation this happens at most once,
\* and after the ending only if the ending left it open.
Execute ==
  /\ mutating => executed = {} /\ outcome \in {"none"} \union InDoubt
  /\ \E a \in Attempts : executed' = executed \union {a}
  /\ UNCHANGED <<mutating, outcome>>

\* The call ends, once, with an ending that tells the truth.
Finish(o) ==
  /\ outcome = "none"
  /\ o \in Confirmed => executed # {}
  /\ o \in Refused /\ mutating => executed = {}
  /\ outcome' = o
  /\ UNCHANGED <<mutating, executed>>

Next == Execute \/ \E o \in Outcomes : Finish(o)

Spec == Init /\ [][Next]_callVars
=============================================================================
