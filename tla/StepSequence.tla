---------------------------- MODULE StepSequence ----------------------------
(***************************************************************************)
(* What executing a workflow plan, or a method that makes several          *)
(* requests, promises about the provider, and nothing of how: the          *)
(* operations take effect in order, each at most once, none after one that *)
(* did not surely succeed, so at most one operation, the last one          *)
(* attempted, is ever in doubt, and it may still land late.                *)
(***************************************************************************)
EXTENDS Integers

CONSTANT MaxLength      \* bound: the longest plan

VARIABLES
  length,     \* how many operations there are
  applied,    \* operations the provider performed
  pending,    \* operations the provider may still perform
  verdict     \* "running", "succeeded", or "stopped"

seqVars == <<length, applied, pending, verdict>>

Init ==
  /\ length \in 0 .. MaxLength
  /\ applied = {}
  /\ pending = {}
  /\ verdict = "running"

\* The first operation not yet performed is attempted: it succeeds, and with it
\* perhaps the execution, or the execution stops with the operation performed,
\* pending or neither.
Attempt(k) ==
  /\ verdict = "running" /\ pending = {}
  /\ k <= length /\ applied = 1 .. k - 1
  /\ \/ applied' = applied \union {k} /\ UNCHANGED <<pending, verdict>>
     \/ k = length /\ applied' = applied \union {k} /\ verdict' = "succeeded" /\ UNCHANGED pending
     \/ /\ verdict' = "stopped"
        /\ \/ UNCHANGED <<applied, pending>>
           \/ applied' = applied \union {k} /\ UNCHANGED pending
           \/ pending' = {k} /\ UNCHANGED applied
  /\ UNCHANGED length

\* The execution ends without touching the provider any further.
Stop ==
  /\ verdict = "running"
  /\ verdict' = "stopped"
  /\ UNCHANGED <<length, applied, pending>>

Succeed ==
  /\ verdict = "running"
  /\ applied = 1 .. length
  /\ verdict' = "succeeded"
  /\ UNCHANGED <<length, applied, pending>>

\* The operation in doubt takes effect after all.
Land(k) ==
  /\ k \in pending
  /\ pending' = pending \ {k}
  /\ applied' = applied \union {k}
  /\ UNCHANGED <<length, verdict>>

Next == Stop \/ Succeed \/ \E k \in 1 .. MaxLength : Attempt(k) \/ Land(k)

Spec == Init /\ [][Next]_seqVars
=============================================================================
