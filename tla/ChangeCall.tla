----------------------------- MODULE ChangeCall -----------------------------
(***************************************************************************)
(* A call that asks the provider for one change, as the code above it sees *)
(* it: nothing happens at the provider while it runs that its ending does  *)
(* not account for, and after the ending only a change that the ending     *)
(* left in doubt can still be made.                                        *)
(***************************************************************************)
EXTENDS CallOutcomes

CONSTANTS
  Endings,      \* what the call can return or raise
  Answered      \* those that follow a 2xx reply

VARIABLES
  several,      \* the call makes several requests, the last for the change
  invalid,      \* an argument of the request for the change is refused
  ending,       \* the ending, "none" while the call is running
  fate          \* what has become of the change

changeVars == <<several, invalid, ending, fate>>

Init ==
  /\ several \in BOOLEAN /\ invalid \in BOOLEAN
  /\ ending = "none"
  /\ fate = "untouched"

\* The call ends, once.
Finish(e) ==
  /\ ending = "none"
  /\ ending' = e
  /\ fate' \in FatesOf(e, Answered, several, invalid)
  /\ UNCHANGED <<several, invalid>>

\* The change in doubt is made after all.
Land ==
  /\ fate = "pending"
  /\ fate' = "performed"
  /\ UNCHANGED <<several, invalid, ending>>

Next == Land \/ \E e \in Endings : Finish(e)

Spec == Init /\ [][Next]_changeVars
=============================================================================
