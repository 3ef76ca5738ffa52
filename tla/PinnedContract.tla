--------------------------- MODULE PinnedContract ---------------------------
(***************************************************************************)
(* What the script that checks and updates the pinned contract promises    *)
(* over any number of runs, and nothing of files: the pin is one document, *)
(* none, or damaged.  A run compares what it loaded with a pin that is not *)
(* damaged and says truly how they relate, or replaces the pin.  Only a    *)
(* run that replaces it damages it, for a moment or, if it stops then, for *)
(* good: no later run takes it for a pin, and none writes over it.         *)
(***************************************************************************)

CONSTANT Documents

VARIABLES
  pin,          \* {d} when d is pinned, else {}
  damaged,      \* there is neither a pin nor none
  place,        \* "idle", "reading", or "replacing" the damaged pin
  checking,     \* the run may not write
  loaded,       \* {d} once the run has loaded d
  verdict       \* how the last run ended, "none" during a run

pinVars == <<pin, damaged, place, checking, loaded, verdict>>

Init ==
  /\ pin = {} /\ damaged = FALSE
  /\ place = "idle"
  /\ checking = FALSE
  /\ loaded = {}
  /\ verdict = "none"

Begin(c) ==
  /\ place = "idle"
  /\ place' = "reading"
  /\ checking' = c
  /\ loaded' = {}
  /\ verdict' = "none"
  /\ UNCHANGED <<pin, damaged>>

Load(d) ==
  /\ place = "reading" /\ loaded = {}
  /\ loaded' = {d}
  /\ UNCHANGED <<pin, damaged, place, checking, verdict>>

End(v) == place' = "idle" /\ verdict' = v

Report ==
  /\ place = "reading" /\ loaded # {} /\ ~damaged
  /\ checking \/ pin = loaded
  /\ End(IF pin = loaded THEN "current" ELSE "drift")
  /\ UNCHANGED <<pin, damaged, checking, loaded>>

\* The pin the run is about to replace is gone.
Damage ==
  /\ place = "reading" /\ loaded # {} /\ ~damaged
  /\ ~checking /\ pin # loaded
  /\ pin' = {} /\ damaged' = TRUE
  /\ place' = "replacing"
  /\ UNCHANGED <<checking, loaded, verdict>>

Replace ==
  /\ place = "replacing"
  /\ pin' = loaded /\ damaged' = FALSE
  /\ End("updated")
  /\ UNCHANGED <<checking, loaded>>

\* A run that is killed or fails changes nothing more.
Fail(v) ==
  /\ place # "idle"
  /\ End(v)
  /\ UNCHANGED <<pin, damaged, checking, loaded>>

Next ==
  \/ \E c \in BOOLEAN : Begin(c)
  \/ \E d \in Documents : Load(d)
  \/ Report \/ Damage \/ Replace
  \/ \E v \in {"error", "traceback", "killed"} : Fail(v)

Spec == Init /\ [][Next]_pinVars
=============================================================================
