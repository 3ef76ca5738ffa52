------------------------------- MODULE Inbox --------------------------------
(***************************************************************************)
(* What a receiver of callbacks promises to those who read its queue, and  *)
(* nothing of verification, fingerprints or handlers: the inbox only       *)
(* grows, no delivery enters it that was refused, success is answered only *)
(* when the event is in it, with this delivery or an earlier one, and an   *)
(* application that deduplicates properly has no event in it twice.        *)
(***************************************************************************)

CONSTANT Deliveries

VARIABLES
  same,         \* <<c, d>>: deliveries c and d carry the same event
  once,         \* the application deduplicates
  inbox,        \* the deliveries that were kept
  answer        \* what each was answered: "none", "accepted", "refused" or "lost"

inboxVars == <<same, once, inbox, answer>>

Init ==
  /\ same \subseteq Deliveries \X Deliveries
  /\ once \in BOOLEAN
  /\ inbox = {}
  /\ answer = [d \in Deliveries |-> "none"]

Duplicate(d) == \E c \in inbox : <<c, d>> \in same

Keep(d) ==
  /\ answer[d] = "none" /\ d \notin inbox
  /\ once => ~Duplicate(d)
  /\ inbox' = inbox \union {d}
  /\ UNCHANGED <<same, once, answer>>

Answer(d, a) ==
  /\ answer[d] = "none"
  /\ answer' = [answer EXCEPT ![d] = a]
  /\ UNCHANGED <<same, once, inbox>>

Accept(d) == Duplicate(d) /\ Answer(d, "accepted")

Refuse(d) == d \notin inbox /\ Answer(d, "refused")

\* Nobody knows whether it was kept; the provider may deliver the event again.
Lose(d) == Answer(d, "lost")

Next == \E d \in Deliveries : Keep(d) \/ Accept(d) \/ Refuse(d) \/ Lose(d)

Spec == Init /\ [][Next]_inboxVars
=============================================================================
