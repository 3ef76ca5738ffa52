----------------------------- MODULE MCWebhook ------------------------------
(***************************************************************************)
(* Webhook for TLC: two deliveries, which may carry the same event or two  *)
(* that differ in a field that is published or not, in their text, in the  *)
(* shape, or in whether they can be read, fit a model, or are trusted.     *)
(***************************************************************************)
EXTENDS Webhook, TLC

CONSTANTS d1, d2

Message ==
  [status |-> FALSE, type |-> TRUE, to |-> "list", whole |-> TRUE,
   extra |-> "none", subject |-> "one"]

Extended == [Message EXCEPT !.extra = "some"]

MCContents ==
  { Message, Extended, [Message EXCEPT !.subject = "other"],
    [Message EXCEPT !.status = TRUE],                        \* a message with a status
    [Message EXCEPT !.whole = FALSE],
    [Message EXCEPT !.type = FALSE, !.status = TRUE, !.to = "string"],
    [Message EXCEPT !.type = FALSE, !.to = "absent"] }       \* a shape nobody published

Carried(json, c, text, trusted) ==
  [json |-> json, content |-> c, text |-> text, trusted |-> trusted]

MCBodies ==
  {Carried("object", c, "canonical", TRUE) : c \in MCContents}
  \union { Carried("object", Message, "other", TRUE), Carried("object", Message, "other", FALSE),
           Carried("array", Message, "other", TRUE), Carried("invalid", Message, "other", FALSE) }

MCDeliveries == {d1, d2}

Symmetry == Permutations(MCDeliveries)
=============================================================================
