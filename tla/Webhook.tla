------------------------------ MODULE Webhook -------------------------------
(***************************************************************************)
(* A receiver of QuestBlue callbacks: parse_webhook                        *)
(* (src/src/questblue/webhooks.py) or one of the framework adapters        *)
(* (src/src/questblue/integrations) verifies, classifies and fingerprints  *)
(* a delivery, and the application looks the fingerprint up, enqueues the  *)
(* event durably and answers 200, as src/docs/integrations.md tells it to. *)
(* The provider may deliver the same event any number of times, in any     *)
(* order and in different serialisations, deliveries are handled           *)
(* concurrently, and a handler may die at any point, alone or with its     *)
(* process: only the queue survives.                                       *)
(***************************************************************************)

CONSTANTS
  Deliveries,   \* requests the provider makes
  Bodies        \* what they carry

VARIABLES
  setup,        \* how the application calls the SDK and what it does then
  body,         \* what each delivery carries
  stage,        \* where the handler of each delivery is
  refusal,      \* why a delivery was refused
  queue         \* the durable queue: the entries enqueued so far

vars == <<setup, body, stage, refusal, queue>>

-----------------------------------------------------------------------------
(* Bodies.  The content is what the fields say: which of the fields that    *)
(* tell the published shapes apart are there, whether the others are       *)
(* complete and well typed, and what the unpublished ones hold.            *)

Contents ==
  [ status : BOOLEAN, type : BOOLEAN, to : {"string", "list", "absent"},
    whole : BOOLEAN, extra : {"none", "some"}, subject : {"one", "other"} ]

\* A body: its text is one of several with that content; json.dumps with
\* sorted keys makes the canonical one.  trusted: a control of the application
\* (a proxy secret, mTLS) accepts the request.
AllBodies ==
  [ json : {"object", "array", "invalid"}, content : Contents,
    text : {"canonical", "other"}, trusted : BOOLEAN ]

ASSUME BodiesAssumption == Bodies \subseteq AllBodies

Kinds == {"inbound_message", "message_status", "unknown"}

Adapters == {"django", "fastapi"}

\* verifier: what it does with a request it does not trust.  dedupe: the
\* application looks nothing up, or does so before it enqueues, or in one
\* transaction with it.  serial: one delivery at a time.
Setups ==
  { s \in [ entry : Adapters \union {"text", "mapping"}, verifier : {"none", "raises", "false"},
            allowUnverified : BOOLEAN, kind : Kinds \union {"none"},
            dedupe : {"none", "check", "atomic"}, serial : BOOLEAN ] :
      s.allowUnverified => s.entry \in Adapters /\ s.verifier = "none" }

-----------------------------------------------------------------------------
(* parse_webhook *)

\* Bug: the fields that are not published are left out.
FingerprintOfPublished(b) == <<b.text, [b.content EXCEPT !.extra = "none"]>>

\* The digest of the bytes received, or of the canonical text of a mapping.
Fingerprint(b) ==
  IF setup.entry = "mapping" THEN <<"canonical", b.content>> ELSE <<b.text, b.content>>

\* Bug: a status field makes a message status.
KindByStatusField(c) ==
  IF setup.kind # "none" THEN setup.kind
  ELSE IF c.status THEN "message_status"
  ELSE IF c.type /\ c.to = "list" THEN "inbound_message"
  ELSE "unknown"

Kind(c) ==
  IF setup.kind # "none" THEN setup.kind
  ELSE IF c.status /\ c.to = "string" THEN "message_status"
  ELSE IF c.type /\ c.to = "list" THEN "inbound_message"
  ELSE "unknown"

\* The event models: each needs its fields, and all of them keep the others.
Accepts(kind, c) ==
  CASE kind = "inbound_message" -> c.type /\ c.to = "list" /\ c.whole
    [] kind = "message_status"  -> c.status /\ c.to = "string" /\ c.whole
    [] kind = "unknown"         -> TRUE

\* An adapter wants a verifier, or to be told that there is none.
Unguarded == setup.entry \in Adapters /\ setup.verifier = "none" /\ ~setup.allowUnverified

\* Bug: only a verifier that raises can refuse.
UnverifiedIfRaised(b) == setup.verifier = "raises" /\ ~b.trusted

Unverified(b) == setup.verifier # "none" /\ ~b.trusted

Unreadable(b) == b.json # "object"

Unfit(b) == ~Accepts(Kind(b.content), b.content)

\* The envelope that is enqueued.
Envelope(d) ==
  [ delivery |-> d, kind |-> Kind(body[d].content), fingerprint |-> Fingerprint(body[d]),
    verified |-> setup.verifier # "none", event |-> body[d].content ]

-----------------------------------------------------------------------------
Init ==
  /\ setup \in Setups
  /\ body \in [Deliveries -> Bodies]
  /\ setup.entry = "mapping" => \A d \in Deliveries : body[d].json = "object"
  /\ stage = [d \in Deliveries |-> "away"]
  /\ refusal = [d \in Deliveries |-> "none"]
  /\ queue = {}

Handled == {d \in Deliveries : stage[d] \in {"parsed", "unseen", "enqueued"}}

Move(d, s) == stage' = [stage EXCEPT ![d] = s]

\* The delivery arrives.
Arrives(d) ==
  /\ stage[d] = "away"
  /\ setup.serial => Handled = {}

Refuse(d, why) ==
  /\ Move(d, "refused")
  /\ refusal' = [refusal EXCEPT ![d] = why]
  /\ UNCHANGED <<setup, body, queue>>

RequireVerifier(d) == Arrives(d) /\ Unguarded /\ Refuse(d, "WebhookVerificationRequired")

Verify(d) ==
  /\ Arrives(d)
  /\ ~Unguarded /\ Unverified(body[d])
  /\ Refuse(d, "verification")

RefuseText(d) ==
  /\ Arrives(d)
  /\ ~Unguarded /\ ~Unverified(body[d]) /\ Unreadable(body[d])
  /\ Refuse(d, "ValueError")

RefuseFields(d) ==
  /\ Arrives(d)
  /\ ~Unguarded /\ ~Unverified(body[d]) /\ ~Unreadable(body[d]) /\ Unfit(body[d])
  /\ Refuse(d, "ValidationError")

Parse(d) ==
  /\ Arrives(d)
  /\ ~Unguarded /\ ~Unverified(body[d]) /\ ~Unreadable(body[d]) /\ ~Unfit(body[d])
  /\ Move(d, "parsed")
  /\ UNCHANGED <<setup, body, refusal, queue>>

-----------------------------------------------------------------------------
(* The application, as src/docs/integrations.md has it. *)

Seen(d) == \E e \in queue : e.fingerprint = Fingerprint(body[d])

\* already_processed: answer at once.
Acknowledge(d) ==
  /\ \/ stage[d] = "enqueued"
     \/ stage[d] = "parsed" /\ setup.dedupe # "none" /\ Seen(d)
  /\ Move(d, "acknowledged")
  /\ UNCHANGED <<setup, body, refusal, queue>>

LookUp(d) ==
  /\ stage[d] = "parsed"
  /\ setup.dedupe = "check" /\ ~Seen(d)
  /\ Move(d, "unseen")
  /\ UNCHANGED <<setup, body, refusal, queue>>

Enqueue(d) ==
  /\ \/ stage[d] = "unseen"
     \/ stage[d] = "parsed" /\ setup.dedupe = "none"
     \/ stage[d] = "parsed" /\ setup.dedupe = "atomic" /\ ~Seen(d)
  /\ queue' = queue \union {Envelope(d)}
  /\ Move(d, "enqueued")
  /\ UNCHANGED <<setup, body, refusal>>

\* The handler dies: the provider gets no answer, and may deliver again.
Die(d) ==
  /\ d \in Handled
  /\ Move(d, "lost")
  /\ UNCHANGED <<setup, body, refusal, queue>>

Handle(d) ==
  \/ RequireVerifier(d) \/ Verify(d) \/ RefuseText(d) \/ RefuseFields(d) \/ Parse(d)
  \/ Acknowledge(d) \/ LookUp(d) \/ Enqueue(d) \/ Die(d)

Over == Handled = {} /\ UNCHANGED vars

Next == (\E d \in Deliveries : Handle(d)) \/ Over

Spec == Init /\ [][Next]_vars

-----------------------------------------------------------------------------
(* Properties *)

\* Nothing that the application's control does not trust is enqueued, or even
\* read: it is refused for that and for nothing else.  Every envelope says
\* truly whether it was verified, and an adapter that was given no verifier and
\* no permission to go without one enqueues nothing.
VerifiedIsEarned ==
  /\ \A e \in queue : /\ e.verified => body[e.delivery].trusted
                      /\ ~e.verified => setup.verifier = "none" /\ ~Unguarded
  /\ setup.verifier # "none" =>
       \A d \in Deliveries :
         ~body[d].trusted => stage[d] \in {"away", "refused"} /\ refusal[d] \in {"none", "verification"}

\* What was answered with 200 is in the queue with every field it had, those
\* that are not published too, whichever deliveries were taken for duplicates,
\* overtook each other or died.
AcknowledgedIsKept ==
  \A d \in Deliveries :
    stage[d] = "acknowledged" => \E e \in queue : e.event = body[d].content

\* A delivery that is repeated is enqueued once, also when the first answer was
\* lost: when the bytes are the same or the application passes mappings, and
\* when it looks up and enqueues in one transaction or handles one delivery
\* at a time.
QueuedOnce ==
  setup.dedupe = "atomic" \/ (setup.dedupe = "check" /\ setup.serial) =>
    \A e, f \in queue :
      /\ e.event = f.event
      /\ setup.entry = "mapping" \/ body[e.delivery].text = body[f.delivery].text
      => e = f

\* A trusted object is only refused for the fields of a published shape that it
\* has, or was said to have: what the provider adds to a shape, and shapes that
\* it has not published, get through.
ForwardCompatible ==
  \A d \in Deliveries :
    refusal[d] = "ValidationError" =>
      setup.kind \in Kinds \ {"unknown"} \/ ~body[d].content.whole

-----------------------------------------------------------------------------
(* What the receiver is to those who read its queue *)

\* The deliveries carry the same event: the same bytes, or the same mapping.
SameEvent(c, d) ==
  /\ body[c].content = body[d].content
  /\ setup.entry = "mapping" \/ body[c].text = body[d].text

AnswerOf(s) ==
  CASE s = "acknowledged"     -> "accepted"
    [] s \in {"refused", "lost"} -> s
    [] OTHER                  -> "none"

Received == INSTANCE Inbox WITH
  same   <- {p \in Deliveries \X Deliveries : SameEvent(p[1], p[2])},
  once   <- setup.dedupe = "atomic" \/ (setup.dedupe = "check" /\ setup.serial),
  inbox  <- {e.delivery : e \in queue},
  answer <- [d \in Deliveries |-> AnswerOf(stage[d])]

\* However deliveries repeat, overtake each other and die, and however the SDK is
\* called: what was answered with 200 is in the queue, what was refused is not and
\* never will be, and an application that looks up and enqueues in one transaction,
\* or handles one delivery at a time, has no event there twice, also when the
\* first answer was lost.
ImplementsInbox == Received!Spec
=============================================================================
