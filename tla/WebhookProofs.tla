--------------------------- MODULE WebhookProofs ----------------------------
(***************************************************************************)
(* The properties of Webhook, for any number of deliveries and any bodies. *)
(* The inductive invariant says what a handler that has come some way owes *)
(* to the queue, and when the queue is a function of the fingerprint.      *)
(***************************************************************************)
EXTENDS Webhook, TLAPS

Stages == {"away", "refused", "parsed", "unseen", "enqueued", "acknowledged", "lost"}

\* Every variable stays in its range.
TypeInv ==
  /\ setup \in Setups
  /\ body \in [Deliveries -> Bodies]
  /\ stage \in [Deliveries -> Stages]
  /\ refusal \in [Deliveries -> {"none", "WebhookVerificationRequired", "verification",
                                 "ValueError", "ValidationError"}]

\* A request that the application accepts.
Accepted(d) == ~Unguarded /\ ~Unverified(body[d])

\* Whoever got past parse_webhook was accepted, and what is not trusted was
\* refused before it was read.
ParseInv ==
  \A d \in Deliveries :
    /\ stage[d] \notin {"away", "refused"} => Accepted(d)
    /\ Unverified(body[d]) => refusal[d] \in {"none", "verification"}

\* The queue holds the envelopes of accepted deliveries, those of the handlers
\* that enqueued among them, and something with the fingerprint of whatever was
\* acknowledged.
QueueInv ==
  /\ \A e \in queue : e.delivery \in Deliveries /\ e = Envelope(e.delivery) /\ Accepted(e.delivery)
  /\ \A d \in Deliveries : stage[d] = "enqueued" => Envelope(d) \in queue
  /\ \A d \in Deliveries : stage[d] = "acknowledged" => Seen(d)

\* Looking up and enqueueing are one step, or nobody comes between them.
Exclusive == setup.dedupe = "atomic" \/ (setup.dedupe = "check" /\ setup.serial)

OnceInv ==
  /\ setup.serial => \A c, d \in Handled : c = d
  /\ \A d \in Deliveries : stage[d] = "unseen" => setup.dedupe = "check"
  /\ Exclusive =>
       /\ \A d \in Deliveries : stage[d] = "unseen" => ~Seen(d)
       /\ \A e, f \in queue : e.fingerprint = f.fingerprint => e = f

IInv == TypeInv /\ ParseInv /\ QueueInv /\ OnceInv /\ ForwardCompatible

-----------------------------------------------------------------------------
\* The invariant holds before the first delivery.
LEMMA InitInv == Init => IInv
<1> SUFFICES ASSUME Init
             PROVE  IInv
  OBVIOUS
<1>1. TypeInv
  BY DEF Init, TypeInv, Stages
<1>2. ParseInv /\ QueueInv /\ OnceInv /\ ForwardCompatible
  BY DEF Init, ParseInv, QueueInv, OnceInv, ForwardCompatible, Handled, Seen
<1> QED BY <1>1, <1>2 DEF IInv

\* What stays the same while the application's setup and the bodies do.
LEMMA Fixed ==
  ASSUME setup' = setup, body' = body
  PROVE  /\ \A d \in Deliveries : Envelope(d)' = Envelope(d) /\ (Accepted(d)' <=> Accepted(d))
         /\ \A d \in Deliveries : Fingerprint(body[d])' = Fingerprint(body[d])
         /\ \A d \in Deliveries : Unverified(body[d])' <=> Unverified(body[d])
         /\ Exclusive' <=> Exclusive
BY DEF Envelope, Accepted, Fingerprint, Unverified, Unguarded, Exclusive, Kind

\* A body whose fields do not fit the shape they have is not whole, or the kind
\* was forced.
LEMMA UnfitForAReason ==
  ASSUME NEW b \in Bodies, setup \in Setups, Unfit(b)
  PROVE  setup.kind \in Kinds \ {"unknown"} \/ ~b.content.whole
<1>1. setup.kind \in Kinds \union {"none"}
  BY DEF Setups
<1>2. SUFFICES ASSUME setup.kind \in {"none", "unknown"}, b.content.whole
               PROVE  FALSE
  BY <1>1 DEF Kinds
<1>3. Accepts(Kind(b.content), b.content)
  BY <1>2 DEF Kind, Accepts
<1> QED BY <1>3 DEF Unfit

\* A step of one handler that leaves the queue alone keeps the invariant, when
\* the handler has a right to its new place.
LEMMA QuietInv ==
  ASSUME IInv, NEW d \in Deliveries, NEW s \in Stages, Move(d, s),
         UNCHANGED <<setup, body, queue>>,
         TypeInv', ForwardCompatible',
         s \notin {"away", "refused"} => Accepted(d),
         \A c \in Deliveries : Unverified(body[c]) => refusal'[c] \in {"none", "verification"},
         s # "enqueued",
         s = "acknowledged" => Seen(d),
         s = "unseen" => ~Seen(d) /\ setup.dedupe = "check",
         s \in {"parsed", "unseen", "enqueued"} /\ setup.serial =>
           Handled \subseteq {d}
  PROVE  IInv'
<1>1. /\ stage' = [stage EXCEPT ![d] = s] /\ stage \in [Deliveries -> Stages]
      /\ \A c \in Deliveries : stage'[c] = IF c = d THEN s ELSE stage[c]
  BY DEF Move, IInv, TypeInv
<1>2. ParseInv'
  BY <1>1, Fixed DEF IInv, ParseInv
<1>3. \A c \in Deliveries : Seen(c)' <=> Seen(c)
  BY Fixed DEF Seen
<1>4. QueueInv'
  BY <1>1, <1>3, Fixed DEF IInv, QueueInv
<1>5. (setup.serial => \A b, c \in Handled : b = c)'
  BY <1>1 DEF IInv, OnceInv, Handled
<1>6. OnceInv'
  BY <1>1, <1>3, <1>5, Fixed DEF IInv, OnceInv
<1> QED BY <1>2, <1>4, <1>6 DEF IInv

\* A refusal.
LEMMA RefuseInv ==
  ASSUME IInv, NEW d \in Deliveries, NEW why, Refuse(d, why),
         why \in {"WebhookVerificationRequired", "verification", "ValueError", "ValidationError"},
         Unverified(body[d]) => why = "verification",
         why = "ValidationError" => Unfit(body[d])
  PROVE  IInv'
<1>1. /\ Move(d, "refused") /\ UNCHANGED <<setup, body, queue>>
      /\ refusal' = [refusal EXCEPT ![d] = why]
  BY DEF Refuse
<1>2. TypeInv' /\ \A c \in Deliveries : refusal'[c] = IF c = d THEN why ELSE refusal[c]
  BY <1>1 DEF IInv, TypeInv, Move, Stages
<1>3. body[d] \in Bodies /\ setup \in Setups
  BY DEF IInv, TypeInv
<1>4. ForwardCompatible'
  BY <1>1, <1>2, <1>3, UnfitForAReason DEF IInv, ForwardCompatible
<1>5. \A c \in Deliveries : Unverified(body[c]) => refusal'[c] \in {"none", "verification"}
  BY <1>2 DEF IInv, ParseInv
<1> QED BY <1>1, <1>2, <1>4, <1>5, QuietInv DEF Stages

\* Enqueueing is all that changes the queue.
LEMMA EnqueueInv ==
  ASSUME IInv, NEW d \in Deliveries, Enqueue(d)
  PROVE  IInv'
<1>1. /\ stage[d] \in {"parsed", "unseen"}
      /\ queue' = queue \union {Envelope(d)} /\ UNCHANGED <<setup, body, refusal>>
      /\ stage' = [stage EXCEPT ![d] = "enqueued"]
  BY DEF Enqueue, Move
<1>2. /\ stage \in [Deliveries -> Stages]
      /\ \A c \in Deliveries : stage'[c] = IF c = d THEN "enqueued" ELSE stage[c]
  BY <1>1 DEF IInv, TypeInv
<1>3. TypeInv' /\ ForwardCompatible'
  BY <1>1 DEF IInv, TypeInv, ForwardCompatible, Stages
<1>4. Accepted(d) /\ ParseInv'
  BY <1>1, <1>2, Fixed DEF IInv, ParseInv
<1>5. Envelope(d).delivery = d /\ Envelope(d).fingerprint = Fingerprint(body[d])
  BY DEF Envelope
<1>6. QueueInv'
  <2>1. \A c \in Deliveries : Seen(c) => Seen(c)'
    BY <1>1, Fixed DEF Seen
  <2>2. \A e \in queue' : e.delivery \in Deliveries /\ e = Envelope(e.delivery) /\ Accepted(e.delivery)
    BY <1>1, <1>4, <1>5 DEF IInv, QueueInv
  <2> QED BY <1>1, <1>2, <2>1, <2>2, Fixed DEF IInv, QueueInv
<1>7. (setup.serial => \A b, c \in Handled : b = c)'
  BY <1>1, <1>2 DEF IInv, OnceInv, Handled
<1>8. ASSUME Exclusive
      PROVE  /\ \A c \in Deliveries : stage'[c] = "unseen" => ~Seen(c)'
             /\ \A e, f \in queue' : e.fingerprint = f.fingerprint => e = f
  <2>1. ~Seen(d)
    BY <1>8 DEF Enqueue, Exclusive, IInv, OnceInv
  <2>2. \A e, f \in queue' : e.fingerprint = f.fingerprint => e = f
    BY <1>1, <1>5, <1>8, <2>1 DEF IInv, OnceInv, Seen
  <2>3. ASSUME NEW c \in Deliveries, stage'[c] = "unseen"
        PROVE  FALSE
    <3>1. c # d /\ stage[c] = "unseen"
      BY <1>2, <2>3
    <3>2. setup.serial
      BY <1>8, <3>1 DEF Exclusive, IInv, OnceInv
    <3>3. c \in Handled /\ d \in Handled
      BY <1>1, <3>1 DEF Handled
    <3> QED BY <3>1, <3>2, <3>3 DEF IInv, OnceInv
  <2> QED BY <2>2, <2>3
<1>9. OnceInv'
  <2>1. \A c \in Deliveries : stage'[c] = "unseen" => setup'.dedupe = "check"
    BY <1>1, <1>2 DEF IInv, OnceInv
  <2> QED BY <1>1, <1>7, <1>8, <2>1, Fixed DEF OnceInv
<1> QED BY <1>3, <1>4, <1>6, <1>9 DEF IInv

\* A handler only moves when there is no other or they may overlap.
LEMMA Alone ==
  ASSUME IInv, NEW d \in Deliveries, setup.serial, Arrives(d) \/ d \in Handled
  PROVE  Handled \subseteq {d}
BY DEF Arrives, IInv, OnceInv

\* Every step keeps the invariant: one case for each action.
LEMMA StepInv == IInv /\ [Next]_vars => IInv'
<1> SUFFICES ASSUME IInv, [Next]_vars
             PROVE  IInv'
  OBVIOUS
<1>1. ASSUME NEW d \in Deliveries, RequireVerifier(d)
      PROVE  IInv'
  <2>1. ~Unverified(body[d])
    BY <1>1 DEF RequireVerifier, Unguarded, Unverified
  <2> QED BY <1>1, <2>1, RefuseInv DEF RequireVerifier
<1>2. ASSUME NEW d \in Deliveries, Verify(d)
      PROVE  IInv'
  BY <1>2, RefuseInv DEF Verify
<1>3. ASSUME NEW d \in Deliveries, RefuseText(d)
      PROVE  IInv'
  BY <1>3, RefuseInv DEF RefuseText
<1>4. ASSUME NEW d \in Deliveries, RefuseFields(d)
      PROVE  IInv'
  BY <1>4, RefuseInv DEF RefuseFields
<1>5. ASSUME NEW d \in Deliveries, NEW s \in Stages \ {"away", "refused", "enqueued"}, Move(d, s),
             UNCHANGED <<setup, body, refusal, queue>>,
             Accepted(d),
             Arrives(d) \/ d \in Handled,
             s = "acknowledged" => Seen(d),
             s = "unseen" => ~Seen(d) /\ setup.dedupe = "check"
      PROVE  IInv'
  <2>1. TypeInv' /\ ForwardCompatible'
    BY <1>5 DEF IInv, TypeInv, ForwardCompatible, Move
  <2>2. \A c \in Deliveries : Unverified(body[c]) => refusal'[c] \in {"none", "verification"}
    BY <1>5 DEF IInv, ParseInv
  <2>3. setup.serial => Handled \subseteq {d}
    BY <1>5, Alone
  <2> QED BY <1>5, <2>1, <2>2, <2>3, QuietInv
<1>6. ASSUME NEW d \in Deliveries, Parse(d)
      PROVE  IInv'
  BY <1>5, <1>6 DEF Parse, Accepted, Stages
<1>7. \A d \in Deliveries : d \in Handled => Accepted(d)
  BY DEF IInv, ParseInv, Handled
<1>8. ASSUME NEW d \in Deliveries, Acknowledge(d)
      PROVE  IInv'
  <2>1. Seen(d)
    <3>1. CASE stage[d] = "enqueued"
      BY <3>1 DEF IInv, QueueInv, Seen, Envelope
    <3>2. CASE stage[d] = "parsed"
      BY <1>8, <3>2 DEF Acknowledge
    <3> QED BY <1>8, <3>1, <3>2 DEF Acknowledge
  <2>2. d \in Handled
    BY <1>8 DEF Acknowledge, Handled
  <2> QED BY <1>5, <1>7, <1>8, <2>1, <2>2 DEF Acknowledge, Stages
<1>9. ASSUME NEW d \in Deliveries, LookUp(d)
      PROVE  IInv'
  <2>1. d \in Handled
    BY <1>9 DEF LookUp, Handled
  <2> QED BY <1>5, <1>7, <1>9, <2>1 DEF LookUp, Stages
<1>10. ASSUME NEW d \in Deliveries, Die(d)
       PROVE  IInv'
  BY <1>5, <1>7, <1>10 DEF Die, Stages
<1>11. CASE UNCHANGED vars
  <2>1. /\ setup' = setup /\ body' = body /\ stage' = stage
        /\ refusal' = refusal /\ queue' = queue
    BY <1>11 DEF vars
  <2>2. TypeInv' /\ ForwardCompatible'
    BY <2>1 DEF IInv, TypeInv, ForwardCompatible
  <2>3. \A d \in Deliveries : Seen(d)' <=> Seen(d)
    BY <2>1, Fixed DEF Seen
  <2>4. ParseInv' /\ QueueInv'
    BY <2>1, <2>3, Fixed DEF IInv, ParseInv, QueueInv
  <2>5. OnceInv'
    BY <2>1, <2>3, Fixed DEF IInv, OnceInv, Handled
  <2> QED BY <2>2, <2>4, <2>5 DEF IInv
<1> QED BY <1>1, <1>2, <1>3, <1>4, <1>6, <1>8, <1>9, <1>10, <1>11, EnqueueInv
        DEF Next, Handle, Over

\* What a receiver owes to the queue holds in every reachable state.
THEOREM Invariance == Spec => []IInv
<1>1. Init => IInv
  BY InitInv
<1>2. IInv /\ [Next]_vars => IInv'
  BY StepInv
<1> QED BY <1>1, <1>2, PTL DEF Spec

-----------------------------------------------------------------------------
\* parse_webhook and the adapters: nothing unverified gets past a verifier,
\* and the flag of every envelope in the queue is true.
THEOREM Earned == Spec => []VerifiedIsEarned
<1>1. IInv => VerifiedIsEarned
  <2> SUFFICES ASSUME IInv
               PROVE  VerifiedIsEarned
    OBVIOUS
  <2>1. ASSUME NEW e \in queue
        PROVE  /\ e.verified => body[e.delivery].trusted
               /\ ~e.verified => setup.verifier = "none" /\ ~Unguarded
    <3>1. e = Envelope(e.delivery) /\ Accepted(e.delivery)
      BY DEF IInv, QueueInv
    <3>2. e.verified = (setup.verifier # "none")
      BY <3>1 DEF Envelope
    <3> QED BY <3>1, <3>2 DEF Accepted, Unverified
  <2>2. ASSUME setup.verifier # "none", NEW d \in Deliveries, ~body[d].trusted
        PROVE  stage[d] \in {"away", "refused"} /\ refusal[d] \in {"none", "verification"}
    BY <2>2 DEF IInv, ParseInv, Accepted, Unverified
  <2> QED BY <2>1, <2>2 DEF VerifiedIsEarned
<1> QED BY <1>1, Invariance, PTL

\* The fingerprint tells the contents apart.
LEMMA SameContent ==
  ASSUME NEW b, NEW c, Fingerprint(b) = Fingerprint(c)
  PROVE  b.content = c.content
BY DEF Fingerprint

\* What was acknowledged is in the queue with all its fields.
THEOREM Kept == Spec => []AcknowledgedIsKept
<1>1. IInv => AcknowledgedIsKept
  <2> SUFFICES ASSUME IInv, NEW d \in Deliveries, stage[d] = "acknowledged"
               PROVE  \E e \in queue : e.event = body[d].content
    BY DEF AcknowledgedIsKept
  <2>1. PICK e \in queue : e.fingerprint = Fingerprint(body[d])
    BY DEF IInv, QueueInv, Seen
  <2>2. e = Envelope(e.delivery)
    BY DEF IInv, QueueInv
  <2>3. e.event = body[e.delivery].content /\ e.fingerprint = Fingerprint(body[e.delivery])
    BY <2>2 DEF Envelope
  <2>4. body[e.delivery].content = body[d].content
    BY <2>1, <2>3, SameContent
  <2> QED BY <2>3, <2>4
<1> QED BY <1>1, Invariance, PTL

\* A repeated delivery is enqueued once, under the conditions it names.
THEOREM Once == Spec => []QueuedOnce
<1>1. IInv => QueuedOnce
  <2> SUFFICES ASSUME IInv, Exclusive, NEW e \in queue, NEW f \in queue,
                      e.event = f.event,
                      setup.entry = "mapping" \/ body[e.delivery].text = body[f.delivery].text
               PROVE  e = f
    BY DEF QueuedOnce, Exclusive
  <2>1. e = Envelope(e.delivery) /\ f = Envelope(f.delivery)
    BY DEF IInv, QueueInv
  <2>2. /\ e.event = body[e.delivery].content /\ e.fingerprint = Fingerprint(body[e.delivery])
        /\ f.event = body[f.delivery].content /\ f.fingerprint = Fingerprint(body[f.delivery])
    BY <2>1 DEF Envelope
  <2>3. Fingerprint(body[e.delivery]) = Fingerprint(body[f.delivery])
    BY <2>2 DEF Fingerprint
  <2> QED BY <2>2, <2>3 DEF IInv, OnceInv
<1> QED BY <1>1, Invariance, PTL

\* Nothing is refused for what the provider added.
THEOREM Compatible == Spec => []ForwardCompatible
<1>1. IInv => ForwardCompatible
  BY DEF IInv
<1> QED BY <1>1, Invariance, PTL

-----------------------------------------------------------------------------
(* The receiver as an inbox *)

Queued == {e.delivery : e \in queue}

\* Enqueueing adds its own delivery and no other.
LEMMA EnqueueQueued ==
  ASSUME NEW d \in Deliveries, Enqueue(d)
  PROVE  Queued' = Queued \union {d}
<1>1. queue' = queue \union {Envelope(d)} /\ Envelope(d).delivery = d
  BY DEF Enqueue, Envelope
<1> QED BY <1>1 DEF Queued

\* What is in the queue was put there by its own handler, which does so once.
KeptByHandler == \A d \in Queued : stage[d] \in {"enqueued", "acknowledged", "lost"}

LEMMA KeptHolds == Spec => []KeptByHandler
<1>1. Init => KeptByHandler
  BY DEF Init, KeptByHandler, Queued
<1>2. IInv /\ KeptByHandler /\ [Next]_vars => KeptByHandler'
  <2> SUFFICES ASSUME IInv, KeptByHandler, [Next]_vars
               PROVE  KeptByHandler'
    OBVIOUS
  <2>0. DOMAIN stage = Deliveries
    BY DEF IInv, TypeInv
  <2>1. ASSUME NEW d \in Deliveries, Enqueue(d)
        PROVE  KeptByHandler'
    <3>1. Queued' = Queued \union {d}
      BY <2>1, EnqueueQueued
    <3>2. stage' = [stage EXCEPT ![d] = "enqueued"]
      BY <2>1 DEF Enqueue, Move
    <3> QED BY <2>0, <3>1, <3>2 DEF KeptByHandler
  <2>2. ASSUME NEW d \in Deliveries, Handle(d), ~Enqueue(d)
        PROVE  KeptByHandler'
    <3>1. UNCHANGED queue
      BY <2>2 DEF Handle, RequireVerifier, Verify, RefuseText, RefuseFields, Refuse, Parse,
                  Acknowledge, LookUp, Die
    <3>2. PICK s \in Stages : Move(d, s) /\ (stage[d] \in {"enqueued", "acknowledged", "lost"} =>
                                            s \in {"acknowledged", "lost"})
      <4>1. CASE RequireVerifier(d) \/ Verify(d) \/ RefuseText(d) \/ RefuseFields(d) \/ Parse(d)
        BY <4>1 DEF RequireVerifier, Verify, RefuseText, RefuseFields, Refuse, Parse, Arrives, Stages
      <4>2. CASE Acknowledge(d) \/ LookUp(d) \/ Die(d)
        BY <4>2 DEF Acknowledge, LookUp, Die, Stages
      <4> QED BY <2>2, <4>1, <4>2 DEF Handle
    <3> QED BY <2>0, <3>1, <3>2 DEF KeptByHandler, Queued, Move
  <2>3. CASE UNCHANGED vars
    BY <2>3 DEF KeptByHandler, Queued, vars
  <2> QED BY <2>1, <2>2, <2>3 DEF Next, Over
<1> QED BY <1>1, <1>2, Invariance, PTL DEF Spec

\* Fingerprints tell events apart, and only events.
LEMMA SameFingerprint ==
  ASSUME NEW c \in Deliveries, NEW d \in Deliveries
  PROVE  SameEvent(c, d) <=> Fingerprint(body[c]) = Fingerprint(body[d])
  BY DEF SameEvent, Fingerprint

\* A fingerprint that was seen is one of a delivery in the inbox.
LEMMA SeenIsDuplicate ==
  ASSUME IInv, NEW d \in Deliveries
  PROVE  Seen(d) <=> Received!Duplicate(d)
<1>1. \A e \in queue : e.delivery \in Deliveries /\ e.fingerprint = Fingerprint(body[e.delivery])
  BY DEF IInv, QueueInv, Envelope
<1>2. Seen(d) <=> \E c \in Queued : Fingerprint(body[c]) = Fingerprint(body[d])
  BY <1>1 DEF Seen, Queued
<1>3. \A c \in Queued : c \in Deliveries
  BY <1>1 DEF Queued
<1>4. Received!Duplicate(d) <=> \E c \in Queued : SameEvent(c, d)
  BY <1>3 DEF Received!Duplicate, Queued
<1> QED BY <1>2, <1>3, <1>4, SameFingerprint

\* A handler that goes from one stage to another gives the answer they differ in.
LEMMA AnswerStep ==
  ASSUME IInv, NEW d \in Deliveries, NEW s \in Stages,
         UNCHANGED <<setup, body, queue>>, Move(d, s),
         AnswerOf(stage[d]) = "none",
         s = "acknowledged" => Seen(d),
         s = "refused" => d \notin Queued
  PROVE  [Received!Next]_(Received!inboxVars)
<1>1. stage' = [stage EXCEPT ![d] = s] /\ stage \in [Deliveries -> Stages]
  BY DEF Move, IInv, TypeInv
<1> DEFINE answer == [c \in Deliveries |-> AnswerOf(stage[c])]
           same   == {p \in Deliveries \X Deliveries : SameEvent(p[1], p[2])}
<1>2. answer' = [answer EXCEPT ![d] = AnswerOf(s)]
  BY <1>1
<1>3. same' = same /\ Queued' = Queued
  BY DEF SameEvent, Queued
<1>4. CASE AnswerOf(s) = "none"
  <2>1. answer' = answer
    BY <1>2, <1>4
  <2> QED BY <1>3, <2>1 DEF Received!inboxVars, Queued
<1>5. CASE AnswerOf(s) # "none"
  <2>1. Received!Answer(d, AnswerOf(s))
    BY <1>2, <1>3 DEF Received!Answer, Queued
  <2>2. AnswerOf(s) \in {"accepted", "refused", "lost"} /\ (AnswerOf(s) = "accepted" <=> s = "acknowledged")
        /\ (AnswerOf(s) = "refused" <=> s = "refused")
    BY <1>5 DEF AnswerOf, Stages
  <2>3. CASE AnswerOf(s) = "accepted"
    BY <2>1, <2>2, <2>3, SeenIsDuplicate DEF Received!Next, Received!Accept
  <2>4. CASE AnswerOf(s) = "refused"
    BY <2>1, <2>2, <2>4 DEF Received!Next, Received!Refuse, Queued
  <2>5. CASE AnswerOf(s) = "lost"
    BY <2>1, <2>5 DEF Received!Next, Received!Lose
  <2> QED BY <2>2, <2>3, <2>4, <2>5
<1> QED BY <1>4, <1>5

LEMMA KeepStep ==
  ASSUME IInv, KeptByHandler, NEW d \in Deliveries, Enqueue(d)
  PROVE  Received!Next
<1>1. /\ stage[d] \in {"parsed", "unseen"} /\ stage' = [stage EXCEPT ![d] = "enqueued"]
      /\ UNCHANGED <<setup, body>>
  BY DEF Enqueue, Move
<1>2. Queued' = Queued \union {d} /\ d \notin Queued
  BY <1>1, EnqueueQueued DEF KeptByHandler
<1>3. Exclusive => ~Seen(d)
  BY DEF Enqueue, Exclusive, IInv, OnceInv
<1>4. [c \in Deliveries |-> AnswerOf(stage[c])]' = [c \in Deliveries |-> AnswerOf(stage[c])]
  BY <1>1 DEF AnswerOf, IInv, TypeInv
<1>5. AnswerOf(stage[d]) = "none"
  BY <1>1 DEF AnswerOf
<1>6. {p \in Deliveries \X Deliveries : SameEvent(p[1], p[2])}'
        = {p \in Deliveries \X Deliveries : SameEvent(p[1], p[2])}
  BY <1>1 DEF SameEvent
<1>7. Received!Keep(d)
  BY <1>1, <1>2, <1>3, <1>4, <1>5, <1>6, SeenIsDuplicate DEF Received!Keep, Exclusive, Queued
<1> QED BY <1>7 DEF Received!Next

\* For any deliveries and bodies, repeated, overlapping and dying anywhere, and any
\* way to call the SDK: the receiver is an inbox that answers truly, and one without
\* duplicates where the application makes it so.
THEOREM Refinement == Spec => ImplementsInbox
<1>1. Init => Received!Init
  BY DEF Init, Received!Init, Setups, AnswerOf
<1>2. IInv /\ KeptByHandler /\ [Next]_vars => [Received!Next]_(Received!inboxVars)
  <2> SUFFICES ASSUME IInv, KeptByHandler, [Next]_vars
               PROVE  [Received!Next]_(Received!inboxVars)
    OBVIOUS
  <2>1. ASSUME NEW d \in Deliveries, RequireVerifier(d) \/ Verify(d) \/ RefuseText(d) \/ RefuseFields(d)
        PROVE  [Received!Next]_(Received!inboxVars)
    <3>1. stage[d] = "away" /\ Move(d, "refused") /\ UNCHANGED <<setup, body, queue>>
      BY <2>1 DEF RequireVerifier, Verify, RefuseText, RefuseFields, Refuse, Arrives
    <3>2. d \notin Queued
      BY <3>1 DEF KeptByHandler
    <3> QED BY <3>1, <3>2, AnswerStep DEF AnswerOf, Stages
  <2>2. ASSUME NEW d \in Deliveries, Parse(d) \/ LookUp(d) \/ Die(d)
        PROVE  [Received!Next]_(Received!inboxVars)
    <3>1. /\ stage[d] \in {"away", "parsed", "unseen", "enqueued"} /\ UNCHANGED <<setup, body, queue>>
          /\ \E s \in {"parsed", "unseen", "lost"} : Move(d, s)
      BY <2>2 DEF Parse, LookUp, Die, Arrives, Handled
    <3> QED BY <3>1, AnswerStep DEF AnswerOf, Stages
  <2>3. ASSUME NEW d \in Deliveries, Acknowledge(d)
        PROVE  [Received!Next]_(Received!inboxVars)
    <3>1. /\ stage[d] \in {"parsed", "enqueued"} /\ UNCHANGED <<setup, body, queue>>
          /\ Move(d, "acknowledged")
      BY <2>3 DEF Acknowledge
    <3>2. Seen(d)
      BY <2>3 DEF Acknowledge, IInv, QueueInv, Seen, Envelope
    <3> QED BY <3>1, <3>2, AnswerStep DEF AnswerOf, Stages
  <2>4. CASE UNCHANGED vars
    BY <2>4 DEF vars, Received!inboxVars, SameEvent
  <2> QED BY <2>1, <2>2, <2>3, <2>4, KeepStep DEF Next, Handle, Over
<1> QED BY <1>1, <1>2, Invariance, KeptHolds, PTL DEF Spec, Received!Spec, ImplementsInbox
=============================================================================
