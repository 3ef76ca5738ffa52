-------------------------- MODULE TransportProofs ---------------------------
(***************************************************************************)
(* What Transport guarantees for every set of methods and statuses, every  *)
(* Retry-After and every retry count.  The inductive invariant IInv ties   *)
(* the position in the retry loop to what the provider may have seen; the  *)
(* promises of Transport and the refinement of RemoteCall follow from it.  *)
(* The last section is about ResourceCall, which runs the transport under  *)
(* a typed method.                                                         *)
(***************************************************************************)
EXTENDS ResourceCall, SequenceTheorems, TLAPS

-----------------------------------------------------------------------------
(* The inductive invariant *)

\* The loop never runs past the attempts it is allowed.
WithinAttempts ==
  /\ pc = "idle" => attempt = 0
  /\ pc \in {"ready", "waiting", "backoff"} =>
       call.retries >= 0 /\ attempt \in 1 .. MaxAttempts(call)
  /\ pc = "backoff" => attempt < MaxAttempts(call)
  /\ pc = "done" => \/ attempt = 0
                    \/ call.retries >= 0 /\ attempt \in 1 .. MaxAttempts(call)
  /\ pc = "done" <=> outcome # "none"

\* The provider has only what was sent, and takes each attempt once.
SentOnce ==
  /\ posted \union executed \subseteq 1 .. attempt
  /\ posted \intersect executed = {}
  /\ pc = "ready" => attempt \notin posted \union executed

\* A reply that waits to be read says what the provider did with the attempt.
ReplyTruthful ==
  \A r \in reply :
    /\ pc = "waiting"
    /\ attempt \notin posted
    /\ MustHaveExecuted(r.status) => attempt \in executed
    /\ attempt \in executed => MayHaveExecuted(r.status)

\* Each retry so far cost at most 120 half seconds of sleep.
WaitedPerRetry ==
  /\ pc = "idle" => waited = 0
  /\ pc \in {"ready", "waiting"} => waited <= 120 * (attempt - 1)
  /\ pc = "backoff" => waited <= 120 * attempt

IInv ==
  /\ TypeOK
  /\ WithinAttempts
  /\ SentOnce
  /\ ReplyTruthful
  /\ OutcomeHonest
  /\ WaitedPerRetry
  /\ BackoffBudget

-----------------------------------------------------------------------------
(* Lemmas on the retry policy *)

\* One backoff is at most 8 seconds.
LEMMA BackoffBounded == \A n \in Nat : Backoff(n) \in 0 .. 16
BY DEF Backoff

\* One sleep is at most 60 seconds, whatever Retry-After says.
LEMMA RetryDelayBounded ==
  ASSUME NEW header \in Header, NEW n \in Nat
  PROVE  RetryDelay(header, n) \in 0 .. 120
<1>1. CASE header = <<>>
  BY <1>1, BackoffBounded DEF RetryDelay
<1>2. CASE header # <<>>
  <2>1. PICK s \in RetryAfters : header = <<s>>
    BY <1>2 DEF Header
  <2>2. s \in Int /\ header[1] = s
    BY <2>1, RetryAftersAssumption
  <2> QED BY <1>2, <2>2 DEF RetryDelay
<1> QED BY <1>1, <1>2

\* The number of attempts is at most the bound of the model, and one for a
\* mutation.
LEMMA MaxAttemptsBounded ==
  ASSUME NEW c \in Calls, c.retries >= 0
  PROVE  /\ MaxAttempts(c) \in 1 .. MaxRetries + 1
         /\ ~Retryable(c.method) => MaxAttempts(c) = 1
BY MaxRetriesAssumption DEF Calls, MaxAttempts

-----------------------------------------------------------------------------
(* IInv is inductive *)

LEMMA InitIInv == Init => IInv
<1> SUFFICES ASSUME Init PROVE IInv
  OBVIOUS
<1>1. TypeOK
  <2>1. events \in Seq(TransportEvent)
    BY EmptySeq DEF Init
  <2>2. call \in Calls /\ pc \in {"idle", "ready", "waiting", "backoff", "done"}
    BY DEF Init
  <2>3. attempt \in 0 .. MaxRetries + 1 /\ waited \in Nat
    BY MaxRetriesAssumption DEF Init
  <2>4. posted \subseteq 1 .. MaxRetries + 1 /\ executed \subseteq 1 .. MaxRetries + 1
    BY DEF Init
  <2>5. reply \subseteq Replies
    BY DEF Init
  <2>6. outcome \in {"none"} \union Outcomes 
    BY DEF Init
  <2>7.closed \in BOOLEAN
    BY DEF Init
  <2> QED BY <2>1, <2>2, <2>3, <2>4, <2>5, <2>6, <2>7 DEF TypeOK
<1>2. Outcomes \intersect {"none"} = {}
  BY DEF Outcomes, SDKErrors
<1>3. WithinAttempts /\ SentOnce /\ ReplyTruthful /\ WaitedPerRetry /\ BackoffBudget
  BY DEF Init, WithinAttempts, SentOnce, ReplyTruthful, WaitedPerRetry, BackoffBudget
<1>4. OutcomeHonest
  BY <1>2 DEF Init, OutcomeHonest, Confirmed, Refused
<1> QED BY <1>1, <1>3, <1>4 DEF IInv

\* An event emitted by a running loop is a TransportEvent.
LEMMA EmitTyped ==
  ASSUME IInv, pc \in {"ready", "waiting", "backoff"}
  PROVE  /\ attempt \in 1 .. MaxRetries + 1
         /\ \A name \in EventNames : Event(name) \in TransportEvent
         /\ \A name \in EventNames : Emit(name) => events' \in Seq(TransportEvent)
<1>1. attempt \in 1 .. MaxRetries + 1
  BY MaxAttemptsBounded, MaxRetriesAssumption DEF IInv, TypeOK, WithinAttempts
<1>2. ASSUME NEW name \in EventNames
      PROVE  Event(name) \in TransportEvent
  BY <1>1 DEF Event, TransportEvent
<1>3. ASSUME NEW name \in EventNames, Emit(name)
      PROVE  events' \in Seq(TransportEvent)
  BY <1>2, <1>3, AppendProperties DEF Emit, IInv, TypeOK
<1> QED BY <1>1, <1>2, <1>3

\* Every exception the loop raises is an outcome.
LEMMA ErrorsAreOutcomes ==
  /\ \A status \in Nat : ErrorFor(status) \in Outcomes
  /\ "none" \notin Outcomes
  /\ { "returned", "CancelledError", "RuntimeError", "QuestBlueConfigurationError",
       "QuestBlueTimeoutError", "QuestBlueConnectionError", "QuestBlueResponseError" }
       \subseteq Outcomes
BY DEF ErrorFor, Outcomes, SDKErrors

\* A status is a natural number.
LEMMA StatusIsNat == \A r \in Replies : r.status \in Nat /\ r.header \in Header
BY StatusesAssumption DEF Replies

LEMMA TypeStep ==
  ASSUME IInv, [Next]_vars
  PROVE  TypeOK'
<1> USE DEF IInv
<1>0. TypeOK
  OBVIOUS
<1>1. CASE RejectArguments
  BY <1>0, <1>1, ErrorsAreOutcomes DEF RejectArguments, End, TypeOK
<1>2. CASE Begin
  BY <1>0, <1>2, MaxRetriesAssumption DEF Begin, TypeOK
<1>3. CASE Send
  <2>1. attempt \in 1 .. MaxRetries + 1 /\ events' \in Seq(TransportEvent)
    BY <1>3, EmitTyped DEF Send, EventNames
  <2> QED BY <1>0, <1>3, <2>1 DEF Send, TypeOK
<1>4. CASE SendOnClosedClient
  <2>1. events' \in Seq(TransportEvent)
    BY <1>4, EmitTyped DEF SendOnClosedClient, EventNames
  <2> QED BY <1>0, <1>4, <2>1, ErrorsAreOutcomes DEF SendOnClosedClient, End, TypeOK
<1>5. ASSUME pc = "waiting", NEW header \in Header, GoToSleep(header)
      PROVE  TypeOK'
  <2>1. events' \in Seq(TransportEvent)
    BY <1>5, EmitTyped DEF GoToSleep, EventNames
  <2>2. attempt \in 1 .. MaxRetries + 1
    BY <1>5, EmitTyped
  <2>3. RetryDelay(header, attempt - 1) \in 0 .. 120
    BY <2>2, RetryDelayBounded
  <2>4. waited' \in Nat
    <3>1. waited' = waited + RetryDelay(header, attempt - 1)
      BY <1>5 DEF GoToSleep
    <3>2. waited \in Nat
      BY <1>0 DEF TypeOK
    <3> QED BY <2>3, <3>1, <3>2
  <2> QED BY <1>0, <1>5, <2>1, <2>4 DEF GoToSleep, TypeOK
<1>6. ASSUME pc = "waiting", NEW error \in Outcomes, GiveUp(error)
      PROVE  TypeOK'
  <2>1. events' \in Seq(TransportEvent)
    BY <1>6, EmitTyped DEF GiveUp, EventNames
  <2> QED BY <1>0, <1>6, <2>1 DEF GiveUp, End, TypeOK
<1>7. CASE TimeoutFires
  BY <1>5, <1>6, <1>7, ErrorsAreOutcomes DEF TimeoutFires, Header
<1>8. CASE ConnectionFails
  BY <1>5, <1>6, <1>8, ErrorsAreOutcomes DEF ConnectionFails, Header
<1>9. CASE ReceiveRetryable
  BY <1>0, <1>5, <1>9, StatusIsNat DEF ReceiveRetryable, TypeOK
<1>10. CASE ReceiveFailure
  BY <1>0, <1>6, <1>10, StatusIsNat, ErrorsAreOutcomes DEF ReceiveFailure, TypeOK
<1>11. CASE ReceiveSuccess
  <2>1. pc = "waiting"
    BY <1>11 DEF ReceiveSuccess
  <2>2. Emit("response") => events' \in Seq(TransportEvent)
    BY <2>1, EmitTyped DEF EventNames
  <2>3. Event("response") \in TransportEvent /\ Event("error") \in TransportEvent
    BY <2>1, EmitTyped DEF EventNames
  <2>4. <<Event("response"), Event("error")>> \in Seq(TransportEvent)
    BY <2>3
  <2>5. events \o <<Event("response"), Event("error")>> \in Seq(TransportEvent)
    BY <1>0, <2>4, ConcatProperties DEF TypeOK
  <2>6. events' \in Seq(TransportEvent)
    BY <1>11, <2>2, <2>5 DEF ReceiveSuccess
  <2> QED BY <1>0, <1>11, <2>6, ErrorsAreOutcomes DEF ReceiveSuccess, End, TypeOK
<1>12. CASE Wake
  <2>1. attempt + 1 \in 0 .. MaxRetries + 1
    BY <1>0, <1>12, MaxAttemptsBounded, MaxRetriesAssumption DEF Wake, WithinAttempts, TypeOK
  <2> QED BY <1>0, <1>12, <2>1 DEF Wake, TypeOK
<1>13. CASE CancelWaiting
  <2>1. events' \in Seq(TransportEvent)
    BY <1>13, EmitTyped DEF CancelWaiting, EventNames
  <2> QED BY <1>0, <1>13, <2>1, ErrorsAreOutcomes DEF CancelWaiting, End, TypeOK
<1>14. CASE CancelBackoff
  BY <1>0, <1>14, ErrorsAreOutcomes DEF CancelBackoff, End, TypeOK
<1>15. CASE Close
  BY <1>0, <1>15 DEF Close, TypeOK
<1>16. CASE ProviderStep
  BY <1>0, <1>16 DEF ProviderStep, Provide, TypeOK
<1>17. CASE Ended \/ UNCHANGED vars
  BY <1>0, <1>17 DEF Ended, vars, TypeOK
<1> QED
  BY <1>1, <1>2, <1>3, <1>4, <1>7, <1>8, <1>9, <1>10, <1>11, <1>12, <1>13, <1>14,
     <1>15, <1>16, <1>17 DEF Next, AsyncRequest, SyncRequest

\* A sleep is announced only when another attempt is left, and only a sleep
\* adds to the time waited.
LEMMA ControlStep ==
  ASSUME IInv, [Next]_vars
  PROVE  WithinAttempts' /\ WaitedPerRetry' /\ BackoffBudget'
<1> USE DEF IInv, WithinAttempts, WaitedPerRetry, BackoffBudget
<1>0. /\ call \in Calls /\ call.retries \in Int /\ waited \in Nat /\ attempt \in Nat
      /\ MaxAttempts(call) \in Int
      /\ call.retries >= 0 => MaxAttempts(call) \in 1 .. MaxRetries + 1
  BY MaxAttemptsBounded, MaxRetriesAssumption DEF TypeOK, Calls, MaxAttempts
<1>1. CASE RejectArguments
  BY <1>0, <1>1 DEF RejectArguments, End
<1>2. CASE Begin
  BY <1>0, <1>2 DEF Begin, MaxAttempts
<1>3. CASE Send
  BY <1>0, <1>3 DEF Send, MaxAttempts
<1>4. CASE SendOnClosedClient
  BY <1>0, <1>4 DEF SendOnClosedClient, End, MaxAttempts
<1>5. ASSUME pc = "waiting", NEW header \in Header, GoToSleep(header)
      PROVE  WithinAttempts' /\ WaitedPerRetry' /\ BackoffBudget'
  <2>1. RetryDelay(header, attempt - 1) \in 0 .. 120
    BY <1>0, <1>5, RetryDelayBounded
  <2>2. waited' = waited + RetryDelay(header, attempt - 1)
    BY <1>5 DEF GoToSleep
  <2>3. waited' <= 120 * attempt
    BY <1>0, <1>5, <2>1, <2>2
  <2>4. attempt <= MaxAttempts(call) - 1 /\ 120 * attempt <= 120 * (MaxAttempts(call) - 1)
    BY <1>0, <1>5 DEF GoToSleep
  <2> HIDE DEF WithinAttempts
  <2>5. WithinAttempts'
    BY <1>0, <1>5 DEF GoToSleep, WithinAttempts, MaxAttempts
  <2> QED BY <1>0, <1>5, <2>2, <2>3, <2>4, <2>5, <2>1 DEF GoToSleep, MaxAttempts
<1>6. ASSUME pc = "waiting", NEW error \in Outcomes, GiveUp(error)
      PROVE  WithinAttempts' /\ WaitedPerRetry' /\ BackoffBudget'
  BY <1>0, <1>6, ErrorsAreOutcomes DEF GiveUp, End, MaxAttempts
<1>7. CASE TimeoutFires
  BY <1>5, <1>6, <1>7, ErrorsAreOutcomes DEF TimeoutFires, Header
<1>8. CASE ConnectionFails
  BY <1>5, <1>6, <1>8, ErrorsAreOutcomes DEF ConnectionFails, Header
<1>9. CASE ReceiveRetryable
  BY <1>5, <1>9, StatusIsNat DEF ReceiveRetryable, TypeOK
<1>10. CASE ReceiveFailure
  BY <1>6, <1>10, StatusIsNat, ErrorsAreOutcomes DEF ReceiveFailure, TypeOK
<1>11. CASE ReceiveSuccess
  BY <1>0, <1>11 DEF ReceiveSuccess, End, MaxAttempts
<1>12. CASE Wake
  BY <1>0, <1>12 DEF Wake, MaxAttempts
<1>13. CASE CancelWaiting
  BY <1>0, <1>13 DEF CancelWaiting, End, MaxAttempts
<1>14. CASE CancelBackoff
  BY <1>0, <1>14 DEF CancelBackoff, End, MaxAttempts
<1>15. CASE Close
  BY <1>0, <1>15 DEF Close, MaxAttempts
<1>16. CASE ProviderStep
  BY <1>0, <1>16 DEF ProviderStep, Provide, MaxAttempts
<1>17. CASE Ended \/ UNCHANGED vars
  BY <1>0, <1>17 DEF Ended, vars, MaxAttempts
<1> QED
  BY <1>1, <1>2, <1>3, <1>4, <1>7, <1>8, <1>9, <1>10, <1>11, <1>12, <1>13, <1>14,
     <1>15, <1>16, <1>17 DEF Next, AsyncRequest, SyncRequest

\* What an error status says of the provider is what ErrorFor lets the
\* application conclude.
LEMMA ErrorClassification ==
  \A status \in Nat :
    IsFailure(status) =>
      /\ ErrorFor(status) \notin Confirmed
      /\ ErrorFor(status) \in Refused => ~MayHaveExecuted(status)
BY DEF IsFailure, ErrorFor, Confirmed, Refused, InDoubt, MayHaveExecuted, MustHaveExecuted

\* What each of the other endings says.
LEMMA EndingClassification ==
  /\ {"none", "CancelledError", "RuntimeError", "QuestBlueConfigurationError",
       "QuestBlueTimeoutError", "QuestBlueConnectionError"} \intersect Confirmed = {}
  /\ {"none", "CancelledError", "QuestBlueTimeoutError", "QuestBlueConnectionError",
       "returned", "QuestBlueResponseError"} \intersect Refused = {}
BY DEF Confirmed, Refused, InDoubt, Outcomes, SDKErrors

\* A mutation never gets to a second attempt.
LEMMA MutationsAttemptOnce == IInv /\ Mutating => attempt <= 1
BY MaxAttemptsBounded DEF IInv, TypeOK, WithinAttempts, Mutating

LEMMA TruthStep ==
  ASSUME IInv, [Next]_vars
  PROVE  SentOnce' /\ ReplyTruthful' /\ OutcomeHonest'
<1> USE DEF IInv, SentOnce, ReplyTruthful, OutcomeHonest
<1>0. /\ attempt \in Nat /\ posted \subseteq Nat /\ executed \subseteq Nat
      /\ Mutating => attempt <= 1
      /\ outcome = "none" => outcome \notin Confirmed \union Refused
  BY MutationsAttemptOnce, EndingClassification DEF TypeOK
<1>1. CASE RejectArguments
  BY <1>0, <1>1, EndingClassification DEF RejectArguments, End, WithinAttempts, Mutating
<1>2. CASE Begin
  BY <1>0, <1>2, EndingClassification DEF Begin, WithinAttempts, Mutating
<1>3. CASE Send
  BY <1>0, <1>3 DEF Send, WithinAttempts, Mutating
<1>4. CASE SendOnClosedClient
  <2>1. Mutating => posted \union executed = {}
    BY <1>0, <1>4 DEF SendOnClosedClient, WithinAttempts
  <2> QED BY <1>4, <2>1, EndingClassification DEF SendOnClosedClient, End, WithinAttempts, Mutating
<1>5. ASSUME pc = "waiting", NEW header \in Header, GoToSleep(header)
      PROVE  SentOnce' /\ ReplyTruthful' /\ OutcomeHonest'
  BY <1>0, <1>5 DEF GoToSleep, Mutating
<1>6. ASSUME pc = "waiting", NEW error \in Outcomes, GiveUp(error), error \notin Confirmed,
             error \in Refused /\ Mutating => posted \union executed = {}
      PROVE  SentOnce' /\ ReplyTruthful' /\ OutcomeHonest'
  BY <1>0, <1>6 DEF GiveUp, End, Mutating
<1>7. CASE TimeoutFires
  BY <1>5, <1>6, <1>7, ErrorsAreOutcomes, EndingClassification DEF TimeoutFires, Header
<1>8. CASE ConnectionFails
  BY <1>5, <1>6, <1>8, ErrorsAreOutcomes, EndingClassification DEF ConnectionFails, Header
<1>9. CASE ReceiveRetryable
  BY <1>5, <1>9, StatusIsNat DEF ReceiveRetryable, TypeOK
<1>10. CASE ReceiveFailure
  <2>1. PICK r \in reply : IsFailure(r.status) /\ GiveUp(ErrorFor(r.status))
    BY <1>10 DEF ReceiveFailure
  <2>2. r.status \in Nat
    BY StatusIsNat DEF TypeOK
  <2>3. pc = "waiting" /\ ErrorFor(r.status) \in Outcomes \ Confirmed
    BY <1>10, <2>1, <2>2, ErrorsAreOutcomes, ErrorClassification DEF ReceiveFailure
  <2>4. ErrorFor(r.status) \in Refused => attempt \notin posted \union executed
    BY <2>1, <2>2, ErrorClassification
  <2>5. ErrorFor(r.status) \in Refused /\ Mutating => posted \union executed = {}
    BY <1>0, <2>4
  <2> QED BY <1>6, <2>1, <2>3, <2>5
<1>11. CASE ReceiveSuccess
  <2>1. PICK r \in reply : ~IsFailure(r.status)
    BY <1>11 DEF ReceiveSuccess
  <2>2. r.status \in Nat
    BY StatusIsNat DEF TypeOK
  <2>3. attempt \in executed
    BY <2>1, <2>2 DEF IsFailure, MustHaveExecuted
  <2> QED BY <1>11, <2>3, EndingClassification DEF ReceiveSuccess, End, Mutating
<1>12. CASE Wake
  BY <1>0, <1>12, EndingClassification DEF Wake, WithinAttempts, Mutating
<1>13. CASE CancelWaiting
  BY <1>0, <1>13, EndingClassification DEF CancelWaiting, End, Mutating
<1>14. CASE CancelBackoff
  BY <1>0, <1>14, EndingClassification DEF CancelBackoff, End, Mutating
<1>15. CASE Close
  BY <1>15 DEF Close, Mutating
<1>16. CASE ProviderStep
  <2>1. PICK a \in posted, r \in Replies, performed \in BOOLEAN : Provide(a, r, performed)
    BY <1>16 DEF ProviderStep
  <2>2. SentOnce'
    BY <1>0, <2>1 DEF Provide
  <2>3. ReplyTruthful'
    BY <1>0, <2>1 DEF Provide
  <2>4. OutcomeHonest'
    BY <1>0, <2>1 DEF Provide, Mutating
  <2> QED BY <2>2, <2>3, <2>4
<1>17. CASE Ended \/ UNCHANGED vars
  BY <1>17 DEF Ended, vars, Mutating
<1> QED
  BY <1>1, <1>2, <1>3, <1>4, <1>7, <1>8, <1>9, <1>10, <1>11, <1>12, <1>13, <1>14,
     <1>15, <1>16, <1>17 DEF Next, AsyncRequest, SyncRequest

-----------------------------------------------------------------------------
(* The theorems *)

\* IInv holds in every reachable state.
THEOREM Invariance == Spec => []IInv
<1>1. IInv /\ [Next]_vars => IInv'
  BY TypeStep, ControlStep, TruthStep DEF IInv
<1> QED BY InitIInv, <1>1, PTL DEF Spec

\* Every variable of request() stays in its range.
THEOREM TypeCorrect == Spec => []TypeOK
<1>1. IInv => TypeOK
  BY DEF IInv
<1> QED BY Invariance, <1>1, PTL

\* No retry, late delivery or cancellation makes the provider perform a
\* mutation twice.
THEOREM AtMostOnce == Spec => []MutationAtMostOnce
<1>1. IInv => MutationAtMostOnce
  <2> SUFFICES ASSUME IInv, Mutating, NEW a \in posted \union executed,
                      NEW b \in posted \union executed
               PROVE  a = b
    BY DEF MutationAtMostOnce
  <2>1. attempt <= 1 /\ attempt \in Nat
    BY MutationsAttemptOnce DEF IInv, TypeOK
  <2> QED BY <2>1 DEF IInv, SentOnce
<1> QED BY Invariance, <1>1, PTL

\* The exception or value request() ends with never contradicts what the
\* provider did, or may still do, with a mutation.
THEOREM Honest == Spec => []OutcomeHonest
<1>1. IInv => OutcomeHonest
  BY DEF IInv
<1> QED BY Invariance, <1>1, PTL

\* Whatever Retry-After headers say, the time slept is bounded by the retries
\* the caller allowed.
THEOREM BoundedBackoff == Spec => []BackoffBudget
<1>1. IInv => BackoffBudget
  BY DEF IInv
<1> QED BY Invariance, <1>1, PTL

-----------------------------------------------------------------------------
(* Telemetry *)

\* Follows, for any sequence of events.
FollowsIn(s, i) ==
  CASE s[i].name = "request" ->
         IF i = 1 THEN s[i].attempt = 1
         ELSE s[i - 1] = [name |-> "retry", attempt |-> s[i].attempt - 1]
    [] s[i].name = "error" ->
         /\ i > 1
         /\ s[i - 1].name \in {"request", "response"}
         /\ s[i - 1].attempt = s[i].attempt
    [] OTHER ->
         i > 1 /\ s[i - 1] = [name |-> "request", attempt |-> s[i].attempt]

WellFormed(s) == \A i \in 1 .. Len(s) : FollowsIn(s, i)

\* The event e may come after the trace s.
MayFollow(s, e) ==
  CASE e.name = "request" ->
         IF s = <<>> THEN e.attempt = 1
         ELSE s[Len(s)] = [name |-> "retry", attempt |-> e.attempt - 1]
    [] e.name = "error" ->
         /\ s # <<>>
         /\ s[Len(s)].name \in {"request", "response"}
         /\ s[Len(s)].attempt = e.attempt
    [] OTHER ->
         s # <<>> /\ s[Len(s)] = [name |-> "request", attempt |-> e.attempt]

EndsWith(s, e) == s # <<>> /\ s[Len(s)] = e

\* Appending what may follow keeps a trace well formed.
LEMMA WellFormedAppend ==
  ASSUME NEW s \in Seq(TransportEvent), NEW e \in TransportEvent, WellFormed(s), MayFollow(s, e)
  PROVE  /\ Append(s, e) \in Seq(TransportEvent)
         /\ WellFormed(Append(s, e))
         /\ EndsWith(Append(s, e), e)
<1> DEFINE t == Append(s, e)
<1>1. /\ t \in Seq(TransportEvent) /\ Len(t) = Len(s) + 1 /\ Len(s) \in Nat
      /\ t[Len(s) + 1] = e
      /\ \A i \in 1 .. Len(s) : t[i] = s[i]
      /\ s = <<>> <=> Len(s) = 0
      /\ t = <<>> <=> Len(t) = 0
  BY AppendProperties, EmptySeq
<1> HIDE DEF t
<1>2. ASSUME NEW i \in 1 .. Len(s) PROVE FollowsIn(t, i)
  <2>1. FollowsIn(s, i) /\ t[i] = s[i] /\ (i > 1 => t[i - 1] = s[i - 1])
    BY <1>1, <1>2 DEF WellFormed
  <2> QED BY <2>1 DEF FollowsIn
<1>3. FollowsIn(t, Len(s) + 1)
  <2>1. CASE s = <<>>
    BY <1>1, <2>1 DEF FollowsIn, MayFollow
  <2>2. CASE s # <<>>
    <3>1. Len(s) + 1 > 1 /\ Len(s) + 1 # 1 /\ (Len(s) + 1) - 1 = Len(s) /\ t[Len(s)] = s[Len(s)]
      BY <1>1, <2>2
    <3> QED BY <1>1, <2>2, <3>1 DEF FollowsIn, MayFollow
  <2> QED BY <2>1, <2>2
<1>4. WellFormed(t)
  <2> SUFFICES ASSUME NEW i \in 1 .. Len(t) PROVE FollowsIn(t, i)
    BY DEF WellFormed
  <2>1. i \in 1 .. Len(s) \/ i = Len(s) + 1
    BY <1>1
  <2> QED BY <1>2, <1>3, <2>1
<1>5. EndsWith(t, e)
  BY <1>1 DEF EndsWith
<1> QED BY <1>1, <1>4, <1>5 DEF t

\* The trace is well formed, its last event says where the loop is and, when
\* the call is over, how it ended.
EInv ==
  /\ WellFormed(events)
  /\ pc = "idle" => events = <<>>
  /\ pc = "ready" => IF attempt = 1 THEN events = <<>>
                     ELSE EndsWith(events, [name |-> "retry", attempt |-> attempt - 1])
  /\ pc = "waiting" => EndsWith(events, Event("request"))
  /\ pc = "backoff" => EndsWith(events, Event("retry"))
  /\ OutcomeReported

\* An event that is emitted after a request event and may follow it keeps the
\* trace well formed.
LEMMA EmitAfterRequest ==
  ASSUME IInv, EInv, pc = "waiting", NEW name \in EventNames \ {"request"}, Emit(name)
  PROVE  WellFormed(events') /\ EndsWith(events', Event(name)) /\ events' \in Seq(TransportEvent)
<1>1. Event(name) \in TransportEvent /\ events \in Seq(TransportEvent)
  BY EmitTyped DEF IInv, TypeOK
<1>2. MayFollow(events, Event(name))
  <2>1. events # <<>> /\ events[Len(events)] = Event("request")
    BY DEF EInv, EndsWith
  <2> QED BY <2>1 DEF MayFollow, Event, EventNames
<1>3. events' = Append(events, Event(name))
  BY DEF Emit
<1> QED BY <1>1, <1>2, <1>3, WellFormedAppend DEF EInv

\* Every step keeps the trace in order.
LEMMA EInvStep ==
  ASSUME IInv, EInv, IInv', [Next]_vars
  PROVE  EInv'
<1>0. /\ attempt \in Nat /\ "none" \notin Outcomes /\ events \in Seq(TransportEvent)
      /\ pc # "done" => outcome = "none"
  BY ErrorsAreOutcomes DEF IInv, TypeOK, WithinAttempts
<1> USE DEF EInv, OutcomeReported
<1>1. CASE RejectArguments
  BY <1>1 DEF RejectArguments, End
<1>2. CASE Begin
  BY <1>0, <1>2 DEF Begin
<1>3. CASE Send
  <2>1. pc = "ready" /\ events' = Append(events, Event("request")) /\ attempt' = attempt
        /\ pc' = "waiting" /\ outcome' = outcome
    BY <1>3 DEF Send, Emit
  <2>2. Event("request") \in TransportEvent
    BY <2>1, EmitTyped DEF EventNames
  <2>3. MayFollow(events, Event("request"))
    BY <2>1 DEF MayFollow, EndsWith, Event
  <2>4. WellFormed(events') /\ EndsWith(events', Event("request"))
    BY <1>0, <2>1, <2>2, <2>3, WellFormedAppend
  <2> QED BY <1>0, <2>1, <2>4 DEF Event
<1>4. CASE SendOnClosedClient
  <2>1. pc = "ready" /\ events' = Append(events, Event("request")) /\ pc' = "done"
        /\ outcome' = "RuntimeError"
    BY <1>4 DEF SendOnClosedClient, Emit, End
  <2>2. Event("request") \in TransportEvent
    BY <2>1, EmitTyped DEF EventNames
  <2>3. MayFollow(events, Event("request"))
    BY <2>1 DEF MayFollow, EndsWith, Event
  <2>4. WellFormed(events') /\ EndsWith(events', Event("request"))
    BY <1>0, <2>1, <2>2, <2>3, WellFormedAppend
  <2> QED BY <2>1, <2>4 DEF EndsWith, LastEvent, Event
<1>5. ASSUME pc = "waiting", NEW header, GoToSleep(header)
      PROVE  EInv'
  <2>1. WellFormed(events') /\ EndsWith(events', Event("retry"))
    BY <1>5, EmitAfterRequest DEF GoToSleep, EventNames
  <2> QED BY <1>0, <1>5, <2>1 DEF GoToSleep, Event
<1>6. ASSUME pc = "waiting", NEW error \in Outcomes \ {"QuestBlueConfigurationError", "returned",
                                                     "CancelledError", "RuntimeError"},
             GiveUp(error)
      PROVE  EInv'
  <2>1. WellFormed(events') /\ EndsWith(events', Event("error"))
    BY <1>6, EmitAfterRequest DEF GiveUp, EventNames
  <2>2. outcome' = error /\ pc' = "done"
    BY <1>6 DEF GiveUp, End
  <2> QED BY <1>0, <1>6, <2>1, <2>2 DEF EndsWith, LastEvent, Event
<1>7. CASE TimeoutFires
  BY <1>5, <1>6, <1>7 DEF TimeoutFires, Outcomes, SDKErrors
<1>8. CASE ConnectionFails
  BY <1>5, <1>6, <1>8 DEF ConnectionFails, Outcomes, SDKErrors
<1>9. CASE ReceiveRetryable
  BY <1>5, <1>9 DEF ReceiveRetryable
<1>10. CASE ReceiveFailure
  BY <1>6, <1>10 DEF ReceiveFailure, ErrorFor, Outcomes, SDKErrors
<1>11. CASE ReceiveSuccess
  <2>0. pc = "waiting" /\ pc' = "done"
    BY <1>11 DEF ReceiveSuccess, End
  <2>1. CASE Emit("response") /\ outcome' = "returned"
    <3>1. WellFormed(events') /\ EndsWith(events', Event("response"))
      BY <2>0, <2>1, EmitAfterRequest DEF EventNames
    <3> QED BY <2>0, <2>1, <3>1 DEF EndsWith, LastEvent, Event
  <2>2. CASE /\ events' = events \o <<Event("response"), Event("error")>>
             /\ outcome' = "QuestBlueResponseError"
    <3> DEFINE s == Append(events, Event("response"))
    <3>1. Event("response") \in TransportEvent /\ Event("error") \in TransportEvent
      BY <2>0, EmitTyped DEF EventNames
    <3>2. MayFollow(events, Event("response"))
      BY <2>0 DEF MayFollow, EndsWith, Event
    <3>3. s \in Seq(TransportEvent) /\ WellFormed(s) /\ EndsWith(s, Event("response"))
      BY <1>0, <3>1, <3>2, WellFormedAppend
    <3>4. events' = Append(s, Event("error"))
      BY <1>0, <2>2, <3>1
    <3> HIDE DEF s
    <3>5. MayFollow(s, Event("error"))
      BY <3>3 DEF MayFollow, EndsWith, Event
    <3>6. WellFormed(events') /\ EndsWith(events', Event("error"))
      BY <3>1, <3>3, <3>4, <3>5, WellFormedAppend
    <3> QED BY <2>0, <2>2, <3>6 DEF EndsWith, LastEvent, Event
  <2> QED BY <1>11, <2>1, <2>2 DEF ReceiveSuccess, End
<1>12. CASE Wake
  BY <1>0, <1>12 DEF Wake, Event, EndsWith, IInv, WithinAttempts
<1>13. CASE CancelWaiting
  <2>1. WellFormed(events') /\ EndsWith(events', Event("cancelled"))
    BY <1>13, EmitAfterRequest DEF CancelWaiting, EventNames
  <2> QED BY <1>13, <2>1 DEF CancelWaiting, End, EndsWith, LastEvent, Event
<1>14. CASE CancelBackoff
  BY <1>14 DEF CancelBackoff, End, EndsWith, LastEvent, Event
<1>15. CASE Close
  BY <1>15 DEF Close, Event, LastEvent
<1>16. CASE ProviderStep
  BY <1>16 DEF ProviderStep, Provide, Event, LastEvent
<1>17. CASE Ended \/ UNCHANGED vars
  BY <1>17 DEF Ended, vars, Event, LastEvent
<1> QED
  BY <1>1, <1>2, <1>3, <1>4, <1>7, <1>8, <1>9, <1>10, <1>11, <1>12, <1>13, <1>14,
     <1>15, <1>16, <1>17 DEF Next, AsyncRequest, SyncRequest

\* The trace of every call is well formed, and its last event tells its ending.
LEMMA TelemetryInvariance == Spec => []EInv
<1>1. Init => EInv
  BY EmptySeq DEF Init, EInv, WellFormed, OutcomeReported
<1>2. IInv /\ IInv' /\ EInv /\ [Next]_vars => EInv'
  BY EInvStep
<1> QED BY Invariance, <1>1, <1>2, PTL DEF Spec

\* For every retry count, reply, cancellation and close, each event of a call
\* is one that its predecessor allows.
THEOREM WellFormedTelemetry == Spec => []EventProtocol
<1>1. EInv => EventProtocol
  BY DEF EInv, EventProtocol, WellFormed, Follows, FollowsIn
<1> QED BY TelemetryInvariance, <1>1, PTL

\* And the last event names the ending, with the exceptions OutcomeReported lists.
THEOREM EndingReported == Spec => []OutcomeReported
<1>1. EInv => OutcomeReported
  BY DEF EInv
<1> QED BY TelemetryInvariance, <1>1, PTL

-----------------------------------------------------------------------------
(* Refinement of RemoteCall *)

\* Most steps leave the abstract call alone.
LEMMA QuietStep ==
  ASSUME call' = call, executed' = executed, outcome' = outcome
  PROVE  UNCHANGED Remote!callVars
BY DEF Remote!callVars, Mutating

\* A step that ends the call is the abstract Finish with that ending.
LEMMA EndStep ==
  ASSUME IInv, IInv', NEW o \in Outcomes, pc # "done", End(o),
         call' = call, attempt' = attempt, posted' = posted, executed' = executed
  PROVE  Remote!Finish(o)
<1>1. outcome = "none" /\ outcome' = o
  BY DEF IInv, WithinAttempts, End
<1>2. Mutating' = Mutating
  BY DEF Mutating
<1>3. /\ o \in Confirmed => executed # {}
      /\ o \in Refused /\ Mutating => executed = {}
  BY <1>1, <1>2 DEF IInv, OutcomeHonest
<1> QED BY <1>1, <1>2, <1>3 DEF Remote!Finish, Remote!Confirmed, Remote!Refused,
     Remote!InDoubt, Remote!Outcomes, Remote!SDKErrors, Confirmed, Refused, InDoubt,
     Outcomes, SDKErrors

\* The provider performing an attempt is the abstract Execute.
LEMMA ExecuteStep ==
  ASSUME IInv, NEW a \in posted, NEW r \in Replies, NEW performed \in BOOLEAN,
         Provide(a, r, performed)
  PROVE  [Remote!Next]_Remote!callVars
<1>1. CASE ~performed
  BY <1>1, QuietStep DEF Provide
<1>2. CASE performed
  <2>1. a \in 1 .. MaxRetries + 1 /\ executed' = executed \union {a}
    BY <1>2 DEF IInv, TypeOK, Provide
  <2>2. Mutating' = Mutating /\ outcome' = outcome
    BY DEF Provide, Mutating
  <2>3. ASSUME Mutating
        PROVE  executed = {} /\ outcome \in {"none"} \union InDoubt
    <3>1. attempt <= 1 /\ attempt \in Nat /\ outcome \in {"none"} \union Outcomes
      BY <2>3, MutationsAttemptOnce DEF IInv, TypeOK
    <3>2. executed = {} /\ attempt \notin executed
      BY <3>1 DEF IInv, SentOnce
    <3>3. outcome \notin Confirmed /\ outcome \notin Refused
      BY <2>3, <3>2 DEF IInv, OutcomeHonest
    <3> QED BY <3>1, <3>2, <3>3 DEF Refused
  <2>4. Remote!Execute
    BY <2>1, <2>2, <2>3 DEF Remote!Execute, Remote!InDoubt, InDoubt
  <2> QED BY <2>4 DEF Remote!Next
<1> QED BY <1>1, <1>2

\* Every step of the transport is a step of the abstract call, or none.
LEMMA RefinementStep ==
  ASSUME IInv, IInv', [Next]_vars
  PROVE  [Remote!Next]_Remote!callVars
<1> DEFINE Unmoved == call' = call /\ attempt' = attempt /\ posted' = posted /\ executed' = executed
<1>1. ASSUME NEW o \in Outcomes, pc # "done", End(o), Unmoved
      PROVE  [Remote!Next]_Remote!callVars
  BY <1>1, EndStep DEF Remote!Next, Remote!Outcomes, Outcomes, Remote!SDKErrors, SDKErrors
<1>2. ASSUME NEW header, GoToSleep(header)
      PROVE  UNCHANGED Remote!callVars
  BY <1>2, QuietStep DEF GoToSleep
<1>3. ASSUME NEW o \in Outcomes, pc = "waiting", GiveUp(o)
      PROVE  [Remote!Next]_Remote!callVars
  BY <1>1, <1>3 DEF GiveUp
<1>4. CASE RejectArguments
  BY <1>1, <1>4, ErrorsAreOutcomes DEF RejectArguments
<1>5. CASE Begin \/ Send \/ Wake \/ Close \/ Ended \/ UNCHANGED vars
  BY <1>5, QuietStep DEF Begin, Send, Wake, Close, Ended, vars
<1>6. CASE SendOnClosedClient
  BY <1>1, <1>6, ErrorsAreOutcomes DEF SendOnClosedClient
<1>7. CASE TimeoutFires
  BY <1>2, <1>3, <1>7, ErrorsAreOutcomes DEF TimeoutFires
<1>8. CASE ConnectionFails
  BY <1>2, <1>3, <1>8, ErrorsAreOutcomes DEF ConnectionFails
<1>9. CASE ReceiveRetryable
  BY <1>2, <1>9 DEF ReceiveRetryable
<1>10. CASE ReceiveFailure
  BY <1>3, <1>10, ErrorsAreOutcomes, StatusIsNat DEF ReceiveFailure, IInv, TypeOK
<1>11. CASE ReceiveSuccess
  BY <1>1, <1>11, ErrorsAreOutcomes DEF ReceiveSuccess
<1>12. CASE CancelWaiting \/ CancelBackoff
  BY <1>1, <1>12, ErrorsAreOutcomes DEF CancelWaiting, CancelBackoff
<1>13. CASE ProviderStep
  BY <1>13, ExecuteStep DEF ProviderStep
<1> QED
  BY <1>4, <1>5, <1>6, <1>7, <1>8, <1>9, <1>10, <1>11, <1>12, <1>13
     DEF Next, AsyncRequest, SyncRequest

\* The transport, with its retries and its unreliable network, implements the
\* promise of RemoteCall.
THEOREM Refinement == Spec => ImplementsRemoteCall
<1>1. Init => Remote!Init
  BY DEF Init, Remote!Init, Mutating, Retryable
<1>2. Spec => [][Remote!Next]_Remote!callVars
  <2>1. IInv /\ IInv' /\ [Next]_vars => [Remote!Next]_Remote!callVars
    BY RefinementStep
  <2> QED BY Invariance, <2>1, PTL DEF Spec
<1> QED BY <1>1, <1>2, PTL DEF Spec, ImplementsRemoteCall, Remote!Spec

-----------------------------------------------------------------------------
(* Typed methods *)

\* A typed method only runs the transport: every behaviour of ResourceCall is
\* one of Transport, so that all of the above holds under a typed method too.
LEMMA TypedIsTransport == TypedSpec => Spec
<1>1. TypedInit => Init
  BY DEF TypedInit
<1>2. [TypedNext]_typedVars => [Next]_vars
  <2> SUFFICES ASSUME [TypedNext]_typedVars
               PROVE  [Next]_vars
    OBVIOUS
  <2>1. CASE RefuseArguments \/ BuildRequest \/ PassException
    BY <2>1 DEF RefuseArguments, BuildRequest, PassException, Return
  <2>2. CASE RunRequest(AsyncRequest)
    BY <2>2 DEF RunRequest, Next
  <2>3. CASE \E b \in Bodies : ReadBody(b)
    BY <2>3 DEF ReadBody, Return
  <2>4. CASE Around
    BY <2>4 DEF Around, Next
  <2>5. CASE TypedOver \/ UNCHANGED typedVars
    BY <2>5 DEF TypedOver, typedVars
  <2> QED BY <2>1, <2>2, <2>3, <2>4, <2>5 DEF TypedNext, Method
<1> QED BY <1>1, <1>2, PTL DEF TypedSpec, Spec

\* What each reader makes of a body, and that none makes a value of a warning.
LEMMA ReadersTyped ==
  \A b \in Bodies :
    /\ {ModelResponse(b), WrappedResponse(b), LNPResponse(b), EmptyResponse(b),
        EmptyServerResponse(b), EmptyLNPResponse(b)} \subseteq Parsed
    /\ b.warning # "absent" =>
         "value" \notin {ModelResponse(b), WrappedResponse(b), LNPResponse(b),
                         EmptyResponse(b), EmptyServerResponse(b), EmptyLNPResponse(b)}
BY DEF Bodies, Parsed, WarningOf, ModelResponse, WrappedResponse, LNPResponse, EmptyResponse,
       EmptyServerResponse, EmptyLNPResponse

\* The readers that Read knows.
Readers == {"model", "wrapped", "lnp", "empty", "empty server", "empty lnp"}

\* The columns of the tables: a method that changes something never uses a verb
\* that the transport repeats.
Sound(row) ==
  /\ row.reader \in Readers
  /\ row.builds \in BOOLEAN /\ row.changes \in BOOLEAN
  /\ row.changes => ~Retryable(row.verb)

\* A row is sound when its columns are.
LEMMA RowSound ==
  ASSUME NEW resource, NEW name, NEW verb, NEW changes \in BOOLEAN, NEW reader \in Readers,
         NEW builds \in BOOLEAN, changes => ~Retryable(verb)
  PROVE  Sound(Row(resource, name, verb, changes, reader, builds))
BY DEF Row, Sound, Readers

\* The transport repeats none of the verbs that change something.
LEMMA ChangingVerbs == \A verb \in {"POST", "PUT", "DELETE"} : ~Retryable(verb)
BY DEF Retryable, RetryMethods

\* So are the rows made by the helpers of the tables.
LEMMA RowsSound ==
  ASSUME NEW resource, NEW names, NEW reader \in Readers
  PROVE  \A row \in UNION { Reads(resource, names, reader), ReadsOf(resource, names, reader),
                            Posts(resource, names, reader), Puts(resource, names, reader),
                            PutsOf(resource, names, reader), Deletes(resource, names, reader),
                            DeletesOf(resource, names, reader) } : Sound(row)
<1>1. \A row \in Reads(resource, names, reader) \union ReadsOf(resource, names, reader) : Sound(row)
  BY RowSound DEF Reads, ReadsOf
<1>2. \A row \in Posts(resource, names, reader) : Sound(row)
  BY RowSound, ChangingVerbs DEF Posts
<1>3. \A row \in Puts(resource, names, reader) \union PutsOf(resource, names, reader) : Sound(row)
  BY RowSound, ChangingVerbs DEF Puts, PutsOf
<1>4. \A row \in Deletes(resource, names, reader) \union DeletesOf(resource, names, reader) : Sound(row)
  BY RowSound, ChangingVerbs DEF Deletes, DeletesOf
<1> QED BY <1>1, <1>2, <1>3, <1>4

\* So is every method of the API.
LEMMA TablesSound == \A row \in AllOperations : Sound(row)
<1>1. \A row \in Account : Sound(row)
  <2>1. Sound(Row("account", "configure_callback", "POST", TRUE, "empty", TRUE))
    BY RowSound, ChangingVerbs DEF Readers
  <2> QED BY <2>1, RowsSound DEF Account, Readers
<1>2. \A row \in DIDs : Sound(row)
  <2>1. Sound(Row("dids", "validate_fraud", "POST", FALSE, "model", TRUE))
    BY RowSound DEF Readers
  <2> QED BY <2>1, RowsSound DEF DIDs, Readers
<1>3. \A row \in InternationalDIDs \union SIPTrunks \union SMS : Sound(row)
  BY RowsSound DEF InternationalDIDs, SIPTrunks, SMS, Readers
<1>4. \A row \in DLC \union Fax : Sound(row)
  BY RowsSound DEF DLC, Fax, Readers
<1>5. \A row \in EnterpriseFax \union Reports : Sound(row)
  BY RowsSound DEF EnterpriseFax, Reports, Readers
<1>6. \A row \in LNP \union Servers : Sound(row)
  BY RowsSound DEF LNP, Servers, Readers
<1>7. SyncOperations = AsyncOperations
  BY DEF SyncOperations, AsyncOperations, AsyncAccount, AsyncDIDs, AsyncInternationalDIDs,
         AsyncSIPTrunks, AsyncSMS, AsyncDLC, AsyncFax, AsyncEnterpriseFax, AsyncReports,
         AsyncLNP, AsyncServers
<1> QED BY <1>1, <1>2, <1>3, <1>4, <1>5, <1>6, <1>7 DEF AllOperations, SyncOperations

\* A warning of the provider is never lost in a value: for every reader and body.
THEOREM NoWarningLost == WarningSurfaces
<1> SUFFICES ASSUME NEW row \in AllOperations, NEW b \in Bodies, b.warning # "absent"
             PROVE  Read(row.reader, b) # "value"
  BY DEF WarningSurfaces
<1> QED BY TablesSound, ReadersTyped DEF Sound, Readers, Read

-----------------------------------------------------------------------------
(* The typed call *)

\* No step changes the arguments of the call.
LEMMA CallFixed == [Next]_vars => call' = call
BY DEF Next, AsyncRequest, SyncRequest, RejectArguments, Begin, Send, SendOnClosedClient,
       TimeoutFires, ConnectionFails, ReceiveRetryable, ReceiveFailure, ReceiveSuccess, GoToSleep,
       GiveUp, Wake, CancelWaiting, CancelBackoff, Close, ProviderStep, Provide, Ended, vars

\* What a finished method's result came from.
ResultOrigin ==
  \/ operation.builds /\ result = "ValidationError" /\ pc = "idle"
  \/ outcome \in Outcomes \ {"returned"} /\ result = outcome
  \/ outcome = "returned" /\ result \in Parsed

\* How the method's own steps and the request underneath stand to each other.
TInv ==
  /\ operation \in Operations \union {Direct}
  /\ operation # Direct => call.method = operation.verb
  /\ stage \in {"build", "request", "done"}
  /\ stage = "build" => pc = "idle" /\ operation.builds
  /\ stage # "done" => result = "none"
  /\ stage = "done" => ResultOrigin

\* An operation that may be called is a row of the tables, or Direct.
LEMMA OperationSound ==
  ASSUME operation \in Operations \union {Direct}
  PROVE  /\ operation # Direct => Sound(operation)
         /\ operation = Direct => ~operation.builds
BY TablesSound, OperationsAssumption DEF Direct, Row

\* TInv holds when the method is called ...
LEMMA TInvInit == TypedInit => TInv
<1> SUFFICES ASSUME TypedInit PROVE TInv
  OBVIOUS
<1>1. operation \in Operations \union {Direct} /\ (operation # Direct => call.method = operation.verb)
  BY DEF TypedInit
<1>2. pc = "idle" /\ result = "none" /\ stage = IF operation.builds THEN "build" ELSE "request"
  BY DEF TypedInit, Init
<1> QED BY <1>1, <1>2 DEF TInv

\* ... and every step keeps it.
LEMMA TInvStep ==
  ASSUME TInv, IInv, [TypedNext]_typedVars
  PROVE  TInv'
<1>1. call' = call
  BY CallFixed DEF TypedNext, Method, RefuseArguments, BuildRequest, RunRequest, PassException,
                   ReadBody, Return, Around, TypedOver, Next, AsyncRequest, typedVars, vars
<1>2. CASE RefuseArguments
  BY <1>1, <1>2 DEF RefuseArguments, Return, vars, TInv, ResultOrigin
<1>3. CASE BuildRequest
  BY <1>1, <1>3 DEF BuildRequest, vars, TInv, ResultOrigin
<1>4. CASE RunRequest(AsyncRequest)
  BY <1>1, <1>4 DEF RunRequest, typed, TInv, ResultOrigin
<1>5. CASE PassException
  BY <1>1, <1>5 DEF PassException, Return, vars, TInv, ResultOrigin, IInv, TypeOK
<1>6. ASSUME NEW b \in Bodies, ReadBody(b)
      PROVE  TInv'
  <2>1. result' \in Parsed
    <3>1. CASE operation = Direct
      BY <1>6, <3>1 DEF ReadBody, Return, Parsed
    <3>2. CASE operation # Direct
      <4>1. Sound(operation) /\ result' = Read(operation.reader, b)
        BY <1>6, <3>2, OperationSound DEF TInv, ReadBody, Return
      <4>2. Read(operation.reader, b) \in Parsed
        BY <4>1, ReadersTyped DEF Sound, Readers, Read
      <4> QED BY <4>1, <4>2
    <3> QED BY <3>1, <3>2
  <2> QED BY <1>1, <1>6, <2>1 DEF ReadBody, Return, vars, TInv, ResultOrigin
<1>7. CASE Around
  BY <1>1, <1>7 DEF Around, Close, ProviderStep, Provide, typed, TInv, ResultOrigin
<1>8. CASE TypedOver \/ UNCHANGED typedVars
  BY <1>8 DEF TypedOver, typedVars, typed, vars, TInv, ResultOrigin
<1> QED BY <1>2, <1>3, <1>4, <1>5, <1>6, <1>7, <1>8 DEF TypedNext, Method

\* Both invariants hold throughout a typed call.
THEOREM TypedInvariance == TypedSpec => [](IInv /\ TInv)
<1>1. TypedSpec => []IInv
  BY TypedIsTransport, Invariance, PTL
<1>2. TypedInit => TInv
  BY TInvInit
<1>3. IInv /\ TInv /\ [TypedNext]_typedVars => TInv'
  BY TInvStep
<1> QED BY <1>1, <1>2, <1>3, PTL DEF TypedSpec

\* The variables of a typed call stay in their ranges.
THEOREM TypedTypeCorrect == TypedSpec => []TypedTypeOK
<1>1. IInv /\ TInv => TypedTypeOK
  BY DEF IInv, TInv, ResultOrigin, TypedTypeOK, Parsed
<1> QED BY TypedInvariance, <1>1, PTL

\* For every typed method, retry count, reply and reading of its body, what the
\* application is told never contradicts what the provider did or may still do.
THEOREM TypedHonest == TypedSpec => []TypedResultHonest
<1>1. ASSUME IInv, TInv PROVE TypedResultHonest
  <2>0. CASE stage # "done"
    BY <1>1, <2>0 DEF TInv, TypedResultHonest, Settled, Refused, Outcomes, SDKErrors
  <2>1. CASE operation.builds /\ result = "ValidationError" /\ pc = "idle"
    <3>1. posted \union executed = {}
      BY <1>1, <2>1 DEF IInv, SentOnce, WithinAttempts
    <3>2. result \notin Settled /\ result \notin Refused
      BY <2>1 DEF Settled, Refused, Outcomes, SDKErrors
    <3> QED BY <3>1, <3>2 DEF TypedResultHonest
  <2>2. CASE outcome \in Outcomes \ {"returned"} /\ result = outcome
    <3>1. result # "ValidationError" /\ (result \in Settled => outcome \in Confirmed)
      BY <2>2 DEF Settled, Confirmed, Outcomes, SDKErrors
    <3> QED BY <1>1, <2>2, <3>1 DEF TypedResultHonest, IInv, OutcomeHonest
  <2>3. CASE outcome = "returned" /\ result \in Parsed
    <3>1. attempt \in executed
      BY <1>1, <2>3 DEF IInv, OutcomeHonest, Confirmed
    <3>2. result \notin Refused
      BY <2>3 DEF Parsed, Refused, Outcomes, SDKErrors, Confirmed
    <3> QED BY <3>1, <3>2 DEF TypedResultHonest
  <2> QED BY <1>1, <2>0, <2>1, <2>2, <2>3 DEF TInv, ResultOrigin
<1> QED BY TypedInvariance, <1>1, PTL

\* No method that asks the provider to change something, whichever of the
\* tables' rows it is, has the change made twice.
THEOREM ChangesOnce == TypedSpec => []ChangeAtMostOnce
<1>1. ASSUME IInv, TInv PROVE ChangeAtMostOnce
  <2> SUFFICES ASSUME operation.changes, operation # Direct,
                      NEW a \in posted \union executed, NEW b \in posted \union executed
               PROVE  a = b
    BY DEF ChangeAtMostOnce
  <2>1. Mutating
    BY <1>1, OperationSound DEF TInv, Sound, Mutating
  <2>2. attempt <= 1 /\ attempt \in Nat
    BY <1>1, <2>1, MutationsAttemptOnce DEF IInv, TypeOK
  <2> QED BY <1>1, <2>2 DEF IInv, SentOnce
<1> QED BY TypedInvariance, <1>1, PTL
-----------------------------------------------------------------------------
(* Refinement of ChangeCall *)

\* What the ending of a call for a change says of the change: a 2xx reply that
\* it was made, a refusal that it was not and will not be; any other ending is
\* in doubt.
EndingAccounts ==
  /\ TypedEnding \in Outcomes \union {"none", "WarningResponse", "ValidationError", "ValueError"}
  /\ TypedEnding = "none" <=> stage # "done"
  /\ TypedEnding \in Confirmed \union {"WarningResponse", "ValidationError"} => executed # {}
  /\ TypedEnding \in Refused \union {"ValueError"} => posted \union executed = {}
  /\ TypedEnding \in InDoubt => result = TypedEnding

\* The endings of the calls of both modules have different names.
LEMMA EndingNames ==
  /\ "none" \notin Outcomes \union Parsed
  /\ Parsed \intersect Outcomes \subseteq Confirmed /\ Parsed \intersect InDoubt = {}
  /\ {"value", "WarningResponse", "ValidationError", "ValueError"} \intersect Outcomes = {}
  /\ "ValueError" \notin Parsed
  /\ Outcomes = Confirmed \union InDoubt \union Refused
  /\ "returned" \in Confirmed /\ Confirmed \intersect Refused = {}
  /\ InDoubt \intersect (Confirmed \union Refused) = {}
BY DEF Parsed, Outcomes, SDKErrors, Confirmed, InDoubt, Refused

\* A method that asks for a change sends it once at most.
LEMMA ChangesSendOnce ==
  ASSUME IInv, TInv, Changes
  PROVE  Mutating /\ posted \union executed \subseteq {1} /\ posted \intersect executed = {}
<1>1. Mutating
  BY OperationSound DEF TInv, Changes, Sound, Mutating
<1>2. attempt <= 1 /\ attempt \in Nat
  BY <1>1, MutationsAttemptOnce DEF IInv, TypeOK
<1> QED BY <1>1, <1>2 DEF IInv, SentOnce

LEMMA EndingsAccount ==
  ASSUME IInv, TInv, Changes
  PROVE  EndingAccounts
<1>1. Mutating
  BY ChangesSendOnce
<1>2. CASE stage # "done"
  BY <1>2, EndingNames DEF TInv, TypedEnding, EndingAccounts, Refused, InDoubt, Confirmed
<1>3. CASE stage = "done" /\ operation.builds /\ result = "ValidationError" /\ pc = "idle"
  <2>1. posted \union executed = {}
    BY <1>3 DEF IInv, SentOnce, WithinAttempts
  <2> QED BY <1>3, <2>1, EndingNames DEF TypedEnding, EndingAccounts, Parsed
<1>4. CASE stage = "done" /\ outcome \in Outcomes \ {"returned"} /\ result = outcome
  <2>1. TypedEnding = result
    BY <1>4, EndingNames DEF TypedEnding, Changes, Parsed
  <2>2. /\ result \in Confirmed => executed # {}
        /\ result \in Refused => posted \union executed = {}
    BY <1>1, <1>4 DEF IInv, OutcomeHonest
  <2> QED BY <1>4, <2>1, <2>2, EndingNames DEF EndingAccounts, Parsed
<1>5. CASE stage = "done" /\ outcome = "returned" /\ result \in Parsed
  <2>1. executed # {}
    BY <1>5, EndingNames DEF IInv, OutcomeHonest
  <2>2. TypedEnding \in {"returned", "WarningResponse", "ValidationError", "QuestBlueResponseError"}
    BY <1>5, <2>1 DEF TypedEnding, Parsed
  <2>3. {"returned", "QuestBlueResponseError"} \subseteq Confirmed
    BY DEF Confirmed
  <2> QED BY <1>5, <2>1, <2>2, <2>3, EndingNames DEF EndingAccounts
<1> QED BY <1>2, <1>3, <1>4, <1>5 DEF TInv, ResultOrigin

\* What a step of a typed method does to the change: nothing, or the method
\* ends while the provider stands still, or the provider makes the change.
LEMMA TypedSteps ==
  ASSUME IInv, TInv, [TypedNext]_typedVars
  PROVE  /\ operation' = operation
         /\ \/ UNCHANGED <<result, stage, posted, executed>>
            \/ UNCHANGED <<result, executed>> /\ (stage' = "done" <=> stage = "done")
            \/ /\ stage # "done" /\ stage' = "done" /\ result' # "none"
               /\ UNCHANGED <<posted, executed>>
            \/ posted # {} /\ executed' # {} /\ UNCHANGED <<result, stage>>
<1>1. ASSUME NEW x, x # "none", stage # "done", Return(x)
      PROVE  /\ operation' = operation /\ stage' = "done" /\ result' # "none"
             /\ UNCHANGED <<posted, executed>>
  BY <1>1 DEF Return, vars
<1>2. CASE RefuseArguments
  BY <1>1, <1>2 DEF RefuseArguments
<1>3. CASE BuildRequest
  BY <1>3 DEF BuildRequest, vars
<1>4. CASE RunRequest(AsyncRequest)
  BY <1>4 DEF RunRequest, typed, AsyncRequest, SyncRequest, RejectArguments, Begin, Send,
     SendOnClosedClient, TimeoutFires, ConnectionFails, ReceiveRetryable, ReceiveFailure,
     ReceiveSuccess, GoToSleep, GiveUp, Wake, CancelWaiting, CancelBackoff
<1>5. CASE PassException
  BY <1>1, <1>5 DEF PassException
<1>6. ASSUME NEW b \in Bodies, ReadBody(b)
      PROVE  /\ operation' = operation /\ stage # "done" /\ stage' = "done" /\ result' # "none"
             /\ UNCHANGED <<posted, executed>>
  <2>1. TInv'
    BY <1>6, TInvStep DEF TypedNext, Method
  <2>2. stage' = "done" /\ outcome' = "returned"
    BY <1>6 DEF ReadBody, Return, vars
  <2> QED BY <1>6, <2>1, <2>2, EndingNames DEF ReadBody, Return, vars, TInv, ResultOrigin, Parsed
<1>7. CASE Around
  BY <1>7 DEF Around, Close, ProviderStep, Provide, typed
<1>8. CASE TypedOver \/ UNCHANGED typedVars
  BY <1>8 DEF TypedOver, typedVars, typed, vars
<1> QED BY <1>2, <1>3, <1>4, <1>5, <1>6, <1>7, <1>8 DEF TypedNext, Method

\* A call that asks for no change is the abstract call that does not end.
LEMMA NoChangeNoCall ==
  ASSUME ~Changes, operation' = operation
  PROVE  UNCHANGED Change!changeVars
BY DEF Changes, TypedEnding, TypedFate, Change!changeVars

\* The ending of the method is the abstract Finish.
LEMMA FinishStep ==
  ASSUME EndingAccounts, EndingAccounts', operation' = operation, stage # "done", stage' = "done"
  PROVE  Change!Next
<1> DEFINE e == TypedEnding'
           answered == Confirmed \union {"WarningResponse", "ValidationError"}
<1>1. TypedEnding = "none" /\ e # "none"
  BY DEF EndingAccounts
<1>2. e \in Outcomes \union {"WarningResponse", "ValidationError", "ValueError"}
  BY <1>1 DEF EndingAccounts
<1>3. TypedFate = "untouched" /\ TypedFate' \in Fates(e, answered)
  <2>0. TypedFate = "untouched"
    BY <1>1 DEF TypedFate
  <2>1. CASE e \in answered
    BY <1>1, <2>0, <2>1 DEF EndingAccounts, TypedFate, Fates
  <2>2. CASE e \in Refused \union {"ValueError"}
    <3>1. executed' = {}
      BY <2>2 DEF EndingAccounts
    <3>2. result' \notin InDoubt
      BY <2>2, EndingNames DEF TypedEnding, Parsed
    <3>3. e \notin answered \union InDoubt
      BY <2>2, EndingNames DEF Refused, Parsed
    <3> QED BY <1>1, <2>0, <3>1, <3>2, <3>3 DEF TypedFate, Fates
  <2>3. CASE e \in InDoubt
    BY <1>1, <2>0, <2>3, EndingNames DEF TypedFate, Fates, Fate, Parsed
  <2> QED BY <1>2, <2>1, <2>2, <2>3, EndingNames
<1>4. TypedFate' \in Change!FatesOf(e, answered, FALSE, FALSE)
  BY <1>3 DEF Change!FatesOf, Change!Fates, Change!Fate, Fates, Fate, Change!InDoubt, InDoubt
<1>5. Change!Finish(e)
  BY <1>1, <1>4 DEF Change!Finish
<1> QED BY <1>2, <1>5 DEF Change!Next

\* A change performed later is the abstract Land, or the beginning of an ending.
LEMMA LandStep ==
  ASSUME EndingAccounts, operation' = operation, UNCHANGED <<result, stage>>,
         executed = {}, posted # {}, executed' # {}
  PROVE  [Change!Next]_Change!changeVars
<1>1. CASE TypedEnding = "none"
  BY <1>1 DEF TypedEnding, TypedFate, Changes, Change!changeVars
<1>2. CASE TypedEnding # "none"
  <2>1. TypedEnding \in InDoubt /\ result = TypedEnding
    BY <1>2, EndingNames DEF EndingAccounts
  <2>2. TypedEnding' = TypedEnding
    BY <2>1, EndingNames DEF TypedEnding, Changes, Parsed
  <2>3. TypedFate = "pending" /\ TypedFate' = "performed"
    BY <1>2, <2>1, <2>2 DEF TypedFate
  <2> QED BY <2>2, <2>3 DEF Change!Land, Change!Next
<1> QED BY <1>1, <1>2

\* Every step of a typed method is a step of the abstract call, or none.
LEMMA ChangeStep ==
  ASSUME IInv, TInv, IInv', TInv', [TypedNext]_typedVars
  PROVE  [Change!Next]_Change!changeVars
<1>1. CASE ~Changes
  BY <1>1, NoChangeNoCall, TypedSteps
<1>2. CASE Changes
  <2>1. operation' = operation /\ Changes'
    BY <1>2, TypedSteps DEF Changes
  <2>2. EndingAccounts
    BY <1>2, EndingsAccount
  <2>3. EndingAccounts'
    <3>1. (IInv /\ TInv /\ Changes => EndingAccounts)'
      BY EndingsAccount, PTL
    <3> QED BY <2>1, <3>1
  <2>4. CASE UNCHANGED <<result, executed>>
    BY <2>1, <2>4 DEF TypedEnding, TypedFate, Changes, Change!changeVars
  <2>5. CASE stage # "done" /\ stage' = "done"
    BY <2>1, <2>2, <2>3, <2>5, FinishStep
  <2>6. CASE posted # {} /\ executed' # {} /\ UNCHANGED <<result, stage>>
    BY <1>2, <2>1, <2>2, <2>6, ChangesSendOnce, LandStep
  <2> QED BY <2>4, <2>5, <2>6, TypedSteps
<1> QED BY <1>1, <1>2

\* Every typed method that asks for a change keeps the promise of ChangeCall to
\* the code above it, over the transport with its network, its late executions
\* and its cancellation.
THEOREM TypedRefinement == TypedSpec => ImplementsChangeCall
<1>1. TypedInit => Change!Init
  <2> SUFFICES ASSUME TypedInit PROVE Change!Init
    OBVIOUS
  <2>1. TypedEnding = "none"
    BY DEF TypedInit, TypedEnding
  <2> QED BY <2>1 DEF TypedFate, Change!Init
<1>2. IInv /\ TInv /\ IInv' /\ TInv' /\ [TypedNext]_typedVars => [Change!Next]_Change!changeVars
  BY ChangeStep
<1> QED BY TypedInvariance, <1>1, <1>2, PTL DEF TypedSpec, ImplementsChangeCall, Change!Spec

-----------------------------------------------------------------------------
(* How long a call can be *)

\* How many steps the loop has left at most: three per attempt, and the first.
LoopStepsLeft ==
  LET attempts == 3 * (MaxAttempts(call) - attempt)
  IN  CASE pc = "idle"    -> attempts + 1
        [] pc = "ready"   -> attempts + 3
        [] pc = "waiting" -> attempts + 2
        [] pc = "backoff" -> attempts + 1
        [] OTHER          -> 0

\* And the method around it: its request model, and what the method returns.
StepsLeft ==
  CASE stage = "build"   -> LoopStepsLeft + 2
    [] stage = "request" -> LoopStepsLeft + 1
    [] OTHER             -> 0

\* Whatever the network, the provider and the owner of the client do, every step
\* of a method, a retry included, brings it closer to its end, and what they do
\* takes it no step back.
MethodComesToItsEnd ==
  [][StepsLeft' < StepsLeft \/ ((Close \/ ProviderStep) /\ UNCHANGED StepsLeft)]_typedVars

LEMMA LoopRange ==
  ASSUME IInv
  PROVE  /\ MaxAttempts(call) \in 0 .. MaxRetries + 1
         /\ attempt \in Nat
         /\ LoopStepsLeft \in 0 .. 3 * MaxAttempts(call) + 1
         /\ pc # "done" => LoopStepsLeft > 0
<1>1. call \in Calls /\ attempt \in Nat /\ pc \in {"idle", "ready", "waiting", "backoff", "done"}
  BY DEF IInv, TypeOK
<1>2. call.retries \in -1 .. MaxRetries
  BY <1>1 DEF Calls
<1>3. MaxAttempts(call) \in 0 .. MaxRetries + 1
  BY <1>2, MaxRetriesAssumption DEF MaxAttempts
<1>4. /\ pc = "idle" => attempt = 0
      /\ pc \in {"ready", "waiting", "backoff"} => attempt \in 1 .. MaxAttempts(call)
  BY DEF IInv, WithinAttempts
<1>5. MaxAttempts(call) \in Nat
  BY <1>3, MaxRetriesAssumption
<1>6. /\ LoopStepsLeft \in 0 .. 3 * MaxAttempts(call) + 1
      /\ pc # "done" => LoopStepsLeft > 0
  BY <1>1, <1>4, <1>5 DEF LoopStepsLeft
<1> QED BY <1>1, <1>3, <1>6

LEMMA LoopShrinks ==
  ASSUME IInv, AsyncRequest
  PROVE  LoopStepsLeft' \in Int /\ LoopStepsLeft' < LoopStepsLeft
<1>0. /\ call' = call /\ MaxAttempts(call)' = MaxAttempts(call)
      /\ MaxAttempts(call) \in Nat /\ attempt \in Nat
      /\ LoopStepsLeft \in Nat /\ (pc # "done" => LoopStepsLeft > 0)
  BY LoopRange, CallFixed, MaxRetriesAssumption DEF Next
<1>1. CASE pc' = "done"
  <2>1. pc # "done"
    BY DEF AsyncRequest, SyncRequest, RejectArguments, Begin, Send, SendOnClosedClient,
           TimeoutFires, ConnectionFails, ReceiveRetryable, ReceiveFailure, ReceiveSuccess,
           Wake, CancelWaiting, CancelBackoff
  <2> QED BY <1>0, <1>1, <2>1 DEF LoopStepsLeft
<1>2. CASE pc' # "done"
  <2>1. \/ Begin \/ Send \/ Wake
        \/ pc = "waiting" /\ \E header \in Header : GoToSleep(header)
    BY <1>2, StatusIsNat
       DEF IInv, TypeOK, Header, AsyncRequest, SyncRequest, RejectArguments, SendOnClosedClient,
           TimeoutFires, ConnectionFails, ReceiveRetryable, ReceiveFailure, ReceiveSuccess,
           CancelWaiting, CancelBackoff, GiveUp, End
  <2>2. \/ pc = "idle" /\ pc' = "ready" /\ attempt' = 1
        \/ pc = "ready" /\ pc' = "waiting" /\ attempt' = attempt
        \/ pc = "waiting" /\ pc' = "backoff" /\ attempt' = attempt
        \/ pc = "backoff" /\ pc' = "ready" /\ attempt' = attempt + 1
    BY <2>1 DEF Begin, Send, Wake, GoToSleep
  <2>3. pc = "idle" => attempt = 0
    BY DEF IInv, WithinAttempts
  <2> QED BY <1>0, <2>2, <2>3 DEF LoopStepsLeft
<1> QED BY <1>1, <1>2

LEMMA MethodShrinks ==
  ASSUME IInv, TInv, [TypedNext]_typedVars
  PROVE  \/ StepsLeft' < StepsLeft
         \/ (Close \/ ProviderStep) /\ UNCHANGED StepsLeft
         \/ UNCHANGED typedVars
<1>0. LoopStepsLeft \in Nat
  BY LoopRange, MaxRetriesAssumption
<1>1. CASE RefuseArguments \/ BuildRequest \/ PassException \/ \E b \in Bodies : ReadBody(b)
  <2>1. LoopStepsLeft' = LoopStepsLeft
    BY <1>1 DEF RefuseArguments, BuildRequest, PassException, ReadBody, Return, vars,
                LoopStepsLeft
  <2>2. \/ stage = "build" /\ stage' \in {"request", "done"}
        \/ stage = "request" /\ stage' = "done"
    BY <1>1 DEF RefuseArguments, BuildRequest, PassException, ReadBody, Return
  <2> QED BY <1>0, <2>1, <2>2 DEF StepsLeft
<1>2. CASE RunRequest(AsyncRequest)
  <2>1. /\ stage = "request" /\ stage' = stage
        /\ LoopStepsLeft' \in Int /\ LoopStepsLeft' < LoopStepsLeft
    BY <1>2, LoopShrinks DEF RunRequest, typed
  <2> QED BY <1>0, <2>1 DEF StepsLeft
<1>3. CASE Around
  <2>1. pc' = pc /\ attempt' = attempt /\ call' = call /\ stage' = stage
    BY <1>3 DEF Around, Close, ProviderStep, Provide, typed
  <2>2. LoopStepsLeft' = LoopStepsLeft
    BY <2>1 DEF LoopStepsLeft
  <2>3. StepsLeft' = StepsLeft
    BY <2>1, <2>2 DEF StepsLeft
  <2> QED BY <1>3, <2>3 DEF Around
<1> QED BY <1>1, <1>2, <1>3 DEF TypedNext, Method, TypedOver

\* A typed method makes at most three steps per attempt it is allowed and three of
\* its own, whatever the provider answers: what MethodReturns needs besides each
\* of them being made.
THEOREM BoundedMethod ==
  TypedSpec => /\ [](StepsLeft \in 0 .. 3 * MaxAttempts(call) + 3)
               /\ MethodComesToItsEnd
<1>1. IInv /\ TInv => StepsLeft \in 0 .. 3 * MaxAttempts(call) + 3
  BY LoopRange, MaxRetriesAssumption DEF StepsLeft
<1>2. IInv /\ TInv /\ [TypedNext]_typedVars =>
        [StepsLeft' < StepsLeft \/ ((Close \/ ProviderStep) /\ UNCHANGED StepsLeft)]_typedVars
  BY MethodShrinks
<1> QED BY TypedInvariance, <1>1, <1>2, PTL DEF TypedSpec, MethodComesToItsEnd
=============================================================================
