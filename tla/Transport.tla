----------------------------- MODULE Transport ------------------------------
(***************************************************************************)
(* One invocation of QuestBlue.request / AsyncQuestBlue.request            *)
(* (src/src/questblue/_client.py): the retry loop, the telemetry events it *)
(* emits and the exception or value it ends with, together with the        *)
(* network, a provider that may act on a request long after the client     *)
(* stopped waiting for it, a task that may be cancelled, and an owner that *)
(* may close the HTTP client.  The two clients run the same loop; only the *)
(* asynchronous one can be cancelled at an await.                          *)
(***************************************************************************)
EXTENDS Integers, Sequences, CallOutcomes

CONSTANTS
  Methods,        \* the HTTP methods callers use
  Statuses,       \* the statuses the provider answers with
  RetryAfters,    \* values of a Retry-After header, in half seconds
  MaxRetries      \* bound: the largest max_retries a caller asks for

ASSUME MethodsAssumption == Methods \subseteq STRING
ASSUME StatusesAssumption == Statuses \subseteq Nat
ASSUME RetryAftersAssumption == RetryAfters \subseteq Int
ASSUME MaxRetriesAssumption == MaxRetries \in Nat

VARIABLES
  call,       \* the arguments of request(), and whose the HTTP client is
  pc,         \* where the loop is
  attempt,    \* the loop variable
  posted,     \* attempts sent that the provider has not looked at yet
  executed,   \* attempts the provider performed
  reply,      \* {r} when the reply r to the attempt in hand has arrived, or {}
  events,     \* the TransportEvents emitted so far
  waited,     \* total backoff so far, in half seconds
  outcome,    \* how request() ended, "none" before that
  closed      \* the HTTP client was closed by its owner

vars == <<call, pc, attempt, posted, executed, reply, events, waited, outcome, closed>>

-----------------------------------------------------------------------------
(* Retry policy *)

RetryMethods == {"GET", "HEAD", "OPTIONS"}

RetryStatuses == {408, 409, 429}

Retryable(method) == method \in RetryMethods

\* Bug: the method is not consulted, so mutations are retried too.
MaxAttemptsOfAnyMethod(c) == c.retries + 1

\* Mutating methods are attempted once whatever the retry count says.
MaxAttempts(c) == IF Retryable(c.method) THEN c.retries + 1 ELSE 1

ShouldRetry(method, status) ==
  Retryable(method) /\ (status \in RetryStatuses \/ status >= 500)

\* min(0.5 * 2^n, 8.0) seconds, in half seconds, as a table.
Backoff(n) == IF n < 4 THEN <<1, 2, 4, 8>>[n + 1] ELSE 16

\* Bug: a Retry-After that is honoured without its 60 second cap.
UncappedRetryDelay(header, n) ==
  IF header # <<>> THEN IF header[1] < 0 THEN 0 ELSE header[1] ELSE Backoff(n)

\* A Retry-After header wins, clamped to 0..60 seconds.  An unparsable header
\* is no header; an HTTP date is modelled by the seconds it is away.
RetryDelay(header, n) ==
  IF header = <<>> THEN Backoff(n)
  ELSE IF header[1] < 0 THEN 0
  ELSE IF header[1] > 120 THEN 120
  ELSE header[1]

\* Bug: 206 is taken for the success its class suggests.
IsErrorStatus(status) == status >= 400

\* 206 is QuestBlue's application error; is_error is 4xx and 5xx.
IsFailure(status) == status = 206 \/ status >= 400

\* The exception class _error picks.
ErrorFor(status) ==
  CASE status \in {401, 403} -> "QuestBlueAuthenticationError"
    [] status = 429          -> "QuestBlueRateLimitError"
    [] status >= 500         -> "QuestBlueServerError"
    [] OTHER                 -> "QuestBlueAPIError"

-----------------------------------------------------------------------------
Header == {<<>>} \union {<<s>> : s \in RetryAfters}

\* A reply; readable is false for a body declared as JSON that does not parse.
Replies == [status : Statuses, header : Header, readable : BOOLEAN]

Calls ==
  [ method : Methods, retries : -1 .. MaxRetries, raw : BOOLEAN,
    authOverride : BOOLEAN, async : BOOLEAN, owned : BOOLEAN ]

EventNames == {"request", "retry", "response", "error", "cancelled"}

TransportEvent == [name : EventNames, attempt : 1 .. MaxRetries + 1]

Event(name) == [name |-> name, attempt |-> attempt]

Emit(name) == events' = Append(events, Event(name))

Init ==
  /\ call \in Calls
  /\ pc = "idle"
  /\ attempt = 0
  /\ posted = {}
  /\ executed = {}
  /\ reply = {}
  /\ events = <<>>
  /\ waited = 0
  /\ outcome = "none"
  /\ closed = FALSE

\* The call is over: nothing of the attempt in hand is looked at any more.
End(o) == pc' = "done" /\ outcome' = o /\ reply' = {}

\* Invalid overrides are refused before any I/O.
RejectArguments ==
  /\ pc = "idle"
  /\ call.retries < 0 \/ call.authOverride
  /\ End("QuestBlueConfigurationError")
  /\ UNCHANGED <<call, attempt, posted, executed, events, waited, closed>>

Begin ==
  /\ pc = "idle"
  /\ call.retries >= 0 /\ ~call.authOverride
  /\ pc' = "ready"
  /\ attempt' = 1
  /\ UNCHANGED <<call, posted, executed, reply, events, waited, outcome, closed>>

\* The head of the loop: emit "request", hand the request to httpx.
Send ==
  /\ pc = "ready"
  /\ ~closed
  /\ Emit("request")
  /\ posted' = posted \union {attempt}
  /\ pc' = "waiting"
  /\ UNCHANGED <<call, attempt, executed, reply, waited, outcome, closed>>

\* Bug: the RuntimeError of a closed client is caught and the send repeated.
SendAgainOnClosedClient == pc = "ready" /\ closed /\ UNCHANGED vars

\* httpx refuses to send on a closed client with a RuntimeError, which no
\* except clause of the loop catches.
SendOnClosedClient ==
  /\ pc = "ready"
  /\ closed
  /\ Emit("request")
  /\ End("RuntimeError")
  /\ UNCHANGED <<call, attempt, posted, executed, waited, closed>>

\* Bug: the retry path forgets its event.
SleepUnreported(header) ==
  /\ attempt < MaxAttempts(call)
  /\ waited' = waited + RetryDelay(header, attempt - 1)
  /\ pc' = "backoff"
  /\ reply' = {}
  /\ UNCHANGED <<call, attempt, posted, executed, events, outcome, closed>>

\* One more attempt is allowed: emit "retry" and sleep.
GoToSleep(header) ==
  /\ attempt < MaxAttempts(call)
  /\ Emit("retry")
  /\ waited' = waited + RetryDelay(header, attempt - 1)
  /\ pc' = "backoff"
  /\ reply' = {}
  /\ UNCHANGED <<call, attempt, posted, executed, outcome, closed>>

\* Bug: the exception is raised before the event is emitted.
GiveUpUnreported(error) ==
  /\ End(error)
  /\ UNCHANGED <<call, attempt, posted, executed, events, waited, closed>>

\* No attempt left, or none allowed: emit "error" and raise.
GiveUp(error) ==
  /\ Emit("error")
  /\ End(error)
  /\ UNCHANGED <<call, attempt, posted, executed, waited, closed>>

\* httpx.TimeoutException while waiting, whether or not the provider acted.
TimeoutFires ==
  /\ pc = "waiting"
  /\ \/ GoToSleep(<<>>)
     \/ attempt >= MaxAttempts(call) /\ GiveUp("QuestBlueTimeoutError")

\* Any other httpx.RequestError: refused, reset, or lost after it was sent.
ConnectionFails ==
  /\ pc = "waiting"
  /\ \/ GoToSleep(<<>>)
     \/ attempt >= MaxAttempts(call) /\ GiveUp("QuestBlueConnectionError")

\* A reply worth another attempt, while one is left.
Retried(r) == ShouldRetry(call.method, r.status) /\ attempt < MaxAttempts(call)

ReceiveRetryable ==
  /\ pc = "waiting"
  /\ \E r \in reply : Retried(r) /\ GoToSleep(r.header)

ReceiveFailure ==
  /\ pc = "waiting"
  /\ \E r \in reply : ~Retried(r) /\ IsFailure(r.status) /\ GiveUp(ErrorFor(r.status))

\* Success: raw_response skips decoding; a body that does not parse is an
\* "error" after the "response".
ReceiveSuccess ==
  /\ pc = "waiting"
  /\ \E r \in reply :
       /\ ~Retried(r) /\ ~IsFailure(r.status)
       /\ IF call.raw \/ r.readable
            THEN Emit("response") /\ End("returned")
            ELSE /\ events' = events \o <<Event("response"), Event("error")>>
                 /\ End("QuestBlueResponseError")
  /\ UNCHANGED <<call, attempt, posted, executed, waited, closed>>

Wake ==
  /\ pc = "backoff"
  /\ attempt' = attempt + 1
  /\ pc' = "ready"
  /\ UNCHANGED <<call, posted, executed, reply, events, waited, outcome, closed>>

\* asyncio.CancelledError at the await of the HTTP call is reported and raised.
CancelWaiting ==
  /\ call.async
  /\ pc = "waiting"
  /\ Emit("cancelled")
  /\ End("CancelledError")
  /\ UNCHANGED <<call, attempt, posted, executed, waited, closed>>

\* At the await of aclose() or of the sleep it is raised without an event.
CancelBackoff ==
  /\ call.async
  /\ pc = "backoff"
  /\ End("CancelledError")
  /\ UNCHANGED <<call, attempt, posted, executed, events, waited, closed>>

\* close() closes the HTTP client only when this object created it.
Close ==
  /\ call.owned /\ ~closed
  /\ closed' = TRUE
  /\ UNCHANGED <<call, pc, attempt, posted, executed, reply, events, waited, outcome>>

-----------------------------------------------------------------------------
(* The provider, as the client relies on it: a status below 400 other than *)
(* 206 says the call was performed, 206 and 4xx say it was not, 5xx says   *)
(* nothing.                                                                *)

MustHaveExecuted(status) == status < 400 /\ status # 206

MayHaveExecuted(status) == MustHaveExecuted(status) \/ status >= 500

\* The provider takes attempt a, now or long after the client gave up on it.
\* Its reply reaches the client only while the client waits for that attempt.
Provide(a, r, performed) ==
  /\ a \in posted
  /\ performed => MayHaveExecuted(r.status)
  /\ MustHaveExecuted(r.status) => performed
  /\ posted' = posted \ {a}
  /\ executed' = IF performed THEN executed \union {a} ELSE executed
  /\ reply' = IF pc = "waiting" /\ a = attempt THEN {r} ELSE reply
  /\ UNCHANGED <<call, pc, attempt, events, waited, outcome, closed>>

-----------------------------------------------------------------------------
\* The loop of the synchronous client.
SyncRequest ==
  \/ RejectArguments \/ Begin \/ Send \/ SendOnClosedClient
  \/ TimeoutFires \/ ConnectionFails
  \/ ReceiveRetryable \/ ReceiveFailure \/ ReceiveSuccess
  \/ Wake

\* The loop of the asynchronous client: the same, plus cancellation.
AsyncRequest == SyncRequest \/ CancelWaiting \/ CancelBackoff

ProviderStep == \E a \in posted, r \in Replies, performed \in BOOLEAN : Provide(a, r, performed)

\* A call that ended stays ended.
Ended == pc = "done" /\ UNCHANGED vars

Next == AsyncRequest \/ Close \/ ProviderStep \/ Ended

Spec == Init /\ [][Next]_vars

-----------------------------------------------------------------------------
(* Properties *)

\* Every variable stays in its range.
TypeOK ==
  /\ call \in Calls
  /\ pc \in {"idle", "ready", "waiting", "backoff", "done"}
  /\ attempt \in 0 .. MaxRetries + 1
  /\ posted \subseteq 1 .. MaxRetries + 1
  /\ executed \subseteq 1 .. MaxRetries + 1
  /\ reply \subseteq Replies
  /\ events \in Seq(TransportEvent)
  /\ waited \in Nat
  /\ outcome \in {"none"} \union Outcomes
  /\ closed \in BOOLEAN

Mutating == ~Retryable(call.method)

\* A mutation reaches the provider at most once: whatever is retried, lost,
\* late or cancelled, no two executions, past or still possible, exist.
MutationAtMostOnce ==
  Mutating => \A a, b \in posted \union executed : a = b

\* The ending of a call never contradicts the provider: a value (or a decoding
\* error) means the attempt was performed; a refusal of a mutation means it was
\* not performed and never will be.
OutcomeHonest ==
  /\ outcome \in Confirmed => attempt \in executed
  /\ outcome \in Refused /\ Mutating => posted \union executed = {}

\* What may directly precede each event, for the same attempt.
Follows(i) ==
  CASE events[i].name = "request" ->
         IF i = 1 THEN events[i].attempt = 1
         ELSE events[i - 1] = [name |-> "retry", attempt |-> events[i].attempt - 1]
    [] events[i].name = "error" ->
         /\ i > 1
         /\ events[i - 1].name \in {"request", "response"}
         /\ events[i - 1].attempt = events[i].attempt
    [] OTHER ->
         i > 1 /\ events[i - 1] = [name |-> "request", attempt |-> events[i].attempt]

\* The telemetry of a call is a well-formed trace: every attempt opens with one
\* "request", closes with exactly one of retry/response/error/cancelled (or a
\* response that failed to decode), and a new attempt only follows a "retry".
EventProtocol == \A i \in 1 .. Len(events) : Follows(i)

LastEvent == events[Len(events)].name

\* The last event names the ending, so a monitor that only sees events knows
\* how the call ended; the exceptions are a refusal before any I/O, a closed
\* client and a cancellation during backoff.
OutcomeReported ==
  CASE outcome = "none"                        -> TRUE
    [] outcome = "QuestBlueConfigurationError" -> events = <<>>
    [] outcome = "returned"                    -> LastEvent = "response"
    [] outcome = "CancelledError"              -> LastEvent \in {"cancelled", "retry"}
    [] outcome = "RuntimeError"                -> LastEvent = "request"
    [] OTHER                                   -> LastEvent = "error"

\* A call blocks its caller for at most 60 seconds of backoff per retry it was
\* allowed, however large the Retry-After the provider asks for; a mutation
\* never sleeps at all.
BackoffBudget ==
  pc # "idle" => waited <= 120 * (MaxAttempts(call) - 1) \/ outcome = "QuestBlueConfigurationError"

\* The transport keeps the promise of RemoteCall.
Remote == INSTANCE RemoteCall WITH
            Attempts <- 1 .. MaxRetries + 1, mutating <- Mutating

ImplementsRemoteCall == Remote!Spec
=============================================================================
