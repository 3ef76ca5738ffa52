---------------------------- MODULE ResourceCall ----------------------------
(***************************************************************************)
(* A call of a typed method (src/src/questblue/_resources.py) from its     *)
(* arguments to what it returns: the request model is made, the request    *)
(* goes through the transport, the body of the reply is read.  The         *)
(* transport underneath is Transport itself, so a request that is retried, *)
(* lost, late or cancelled is one here too.  A call of request() without a *)
(* typed method is the operation Direct.                                   *)
(***************************************************************************)
EXTENDS Transport, Resources

CONSTANT Operations     \* the typed methods called, rows of the tables

ASSUME OperationsAssumption == Operations \subseteq AllOperations

VARIABLES
  operation,    \* the method called
  stage,        \* "build", "request", "done"
  result        \* what the method returned or raised, "none" before that

typed == <<operation, stage, result>>

typedVars == <<vars, typed>>

-----------------------------------------------------------------------------
\* request() called by the application itself.
Direct == Row("client", "request", "any", TRUE, "none", FALSE)

\* Resource._request passes no retry count, no raw_response and no headers:
\* the client's own max_retries counts, which its constructor checked.
PassesDefaults(c) == c.retries >= 0 /\ ~c.raw /\ ~c.authOverride

TypedInit ==
  /\ Init
  /\ operation \in Operations \union {Direct}
  /\ operation # Direct => call.method = operation.verb /\ PassesDefaults(call)
  /\ stage = IF operation.builds THEN "build" ELSE "request"
  /\ result = "none"

Return(x) == result' = x /\ stage' = "done" /\ UNCHANGED <<vars, operation>>

\* Bug: the arguments are looked at when the request is on its way.
RefuseArgumentsLate ==
  /\ operation.builds /\ stage # "done"
  /\ Return("ValidationError")

\* The request model refuses an argument.
RefuseArguments ==
  /\ stage = "build"
  /\ Return("ValidationError")

BuildRequest ==
  /\ stage = "build"
  /\ stage' = "request"
  /\ UNCHANGED <<vars, operation, result>>

\* request() runs.
RunRequest(step) == stage = "request" /\ step /\ UNCHANGED typed

\* It raised, and nothing in the method catches anything.
PassException ==
  /\ stage = "request"
  /\ outcome \notin {"none", "returned"}
  /\ Return(outcome)

\* It returned a body, which the method's reader reads.
ReadBody(b) ==
  /\ stage = "request"
  /\ outcome = "returned"
  /\ Return(IF operation = Direct THEN "value" ELSE Read(operation.reader, b))

TypedOver == stage = "done" /\ UNCHANGED typedVars

\* The rest of the world goes on, also when the method has returned.
Around == (Close \/ ProviderStep) /\ UNCHANGED typed

Method(loop) ==
  \/ RefuseArguments \/ BuildRequest
  \/ RunRequest(loop)
  \/ PassException
  \/ \E b \in Bodies : ReadBody(b)

TypedNext == Method(AsyncRequest) \/ Around \/ TypedOver

TypedSpec == TypedInit /\ [][TypedNext]_typedVars

\* The method runs, and the loop under it: httpx enforces a finite timeout on
\* every call (60 seconds unless the caller changes it), so waiting always
\* ends; sleeps end too.
TypedFairSpec == TypedSpec /\ WF_typedVars(Method(SyncRequest))

-----------------------------------------------------------------------------
(* Properties *)

TypedTypeOK ==
  /\ TypeOK
  /\ operation \in Operations \union {Direct}
  /\ stage \in {"build", "request", "done"}
  /\ result \in {"none"} \union Outcomes \union Parsed

\* The results after which the application may count on the effect.  A
\* ValidationError is one of them unless the method makes its own request
\* model: then the same class also means that nothing was sent.
Settled ==
  {"value", "WarningResponse", "QuestBlueResponseError"}
    \union (IF operation.builds THEN {} ELSE {"ValidationError"})

\* What a typed method returns or raises never contradicts the provider, across
\* argument checks, retries, late executions and the reading of the body: a
\* settled result means the call was performed, a refusal that a change was not
\* and will not be, and a ValidationError is never in doubt.
TypedResultHonest ==
  /\ result \in Settled => attempt \in executed
  /\ result \in Refused /\ operation.changes /\ Mutating => posted \union executed = {}
  /\ result = "ValidationError" => attempt \in executed \/ posted \union executed = {}

\* Every method that asks the provider to change something goes out with a verb
\* that is never sent twice: whatever happens, the change is made once at most.
ChangeAtMostOnce ==
  operation.changes /\ operation # Direct => \A a, b \in posted \union executed : a = b

\* The promise to the code above a typed method that asks for a change: that of
\* ChangeCall, where the change is made by any execution.  A ValidationError of a
\* request that was not sent is what the simple API calls a refused argument.
Changes == operation.changes /\ operation # Direct

TypedEnding ==
  IF ~Changes THEN "none"
  ELSE IF result = "value" THEN "returned"
  ELSE IF result = "ValidationError" /\ executed = {} THEN "ValueError"
  ELSE result

TypedFate ==
  IF TypedEnding = "none" THEN "untouched"
  ELSE IF executed # {} THEN "performed"
  ELSE IF result \in InDoubt THEN "pending"
  ELSE "untouched"

Change == INSTANCE ChangeCall WITH
            Endings  <- Outcomes \union {"WarningResponse", "ValidationError", "ValueError"},
            Answered <- Confirmed \union {"WarningResponse", "ValidationError"},
            several <- FALSE, invalid <- FALSE, ending <- TypedEnding, fate <- TypedFate

ImplementsChangeCall == Change!Spec

\* Every call of a typed method, and of request(), comes to an end.
MethodReturns == <>(stage = "done")

\* A warning of the provider is never lost in a value, whatever the reader.
WarningSurfaces ==
  \A reader \in {row.reader : row \in AllOperations}, b \in Bodies :
    b.warning # "absent" => Read(reader, b) # "value"
=============================================================================
