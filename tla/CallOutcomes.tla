---------------------------- MODULE CallOutcomes ----------------------------
(***************************************************************************)
(* What one call of the SDK can end with, as the application sees it: a    *)
(* decoded value or one of the exceptions of src/src/questblue/_exceptions *)
(* .py, and what that ending says about the provider.  Shared by the       *)
(* transport, which produces these endings, and by the modules above it,   *)
(* which only see them.                                                    *)
(***************************************************************************)

\* The exceptions request() raises on its own account.
SDKErrors ==
  { "QuestBlueConfigurationError", "QuestBlueConnectionError",
    "QuestBlueTimeoutError", "QuestBlueResponseError", "QuestBlueAPIError",
    "QuestBlueAuthenticationError", "QuestBlueRateLimitError",
    "QuestBlueServerError" }

\* "returned": a value.  CancelledError and RuntimeError are raised by asyncio
\* and by a closed httpx client and pass through request() unchanged.
Outcomes == {"returned", "CancelledError", "RuntimeError"} \union SDKErrors

\* A 2xx reply arrived: the provider performed the call, even when its body
\* could then not be decoded.
Confirmed == {"returned", "QuestBlueResponseError"}

\* The client never learnt, or was told in a way that does not say, whether
\* the provider performed the call.
InDoubt == { "QuestBlueTimeoutError", "QuestBlueConnectionError",
             "QuestBlueServerError", "CancelledError" }

\* The call was refused by the provider, or was never sent.
Refused == Outcomes \ (Confirmed \union InDoubt)

-----------------------------------------------------------------------------
(* What can have become of the change a call asks for, once it has ended.  *)

Fate == {"untouched", "pending", "performed"}

\* After a request that was sent, where answered are the endings that follow a
\* 2xx reply: pending is a change the provider may still make.
Fates(e, answered) ==
  IF e \in answered THEN {"performed"} ELSE IF e \in InDoubt THEN Fate ELSE {"untouched"}

\* After a call that may have ended before the request for the change: because
\* it makes several requests and the last is the one, or because an argument of
\* that request is refused.
FatesOf(e, answered, several, invalid) ==
  LET sent   == IF invalid THEN {} ELSE Fates(e, answered)
      before == IF (several \/ invalid) /\ e # "returned" THEN {"untouched"} ELSE {}
  IN  sent \union before
=============================================================================
