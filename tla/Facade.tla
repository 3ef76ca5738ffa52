------------------------------- MODULE Facade -------------------------------
(***************************************************************************)
(* Facades that share a client, and delivery waits in flight through them  *)
(* (src/src/questblue/simple/_client.py, _client.py, and wait_for_delivery *)
(* of simple/_read.py).  A facade owns the typed client it creates or      *)
(* wraps one it borrows; a typed client owns the httpx client it creates   *)
(* or borrows one it is given.  A web application wraps one process-wide   *)
(* typed client in a facade per request, and each of them is closed at the *)
(* end of its request while others are waiting.                            *)
(***************************************************************************)
EXTENDS Integers

CONSTANTS
  Facades,      \* the facades
  MaxAttempts   \* bound: the largest attempts of a wait

ASSUME FacadesAssumption == Facades \intersect {"typed", "shared"} = {}
ASSUME MaxAttemptsAssumption == MaxAttempts \in Nat

VARIABLES
  setup,        \* which facades and clients borrow, and the attempts of a wait
  ended,        \* the objects whose holder has called their close()
  closed,       \* the httpx clients that are closed
  message,      \* the delivery status of the message the waits are for
  pc,           \* where the wait of each facade is
  asked,        \* how often it has asked for the status
  heard,        \* the status it heard last
  outcome       \* how it ended, "none" before that

vars == <<setup, ended, closed, message, pc, asked, heard, outcome>>

-----------------------------------------------------------------------------
\* A facade names the typed client it creates, and a typed client the httpx
\* client it creates; "typed" and "shared" are those the application creates.
Clients == Facades \union {"typed"}

HttpClients == Clients \union {"shared"}

\* A facade that wraps a typed client creates none that could be given one.
Setups ==
  {s \in [wraps : SUBSET Facades, given : SUBSET Clients, attempts : 0 .. MaxAttempts] :
     s.wraps \intersect s.given = {}}

Raw(f) == IF f \in setup.wraps THEN "typed" ELSE f

Http(c) == IF c \in setup.given THEN "shared" ELSE c

Open(f) == Http(Raw(f)) \notin closed

Statuses == {"sent", "delivered", "failed"}

\* Bug: a failed delivery is asked for again.
DeliveredOnly == {"delivered"}

Terminal == {"delivered", "failed"}

Init ==
  /\ setup \in Setups
  /\ ended = {}
  /\ closed = {}
  /\ message = "sent"
  /\ pc = [f \in Facades |-> "idle"]
  /\ asked = [f \in Facades |-> 0]
  /\ heard = [f \in Facades |-> "sent"]
  /\ outcome = [f \in Facades |-> "none"]

-----------------------------------------------------------------------------
(* close() *)

wait == <<pc, asked, heard, outcome>>

CloseClient(c) == closed' = IF c \in setup.given THEN closed ELSE closed \union {c}

\* Bug: a facade closes the client it borrows.
CloseRaw(f) ==
  /\ f \notin ended
  /\ ended' = ended \union {f}
  /\ CloseClient(Raw(f))
  /\ UNCHANGED <<setup, message, wait>>

CloseFacade(f) ==
  /\ f \notin ended
  /\ ended' = ended \union {f}
  /\ IF f \in setup.wraps THEN UNCHANGED closed ELSE CloseClient(f)
  /\ UNCHANGED <<setup, message, wait>>

\* The application closes its typed client.
CloseTyped ==
  /\ "typed" \notin ended
  /\ ended' = ended \union {"typed"}
  /\ CloseClient("typed")
  /\ UNCHANGED <<setup, message, wait>>

\* The application closes the httpx client it gave to the typed clients.
CloseShared ==
  /\ "shared" \notin ended
  /\ ended' = ended \union {"shared"}
  /\ closed' = closed \union {"shared"}
  /\ UNCHANGED <<setup, message, wait>>

-----------------------------------------------------------------------------
(* wait_for_delivery *)

Goto(f, place) == pc' = [pc EXCEPT ![f] = place] /\ UNCHANGED outcome

End(f, o) == pc' = [pc EXCEPT ![f] = "done"] /\ outcome' = [outcome EXCEPT ![f] = o]

Begin(f) ==
  /\ pc[f] = "idle"
  /\ IF setup.attempts < 1 THEN End(f, "ValueError") ELSE Goto(f, "ask")
  /\ UNCHANGED <<setup, ended, closed, message, asked, heard>>

\* Bug: the attempts are not counted.
AskUncounted(f) ==
  /\ pc[f] = "ask"
  /\ Goto(f, "waiting")
  /\ UNCHANGED <<setup, ended, closed, message, asked, heard>>

Ask(f) ==
  /\ pc[f] = "ask"
  /\ asked' = [asked EXCEPT ![f] = @ + 1]
  /\ Goto(f, "waiting")
  /\ UNCHANGED <<setup, ended, closed, message, heard>>

LastAttempt(f) == asked[f] >= setup.attempts

\* The provider answers with the status of that moment, and the reply arrives.
Hear(f) ==
  /\ pc[f] = "waiting"
  /\ Open(f)
  /\ heard' = [heard EXCEPT ![f] = message]
  /\ IF message \in Terminal THEN End(f, "returned")
     ELSE IF LastAttempt(f) THEN End(f, "DeliveryTimeoutError")
     ELSE Goto(f, "sleep")
  /\ UNCHANGED <<setup, ended, closed, message, asked>>

\* request() raises, or the reply is a warning.
Raised(f) ==
  /\ pc[f] = "waiting"
  /\ End(f, "raised")
  /\ UNCHANGED <<setup, ended, closed, message, asked, heard>>

\* The httpx client was closed before or during the request.
Broken(f) ==
  /\ pc[f] = "waiting"
  /\ ~Open(f)
  /\ End(f, "broken")
  /\ UNCHANGED <<setup, ended, closed, message, asked, heard>>

Sleep(f) ==
  /\ pc[f] = "sleep"
  /\ Goto(f, "ask")
  /\ UNCHANGED <<setup, ended, closed, message, asked, heard>>

\* The task of an asynchronous wait is cancelled at an await.
Cancel(f) ==
  /\ pc[f] \in {"waiting", "sleep"}
  /\ End(f, "CancelledError")
  /\ UNCHANGED <<setup, ended, closed, message, asked, heard>>

Wait(f) == Begin(f) \/ Ask(f) \/ Hear(f) \/ Raised(f) \/ Broken(f) \/ Sleep(f)

\* The message is delivered, or fails, at any time.
Deliver ==
  /\ message = "sent"
  /\ message' \in {"delivered", "failed"}
  /\ UNCHANGED <<setup, ended, closed, wait>>

Over == (\A f \in Facades : pc[f] = "done") /\ UNCHANGED vars

Next ==
  \/ \E f \in Facades : CloseFacade(f) \/ Wait(f) \/ Cancel(f)
  \/ CloseTyped \/ CloseShared \/ Deliver
  \/ Over

Spec == Init /\ [][Next]_vars

\* Every request ends (MethodReturns of ResourceCall) and so does every sleep; the
\* message may stay on its way for ever.
Fairness == \A f \in Facades : WF_vars(Wait(f))

FairSpec == Spec /\ Fairness

-----------------------------------------------------------------------------
(* Properties *)

\* Every variable stays in its range.
TypeOK ==
  /\ setup \in Setups
  /\ ended \subseteq HttpClients
  /\ closed \subseteq HttpClients
  /\ message \in Statuses
  /\ pc \in [Facades -> {"idle", "ask", "waiting", "sleep", "done"}]
  /\ asked \in [Facades -> 0 .. MaxAttempts]
  /\ heard \in [Facades -> Statuses]
  /\ outcome \in [Facades -> {"none", "ValueError", "returned", "DeliveryTimeoutError",
                              "raised", "broken", "CancelledError"}]

\* A wait finds its httpx client closed only after the holder of the object
\* that created the client closed that object: whatever facades come and go,
\* closing one disturbs nobody who shares its client.
WaitUndisturbed ==
  \A f \in Facades : outcome[f] = "broken" => Http(Raw(f)) \in ended

\* A wait returns only what has become of the message for good, however it was
\* delivered between the attempts, and says that it timed out only when it
\* asked as often as it was told to and the message was on its way the last time.
WaitTruthful ==
  \A f \in Facades :
    /\ outcome[f] = "returned" => heard[f] = message /\ message # "sent"
    /\ outcome[f] = "DeliveryTimeoutError" =>
         asked[f] = setup.attempts /\ heard[f] = "sent"

\* Every wait ends, also when the message never does.
WaitEnds == \A f \in Facades : <>(pc[f] = "done")
=============================================================================
