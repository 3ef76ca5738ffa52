----------------------------- MODULE SimpleCall -----------------------------
(***************************************************************************)
(* One call of a mutating method of the simple API                         *)
(* (src/src/questblue/simple/_provision.py and the sending methods of      *)
(* _read.py): arguments are normalised, the risk is confirmed or the call  *)
(* is a dry run, and then the requests of the method go out one after the  *)
(* other through the transport.  Most methods make one request; configuring*)
(* a fax number makes up to two, and sending an enterprise fax uploads     *)
(* every file before it sends.                                             *)
(***************************************************************************)
EXTENDS Integers, FiniteSets, CallOutcomes

CONSTANTS
  Methods,      \* the methods called, records of the tables below
  MaxFiles      \* bound: the files of one enterprise fax

ASSUME MaxFilesAssumption == MaxFiles \in Nat \ {0}

VARIABLES
  call,         \* the method and the arguments
  pc,           \* "check", "request", "done"
  step,         \* the request in hand
  applied,      \* requests the provider performed
  pending,      \* requests it may still perform
  warned,       \* requests it answered with a WarningResponse
  unnamed,      \* requests it answered without the identifier of the result
  outcome       \* how the method ended, "none" before that

vars == <<call, pc, step, applied, pending, warned, unnamed, outcome>>

-----------------------------------------------------------------------------
(* The methods, as each of them is written: one that passes the gate         *)
(* normalises first and has a dry run; one that asks for the confirmation    *)
(* itself does so first and has none.  A named method needs an identifier in *)
(* the reply.                                                                *)

Gated(name, risk) ==
  [name |-> name, risk |-> risk, check |-> "gate", named |-> FALSE, shape |-> "single"]

Asking(name, risk, named, shape) ==
  [name |-> name, risk |-> risk, check |-> "ask", named |-> named, shape |-> shape]

NumberMethods ==
  { Gated("dids.order", "billable"), Gated("dids.update", "routing-change"),
    Gated("dids.move_to_fax", "routing-change"), Gated("dids.delete", "destructive") }

InternationalNumberMethods ==
  { Gated("international_dids.order", "billable"),
    Gated("international_dids.update", "routing-change"),
    Gated("international_dids.delete", "destructive") }

VoiceMethods ==
  { Gated("sip_trunks.update", "routing-change"),
    Gated("sip_trunks.block_caller", "routing-change"),
    Gated("sip_trunks.create", "routing-change"), Gated("sip_trunks.delete", "destructive") }

FaxMethods ==
  { [Gated("fax.configure", "routing-change") EXCEPT !.shape = "configure"],
    Gated("fax.create", "billable"), Gated("fax.move_to_voice", "routing-change"),
    Gated("fax.delete", "destructive") }

EnterpriseFaxMethods ==
  { Gated("enterprise_fax.create", "billable"),
    Gated("enterprise_fax.create_user", "routing-change"),
    Gated("enterprise_fax.set_permission", "routing-change"),
    Gated("enterprise_fax.delete", "destructive"),
    Gated("enterprise_fax.create_group", "routing-change"),
    Gated("enterprise_fax.delete_group", "destructive") }

\* Bug: the draft of a port is submitted without passing the gate.
PortingUnchecked ==
  {[Gated("lnp.create", "compliance-sensitive") EXCEPT !.named = TRUE, !.check = "none"]}

PortingMethods == {[Gated("lnp.create", "compliance-sensitive") EXCEPT !.named = TRUE]}

ServerMethods ==
  { Gated("servers.manage_backup_schedule", "routing-change"),
    Gated("servers.restore_backup", "destructive"),
    Gated("servers.remove_backup", "destructive"), Gated("servers.create", "billable"),
    Gated("servers.add_ip", "routing-change"), Gated("servers.delete", "destructive") }

MessageMethods ==
  { Asking("messages.configure", "routing-change", FALSE, "single"),
    Asking("messages.send", "consent-required", TRUE, "single") }

FaxSendMethods ==
  { Asking("fax.set_email_access", "routing-change", FALSE, "single"),
    Asking("fax.send", "destination-confirmation", TRUE, "single") }

EnterpriseFaxSendMethods ==
  { Asking("enterprise_fax.upload_and_send", "destination-confirmation", TRUE, "upload") }

AllMethods ==
  UNION { NumberMethods, InternationalNumberMethods, VoiceMethods, FaxMethods,
          EnterpriseFaxMethods, PortingMethods, ServerMethods, MessageMethods,
          FaxSendMethods, EnterpriseFaxSendMethods }

ASSUME MethodsAssumption == Methods \subseteq AllMethods

\* How many requests a call of a method makes: configure leaves out what is not
\* given, and an enterprise fax has at least one file.
RequestCounts(method) ==
  CASE method.shape = "single"    -> {1}
    [] method.shape = "configure" -> 0 .. 2
    [] method.shape = "upload"    -> 2 .. MaxFiles + 1

\* flaw: an argument that is refused at once, or one whose normaliser runs only
\* when the request that carries it is built.
Calls ==
  { c \in [ method : Methods, requests : 0 .. MaxFiles + 2, confirmed : BOOLEAN,
            dry : BOOLEAN, flaw : {"none", "argument", "late"} ] :
      /\ c.requests \in RequestCounts(c.method)
      /\ c.dry => c.method.check = "gate"
      /\ c.flaw = "late" => c.method.shape # "single" /\ c.requests > 0 }

\* Bug: the fields are looked at when the last request is built.
FlawFoundLast == call.requests

\* Bug: the fields of a request are not looked at when it is built.
NumbersUnchecked == 0

\* The request a late flaw is found at: the fields of the first request of
\* configure, the numbers of the fax that is sent after the uploads.
LateRequest == IF call.method.shape = "upload" THEN call.requests ELSE 1

-----------------------------------------------------------------------------
Init ==
  /\ call \in Calls
  /\ pc = "check"
  /\ step = 0
  /\ applied = {}
  /\ pending = {}
  /\ warned = {}
  /\ unnamed = {}
  /\ outcome = "none"

End(o) == pc' = "done" /\ outcome' = o

\* A method that neither passes _gate nor asks would not be stopped.
Consented == call.confirmed \/ call.method.check = "none"

\* A refused argument: before the gate, or after the confirmation.
RejectArgument ==
  /\ pc = "check"
  /\ call.flaw = "argument"
  /\ call.method.check = "gate" \/ Consented
  /\ End("ValueError")
  /\ UNCHANGED <<call, step, applied, pending, warned, unnamed>>

ReturnPlan ==
  /\ pc = "check"
  /\ call.flaw # "argument"
  /\ call.dry
  /\ End("planned")
  /\ UNCHANGED <<call, step, applied, pending, warned, unnamed>>

RequireConfirmation ==
  /\ pc = "check"
  /\ call.method.check = "gate" => call.flaw # "argument" /\ ~call.dry
  /\ ~Consented
  /\ End("ConfirmationRequiredError")
  /\ UNCHANGED <<call, step, applied, pending, warned, unnamed>>

\* Into the requests; a configure call with nothing to change has none.
Accept ==
  /\ pc = "check"
  /\ call.flaw # "argument" /\ ~call.dry /\ Consented
  /\ IF call.requests = 0
       THEN End("returned") /\ UNCHANGED step
       ELSE step' = 1 /\ pc' = "request" /\ UNCHANGED outcome
  /\ UNCHANGED <<call, applied, pending, warned, unnamed>>

-----------------------------------------------------------------------------
\* Bug: an upload without an identifier goes unnoticed.
NothingMissing == FALSE

\* The identifiers of the uploads are looked at once all of them are there.
UploadsUnnamed ==
  call.method.shape = "upload" /\ step = call.requests /\ unnamed # {}

MissIdentifier ==
  /\ pc = "request"
  /\ UploadsUnnamed
  /\ End("MissingProviderIdentifierError")
  /\ UNCHANGED <<call, step, applied, pending, warned, unnamed>>

RejectLate ==
  /\ pc = "request"
  /\ ~UploadsUnnamed
  /\ call.flaw = "late" /\ step = LateRequest
  /\ End("ValueError")
  /\ UNCHANGED <<call, step, applied, pending, warned, unnamed>>

Sendable ==
  /\ pc = "request"
  /\ ~UploadsUnnamed
  /\ ~(call.flaw = "late" /\ step = LateRequest)

\* Bug: the warnings kept for the end are forgotten.
ForgetWarnings(warnings) == "returned"

\* configure looks at the warnings when both requests are through.
AfterLast(warnings) == IF warnings # {} THEN "QuestBlueWarningError" ELSE "returned"

Continue(warnings) ==
  IF step < call.requests
    THEN step' = step + 1 /\ UNCHANGED <<pc, outcome>>
    ELSE End(AfterLast(warnings)) /\ UNCHANGED step

\* A 2xx reply to the request in hand.
ReplyGood ==
  /\ Sendable
  /\ applied' = applied \union {step}
  /\ Continue(warned)
  /\ UNCHANGED <<call, pending, warned, unnamed>>

ReplyWarning ==
  /\ Sendable
  /\ applied' = applied \union {step}
  /\ warned' = warned \union {step}
  /\ IF call.method.shape = "configure"
       THEN Continue(warned')
       ELSE End("QuestBlueWarningError") /\ UNCHANGED step
  /\ UNCHANGED <<call, pending, unnamed>>

ReplyUnnamed ==
  /\ Sendable
  /\ call.method.named
  /\ applied' = applied \union {step}
  /\ unnamed' = unnamed \union {step}
  /\ IF step < call.requests
       THEN Continue(warned)
       ELSE End("MissingProviderIdentifierError") /\ UNCHANGED step
  /\ UNCHANGED <<call, pending, warned>>

\* Bug: a request that failed does not keep the next one from being made.
StopUnlessMore(e) ==
  IF step < call.requests THEN step' = step + 1 /\ UNCHANGED <<pc, outcome>>
  ELSE End(e) /\ UNCHANGED step

StopWith(e) == End(e) /\ UNCHANGED step

\* What a typed method raises: the exceptions of request(), and the
\* ValidationError of a response model that refuses the body of a 2xx reply
\* (ReadBody of ResourceCall).
TypedErrors == (Outcomes \ {"returned"}) \union {"ValidationError"}

Answered == Confirmed \union {"ValidationError"}

\* The request ends with an exception; what it did at the provider is what
\* ImplementsChangeCall of ResourceCall leaves open.
RequestRaises(e) ==
  /\ Sendable
  /\ \E fate \in Fates(e, Answered) :
       /\ applied' = IF fate = "performed" THEN applied \union {step} ELSE applied
       /\ pending' = IF fate = "pending" THEN pending \union {step} ELSE pending
  /\ StopWith(e)
  /\ UNCHANGED <<call, warned, unnamed>>

\* The provider performs a request whose call is long over.
Land ==
  /\ pending # {}
  /\ applied' = applied \union pending
  /\ pending' = {}
  /\ UNCHANGED <<call, pc, step, warned, unnamed, outcome>>

Check == RejectArgument \/ ReturnPlan \/ RequireConfirmation \/ Accept

Perform ==
  \/ MissIdentifier \/ RejectLate
  \/ ReplyGood \/ ReplyWarning \/ ReplyUnnamed
  \/ \E e \in TypedErrors : RequestRaises(e)

Over == pc = "done" /\ UNCHANGED vars

Next == Check \/ Perform \/ Land \/ Over

Spec == Init /\ [][Next]_vars

-----------------------------------------------------------------------------
(* Properties *)

Requests == 1 .. call.requests

Sent == applied \union pending

\* Each method looks at the confirmation of its risk, wherever among its checks,
\* before anything is sent, and sends nothing for a dry run.
ConsentBeforeIO == Sent # {} => call.confirmed /\ ~call.dry

\* The provider has a prefix of the requests, and only the last of them can be
\* in doubt: each request waits for the one before it to succeed.
SentInOrder == \A k \in Sent : 1 .. k - 1 \subseteq applied

\* An enterprise fax is sent only with all its files: every upload performed,
\* answered without a warning and with an identifier.
SendCarriesUploads ==
  call.method.shape = "upload" /\ call.requests \in Sent =>
    /\ 1 .. call.requests - 1 \subseteq applied
    /\ (warned \union unnamed) \subseteq {call.requests}

\* A method that returns did everything it was asked to, and no warning and no
\* missing identifier is hidden in the return.
ReturnedMeansDone ==
  outcome = "returned" => applied = Requests /\ warned = {} /\ unnamed = {}

\* An argument that is refused, at once or when its request is built, never
\* leaves more behind than the uploads of a fax that is not sent: the requests
\* that change routing, charge or deliver have not been made.
RefusedLeavesUploadsOnly ==
  outcome = "ValueError" =>
    \A k \in Sent : call.method.shape = "upload" /\ k < call.requests

\* The requests of a method take effect as the operations of a plan do: in
\* order, each once, none after one that did not surely succeed.
Verdict ==
  CASE outcome = "none" -> "running" [] outcome = "returned" -> "succeeded" [] OTHER -> "stopped"

Steps == INSTANCE StepSequence WITH
           MaxLength <- MaxFiles + 2, length <- call.requests, verdict <- Verdict

ImplementsStepSequence == Steps!Spec

\* A call as the plans make it, in the user's name.
CalledByPlan == call.confirmed /\ ~call.dry /\ call.method.shape # "configure"

\* The exceptions about a 2xx reply are one ending to a plan.
PlannedEnding ==
  IF ~CalledByPlan THEN "none"
  ELSE IF outcome \in {"ValidationError", "MissingProviderIdentifierError"} THEN "QuestBlueWarningError"
  ELSE outcome

PlannedFate ==
  IF PlannedEnding = "none" THEN "untouched"
  ELSE IF call.requests \in applied THEN "performed"
  ELSE IF call.requests \in pending THEN "pending"
  ELSE "untouched"

\* To the plan that calls it, a method with any number of requests is one change,
\* made by the last of them.
Change == INSTANCE ChangeCall WITH
            Endings  <- Outcomes \union {"QuestBlueWarningError", "ValueError"},
            Answered <- Confirmed \union {"QuestBlueWarningError"},
            several <- call.method.shape = "upload", invalid <- call.flaw # "none",
            ending <- PlannedEnding, fate <- PlannedFate

ImplementsChangeCall == Change!Spec
=============================================================================
