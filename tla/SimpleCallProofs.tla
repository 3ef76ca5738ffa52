-------------------------- MODULE SimpleCallProofs --------------------------
(***************************************************************************)
(* The safety properties of SimpleCall, for every method of the tables and *)
(* any number of files.  The inductive invariant counts: while request     *)
(* step is in hand the provider has exactly 1 .. step - 1, and it never    *)
(* has more than 1 .. step.  It gives the refinements of StepSequence and  *)
(* ChangeCall; the last section is about WorkflowCalls, which executes     *)
(* these calls as the operations of a plan.                                *)
(***************************************************************************)
EXTENDS WorkflowCalls, TLAPS

\* What the provider can have at each place.
Progress ==
  /\ pc \in {"check", "request", "done"}
  /\ step \in 0 .. call.requests
  /\ 1 .. step - 1 \subseteq applied
  /\ applied \union pending \subseteq 1 .. step
  /\ pending \subseteq {step} /\ applied \intersect pending = {}
  /\ warned \union unnamed \subseteq 1 .. step
  /\ pc = "check" => step = 0
  /\ pc # "done" <=> outcome = "none"
  /\ outcome = "returned" => pending = {}
  /\ pc = "request" =>
       /\ step > 0 /\ pending = {} /\ call.flaw # "argument"
       /\ applied \union warned \union unnamed \subseteq 1 .. step - 1

\* What the replies so far were, for the method in hand.
Replied ==
  /\ pc = "request" /\ call.method.shape # "configure" => warned = {}
  /\ call.method.shape = "configure" => unnamed = {}

IInv ==
  /\ call \in Calls
  /\ Progress
  /\ step > 0 => call.confirmed /\ ~call.dry
  /\ Replied
  /\ SendCarriesUploads
  /\ ReturnedMeansDone
  /\ RefusedLeavesUploadsOnly

-----------------------------------------------------------------------------
\* What the tables say about a call: only configure defers its warnings, and
\* it names nothing; every method looks at its confirmation.
LEMMA CallFacts ==
  ASSUME call \in Calls
  PROVE  /\ call.requests \in Nat
         /\ call.method.shape \in {"single", "configure", "upload"}
         /\ call.method.shape = "configure" => ~call.method.named
         /\ call.method.shape = "single" => call.requests = 1
         /\ call.method.shape = "upload" => call.requests >= 2
         /\ call.flaw = "late" => call.method.shape # "single"
         /\ call.confirmed \in BOOLEAN /\ call.dry \in BOOLEAN
         /\ Consented <=> call.confirmed
<1>1. call.method \in AllMethods
  BY MethodsAssumption DEF Calls
<1>2. /\ call.method.shape \in {"single", "configure", "upload"}
      /\ call.method.shape = "configure" => ~call.method.named
      /\ call.method.check # "none"
  BY <1>1 DEF AllMethods, NumberMethods, InternationalNumberMethods, VoiceMethods, FaxMethods,
     EnterpriseFaxMethods, PortingMethods, ServerMethods, MessageMethods, FaxSendMethods,
     EnterpriseFaxSendMethods, Gated, Asking
<1>3. /\ call.requests \in RequestCounts(call.method) /\ call.requests \in 0 .. MaxFiles + 2
      /\ call.confirmed \in BOOLEAN /\ call.dry \in BOOLEAN
      /\ call.flaw = "late" => call.method.shape # "single"
  BY DEF Calls
<1> QED BY <1>2, <1>3, MaxFilesAssumption DEF RequestCounts, Consented

LEMMA InitInv == Init => IInv
<1> SUFFICES ASSUME Init
             PROVE  IInv
  OBVIOUS
<1> QED BY CallFacts DEF Init, IInv, Progress, Replied, SendCarriesUploads, Sent,
           ReturnedMeansDone, Requests, RefusedLeavesUploadsOnly

\* No check sends anything, and only a confirmed call goes on to its requests.
LEMMA CheckInv ==
  ASSUME IInv, Check
  PROVE  IInv'
<1>1. pc = "check" /\ step = 0 /\ UNCHANGED <<call, applied, pending, warned, unnamed>>
  BY DEF IInv, Progress, Check, RejectArgument, ReturnPlan, RequireConfirmation, Accept
<1>2. applied = {} /\ pending = {} /\ warned = {} /\ unnamed = {}
  BY <1>1 DEF IInv, Progress
<1>3. \/ /\ pc' = "done" /\ step' = 0 /\ outcome' # "none"
         /\ outcome' = "returned" => call.requests = 0
      \/ /\ pc' = "request" /\ step' = 1 /\ outcome' = outcome
         /\ call.requests # 0 /\ call.confirmed /\ ~call.dry /\ call.flaw # "argument"
  BY <1>1, CallFacts DEF Check, RejectArgument, ReturnPlan, RequireConfirmation, Accept, End,
                         IInv, Progress
<1>4. call' \in Calls /\ call.requests \in Nat
  BY <1>1, CallFacts DEF IInv
<1>5. Progress'
  BY <1>1, <1>2, <1>3, <1>4 DEF IInv, Progress
<1>6. (step > 0 => call.confirmed /\ ~call.dry)' /\ Replied' /\ SendCarriesUploads'
  BY <1>1, <1>2, <1>3, <1>4 DEF Replied, SendCarriesUploads, Sent
<1>7. ReturnedMeansDone'
  BY <1>1, <1>2, <1>3, <1>4 DEF IInv, ReturnedMeansDone, Requests
<1>8. RefusedLeavesUploadsOnly'
  BY <1>1, <1>2 DEF RefusedLeavesUploadsOnly, Sent
<1> QED BY <1>4, <1>5, <1>6, <1>7, <1>8 DEF IInv

\* Where a call stands when it sends a request.
LEMMA SendableFacts ==
  ASSUME IInv, Sendable
  PROVE  /\ pc = "request" /\ step \in 1 .. call.requests /\ pending = {}
         /\ applied = 1 .. step - 1 /\ warned \union unnamed \subseteq 1 .. step - 1
         /\ ~UploadsUnnamed /\ call.requests \in Nat
<1>1. pc = "request" /\ ~UploadsUnnamed
  BY DEF Sendable
<1>2. call.requests \in Nat
  BY CallFacts DEF IInv
<1>3. step \in 0 .. call.requests /\ step > 0 /\ pending = {}
  BY <1>1 DEF IInv, Progress
<1>4. 1 .. step - 1 \subseteq applied /\ applied \union warned \union unnamed \subseteq 1 .. step - 1
  BY <1>1 DEF IInv, Progress
<1>5. step \in 1 .. call.requests
  BY <1>2, <1>3
<1>6. applied = 1 .. step - 1 /\ warned \union unnamed \subseteq 1 .. step - 1
  BY <1>4
<1> QED BY <1>1, <1>2, <1>3, <1>5, <1>6

\* A good reply to a request that may be sent.
LEMMA ReplyInv ==
  ASSUME IInv, Sendable, UNCHANGED <<call, pending>>, applied' = applied \union {step},
         warned' \in {warned, warned \union {step}},
         unnamed' \in {unnamed, unnamed \union {step}},
         call.method.shape = "configure" => unnamed' = unnamed,
         \/ /\ step < call.requests /\ step' = step + 1 /\ UNCHANGED <<pc, outcome>>
            /\ call.method.shape # "configure" => warned' = warned
         \/ /\ pc' = "done" /\ step' = step /\ outcome' \notin {"none", "ValueError"}
            /\ outcome' = "returned" =>
                 step = call.requests /\ warned' = {} /\ unnamed' = unnamed
  PROVE  IInv'
<1>1. /\ pc = "request" /\ step \in 1 .. call.requests /\ pending = {}
      /\ applied = 1 .. step - 1 /\ warned \union unnamed \subseteq 1 .. step - 1
      /\ ~UploadsUnnamed /\ call.requests \in Nat
  BY SendableFacts
<1>2. applied' = 1 .. step
  BY <1>1
<1>3. Progress'
  BY <1>1, <1>2 DEF IInv, Progress
<1>4. (step > 0 => call.confirmed /\ ~call.dry)' /\ Replied'
  BY <1>1 DEF IInv, Replied
<1>5. SendCarriesUploads'
  <2> SUFFICES ASSUME call.method.shape = "upload", call.requests \in Sent'
               PROVE  /\ 1 .. call.requests - 1 \subseteq applied'
                      /\ (warned' \union unnamed') \subseteq {call.requests}
    BY DEF SendCarriesUploads
  <2>1. step = call.requests
    BY <1>1, <1>2 DEF Sent
  <2>2. warned = {} /\ unnamed = {}
    BY <1>1, <2>1 DEF IInv, Replied, UploadsUnnamed
  <2> QED BY <1>2, <2>1, <2>2, <1>1
<1>6. ReturnedMeansDone'
  <2> SUFFICES ASSUME outcome' = "returned"
               PROVE  applied' = 1 .. call.requests /\ warned' = {} /\ unnamed' = {}
    BY DEF ReturnedMeansDone, Requests
  <2>1. step < call.requests => outcome # "returned"
    BY <1>1 DEF IInv, ReturnedMeansDone, Requests
  <2>2. step = call.requests /\ warned' = {} /\ unnamed' = unnamed
    BY <2>1, <1>1
  <2>3. unnamed = {}
    BY <1>1, <2>2, CallFacts DEF IInv, Replied, UploadsUnnamed
  <2> QED BY <1>2, <2>2, <2>3
<1>7. RefusedLeavesUploadsOnly'
  BY <1>1 DEF IInv, Progress, RefusedLeavesUploadsOnly
<1> QED BY <1>3, <1>4, <1>5, <1>6, <1>7 DEF IInv

\* The names of the endings differ.
LEMMA ErrorNames ==
  \A e \in TypedErrors : e \notin {"none", "returned", "ValueError"}
BY DEF TypedErrors, Outcomes, SDKErrors

\* A request that ends with an exception is the last one.
LEMMA RaiseInv ==
  ASSUME IInv, NEW e \in TypedErrors, RequestRaises(e)
  PROVE  IInv'
<1>1. /\ pc = "request" /\ step \in 1 .. call.requests /\ pending = {}
      /\ applied = 1 .. step - 1 /\ warned \union unnamed \subseteq 1 .. step - 1
      /\ ~UploadsUnnamed /\ call.requests \in Nat
  BY SendableFacts DEF RequestRaises
<1>2. /\ UNCHANGED <<call, warned, unnamed, step>> /\ pc' = "done" /\ outcome' = e
      /\ applied' \in {applied, applied \union {step}} /\ pending' \subseteq {step}
      /\ applied' \intersect pending' = {}
  BY <1>1 DEF RequestRaises, StopWith, End
<1>3. Progress' /\ (step > 0 => call.confirmed /\ ~call.dry)' /\ Replied'
  BY <1>1, <1>2, ErrorNames DEF IInv, Progress, Replied
<1>4. SendCarriesUploads'
  BY <1>1, <1>2 DEF IInv, SendCarriesUploads, Sent, Replied, UploadsUnnamed
<1>5. ReturnedMeansDone' /\ RefusedLeavesUploadsOnly'
  BY <1>2, ErrorNames DEF ReturnedMeansDone, RefusedLeavesUploadsOnly
<1> QED BY <1>2, <1>3, <1>4, <1>5 DEF IInv

LEMMA PerformInv ==
  ASSUME IInv, Perform
  PROVE  IInv'
<1>1. CASE MissIdentifier \/ RejectLate
  <2>1. /\ pc = "request" /\ pc' = "done" /\ outcome' \notin {"none", "returned"}
        /\ UNCHANGED <<call, step, applied, pending, warned, unnamed>>
    BY <1>1 DEF MissIdentifier, RejectLate, End
  <2>2. RefusedLeavesUploadsOnly'
    <3>1. /\ call.requests \in Nat /\ call.method.shape \in {"single", "configure", "upload"}
          /\ call.flaw = "late" => call.method.shape # "single"
      BY CallFacts DEF IInv
    <3>2. pending = {} /\ applied \subseteq 1 .. step - 1 /\ step \in Nat
      BY <2>1, <3>1 DEF IInv, Progress
    <3>3. outcome' = "ValueError" => call.flaw = "late" /\ step = LateRequest
      BY <1>1 DEF MissIdentifier, RejectLate, End
    <3>4. Sent' = applied /\ \A k \in applied : k \in Nat \ {0} /\ k < step
      BY <2>1, <3>2 DEF Sent
    <3> QED BY <2>1, <3>1, <3>3, <3>4 DEF LateRequest, RefusedLeavesUploadsOnly
  <2> QED BY <2>1, <2>2 DEF IInv, Progress, Replied, SendCarriesUploads, Sent, ReturnedMeansDone
<1>2. /\ call.method.shape = "configure" => ~call.method.named
      /\ pc = "request" => step \in 1 .. call.requests
      /\ call.requests \in Nat /\ step \in Nat
  BY CallFacts DEF IInv, Progress
<1>3. CASE ReplyGood
  <2>1. \/ step < call.requests /\ step' = step + 1 /\ UNCHANGED <<pc, outcome>>
        \/ /\ pc' = "done" /\ step' = step /\ outcome' \notin {"none", "ValueError"}
           /\ outcome' = "returned" => step = call.requests /\ warned' = {}
    BY <1>2, <1>3 DEF ReplyGood, Sendable, Continue, AfterLast, End
  <2> QED BY <1>3, <2>1, ReplyInv DEF ReplyGood
<1>4. CASE ReplyWarning
  <2>1. \/ /\ step < call.requests /\ step' = step + 1 /\ UNCHANGED <<pc, outcome>>
           /\ call.method.shape = "configure"
        \/ pc' = "done" /\ step' = step /\ outcome' \notin {"none", "returned", "ValueError"}
    BY <1>2, <1>4 DEF ReplyWarning, Sendable, Continue, AfterLast, End
  <2> QED BY <1>4, <2>1, ReplyInv DEF ReplyWarning
<1>5. CASE ReplyUnnamed
  <2>1. \/ step < call.requests /\ step' = step + 1 /\ UNCHANGED <<pc, outcome>>
        \/ pc' = "done" /\ step' = step /\ outcome' \notin {"none", "returned", "ValueError"}
    BY <1>2, <1>5 DEF ReplyUnnamed, Sendable, Continue, End
  <2> QED BY <1>2, <1>5, <2>1, ReplyInv DEF ReplyUnnamed
<1> QED BY <1>1, <1>3, <1>4, <1>5, RaiseInv DEF Perform

LEMMA LandInv ==
  ASSUME IInv, Land
  PROVE  IInv'
<1>1. pc # "request" /\ applied \union pending = applied'
  BY DEF IInv, Progress, Land
<1>2. outcome = "returned" => applied' = applied
  BY DEF IInv, Progress, ReturnedMeansDone, Requests, Land
<1> QED BY <1>1, <1>2 DEF IInv, Progress, Replied, SendCarriesUploads, Sent, ReturnedMeansDone,
           RefusedLeavesUploadsOnly, Requests, Land

\* Every step keeps the invariant ...
LEMMA InvStep ==
  ASSUME IInv, [Next]_vars
  PROVE  IInv'
<1>1. CASE UNCHANGED vars
  BY <1>1 DEF IInv, Progress, Replied, SendCarriesUploads, Sent, ReturnedMeansDone,
              RefusedLeavesUploadsOnly, Requests, vars
<1> QED BY <1>1, CheckInv, PerformInv, LandInv DEF Next, Over

\* ... which so holds in every reachable state.
THEOREM Invariance == Spec => []IInv
<1>1. IInv /\ [Next]_vars => IInv'
  BY InvStep
<1> QED BY InitInv, <1>1, PTL DEF Spec

-----------------------------------------------------------------------------
\* For every method of the simple API: nothing goes out for a dry run, or
\* without the confirmation of the method's risk.
THEOREM Consent == Spec => []ConsentBeforeIO
<1>1. IInv => ConsentBeforeIO
  BY DEF IInv, Progress, ConsentBeforeIO, Sent
<1> QED BY Invariance, <1>1, PTL

\* The provider has a prefix of the requests, with at most the last in doubt.
THEOREM InOrder == Spec => []SentInOrder
<1>1. IInv => SentInOrder
  BY DEF IInv, Progress, SentInOrder, Sent
<1> QED BY Invariance, <1>1, PTL

\* An enterprise fax is sent with all its files or not at all.
THEOREM WholeFax == Spec => []SendCarriesUploads
<1>1. IInv => SendCarriesUploads
  BY DEF IInv
<1> QED BY Invariance, <1>1, PTL

\* A method that returns did all of it, and hides no warning.
THEOREM ReturnDone == Spec => []ReturnedMeansDone
<1>1. IInv => ReturnedMeansDone
  BY DEF IInv
<1> QED BY Invariance, <1>1, PTL

\* A refused argument leaves nothing behind but the uploads of an unsent fax.
THEOREM RefusedInTime == Spec => []RefusedLeavesUploadsOnly
<1>1. IInv => RefusedLeavesUploadsOnly
  BY DEF IInv
<1> QED BY Invariance, <1>1, PTL

-----------------------------------------------------------------------------
(* Refinement of StepSequence *)

\* What the verdict says of the outcome.
LEMMA VerdictFacts ==
  /\ outcome = "none" => Verdict = "running"
  /\ outcome = "returned" => Verdict = "succeeded"
  /\ outcome \notin {"none", "returned"} => Verdict = "stopped"
BY DEF Verdict

\* A method that ends with a request unsent stops the sequence.
LEMMA StopStep ==
  ASSUME outcome = "none", outcome' \notin {"none", "returned"}, UNCHANGED <<call, applied, pending>>
  PROVE  Steps!Stop
<1>1. Verdict = "running" /\ Verdict' = "stopped"
  BY DEF Verdict
<1> QED BY <1>1 DEF Steps!Stop

\* The checks before the first request stop the sequence or leave it alone; a
\* method without a request has succeeded with it.
LEMMA CheckStep ==
  ASSUME IInv, Check
  PROVE  [Steps!Next]_Steps!seqVars
<1>1. /\ outcome = "none" /\ UNCHANGED <<call, applied, pending>> /\ call.requests \in Nat
      /\ applied = {}
  BY CallFacts DEF IInv, Progress, Check, RejectArgument, ReturnPlan, RequireConfirmation, Accept
<1>2. CASE RejectArgument \/ ReturnPlan \/ RequireConfirmation
  BY <1>1, <1>2, StopStep DEF RejectArgument, ReturnPlan, RequireConfirmation, End, Steps!Next
<1>3. CASE Accept
  <2>1. CASE call.requests = 0
    <3>1. Verdict = "running" /\ Verdict' = "succeeded"
      BY <1>1, <1>3, <2>1 DEF Accept, End, Verdict
    <3> QED BY <1>1, <2>1, <3>1 DEF Steps!Succeed, Steps!Next
  <2>2. CASE call.requests # 0
    BY <1>1, <1>3, <2>2 DEF Accept, Verdict, Steps!seqVars
  <2> QED BY <2>1, <2>2
<1> QED BY <1>2, <1>3 DEF Check

\* A request that goes out is the attempt of its operation: the method goes on,
\* returns or raises.
LEMMA AttemptStep ==
  ASSUME IInv, Sendable, call' = call,
         \/ applied' = applied \union {step} /\ UNCHANGED <<pending, outcome>>
         \/ /\ step = call.requests /\ outcome' = "returned"
            /\ applied' = applied \union {step} /\ UNCHANGED pending
         \/ /\ outcome' \notin {"none", "returned"}
            /\ \/ UNCHANGED <<applied, pending>>
               \/ applied' = applied \union {step} /\ UNCHANGED pending
               \/ pending' = {step} /\ UNCHANGED applied
  PROVE  Steps!Attempt(step) /\ step \in 1 .. MaxFiles + 2
<1>1. /\ pc = "request" /\ step \in 1 .. call.requests /\ pending = {} /\ applied = 1 .. step - 1
      /\ call.requests \in Nat
  BY SendableFacts
<1>2. Verdict = "running"
  BY <1>1 DEF IInv, Progress, Verdict
<1>3. /\ outcome' = outcome => Verdict' = Verdict
      /\ outcome' = "returned" => Verdict' = "succeeded"
      /\ outcome' \notin {"none", "returned"} => Verdict' = "stopped"
  BY DEF Verdict
<1>4. step \in 1 .. MaxFiles + 2
  BY <1>1, MaxFilesAssumption DEF IInv, Calls
<1> QED BY <1>1, <1>2, <1>3, <1>4 DEF Steps!Attempt

\* What a reply to a request, or the exception in its place, does.
LEMMA RequestCases ==
  ASSUME IInv, Perform, Sendable
  PROVE  /\ call' = call
         /\ \/ applied' = applied \union {step} /\ UNCHANGED <<pending, outcome>>
            \/ /\ step = call.requests /\ outcome' = "returned"
               /\ applied' = applied \union {step} /\ UNCHANGED pending
            \/ /\ outcome' \notin {"none", "returned"}
               /\ \/ UNCHANGED <<applied, pending>>
                  \/ applied' = applied \union {step} /\ UNCHANGED pending
                  \/ pending' = {step} /\ UNCHANGED applied
<1>1. step \in 1 .. call.requests /\ call.requests \in Nat /\ pending = {}
  BY SendableFacts
<1>2. CASE MissIdentifier \/ RejectLate
  BY <1>2 DEF MissIdentifier, RejectLate, Sendable
<1>3. CASE ReplyGood \/ ReplyWarning \/ ReplyUnnamed
  BY <1>1, <1>3 DEF ReplyGood, ReplyWarning, ReplyUnnamed, Continue, AfterLast, End
<1>4. ASSUME NEW e \in TypedErrors, RequestRaises(e)
      PROVE  /\ call' = call /\ outcome' \notin {"none", "returned"}
             /\ \/ UNCHANGED <<applied, pending>>
                \/ applied' = applied \union {step} /\ UNCHANGED pending
                \/ pending' = {step} /\ UNCHANGED applied
  BY <1>1, <1>4, ErrorNames DEF RequestRaises, StopWith, End
<1> QED BY <1>2, <1>3, <1>4 DEF Perform

\* The request in doubt lands as the abstract operation does.
LEMMA LandsInOrder ==
  ASSUME IInv, Land
  PROVE  Steps!Land(step) /\ step \in 1 .. MaxFiles + 2
<1>1. pending = {step} /\ Verdict' = Verdict
  BY DEF IInv, Progress, Land, Verdict
<1>2. step \in 1 .. MaxFiles + 2
  BY <1>1, MaxFilesAssumption, CallFacts DEF IInv, Progress, Calls
<1> QED BY <1>1, <1>2 DEF Land, Steps!Land

\* Every step of a method is a step of the abstract sequence, or none.
LEMMA SequenceStep ==
  ASSUME IInv, [Next]_vars
  PROVE  [Steps!Next]_Steps!seqVars
<1>1. CASE Check
  BY <1>1, CheckStep
<1>2. CASE Perform /\ Sendable
  BY <1>2, RequestCases, AttemptStep DEF Steps!Next
<1>3. CASE Perform /\ ~Sendable
  <2>1. MissIdentifier \/ RejectLate
    BY <1>3 DEF Perform, ReplyGood, ReplyWarning, ReplyUnnamed, RequestRaises
  <2> QED BY <2>1, StopStep DEF MissIdentifier, RejectLate, End, IInv, Progress, Steps!Next
<1>4. CASE Land
  BY <1>4, LandsInOrder DEF Steps!Next
<1>5. CASE Over \/ UNCHANGED vars
  BY <1>5 DEF Over, vars, Verdict, Steps!seqVars
<1> QED BY <1>1, <1>2, <1>3, <1>4, <1>5 DEF Next

\* The requests of every method, however many files it uploads, reach the provider
\* as StepSequence promises of the operations of a plan.
THEOREM SequenceRefinement == Spec => ImplementsStepSequence
<1>1. Init => Steps!Init
  <2> SUFFICES ASSUME Init PROVE Steps!Init
    OBVIOUS
  <2>1. call.requests \in 0 .. MaxFiles + 2
    BY DEF Init, Calls
  <2> QED BY <2>1, VerdictFacts DEF Init, Steps!Init
<1>2. IInv /\ [Next]_vars => [Steps!Next]_Steps!seqVars
  BY SequenceStep
<1> QED BY Invariance, <1>1, <1>2, PTL DEF Spec, ImplementsStepSequence, Steps!Spec

-----------------------------------------------------------------------------
(* Refinement of ChangeCall *)

Several == call.method.shape = "upload"

\* A plan calls the methods of one request, and the one that uploads.
LEMMA PlannedCall ==
  ASSUME call \in Calls, CalledByPlan
  PROVE  /\ call.requests \in Nat /\ call.requests >= 1
         /\ ~Several => call.requests = 1
         /\ call.flaw \in {"none", "argument", "late"}
         /\ call.flaw = "late" => Several
<1>1. call.flaw \in {"none", "argument", "late"}
  BY DEF Calls
<1> QED BY <1>1, CallFacts DEF CalledByPlan, Several

\* The last request is not refused an argument once it goes out.
LEMMA LastRequestSound ==
  ASSUME IInv, CalledByPlan, Sendable, step = call.requests
  PROVE  call.flaw = "none"
BY PlannedCall DEF IInv, Progress, Sendable, LateRequest, Several

\* What is fixed about a call stays so.
LEMMA ArgumentsFixed ==
  ASSUME call' = call
  PROVE  UNCHANGED <<CalledByPlan, Several, call.flaw>>
BY DEF CalledByPlan, Several

\* Until a plan's call ends, the change has not been asked for.
LEMMA RunningUntouched ==
  ASSUME IInv, outcome = "none"
  PROVE  PlannedEnding = "none" /\ PlannedFate = "untouched"
BY DEF PlannedEnding, PlannedFate

\* The exceptions about a reply are one ending to a plan.
EndingOf(o) ==
  IF o \in {"ValidationError", "MissingProviderIdentifierError"} THEN "QuestBlueWarningError" ELSE o

\* An ending that leaves to the change what ChangeCall says it may is the
\* abstract Finish.
LEMMA FinishStep ==
  ASSUME IInv, CalledByPlan, call' = call, outcome = "none", outcome' # "none",
         EndingOf(outcome') \in Outcomes \union {"QuestBlueWarningError", "ValueError"},
         PlannedFate' \in FatesOf(EndingOf(outcome'), Confirmed \union {"QuestBlueWarningError"},
                                 Several, call.flaw # "none")
  PROVE  Change!Next
<1> DEFINE e == EndingOf(outcome')
<1>1. PlannedEnding = "none" /\ PlannedFate = "untouched"
  BY RunningUntouched
<1>2. PlannedEnding' = e
  BY ArgumentsFixed DEF PlannedEnding, EndingOf
<1>3. PlannedFate' \in Change!FatesOf(e, Confirmed \union {"QuestBlueWarningError"}, Several,
                                     call.flaw # "none")
  BY DEF FatesOf, Fates, Fate, InDoubt, Change!FatesOf, Change!Fates, Change!Fate, Change!InDoubt
<1>4. Change!Finish(e)
  BY <1>1, <1>2, <1>3 DEF Change!Finish, Several
<1> QED BY <1>4 DEF Change!Next

\* A method that ends before its last request leaves the change unmade, and says so.
LEMMA EarlyEnd ==
  ASSUME IInv, CalledByPlan, call' = call, outcome = "none", outcome' \notin {"none", "returned"},
         EndingOf(outcome') \in Outcomes \union {"QuestBlueWarningError", "ValueError"},
         call.requests \notin applied' \union pending',
         Several \/ call.flaw # "none"
  PROVE  Change!Next
<1>1. PlannedFate' = "untouched"
  BY ArgumentsFixed DEF PlannedFate
<1>2. EndingOf(outcome') # "returned"
  BY DEF EndingOf
<1> QED BY <1>1, <1>2, FinishStep DEF FatesOf

\* So do the checks.
LEMMA ChecksChangeNothing ==
  ASSUME IInv, CalledByPlan, Check
  PROVE  [Change!Next]_Change!changeVars
<1>1. /\ outcome = "none" /\ UNCHANGED <<call, applied, pending>> /\ call.requests >= 1
      /\ applied = {} /\ pending = {}
  BY PlannedCall DEF IInv, Progress, Check, RejectArgument, ReturnPlan, RequireConfirmation, Accept
<1>2. CASE RejectArgument
  BY <1>1, <1>2, EarlyEnd DEF RejectArgument, End, EndingOf
<1>3. CASE ReturnPlan \/ RequireConfirmation
  BY <1>3 DEF ReturnPlan, RequireConfirmation, Consented, CalledByPlan
<1>4. CASE Accept
  BY <1>1, <1>4, PlannedCall DEF IInv, Accept, PlannedEnding, PlannedFate, CalledByPlan,
     Change!changeVars
<1> QED BY <1>2, <1>3, <1>4 DEF Check

\* Between the requests of an upload the change is not touched.
LEMMA NoEndNoChange ==
  ASSUME call' = call, outcome = "none", outcome' = "none"
  PROVE  UNCHANGED Change!changeVars
<1>1. UNCHANGED <<PlannedEnding, PlannedFate>>
  BY ArgumentsFixed DEF PlannedEnding, PlannedFate
<1> QED BY <1>1 DEF Change!changeVars

\* The reply to a request of a plan's call.
LEMMA ReplyChange ==
  ASSUME IInv, CalledByPlan, ReplyGood \/ ReplyWarning \/ ReplyUnnamed
  PROVE  [Change!Next]_Change!changeVars
<1>1. /\ Sendable /\ call' = call /\ applied' = applied \union {step} /\ pending' = pending
      /\ outcome = "none"
  BY DEF ReplyGood, ReplyWarning, ReplyUnnamed, Sendable, IInv, Progress
<1>2. /\ step \in 1 .. call.requests /\ pending = {} /\ applied = 1 .. step - 1
      /\ call.requests \in Nat
  BY <1>1, SendableFacts
<1>3. \/ outcome' = "none"
      \/ outcome' = "returned" /\ step = call.requests
      \/ outcome' \in {"QuestBlueWarningError", "MissingProviderIdentifierError"}
  BY <1>1, <1>2 DEF ReplyGood, ReplyWarning, ReplyUnnamed, Continue, AfterLast, End
<1>4. CASE outcome' = "none"
  BY <1>1, <1>4, NoEndNoChange
<1>5. CASE outcome' # "none" /\ step = call.requests
  <2>1. call.flaw = "none"
    BY <1>1, <1>5, LastRequestSound
  <2>2. EndingOf(outcome') \in {"returned", "QuestBlueWarningError"}
    BY <1>3, <1>5 DEF EndingOf
  <2>3. PlannedFate' = "performed"
    <3>1. PlannedEnding' # "none"
      BY <1>1, <1>5, ArgumentsFixed DEF PlannedEnding
    <3> QED BY <1>1, <1>5, <3>1 DEF PlannedFate
  <2> QED BY <1>1, <1>5, <2>1, <2>2, <2>3, FinishStep DEF FatesOf, Fates, Confirmed, Outcomes
<1>6. CASE outcome' # "none" /\ step # call.requests
  <2>1. Several
    BY <1>2, <1>6, PlannedCall DEF IInv
  <2>2. EndingOf(outcome') = "QuestBlueWarningError" /\ outcome' # "returned"
    BY <1>3, <1>6 DEF EndingOf
  <2> QED BY <1>1, <1>2, <1>6, <2>1, <2>2, EarlyEnd
<1> QED BY <1>4, <1>5, <1>6

\* The exception of a request of a plan's call.
LEMMA RaiseChange ==
  ASSUME IInv, CalledByPlan, NEW e \in TypedErrors, RequestRaises(e)
  PROVE  Change!Next
<1>1. /\ Sendable /\ call' = call /\ outcome = "none" /\ outcome' = e /\ step' = step
      /\ e \notin {"none", "returned"}
  BY ErrorNames DEF RequestRaises, StopWith, End, Sendable, IInv, Progress
<1>2. /\ step \in 1 .. call.requests /\ pending = {} /\ applied = 1 .. step - 1
      /\ call.requests \in Nat
  BY <1>1, SendableFacts
<1>3. PICK fate \in Fates(e, Answered) :
        /\ applied' = IF fate = "performed" THEN applied \union {step} ELSE applied
        /\ pending' = IF fate = "pending" THEN pending \union {step} ELSE pending
  BY DEF RequestRaises
<1>4. EndingOf(e) \in Outcomes \union {"QuestBlueWarningError", "ValueError"}
  BY DEF EndingOf, TypedErrors
<1>5. CASE step = call.requests
  <2>1. call.flaw = "none"
    BY <1>1, <1>5, LastRequestSound
  <2>2. PlannedFate' = fate
    <3>1. PlannedEnding' # "none" /\ fate \in {"untouched", "pending", "performed"}
      BY <1>1, <1>3, ArgumentsFixed DEF PlannedEnding, Fates, Fate
    <3> QED BY <1>1, <1>2, <1>3, <1>5, <3>1 DEF PlannedFate
  <2>3. fate \in Fates(EndingOf(e), Confirmed \union {"QuestBlueWarningError"})
    BY <1>3 DEF Fates, EndingOf, Answered, InDoubt, Confirmed, TypedErrors, Outcomes, SDKErrors
  <2> QED BY <1>1, <1>4, <2>1, <2>2, <2>3, FinishStep DEF FatesOf
<1>6. CASE step # call.requests
  <2>1. Several
    BY <1>2, <1>6, PlannedCall DEF IInv
  <2>2. call.requests \notin applied' \union pending'
    BY <1>2, <1>3, <1>6
  <2> QED BY <1>1, <1>4, <2>1, <2>2, EarlyEnd
<1> QED BY <1>5, <1>6

\* A request that lands late is the change made late, if it is the last.
LEMMA LandChange ==
  ASSUME IInv, Land
  PROVE  [Change!Next]_Change!changeVars
<1>1. /\ call' = call /\ outcome' = outcome /\ pending' = {}
      /\ applied' = applied \union pending
  BY DEF Land
<1>2. PlannedEnding' = PlannedEnding
  BY <1>1, ArgumentsFixed DEF PlannedEnding
<1>3. CASE PlannedEnding # "none" /\ call.requests \in pending \ applied
  <2>1. PlannedFate = "pending" /\ PlannedFate' = "performed"
    BY <1>1, <1>2, <1>3 DEF PlannedFate
  <2> QED BY <1>1, <1>2, <2>1 DEF Change!Land, Change!Next
<1>4. CASE PlannedEnding = "none" \/ call.requests \notin pending \ applied
  <2>1. PlannedFate' = PlannedFate
    BY <1>1, <1>2, <1>4 DEF PlannedFate
  <2> QED BY <1>1, <1>2, <2>1 DEF Change!changeVars
<1> QED BY <1>3, <1>4

\* Every step of a method is a step of the abstract call, or none.
LEMMA ChangeStep ==
  ASSUME IInv, [Next]_vars
  PROVE  [Change!Next]_Change!changeVars
<1>1. call' = call
  BY DEF Next, Check, RejectArgument, ReturnPlan, RequireConfirmation, Accept, Perform,
     MissIdentifier, RejectLate, ReplyGood, ReplyWarning, ReplyUnnamed, RequestRaises, Land, Over,
     vars
<1>2. CASE ~CalledByPlan
  BY <1>1, <1>2, ArgumentsFixed DEF PlannedEnding, PlannedFate, Change!changeVars
<1>3. CASE CalledByPlan /\ (MissIdentifier \/ RejectLate)
  <2>1. /\ pc = "request" /\ outcome = "none" /\ UNCHANGED <<call, applied, pending>>
        /\ EndingOf(outcome') \in {"QuestBlueWarningError", "ValueError"}
        /\ outcome' \notin {"none", "returned"}
    BY <1>3 DEF MissIdentifier, RejectLate, End, EndingOf, IInv, Progress
  <2>2. applied \subseteq 1 .. step - 1 /\ pending = {} /\ step \in 0 .. call.requests
    BY <2>1 DEF IInv, Progress
  <2>3. call.requests \notin applied
    BY <2>2, PlannedCall, <1>3 DEF IInv
  <2>4. Several \/ call.flaw # "none"
    BY <1>3 DEF MissIdentifier, RejectLate, UploadsUnnamed, Several
  <2> QED BY <1>3, <2>1, <2>2, <2>3, <2>4, EarlyEnd
<1>4. CASE CalledByPlan /\ Check
  BY <1>4, ChecksChangeNothing
<1>5. CASE CalledByPlan /\ Perform /\ ~(MissIdentifier \/ RejectLate)
  BY <1>5, ReplyChange, RaiseChange DEF Perform
<1>6. CASE Land
  BY <1>6, LandChange
<1>7. CASE Over \/ UNCHANGED vars
  BY <1>7 DEF Over, vars, PlannedEnding, PlannedFate, CalledByPlan, Change!changeVars
<1> QED BY <1>2, <1>3, <1>4, <1>5, <1>6, <1>7 DEF Next

\* To a plan, every method is the one change of ChangeCall, whether it makes it
\* with a single request or uploads any number of files before it.
THEOREM ChangeRefinement == Spec => ImplementsChangeCall
<1>1. Init => Change!Init
  BY DEF Init, PlannedEnding, PlannedFate, Change!Init
<1>2. IInv /\ [Next]_vars => [Change!Next]_Change!changeVars
  BY ChangeStep
<1> QED BY Invariance, <1>1, <1>2, PTL DEF Spec, ImplementsChangeCall, Change!Spec
-----------------------------------------------------------------------------
(* WorkflowCalls: the methods called by an execution *)

Hooks == {"plan", "planAudit", "report", "reportAudit"}

\* Whose call is in hand, and how far it is, at each place of execute().
CallInHand ==
  /\ stage = "authorise" => call \in CallsOf(1) /\ pc = "check"
  /\ stage \in {"plan", "planAudit"} => call \in CallsOf(op) /\ pc = "check"
  /\ stage = "call" => call \in CallsOf(op) /\ outcome = "none"
  /\ stage \in {"report", "reportAudit"} /\ ending = "returned" => outcome = "returned"

\* What has been settled before the call: every operation allowed, and the record
\* of this one persisted.
BeforeCall ==
  /\ stage = "authorise" => \A o \in 1 .. op - 1 : o \in policy.allowed
  /\ stage \in Hooks \union {"call"} => \A o \in 1 .. Execution!Length : o \in policy.allowed
  /\ stage \in {"planAudit", "call"} /\ plan.hooked => <<op, "planned">> \in journal
  /\ stage = "call" /\ plan.audited => <<op, "planned">> \in audit

\* The successes on record are of operations before this one, or of this one when
\* its method has returned.
RecordsOfSteps ==
  /\ stage = "authorise" => journal = {} /\ audit = {}
  /\ \A r \in journal \union audit :
       r[2] = "succeeded" => r[1] \in Nat /\ (r[1] = op => outcome = "returned") /\ r[1] <= op

\* What execute() may still see done is what the method in hand left in doubt.
DoubtOfCall == doubted = IF call.requests \in pending THEN {op} ELSE {}

\* While a plan is executed, and ...
PInv ==
  /\ IInv
  /\ plan \in Execution!Executions
  /\ op \in Nat \ {0}
  /\ stage \in {"authorise", "call", "returned", "raised"} \union Hooks
  /\ CallInHand
  /\ BeforeCall
  /\ RecordsOfSteps
  /\ RequestsAuthorised
  /\ DoubtOfCall

\* ... in every state: a plan that rests does nothing.
CInv ==
  /\ IInv
  /\ IF direct THEN journal = {} /\ audit = {} ELSE PInv

\* The number of operations.
LEMMA LengthNat ==
  ASSUME plan \in Execution!Executions
  PROVE  Execution!Length \in Nat \ {0}
<1>1. plan.operations \in Plans
  BY DEF Execution!Executions
<1>2. Len(plan.operations) \in 1 .. MaxLength
  BY <1>1, ExecutedPlansAssumption
<1> QED BY <1>2, ExecutedLengthAssumption DEF Execution!Length

\* What the hooks and the result do around the calls: leave, authorise one more
\* operation, or hand over a record.
LEMMA BesideCases ==
  ASSUME PInv, BesideCalls
  PROVE  /\ UNCHANGED <<vars, plan, doubted>>
         /\ \/ stage = "authorise" /\ stage' = "raised" /\ UNCHANGED <<op, journal, audit>>
            \/ /\ stage = "authorise" /\ UNCHANGED <<journal, audit>>
               /\ policy'.allowed = policy.allowed \union {op}
               /\ \/ op < Execution!Length /\ stage' = "authorise" /\ op' = op + 1
                  \/ op >= Execution!Length /\ stage' = "plan" /\ op' = 1
            \/ /\ stage \in Hooks /\ UNCHANGED <<op, policy, ending>>
               /\ journal' \in {journal, journal \union {Execution!Record}}
               /\ audit' \in {audit, audit \union {Execution!Record}}
               /\ \/ stage' \in {"returned", "raised"}
                  \/ /\ stage = "plan" /\ stage' = "planAudit"
                     /\ plan.hooked => journal' = journal \union {Execution!Record}
                  \/ /\ stage = "planAudit" /\ stage' = "call" /\ journal' = journal
                     /\ plan.audited => audit' = audit \union {Execution!Record}
                  \/ stage = "report" /\ stage' = "reportAudit"
<1>1. op \in Nat /\ Execution!Length \in Nat
  BY LengthNat DEF PInv
<1>2. UNCHANGED <<vars, plan, doubted>>
  BY DEF BesideCalls, Execution!Deny, Execution!RequireConfirmation, Execution!Authorise,
     Execution!Decide, Execution!Journal, Execution!AuditPlanned, Execution!Succeed,
     Execution!StopAtFailure, Execution!HookFailure, Execution!JournalHookRaises,
     Execution!AuditHookRaises, Execution!Interrupt
<1>3. CASE Execution!Deny \/ Execution!RequireConfirmation
  BY <1>2, <1>3 DEF Execution!Deny, Execution!RequireConfirmation, Execution!Decide, Execution!Raise
<1>4. CASE Execution!Authorise
  BY <1>1, <1>2, <1>4 DEF Execution!Authorise, Execution!Decide
<1>5. CASE Execution!Journal \/ Execution!AuditPlanned
  BY <1>2, <1>5 DEF Execution!Journal, Execution!AuditPlanned, Execution!AfterHook, Hooks
<1>6. CASE Execution!Succeed \/ Execution!StopAtFailure
  BY <1>2, <1>6 DEF Execution!Succeed, Execution!StopAtFailure, Execution!RecordAudit, Hooks
<1>7. CASE Execution!HookFailure
  BY <1>2, <1>7 DEF Execution!HookFailure, Execution!JournalHookRaises, Execution!AuditHookRaises,
     Execution!Raise, Hooks
<1>8. CASE stage # "call" /\ Execution!Interrupt
  BY <1>2, <1>8 DEF Execution!Interrupt, Execution!Raise, PInv, Hooks
<1> QED BY <1>3, <1>4, <1>5, <1>6, <1>7, <1>8 DEF BesideCalls

\* A method that has not begun, and a method that has returned.
LEMMA CallPlaces ==
  ASSUME IInv
  PROVE  /\ pc = "check" => Sent = {} /\ outcome = "none"
         /\ outcome = "returned" =>
              applied = Requests /\ pending \union warned \union unnamed = {}
BY DEF IInv, Progress, Sent, ReturnedMeansDone

LEMMA BesideInv ==
  ASSUME PInv, BesideCalls, direct' = direct
  PROVE  PInv'
<1>1. UNCHANGED <<vars, plan, doubted>> /\ op \in Nat \ {0} /\ Execution!Length \in Nat \ {0}
  BY BesideCases, LengthNat DEF PInv
<1>2. IInv' /\ (plan \in Execution!Executions)'
  BY <1>1, InvStep DEF PInv, Execution!Executions
<1>3. (op \in Nat \ {0} /\ stage \in {"authorise", "call", "returned", "raised"} \union Hooks)'
  BY <1>1, BesideCases DEF PInv, Hooks
<1>4. /\ UNCHANGED <<call, pc, outcome, Sent>> /\ Execution!Length' = Execution!Length
      /\ \A o : CallsOf(o)' = CallsOf(o)
  BY <1>1 DEF vars, Sent, Execution!Length, CallsOf
<1>5. CallInHand'
  <2>1. CASE stage = "authorise"
    BY <1>1, <1>4, <2>1, BesideCases DEF PInv, CallInHand, Hooks
  <2>2. CASE stage \in Hooks
    BY <1>1, <1>4, <2>2, BesideCases, CallPlaces DEF PInv, CallInHand, Hooks
  <2> QED BY <2>1, <2>2, BesideCases
<1>6. Execution!Record[1] = op /\ (stage \in {"plan", "planAudit"} => Execution!Record = <<op, "planned">>)
  BY DEF Execution!Record
<1>7. BeforeCall'
  <2>1. CASE stage = "authorise"
    BY <1>1, <1>4, <2>1, BesideCases DEF PInv, BeforeCall, Hooks
  <2>2. CASE stage \in Hooks
    BY <1>1, <1>4, <1>6, <2>2, BesideCases DEF PInv, BeforeCall, Hooks
  <2> QED BY <2>1, <2>2, BesideCases
<1>8. RecordsOfSteps'
  <2>1. CASE stage = "authorise"
    BY <2>1, BesideCases DEF PInv, RecordsOfSteps, Hooks
  <2>2. CASE stage \in Hooks
    <3>1. Execution!Record[2] = "succeeded" => outcome = "returned"
      BY <2>2 DEF PInv, CallInHand, Execution!Record, Execution!StepStatus, Hooks
    <3>2. /\ op' = op /\ stage' # "authorise"
          /\ \A r \in (journal \union audit)' : r \in journal \union audit \/ r = Execution!Record
      BY <2>2, BesideCases DEF Hooks
    <3> QED BY <1>1, <1>4, <1>6, <3>1, <3>2 DEF PInv, RecordsOfSteps
  <2> QED BY <2>1, <2>2, BesideCases
<1>9. RequestsAuthorised'
  <2>1. CASE stage = "authorise"
    BY <1>4, <2>1, CallPlaces DEF PInv, CallInHand, RequestsAuthorised
  <2>2. CASE stage \in Hooks
    BY <1>1, <1>4, <2>2, BesideCases DEF PInv, RequestsAuthorised, Hooks
  <2> QED BY <2>1, <2>2, BesideCases
<1>10. DoubtOfCall'
  BY <1>1, BesideCases, CallPlaces DEF PInv, CallInHand, DoubtOfCall, Sent, Hooks, vars
<1> QED BY <1>2, <1>3, <1>5, <1>7, <1>8, <1>9, <1>10 DEF PInv

\* The next operation is called from the beginning.
LEMMA NextCallInv ==
  ASSUME PInv, ToNextCall, direct' = direct
  PROVE  PInv'
<1>1. /\ stage = "reportAudit" /\ stage' = "plan" /\ ending = "returned" /\ op' = op + 1
      /\ UNCHANGED <<plan, policy, journal>> /\ audit' \in {audit, audit \union {Execution!Record}}
  BY DEF ToNextCall, Execution!NextOperation, Execution!RecordAudit
<1>2. op \in Nat \ {0} /\ outcome = "returned"
  BY <1>1 DEF PInv, CallInHand
<1>3. call' \in CallsOf(op)'
  BY <1>1 DEF ToNextCall, CallsOf
<1>4. Init'
  BY <1>3 DEF Init, ToNextCall, CallsOf, Calls
<1>5. IInv'
  <2>1. (Init => IInv)'
    BY InitInv, PTL
  <2> QED BY <1>4, <2>1
<1>6. CallInHand'
  BY <1>1, <1>3, <1>4 DEF Init, CallInHand
<1>7. BeforeCall'
  BY <1>1 DEF PInv, BeforeCall, Hooks, Execution!Length
<1>8. RecordsOfSteps'
  <2>1. Execution!Record[1] = op
    BY DEF Execution!Record
  <2>2. \A r \in (journal \union audit)' : r \in journal \union audit \/ r = Execution!Record
    BY <1>1
  <2> QED BY <1>1, <1>2, <2>1, <2>2 DEF PInv, RecordsOfSteps
<1>9. RequestsAuthorised'
  BY <1>4 DEF Init, RequestsAuthorised, Sent
<1>10. DoubtOfCall'
  <2>1. doubted' = doubted /\ pending = {}
    BY <1>2, CallPlaces DEF ToNextCall, Execution!NextOperation, PInv
  <2> QED BY <1>4, <2>1 DEF PInv, DoubtOfCall, Init
<1> QED BY <1>1, <1>2, <1>5, <1>6, <1>7, <1>8, <1>9, <1>10 DEF PInv, Hooks, Execution!Executions

\* While the method runs, nothing of the execution moves but to its report, ...
LEMMA RunningCallInv ==
  ASSUME PInv, stage = "call", [Next]_vars, call' = call,
         UNCHANGED <<plan, op, policy, journal, audit, direct>>,
         doubted' = IF PlannedFate' = "pending" THEN {op} ELSE doubted,
         \/ stage' = "call" /\ outcome' = "none"
         \/ stage' = "report" /\ (ending' = "returned" => outcome' = "returned")
         \/ stage' = "raised"
  PROVE  PInv'
<1>1. IInv'
  BY InvStep DEF PInv
<1>2. CallInHand'
  BY DEF PInv, CallInHand, CallsOf
<1>3. BeforeCall'
  BY DEF PInv, BeforeCall, Hooks, Execution!Length
<1>4. RecordsOfSteps'
  BY DEF PInv, CallInHand, RecordsOfSteps
<1>5. RequestsAuthorised'
  BY DEF PInv, BeforeCall, RequestsAuthorised, Execution!Length
<1>6. DoubtOfCall'
  <2>1. doubted = {} /\ CalledByPlan'
    BY CallPlaces DEF PInv, CallInHand, CallsOf, CalledByPlan, DoubtOfCall, IInv, Progress, Sent
  <2>2. CASE outcome' = "none"
    BY <1>1, <2>1, <2>2 DEF DoubtOfCall, PlannedFate, PlannedEnding, IInv, Progress
  <2>3. CASE outcome' # "none"
    BY <1>1, <2>1, <2>3 DEF DoubtOfCall, PlannedFate, PlannedEnding, IInv, Progress
  <2> QED BY <2>2, <2>3
<1> QED BY <1>1, <1>2, <1>3, <1>4, <1>5, <1>6 DEF PInv, Hooks, Execution!Executions

\* ... whatever the request does that the method is at.
LEMMA RunFacts ==
  ASSUME Check \/ Perform \/ (\E e \in TypedErrors : RequestRaises(e)) \/ UNCHANGED vars
  PROVE  [Next]_vars /\ call' = call
<1>1. [Next]_vars
  BY DEF Next, Perform
<1>2. call' = call
  BY DEF Check, RejectArgument, ReturnPlan, RequireConfirmation, Accept, Perform, MissIdentifier,
     RejectLate, ReplyGood, ReplyWarning, ReplyUnnamed, RequestRaises, vars
<1> QED BY <1>1, <1>2

\* A cancellation is one of the endings of a typed method.
LEMMA CancelTyped == "CancelledError" \in TypedErrors
BY DEF TypedErrors, Outcomes

\* The ending of the method, as its outcome gives it.
LEMMA ReturnSeen ==
  ASSUME CallReturns("returned")
  PROVE  outcome' = "returned"
<1>1. PlannedEnding' = "returned"
  BY DEF CallReturns, EndingSeen
<1> QED BY <1>1 DEF PlannedEnding

LEMMA ExecuteInv ==
  ASSUME PInv, ExecutePlan \/ UNCHANGED <<vars, executionVars>>, direct' = direct
  PROVE  PInv'
<1>1. CASE CallGoesOn
  <2>1. PlannedFate' # "pending"
    BY <1>1 DEF CallGoesOn, PlannedFate, PlannedEnding
  <2> QED BY <1>1, <2>1, RunFacts, RunningCallInv DEF CallGoesOn, RunCall, executionVars
<1>2. CASE InterruptCall
  BY <1>2, CancelTyped, RunFacts, RunningCallInv DEF InterruptCall, Account, Execution!Raise
<1>3. ASSUME NEW e \in Execution!Endings, CallReturns(e)
      PROVE  PInv'
  <2>1. ending' = "returned" => outcome' = "returned"
    BY <1>3, ReturnSeen DEF CallReturns
  <2> QED BY <1>3, <2>1, RunFacts, RunningCallInv DEF CallReturns, RunCall, Account
<1>4. CASE RequestLands
  <2>1. /\ UNCHANGED <<call, pc, outcome>> /\ Sent' = Sent
        /\ UNCHANGED <<plan, op, policy, journal, audit, ending, stage>>
    BY <1>4 DEF RequestLands, Land, Sent
  <2>2. IInv'
    BY <1>4, InvStep DEF PInv, RequestLands, Next
  <2>3. DoubtOfCall'
    BY <1>4 DEF PInv, DoubtOfCall, RequestLands, Land
  <2> QED BY <2>1, <2>2, <2>3 DEF PInv, CallInHand, CallsOf, BeforeCall, RecordsOfSteps,
             RequestsAuthorised, Execution!Length, Execution!Executions
<1>5. CASE CallsOver \/ UNCHANGED <<vars, executionVars>>
  <2>1. UNCHANGED <<vars, executionVars>>
    BY <1>5 DEF CallsOver
  <2>2. IInv'
    BY <2>1, InvStep DEF PInv
  <2> QED BY <2>1, <2>2 DEF PInv, CallInHand, CallsOf, BeforeCall, RecordsOfSteps,
             RequestsAuthorised, DoubtOfCall, Execution!Length, Execution!Executions, vars,
             executionVars, Sent
<1> QED BY <1>1, <1>2, <1>3, <1>4, <1>5, BesideInv, NextCallInv DEF ExecutePlan

\* What a step of the application is.
LEMMA CallsCases ==
  ASSUME [CallsNext]_allVars
  PROVE  /\ direct' = direct
         /\ direct => [Next]_vars /\ UNCHANGED executionVars
         /\ ~direct => ExecutePlan \/ UNCHANGED <<vars, executionVars>>
BY DEF CallsNext, DirectCall, allVars

LEMMA CallsInvStep ==
  ASSUME CInv, [CallsNext]_allVars
  PROVE  CInv'
<1>1. CASE direct
  BY <1>1, CallsCases, InvStep DEF CInv, executionVars
<1>2. CASE ~direct
  BY <1>2, CallsCases, ExecuteInv DEF CInv, PInv
<1> QED BY <1>1, <1>2

LEMMA CallsInitInv == CallsInit => CInv
<1> SUFFICES ASSUME CallsInit
             PROVE  CInv
  OBVIOUS
<1>1. IInv /\ Sent = {} /\ pc = "check"
  BY InitInv DEF CallsInit, Init, Sent
<1>2. /\ plan \in Execution!Executions /\ stage = "authorise" /\ op = 1
      /\ journal = {} /\ audit = {}
  BY DEF CallsInit, Execution!Init
<1>3. doubted = {} /\ pending = {}
  BY DEF CallsInit, Init, Execution!Init
<1> QED BY <1>1, <1>2, <1>3 DEF CallsInit, CInv, PInv, CallInHand, BeforeCall, RecordsOfSteps,
           RequestsAuthorised, DoubtOfCall, Hooks

\* Whoever makes a call, the method in hand, the place in execute(), what hooks
\* recorded and what the provider may still do belong together.
THEOREM CallsInvariance == CallsSpec => []CInv
<1>1. CInv /\ [CallsNext]_allVars => CInv'
  BY CallsInvStep
<1> QED BY CallsInitInv, <1>1, PTL DEF CallsSpec

\* For any plan and any methods: no request, not even the upload of a file, goes
\* out before every operation of the plan is allowed by the policy and the records
\* of the call are persisted.
THEOREM Authorised == CallsSpec => []RequestsAuthorised
<1>1. CInv => RequestsAuthorised
  BY DEF CInv, PInv, RequestsAuthorised
<1> QED BY CallsInvariance, <1>1, PTL

\* What the journal or the audit trail calls a success was performed to the last
\* request, without a warning and with every identifier.
THEOREM WholeSuccess == CallsSpec => []SucceededIsWhole
<1>1. CInv => SucceededIsWhole
  <2> SUFFICES ASSUME CInv, <<op, "succeeded">> \in journal \union audit
               PROVE  applied = Requests /\ pending \union warned \union unnamed = {}
    BY DEF SucceededIsWhole
  <2>1. outcome = "returned"
    BY DEF CInv, PInv, RecordsOfSteps
  <2> QED BY <2>1, CallPlaces DEF CInv
<1> QED BY CallsInvariance, <1>1, PTL

\* Every call is one of SimpleCall's: what is proved of a method holds of each call
\* of an application or a plan.
THEOREM CallsAsPromised ==
  CallsSpec => [](ConsentBeforeIO /\ SentInOrder /\ SendCarriesUploads /\ ReturnedMeansDone
                  /\ RefusedLeavesUploadsOnly)
<1>1. CInv => ConsentBeforeIO /\ SentInOrder /\ SendCarriesUploads /\ ReturnedMeansDone
              /\ RefusedLeavesUploadsOnly
  BY DEF CInv, IInv, Progress, ConsentBeforeIO, SentInOrder, Sent
<1> QED BY CallsInvariance, <1>1, PTL

\* While an operation is in hand, every step is one of its method, or none.
LEMMA CallSteps ==
  ASSUME [CallsNext]_allVars
  PROVE  ToNextCall \/ [Next]_vars
<1>1. CASE direct
  BY <1>1, CallsCases
<1>2. CASE ~direct
  <2>1. CASE BesideCalls \/ CallsOver \/ UNCHANGED vars
    BY <2>1 DEF BesideCalls, CallsOver, vars
  <2>2. CASE CallGoesOn \/ \E e \in Execution!Endings : CallReturns(e)
    BY <2>2, RunFacts DEF CallGoesOn, CallReturns, RunCall
  <2>3. CASE InterruptCall
    BY <2>3, CancelTyped, RunFacts DEF InterruptCall
  <2>4. CASE RequestLands
    BY <2>4 DEF RequestLands, Next
  <2> QED BY <1>2, <2>1, <2>2, <2>3, <2>4, CallsCases DEF ExecutePlan
<1> QED BY <1>1, <1>2

\* The requests of every call reach the provider as StepSequence promises, wherever
\* an execution makes it.
THEOREM CallsInOrder == CallsSpec => RequestsInOrder
<1>1. CInv /\ [CallsNext]_allVars =>
        [ToNextCall \/ [Steps!Next]_(Steps!seqVars)]_allVars
  BY CallSteps, SequenceStep DEF CInv
<1> QED BY CallsInvariance, <1>1, PTL DEF CallsSpec, RequestsInOrder

-----------------------------------------------------------------------------
(* Refinement of Workflow *)

\* The sets of fates are the same in both.
LEMMA SameFates ==
  ASSUME NEW e, NEW answered, NEW several, NEW invalid, NEW uploads, NEW refused,
         several <=> uploads, invalid <=> refused
  PROVE  /\ Change!FatesOf(e, answered, several, invalid) = FatesOf(e, answered, several, invalid)
         /\ Execution!FatesOf(e, answered, uploads, refused) = FatesOf(e, answered, several, invalid)
BY DEF FatesOf, Fates, Fate, InDoubt, Change!FatesOf, Change!Fates, Change!Fate, Change!InDoubt,
   Execution!FatesOf, Execution!Fates, Execution!Fate, Execution!InDoubt

PlanAnswered == Confirmed \union {"QuestBlueWarningError"}

\* The operation of the plan and the call of its method agree.
LEMMA CallOfPlan ==
  ASSUME PInv, stage = "call"
  PROVE  /\ CalledByPlan /\ outcome = "none" /\ call \in Calls
         /\ Several <=> plan.operations[op].uploads
         /\ call.flaw # "none" <=> op = plan.invalid
         /\ Execution!Performed = PlanAnswered
BY DEF PInv, CallInHand, CallsOf, CalledByPlan, Several, PlanAnswered, Execution!Performed,
   Execution!Confirmed, Confirmed

\* When the method has ended, its change is one ChangeCall allows.
LEMMA EndedFate ==
  ASSUME PInv, stage = "call", [Next]_vars, call' = call, outcome' # "none"
  PROVE  /\ PlannedEnding' = EndingOf(outcome')
         /\ PlannedFate' \in FatesOf(EndingOf(outcome'), PlanAnswered, Several, call.flaw # "none")
<1>1. CalledByPlan /\ outcome = "none" /\ IInv
  BY CallOfPlan DEF PInv
<1>2. PlannedEnding = "none" /\ PlannedFate = "untouched" /\ PlannedEnding' = EndingOf(outcome')
  BY <1>1, RunningUntouched, ArgumentsFixed DEF PlannedEnding, EndingOf
<1>3. PlannedEnding' # "none"
  BY <1>2 DEF EndingOf
<1>4. PICK e : Change!Finish(e)
  BY <1>1, <1>2, <1>3, ChangeStep DEF Change!Next, Change!Land, Change!changeVars
<1>5. e = EndingOf(outcome') /\ PlannedFate' \in Change!FatesOf(e, PlanAnswered, Several, call.flaw # "none")
  BY <1>2, <1>4 DEF Change!Finish, PlanAnswered, Several
<1> QED BY <1>2, <1>5, SameFates

\* What a method with a refused argument can end with.
LEMMA RefusedEndings ==
  ASSUME IInv, CalledByPlan, Check \/ Perform, outcome' # "none"
  PROVE  /\ outcome' = "ValueError" => call.flaw # "none"
         /\ call.flaw # "none" => outcome' = "ValueError" \/ Several
<1>1. /\ pc = "check" \/ (pc = "request" /\ call.flaw # "argument")
      /\ outcome = "none" /\ call \in Calls
  BY DEF IInv, Progress, Check, RejectArgument, ReturnPlan, RequireConfirmation, Accept, Perform,
     MissIdentifier, RejectLate, ReplyGood, ReplyWarning, ReplyUnnamed, RequestRaises, Sendable
<1>2. call.flaw \in {"none", "argument", "late"} /\ (call.flaw = "late" => Several)
  BY <1>1, PlannedCall
<1>3. CASE Check
  BY <1>1, <1>2, <1>3, PlannedCall DEF Check, RejectArgument, ReturnPlan, RequireConfirmation,
     Accept, End, CalledByPlan, Consented
<1>4. CASE Perform
  <2>1. outcome' = "ValueError" => call.flaw # "none"
    BY <1>1, <1>4, ErrorNames DEF Perform, MissIdentifier, RejectLate, ReplyGood, ReplyWarning,
       ReplyUnnamed, RequestRaises, Continue, AfterLast, StopWith, End
  <2>2. pc = "request"
    BY <1>4 DEF Perform, MissIdentifier, RejectLate, ReplyGood, ReplyWarning, ReplyUnnamed,
       RequestRaises, Sendable
  <2> QED BY <1>1, <1>2, <2>1, <2>2
<1> QED BY <1>3, <1>4

\* A method that ends is the abstract call of its operation.
LEMMA ReturnsAsCall ==
  ASSUME PInv, NEW e \in Execution!Endings, CallReturns(e)
  PROVE  Execution!CallEnds(e)
<1>1. /\ stage = "call" /\ (Check \/ Perform) /\ [Next]_vars /\ call' = call
      /\ EndingSeen(e) /\ Account /\ ending' = e /\ stage' = "report"
      /\ UNCHANGED <<plan, op, policy, journal, audit, result>>
  BY RunFacts DEF CallReturns, RunCall
<1>2. /\ CalledByPlan /\ outcome = "none" /\ IInv /\ call \in Calls
      /\ Several <=> plan.operations[op].uploads
      /\ call.flaw # "none" <=> op = plan.invalid
      /\ Execution!Performed = PlanAnswered
  BY <1>1, CallOfPlan DEF PInv
<1>3. outcome' # "none"
  <2>1. "none" \notin Execution!Endings
    BY DEF Execution!Endings, Execution!Outcomes, Execution!SDKErrors
  <2> QED BY <1>1, <2>1 DEF EndingSeen, PlannedEnding
<1>4. /\ PlannedEnding' = EndingOf(outcome')
      /\ PlannedFate' \in FatesOf(EndingOf(outcome'), PlanAnswered, Several, call.flaw # "none")
  BY <1>1, <1>3, EndedFate
<1>5. \/ e = EndingOf(outcome')
      \/ outcome' = "returned" /\ e = "QuestBlueWarningError"
  BY <1>1, <1>4 DEF EndingSeen
<1>6. PlannedFate' \in FatesOf(e, PlanAnswered, Several, call.flaw # "none")
  BY <1>4, <1>5 DEF FatesOf, Fates, PlanAnswered, Confirmed, EndingOf
<1>7. PlannedFate' \in Execution!FatesOf(e, Execution!Performed, plan.operations[op].uploads,
                                        op = plan.invalid)
  BY <1>2, <1>6, SameFates
<1>8. /\ e = "ValueError" => op = plan.invalid
      /\ op = plan.invalid => e = "ValueError" \/ plan.operations[op].uploads
  BY <1>1, <1>2, <1>3, <1>5, RefusedEndings DEF EndingOf
<1>9. Execution!Effect(e)
  BY <1>1, <1>7 DEF Execution!Effect, Account
<1> QED BY <1>1, <1>8, <1>9 DEF Execution!CallEnds

\* An interrupted method is an interrupted call.
LEMMA InterruptsAsCall ==
  ASSUME PInv, InterruptCall
  PROVE  Execution!Interrupt
<1>1. [Next]_vars /\ call' = call
  BY CancelTyped, RunFacts DEF InterruptCall
<1>2. /\ CalledByPlan /\ outcome = "none" /\ IInv /\ call \in Calls
      /\ Several <=> plan.operations[op].uploads
      /\ call.flaw # "none" <=> op = plan.invalid
      /\ Execution!Performed = PlanAnswered
  BY CallOfPlan DEF PInv, InterruptCall
<1>3. PlannedFate' \in FatesOf("CancelledError", PlanAnswered, Several, call.flaw # "none")
  <2>1. CASE outcome' = "none"
    <3>1. PlannedFate' = "untouched"
      BY <2>1 DEF PlannedFate, PlannedEnding
    <3> QED BY <3>1 DEF FatesOf, Fates, Fate, InDoubt, PlanAnswered, Confirmed
  <2>2. CASE outcome' # "none"
    <3>1. outcome' = "CancelledError"
      BY <1>2, <2>2 DEF InterruptCall, RequestRaises, StopWith, End, vars
    <3> QED BY <1>1, <2>2, <3>1, EndedFate DEF InterruptCall, EndingOf
  <2> QED BY <2>1, <2>2
<1>4. Execution!Effect("CancelledError")
  BY <1>2, <1>3, SameFates DEF Execution!Effect, Account, InterruptCall
<1> QED BY <1>4 DEF InterruptCall, Execution!Interrupt

\* Every step of an execution with real calls is a step of Workflow, or none.
LEMMA ExecuteStep ==
  ASSUME PInv, ExecutePlan \/ UNCHANGED <<vars, executionVars>>
  PROVE  [Execution!Next]_Execution!vars
<1>1. CASE BesideCalls
  BY <1>1 DEF BesideCalls, Execution!Next, Execution!Execute
<1>2. CASE ToNextCall
  BY <1>2 DEF ToNextCall, Execution!Next, Execution!Execute
<1>3. ASSUME NEW e \in Execution!Endings, CallReturns(e)
      PROVE  Execution!Next
  BY <1>3, ReturnsAsCall DEF Execution!Next, Execution!Execute
<1>4. CASE InterruptCall
  BY <1>4, InterruptsAsCall DEF Execution!Next
<1>5. CASE RequestLands
  <2>1. doubted = IF call.requests \in pending THEN {op} ELSE {}
    BY DEF PInv, DoubtOfCall
  <2> QED BY <1>5, <2>1 DEF RequestLands, Execution!Land, Execution!Next, Execution!vars
<1>6. CASE CallGoesOn \/ CallsOver \/ UNCHANGED executionVars
  BY <1>6 DEF CallGoesOn, CallsOver, executionVars, Execution!vars
<1> QED BY <1>1, <1>2, <1>3, <1>4, <1>5, <1>6 DEF ExecutePlan

\* A plan that rests is not executed.
LEMMA WorkflowStep ==
  ASSUME CInv, [CallsNext]_allVars
  PROVE  [Execution!Next]_Execution!vars
<1>1. CASE direct
  BY <1>1, CallsCases DEF executionVars, Execution!vars
<1>2. CASE ~direct
  BY <1>2, CallsCases, ExecuteStep DEF CInv
<1> QED BY <1>1, <1>2

\* Executing a plan of real methods, for any number of operations and files, is an
\* execution of Workflow: the theorems of WorkflowProofs hold of it.
THEOREM WorkflowRefinement == CallsSpec => ImplementsWorkflow
<1>1. CallsInit => Execution!Init
  BY DEF CallsInit
<1>2. CInv /\ [CallsNext]_allVars => [Execution!Next]_Execution!vars
  BY WorkflowStep
<1> QED BY CallsInvariance, <1>1, <1>2, PTL DEF CallsSpec, ImplementsWorkflow, Execution!Spec

-----------------------------------------------------------------------------
(* The theorems of WorkflowProofs, of executions with real calls *)

Proved == INSTANCE WorkflowProofs WITH pc <- stage, applied <- effected, pending <- doubted

\* The assumptions of Workflow are those of WorkflowCalls.
LEMMA PlansAsAssumed ==
  /\ \A p \in Plans : p \in Seq(Proved!Operation) /\ Len(p) \in 1 .. MaxLength
  /\ Confirmations \subseteq SUBSET Proved!Risk
  /\ MaxLength \in Nat \ {0}
BY ExecutedPlansAssumption, ExecutedConfirmationsAssumption, ExecutedLengthAssumption
   DEF Proved!Operation, Execution!Operation, Proved!Risk, Execution!Risk

\* WorkflowProofs repeats the definitions of Workflow under its own name.
LEMMA SameValues ==
  /\ Execution!Operations = Proved!Operations
  /\ Execution!Length = Proved!Length /\ Execution!Executions = Proved!Executions
  /\ Execution!NoResult = Proved!NoResult /\ Execution!StopResult = Proved!StopResult
  /\ Execution!Record = Proved!Record /\ Execution!AfterHook = Proved!AfterHook
  /\ Execution!Endings = Proved!Endings /\ Execution!Confirmable = Proved!Confirmable
  /\ \A risk : Execution!ConfirmedByName(risk) <=> Proved!ConfirmedByName(risk)
BY DEF Execution!Operations, Proved!Operations, Execution!Length, Proved!Length,
   Execution!Executions, Proved!Executions, Execution!NoResult, Proved!NoResult,
   Execution!StopResult, Proved!StopResult, Execution!Record, Proved!Record,
   Execution!AfterHook, Proved!AfterHook, Execution!StepStatus, Proved!StepStatus,
   Execution!Endings, Proved!Endings, Execution!Outcomes, Proved!Outcomes,
   Execution!SDKErrors, Proved!SDKErrors, Execution!Confirmable, Proved!Confirmable,
   Execution!ConfirmedByName, Proved!ConfirmedByName

LEMMA SameEffects == \A e : Execution!Effect(e) <=> Proved!Effect(e)
BY DEF Execution!Effect, Proved!Effect, Execution!FatesOf, Proved!FatesOf, Execution!Fates,
   Proved!Fates, Execution!Fate, Proved!Fate, Execution!InDoubt, Proved!InDoubt,
   Execution!Performed, Proved!Performed, Execution!Confirmed, Proved!Confirmed

LEMMA SameInit == Execution!Init => Proved!Init
BY SameValues DEF Execution!Init, Proved!Init

LEMMA SameNext == [Execution!Next]_Execution!vars => [Proved!Next]_Proved!vars
<1> SUFFICES ASSUME [Execution!Next]_Execution!vars
             PROVE  [Proved!Next]_Proved!vars
  OBVIOUS
<1>1. CASE Execution!Deny
  BY <1>1, SameValues
     DEF Execution!Deny, Proved!Deny, Execution!Decide, Proved!Decide, Execution!Raise,
         Proved!Raise, Proved!Next, Proved!Execute
<1>2. CASE Execution!RequireConfirmation
  BY <1>2, SameValues
     DEF Execution!RequireConfirmation, Proved!RequireConfirmation, Execution!Decide,
         Proved!Decide, Execution!Raise, Proved!Raise, Proved!Next, Proved!Execute
<1>3. CASE Execution!Authorise
  BY <1>3, SameValues
     DEF Execution!Authorise, Proved!Authorise, Execution!Decide, Proved!Decide, Proved!Next,
         Proved!Execute
<1>4. CASE Execution!Journal \/ Execution!AuditPlanned
  BY <1>4, SameValues
     DEF Execution!Journal, Proved!Journal, Execution!AuditPlanned, Proved!AuditPlanned,
         Proved!Next, Proved!Execute
<1>5. ASSUME NEW e \in Execution!Endings, Execution!CallEnds(e)
      PROVE  Proved!Next
  BY <1>5, SameValues, SameEffects
     DEF Execution!CallEnds, Proved!CallEnds, Proved!Next, Proved!Execute
<1>6. CASE Execution!NextOperation \/ Execution!Succeed \/ Execution!StopAtFailure
  BY <1>6, SameValues
     DEF Execution!NextOperation, Proved!NextOperation, Execution!Succeed, Proved!Succeed,
         Execution!StopAtFailure, Proved!StopAtFailure, Execution!RecordAudit,
         Proved!RecordAudit, Proved!Next, Proved!Execute
<1>7. CASE Execution!HookFailure
  BY <1>7, SameValues
     DEF Execution!HookFailure, Proved!HookFailure, Execution!JournalHookRaises,
         Proved!JournalHookRaises, Execution!AuditHookRaises, Proved!AuditHookRaises,
         Execution!Raise, Proved!Raise, Proved!Next
<1>8. CASE Execution!Interrupt
  BY <1>8, SameValues, SameEffects
     DEF Execution!Interrupt, Proved!Interrupt, Execution!Raise, Proved!Raise, Proved!Next
<1>9. CASE Execution!Land
  BY <1>9 DEF Execution!Land, Proved!Land, Proved!Next
<1>10. CASE Execution!Over \/ UNCHANGED Execution!vars
  BY <1>10 DEF Execution!Over, Execution!vars, Proved!vars
<1> QED BY <1>1, <1>2, <1>3, <1>4, <1>5, <1>6, <1>7, <1>8, <1>9, <1>10
        DEF Execution!Next, Execution!Execute

LEMMA ExecutionIsProved == CallsSpec => Proved!Spec
<1>1. CallsSpec => Execution!Init /\ [][Execution!Next]_(Execution!vars)
  BY WorkflowRefinement, PTL DEF ImplementsWorkflow, Execution!Spec
<1> QED BY <1>1, SameInit, SameNext, PTL DEF Proved!Spec

\* The policy and the confirmations pass every operation of a plan before one of its
\* methods makes its change.
THEOREM CallsAuthorisedInFull == CallsSpec => []Execution!AuthorisedInFull
<1>1. CallsSpec => []Proved!AuthorisedInFull
  BY ExecutionIsProved, Proved!FullAuthorisation, PlansAsAssumed, PTL
<1>2. Proved!AuthorisedInFull => Execution!AuthorisedInFull
  BY SameValues DEF Proved!AuthorisedInFull, Execution!AuthorisedInFull
<1> QED BY <1>1, <1>2, PTL

\* Whatever became of the requests of the methods, uploads and late ones included,
\* what hooks persisted leaves one operation to reconcile at most.
THEOREM CallsBracketed ==
  CallsSpec => [](Execution!JournalBracketsEffects /\ Execution!AuditBracketsEffects)
<1>1. CallsSpec => [](Proved!JournalBracketsEffects /\ Proved!AuditBracketsEffects)
  BY ExecutionIsProved, Proved!JournalBrackets, Proved!AuditBrackets, PlansAsAssumed, PTL
<1>2. \A records, performed, late :
        Proved!Brackets(records, performed, late) => Execution!Brackets(records, performed, late)
  BY SameValues DEF Proved!Brackets, Execution!Brackets
<1>3. Proved!JournalBracketsEffects /\ Proved!AuditBracketsEffects =>
        Execution!JournalBracketsEffects /\ Execution!AuditBracketsEffects
  BY <1>2 DEF Proved!JournalBracketsEffects, Proved!AuditBracketsEffects,
              Execution!JournalBracketsEffects, Execution!AuditBracketsEffects
<1> QED BY <1>1, <1>3, PTL

\* A result of execute() tells the truth about methods of any number of requests.
THEOREM CallsResultsTruthful == CallsSpec => []Execution!ResultTruthful
<1>1. CallsSpec => []Proved!ResultTruthful
  BY ExecutionIsProved, Proved!ResultsTruthful, PlansAsAssumed, PTL
<1>2. Proved!ResultTruthful => Execution!ResultTruthful
  BY SameValues DEF Proved!ResultTruthful, Execution!ResultTruthful
<1> QED BY <1>1, <1>2, PTL

-----------------------------------------------------------------------------
(* How long a call and an execution can be *)

\* How many steps a method has left at most: its checks, and one per request.
CallStepsLeft ==
  CASE pc = "check"   -> call.requests + 1
    [] pc = "request" -> call.requests - step + 1
    [] OTHER          -> 0

\* As in WorkflowProofs: one step per operation to authorise it, five to execute it.
ExecutionStepsLeft ==
  CASE stage = "authorise"   -> 6 * Execution!Length - op + 1
    [] stage = "plan"        -> 5 * (Execution!Length - op) + 5
    [] stage = "planAudit"   -> 5 * (Execution!Length - op) + 4
    [] stage = "call"        -> 5 * (Execution!Length - op) + 3
    [] stage = "report"      -> 5 * (Execution!Length - op) + 2
    [] stage = "reportAudit" -> 5 * (Execution!Length - op) + 1
    [] OTHER                 -> 0

\* Each step of an execution weighs more than the longest method.
Weight == MaxFiles + 4

StepsLeft ==
  IF direct THEN CallStepsLeft
  ELSE ExecutionStepsLeft * Weight + IF stage = "call" THEN CallStepsLeft ELSE 0

\* Whatever the replies, the hooks and the policy are, every step of a method, and of
\* an execution of any methods, brings it closer to its end; only a late request
\* lands without anybody noticing.
CallsComeToTheirEnd == [][StepsLeft' < StepsLeft \/ (Land /\ UNCHANGED StepsLeft)]_allVars

LEMMA CallStepsRange ==
  ASSUME IInv
  PROVE  /\ CallStepsLeft \in 0 .. MaxFiles + 3
         /\ outcome = "none" => CallStepsLeft > 0
<1>1. call.requests \in 0 .. MaxFiles + 2 /\ step \in 0 .. call.requests /\ pc \in {"check", "request", "done"}
  BY DEF IInv, Progress, Calls
<1>2. (pc = "request" => step > 0) /\ (outcome = "none" => pc # "done")
  BY DEF IInv, Progress
<1> QED BY <1>1, <1>2, MaxFilesAssumption DEF CallStepsLeft

LEMMA CallShrinks ==
  ASSUME IInv, Check \/ Perform
  PROVE  CallStepsLeft' \in Nat /\ CallStepsLeft' < CallStepsLeft
<1>0. call' = call /\ call.requests \in Nat /\ step \in Int
  BY RunFacts, CallFacts DEF IInv, Progress
<1>1. outcome = "none" /\ CallStepsLeft \in Nat /\ CallStepsLeft > 0
  BY CallStepsRange, MaxFilesAssumption
     DEF IInv, Progress, Check, RejectArgument, ReturnPlan, RequireConfirmation, Accept, Perform,
         MissIdentifier, RejectLate, ReplyGood, ReplyWarning, ReplyUnnamed, RequestRaises, Sendable
<1>2. \/ pc' = "done"
      \/ pc = "check" /\ pc' = "request" /\ step' = 1 /\ call.requests # 0
      \/ pc = "request" /\ pc' = "request" /\ step < call.requests /\ step' = step + 1
  BY DEF Check, RejectArgument, ReturnPlan, RequireConfirmation, Accept, Perform, MissIdentifier,
         RejectLate, ReplyGood, ReplyWarning, ReplyUnnamed, RequestRaises, Sendable, Continue,
         StopWith, End
<1> QED BY <1>0, <1>1, <1>2 DEF CallStepsLeft

LEMMA MethodStepsRange == CInv => CallStepsLeft \in 0 .. MaxFiles + 3
BY CallStepsRange DEF CInv

\* The operation in hand is one of the plan.
OperationInPlan == ~direct => op \in 1 .. Execution!Length

LEMMA OperationStep ==
  ASSUME CInv, OperationInPlan, [CallsNext]_allVars
  PROVE  OperationInPlan'
<1> SUFFICES ASSUME ~direct
             PROVE  op' \in 1 .. Execution!Length'
  BY CallsCases DEF OperationInPlan
<1>1. PInv /\ op \in 1 .. Execution!Length /\ Execution!Length \in Nat
  BY LengthNat DEF CInv, PInv, OperationInPlan
<1>2. CASE BesideCalls
  <2>1. Execution!Length' = Execution!Length
    BY <1>1, <1>2, BesideCases DEF Execution!Length
  <2> QED BY <1>1, <1>2, <2>1, BesideCases
<1>3. CASE ToNextCall
  BY <1>1, <1>3 DEF ToNextCall, Execution!NextOperation, Execution!Length
<1>4. CASE ~BesideCalls /\ ~ToNextCall
  <2>1. op' = op /\ plan' = plan
    BY <1>4, CallsCases
       DEF ExecutePlan, CallGoesOn, InterruptCall, CallReturns, RequestLands, CallsOver,
           executionVars
  <2> QED BY <1>1, <2>1 DEF Execution!Length
<1> QED BY <1>2, <1>3, <1>4

LEMMA ExecutionStepsRange ==
  ASSUME PInv, op \in 1 .. Execution!Length
  PROVE  /\ ExecutionStepsLeft \in 0 .. 6 * Execution!Length
         /\ ExecutionStepsLeft > 0 <=> stage \notin {"returned", "raised"}
<1>1. /\ Execution!Length \in Nat
      /\ stage \in {"authorise", "plan", "planAudit", "call", "report", "reportAudit",
                    "returned", "raised"}
  BY LengthNat DEF PInv, Hooks
<1> QED BY <1>1 DEF ExecutionStepsLeft

\* A lighter execution with any method in hand weighs less.
LEMMA Lighter ==
  ASSUME NEW a \in Nat, NEW b \in Nat, NEW m \in 0 .. MaxFiles + 3, NEW n \in Nat, a < b
  PROVE  a * Weight + m < b * Weight + n
<1>1. Weight \in Nat /\ MaxFiles \in Nat /\ m < Weight /\ m \in Nat
  BY MaxFilesAssumption DEF Weight
<1> HIDE DEF Weight
<1>2. (a + 1) * Weight = a * Weight + Weight /\ a * Weight \in Nat /\ b * Weight \in Nat
  BY <1>1
<1>3. (a + 1) * Weight <= b * Weight
  <2>1. PICK d \in Nat : b = a + 1 + d
    <3>1. b - (a + 1) \in Nat /\ b = a + 1 + (b - (a + 1))
      OBVIOUS
    <3> QED BY <3>1
  <2>2. b * Weight = (a + 1) * Weight + d * Weight /\ d * Weight \in Nat
    BY <1>1, <2>1
  <2> QED BY <1>1, <1>2, <2>2
<1> QED BY <1>1, <1>2, <1>3

\* What the execution itself does.
LEMMA BesideShrinks ==
  ASSUME PInv, op \in 1 .. Execution!Length, BesideCalls \/ ToNextCall
  PROVE  ExecutionStepsLeft' \in Nat /\ ExecutionStepsLeft' < ExecutionStepsLeft
<1>1. /\ Execution!Length \in Nat /\ Execution!Length' = Execution!Length
      /\ ExecutionStepsLeft \in Nat
      /\ ExecutionStepsLeft > 0 <=> stage \notin {"returned", "raised"}
  BY LengthNat, ExecutionStepsRange, BesideCases
     DEF PInv, ToNextCall, Execution!NextOperation, Execution!Length
<1>2. CASE BesideCalls /\ stage' \in {"returned", "raised"}
  <2>1. stage \in {"authorise"} \union Hooks
    BY <1>2, BesideCases
  <2> QED BY <1>1, <1>2, <2>1 DEF ExecutionStepsLeft, Hooks
<1>3. CASE BesideCalls /\ stage' \notin {"returned", "raised"}
  <2>1. \/ stage = "authorise" /\ op < Execution!Length /\ stage' = "authorise" /\ op' = op + 1
        \/ stage = "authorise" /\ op >= Execution!Length /\ stage' = "plan" /\ op' = 1
        \/ stage = "plan" /\ stage' = "planAudit" /\ op' = op
        \/ stage = "planAudit" /\ stage' = "call" /\ op' = op
        \/ stage = "report" /\ stage' = "reportAudit" /\ op' = op
    BY <1>3, BesideCases
  <2>2. CASE stage = "authorise"
    BY <1>1, <2>1, <2>2 DEF ExecutionStepsLeft
  <2>3. CASE stage # "authorise"
    BY <1>1, <2>1, <2>3 DEF ExecutionStepsLeft
  <2> QED BY <2>2, <2>3
<1>4. CASE ToNextCall
  <2>1. stage = "reportAudit" /\ op < Execution!Length /\ stage' = "plan" /\ op' = op + 1
    BY <1>4 DEF ToNextCall, Execution!NextOperation
  <2> QED BY <1>1, <2>1 DEF ExecutionStepsLeft
<1> QED BY <1>2, <1>3, <1>4

\* A step of the method in hand, a request or what it makes of the execution.
LEMMA RunShrinks ==
  ASSUME PInv, op \in 1 .. Execution!Length,
         CallGoesOn \/ InterruptCall \/ \E e \in Execution!Endings : CallReturns(e)
  PROVE  /\ stage = "call"
         /\ \/ /\ stage' = "call" /\ ExecutionStepsLeft' = ExecutionStepsLeft
               /\ CallStepsLeft' \in Nat /\ CallStepsLeft' < CallStepsLeft
            \/ /\ stage' # "call" /\ ExecutionStepsLeft' \in Nat
               /\ ExecutionStepsLeft' < ExecutionStepsLeft
<1>1. stage = "call" /\ Execution!Length \in Nat
  BY LengthNat DEF PInv, CallGoesOn, InterruptCall, CallReturns, RunCall
<1>2. CASE CallGoesOn
  BY <1>1, <1>2, CallShrinks
     DEF PInv, CallGoesOn, RunCall, executionVars, ExecutionStepsLeft, Execution!Length
<1>3. CASE InterruptCall
  <2>1. stage' = "raised"
    BY <1>3 DEF InterruptCall, Execution!Raise
  <2> QED BY <1>1, <2>1 DEF ExecutionStepsLeft
<1>4. ASSUME NEW e \in Execution!Endings, CallReturns(e)
      PROVE  /\ stage' # "call" /\ ExecutionStepsLeft' \in Nat
             /\ ExecutionStepsLeft' < ExecutionStepsLeft
  BY <1>1, <1>4 DEF CallReturns, ExecutionStepsLeft, Execution!Length
<1> QED BY <1>1, <1>2, <1>3, <1>4

LEMMA ExecutionShrinks ==
  ASSUME CInv, OperationInPlan, ~direct, [CallsNext]_allVars
  PROVE  \/ StepsLeft' < StepsLeft
         \/ Land /\ UNCHANGED StepsLeft
         \/ UNCHANGED allVars
<1>1. /\ PInv /\ op \in 1 .. Execution!Length /\ direct' = direct
      /\ ExecutionStepsLeft \in Nat /\ CallStepsLeft \in 0 .. MaxFiles + 3 /\ MaxFiles \in Nat
      /\ Execution!Length \in Nat
  BY CallsCases, ExecutionStepsRange, CallStepsRange, LengthNat, MaxFilesAssumption
     DEF CInv, PInv, OperationInPlan
<1> DEFINE inHand == IF stage = "call" THEN CallStepsLeft ELSE 0
<1>2. inHand \in 0 .. MaxFiles + 3 /\ StepsLeft = ExecutionStepsLeft * Weight + inHand
  BY <1>1 DEF StepsLeft
<1>3. StepsLeft' = ExecutionStepsLeft' * Weight + inHand'
  BY <1>1 DEF StepsLeft, Weight
<1> HIDE DEF inHand
<1>4. CASE BesideCalls \/ ToNextCall
  <2>1. ExecutionStepsLeft' \in Nat /\ ExecutionStepsLeft' < ExecutionStepsLeft
    BY <1>1, <1>4, BesideShrinks
  <2>2. inHand' \in 0 .. MaxFiles + 3
    <3>1. CInv'
      BY CallsInvStep
    <3>2. (CInv => CallStepsLeft \in 0 .. MaxFiles + 3)'
      BY MethodStepsRange, PTL
    <3> QED BY <1>1, <3>1, <3>2 DEF inHand
  <2> QED BY <1>1, <1>2, <1>3, <2>1, <2>2, Lighter
<1>5. CASE CallGoesOn \/ InterruptCall \/ \E e \in Execution!Endings : CallReturns(e)
  <2>1. CASE stage' = "call"
    <3>1. /\ ExecutionStepsLeft' = ExecutionStepsLeft
          /\ inHand' \in Nat /\ inHand' < inHand
      BY <1>1, <1>5, <2>1, RunShrinks DEF inHand
    <3>2. ExecutionStepsLeft * Weight \in Nat
      BY <1>1 DEF Weight
    <3> QED BY <1>2, <1>3, <3>1, <3>2
  <2>2. CASE stage' # "call"
    <3>1. ExecutionStepsLeft' \in Nat /\ ExecutionStepsLeft' < ExecutionStepsLeft /\ inHand' = 0
      BY <1>1, <1>5, <2>2, RunShrinks DEF inHand
    <3> QED BY <1>1, <1>2, <1>3, <3>1, Lighter
  <2> QED BY <2>1, <2>2
<1>6. CASE RequestLands
  <2>1. /\ UNCHANGED <<call, pc, step, plan, op, stage>> /\ Land
    BY <1>6 DEF RequestLands, Land
  <2>2. ExecutionStepsLeft' = ExecutionStepsLeft /\ inHand' = inHand
    BY <2>1 DEF ExecutionStepsLeft, CallStepsLeft, inHand, Execution!Length
  <2> QED BY <1>2, <1>3, <2>1, <2>2
<1>7. CASE CallsOver \/ UNCHANGED <<vars, executionVars>>
  BY <1>1, <1>7 DEF CallsOver, allVars
<1> QED BY <1>4, <1>5, <1>6, <1>7, CallsCases DEF ExecutePlan

\* For any plan, any methods and any number of files: a method takes at most one
\* step per request and one for its checks, and an execution a bounded number of
\* such steps and of its own, so that neither runs on forever.
THEOREM BoundedCalls ==
  CallsSpec => /\ [](StepsLeft \in Nat)
               /\ CallsComeToTheirEnd
<1>1. CallsInit => OperationInPlan
  <2> SUFFICES ASSUME CallsInit PROVE OperationInPlan
    OBVIOUS
  <2>1. op = 1 /\ plan \in Execution!Executions
    BY DEF CallsInit, Execution!Init
  <2> QED BY <2>1, LengthNat DEF OperationInPlan
<1>2. CallsSpec => []OperationInPlan
  <2>1. CInv /\ OperationInPlan /\ [CallsNext]_allVars => OperationInPlan'
    BY OperationStep
  <2> QED BY <1>1, <2>1, CallsInvariance, PTL DEF CallsSpec
<1>3. CInv /\ OperationInPlan => StepsLeft \in Nat
  <2> SUFFICES ASSUME CInv, OperationInPlan PROVE StepsLeft \in Nat
    OBVIOUS
  <2>1. CallStepsLeft \in Nat
    BY CallStepsRange, MaxFilesAssumption DEF CInv
  <2>2. ~direct => ExecutionStepsLeft * Weight \in Nat
    <3>1. ~direct => ExecutionStepsLeft \in Nat
      BY ExecutionStepsRange, LengthNat DEF CInv, PInv, OperationInPlan
    <3> QED BY <3>1, MaxFilesAssumption DEF Weight
  <2> QED BY <2>1, <2>2 DEF StepsLeft
<1>4. CInv /\ OperationInPlan /\ [CallsNext]_allVars =>
        [StepsLeft' < StepsLeft \/ (Land /\ UNCHANGED StepsLeft)]_allVars
  <2> SUFFICES ASSUME CInv, OperationInPlan, [CallsNext]_allVars
               PROVE  \/ StepsLeft' < StepsLeft
                      \/ Land /\ UNCHANGED StepsLeft
                      \/ UNCHANGED allVars
    OBVIOUS
  <2>1. CASE direct
    <3>1. direct' = direct /\ [Next]_vars /\ UNCHANGED executionVars
      BY <2>1, CallsCases
    <3>2. CASE Check \/ Perform
      BY <2>1, <3>1, <3>2, CallShrinks DEF CInv, StepsLeft
    <3>3. CASE Land
      <4>1. UNCHANGED <<call, pc, step>>
        BY <3>3 DEF Land
      <4>2. UNCHANGED StepsLeft
        BY <2>1, <3>1, <4>1 DEF StepsLeft, CallStepsLeft
      <4> QED BY <3>3, <4>2
    <3>4. CASE Over \/ UNCHANGED vars
      BY <3>1, <3>4 DEF Over, allVars
    <3> QED BY <3>1, <3>2, <3>3, <3>4 DEF Next
  <2>2. CASE ~direct
    BY <2>2, ExecutionShrinks
  <2> QED BY <2>1, <2>2
<1> QED BY CallsInvariance, <1>2, <1>3, <1>4, PTL DEF CallsSpec, CallsComeToTheirEnd
=============================================================================
