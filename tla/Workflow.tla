------------------------------ MODULE Workflow ------------------------------
(***************************************************************************)
(* One execution of WorkflowPlan.execute / AsyncWorkflowPlan.execute       *)
(* (src/src/questblue/simple/_workflows.py): the policy and confirmation   *)
(* check of every operation, then the operations in order, each between    *)
(* journal and audit records that application hooks persist.  The hooks    *)
(* may raise, the execution may be cancelled or killed at any point, and   *)
(* an operation whose call ended in doubt may still reach the provider     *)
(* afterwards.  The endings of a call are those of CallOutcomes, which     *)
(* Transport produces.                                                     *)
(***************************************************************************)
EXTENDS Integers, Sequences, FiniteSets, CallOutcomes

CONSTANTS
  Plans,            \* the operations of each plan, in order
  Confirmations,    \* the sets of risks a caller of execute() confirms
  MaxLength         \* bound: operations in a plan

Risk ==
  { "read-only", "routing-change", "consent-required", "destination-confirmation",
    "compliance-sensitive", "billable", "destructive", "uncertain-outcome" }

WorkflowStatus == {"planned", "succeeded", "partial", "failed", "uncertain"}

\* uploads: the operation's method uploads files before it makes the change.
Operation == [risk : Risk, uploads : BOOLEAN]

ASSUME PlansAssumption ==
  \A p \in Plans : p \in Seq(Operation) /\ Len(p) \in 1 .. MaxLength
ASSUME ConfirmationsAssumption == Confirmations \subseteq SUBSET Risk
ASSUME MaxLengthAssumption == MaxLength \in Nat \ {0}

VARIABLES
  plan,       \* the plan, its hooks, and the arguments of execute()
  pc,         \* where execute() is
  op,         \* the operation in hand
  policy,     \* the application's policy: operations it allowed, and granted
  journal,    \* <<operation, status>> records the journal hook persisted
  audit,      \* and those the audit hook persisted
  applied,    \* operations the provider performed
  pending,    \* operations the provider may still perform
  ending,     \* how the call of the operation in hand ended, or "none"
  result      \* what execute() returned or raised

vars == <<plan, pc, op, policy, journal, audit, applied, pending, ending, result>>

-----------------------------------------------------------------------------
Operations == 1 .. MaxLength

\* How a call ends for execute(): "ValueError" is the facade refusing an
\* argument before any I/O; "QuestBlueWarningError" stands for what it raises
\* about a 2xx reply (a warning, a missing identifier, or the ValidationError of
\* a model that refuses the body, as in ReadBody of ResourceCall).
Endings == (Outcomes \ {"CancelledError"}) \union {"ValueError", "QuestBlueWarningError"}

\* The endings that follow a 2xx reply.
Performed == Confirmed \union {"QuestBlueWarningError"}

\* The named confirmations of execute(); the other risks have none.
Confirmable ==
  { "billable", "routing-change", "compliance-sensitive",
    "destination-confirmation", "destructive" }

\* A plan: invalid is the first operation with an argument its normaliser
\* refuses, or 0; hooked, audited and policed say which hooks are configured.
Executions ==
  [ operations : Plans, confirmed : Confirmations, invalid : 0 .. MaxLength,
    hooked : BOOLEAN, audited : BOOLEAN, policed : BOOLEAN ]

Length == Len(plan.operations)

\* _confirmed: a risk without a confirmation argument needs none.
ConfirmedByName(risk) == risk \notin Confirmable \/ risk \in plan.confirmed

\* Only a timeout counts as uncertain.
StepStatus(e) ==
  CASE e = "returned"              -> "succeeded"
    [] e = "QuestBlueTimeoutError" -> "uncertain"
    [] OTHER                       -> "failed"

Handoff(status) == IF status = "uncertain" THEN "reconcile" ELSE "dead-letter"

\* A WorkflowResult, or the exception raised in its place.
Results ==
  [ status : WorkflowStatus \union
      {"none", "PolicyDeniedError", "ConfirmationRequiredError", "HookError", "CancelledError"},
    completed : SUBSET Operations, failed : 0 .. MaxLength, uncertain : 0 .. MaxLength ]

NoResult == [status |-> "none", completed |-> {}, failed |-> 0, uncertain |-> 0]

Init ==
  /\ plan \in {x \in Executions : x.invalid <= Len(x.operations)}
  /\ pc = "authorise"
  /\ op = 1
  /\ policy = [allowed |-> {}, granted |-> {}]
  /\ journal = {}
  /\ audit = {}
  /\ applied = {}
  /\ pending = {}
  /\ ending = "none"
  /\ result = NoResult

\* An exception leaves execute().
Raise(error) == pc' = "raised" /\ result' = [NoResult EXCEPT !.status = error]

-----------------------------------------------------------------------------
(* The loop that asks the policy about every operation, before any call *)

\* The policy's answer about the operation in hand; without a policy hook it
\* is an allowance that grants nothing.  No answer is a denial.
Decide(allowed, granted) ==
  /\ pc = "authorise"
  /\ ~plan.policed => allowed /\ ~granted
  /\ policy' = [ allowed |-> policy.allowed \union (IF allowed THEN {op} ELSE {}),
                 granted |-> policy.granted \union (IF granted THEN {op} ELSE {}) ]
  /\ UNCHANGED <<plan, journal, audit, applied, pending, ending>>

Deny ==
  /\ \E granted \in BOOLEAN : Decide(FALSE, granted)
  /\ Raise("PolicyDeniedError")
  /\ UNCHANGED op

RequireConfirmation ==
  /\ Decide(TRUE, FALSE)
  /\ ~ConfirmedByName(plan.operations[op].risk)
  /\ Raise("ConfirmationRequiredError")
  /\ UNCHANGED op

\* Bug: execution starts when the first operation is authorised.
AuthoriseFirstOnly ==
  /\ \E granted \in BOOLEAN : Decide(TRUE, granted) /\ (granted \/ ConfirmedByName(plan.operations[op].risk))
  /\ op' = 1 /\ pc' = "plan"
  /\ UNCHANGED result

Authorise ==
  /\ \E granted \in BOOLEAN : Decide(TRUE, granted) /\ (granted \/ ConfirmedByName(plan.operations[op].risk))
  /\ IF op < Length
       THEN op' = op + 1 /\ UNCHANGED pc
       ELSE op' = 1 /\ pc' = "plan"
  /\ UNCHANGED result

-----------------------------------------------------------------------------
(* Journal and audit hooks *)

\* The record in hand: "planned" before the call, the step's status after it.
Record == <<op, IF pc \in {"plan", "planAudit"} THEN "planned" ELSE StepStatus(ending)>>

AfterHook == CASE pc = "plan"    -> "planAudit"
               [] pc = "planAudit" -> "call"
               [] pc = "report"  -> "reportAudit"

\* Bug: the call is made before its record is handed to the hooks.
JournalSkippingPlanned ==
  /\ pc \in {"plan", "report"}
  /\ journal' = IF plan.hooked /\ pc = "report" THEN journal \union {Record} ELSE journal
  /\ pc' = AfterHook
  /\ UNCHANGED <<plan, op, policy, audit, applied, pending, ending, result>>

Journal ==
  /\ pc \in {"plan", "report"}
  /\ journal' = IF plan.hooked THEN journal \union {Record} ELSE journal
  /\ pc' = AfterHook
  /\ UNCHANGED <<plan, op, policy, audit, applied, pending, ending, result>>

\* Bug: only outcomes are audited.
AuditPlannedSilently ==
  /\ pc = "planAudit"
  /\ pc' = AfterHook
  /\ UNCHANGED <<plan, op, policy, journal, audit, applied, pending, ending, result>>

AuditPlanned ==
  /\ pc = "planAudit"
  /\ audit' = IF plan.audited THEN audit \union {Record} ELSE audit
  /\ pc' = AfterHook
  /\ UNCHANGED <<plan, op, policy, journal, applied, pending, ending, result>>

\* A hook raises, before or after it persisted the record.
JournalHookRaises ==
  /\ plan.hooked
  /\ pc \in {"plan", "report"}
  /\ journal' \in {journal, journal \union {Record}}
  /\ Raise("HookError")
  /\ UNCHANGED <<plan, op, policy, audit, applied, pending, ending>>

AuditHookRaises ==
  /\ plan.audited
  /\ pc \in {"planAudit", "reportAudit"}
  /\ audit' \in {audit, audit \union {Record}}
  /\ Raise("HookError")
  /\ UNCHANGED <<plan, op, policy, journal, applied, pending, ending>>

-----------------------------------------------------------------------------
(* The call *)

\* What a call that ended with e did at the provider: what ImplementsChangeCall
\* of SimpleCall leaves open.
Effect(e) ==
  \E fate \in FatesOf(e, Performed, plan.operations[op].uploads, op = plan.invalid) :
    /\ applied' = IF fate = "performed" THEN applied \union {op} ELSE applied
    /\ pending' = IF fate = "pending" THEN {op} ELSE pending

\* The operation's call returns or raises an Exception, which is kept.  A refused
\* argument is noticed before any request, but for the numbers of a fax, which
\* are looked at after the uploads.
CallEnds(e) ==
  /\ pc = "call"
  /\ e = "ValueError" => op = plan.invalid
  /\ op = plan.invalid => e = "ValueError" \/ plan.operations[op].uploads
  /\ Effect(e)
  /\ ending' = e
  /\ pc' = "report"
  /\ UNCHANGED <<plan, op, policy, journal, audit, result>>

\* A BaseException (CancelledError, KeyboardInterrupt) or the end of the
\* process, at any point: nothing below execute() catches it.
Interrupt ==
  /\ pc \notin {"returned", "raised"}
  /\ IF pc = "call"
       THEN Effect("CancelledError") /\ ending' = "CancelledError"
       ELSE UNCHANGED <<applied, pending, ending>>
  /\ Raise("CancelledError")
  /\ UNCHANGED <<plan, op, policy, journal, audit>>

-----------------------------------------------------------------------------
(* After the last record of an operation *)

\* Bug: successes are not audited.
RecordAuditOfFailure ==
  audit' = IF plan.audited /\ ending # "returned" THEN audit \union {Record} ELSE audit

RecordAudit == audit' = IF plan.audited THEN audit \union {Record} ELSE audit

\* Bug: an operation that failed is skipped over.
NextOperationRegardless ==
  /\ pc = "reportAudit"
  /\ op < Length
  /\ RecordAudit
  /\ op' = op + 1 /\ pc' = "plan" /\ ending' = "none"
  /\ UNCHANGED <<plan, policy, journal, applied, pending, result>>

\* Bug: the operation that succeeded is executed again.
SameOperationAgain ==
  /\ pc = "reportAudit"
  /\ ending = "returned" /\ op < Length
  /\ RecordAudit
  /\ pc' = "plan" /\ ending' = "none"
  /\ UNCHANGED <<plan, op, policy, journal, applied, pending, result>>

NextOperation ==
  /\ pc = "reportAudit"
  /\ ending = "returned" /\ op < Length
  /\ RecordAudit
  /\ op' = op + 1 /\ pc' = "plan" /\ ending' = "none"
  /\ UNCHANGED <<plan, policy, journal, applied, pending, result>>

Succeed ==
  /\ pc = "reportAudit"
  /\ ending = "returned" /\ op = Length
  /\ RecordAudit
  /\ pc' = "returned"
  /\ result' = [NoResult EXCEPT !.status = "succeeded", !.completed = 1 .. op]
  /\ UNCHANGED <<plan, op, policy, journal, applied, pending, ending>>

\* Bug: the step in hand is counted as completed.
StopResultCountingStep ==
  IF StepStatus(ending) = "uncertain"
    THEN [status |-> "uncertain", completed |-> 1 .. op, failed |-> 0, uncertain |-> op]
    ELSE [status |-> IF op > 1 THEN "partial" ELSE "failed",
          completed |-> 1 .. op, failed |-> op, uncertain |-> 0]

\* The result of a stop: failed, or partial when an earlier step succeeded;
\* uncertain when the call timed out.
StopResult ==
  IF StepStatus(ending) = "uncertain"
    THEN [status |-> "uncertain", completed |-> 1 .. op - 1, failed |-> 0, uncertain |-> op]
    ELSE [status |-> IF op > 1 THEN "partial" ELSE "failed",
          completed |-> 1 .. op - 1, failed |-> op, uncertain |-> 0]

StopAtFailure ==
  /\ pc = "reportAudit"
  /\ ending # "returned"
  /\ RecordAudit
  /\ pc' = "returned"
  /\ result' = StopResult
  /\ UNCHANGED <<plan, op, policy, journal, applied, pending, ending>>

-----------------------------------------------------------------------------
\* The provider performs an operation whose call is long over.
Land ==
  /\ pending # {}
  /\ applied' = applied \union pending
  /\ pending' = {}
  /\ UNCHANGED <<plan, pc, op, policy, journal, audit, ending, result>>

Execute ==
  \/ Deny \/ RequireConfirmation \/ Authorise
  \/ Journal \/ AuditPlanned
  \/ \E e \in Endings : CallEnds(e)
  \/ NextOperation \/ Succeed \/ StopAtFailure

HookFailure == JournalHookRaises \/ AuditHookRaises

Over == pc \in {"returned", "raised"} /\ UNCHANGED vars

Next == Execute \/ HookFailure \/ Interrupt \/ Land \/ Over

Spec == Init /\ [][Next]_vars

\* Every call ends (MethodReturns of ResourceCall), and hooks return.
Fairness == WF_vars(Execute)

FairSpec == Spec /\ Fairness

-----------------------------------------------------------------------------
(* Properties *)

\* Every variable stays in its range.
TypeOK ==
  /\ plan \in Executions
  /\ pc \in {"authorise", "plan", "planAudit", "call", "report", "reportAudit",
             "returned", "raised"}
  /\ op \in 1 .. Length
  /\ policy \in [allowed : SUBSET Operations, granted : SUBSET Operations]
  /\ journal \subseteq Operations \X WorkflowStatus
  /\ audit \subseteq Operations \X WorkflowStatus
  /\ applied \subseteq Operations
  /\ pending \subseteq Operations
  /\ ending \in Endings \union {"none", "CancelledError"}
  /\ result \in Results

\* Nothing reaches the provider before the whole plan is authorised: every
\* operation, also those still to come, allowed by the policy and confirmed by
\* name or by a grant, whenever its risk has a confirmation.
AuthorisedInFull ==
  applied \union pending # {} =>
    \A o \in 1 .. Length :
      /\ o \in policy.allowed
      /\ plan.operations[o].risk \in Confirmable =>
           plan.operations[o].risk \in plan.confirmed \/ o \in policy.granted

\* What the journal (or, without one, the audit trail) of an execution leaves
\* open, whatever was cancelled, killed or raised in between, is at most one
\* operation: everything before it succeeded and was performed, nothing after
\* it was sent.
Brackets(records, performed, late) ==
  LET succeeded == {o \in Operations : <<o, "succeeded">> \in records}
      planned   == {o \in Operations : <<o, "planned">> \in records}
  IN  /\ succeeded \subseteq performed
      /\ performed \union late \subseteq planned
      /\ \A a, b \in planned \ succeeded : a = b

\* Reading the journal of a dead process, an operator has one operation to
\* reconcile at most.
JournalBracketsEffects == plan.hooked => Brackets(journal, applied, pending)

\* The same for the audit trail, whether or not there is a journal.
AuditBracketsEffects == plan.audited => Brackets(audit, applied, pending)

\* The audit trail tells the journal's story, at most one record behind it.
AuditFollowsJournal ==
  plan.hooked /\ plan.audited =>
    audit \subseteq journal /\ \A a, b \in journal \ audit : a = b

\* A result tells the truth about every step: completed steps were performed,
\* steps after the one it names were never sent, and success means all of it.
ResultTruthful ==
  pc = "returned" =>
    LET stopped == result.failed + result.uncertain
    IN  /\ result.completed \subseteq applied
        /\ applied \union pending \subseteq result.completed \union {stopped}
        /\ result.status = "succeeded" <=> applied = 1 .. Length /\ stopped = 0
        /\ result.status = "partial" => result.completed # {}

\* Every execution comes to an end.
ExecutionEnds == <>(pc \in {"returned", "raised"})

\* The execution keeps the promise of StepSequence.
Verdict ==
  IF pc = "returned" /\ result.status = "succeeded" THEN "succeeded"
  ELSE IF pc \in {"returned", "raised"} \/ ending \notin {"none", "returned"} THEN "stopped"
  ELSE "running"

Steps == INSTANCE StepSequence WITH length <- Length, verdict <- Verdict

ImplementsStepSequence == Steps!Spec

-----------------------------------------------------------------------------
(* What the documents say and the code does not do *)

\* docs/framework-recipes.md:87: "An uncertain mutation uses
\* handoff="reconcile"".  So a step handed to the dead-letter queue is one the
\* provider did not perform and will not.
DeadLetterIsSettled ==
  pc = "returned" /\ result.failed # 0 /\ Handoff(StepStatus(ending)) = "dead-letter" =>
    result.failed \notin applied \union pending

\* docs/adr/0002-simple-api-contract.md:114: "Execution records a journal
\* entry before and after each typed call"; :129: "workflows are
\* cancellation-safe".  So a cancelled execution leaves no call without its
\* second entry.
CancelledCallJournaled ==
  plan.hooked /\ result.status = "CancelledError" /\ ending # "none" =>
    \E s \in WorkflowStatus \ {"planned"} : <<op, s>> \in journal

\* docs/adr/0002-simple-api-contract.md:93: "Input normalization or
\* confirmation failures occur before network I/O".  So an execution that stops
\* at an invalid argument has touched nothing.
InvalidInputBeforeIO ==
  ending = "ValueError" => applied \union pending = {}
=============================================================================
