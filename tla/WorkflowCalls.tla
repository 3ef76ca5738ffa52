---------------------------- MODULE WorkflowCalls ----------------------------
(***************************************************************************)
(* An application of the simple API: it calls a method itself, or executes *)
(* a plan whose calls are those of SimpleCall.  Where Workflow has one     *)
(* abstract call per operation, here the checks and the requests of its    *)
(* method run, one by one, and an interruption, a late request or a        *)
(* refused argument finds the method at one of them.  The hooks and the    *)
(* loops around the calls are the actions of Workflow.                     *)
(***************************************************************************)
EXTENDS SimpleCall, Sequences

CONSTANTS
  PlannedMethods,   \* the methods the plans call
  Plans,            \* the operations of each plan, in order
  Confirmations,    \* the sets of risks a caller of execute() confirms
  MaxLength         \* bound: operations in a plan

VARIABLES
  direct,       \* the application calls the method itself
  plan, op, policy, journal, audit, ending, result,     \* as in Workflow
  stage,        \* where execute() is
  effected,     \* operations the provider performed
  doubted       \* operations it may still perform

Execution == INSTANCE Workflow WITH pc <- stage, applied <- effected, pending <- doubted

ASSUME ExecutedPlansAssumption ==
  \A p \in Plans : p \in Seq(Execution!Operation) /\ Len(p) \in 1 .. MaxLength
ASSUME ExecutedConfirmationsAssumption == Confirmations \subseteq SUBSET Execution!Risk
ASSUME ExecutedLengthAssumption == MaxLength \in Nat \ {0}

executionVars ==
  <<plan, op, policy, journal, audit, ending, result, stage, effected, doubted>>

allVars == <<vars, direct, executionVars>>

-----------------------------------------------------------------------------
\* The calls a plan may make for operation o: the builder's closure confirms the
\* risk in the name of the caller of execute(), and asks for no dry run.
CallsOf(o) ==
  { c \in Calls :
      /\ c.method \in PlannedMethods /\ c.confirmed /\ ~c.dry
      /\ c.method.risk = plan.operations[o].risk
      /\ c.method.shape = IF plan.operations[o].uploads THEN "upload" ELSE "single"
      /\ c.flaw # "none" <=> o = plan.invalid }

\* While the application calls a method itself, some plan rests.
CallsInit ==
  /\ Execution!Init /\ Init /\ direct \in BOOLEAN
  /\ IF direct
       THEN plan = CHOOSE x \in Execution!Executions : x.invalid <= Len(x.operations)
       ELSE call \in CallsOf(op)

DirectCall == Next /\ UNCHANGED executionVars

\* The hooks and the result, before and after the calls.
BesideCalls ==
  /\ \/ Execution!Deny \/ Execution!RequireConfirmation \/ Execution!Authorise
     \/ Execution!Journal \/ Execution!AuditPlanned
     \/ Execution!Succeed \/ Execution!StopAtFailure
     \/ Execution!HookFailure
     \/ stage # "call" /\ Execution!Interrupt
  /\ UNCHANGED vars

ToNextCall ==
  /\ Execution!NextOperation
  /\ call' \in CallsOf(op')
  /\ pc' = "check" /\ step' = 0 /\ outcome' = "none"
  /\ applied' = {} /\ pending' = {} /\ warned' = {} /\ unnamed' = {}

-----------------------------------------------------------------------------
(* The call of the operation in hand *)

RunCall == stage = "call" /\ (Check \/ Perform)

\* The method goes on to its next request.
CallGoesOn == RunCall /\ outcome' = "none" /\ UNCHANGED executionVars

\* What the operation did is what the last request of its method did.
Account ==
  /\ effected' = IF PlannedFate' = "performed" THEN effected \union {op} ELSE effected
  /\ doubted' = IF PlannedFate' = "pending" THEN {op} ELSE doubted

\* The ending of the method, as execute() sees it; the plan itself refuses a
\* new server without a number.
EndingSeen(e) ==
  \/ e = PlannedEnding'
  \/ call.method.name = "servers.create" /\ outcome' = "returned" /\ e = "QuestBlueWarningError"

CallReturns(e) ==
  /\ RunCall
  /\ EndingSeen(e)
  /\ Account
  /\ ending' = e
  /\ stage' = "report"
  /\ UNCHANGED <<plan, op, policy, journal, audit, result>>

\* A BaseException in a request or between two, or the end of the process.
InterruptCall ==
  /\ stage = "call"
  /\ RequestRaises("CancelledError") \/ UNCHANGED vars
  /\ Account
  /\ ending' = "CancelledError"
  /\ Execution!Raise("CancelledError")
  /\ UNCHANGED <<plan, op, policy, journal, audit>>

\* The provider performs a request whose call is long over; only the last
\* request of a method is its operation.
RequestLands ==
  /\ Land
  /\ IF call.requests \in pending
       THEN effected' = effected \union {op} /\ doubted' = {}
       ELSE UNCHANGED <<effected, doubted>>
  /\ UNCHANGED <<plan, op, policy, journal, audit, ending, result, stage>>

CallsOver == stage \in {"returned", "raised"} /\ UNCHANGED <<vars, executionVars>>

ExecutePlan ==
  \/ BesideCalls \/ ToNextCall
  \/ CallGoesOn \/ InterruptCall
  \/ \E e \in Execution!Endings : CallReturns(e)
  \/ RequestLands \/ CallsOver

CallsNext == UNCHANGED direct /\ IF direct THEN DirectCall ELSE ExecutePlan

CallsSpec == CallsInit /\ [][CallsNext]_allVars

-----------------------------------------------------------------------------
(* Properties *)

\* The requests of every call, made by the application or by a plan, take effect
\* as StepSequence promises.
RequestsInOrder == [][ToNextCall \/ [Steps!Next]_(Steps!seqVars)]_allVars

\* An execution with real calls is an execution with the abstract ones: what
\* Workflow promises, it promises for them.
ImplementsWorkflow == Execution!Spec

\* Not only the operations but every request, the uploads included, goes out
\* after the whole plan is authorised and the entry before the call persisted.
RequestsAuthorised ==
  ~direct /\ Sent # {} =>
    /\ \A o \in 1 .. Execution!Length : o \in policy.allowed
    /\ plan.hooked => <<op, "planned">> \in journal
    /\ plan.audited => <<op, "planned">> \in audit

\* A step recorded as succeeded is one whose every request was performed, none
\* of them in doubt, and answered without a warning or a missing identifier.
SucceededIsWhole ==
  <<op, "succeeded">> \in journal \union audit =>
    applied = Requests /\ pending \union warned \union unnamed = {}
=============================================================================
