--------------------------- MODULE WorkflowProofs ---------------------------
(***************************************************************************)
(* What one execution of a plan guarantees for every plan, every policy    *)
(* and every set of confirmations.  The inductive invariant IInv says, for *)
(* each place in execute(), exactly which operations the provider has and  *)
(* exactly which records the hooks hold; an execution that raised keeps    *)
(* what held when it did.                                                  *)
(***************************************************************************)
EXTENDS Workflow, TLAPS

-----------------------------------------------------------------------------
(* The inductive invariant *)

Running == {"plan", "planAudit", "call", "report", "reportAudit"}

Authorised(o) ==
  /\ o \in policy.allowed
  /\ plan.operations[o].risk \in Confirmable =>
       plan.operations[o].risk \in plan.confirmed \/ o \in policy.granted

\* The policy loop has dealt with the operations before op, then with all.
AuthorisedSoFar ==
  /\ pc = "authorise" => \A o \in 1 .. op - 1 : Authorised(o)
  /\ pc \in Running \union {"returned"} => \A o \in 1 .. Length : Authorised(o)

\* What the provider has, place by place.
EffectsInOrder ==
  /\ pc = "authorise" => applied = {} /\ pending = {} /\ ending = "none"
  /\ pc \in {"plan", "planAudit", "call"} =>
       applied = 1 .. op - 1 /\ pending = {} /\ ending = "none"
  /\ pc \in {"report", "reportAudit", "returned"} =>
       /\ ending \in Endings
       /\ 1 .. op - 1 \subseteq applied
  /\ applied \union pending \subseteq 1 .. op
  /\ pending \subseteq {op}
  /\ ending = "returned" => applied = 1 .. op /\ pending = {}

\* The records of the first n operations, all of them successes.
Finished(n) == (1 .. n) \X {"planned", "succeeded"}

\* What the hooks persisted, place by place.
RecordsExact ==
  /\ pc = "authorise" => journal = {} /\ audit = {}
  /\ plan.hooked =>
       /\ pc = "plan" => journal = Finished(op - 1)
       /\ pc \in {"planAudit", "call", "report"} =>
            journal = Finished(op - 1) \union {<<op, "planned">>}
       /\ pc \in {"reportAudit", "returned"} =>
            journal = Finished(op - 1) \union {<<op, "planned">>, <<op, StepStatus(ending)>>}
  /\ plan.audited =>
       /\ pc \in {"plan", "planAudit"} => audit = Finished(op - 1)
       /\ pc \in {"call", "report", "reportAudit"} =>
            audit = Finished(op - 1) \union {<<op, "planned">>}
       /\ pc = "returned" =>
            audit = Finished(op - 1) \union {<<op, "planned">>, <<op, StepStatus(ending)>>}

\* The result is the one the last call earned.
ResultExact ==
  /\ pc \in Running \union {"authorise"} => result = NoResult
  /\ pc = "returned" =>
       IF ending = "returned"
         THEN op = Length /\ result = [NoResult EXCEPT !.status = "succeeded", !.completed = 1 .. op]
         ELSE result = StopResult

IInv ==
  /\ TypeOK
  /\ AuthorisedSoFar
  /\ EffectsInOrder
  /\ RecordsExact
  /\ ResultExact
  /\ AuthorisedInFull
  /\ JournalBracketsEffects
  /\ AuditBracketsEffects
  /\ AuditFollowsJournal

-----------------------------------------------------------------------------
(* Lemmas *)

\* The plan in hand is one of Plans.
LEMMA PlanFields ==
  ASSUME TypeOK
  PROVE  /\ plan.operations \in Plans /\ Length \in 1 .. MaxLength
         /\ plan.hooked \in BOOLEAN /\ plan.audited \in BOOLEAN
         /\ op \in Operations /\ Operations \subseteq Nat
<1>1. plan.operations \in Plans /\ plan.hooked \in BOOLEAN /\ plan.audited \in BOOLEAN
  BY DEF TypeOK, Executions
<1>2. Length \in 1 .. MaxLength
  BY <1>1, PlansAssumption DEF Length
<1> QED BY <1>1, <1>2, MaxLengthAssumption DEF TypeOK, Operations

\* The status of a step is one of those a step can have after its call.
LEMMA StepStatusType ==
  \A e : /\ StepStatus(e) \in {"succeeded", "uncertain", "failed"}
         /\ StepStatus(e) = "succeeded" <=> e = "returned"
BY DEF StepStatus

\* "returned" confirms the operation; an invalid argument leaves it unsent.
LEMMA EndingFacts ==
  /\ "returned" \in Performed \intersect Endings
  /\ Performed \intersect InDoubt = {}
  /\ "none" \notin Endings \union Performed \union InDoubt
  /\ "CancelledError" \in InDoubt /\ "CancelledError" # "returned"
BY DEF Performed, Confirmed, InDoubt, Endings, Outcomes, SDKErrors

\* What a call can have done: nothing, its operation, or a part of it in doubt;
\* a call that returned did it.
LEMMA EffectCases ==
  ASSUME NEW e, Effect(e)
  PROVE  /\ \/ UNCHANGED <<applied, pending>>
            \/ applied' = applied \union {op} /\ UNCHANGED pending
            \/ pending' = {op} /\ UNCHANGED applied
         /\ e = "returned" => applied' = applied \union {op} /\ UNCHANGED pending
<1>1. PICK fate \in FatesOf(e, Performed, plan.operations[op].uploads, op = plan.invalid) :
        /\ applied' = IF fate = "performed" THEN applied \union {op} ELSE applied
        /\ pending' = IF fate = "pending" THEN {op} ELSE pending
  BY DEF Effect
<1>2. e = "returned" => fate = "performed"
  BY <1>1, EndingFacts DEF FatesOf, Fates
<1> QED BY <1>1, <1>2

\* An exception that leaves execute() leaves no result.
LEMMA RaiseType ==
  ASSUME NEW error \in {"PolicyDeniedError", "ConfirmationRequiredError", "HookError",
                        "CancelledError"}, Raise(error)
  PROVE  /\ pc' = "raised"
         /\ result' \in Results
BY MaxLengthAssumption DEF Raise, NoResult, Results

\* Records of progress up to operation n bracket the effects of progress up to
\* operation n.
LEMMA ProgressBrackets ==
  ASSUME NEW n \in Operations, NEW performed, NEW late, NEW s, NEW records,
         s # "planned",
         1 .. n - 1 \subseteq performed, performed \union late \subseteq 1 .. n,
         \/ records = Finished(n - 1) /\ performed \union late \subseteq 1 .. n - 1
         \/ records = Finished(n - 1) \union {<<n, "planned">>}
         \/ /\ records = Finished(n - 1) \union {<<n, "planned">>, <<n, s>>}
            /\ s = "succeeded" => n \in performed
  PROVE  Brackets(records, performed, late)
<1>1. n \in Nat /\ 1 .. n \subseteq Operations /\ \A o \in Operations : o \in Nat /\ o >= 1
  BY MaxLengthAssumption DEF Operations
<1>2. \A o \in Operations : o <= n - 1 => o \in performed
  <2> SUFFICES ASSUME NEW o \in Operations, o <= n - 1 PROVE o \in 1 .. n - 1
    OBVIOUS
  <2> QED BY <1>1
<1>3. \A o \in performed \union late : o \in Operations /\ o <= n
  BY <1>1
<1>4. CASE records = Finished(n - 1) /\ performed \union late \subseteq 1 .. n - 1
  BY <1>1, <1>4 DEF Brackets, Finished
<1>5. CASE records = Finished(n - 1) \union {<<n, "planned">>}
  <2>1. \A o \in Operations :
          /\ <<o, "planned">> \in records <=> o <= n
          /\ <<o, "succeeded">> \in records <=> o <= n - 1
    BY <1>1, <1>5 DEF Finished
  <2>2. \A o \in Operations : <<o, "succeeded">> \in records => o \in performed
    BY <1>2, <2>1
  <2>3. \A o \in performed \union late : o \in Operations /\ <<o, "planned">> \in records
    BY <1>3, <2>1
  <2>4. \A o \in Operations :
          <<o, "planned">> \in records /\ <<o, "succeeded">> \notin records => o = n
    BY <1>1, <2>1
  <2> QED BY <2>2, <2>3, <2>4 DEF Brackets
<1>6. CASE /\ records = Finished(n - 1) \union {<<n, "planned">>, <<n, s>>}
           /\ s = "succeeded" => n \in performed
  <2>1. \A o \in Operations :
          /\ <<o, "planned">> \in records <=> o <= n
          /\ <<o, "succeeded">> \in records <=> (o <= n - 1 \/ (o = n /\ s = "succeeded"))
    BY <1>1, <1>6 DEF Finished
  <2>2. \A o \in Operations : <<o, "succeeded">> \in records => o \in performed
    BY <1>2, <1>6, <2>1
  <2>3. \A o \in performed \union late : o \in Operations /\ <<o, "planned">> \in records
    BY <1>3, <2>1
  <2>4. \A o \in Operations :
          <<o, "planned">> \in records /\ <<o, "succeeded">> \notin records => o = n
    BY <1>1, <2>1
  <2> QED BY <2>2, <2>3, <2>4 DEF Brackets
<1> QED BY <1>4, <1>5, <1>6

\* An effect that lands late stays within the brackets.
LEMMA BracketsMonotonic ==
  ASSUME NEW records, NEW performed, NEW late, Brackets(records, performed, late)
  PROVE  Brackets(records, performed \union late, {})
BY DEF Brackets

\* Initially nothing was authorised, recorded or sent.
LEMMA InitIInv == Init => IInv
<1> SUFFICES ASSUME Init PROVE IInv
  OBVIOUS
<1>1. plan \in Executions /\ plan.operations \in Plans
  BY DEF Init, Executions
<1>2. Length \in 1 .. MaxLength
  BY <1>1, PlansAssumption DEF Length
<1>3. TypeOK
  BY <1>1, <1>2, MaxLengthAssumption DEF Init, TypeOK, NoResult, Results
<1>4. AuthorisedSoFar /\ EffectsInOrder /\ RecordsExact /\ ResultExact
  BY DEF Init, AuthorisedSoFar, EffectsInOrder, RecordsExact, ResultExact, Running
<1>5. AuthorisedInFull /\ AuditFollowsJournal
  BY DEF Init, AuthorisedInFull, AuditFollowsJournal
<1>6. JournalBracketsEffects /\ AuditBracketsEffects
  BY DEF Init, JournalBracketsEffects, AuditBracketsEffects, Brackets
<1> QED BY <1>3, <1>4, <1>5, <1>6 DEF IInv

-----------------------------------------------------------------------------
(* IInv is inductive *)

LEMMA TypeStep ==
  ASSUME IInv, [Next]_vars
  PROVE  TypeOK'
<1>0. /\ TypeOK /\ plan \in Executions /\ Length \in 1 .. MaxLength /\ MaxLength \in Nat
      /\ op \in Operations /\ plan.operations \in Plans
  BY PlanFields, MaxLengthAssumption DEF IInv, TypeOK
<1>1. plan' = plan => Length' = Length
  BY DEF Length
<1>2. ASSUME NEW allowed \in BOOLEAN, NEW granted \in BOOLEAN, Decide(allowed, granted)
      PROVE  /\ policy' \in [allowed : SUBSET Operations, granted : SUBSET Operations]
             /\ pc = "authorise"
             /\ UNCHANGED <<plan, journal, audit, applied, pending, ending>>
  BY <1>0, <1>2 DEF Decide, TypeOK
<1>3. CASE Deny
  BY <1>0, <1>1, <1>2, <1>3, RaiseType DEF Deny, TypeOK
<1>4. CASE RequireConfirmation
  BY <1>0, <1>1, <1>2, <1>4, RaiseType DEF RequireConfirmation, TypeOK
<1>5. CASE Authorise
  <2>1. /\ policy' \in [allowed : SUBSET Operations, granted : SUBSET Operations]
        /\ pc = "authorise"
        /\ UNCHANGED <<plan, journal, audit, applied, pending, ending>>
    BY <1>2, <1>5 DEF Authorise
  <2>2. op \in 1 .. Length /\ Length' = Length
    BY <1>0, <1>1, <2>1 DEF TypeOK
  <2>3. op' \in 1 .. Length'
    BY <1>0, <1>5, <2>2 DEF Authorise
  <2> QED BY <1>0, <1>5, <2>1, <2>3 DEF Authorise, TypeOK
<1>6. Record \in Operations \X WorkflowStatus
  BY <1>0, StepStatusType DEF Record, WorkflowStatus
<1>7. CASE Journal
  BY <1>0, <1>1, <1>6, <1>7 DEF Journal, AfterHook, TypeOK
<1>8. CASE AuditPlanned
  BY <1>0, <1>1, <1>6, <1>8 DEF AuditPlanned, AfterHook, TypeOK
<1>9. ASSUME NEW e, Effect(e)
      PROVE  applied' \subseteq Operations /\ pending' \subseteq Operations
  BY <1>0, <1>9, EffectCases DEF TypeOK
<1>10. ASSUME NEW e \in Endings, CallEnds(e)
       PROVE  TypeOK'
  BY <1>0, <1>1, <1>9, <1>10 DEF CallEnds, TypeOK
<1>11. RecordAudit => audit' \subseteq Operations \X WorkflowStatus
  BY <1>0, <1>6 DEF RecordAudit, TypeOK
<1>12. CASE NextOperation
  BY <1>0, <1>1, <1>11, <1>12 DEF NextOperation, TypeOK, Operations
<1>13. CASE Succeed
  <2>1. 1 .. op \subseteq Operations
    BY <1>0 DEF Operations
  <2>2. result' \in Results
    <3>1. result' = [status |-> "succeeded", completed |-> 1 .. op, failed |-> 0, uncertain |-> 0]
      BY <1>13 DEF Succeed, NoResult
    <3> QED BY <1>0, <2>1, <3>1 DEF WorkflowStatus, Results
  <2> QED BY <1>0, <1>1, <1>11, <1>13, <2>2 DEF Succeed, TypeOK
<1>14. CASE StopAtFailure
  <2>1. StopResult \in Results
    BY <1>0 DEF StopResult, WorkflowStatus, Operations, Results
  <2> QED BY <1>0, <1>1, <1>11, <1>14, <2>1 DEF StopAtFailure, TypeOK
<1>15. CASE JournalHookRaises
  BY <1>0, <1>1, <1>6, <1>15, RaiseType DEF JournalHookRaises, TypeOK
<1>16. CASE AuditHookRaises
  BY <1>0, <1>1, <1>6, <1>16, RaiseType DEF AuditHookRaises, TypeOK
<1>17. CASE Interrupt
  <2>1. applied' \subseteq Operations /\ pending' \subseteq Operations
    BY <1>0, <1>9, <1>17 DEF Interrupt, TypeOK
  <2> QED BY <1>0, <1>1, <1>17, <2>1, RaiseType DEF Interrupt, TypeOK
<1>18. CASE Land
  BY <1>0, <1>1, <1>18 DEF Land, TypeOK
<1>19. CASE Over \/ UNCHANGED vars
  BY <1>0, <1>1, <1>19 DEF Over, vars, TypeOK
<1> QED
  BY <1>3, <1>4, <1>5, <1>7, <1>8, <1>10, <1>12, <1>13, <1>14, <1>15, <1>16, <1>17, <1>18,
     <1>19 DEF Next, Execute, HookFailure

\* The steps that call nothing but hooks leave plan and policy alone.
LEMMA AuthorisationStep ==
  ASSUME IInv, [Next]_vars
  PROVE  AuthorisedSoFar' /\ AuthorisedInFull'
<1> USE DEF Running
<1>0. /\ TypeOK /\ AuthorisedSoFar /\ AuthorisedInFull /\ EffectsInOrder
      /\ Length \in 1 .. MaxLength /\ MaxLength \in Nat /\ op \in 1 .. Length
  BY PlanFields, MaxLengthAssumption DEF IInv, TypeOK
<1>1. plan' = plan => Length' = Length
  BY DEF Length
<1>2. ASSUME plan' = plan, policy' = policy,
             pc' \in Running \union {"returned"} => pc \in Running \union {"returned"},
             pc' # "authorise",
             pc \notin Running => applied' \union pending' = applied \union pending
      PROVE  AuthorisedSoFar' /\ AuthorisedInFull'
  BY <1>0, <1>1, <1>2 DEF AuthorisedSoFar, AuthorisedInFull, Authorised
<1>3. CASE Deny \/ RequireConfirmation
  BY <1>0, <1>3 DEF Deny, RequireConfirmation, Decide, Raise, AuthorisedSoFar,
     AuthorisedInFull, EffectsInOrder
<1>4. CASE Authorise
  <2>1. PICK granted \in BOOLEAN :
          Decide(TRUE, granted) /\ (granted \/ ConfirmedByName(plan.operations[op].risk))
    BY <1>4 DEF Authorise
  <2>2. \A o \in 1 .. op - 1 : Authorised(o)
    BY <1>0, <2>1 DEF Decide, AuthorisedSoFar
  <2>3. \A o \in 1 .. op : Authorised(o)'
    <3>1. ASSUME NEW o \in 1 .. op - 1 PROVE Authorised(o)'
      BY <2>1, <2>2, <3>1 DEF Decide, Authorised
    <3>2. ASSUME NEW o, o = op PROVE Authorised(o)'
      <4>1. o \in policy'.allowed /\ (granted => o \in policy'.granted) /\ plan' = plan
        BY <2>1, <3>2 DEF Decide
      <4>2. ~granted => plan.operations[o].risk \notin Confirmable \/ plan.operations[o].risk \in plan.confirmed
        BY <2>1, <3>2 DEF ConfirmedByName
      <4> QED BY <4>1, <4>2 DEF Authorised
    <3>3. \A o \in 1 .. op : o = op \/ o \in 1 .. op - 1
      BY <1>0
    <3> QED BY <3>1, <3>2, <3>3
  <2>4. applied' = {} /\ pending' = {}
    BY <1>0, <2>1 DEF Decide, EffectsInOrder
  <2>5. AuthorisedSoFar'
    BY <1>0, <1>1, <1>4, <2>1, <2>3 DEF Authorise, Decide, AuthorisedSoFar
  <2> QED BY <2>4, <2>5 DEF AuthorisedInFull
<1>5. CASE Journal \/ AuditPlanned
  BY <1>2, <1>5 DEF Journal, AuditPlanned, AfterHook
<1>6. ASSUME NEW e \in Endings, CallEnds(e)
      PROVE  AuthorisedSoFar' /\ AuthorisedInFull'
  BY <1>2, <1>6 DEF CallEnds
<1>7. CASE NextOperation \/ Succeed \/ StopAtFailure
  BY <1>2, <1>7 DEF NextOperation, Succeed, StopAtFailure
<1>8. CASE JournalHookRaises \/ AuditHookRaises
  BY <1>2, <1>8 DEF JournalHookRaises, AuditHookRaises, Raise
<1>9. CASE Interrupt
  BY <1>2, <1>9 DEF Interrupt, Raise
<1>10. CASE Land
  BY <1>0, <1>1, <1>10 DEF Land, AuthorisedSoFar, AuthorisedInFull, Authorised
<1>11. CASE Over \/ UNCHANGED vars
  BY <1>0, <1>1, <1>11 DEF Over, vars, AuthorisedSoFar, AuthorisedInFull, Authorised
<1> QED
  BY <1>3, <1>4, <1>5, <1>6, <1>7, <1>8, <1>9, <1>10, <1>11 DEF Next, Execute, HookFailure

\* Operations reach the provider in order, and only one can be in doubt.
LEMMA EffectStep ==
  ASSUME IInv, [Next]_vars
  PROVE  EffectsInOrder'
<1>0. TypeOK /\ EffectsInOrder /\ op \in Nat /\ op >= 1
  BY PlanFields DEF IInv, TypeOK, EffectsInOrder
<1>1. CASE Deny \/ RequireConfirmation \/ Authorise
  <2>1. pc = "authorise" /\ applied' = {} /\ pending' = {} /\ ending' = "none"
    BY <1>0, <1>1 DEF Deny, RequireConfirmation, Authorise, Decide, EffectsInOrder
  <2>2. pc' \in {"authorise", "raised"} \/ (pc' = "plan" /\ op' = 1)
    BY <1>1, <2>1 DEF Deny, RequireConfirmation, Authorise, Raise
  <2>3. 1 .. 1 - 1 = {}
    OBVIOUS
  <2> QED BY <2>1, <2>2, <2>3 DEF EffectsInOrder
<1>2. CASE Journal \/ AuditPlanned
  BY <1>0, <1>2 DEF Journal, AuditPlanned, AfterHook, EffectsInOrder
<1>3. ASSUME NEW e \in Endings \union {"CancelledError"}, pc = "call", Effect(e),
             op' = op, ending' = e, pc' \in {"report", "raised"},
             pc' = "report" => e \in Endings
      PROVE  EffectsInOrder'
  <2>1. applied = 1 .. op - 1 /\ pending = {}
    BY <1>0, <1>3 DEF EffectsInOrder
  <2>2. e = "returned" => applied' = applied \union {op} /\ pending' = {}
    BY <1>3, <2>1, EffectCases
  <2>3. /\ applied \subseteq applied' /\ applied' \subseteq applied \union {op}
        /\ pending' \subseteq {op}
    BY <1>3, <2>1, EffectCases
  <2>4. e = "returned" => applied' = 1 .. op
    <3>1. 1 .. op = (1 .. op - 1) \union {op}
      BY <1>0
    <3> QED BY <2>1, <2>2, <3>1
  <2>5. applied' \union pending' \subseteq 1 .. op
    BY <1>0, <2>1, <2>3
  <2> QED BY <1>3, <2>1, <2>2, <2>3, <2>4, <2>5 DEF EffectsInOrder
<1>4. ASSUME NEW e \in Endings, CallEnds(e) PROVE EffectsInOrder'
  BY <1>3, <1>4 DEF CallEnds
<1>5. CASE NextOperation
  <2>1. applied = 1 .. op /\ pending = {} /\ op' - 1 = op
    BY <1>0, <1>5 DEF NextOperation, EffectsInOrder
  <2> QED BY <1>0, <1>5, <2>1 DEF NextOperation, EffectsInOrder
<1>6. CASE Succeed \/ StopAtFailure
  BY <1>0, <1>6 DEF Succeed, StopAtFailure, EffectsInOrder
<1>7. CASE JournalHookRaises \/ AuditHookRaises
  BY <1>0, <1>7 DEF JournalHookRaises, AuditHookRaises, Raise, EffectsInOrder
<1>8. CASE Interrupt
  <2>1. CASE pc = "call"
    BY <1>3, <1>8, <2>1 DEF Interrupt, Raise
  <2>2. CASE pc # "call"
    BY <1>0, <1>8, <2>2 DEF Interrupt, Raise, EffectsInOrder
  <2> QED BY <2>1, <2>2
<1>9. CASE Land
  <2>1. pc # "authorise" /\ pc \notin {"plan", "planAudit", "call"} /\ ending # "returned"
    BY <1>0, <1>9 DEF Land, EffectsInOrder
  <2> QED BY <1>0, <1>9, <2>1 DEF Land, EffectsInOrder
<1>10. CASE Over \/ UNCHANGED vars
  BY <1>0, <1>10 DEF Over, vars, EffectsInOrder
<1> QED
  BY <1>1, <1>2, <1>4, <1>5, <1>6, <1>7, <1>8, <1>9, <1>10 DEF Next, Execute, HookFailure

\* While execute() runs, and when it has returned, exact records give the
\* promises about journal and audit trail.
LEMMA ExactRecordsSuffice ==
  TypeOK /\ EffectsInOrder /\ RecordsExact /\ pc # "raised" =>
    JournalBracketsEffects /\ AuditBracketsEffects /\ AuditFollowsJournal
<1> SUFFICES ASSUME TypeOK, EffectsInOrder, RecordsExact, pc # "raised"
             PROVE  JournalBracketsEffects /\ AuditBracketsEffects /\ AuditFollowsJournal
  OBVIOUS
<1>0. /\ op \in Operations /\ op \in Nat /\ op >= 1
      /\ pc \in {"authorise", "plan", "planAudit", "call", "report", "reportAudit", "returned"}
  BY PlanFields DEF TypeOK
<1>1. CASE pc = "authorise"
  BY <1>1 DEF EffectsInOrder, RecordsExact, JournalBracketsEffects, AuditBracketsEffects,
     AuditFollowsJournal, Brackets
<1>2. CASE pc # "authorise"
  <2>1. /\ 1 .. op - 1 \subseteq applied /\ applied \union pending \subseteq 1 .. op
        /\ pc \in {"plan", "planAudit"} => applied \union pending \subseteq 1 .. op - 1
    BY <1>0, <1>2 DEF EffectsInOrder
  <2>2. /\ StepStatus(ending) # "planned"
        /\ StepStatus(ending) = "succeeded" => op \in applied
    BY <1>0, StepStatusType DEF EffectsInOrder
  <2>3. ASSUME plan.hooked PROVE Brackets(journal, applied, pending)
    BY <1>0, <1>2, <2>1, <2>2, <2>3, ProgressBrackets DEF RecordsExact
  <2>4. ASSUME plan.audited PROVE Brackets(audit, applied, pending)
    BY <1>0, <1>2, <2>1, <2>2, <2>4, ProgressBrackets DEF RecordsExact
  <2>5. AuditFollowsJournal
    BY <1>0, <1>2 DEF RecordsExact, AuditFollowsJournal
  <2> QED BY <2>3, <2>4, <2>5 DEF JournalBracketsEffects, AuditBracketsEffects
<1> QED BY <1>1, <1>2

\* The same for a step that persists one record more and raises.
LEMMA RaisingHookStep ==
  ASSUME IInv, JournalHookRaises \/ AuditHookRaises
  PROVE  JournalBracketsEffects' /\ AuditBracketsEffects' /\ AuditFollowsJournal'
<1>0. /\ TypeOK /\ EffectsInOrder /\ RecordsExact /\ op \in Operations /\ op \in Nat /\ op >= 1
      /\ JournalBracketsEffects /\ AuditBracketsEffects /\ AuditFollowsJournal
  BY PlanFields DEF IInv, TypeOK
<1>1. /\ 1 .. op - 1 \subseteq applied /\ applied \union pending \subseteq 1 .. op
      /\ UNCHANGED <<plan, applied, pending>>
      /\ StepStatus(ending) # "planned"
      /\ StepStatus(ending) = "succeeded" => op \in applied
  BY <1>0, StepStatusType DEF JournalHookRaises, AuditHookRaises, EffectsInOrder
<1>2. CASE JournalHookRaises
  <2>1. /\ pc \in {"plan", "report"} /\ plan.hooked /\ audit' = audit
        /\ journal' \in {journal, journal \union {Record}}
    BY <1>2 DEF JournalHookRaises
  <2>2. CASE pc = "plan"
    <3>1. journal \union {Record} = Finished(op - 1) \union {<<op, "planned">>}
      BY <1>0, <2>1, <2>2 DEF RecordsExact, Record
    <3>2. Brackets(journal', applied, pending)
      BY <1>0, <1>1, <2>1, <3>1, ProgressBrackets DEF JournalBracketsEffects
    <3>3. AuditFollowsJournal'
      BY <1>0, <1>1, <2>1, <2>2, <3>1 DEF RecordsExact, AuditFollowsJournal
    <3> QED BY <1>0, <1>1, <2>1, <3>2, <3>3 DEF JournalBracketsEffects, AuditBracketsEffects
  <2>3. CASE pc = "report"
    <3>1. journal \union {Record} =
            Finished(op - 1) \union {<<op, "planned">>, <<op, StepStatus(ending)>>}
      BY <1>0, <2>1, <2>3 DEF RecordsExact, Record
    <3>2. Brackets(journal', applied, pending)
      BY <1>0, <1>1, <2>1, <3>1, ProgressBrackets DEF JournalBracketsEffects
    <3>3. AuditFollowsJournal'
      BY <1>0, <1>1, <2>1, <2>3, <3>1 DEF RecordsExact, AuditFollowsJournal
    <3> QED BY <1>0, <1>1, <2>1, <3>2, <3>3 DEF JournalBracketsEffects, AuditBracketsEffects
  <2> QED BY <2>1, <2>2, <2>3
<1>3. CASE AuditHookRaises
  <2>1. /\ pc \in {"planAudit", "reportAudit"} /\ plan.audited /\ journal' = journal
        /\ audit' \in {audit, audit \union {Record}}
    BY <1>3 DEF AuditHookRaises
  <2>2. CASE pc = "planAudit"
    <3>1. audit \union {Record} = Finished(op - 1) \union {<<op, "planned">>}
      BY <1>0, <2>1, <2>2 DEF RecordsExact, Record
    <3>2. Brackets(audit', applied, pending)
      BY <1>0, <1>1, <2>1, <3>1, ProgressBrackets DEF AuditBracketsEffects
    <3>3. AuditFollowsJournal'
      BY <1>0, <1>1, <2>1, <2>2, <3>1 DEF RecordsExact, AuditFollowsJournal
    <3> QED BY <1>0, <1>1, <2>1, <3>2, <3>3 DEF JournalBracketsEffects, AuditBracketsEffects
  <2>3. CASE pc = "reportAudit"
    <3>1. audit \union {Record} =
            Finished(op - 1) \union {<<op, "planned">>, <<op, StepStatus(ending)>>}
      BY <1>0, <2>1, <2>3 DEF RecordsExact, Record
    <3>2. Brackets(audit', applied, pending)
      BY <1>0, <1>1, <2>1, <3>1, ProgressBrackets DEF AuditBracketsEffects
    <3>3. AuditFollowsJournal'
      BY <1>0, <1>1, <2>1, <2>3, <3>1 DEF RecordsExact, AuditFollowsJournal
    <3> QED BY <1>0, <1>1, <2>1, <3>2, <3>3 DEF JournalBracketsEffects, AuditBracketsEffects
  <2> QED BY <2>1, <2>2, <2>3
<1> QED BY <1>2, <1>3

\* Every hook call adds exactly the record of the place execute() is at.
LEMMA RecordStep ==
  ASSUME IInv, [Next]_vars
  PROVE  RecordsExact'
<1>0. /\ TypeOK /\ EffectsInOrder /\ RecordsExact /\ op \in Nat /\ op >= 1
      /\ plan.hooked \in BOOLEAN /\ plan.audited \in BOOLEAN
  BY PlanFields DEF IInv, TypeOK
<1>1. ASSUME pc' = "raised" PROVE RecordsExact'
  BY <1>1 DEF RecordsExact
<1>2. CASE Deny \/ RequireConfirmation
  BY <1>1, <1>2 DEF Deny, RequireConfirmation, Raise
<1>3. CASE Authorise
  <2>1. journal' = {} /\ audit' = {} /\ plan' = plan /\ pc = "authorise"
    BY <1>0, <1>3 DEF Authorise, Decide, RecordsExact
  <2>2. pc' = "authorise" \/ (pc' = "plan" /\ op' = 1)
    BY <1>3, <2>1 DEF Authorise
  <2>3. Finished(1 - 1) = {}
    BY DEF Finished
  <2> QED BY <2>1, <2>2, <2>3 DEF RecordsExact
<1>4. CASE Journal
  BY <1>0, <1>4 DEF Journal, AfterHook, Record, RecordsExact
<1>5. CASE AuditPlanned
  BY <1>0, <1>5 DEF AuditPlanned, AfterHook, Record, RecordsExact
<1>6. ASSUME NEW e \in Endings, CallEnds(e) PROVE RecordsExact'
  BY <1>0, <1>6 DEF CallEnds, RecordsExact
<1>7. CASE NextOperation
  <2>1. /\ pc = "reportAudit" /\ ending = "returned" /\ RecordAudit /\ pc' = "plan"
        /\ plan' = plan /\ journal' = journal /\ op' - 1 = op
    BY <1>0, <1>7 DEF NextOperation
  <2>2. Finished(op) = Finished(op - 1) \union {<<op, "planned">>, <<op, "succeeded">>}
    BY <1>0 DEF Finished
  <2>3. StepStatus(ending) = "succeeded"
    BY <2>1, StepStatusType
  <2>4. plan.hooked => journal' = Finished(op)
    BY <1>0, <2>1, <2>2, <2>3 DEF RecordsExact
  <2>5. plan.audited => audit' = Finished(op)
    BY <1>0, <2>1, <2>2, <2>3 DEF RecordsExact, RecordAudit, Record
  <2> QED BY <2>1, <2>4, <2>5 DEF RecordsExact
<1>8. CASE Succeed \/ StopAtFailure
  <2>1. /\ pc = "reportAudit" /\ pc' = "returned" /\ RecordAudit
        /\ UNCHANGED <<plan, op, journal, ending>>
    BY <1>8 DEF Succeed, StopAtFailure
  <2>2. plan.audited => audit' = audit \union {<<op, StepStatus(ending)>>}
    BY <2>1 DEF RecordAudit, Record
  <2>3. StepStatus(ending)' = StepStatus(ending)
    BY <2>1
  <2> QED BY <1>0, <2>1, <2>2, <2>3 DEF RecordsExact
<1>9. CASE JournalHookRaises \/ AuditHookRaises \/ Interrupt
  BY <1>1, <1>9 DEF JournalHookRaises, AuditHookRaises, Interrupt, Raise
<1>10. CASE Land
  BY <1>0, <1>10 DEF Land, RecordsExact
<1>11. CASE Over \/ UNCHANGED vars
  BY <1>0, <1>11 DEF Over, vars, RecordsExact
<1> QED
  BY <1>2, <1>3, <1>4, <1>5, <1>6, <1>7, <1>8, <1>9, <1>10, <1>11 DEF Next, Execute, HookFailure

\* The records bracket the effects after every step, also one that raises.
LEMMA BracketStep ==
  ASSUME IInv, [Next]_vars
  PROVE  JournalBracketsEffects' /\ AuditBracketsEffects' /\ AuditFollowsJournal'
<1>0. /\ TypeOK /\ EffectsInOrder /\ op \in Nat /\ op >= 1 /\ op \in Operations
      /\ RecordsExact /\ JournalBracketsEffects /\ AuditBracketsEffects /\ AuditFollowsJournal
  BY PlanFields DEF IInv, TypeOK
<1>1. TypeOK' /\ EffectsInOrder' /\ RecordsExact'
  BY TypeStep, EffectStep, RecordStep
<1>2. CASE pc' # "raised"
  <2>1. (TypeOK /\ EffectsInOrder /\ RecordsExact /\ pc # "raised" =>
           JournalBracketsEffects /\ AuditBracketsEffects /\ AuditFollowsJournal)'
    BY ExactRecordsSuffice, PTL
  <2> QED BY <1>1, <1>2, <2>1
<1>3. CASE pc' = "raised"
  <2>1. CASE UNCHANGED <<plan, journal, audit, applied, pending>>
    BY <1>0, <2>1 DEF JournalBracketsEffects, AuditBracketsEffects, AuditFollowsJournal
  <2>2. CASE Land
    BY <1>0, <2>2, BracketsMonotonic
       DEF Land, JournalBracketsEffects, AuditBracketsEffects, AuditFollowsJournal
  <2>3. CASE JournalHookRaises \/ AuditHookRaises
    BY <2>3, RaisingHookStep
  <2>4. CASE Interrupt /\ pc = "call"
    <3>1. /\ applied = 1 .. op - 1 /\ pending = {}
          /\ UNCHANGED <<plan, journal, audit>>
      BY <1>0, <2>4 DEF EffectsInOrder, Interrupt
    <3>2. 1 .. op - 1 \subseteq applied' /\ applied' \union pending' \subseteq 1 .. op
      BY <1>0, <2>4, <3>1, EffectCases DEF Interrupt
    <3> StepStatus(ending) # "planned"
      BY StepStatusType
    <3>3. ASSUME plan.hooked PROVE Brackets(journal', applied', pending')
      <4>1. journal' = Finished(op - 1) \union {<<op, "planned">>}
        BY <1>0, <2>4, <3>1, <3>3 DEF RecordsExact
      <4> QED BY <1>0, <3>2, <4>1, ProgressBrackets
    <3>4. ASSUME plan.audited PROVE Brackets(audit', applied', pending')
      <4>1. audit' = Finished(op - 1) \union {<<op, "planned">>}
        BY <1>0, <2>4, <3>1, <3>4 DEF RecordsExact
      <4> QED BY <1>0, <3>2, <4>1, ProgressBrackets
    <3>5. AuditFollowsJournal'
      BY <1>0, <3>1 DEF AuditFollowsJournal
    <3> QED BY <3>1, <3>3, <3>4, <3>5 DEF JournalBracketsEffects, AuditBracketsEffects
  <2>5. CASE Interrupt /\ pc # "call"
    BY <2>1, <2>5 DEF Interrupt
  <2>6. CASE Deny \/ RequireConfirmation
    BY <2>1, <2>6 DEF Deny, RequireConfirmation, Decide
  <2>7. CASE Authorise \/ Journal \/ AuditPlanned \/ NextOperation \/ Succeed \/ StopAtFailure
    BY <1>3, <2>7 DEF Authorise, Decide, Journal, AuditPlanned, AfterHook, NextOperation,
       Succeed, StopAtFailure
  <2>8. ASSUME NEW e \in Endings, CallEnds(e) PROVE FALSE
    BY <1>3, <2>8 DEF CallEnds
  <2>9. CASE Over \/ UNCHANGED vars
    BY <2>1, <2>9 DEF Over, vars
  <2> QED
    BY <2>2, <2>3, <2>4, <2>5, <2>6, <2>7, <2>8, <2>9 DEF Next, Execute, HookFailure
<1> QED BY <1>2, <1>3

\* The result is fixed by the last ending, when execute() returns.
LEMMA ResultStep ==
  ASSUME IInv, [Next]_vars
  PROVE  ResultExact'
<1> USE DEF Running
<1>0. TypeOK /\ ResultExact
  BY DEF IInv
<1>1. ASSUME pc' = "raised" PROVE ResultExact'
  BY <1>1 DEF ResultExact
<1>2. CASE Deny \/ RequireConfirmation \/ JournalHookRaises \/ AuditHookRaises \/ Interrupt
  BY <1>1, <1>2 DEF Deny, RequireConfirmation, JournalHookRaises, AuditHookRaises, Interrupt,
     Raise
<1>3. CASE Authorise
  BY <1>0, <1>3 DEF Authorise, Decide, ResultExact
<1>4. CASE Journal \/ AuditPlanned \/ NextOperation
  BY <1>0, <1>4 DEF Journal, AuditPlanned, AfterHook, NextOperation, ResultExact
<1>5. ASSUME NEW e \in Endings, CallEnds(e) PROVE ResultExact'
  BY <1>0, <1>5 DEF CallEnds, ResultExact
<1>6. CASE Succeed
  <2>1. Length' = Length /\ op' = op
    BY <1>6 DEF Succeed, Length
  <2> QED BY <1>6, <2>1 DEF Succeed, ResultExact
<1>7. CASE StopAtFailure
  <2>1. StopResult' = StopResult
    BY <1>7 DEF StopAtFailure, StopResult
  <2> QED BY <1>7, <2>1 DEF StopAtFailure, ResultExact
<1>8. CASE Land \/ Over \/ UNCHANGED vars
  <2>1. StopResult' = StopResult /\ Length' = Length
    BY <1>8 DEF Land, Over, vars, StopResult, Length
  <2> QED BY <1>0, <1>8, <2>1 DEF Land, Over, vars, ResultExact
<1> QED
  BY <1>2, <1>3, <1>4, <1>5, <1>6, <1>7, <1>8 DEF Next, Execute, HookFailure

-----------------------------------------------------------------------------
(* The theorems *)

\* IInv holds in every reachable state.
THEOREM Invariance == Spec => []IInv
<1>1. IInv /\ [Next]_vars => IInv'
  BY TypeStep, AuthorisationStep, EffectStep, RecordStep, BracketStep, ResultStep DEF IInv
<1> QED BY InitIInv, <1>1, PTL DEF Spec

\* Every variable of execute() stays in its range.
THEOREM TypeCorrect == Spec => []TypeOK
<1>1. IInv => TypeOK
  BY DEF IInv
<1> QED BY Invariance, <1>1, PTL

\* No operation reaches the provider before the policy and the confirmations
\* have passed every operation of the plan.
THEOREM FullAuthorisation == Spec => []AuthorisedInFull
<1>1. IInv => AuthorisedInFull
  BY DEF IInv
<1> QED BY Invariance, <1>1, PTL

\* Wherever an execution dies, its journal leaves at most one operation to
\* reconcile.
THEOREM JournalBrackets == Spec => []JournalBracketsEffects
<1>1. IInv => JournalBracketsEffects
  BY DEF IInv
<1> QED BY Invariance, <1>1, PTL

\* So does its audit trail, with or without a journal.
THEOREM AuditBrackets == Spec => []AuditBracketsEffects
<1>1. IInv => AuditBracketsEffects
  BY DEF IInv
<1> QED BY Invariance, <1>1, PTL

\* The audit trail is never ahead of the journal and at most one record behind.
THEOREM AuditFollows == Spec => []AuditFollowsJournal
<1>1. IInv => AuditFollowsJournal
  BY DEF IInv
<1> QED BY Invariance, <1>1, PTL

\* A result never claims an operation the provider did not perform, nor hides
\* one it may have performed.
THEOREM ResultsTruthful == Spec => []ResultTruthful
<1>1. IInv => ResultTruthful
  <2> SUFFICES ASSUME IInv, pc = "returned"
               PROVE  LET stopped == result.failed + result.uncertain
                      IN  /\ result.completed \subseteq applied
                          /\ applied \union pending \subseteq result.completed \union {stopped}
                          /\ result.status = "succeeded" <=> applied = 1 .. Length /\ stopped = 0
                          /\ result.status = "partial" => result.completed # {}
    BY DEF ResultTruthful
  <2>0. /\ op \in Nat /\ op >= 1 /\ ResultExact /\ EffectsInOrder
        /\ 1 .. op - 1 \subseteq applied /\ applied \union pending \subseteq 1 .. op
        /\ 1 .. op = (1 .. op - 1) \union {op}
    BY PlanFields DEF IInv, TypeOK, EffectsInOrder
  <2>1. CASE ending = "returned"
    <3>1. /\ op = Length /\ applied = 1 .. op /\ pending = {}
          /\ result = [status |-> "succeeded", completed |-> 1 .. op, failed |-> 0, uncertain |-> 0]
      BY <2>0, <2>1 DEF ResultExact, EffectsInOrder, NoResult
    <3> QED BY <3>1
  <2>2. CASE ending # "returned"
    <3>1. /\ result.completed = 1 .. op - 1
          /\ result.failed + result.uncertain = op
          /\ result.status # "succeeded"
          /\ result.status = "partial" => op > 1
      BY <2>0, <2>2 DEF ResultExact, StopResult
    <3>2. op > 1 => 1 \in 1 .. op - 1
      BY <2>0
    <3> QED BY <2>0, <3>1, <3>2
  <2> QED BY <2>1, <2>2
<1> QED BY Invariance, <1>1, PTL

-----------------------------------------------------------------------------
(* Refinement of StepSequence *)

\* What the verdict is at each place.
LEMMA VerdictFacts ==
  /\ pc = "raised" => Verdict = "stopped"
  /\ pc # "raised" /\ pc # "returned" =>
       Verdict = IF ending \in {"none", "returned"} THEN "running" ELSE "stopped"
  /\ pc = "returned" => Verdict = IF result.status = "succeeded" THEN "succeeded" ELSE "stopped"
BY DEF Verdict

\* The call of the operation in hand is the abstract attempt of it.
LEMMA AttemptStep ==
  ASSUME IInv, pc = "call", NEW e \in Endings \union {"CancelledError"}, Effect(e),
         Length' = Length, Verdict' = IF e = "returned" THEN "running" ELSE "stopped"
  PROVE  Steps!Attempt(op)
<1>0. /\ op \in 1 .. Length /\ applied = 1 .. op - 1 /\ pending = {} /\ ending = "none"
      /\ Length \in Nat
  BY PlanFields DEF IInv, TypeOK, EffectsInOrder
<1>1. Verdict = "running"
  BY <1>0, VerdictFacts
<1> QED BY <1>0, <1>1, EffectCases DEF Steps!Attempt

\* An execution that ends without a call stops the abstract sequence, or has
\* stopped it before.
LEMMA StopStep ==
  ASSUME Length' = Length, UNCHANGED <<applied, pending>>, Verdict \in {"running", "stopped"},
         Verdict' = "stopped"
  PROVE  [Steps!Next]_Steps!seqVars
BY DEF Steps!Next, Steps!Stop, Steps!seqVars

\* Every step of the execution is a step of the abstract sequence, or none.
LEMMA RefinementStep ==
  ASSUME IInv, IInv', [Next]_vars
  PROVE  [Steps!Next]_Steps!seqVars
<1>0. /\ plan' = plan /\ Length' = Length /\ op \in Operations /\ MaxLength \in Nat
      /\ EffectsInOrder /\ ResultExact /\ EffectsInOrder' /\ ResultExact'
  <2>1. plan' = plan
    BY DEF Next, Execute, HookFailure, Deny, RequireConfirmation, Authorise, Decide, Journal,
       AuditPlanned, CallEnds, NextOperation, Succeed, StopAtFailure, JournalHookRaises,
       AuditHookRaises, Interrupt, Land, Over, vars
  <2> QED BY <2>1, PlanFields, MaxLengthAssumption DEF IInv, Length
<1>1. VerdictFacts!1' /\ VerdictFacts!2' /\ VerdictFacts!3'
  BY VerdictFacts, PTL
<1>2. ASSUME pc' = "raised", pc # "returned", UNCHANGED <<applied, pending>>
      PROVE  [Steps!Next]_Steps!seqVars
  BY <1>0, <1>1, <1>2, VerdictFacts, StopStep
<1>3. CASE Deny \/ RequireConfirmation
  BY <1>2, <1>3 DEF Deny, RequireConfirmation, Decide, Raise
<1>4. ASSUME Verdict' = Verdict, UNCHANGED <<applied, pending>>
      PROVE  [Steps!Next]_Steps!seqVars
  BY <1>0, <1>4 DEF Steps!seqVars
<1>5. CASE Authorise \/ Journal \/ AuditPlanned
  BY <1>1, <1>4, <1>5, VerdictFacts DEF Authorise, Decide, Journal, AuditPlanned, AfterHook
<1>6. ASSUME NEW e \in Endings, CallEnds(e)
      PROVE  [Steps!Next]_Steps!seqVars
  <2>1. Verdict' = IF e = "returned" THEN "running" ELSE "stopped"
    BY <1>1, <1>6, EndingFacts DEF CallEnds
  <2>2. Steps!Attempt(op)
    BY <1>0, <1>6, <2>1, AttemptStep DEF CallEnds
  <2> QED BY <1>0, <2>2 DEF Steps!Next, Operations
<1>7. CASE NextOperation
  BY <1>1, <1>4, <1>7, VerdictFacts DEF NextOperation
<1>8. CASE Succeed
  <2>1. Verdict = "running" /\ applied = 1 .. Length /\ UNCHANGED <<applied, pending>>
    BY <1>0, <1>8, VerdictFacts DEF Succeed, EffectsInOrder
  <2>2. Verdict' = "succeeded"
    BY <1>1, <1>8 DEF Succeed, NoResult
  <2> QED BY <1>0, <2>1, <2>2 DEF Steps!Next, Steps!Succeed
<1>9. CASE StopAtFailure
  <2>1. ending \notin {"none", "returned"} /\ Verdict = "stopped"
    BY <1>0, <1>9, EndingFacts, VerdictFacts DEF StopAtFailure, EffectsInOrder
  <2>2. Verdict' = "stopped"
    BY <1>1, <1>9 DEF StopAtFailure, StopResult
  <2> QED BY <1>4, <1>9, <2>1, <2>2 DEF StopAtFailure
<1>10. CASE JournalHookRaises \/ AuditHookRaises
  BY <1>2, <1>10 DEF JournalHookRaises, AuditHookRaises, Raise
<1>11. CASE Interrupt
  <2>1. CASE pc = "call"
    <3>1. Verdict' = "stopped" /\ Effect("CancelledError")
      BY <1>1, <1>11, <2>1 DEF Interrupt, Raise
    <3>2. Steps!Attempt(op)
      BY <1>0, <2>1, <3>1, AttemptStep, EndingFacts
    <3> QED BY <1>0, <3>2 DEF Steps!Next, Operations
  <2>2. CASE pc # "call"
    BY <1>2, <1>11, <2>2 DEF Interrupt, Raise
  <2> QED BY <2>1, <2>2
<1>12. CASE Land
  <2>1. pending = {op} /\ Verdict' = Verdict
    BY <1>0, <1>1, <1>12, VerdictFacts DEF Land, EffectsInOrder
  <2>2. Steps!Land(op)
    BY <1>0, <1>12, <2>1 DEF Land, Steps!Land
  <2> QED BY <1>0, <2>2 DEF Steps!Next, Operations
<1>13. CASE Over \/ UNCHANGED vars
  BY <1>1, <1>4, <1>13, VerdictFacts DEF Over, vars
<1> QED
  BY <1>3, <1>5, <1>6, <1>7, <1>8, <1>9, <1>10, <1>11, <1>12, <1>13
     DEF Next, Execute, HookFailure

\* Whatever the hooks do and wherever it is cancelled, an execution performs the
\* operations as StepSequence promises.
THEOREM Refinement == Spec => ImplementsStepSequence
<1>1. Init => Steps!Init
  <2> SUFFICES ASSUME Init PROVE Steps!Init
    OBVIOUS
  <2>1. Length \in 1 .. MaxLength
    BY InitIInv, PlanFields DEF IInv
  <2> QED BY <2>1, VerdictFacts DEF Init, Steps!Init
<1>2. Spec => [][Steps!Next]_Steps!seqVars
  <2>1. IInv /\ IInv' /\ [Next]_vars => [Steps!Next]_Steps!seqVars
    BY RefinementStep
  <2> QED BY Invariance, <2>1, PTL DEF Spec
<1> QED BY <1>1, <1>2, PTL DEF Spec, ImplementsStepSequence, Steps!Spec

-----------------------------------------------------------------------------
(* How long an execution can be *)

\* How many steps an execution has left at most: one per operation to authorise
\* it, and five for its records, its call and what comes after.
StepsLeft ==
  CASE pc = "authorise"   -> 6 * Length - op + 1
    [] pc = "plan"        -> 5 * (Length - op) + 5
    [] pc = "planAudit"   -> 5 * (Length - op) + 4
    [] pc = "call"        -> 5 * (Length - op) + 3
    [] pc = "report"      -> 5 * (Length - op) + 2
    [] pc = "reportAudit" -> 5 * (Length - op) + 1
    [] OTHER              -> 0

\* An execution goes nowhere twice: every step brings it closer to its end, but
\* for those of the provider, which it does not notice.
ComesToItsEnd == [][StepsLeft' < StepsLeft \/ (Land /\ UNCHANGED StepsLeft)]_vars

LEMMA StepsLeftNat ==
  ASSUME TypeOK
  PROVE  StepsLeft \in Nat /\ (StepsLeft = 0 <=> pc \in {"returned", "raised"})
<1>1. Length \in Nat /\ op \in 1 .. Length
  BY PlanFields, MaxLengthAssumption DEF TypeOK
<1>2. pc \in {"authorise", "plan", "planAudit", "call", "report", "reportAudit",
              "returned", "raised"}
  BY DEF TypeOK
<1> QED BY <1>1, <1>2 DEF StepsLeft

LEMMA CloserToItsEnd ==
  ASSUME TypeOK, TypeOK', [Next]_vars
  PROVE  \/ StepsLeft' < StepsLeft
         \/ Land /\ UNCHANGED StepsLeft
         \/ UNCHANGED vars
<1>1. /\ Length \in Nat /\ op \in 1 .. Length
      /\ StepsLeft \in Nat /\ (StepsLeft = 0 <=> pc \in {"returned", "raised"})
  BY StepsLeftNat, PlanFields, MaxLengthAssumption DEF TypeOK
<1>2. plan' = plan /\ Length' = Length
  BY DEF Next, Execute, Deny, RequireConfirmation, Authorise, Decide, Journal, AuditPlanned,
         CallEnds, NextOperation, Succeed, StopAtFailure, HookFailure, JournalHookRaises,
         AuditHookRaises, Interrupt, Land, Over, vars, Length
<1>3. CASE Deny \/ RequireConfirmation \/ HookFailure \/ Interrupt
  <2>1. pc' = "raised" /\ pc \notin {"returned", "raised"}
    BY <1>3 DEF Deny, RequireConfirmation, Decide, HookFailure, JournalHookRaises,
                AuditHookRaises, Interrupt, Raise
  <2>2. StepsLeft' = 0
    BY <2>1 DEF StepsLeft
  <2> QED BY <1>1, <2>1, <2>2
<1>4. CASE Authorise
  BY <1>1, <1>2, <1>4 DEF Authorise, Decide, StepsLeft
<1>5. CASE Journal \/ AuditPlanned \/ \E e \in Endings : CallEnds(e)
  BY <1>1, <1>2, <1>5 DEF Journal, AuditPlanned, AfterHook, CallEnds, StepsLeft
<1>6. CASE NextOperation
  BY <1>1, <1>2, <1>6 DEF NextOperation, StepsLeft
<1>7. CASE Succeed \/ StopAtFailure
  BY <1>1, <1>2, <1>7 DEF Succeed, StopAtFailure, StepsLeft
<1>8. CASE Land
  BY <1>2, <1>8 DEF Land, StepsLeft
<1>9. CASE Over \/ UNCHANGED vars
  BY <1>9 DEF Over
<1> QED BY <1>3, <1>4, <1>5, <1>6, <1>7, <1>8, <1>9 DEF Next, Execute

\* Whatever the policy, the hooks and the calls do, an execution makes at most six
\* steps per operation: what ExecutionEnds needs besides each of them being made.
THEOREM BoundedExecution ==
  Spec => /\ [](StepsLeft \in 0 .. 6 * Length)
          /\ ComesToItsEnd
<1>1. TypeOK => StepsLeft \in 0 .. 6 * Length
  <2> SUFFICES ASSUME TypeOK
               PROVE  StepsLeft \in 0 .. 6 * Length
    OBVIOUS
  <2>1. Length \in Nat /\ op \in 1 .. Length /\ StepsLeft \in Nat
    BY StepsLeftNat, PlanFields, MaxLengthAssumption DEF TypeOK
  <2> QED BY <2>1 DEF StepsLeft
<1>2. TypeOK /\ TypeOK' /\ [Next]_vars =>
        [StepsLeft' < StepsLeft \/ (Land /\ UNCHANGED StepsLeft)]_vars
  BY CloserToItsEnd
<1> QED BY TypeCorrect, <1>1, <1>2, PTL DEF Spec, ComesToItsEnd
=============================================================================
