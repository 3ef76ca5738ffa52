-------------------------- MODULE ServerProvision ---------------------------
(***************************************************************************)
(* The plan of Workflows.provision_server / AsyncWorkflows.provision_server*)
(* (src/src/questblue/simple/_workflows.py).  Its calls share one cell,    *)
(* state["server_id"], which the create call writes and the settings read. *)
(* The plan owns the cell, not an execution: executing the plan again, or  *)
(* twice at a time from tasks or threads, goes through the same cell.      *)
(* Workflow says how one execution runs; here are the calls of several.    *)
(***************************************************************************)
EXTENDS Integers, FiniteSets

CONSTANTS
  Executions,   \* the executions of the plan
  Servers       \* the identifiers the provider gives to new servers

VARIABLES
  wanted,       \* the optional settings the plan has
  met,          \* history: <<e, f>> when executions e and f have run at the same time
  pc,           \* the call each execution is at
  cell,         \* {s} once state["server_id"] is s, {} before
  created,      \* <<e, s>>: the provider created s for execution e
  settings,     \* <<e, o, s>>: it performed setting o of execution e on s
  late,         \* the settings it may still perform
  verdict       \* how each execution ended, "none" before that

vars == <<wanted, met, pc, cell, created, settings, late, verdict>>

-----------------------------------------------------------------------------
Settings == {"add_ip", "schedule"}

Places == {"idle", "create", "created", "done"} \union Settings

Running(e) == pc[e] \notin {"idle", "done"}

ServersOf(e) == {s \in Servers : <<e, s>> \in created}

Init ==
  /\ wanted \in SUBSET Settings
  /\ met = {}
  /\ pc = [e \in Executions |-> "idle"]
  /\ cell = {}
  /\ created = {}
  /\ settings = {}
  /\ late = {}
  /\ verdict = [e \in Executions |-> "none"]

\* An execution, and those that ran while it did.
Company(e) == {f \in Executions : f = e \/ <<e, f>> \in met}

Start(e) ==
  /\ pc[e] = "idle"
  /\ met' = met \union {x \in Executions \X Executions :
                         (x[1] = e /\ Running(x[2])) \/ (x[2] = e /\ Running(x[1]))}
  /\ pc' = [pc EXCEPT ![e] = "create"]
  /\ UNCHANGED <<wanted, cell, created, settings, late, verdict>>

\* Bug: the schedule is forgotten when there is an address too.
NextCallSkippingSchedule(place) ==
  CASE place = "created" /\ "add_ip" \in wanted   -> "add_ip"
    [] place = "created" /\ wanted = {"schedule"} -> "schedule"
    [] OTHER                                          -> "done"

\* The call after the one at place, in the order the builder appends them.
NextCall(place) ==
  IF place = "created" /\ "add_ip" \in wanted THEN "add_ip"
  ELSE IF place # "schedule" /\ "schedule" \in wanted THEN "schedule"
  ELSE "done"

\* Execution e goes on after a call that succeeded.
Advance(e) ==
  /\ pc' = [pc EXCEPT ![e] = NextCall(pc[e])]
  /\ verdict' = IF NextCall(pc[e]) = "done" THEN [verdict EXCEPT ![e] = "succeeded"] ELSE verdict

\* Bug: a create that did not surely succeed is made again.
StopOrCreateAgain(e) ==
  IF pc[e] = "create"
    THEN UNCHANGED <<pc, verdict>>
    ELSE /\ pc' = [pc EXCEPT ![e] = "done"]
         /\ verdict' = [verdict EXCEPT ![e] = "stopped"]

\* Bug: a setting that did not surely succeed is requested again.
StopOrSetAgain(e) ==
  IF pc[e] \in Settings
    THEN UNCHANGED <<pc, verdict>>
    ELSE /\ pc' = [pc EXCEPT ![e] = "done"]
         /\ verdict' = [verdict EXCEPT ![e] = "stopped"]

\* Execution e goes no further.
Stop(e) ==
  /\ pc' = [pc EXCEPT ![e] = "done"]
  /\ verdict' = [verdict EXCEPT ![e] = "stopped"]

-----------------------------------------------------------------------------
Fresh(s) == \A e \in Executions : <<e, s>> \notin created

\* The provider creates a server; its reply is on the way.
Create(e, s) ==
  /\ pc[e] = "create"
  /\ Fresh(s)
  /\ created' = created \union {<<e, s>>}
  /\ pc' = [pc EXCEPT ![e] = "created"]
  /\ UNCHANGED <<wanted, met, cell, settings, late, verdict>>

\* Bug: an identifier already in the cell is kept.
StoreFirst(e) == cell' = IF cell = {} THEN ServersOf(e) ELSE cell

\* Bug: the identifier is returned and not kept.
StoreNothing(e) == UNCHANGED cell

Store(e) == cell' = ServersOf(e)

\* The reply arrives: create() keeps the identifier and returns.
CreateReturns(e) ==
  /\ pc[e] = "created"
  /\ Store(e)
  /\ Advance(e)
  /\ UNCHANGED <<wanted, met, created, settings, late>>

\* The create ends with an exception, or is cancelled: refused, or in doubt and
\* performed all the same (when exactly makes no difference to the cell).
CreateStops(e) ==
  /\ pc[e] = "create"
  /\ \/ UNCHANGED created
     \/ \E s \in Servers : Fresh(s) /\ created' = created \union {<<e, s>>}
  /\ Stop(e)
  /\ UNCHANGED <<wanted, met, cell, settings, late>>

\* The reply is lost, or the execution cancelled before it is handled.
CreateReplyLost(e) ==
  /\ pc[e] = "created"
  /\ Stop(e)
  /\ UNCHANGED <<wanted, met, cell, created, settings, late>>

\* A setting is requested for the server the cell names at that moment.
SettingReturns(e) ==
  /\ pc[e] \in Settings
  /\ \E s \in cell : settings' = settings \union {<<e, pc[e], s>>}
  /\ Advance(e)
  /\ UNCHANGED <<wanted, met, cell, created, late>>

SettingStops(e) ==
  /\ pc[e] \in Settings
  /\ \E s \in cell :
       \/ UNCHANGED <<settings, late>>
       \/ settings' = settings \union {<<e, pc[e], s>>} /\ UNCHANGED late
       \/ late' = late \union {<<e, pc[e], s>>} /\ UNCHANGED settings
  /\ Stop(e)
  /\ UNCHANGED <<wanted, met, cell, created>>

\* The provider performs a setting whose call is long over.
Land(x) ==
  /\ settings' = settings \union {x}
  /\ late' = late \ {x}
  /\ UNCHANGED <<wanted, met, pc, cell, created, verdict>>

Execute(e) ==
  \/ Start(e)
  \/ \E s \in Servers : Create(e, s)
  \/ CreateReturns(e) \/ CreateStops(e) \/ CreateReplyLost(e)
  \/ SettingReturns(e) \/ SettingStops(e)

Over == (\A e \in Executions : pc[e] = "done") /\ UNCHANGED vars

Next == (\E e \in Executions : Execute(e)) \/ (\E x \in late : Land(x)) \/ Over

Spec == Init /\ [][Next]_vars

-----------------------------------------------------------------------------
(* Properties *)

\* Every variable stays in its range; only wanted settings are called.
TypeOK ==
  /\ wanted \subseteq Settings
  /\ met \subseteq Executions \X Executions
  /\ pc \in [Executions -> Places \ (Settings \ wanted)]
  /\ cell \subseteq Servers
  /\ created \subseteq Executions \X Servers
  /\ settings \subseteq Executions \X Settings \X Servers
  /\ late \subseteq Executions \X Settings \X Servers
  /\ verdict \in [Executions -> {"none", "succeeded", "stopped"}]

\* However executions overlap, fail and start again, no setting is called with
\* the cell still empty (a KeyError in the code), and the cell names one server
\* that this plan created.
CellReady ==
  /\ \A e \in Executions : pc[e] \in Settings => cell # {}
  /\ cell # {} => \E e \in Executions : cell = ServersOf(e)
  /\ \A s, t \in cell : s = t

\* Every setting goes to the server of the execution that requests it or of one
\* that ran at the same time, whatever failed, was cancelled or lands late: so an
\* application that executes the plan again only when the execution before has
\* ended configures, in each execution, the server that execution created, and
\* what overlapping executions mix up stays among them.
OnlyOverlapsMix ==
  \A x \in settings \union late : \E f \in Company(x[1]) : <<f, x[3]>> \in created

\* And an execution that reports success has created a server and had every
\* setting of the plan performed: on that server, unless others ran meanwhile.
SuccessIsComplete ==
  \A e \in Executions : verdict[e] = "succeeded" =>
    /\ ServersOf(e) # {}
    /\ \A o \in wanted : \E f \in Company(e) : \E s \in ServersOf(f) : <<e, o, s>> \in settings

\* One execution is charged for one server at most, also when its create ends
\* in doubt.
OneServerPerExecution ==
  \A e \in Executions : \A s, t \in ServersOf(e) : s = t

-----------------------------------------------------------------------------
(* What the provider sees of one execution *)

\* The calls in order: the create, then the settings the plan wants.
CallOf(o) == IF o = "schedule" /\ "add_ip" \in wanted THEN 3 ELSE 2

\* The settings among some that execution e has requested, by their call.
CallsOf(e, some) == {CallOf(o) : o \in {o \in Settings : \E s \in Servers : <<e, o, s>> \in some}}

Performed(e) == {k \in {1} : ServersOf(e) # {}} \union CallsOf(e, settings)

Sequence(e) == INSTANCE StepSequence WITH
  MaxLength <- 3,
  length    <- 1 + Cardinality(wanted),
  applied   <- Performed(e),
  pending   <- CallsOf(e, late),
  verdict   <- IF verdict[e] = "none" THEN "running" ELSE verdict[e]

\* Whatever the executions of a plan do to the cell they share, the calls of each
\* of them reach the provider in order, each once, none after one that stopped the
\* execution, and only the last one late.
EachImplementsStepSequence ==
  /\ \A e \in Executions : Sequence(e)!Init
  /\ [][\A e \in Executions : [Sequence(e)!Next]_(Sequence(e)!seqVars)]_vars
=============================================================================
