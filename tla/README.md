# pyquestblue in TLA+

pyquestblue is a Python SDK for the QuestBlue telephony API: a synchronous and
an asynchronous HTTP client with retries and telemetry, one typed resource per
API area, and on top of them a "simple" API that takes primitive inputs, asks
for confirmations, reads whole collections and executes multi-step workflow
plans with policy, journal and audit hooks. Most of what it asks the provider
to do costs money or changes routing, and the provider documents no idempotency
keys. So what makes this code correct is mostly *when* a request goes out, how
often, and whether what the caller is told afterwards agrees with what the
provider did. That is what these modules model.

Paths below are relative to the repository (`src/src/questblue/` is the package).

## 1. Inventory

| component | state it keeps | operations | who it talks to |
|---|---|---|---|
| transport: `_client.py`, `transport.py`, `_exceptions.py` | of a call: attempt, total attempts, reply, backoff; of the client: the httpx client, who owns it, whether it is closed | `request` (sync and async), `close` | httpx, the transport hook |
| typed resources: `_resources.py` | none | 103 methods, in a sync and an async class each: one request, one model; `DIDs.pages`, `InternationalDIDs.pages`, `iter_call_history`, `iter_fax_history` | transport |
| typed models: `did.py`, `fax.py`, ... | none | validation; the functions that read a reply; `next_page` of the paged responses | |
| paginators: `pagination.py`, `models.py` | requested page, pages seen | `pages`, iteration | any page fetcher |
| simple API, reading: `simple/_read.py` | position in a collection, poll count of a delivery wait | listings, lookups, `wait_for_delivery`, the sending methods | typed resources |
| simple API, changing: `simple/_provision.py`, `simple/_normalizers.py`, `simple/_errors.py` | position in the requests of a call, warnings so far | 33 methods, each with a risk, a confirmation and (most) a dry run | typed resources |
| workflows: `simple/_workflows.py`, `simple/_integration.py`, `simple/_results.py` | of an execution: operation in hand, steps, identifiers; of a plan: the dictionary its calls share | six builders, `execute` (sync and async) | simple API, policy, journal and audit hooks |
| facade: `simple/_client.py` | the typed client and whether it is owned | construct, `wrap`, `close` | typed client |
| webhooks: `webhooks.py`, `integrations/` | none | `parse_webhook`, the Django and FastAPI adapters | the application's verifier |
| contract pin: `src/scripts/update_openapi.py` | pinned document and its metadata on disk | check, update | documentation site, file system |
| other scripts: `src/scripts/` | none | read files and compare | file system |

How they interact. An application calls the simple API or a plan; a plan calls
the simple API once per operation, between calls of the hooks; the simple API
calls typed resources; each of these makes one `request`. A request ends with a
value or with one of the exceptions of `CallOutcomes`, and everything above the
transport sees only that ending. The provider is outside: a request may reach
it, and be performed, long after the call that sent it is over.

What is hard here:

- *lost and late effects*: a timeout, a lost connection, a 5xx or a cancellation
  says nothing about whether the provider acted;
- *retries*: a read may be repeated, a mutation may not;
- *cancellation* of the asynchronous client at any await, and the end of the
  process between two hooks;
- *partial failure* of plans and of methods with several requests;
- *order*: authorise all, then journal, audit, perform, journal, audit;
  normalise and confirm before any I/O;
- *shared state*: a plan that is executed twice, at the same time or again;
- *callbacks*: the provider documents no signature, no event id and no order, and
  may deliver again whatever was not answered;
- *foreign data*: page counts, page numbers and Retry-After values come from the
  provider, and loops and sleeps depend on them.

What makes each component correct:

- transport: a mutation reaches the provider at most once; an ending never
  contradicts the provider; every attempt has one closing event; sleeps are
  bounded; a call ends;
- typed methods: whatever changes something has a verb that is sent once; the
  result, a warning and an unusable body included, never contradicts the provider;
- workflows: nothing is performed before the whole plan is authorised; whatever
  interrupts an execution, its journal or audit trail leaves at most one
  operation open; a result is true; operations take effect in order, each once;
- the server plan: an execution configures the server it created, and what
  overlapping executions mix up stays among them;
- collections: nothing missing and nothing twice when the provider tells the
  truth, a bounded number of requests when it does not, a warning is not an end;
- mutating methods: confirmation before I/O, requests in order, a return means
  that all of it was done, a refused argument that at most uploads were;
- webhooks: nothing unverified gets through, nothing acknowledged is lost, a
  repeat is recognised, what the provider adds is not refused;
- facades and waits: a borrower never closes what it borrowed, so a wait loses
  its client only to the holder of what created it; a wait tells the final
  status or that it used all its attempts, and ends.

## 2. Modules

| module | what it is | state and actions, in the terms of the code |
|---|---|---|
| `CallOutcomes` | the endings of one call | the exceptions of `_exceptions.py`, plus `CancelledError` and the `RuntimeError` of a closed httpx client. `Confirmed`, `InDoubt` and `Refused` say what an ending tells about the provider, `Fates` and `FatesOf` what may have become of a change |
| `RemoteCall` | abstract call | the provider executes, a mutation at most once; the call ends once, truthfully |
| `ChangeCall` | abstract change | a call for one change as the code above it sees it: it ends once, and what has become of the change (untouched, still possible, performed) is one of the `Fates` its ending leaves open |
| `Transport` | one `request()` | `pc` is the place in the retry loop: `ready` (loop head), `waiting` (in httpx), `backoff` (in sleep). `posted`, `executed` and `reply` are the network and the provider. An `except` clause or status branch is an action; `CancelWaiting` and `CancelBackoff` are the two kinds of await of the asynchronous client; `Close` is the owner's `close()` |
| `Resources` | the typed methods and the readers of replies | no state: one row per method (verb, whether it changes something, who makes the request model, which reader), one table per class; an operator per `parse_..._response` |
| `ResourceCall` | one call of a typed method | extends `Transport`: `stage` is `build` (request model), `request` (inside `request()`), `done`; `RunRequest` is a step of the loop underneath, `ReadBody` the reader on any body. `Direct` is a call of `request()` by the application itself |
| `StepSequence` | abstract execution | the operations of a plan, the calls of one execution of the server plan, or the requests of a method, take effect in order, each once, the last one perhaps late |
| `Workflow` | one `execute()` | `pc`: `authorise` (first loop), then per operation `plan`, `planAudit`, `call`, `report`, `reportAudit` for the four hook calls and the call between them. `Interrupt` is a BaseException or the end of the process anywhere; the two `HookRaises` actions are hooks that raise before or after they persisted the record |
| `ServerProvision` | several executions of one `provision_server` plan | `cell` is `state["server_id"]`; `pc[e]` is the call execution `e` is at; `met` is a history of which executions ran at the same time, and `Company(e)` those that ran while `e` did. `Performed(e)` and `CallsOf` are the calls of one execution as the provider sees them |
| `Pagination` | one iteration over a collection | `helper.kind` names the kinds of loop, and the lists that read one page; `provider` says what the provider reports and whether it is truthful; `Grow` and `Remove` are other users adding and removing items, `Abandon` a consumer that leaves the iterator |
| `SimpleCall` | one call of a mutating method | the tables list every method with its risk, its checks and its requests; `step` is the request in hand; `warned` and `unnamed` are the replies that decide between returning and raising |
| `WorkflowCalls` | an application that calls a method itself (`direct`) or runs one `execute()` whose calls are `SimpleCall`s | `stage` is the `pc` of `Workflow`, `call` and `pc` are the method in hand and the place in it. `BesideCalls` are the hooks of `Workflow`; `CallGoesOn`, `CallReturns` and `InterruptCall` are the steps of the method and what `execute` sees of them; `Account` says that an operation is performed by the last request of its method; `EndingSeen` has the assertion of the server plan about the result of its create |
| `Builders` | the plans of the builders | no state: operations and risks, used by the instances of `Workflow` and `SimpleCall` |
| `Facade` | facades, typed and httpx clients, delivery waits | `setup` says who wraps and who was given what (`_owns_raw`, `_owns_client`); a client bears the name of the object that creates it; `ended` holds the objects whose `close()` was called, `closed` the httpx clients that are closed; `pc[f]` is the place in `wait_for_delivery`. `Deliver` is the provider; `Broken` is the `RuntimeError` of a closed httpx client |
| `Webhook` | deliveries of callbacks and their handlers | `setup` is how the application calls the SDK (adapter or `parse_webhook`, verifier, forced kind) and what it does with the fingerprint; `stage[d]` is the place of the handler of delivery `d`; `queue` is what was enqueued durably. `Parse` and the `Refuse...` actions are `parse_webhook`; `LookUp`, `Enqueue`, `Acknowledge` are the receiver of `docs/integrations.md`; `Die` is a handler, or all of them, ending anywhere |
| `Inbox` | abstract receiver | deliveries are kept and answered: the inbox only grows, success is answered only for an event that is in it |
| `PinnedContract` | abstract pin | one document, none, or damaged; a run reports truly how what it loaded relates to the pin, or replaces it |
| `ContractPin` | runs of `update_openapi.py`, one after the other | `stored` and `torn` are the files with whole and with cut-off content, `metadata` is the document the metadata names; `pc` is the place in `update_contract`; `Kill` can come anywhere, `LoadFails`, `ReadFails` and `WriteFails` where files and replies are handled |
| `MC...` | instances for TLC | values of the constants, symmetry, assumptions evaluated by TLC |
| `...Proofs` | theorems | see section 5 |

How they fit together. `Transport` produces the endings of `CallOutcomes`,
`ResourceCall` composes it with the typed methods, `SimpleCall` makes one or more
typed calls, and `WorkflowCalls` executes plans of them. The joints are abstract
specifications, and each is checked and proved from both sides:

- what `ResourceCall` may end with, and what has then become of the change, is
  `ChangeCall` (`ImplementsChangeCall`), and a request of `SimpleCall` draws its
  fate from the same operator, `Fates`, with the same endings: so the retry loop
  is explored once, and the modules above do not repeat it;
- the requests inside a `SimpleCall` implement `StepSequence`
  (`RequestsInOrder`), and the method as a whole is one change again
  (`ImplementsChangeCall` of `SimpleCall`), whose endings are those of a call of
  `Workflow`, and whose fates are those `Effect` draws from;
- with the methods in the place of the abstract calls, `WorkflowCalls` implements
  `Workflow` (`ImplementsWorkflow`), which implements `StepSequence`;
- each execution of a server plan implements `StepSequence` by itself
  (`EachImplementsStepSequence`), whatever the others do to the cell they share.

Two more components are compared with what those outside need of them:
`Webhook` with `Inbox` (`ImplementsInbox`), which knows no verifier, fingerprint or
handler, and `ContractPin` with `PinnedContract` (`ImplementsPinnedContract`), which
knows no files.

That an operation was performed means, for one that uploads files, that its last
request was, the send: uploads alone deliver nothing. `Workflow` has
the control of an execution and one abstract call per operation;
`ServerProvision` has the calls of a plan and abstracts the hooks; `SimpleCall`
has the inside of one operation. `Facade` has many callers over shared clients and
one abstract request per poll, which fails when the client is closed, as
`Transport` shows. `MCWorkflow` and `MCWorkflowCalls` execute the plans of `Builders`, and
`MCWorkflowCalls` checks, as an assumption, that the operations the builders put into
plans carry the risk the methods they call ask a confirmation for, and say which of
them upload: a plan passes `confirm_...=True` in its caller's name.

Data is abstracted to what the properties tell apart: an argument is valid or
not (`flaw`, `invalid`), a reply has a status, a Retry-After and a body that can
be decoded or not, a page is a set of item numbers, a body has a shape and is accepted by a model or not, a
fingerprint is the text and the content it is taken of (collisions of SHA-256 are
left out). A `Bug:` comment marks the
definitions that exist to be put in the place of the one after them; they are
the mutants of `PROJECT.json`, one for each property, and no specification
uses them.

The provider is the external part. What the models assume of it: a status below
400 other than 206 means the request was performed; 206 and 4xx mean it was not;
5xx says nothing; it performs a request it received at most once, at any time.
A body that reports an error under a 2xx status (which `lnp.py` raises for) is an
answer to a performed request too.
In `Pagination` it is either truthful, reporting any subset of the optional
fields and using any page size up to the requested one, or it answers nonsense in
each of them: numbers of pages and items, a page size and a current page that are
small, large, or contradict each other and the items.

## 3. Runs

| run | bounds | distinct states | what it shows |
|---|---|---|---|
| `transport` (`MCResourceCall`) | up to 2 retries (and -1 for direct calls), four verbs, six statuses, Retry-After on both sides of both clamps, one typed method of every combination of verb, reader and way to make the request, every body | 228,290 | changes at most once, truthful endings, event protocol, bounded backoff, termination, refinement of `RemoteCall` and, for typed methods, of `ChangeCall` |
| `workflow` | the six plans of the builders, all / one / no confirmations, every combination of hooks, every position of an invalid argument | 204,280 | authorisation first, journal and audit bracket every effect, results are true, termination, refinement of `StepSequence` |
| `server_provision` | 3 executions, 3 servers, every subset of settings, overlapping or in turns | 14,261 (with symmetry) | the cell is never read empty; a setting goes to the server of its execution or of one that ran at the same time; success is complete; one server per execution; the calls of each execution in order, each once (refinement of `StepSequence`) |
| `pagination` | up to 4 items, 2 removals, pages of 1 or 2, `max_pages` 3, page numbers up to 5 | 586,678 | completeness while the collection grows and shrinks, exact `max_pages`, request budget, termination |
| `simple_calls` (`MCWorkflowCalls`) | all 33 methods called by the application; the six plans of the builders, all or only billable confirmed, with one method of each risk and shape they call; faxes of up to 3 files | 219,163 | consent before I/O, requests in order, whole faxes, truthful returns, what a refused argument leaves behind; no request before authorisation and record, no recorded success that is not whole, refinement of `Workflow` |
| `webhook` | 2 deliveries, 11 bodies (equal, or different in a field, published or not, in the text, in shape, unreadable, untrusted), every setup | 312,668 (with symmetry) | verification, forward compatibility; nothing acknowledged is lost, nothing refused is kept, repeats are queued once (refinement of `Inbox`) |
| `facade` | 2 facades that own, share or are given their clients in every way, waits of up to 2 attempts | 202,752 | a close disturbs no borrower, waits are truthful and end |
| `contract_pin` | four documents in three versions, two of them in one | 6,749 | an update to another version keeps a whole pin; whatever killed runs left behind, reports are true of the pin, and a damaged one is neither taken for a pin nor written over (refinement of `PinnedContract`) |

and one violation run per finding (section 4).

Why the bounds are enough. *Transport*: two retries have a first, a middle and a
last attempt, and a late effect of each can meet each later one; the statuses
hold one of every class that a branch tells apart. The typed methods that share verb,
reader and request model behave alike, so one of each is enough; the proofs take
all of them, and that there are 103, the number `docs/white-label.md` gives, is an
assumption TLC evaluates. The backoff table is compared with
the formula of the code on 0..10 by an assumption. *Workflow*: the plans are the
ones the package builds, the longest with four operations; a plan with a first,
a middle and a last operation has every place a stop can be at. *ServerProvision*:
an execution interferes with another through the cell only, so two show the
interference, and the third comes before, between or after them: with three, "ran at
the same time" is not transitive, and what two mix up must not reach the third.
*Pagination*: four items on pages of one or two make last pages that are full,
short and empty, and one, two, four and five pages against a maximum of three; the
second removal meets the first on the same page, on the next, or on one read before.
*Webhook*: a duplicate and a race need two deliveries, and the proofs take any
number. *WorkflowCalls*: the calls of an application are independent, and three files have a
first, a middle and a last upload; the methods a plan calls differ for it in risk and in
whether they upload, so one of each is enough; what the confirmations and the policy can
do is in `workflow`. *ContractPin*: two documents of one version rewrite a
file, two other versions move on and come back; the number of runs is not
bounded. *Facade*: two facades have every relation that ownership can make between
them (their own clients, one typed client, one httpx client under two typed
clients), and two attempts have a sleep between them and a last without.
Symmetry is used in `server_provision`, where
executions and servers are interchangeable, and in `webhook`, where deliveries are.
The refinements these two runs check say the same of every execution and of every
delivery, step by step, and no liveness; so symmetry is sound for them. No run
switches the deadlock check off: an `Over` or `Ended` action marks the states
where the code has really stopped.

Fairness. `ResourceCall`: weak fairness of the method and the synchronous loop
under it. httpx puts a
finite timeout on every call (60 seconds by default), so `waiting` ends even
when no reply comes, and sleeps end; nothing is assumed of the provider, of
cancellation or of close. `Workflow`, `Pagination`: weak fairness
of the code's own steps, which rests on `MethodReturns` of `ResourceCall`; hooks are
assumed to return or raise, and a consumer of an iterator to ask for the next
item unless it leaves it. `Facade`: weak fairness of each wait, for requests and sleeps end;
messages need not be delivered, and nobody needs to close anything.
`Interrupt`, `Land`, `Abandon`, `Grow`, `Remove`, `Deliver`, `Cancel` and every close are never fair.

`Terminates` of `Pagination` says of the unbounded loops only what is true of
them: they end when the provider reports `current_page` and `total_pages`
truthfully. `Complete` counts what is missing against what was removed while the
helper read: offset pages can do no better. A provider that leaves out `current_page` keeps the inventory loops
on page 2, because the models' default is 1; `Informed` states that precondition.

## 4. Findings

Each is a run that checks one sentence of the documentation and finds a
counterexample in what the code does.

1. `workflow_dead_letter`: `execute` treats only `QuestBlueTimeoutError` as
   uncertain (`simple/_workflows.py:125`). A connection that broke after the
   request was sent, a 5xx, and even a 2xx whose body cannot be decoded end as
   `FAILED` with `handoff="dead-letter"`. `docs/framework-recipes.md:87` says an
   uncertain mutation uses `handoff="reconcile"`.
2. `workflow_cancelled`: the asynchronous `execute` catches `Exception`, so a
   cancellation at the awaited call leaves the journal with the entry before the
   call only (`:259`). `docs/adr/0002-simple-api-contract.md:114` promises an
   entry before and after each call, `:129` cancellation safety. What does hold,
   and is proved, is `JournalBracketsEffects`: at most one operation is open.
3. `workflow_invalid_input`: the builders normalise inside the calls (`:385`), so
   a malformed argument of a later operation is refused after the earlier ones
   were performed; the ADR, line 93, says before network I/O. An enterprise fax
   breaks the same sentence: its two numbers are normalised after the uploads
   (`simple/_read.py:749`). `RefusedLeavesUploadsOnly` of `SimpleCall` shows that
   uploads are all that such a call leaves behind.
4. `pagination_warning`: call and fax history return at a `WarningResponse`
   (`_resources.py:1358`), so `ReportReads` gives back a truncated collection as
   a whole one; the ADR, line 88, says a warning raises.

The lists that read one page only (`voice.trunks`, `voice.blocked_callers`,
`messages.numbers`, `messages.history`, `enterprise_fax.list`, `dlc.brands`,
`dlc.campaigns`, `porting.list`, `servers.list`) are the kind `page` of `Pagination`: what they
promise there is that one page. The responses of most of them have a `next_page`
that the lists do not look at (`SIPTrunkInventoryResponse`, `SMSInventoryResponse`,
`SMSHistoryResponse`, `EnterpriseFaxInventoryResponse`, `BrandListResponse`,
`CampaignListResponse`, `LNPListResponse`); `BlockedCallersResponse` and
`ServerListResponse` have none. `docs/simple-api.md` can be read as saying more.

## 5. Proofs

The theorems hold for every value of the constants: any number of retries,
statuses and header values, plans of any length, any number of executions and
servers, any number of files, any collection and `max_pages`, any number of
facades, attempts and deliveries, every typed method. They rest on the
named assumptions of the modules only (types and positivity of the constants),
which TLC evaluates in every run.

Each proof module has an inductive invariant `IInv`, three facts (`Init => IInv`,
one lemma per action or group of actions, `IInv => property`), and temporal
theorems that combine them.

- `TransportProofs`. `TypeOK` and the properties are not inductive: that an
  attempt to come has not been posted is what makes a retry harmless, and that
  the reply in hand belongs to the attempt in hand is what makes an ending
  truthful. `IInv` ties `pc` to what may have been posted and executed, and to
  the sum of the sleeps. From it: `TypeCorrect`, `AtMostOnce`, `Honest`,
  `BoundedBackoff`, and `Refinement`, which maps every step to a step or a
  stutter of `RemoteCall`. `EInv` adds what the last event says at each place of
  the loop, and gives `WellFormedTelemetry` and `OutcomeReported` (`EndingReported`).
  A behaviour of `ResourceCall` is one of `Transport` (`TypedIsTransport`), so all
  of this holds under every typed method; `TInv` ties the stage of the method to
  the place in the loop, and with `TablesSound`, a fact about every row of the tables,
  gives `TypedHonest`, `ChangesOnce` and `TypedRefinement` of `ChangeCall`. `NoWarningLost` is about every reader and
  every body.
- `WorkflowProofs`. `IInv` gives, for each place in `execute`, exactly what the
  provider has (a prefix, with at most the operation in hand in doubt) and what
  each hook persisted. From it: `TypeCorrect`, `FullAuthorisation`,
  `JournalBrackets`, `AuditBrackets`, `AuditFollows`, `ResultsTruthful`, and
  `Refinement` of `StepSequence`.
- `ServerProvisionProofs`. The cell may change between the create of an execution
  and its settings, so `IInv` says whose server it can name at each place: one
  created by an execution that ran at the same time (`CellOfCompany`, with
  `RunnersMet`: executions that run together have met). What is known of the company
  of an execution only grows (`KnowledgeKept`). From it the type invariant and the
  four safety invariants, among them `Mixing` and `Complete`, which for executions
  that take turns say that each configures the server it created. `CInv` adds which
  settings an execution has requested at each place, and that what may still land is
  the last call of an execution that has stopped. From it `Refinement`, of
  `StepSequence` by each execution: settings are a set to the plan and a sequence to
  the provider, so the proof counts them (`LengthOfPlan`) and places each
  (`PerformedByPlace`, `OneMore`). One execution's steps are nothing to the sequences
  of the others (`OthersSequence`).
- `SimpleCallProofs`. Inside the requests exactly `1 .. step - 1` are performed
  and nothing is pending; a call of an upload method goes on only without
  warnings. From it the five safety properties, `SequenceRefinement` and
  `ChangeRefinement`: a request sent is the attempt of the abstract operation, and
  whatever ends a method before its last request leaves the change unmade and says
  so (`EarlyEnd`, `FinishStep`). The second half is about `WorkflowCalls`. Its
  invariant, `CInv`, adds to `IInv` of the method in hand, while a plan is executed
  (`PInv`), whose method it is at each place of `execute` (`CallInHand`), what was
  authorised and recorded before it (`BeforeCall`), that a success on record is of a
  method that has returned (`RecordsOfSteps`), and that what `execute` may still see
  done is what the method left in doubt (`DoubtOfCall`: so a late request lands in
  `Workflow` too). From it `Authorised`, `WholeSuccess` and `WorkflowRefinement`; in
  the last, `ChangeStep`, the step lemma of `ChangeRefinement`, gives the effect of
  the abstract call. `CallsAsPromised` and `CallsInOrder` say that what is proved of a
  method holds of every call an application or a plan makes. The theorems of
  `WorkflowProofs` hold of executions whose methods run request by request, for any
  plans and any number of files: `ExecutionIsProved` maps such an execution to the
  specification they are about (the instance `Proved`), and `CallsAuthorisedInFull`,
  `CallsBracketed` and `CallsResultsTruthful` carry the first loop, the records and
  the results over. Nothing is proved again there.
- `ContractPinProofs`. A run that goes on after reading has seen a whole pin or
  none, and a whole document is never in a cut file; from it `TrueReports` and
  `KeepsAPin`. `WritingInv` says that while a run writes, the metadata names what it
  named when the run compared, until it is cut. So the one document `Pin` sees changes
  only with the first write that touches its file and with the last (`WritePin`),
  and every other step leaves it as it is (`QuietPin`): `Refinement` of
  `PinnedContract`. `DamageStays` is the reverse of it: once the pin is damaged and
  nobody is writing, no run changes the files. Documents, versions and file names are arbitrary, but `metadata` is
  no version.
- `FacadeProofs`. A closed client bears the name of an object whose holder closed
  it, and a wait that asks has an attempt left and has heard nothing final; from it
  `TypeCorrect`, `Undisturbed` and `Truthful`.
- `PaginationProofs`. The pages fetched are finite in number, and a paginator
  has not asked again; from it `Budget`. For a
  helper that is told the truth, `CInv` (theorem `InOrder`) says that it has fetched
  exactly the pages before the one it requests next, that what it yielded and is
  still there lies on those pages, and that the items it missed on them are no more
  than the removals: a removal moves every item behind it one place forward, so at
  most one item crosses the boundary of the pages read (`RemoveComplete`), while an
  item added comes behind all others (`GrowComplete`). The lemmas before it are
  about division (`PagesOf`) and about places: each item has one, no two share one,
  and a page is short only if it is the last. From it `WholeCollection` and
  `ExactBound`, for any collection, page size and number of removals.
- `WebhookProofs`. A handler past `parse_webhook` was accepted, one that enqueued
  has its envelope in the queue, one that acknowledged has its fingerprint there,
  and where looking up and enqueueing cannot be separated a fingerprint is there
  once. From it `Earned`, `Kept`, `Once` and `Compatible`. `KeptByHandler` adds that
  what is in the queue was put there by its own handler; with `SeenIsDuplicate` (a
  fingerprint is in the queue exactly if a delivery of the same event is) it gives
  `Refinement` of `Inbox`.

Proved and not run again: the type invariants, and properties that follow from
ones the runs check: `MutationAtMostOnce` (from `ImplementsRemoteCall`),
`TypedResultHonest` (for changes, from `ImplementsChangeCall`), `SentInOrder` (from
`RequestsInOrder`), `AcknowledgedIsKept` and `QueuedOnce` (from `ImplementsInbox`) and
`ReportsAreTrue` (from `ImplementsPinnedContract`).

How long things can take. The prover has no fairness, so the liveness properties
(`MethodReturns`, `ExecutionEnds`, `Terminates`, `WaitEnds`) are only model-checked.
What is proved is the half of each that does not depend on fairness: a natural
number, bounded by the arguments of the call, that every step of the code decreases
and no step of its environment changes (`StepsLeft` of each proof module). With it a
liveness property says no more than that each step is eventually made.

| theorem | at most | needs, besides `IInv` |
|---|---|---|
| `BoundedMethod` | three steps per attempt allowed, and three | an attempt to come is an attempt allowed |
| `BoundedExecution` | six steps per operation of the plan | `TypeOK` alone |
| `BoundedCalls` | a step per request of a method and one for its checks, weighed against those of the execution | the operation in hand is in the plan |
| `BoundedWait` | 3 * attempts + 2 steps | a wait that waits for an answer has asked |
| `BoundedReading` | `max_pages` + 1 steps of a paginator, the pages there can be + 2 of an inventory or list | `StaysInRange`: the next page is requested only behind one with an item |

`BoundedReading` promises nothing of an inventory that is lied to: it may run on
forever, as section 3 says.

## 6. Not modelled, and why

- Headers, redaction, form and file encoding, characters a normaliser accepts,
  message texts: no control depends on them. An argument is accepted or refused.
- A transport hook that raises an `Exception`: `_emit` swallows it, so no control
  depends on it.
- `2**attempt` in `_retry_delay` overflows a float for attempts beyond about a
  thousand; the model's backoff is a table that continues at 8 seconds.
- The policy is asked once per operation before the first call; a policy that
  changes its mind during an execution has no promise to be checked against.
- Files are read after their size was checked; the file system is outside.
- An update that rewrites the document of the *same* version has no pin to fall
  back on when it is killed between the two writes: every later run, updates
  included, ends with a checksum mismatch until somebody restores the files.
  The test `test_update_rejects_a_pinned_checksum_mismatch` wants the refusal,
  and `ImplementsPinnedContract` shows the damage is never taken for a pin. That no
  run repairs it is proved (`DamageStays`).
- A negative `interval` of a delivery wait is refused like `attempts < 1`. A status
  other than the three of `MessageDeliveryStatus` is asked for again like `sent`.
  That `delivered` and `failed` are final is assumed of the provider.
- Which values the fields of typed models accept: a request or response model
  accepts or refuses. Documentation, fixtures and build scripts keep no state.
- `download_fax_to` and the other writers of files: the file system is outside.
- Webhooks: two different events with the same bytes cannot be told apart, since
  QuestBlue documents no event id; `SameEvent` takes them for one delivered twice.
  The package has no receiver: `LookUp`, `Enqueue` and `Acknowledge` are what
  `docs/integrations.md` tells an application to write around it. A receiver that
  looks up and enqueues in two steps, concurrently, is modelled but promised nothing,
  for the package gives it a fingerprint and no more; whether both are one step is
  the application's affair.
- Overlapping executions of one `provision_server` plan do configure each other's
  servers; the code has no guard against it, and no document says it may not. What
  is checked and proved is how far that goes (`OnlyOverlapsMix`). Executing a plan
  again after an uncertain create orders another server: `OneServerPerExecution` is
  about the repetitions the code could make by itself.
- The tables of `SimpleCall` have one row for each method, which stands for the
  synchronous and the asynchronous one: they make the same checks and requests in
  the same order.

## 7. Plan

Done, in this order: the call and its retries (`RemoteCall`, `Transport`), plan
execution on top of it (`StepSequence`, `Workflow`), the one builder whose calls
share state (`ServerProvision`), reading collections (`Pagination`), the
mutating methods (`SimpleCall`), the pinned contract (`ContractPin`), facades and
delivery waits (`Facade`), the typed methods over the transport (`Resources`,
`ResourceCall`), callbacks (`Webhook`), the proofs of each, and the composition of
the layers (`ChangeCall`, `WorkflowCalls`) with the refinements that join them, and
the bounds on how long a call, an execution, a wait and a reading can be, and the
abstract specifications of the pin and the receiver of callbacks (`PinnedContract`,
`Inbox`), with the refinements that show what they and each execution of the
server plan promise.

Next: abstract specifications of a delivery wait (`Facade`) and of the reading of a
collection (`Pagination`), whose promises are so far invariants of their own.
