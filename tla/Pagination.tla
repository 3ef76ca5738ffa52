----------------------------- MODULE Pagination -----------------------------
(***************************************************************************)
(* Reading a whole collection page by page                                 *)
(* (src/src/questblue/pagination.py, models.py, _resources.py,             *)
(* simple/_read.py).  Five kinds of helper differ in how they find the     *)
(* next page and in whether anything bounds them:                          *)
(*   paginator   SyncPaginator / AsyncPaginator, with a memory of the      *)
(*               pages requested and a maximum                             *)
(*   inventory   DIDs.pages, InternationalDIDs.pages, FaxReads.list        *)
(*   calls       Reports.iter_call_history                                 *)
(*   faxes       Reports.iter_fax_history                                  *)
(*   page        the lists of the simple API that read one page only:      *)
(*               voice, messages, dlc, enterprise_fax, porting, servers    *)
(* Between two requests the collection may grow at its end and lose items  *)
(* anywhere, the provider may report less about its pages than it could,   *)
(* or nonsense, and the consumer may ask for no more.                      *)
(***************************************************************************)
EXTENDS Integers, FiniteSets

CONSTANTS
  Kinds,        \* the kinds of helper, or some of them
  MaxItems,     \* bound: the items there are, or ever were
  MaxRemovals,  \* bound: the items removed while a helper reads
  PerPage,      \* the page size the caller asks for
  LastPage,     \* bound: the largest page number a provider names
  MaxPages      \* max_pages of a paginator

ASSUME KindsAssumption == Kinds \subseteq {"paginator", "inventory", "calls", "faxes", "page"}
ASSUME BoundsAssumption ==
  /\ {MaxItems, MaxRemovals} \subseteq Nat
  /\ {PerPage, LastPage, MaxPages} \subseteq Nat \ {0}
  /\ LastPage >= MaxItems + 1

VARIABLES
  helper,       \* the kind of helper and its start page
  provider,     \* what the provider reports, and whether it is truthful
  items,        \* the items there have been are 1 .. items, in that order
  removed,      \* those of them that are gone
  initial,      \* and was 1 .. initial when the helper started
  requested,    \* the page requested next
  fetched,      \* the pages requested so far (seen, for a paginator)
  again,        \* a page has been requested a second time
  collected,    \* the items yielded so far
  twice,        \* an item has been yielded a second time
  warned,       \* the provider answered with a WarningResponse
  outcome       \* how the helper ended, "none" before that

vars == <<helper, provider, items, removed, initial, requested, fetched, again,
          collected, twice, warned, outcome>>

-----------------------------------------------------------------------------
Fields == {"total_pages", "total", "per_page", "current_page"}

Helpers == [kind : Kinds, start : 1 .. 2]

\* size is the page size the provider really uses, at most the one asked for.
Providers == [truthful : BOOLEAN, reports : SUBSET Fields, size : 1 .. PerPage]

PagesOf(n, size) == (n + size - 1) \div size

Present == (1 .. items) \ removed

\* The place of an item among those that are still there.
Place(i) == Cardinality({j \in Present : j <= i})

OnPage(p) ==
  {i \in Present : Place(i) > (p - 1) * provider.size /\ Place(i) <= p * provider.size}

\* A reply: an optional field is {n}, or {} when the provider leaves it out.
Report(field, n) == IF field \in provider.reports THEN {n} ELSE {}

Replies ==
  IF provider.truthful
    THEN { [ data         |-> OnPage(requested),
             total_pages  |-> Report("total_pages", PagesOf(Cardinality(Present), provider.size)),
             total        |-> Report("total", Cardinality(Present)),
             per_page     |-> Report("per_page", provider.size),
             current_page |-> Report("current_page", requested) ] }
    ELSE { [ data |-> d, total_pages |-> Report("total_pages", t),
             total |-> Report("total", n), per_page |-> Report("per_page", s),
             current_page |-> Report("current_page", c) ] :
             d \in {{}, OnPage(1)}, t \in {0, LastPage}, n \in {0, LastPage},
             s \in {1, PerPage + 1}, c \in {1, 2, LastPage} }

\* The number in an optional field, or a default.
Value(field, default) == IF field = {} THEN default ELSE CHOOSE n \in field : TRUE

\* A paginator takes the page it requested for the current page when the
\* provider names none; the response models take 1.
CurrentPage(r) ==
  Value(r.current_page, IF helper.kind = "paginator" THEN requested ELSE 1)

\* Bug: the last page is left out.
BeforeLastPage(current, total) == current + 1 < total

\* There is another page, by the number of pages.
MorePages(current, total) == current < total

\* PageMetadata.next_page, by what the provider reports.
MoreByMetadata(r) ==
  IF r.total_pages # {} THEN MorePages(CurrentPage(r), Value(r.total_pages, 0))
  ELSE IF r.total # {} /\ r.per_page # {}
    THEN CurrentPage(r) * Value(r.per_page, 0) < Value(r.total, 0)
  ELSE /\ r.per_page # {} => Cardinality(r.data) >= Value(r.per_page, 0)
       /\ r.data # {}

\* The next_page methods of the response models: absent total_pages is 1 for an
\* inventory, 0 for fax history, and for call history means that a page shorter
\* than the one asked for is the last.
More(r) ==
  CASE helper.kind = "paginator" -> MoreByMetadata(r)
    [] helper.kind = "inventory" -> MorePages(CurrentPage(r), Value(r.total_pages, 1))
    [] helper.kind = "faxes"     -> MorePages(CurrentPage(r), Value(r.total_pages, 0))
    [] helper.kind = "calls"     ->
         IF r.total_pages # {} THEN MorePages(CurrentPage(r), Value(r.total_pages, 0))
         ELSE Cardinality(r.data) >= PerPage
    [] helper.kind = "page"      -> FALSE

-----------------------------------------------------------------------------
Init ==
  /\ helper \in Helpers
  /\ provider \in Providers
  /\ items \in 0 .. MaxItems
  /\ removed = {}
  /\ initial = items
  /\ requested = helper.start
  /\ fetched = {}
  /\ again = FALSE
  /\ collected = {}
  /\ twice = FALSE
  /\ warned = FALSE
  /\ outcome = "none"

\* Bug: the pages seen are forgotten.
StopsAtMaximumOnly == helper.kind = "paginator" /\ Cardinality(fetched) = MaxPages

\* Bug: one page fewer than max_pages allows.
StopsEarly ==
  helper.kind = "paginator" /\ (requested \in fetched \/ Cardinality(fetched) + 1 = MaxPages)

\* What ends a paginator: a page requested before, or max_pages requests.
Exhausted ==
  helper.kind = "paginator" /\ (requested \in fetched \/ Cardinality(fetched) = MaxPages)

GiveUp ==
  /\ outcome = "none"
  /\ Exhausted
  /\ outcome' = "QuestBluePaginationError"
  /\ UNCHANGED <<helper, provider, items, removed, initial, requested, fetched, again,
                 collected, twice, warned>>

\* A request for a page.
Request ==
  /\ outcome = "none"
  /\ ~Exhausted
  /\ fetched' = fetched \union {requested}
  /\ again' = (again \/ requested \in fetched)
  /\ UNCHANGED <<helper, provider, items, removed, initial>>

\* Its page arrives: the items are yielded, and the next page is taken.
Receive(r) ==
  /\ Request
  /\ collected' = collected \union r.data
  /\ twice' = (twice \/ r.data \intersect collected # {})
  /\ IF More(r)
       THEN requested' = CurrentPage(r) + 1 /\ UNCHANGED outcome
       ELSE outcome' = "returned" /\ UNCHANGED requested
  /\ UNCHANGED warned

\* Bug: an inventory ends quietly at a warning.
EndQuietly(kind) == "returned"

\* _collection and FaxReads.list unwrap each page of an inventory or of a list;
\* the history iterators return at a warning, and a paginator sees a page
\* without items.
Unwraps(kind) == kind \in {"inventory", "page"}

AfterWarning(kind) == IF Unwraps(kind) THEN "QuestBlueWarningError" ELSE "returned"

ReceiveWarning ==
  /\ Request
  /\ warned' = TRUE
  /\ outcome' = AfterWarning(helper.kind)
  /\ UNCHANGED <<requested, collected, twice>>

\* The request ends with an exception of request(), or a reply no model takes.
RequestFails ==
  /\ Request
  /\ outcome' = "raised"
  /\ UNCHANGED <<requested, collected, twice, warned>>

\* Someone adds to the collection, while a helper reads it.
Grow ==
  /\ outcome = "none"
  /\ items < MaxItems
  /\ items' = items + 1
  /\ UNCHANGED <<helper, provider, removed, initial, requested, fetched, again, collected,
                 twice, warned, outcome>>

\* Someone removes an item, which moves those behind it forward.  What a
\* provider makes up does not depend on it.
Remove ==
  /\ outcome = "none"
  /\ provider.truthful
  /\ Cardinality(removed) < MaxRemovals
  /\ \E i \in Present : removed' = removed \union {i}
  /\ UNCHANGED <<helper, provider, items, initial, requested, fetched, again, collected,
                 twice, warned, outcome>>

\* The consumer asks for no further item: it has what it looked for, its own
\* code raises, or its task is cancelled.
Abandon ==
  /\ outcome = "none"
  /\ outcome' = "abandoned"
  /\ UNCHANGED <<helper, provider, items, removed, initial, requested, fetched, again,
                 collected, twice, warned>>

Read ==
  \/ GiveUp
  \/ \E r \in Replies : Receive(r)
  \/ ReceiveWarning \/ RequestFails

Over == outcome # "none" /\ UNCHANGED vars

Next == Read \/ Abandon \/ Grow \/ Remove \/ Over

Spec == Init /\ [][Next]_vars

\* A consumer that does not abandon the helper asks for the next page until there
\* is none, and every request ends (MethodReturns of ResourceCall).
Fairness == WF_vars(Read)

FairSpec == Spec /\ Fairness

-----------------------------------------------------------------------------
(* Properties *)

\* Whatever a provider answers, a paginator requests no page twice and no more
\* pages than max_pages.
PaginatorBudget ==
  helper.kind = "paginator" => ~again /\ Cardinality(fetched) <= MaxPages

\* What each kind of helper needs to be told, besides the items.
Informed ==
  CASE helper.kind \in {"paginator", "page"} -> TRUE
    [] helper.kind = "calls" ->
         /\ "current_page" \in provider.reports
         /\ "total_pages" \in provider.reports \/ provider.size = PerPage
    [] OTHER -> {"current_page", "total_pages"} \subseteq provider.reports

\* The items on the pages a helper is asked for, when it starts.
Wanted ==
  {i \in 1 .. initial :
    /\ i > (helper.start - 1) * provider.size
    /\ helper.kind = "page" => i <= helper.start * provider.size}

\* A helper that is told the truth, and enough of it, yields nothing twice, and
\* when it returns it has yielded the items that were there when it started and
\* still are, but for one at most for every item removed in the meantime; what
\* is added meanwhile costs nothing.  A warning is no way to return for an
\* inventory or a list; the others return without the rest at one.
Complete ==
  provider.truthful /\ Informed /\ (warned => Unwraps(helper.kind)) =>
    /\ ~twice
    /\ outcome = "returned" =>
         Cardinality(Wanted \ (collected \union removed)) <= Cardinality(removed)

\* max_pages is exact: with a truthful provider that numbers its pages, a
\* paginator gives up only when there are more pages than it may request, or
\* would be if nothing had been removed.
BoundIsExact ==
  /\ outcome = "QuestBluePaginationError"
  /\ provider.truthful /\ "total_pages" \in provider.reports
  => PagesOf(items, provider.size) - helper.start + 1 > MaxPages

\* Reading on ends: for a paginator whatever the provider answers, for the other
\* helpers when the provider tells the truth and enough of it.
Terminates ==
  (helper.kind = "paginator" \/ (provider.truthful /\ Informed)) ~> outcome # "none"

-----------------------------------------------------------------------------
(* What the documents say and the code does not do *)

\* docs/adr/0002-simple-api-contract.md:88: "A QuestBlue WarningResponse raises
\* QuestBlueWarningError".  So no helper of the simple API returns a collection
\* as if it were whole after a warning.
WarningRaised ==
  helper.kind # "paginator" /\ warned => outcome # "returned"
=============================================================================
