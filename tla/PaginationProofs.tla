-------------------------- MODULE PaginationProofs --------------------------
(***************************************************************************)
(* What bounds a paginator, for every provider, collection and max_pages,  *)
(* and, when the provider tells the truth, that nothing is yielded twice   *)
(* and little is missed while the collection grows and shrinks (from Told  *)
(* on: pages, then the places of items on them, then the invariant CInv    *)
(* and one lemma per action).                                              *)
(***************************************************************************)
EXTENDS Pagination, TLAPS, FiniteSetTheorems

\* The pages requested are finitely many, so that they can be counted.
IInv ==
  /\ IsFiniteSet(fetched)
  /\ again \in BOOLEAN
  /\ PaginatorBudget

-----------------------------------------------------------------------------
\* Nothing has been requested at the start.
LEMMA InitInv == Init => IInv
<1> SUFFICES ASSUME Init
             PROVE  IInv
  OBVIOUS
<1>1. MaxPages >= 0
  BY BoundsAssumption
<1>2. fetched = {} /\ IsFiniteSet({}) /\ Cardinality({}) = 0
  BY FS_EmptySet DEF Init
<1>3. again = FALSE
  BY DEF Init
<1>4. IsFiniteSet(fetched) /\ PaginatorBudget
  BY <1>1, <1>2, <1>3 DEF PaginatorBudget
<1> QED BY <1>3, <1>4 DEF IInv

\* A paginator that may request a page has not requested it before, and has a
\* request left.
LEMMA RequestKeepsBudget ==
  ASSUME IInv, Request
  PROVE  IsFiniteSet(fetched)' /\ again' \in BOOLEAN /\ PaginatorBudget'
<1>1. /\ fetched' = fetched \union {requested} /\ again' = (again \/ requested \in fetched)
      /\ helper' = helper /\ IsFiniteSet(fetched) /\ again \in BOOLEAN
  BY DEF IInv, Request
<1>2. /\ IsFiniteSet(fetched') /\ Cardinality(fetched) \in Nat
      /\ requested \notin fetched => Cardinality(fetched') = Cardinality(fetched) + 1
  BY <1>1, FS_AddElement, FS_CardinalityType
<1>3. helper.kind = "paginator" => ~again' /\ Cardinality(fetched') <= MaxPages
  <2> SUFFICES ASSUME helper.kind = "paginator"
               PROVE  ~again' /\ Cardinality(fetched') <= MaxPages
    OBVIOUS
  <2>1. requested \notin fetched /\ Cardinality(fetched) # MaxPages
    BY DEF Request, Exhausted
  <2>2. ~again /\ Cardinality(fetched) <= MaxPages
    BY DEF IInv, PaginatorBudget
  <2>3. ~again'
    BY <1>1, <2>1, <2>2
  <2>4. MaxPages \in Nat
    BY BoundsAssumption
  <2>5. Cardinality(fetched') <= MaxPages
    BY <1>2, <2>1, <2>2, <2>4
  <2> QED BY <2>3, <2>5
<1> QED BY <1>1, <1>2, <1>3 DEF PaginatorBudget

\* Every way to read keeps the invariant.
LEMMA ReadInv ==
  ASSUME IInv, Read
  PROVE  IInv'
<1>1. CASE GiveUp
  BY <1>1 DEF IInv, GiveUp, PaginatorBudget
<1>2. CASE (\E r \in Replies : Receive(r)) \/ ReceiveWarning \/ RequestFails
  <2>1. Request
    BY <1>2 DEF Receive, ReceiveWarning, RequestFails
  <2> QED BY <2>1, RequestKeepsBudget DEF IInv
<1> QED BY <1>1, <1>2 DEF Read

\* The invariant holds in every reachable state.
THEOREM Invariance == Spec => []IInv
<1>1. IInv /\ [Next]_vars => IInv'
  <2> SUFFICES ASSUME IInv, [Next]_vars
               PROVE  IInv'
    OBVIOUS
  <2>1. CASE UNCHANGED vars
    BY <2>1 DEF IInv, PaginatorBudget, vars
  <2>2. CASE Abandon \/ Grow \/ Remove
    BY <2>2 DEF IInv, PaginatorBudget, Abandon, Grow, Remove
  <2> QED BY <2>1, <2>2, ReadInv DEF Next, Over
<1> QED BY InitInv, <1>1, PTL DEF Spec

\* Whatever the provider answers, a paginator requests no page twice and no more
\* than max_pages.
THEOREM Budget == Spec => []PaginatorBudget
<1>1. IInv => PaginatorBudget
  BY DEF IInv
<1> QED BY Invariance, <1>1, PTL

-----------------------------------------------------------------------------
(* Pages and places.  Removals renumber the items, so what a helper has not *)
(* seen is counted by the places the items have now.                       *)

\* The quotient lies where integer division puts it.
LEMMA DivisionBounds ==
  ASSUME NEW a \in Nat, NEW s \in Nat \ {0}
  PROVE  a \div s \in Nat /\ (a \div s) * s <= a /\ a < (a \div s) * s + s
<1>1. a \div s \in Nat
  OBVIOUS
<1>2. (a \div s) * s <= a
  OBVIOUS
<1>3. a < (a \div s) * s + s
  OBVIOUS
<1> QED BY <1>1, <1>2, <1>3

\* More factors make the product no smaller.
LEMMA ProductGrows ==
  ASSUME NEW a \in Nat, NEW b \in Nat, NEW s \in Nat, a <= b
  PROVE  a * s \in Nat /\ b * s \in Nat /\ a * s <= b * s
OBVIOUS

\* One page more is size items more.
LEMMA ProductNext ==
  ASSUME NEW a \in Int, NEW s \in Nat
  PROVE  (a + 1) * s = a * s + s /\ (a + 1 - 1) * s = a * s
OBVIOUS

\* The number of pages is the least that holds all items.
LEMMA PagesEnough ==
  ASSUME NEW n \in Nat, NEW s \in Nat \ {0}, NEW p \in Nat
  PROVE  PagesOf(n, s) \in Nat /\ (PagesOf(n, s) <= p => n <= p * s)
                               /\ (n <= p * s => PagesOf(n, s) <= p)
<1> DEFINE q == PagesOf(n, s)
<1>1. q \in Nat /\ q * s <= n + s - 1 /\ n + s - 1 < q * s + s
  BY DivisionBounds, n + s - 1 \in Nat DEF PagesOf
<1>2. q * s \in Nat /\ p * s \in Nat
  BY <1>1, ProductGrows
<1> HIDE DEF q
<1>3. ASSUME q <= p
      PROVE  n <= p * s
  BY <1>1, <1>2, <1>3, ProductGrows
<1>4. ASSUME n <= p * s, ~(q <= p)
      PROVE  FALSE
  <2>1. (p + 1) * s <= q * s
    BY <1>1, <1>4, ProductGrows
  <2>2. (p + 1) * s = p * s + s
    BY ProductNext
  <2> QED BY <1>1, <1>2, <1>4, <2>1, <2>2
<1> QED BY <1>1, <1>3, <1>4 DEF q

\* More items never make fewer pages.
LEMMA PagesGrow ==
  ASSUME NEW m \in Nat, NEW n \in Nat, NEW s \in Nat \ {0}, m <= n
  PROVE  PagesOf(m, s) <= PagesOf(n, s)
<1>1. PagesOf(n, s) \in Nat
  BY PagesEnough
<1>2. n <= PagesOf(n, s) * s
  BY <1>1, PagesEnough
<1>3. PagesOf(n, s) * s \in Nat
  BY <1>1, ProductGrows
<1>4. m <= PagesOf(n, s) * s
  BY <1>2, <1>3
<1> QED BY <1>1, <1>4, PagesEnough

\* The variables stay in their ranges.
TypeInv ==
  /\ helper \in Helpers /\ provider \in Providers
  /\ items \in Nat /\ initial \in Nat /\ initial <= items
  /\ removed \subseteq 1 .. items

\* The items up to one of them.
Before(i) == {j \in Present : j <= i}

\* What the range of the variables means for the numbers of the lemmas below.
LEMMA Ranges ==
  ASSUME TypeInv
  PROVE  /\ provider.size \in Nat \ {0} /\ provider.size <= PerPage
         /\ helper.start \in Nat \ {0}
         /\ IsFiniteSet(removed) /\ Cardinality(removed) \in Nat
         /\ Present \subseteq 1 .. items
         /\ IsFiniteSet(Present) /\ Cardinality(Present) \in Nat
         /\ Cardinality(Present) <= items
<1>1. provider.size \in Nat \ {0} /\ provider.size <= PerPage
  BY BoundsAssumption DEF TypeInv, Providers
<1>2. helper.start \in Nat \ {0}
  BY DEF TypeInv, Helpers
<1>3. IsFiniteSet(1 .. items) /\ Cardinality(1 .. items) = items
  BY FS_Interval DEF TypeInv
<1>4. IsFiniteSet(removed)
  BY <1>3, FS_Subset DEF TypeInv
<1>5. Present \subseteq 1 .. items
  BY DEF Present
<1>6. IsFiniteSet(Present) /\ Cardinality(Present) <= items
  BY <1>3, <1>5, FS_Subset
<1> QED BY <1>1, <1>2, <1>4, <1>5, <1>6, FS_CardinalityType

\* The place of an item is one of the places there are, and no later than the
\* item itself.
LEMMA PlaceRange ==
  ASSUME TypeInv, NEW i \in Present
  PROVE  /\ i \in Nat
         /\ IsFiniteSet(Before(i)) /\ Place(i) = Cardinality(Before(i))
         /\ Place(i) \in 1 .. Cardinality(Present) /\ Place(i) <= i
<1>1. i \in 1 .. items /\ items \in Nat
  BY Ranges DEF TypeInv
<1>2. IsFiniteSet(Before(i)) /\ Cardinality(Before(i)) <= Cardinality(Present)
  BY Ranges, FS_Subset DEF Before
<1>3. Before(i) \subseteq 1 .. i
  <2> SUFFICES ASSUME NEW j \in Present, j <= i
               PROVE  j \in 1 .. i
    BY DEF Before
  <2>1. j \in 1 .. items
    BY Ranges
  <2> QED BY <1>1, <2>1
<1>4. Cardinality(Before(i)) <= i
  BY <1>1, <1>3, FS_Interval, FS_Subset
<1>5. i \in Before(i)
  BY <1>1 DEF Before
<1>6. Cardinality(Before(i)) \in Nat /\ Cardinality(Before(i)) # 0
  BY <1>2, <1>5, FS_CardinalityType, FS_EmptySet
<1>7. Place(i) = Cardinality(Before(i))
  BY DEF Place, Before
<1> QED BY <1>1, <1>2, <1>4, <1>6, <1>7, Ranges

\* Different items have different places.
LEMMA PlaceDiffers ==
  ASSUME TypeInv, NEW i \in Present, NEW k \in Present, Place(i) = Place(k)
  PROVE  i = k
<1>1. \A a, b \in Present : a < b => Place(a) # Place(b)
  <2> SUFFICES ASSUME NEW a \in Present, NEW b \in Present, a < b, Place(a) = Place(b)
               PROVE  FALSE
    OBVIOUS
  <2>1. a \in Nat /\ b \in Nat
    BY PlaceRange
  <2>2. \A j \in Present : j \in Nat
    BY PlaceRange
  <2>3. b \in Before(b) /\ b \notin Before(a)
    BY <2>1 DEF Before
  <2>4. \A j \in Present : j <= a => j <= b
    BY <2>1, <2>2
  <2>5. Before(a) \subseteq Before(b)
    BY <2>4 DEF Before
  <2>6. IsFiniteSet(Before(b)) /\ Cardinality(Before(a)) = Cardinality(Before(b))
    BY PlaceRange
  <2> QED BY <2>3, <2>5, <2>6, FS_Subset
<1>2. i \in Nat /\ k \in Nat
  BY PlaceRange
<1> QED BY <1>1, <1>2

\* Every place is some item's.
LEMMA PlaceTaken ==
  ASSUME TypeInv, NEW k \in 1 .. Cardinality(Present)
  PROVE  \E i \in Present : Place(i) = k
<1> SUFFICES ASSUME \A i \in Present : Place(i) # k
             PROVE  FALSE
  OBVIOUS
<1> DEFINE n == Cardinality(Present)
           T == (1 .. n) \ {k}
           f == [i \in Present |-> Place(i)]
<1>1. IsFiniteSet(1 .. n) /\ Cardinality(1 .. n) = n /\ n \in Nat
  BY Ranges, FS_Interval
<1>2. IsFiniteSet(T) /\ Cardinality(T) = n - 1
  BY <1>1, FS_RemoveElement
<1>3. f \in [Present -> T]
  BY PlaceRange
<1>4. IsFiniteSet(Present) /\ Cardinality(T) < Cardinality(Present)
  BY <1>1, <1>2, Ranges
<1> HIDE DEF T, f
<1>5. \E x, y \in Present : x # y /\ f[x] = f[y]
  BY <1>2, <1>3, <1>4, FS_PigeonHole
<1> QED BY <1>5, PlaceDiffers DEF f

\* A page with items behind it is full.
LEMMA PageFull ==
  ASSUME TypeInv, NEW p \in Nat \ {0}, p * provider.size < Cardinality(Present)
  PROVE  IsFiniteSet(OnPage(p)) /\ provider.size <= Cardinality(OnPage(p))
<1> DEFINE s == provider.size
           a == (p - 1) * s
           Places == a + 1 .. a + s
           g == [k \in Places |-> CHOOSE i \in Present : Place(i) = k]
<1>1. s \in Nat \ {0}
  BY Ranges
<1>2. a \in Nat /\ p * s = a + s
  <2>1. a \in Nat
    BY <1>1, ProductGrows
  <2>2. (p - 1 + 1) * s = a + s
    BY <1>1, ProductNext
  <2> QED BY <2>1, <2>2
<1> HIDE DEF s, a
<1>3. IsFiniteSet(Places) /\ Cardinality(Places) = s
  BY <1>1, <1>2, FS_Interval
<1>4. IsFiniteSet(OnPage(p)) /\ Cardinality(OnPage(p)) \in Nat
  <2>1. OnPage(p) \subseteq Present
    BY DEF OnPage
  <2> QED BY <2>1, Ranges, FS_Subset, FS_CardinalityType
<1>5. \A k \in Places : g[k] \in Present /\ Place(g[k]) = k
  <2> SUFFICES ASSUME NEW k \in Places
               PROVE  g[k] \in Present /\ Place(g[k]) = k
    OBVIOUS
  <2>1. k \in 1 .. Cardinality(Present)
    BY <1>1, <1>2, Ranges DEF s
  <2> QED BY <2>1, PlaceTaken
<1>6. g \in [Places -> OnPage(p)]
  <2> SUFFICES ASSUME NEW k \in Places
               PROVE  g[k] \in OnPage(p)
    OBVIOUS
  <2>1. k > a /\ k <= p * s
    BY <1>1, <1>2
  <2> QED BY <1>5, <2>1 DEF OnPage, a, s
<1> HIDE DEF g, Places
<1>7. ASSUME Cardinality(OnPage(p)) < s
      PROVE  FALSE
  <2>1. \E x, y \in Places : x # y /\ g[x] = g[y]
    BY <1>3, <1>4, <1>6, <1>7, FS_PigeonHole
  <2> QED BY <1>5, <2>1
<1> QED BY <1>1, <1>4, <1>7 DEF s

-----------------------------------------------------------------------------
(* What a helper that is told the truth makes of a reply. *)

Told == provider.truthful /\ Informed

\* An optional field that is there, or not.
LEMMA ValueOf == \A n, d : Value({n}, d) = n /\ Value({}, d) = d
BY DEF Value

\* A truthful reply.
LEMMA Truthful ==
  ASSUME provider.truthful, NEW r \in Replies
  PROVE  /\ r.data = OnPage(requested)
         /\ r.total_pages = Report("total_pages", PagesOf(Cardinality(Present), provider.size))
         /\ r.total = Report("total", Cardinality(Present))
         /\ r.per_page = Report("per_page", provider.size)
         /\ r.current_page = Report("current_page", requested)
BY DEF Replies

\* The kinds there are.
LEMMA KindsOf ==
  ASSUME TypeInv
  PROVE  helper.kind \in {"paginator", "inventory", "calls", "faxes", "page"}
BY KindsAssumption DEF TypeInv, Helpers

\* The page a reply is taken for is the page requested.
LEMMA PageNumber ==
  ASSUME TypeInv, Told, helper.kind # "page", NEW r \in Replies
  PROVE  CurrentPage(r) = requested
<1>1. r.current_page = Report("current_page", requested)
  BY Truthful DEF Told
<1>2. CASE helper.kind = "paginator"
  BY <1>1, <1>2, ValueOf DEF CurrentPage, Report
<1>3. CASE helper.kind # "paginator"
  <2>1. "current_page" \in provider.reports
    BY <1>3, KindsOf DEF Told, Informed
  <2> QED BY <1>1, <2>1, ValueOf DEF CurrentPage, Report
<1> QED BY <1>2, <1>3

\* When there is no next page, no item lies behind the page requested.
LEMMA NothingBehind ==
  ASSUME TypeInv, Told, helper.kind # "page", requested \in Nat \ {0},
         NEW r \in Replies, ~More(r)
  PROVE  Cardinality(Present) <= requested * provider.size
<1> DEFINE n == Cardinality(Present)
           s == provider.size
<1>1. s \in Nat \ {0} /\ n \in Nat /\ requested * s \in Nat
  BY Ranges, ProductGrows
<1>2. CurrentPage(r) = requested
  BY PageNumber
<1>3. CASE "total_pages" \in provider.reports
  <2>1. r.total_pages = {PagesOf(n, s)}
    BY <1>3, Truthful DEF Told, Report
  <2>2. ~MorePages(requested, PagesOf(n, s))
    BY <1>2, <2>1, ValueOf, KindsOf DEF More, MoreByMetadata
  <2>3. PagesOf(n, s) \in Nat /\ (PagesOf(n, s) <= requested => n <= requested * s)
    BY <1>1, PagesEnough
  <2>4. ~(requested < PagesOf(n, s))
    BY <2>2 DEF MorePages
  <2> QED BY <2>3, <2>4
<1>4. CASE "total_pages" \notin provider.reports
  <2>1. r.total_pages = {} /\ helper.kind \in {"paginator", "calls"}
    BY <1>4, Truthful, KindsOf DEF Told, Informed, Report
  <2>2. ASSUME Cardinality(r.data) < s \/ r.data = {}
        PROVE  n <= requested * s
    <3>1. r.data = OnPage(requested)
      BY Truthful DEF Told
    <3>2. Cardinality(OnPage(requested)) < s
      <4>1. Cardinality({}) = 0 /\ 0 < s
        BY <1>1, FS_EmptySet
      <4> QED BY <2>2, <3>1, <4>1
    <3>3. ~(requested * s < n)
      <4>1. requested * s < n => IsFiniteSet(OnPage(requested)) /\ s <= Cardinality(OnPage(requested))
        BY PageFull
      <4>2. IsFiniteSet(OnPage(requested)) => Cardinality(OnPage(requested)) \in Nat
        BY FS_CardinalityType
      <4> QED BY <1>1, <3>2, <4>1, <4>2
    <3> QED BY <1>1, <3>3
  <2>3. CASE helper.kind = "calls"
    <3>1. s = PerPage
      BY <1>4, <2>3 DEF Told, Informed
    <3>2. ~(Cardinality(r.data) >= s)
      BY <2>1, <2>3, <3>1 DEF More
    <3>3. Cardinality(r.data) \in Nat
      <4>1. OnPage(requested) \subseteq Present /\ r.data = OnPage(requested)
        BY Truthful DEF Told, OnPage
      <4> QED BY <4>1, Ranges, FS_Subset, FS_CardinalityType
    <3> QED BY <1>1, <2>2, <3>2, <3>3
  <2>4. CASE helper.kind = "paginator"
    <3>1. ~MoreByMetadata(r)
      BY <2>4 DEF More
    <3>2. CASE r.total # {} /\ r.per_page # {}
      <4>1. r.total = {n} /\ r.per_page = {s}
        BY <3>2, Truthful DEF Told, Report
      <4>2. ~(requested * s < n)
        BY <1>2, <2>1, <3>1, <4>1, ValueOf DEF MoreByMetadata
      <4> QED BY <1>1, <4>2
    <3>3. CASE ~(r.total # {} /\ r.per_page # {})
      <4>1. ~(/\ r.per_page # {} => Cardinality(r.data) >= Value(r.per_page, 0)
              /\ r.data # {})
        BY <2>1, <3>1, <3>3 DEF MoreByMetadata
      <4>2. r.per_page # {} => Value(r.per_page, 0) = s
        BY Truthful, ValueOf DEF Told, Report
      <4>3. Cardinality(r.data) \in Nat
        <5>1. OnPage(requested) \subseteq Present /\ r.data = OnPage(requested)
          BY Truthful DEF Told, OnPage
        <5> QED BY <5>1, Ranges, FS_Subset, FS_CardinalityType
      <4>4. Cardinality(r.data) < s \/ r.data = {}
        BY <1>1, <4>1, <4>2, <4>3
      <4> QED BY <2>2, <4>4
    <3> QED BY <3>2, <3>3
  <2> QED BY <2>1, <2>3, <2>4
<1> QED BY <1>3, <1>4

-----------------------------------------------------------------------------
(* The invariant of a helper that is told the truth. *)

\* The items on the pages read that have not been yielded and are still there.
Missed ==
  {i \in Wanted \ (collected \union removed) : Place(i) <= (requested - 1) * provider.size}

\* While it reads: the pages before the one requested have been fetched, what
\* was yielded and is still there lies on them, and for every item missed there
\* was a removal.
Reading ==
  /\ fetched = helper.start .. requested - 1
  /\ \A i \in collected \intersect Present : Place(i) <= (requested - 1) * provider.size
  /\ Cardinality(Missed) <= Cardinality(removed)
  /\ helper.kind = "page" => requested = helper.start
  /\ helper.kind = "paginator" /\ "total_pages" \in provider.reports /\ fetched # {}
       => requested - 1 < PagesOf(items, provider.size)

OrderInv ==
  Told => /\ requested \in Nat \ {0} /\ requested >= helper.start
          /\ collected \subseteq 1 .. items
          /\ ~twice
          /\ outcome = "none" => Reading

CInv == TypeInv /\ OrderInv /\ Complete /\ BoundIsExact

\* What is missed is among the items that are still there.
LEMMA MissedPresent ==
  ASSUME TypeInv
  PROVE  /\ Wanted \ (collected \union removed) \subseteq Present
         /\ Missed \subseteq Present
         /\ IsFiniteSet(Missed) /\ Cardinality(Missed) \in Nat
<1>1. \A i \in Wanted : i \in 1 .. items
  BY DEF Wanted, TypeInv
<1>2. Wanted \ (collected \union removed) \subseteq Present
  BY <1>1 DEF Present
<1>3. Missed \subseteq Present
  BY <1>2 DEF Missed
<1> QED BY <1>2, <1>3, Ranges, FS_Subset, FS_CardinalityType

\* The products that say where the page requested begins and ends.
LEMMA PageBounds ==
  ASSUME TypeInv, requested \in Nat \ {0}
  PROVE  /\ (requested - 1) * provider.size \in Nat
         /\ requested * provider.size \in Nat
         /\ requested * provider.size = (requested - 1) * provider.size + provider.size
         /\ (requested + 1 - 1) * provider.size = requested * provider.size
<1>1. provider.size \in Nat \ {0} /\ requested - 1 \in Nat /\ requested \in Nat
  BY Ranges
<1>2. (requested - 1) * provider.size \in Nat /\ requested * provider.size \in Nat
  BY <1>1, ProductGrows
<1>3. requested - 1 + 1 = requested /\ requested + 1 - 1 = requested
  BY <1>1
<1>4. (requested - 1 + 1) * provider.size = (requested - 1) * provider.size + provider.size
  BY <1>1, ProductNext
<1> QED BY <1>2, <1>3, <1>4

\* Before the first request the items have the places they are named for.
LEMMA InitPlaces ==
  ASSUME TypeInv, removed = {}, NEW i \in Present
  PROVE  Place(i) = i
<1>1. Present = 1 .. items /\ items \in Nat
  BY DEF Present, TypeInv
<1>2. i \in 1 .. items
  BY <1>1
<1>3. \A j : j \in Before(i) <=> j \in 1 .. i
  BY <1>1, <1>2 DEF Before
<1>4. Before(i) = 1 .. i
  BY <1>3
<1>5. Place(i) = Cardinality(1 .. i)
  BY <1>4, PlaceRange
<1> QED BY <1>2, <1>5, FS_Interval

\* The invariant holds before the first request.
LEMMA InitComplete == Init => CInv
<1> SUFFICES ASSUME Init
             PROVE  CInv
  OBVIOUS
<1>1. TypeInv
  <2>1. items \in Nat /\ initial = items /\ removed = {}
    BY BoundsAssumption DEF Init
  <2>2. helper \in Helpers /\ provider \in Providers
    BY DEF Init
  <2> QED BY <2>1, <2>2 DEF TypeInv
<1>2. /\ requested = helper.start /\ requested \in Nat \ {0}
      /\ collected = {} /\ ~twice /\ fetched = {} /\ removed = {} /\ outcome = "none"
  BY <1>1, Ranges DEF Init
<1>3. Missed = {}
  <2> SUFFICES ASSUME NEW i \in Missed
               PROVE  FALSE
    OBVIOUS
  <2>1. i \in Present /\ i \in Wanted /\ Place(i) <= (requested - 1) * provider.size
    BY <1>1, MissedPresent DEF Missed
  <2>2. Place(i) = i /\ i \in Nat
    BY <1>1, <1>2, <2>1, InitPlaces, PlaceRange
  <2>3. i > (requested - 1) * provider.size
    BY <1>2, <2>1 DEF Wanted
  <2> QED BY <1>1, <1>2, <2>1, <2>2, <2>3, PageBounds
<1>4. Cardinality(Missed) <= Cardinality(removed)
  BY <1>2, <1>3, FS_EmptySet
<1>5. fetched = helper.start .. requested - 1
  BY <1>2
<1>6. OrderInv
  BY <1>2, <1>4, <1>5 DEF OrderInv, Reading
<1> QED BY <1>1, <1>2, <1>6 DEF CInv, Complete, BoundIsExact

\* What a step leaves alone while it leaves the setup alone.
LEMMA SetupFixed ==
  ASSUME UNCHANGED <<helper, provider, initial>>
  PROVE  /\ Told' <=> Told
         /\ Wanted' = Wanted
BY DEF Told, Informed, Wanted

\* A page arrives.
LEMMA ReceiveComplete ==
  ASSUME CInv, NEW r \in Replies, Receive(r)
  PROVE  CInv'
<1>1. /\ outcome = "none" /\ UNCHANGED <<helper, provider, items, removed, initial>>
      /\ fetched' = fetched \union {requested}
      /\ collected' = collected \union r.data
      /\ twice' = (twice \/ r.data \intersect collected # {})
  BY DEF Receive, Request
<1>2. TypeInv /\ TypeInv'
  BY <1>1 DEF CInv, TypeInv
<1>3. Present' = Present /\ \A i : Place(i)' = Place(i)
  BY <1>1 DEF Present, Place
<1>4. outcome' # "QuestBluePaginationError" /\ BoundIsExact'
  BY <1>1 DEF Receive, BoundIsExact
<1>5. CASE ~Told
  BY <1>1, <1>2, <1>4, <1>5, SetupFixed DEF CInv, OrderInv, Complete, Told
<1>6. CASE Told
  <2>1. /\ requested \in Nat \ {0} /\ requested >= helper.start /\ helper.start \in Nat \ {0}
        /\ collected \subseteq 1 .. items /\ ~twice /\ Reading
    BY <1>1, <1>2, <1>6, Ranges DEF CInv, OrderInv
  <2> DEFINE low == (requested - 1) * provider.size
             high == requested * provider.size
  <2>2. low \in Nat /\ high \in Nat /\ low <= high /\ (requested + 1 - 1) * provider.size = high
    BY <1>2, <2>1, PageBounds, Ranges
  <2>3. r.data = OnPage(requested) /\ \A i \in r.data : i \in Present /\ Place(i) > low /\ Place(i) <= high
    BY <1>6, Truthful DEF Told, OnPage
  <2>4. \A i \in Present : Place(i) \in Nat
    BY <1>2, PlaceRange, Ranges
  <2>5. \A i \in Present : Place(i) > low /\ Place(i) <= high => i \in r.data
    BY <2>3 DEF OnPage
  <2>6. \A i \in collected \intersect Present : Place(i) <= low
    BY <2>1 DEF Reading
  <2> HIDE DEF low, high
  <2>7. ~twice'
    <3>1. \A i \in r.data : i \notin collected
      BY <2>2, <2>3, <2>4, <2>6
    <3> QED BY <1>1, <2>1, <3>1
  <2>8. collected' \subseteq 1 .. items
    BY <1>1, <1>2, <2>1, <2>3, Ranges
  <2>9. {i \in Wanted \ (collected' \union removed) : Place(i) <= high} \subseteq Missed
    <3> SUFFICES ASSUME NEW i \in Wanted \ (collected' \union removed), Place(i) <= high
                 PROVE  i \in Missed
      OBVIOUS
    <3>1. i \in Present /\ i \in Wanted \ (collected \union removed) /\ i \notin r.data
      BY <1>1, <1>2, MissedPresent
    <3>2. Place(i) <= low
      BY <2>2, <2>4, <2>5, <3>1
    <3> QED BY <3>1, <3>2 DEF Missed, low
  <2>10. CASE More(r)
    <3>1. helper.kind # "page"
      BY <1>2, <2>10, KindsOf DEF More
    <3>2. requested' = requested + 1 /\ outcome' = outcome
      BY <1>2, <1>6, <2>10, <3>1, PageNumber DEF Receive
    <3>3. requested' - 1 = requested
      BY <2>1, <3>2
    <3>4. fetched' = helper.start .. requested' - 1
      <4>1. fetched = helper.start .. requested - 1
        BY <2>1 DEF Reading
      <4> QED BY <1>1, <2>1, <3>2, <4>1
    <3>5. \A i \in collected' \intersect Present : Place(i) <= high
      BY <1>1, <2>2, <2>3, <2>4, <2>6
    <3>6. Missed' \subseteq Missed
      <4>1. Missed' = {i \in Wanted \ (collected' \union removed) : Place(i) <= (requested' - 1) * provider.size}
        BY <1>1, <1>3, SetupFixed DEF Missed
      <4>2. (requested' - 1) * provider.size = high
        BY <3>3 DEF high
      <4> QED BY <2>9, <4>1, <4>2
    <3>7. Cardinality(Missed') <= Cardinality(removed)
      <4>1. Cardinality(Missed') <= Cardinality(Missed) /\ Cardinality(Missed') \in Nat
        BY <1>2, <3>6, MissedPresent, FS_Subset, FS_CardinalityType
      <4>2. Cardinality(Missed) <= Cardinality(removed) /\ Cardinality(removed) \in Nat
        BY <1>2, <2>1, Ranges DEF Reading
      <4>3. Cardinality(Missed) \in Nat
        BY <1>2, MissedPresent
      <4> QED BY <4>1, <4>2, <4>3
    <3>8. helper.kind = "paginator" /\ "total_pages" \in provider.reports
            => requested < PagesOf(items, provider.size)
      <4> SUFFICES ASSUME helper.kind = "paginator", "total_pages" \in provider.reports
                   PROVE  requested < PagesOf(items, provider.size)
        OBVIOUS
      <4>1. r.total_pages = {PagesOf(Cardinality(Present), provider.size)}
        BY <1>6, Truthful DEF Told, Report
      <4>2. CurrentPage(r) = requested
        BY <1>2, <1>6, <3>1, PageNumber
      <4>3. requested < PagesOf(Cardinality(Present), provider.size)
        BY <2>10, <4>1, <4>2, ValueOf DEF More, MoreByMetadata, MorePages
      <4>4. /\ Cardinality(Present) \in Nat /\ items \in Nat /\ Cardinality(Present) <= items
            /\ provider.size \in Nat \ {0}
        BY <1>2, Ranges DEF TypeInv
      <4>5. /\ PagesOf(Cardinality(Present), provider.size) <= PagesOf(items, provider.size)
            /\ PagesOf(Cardinality(Present), provider.size) \in Nat
            /\ PagesOf(items, provider.size) \in Nat
        BY <4>4, PagesGrow, PagesEnough
      <4> QED BY <2>1, <4>3, <4>5
    <3>9. Reading'
      <4>1. (\A i \in collected \intersect Present : Place(i) <= (requested - 1) * provider.size)'
        <5>1. (requested' - 1) * provider'.size = high
          BY <1>1, <3>3 DEF high
        <5> QED BY <1>3, <3>5, <5>1
      <4>2. (helper.kind = "paginator" /\ "total_pages" \in provider.reports
               => requested - 1 < PagesOf(items, provider.size))'
        <5>1. PagesOf(items, provider.size)' = PagesOf(items, provider.size)
          BY <1>1
        <5> QED BY <1>1, <3>8, <3>3, <5>1
      <4> QED BY <1>1, <3>1, <3>4, <3>7, <4>1, <4>2 DEF Reading
    <3>10. OrderInv'
      BY <1>1, <2>1, <2>7, <2>8, <3>2, <3>9 DEF OrderInv
    <3> QED BY <1>1, <1>2, <1>4, <2>7, <3>2, <3>10 DEF CInv, Complete
  <2>11. CASE ~More(r)
    <3>1. outcome' = "returned" /\ requested' = requested
      BY <2>11 DEF Receive
    <3>2. \A i \in Wanted \ (collected' \union removed) : i \in Present /\ Place(i) <= high
      <4> SUFFICES ASSUME NEW i \in Wanted \ (collected' \union removed)
                   PROVE  i \in Present /\ Place(i) <= high
        OBVIOUS
      <4>1. i \in Present
        BY <1>1, <1>2, MissedPresent
      <4>2. i \in Nat /\ Place(i) \in Nat /\ Place(i) <= i /\ Place(i) <= Cardinality(Present)
        BY <1>2, <4>1, PlaceRange, Ranges
      <4>3. CASE helper.kind = "page"
        <5>1. i <= requested * provider.size
          BY <2>1, <4>3 DEF Reading, Wanted
        <5> QED BY <2>2, <4>1, <4>2, <5>1 DEF high
      <4>4. CASE helper.kind # "page"
        <5>1. Cardinality(Present) <= high
          BY <1>2, <1>6, <2>1, <2>11, <4>4, NothingBehind DEF high
        <5> QED BY <1>2, <2>2, <4>1, <4>2, <5>1, Ranges
      <4> QED BY <4>3, <4>4
    <3>3. Wanted \ (collected' \union removed) \subseteq Missed
      BY <2>9, <3>2
    <3>4. Cardinality(Wanted \ (collected' \union removed)) <= Cardinality(removed)
      <4>1. Cardinality(Wanted \ (collected' \union removed)) <= Cardinality(Missed)
        BY <1>2, <3>3, MissedPresent, FS_Subset
      <4>2. Cardinality(Wanted \ (collected' \union removed)) \in Nat
        BY <1>2, <3>3, MissedPresent, FS_Subset, FS_CardinalityType
      <4>3. Cardinality(Missed) <= Cardinality(removed) /\ Cardinality(removed) \in Nat
        BY <1>2, <2>1, Ranges DEF Reading
      <4>4. Cardinality(Missed) \in Nat
        BY <1>2, MissedPresent
      <4> QED BY <4>1, <4>2, <4>3, <4>4
    <3>5. Complete'
      BY <1>1, <2>7, <3>4, SetupFixed DEF Complete
    <3>6. OrderInv'
      BY <1>1, <2>1, <2>7, <2>8, <3>1 DEF OrderInv
    <3> QED BY <1>2, <1>4, <3>5, <3>6 DEF CInv
  <2> QED BY <2>10, <2>11
<1> QED BY <1>5, <1>6

\* A helper that ends without a page, or goes on being over.
LEMMA EndComplete ==
  ASSUME CInv, UNCHANGED <<helper, provider, items, removed, initial, requested, collected, twice>>,
         outcome' # "none", outcome' # "returned" \/ (warned' /\ ~Unwraps(helper.kind)),
         BoundIsExact'
  PROVE  CInv'
<1>1. TypeInv'
  BY DEF CInv, TypeInv
<1>2. OrderInv'
  BY SetupFixed DEF CInv, OrderInv
<1>3. Told => ~twice
  BY DEF CInv, OrderInv
<1>4. Complete'
  BY <1>3, SetupFixed DEF Complete, Told
<1> QED BY <1>1, <1>2, <1>4 DEF CInv

\* max_pages is exhausted.
LEMMA GiveUpComplete ==
  ASSUME CInv, GiveUp
  PROVE  CInv'
<1>1. /\ outcome = "none" /\ Exhausted /\ outcome' = "QuestBluePaginationError"
      /\ UNCHANGED <<helper, provider, items, removed, initial, requested, fetched, collected, twice>>
  BY DEF GiveUp
<1>2. ASSUME provider.truthful, "total_pages" \in provider.reports
      PROVE  PagesOf(items, provider.size) - helper.start + 1 > MaxPages
  <2>1. Told /\ helper.kind = "paginator"
    BY <1>1, <1>2 DEF Exhausted, Told, Informed
  <2>2. /\ requested \in Nat \ {0} /\ requested >= helper.start /\ helper.start \in Nat \ {0}
        /\ Reading /\ PagesOf(items, provider.size) \in Nat
    BY <1>1, <2>1, Ranges, PagesEnough DEF CInv, OrderInv, TypeInv
  <2>3. fetched = helper.start .. requested - 1
    BY <2>2 DEF Reading
  <2>4. requested \notin fetched
    BY <2>2, <2>3
  <2>5. Cardinality(fetched) = MaxPages /\ MaxPages \in Nat \ {0}
    BY <1>1, <2>4, BoundsAssumption DEF Exhausted
  <2>6. Cardinality(fetched) = requested - helper.start
    <3>1. requested - 1 \in Int /\ helper.start \in Int
      BY <2>2
    <3>2. Cardinality(helper.start .. requested - 1) =
            IF helper.start > requested - 1 THEN 0 ELSE requested - 1 - helper.start + 1
      BY <3>1, FS_Interval
    <3> QED BY <2>2, <2>3, <3>2
  <2>7. fetched # {}
    BY <2>5, FS_EmptySet
  <2>8. requested - 1 < PagesOf(items, provider.size)
    BY <1>2, <2>1, <2>2, <2>7 DEF Reading
  <2> QED BY <2>2, <2>5, <2>6, <2>8
<1>3. BoundIsExact'
  BY <1>1, <1>2 DEF BoundIsExact
<1> QED BY <1>1, <1>3, EndComplete

\* An item is added, behind all others.
LEMMA GrowComplete ==
  ASSUME CInv, Grow
  PROVE  CInv'
<1>1. /\ outcome = "none" /\ outcome' = outcome /\ items' = items + 1
      /\ UNCHANGED <<helper, provider, removed, initial, requested, fetched, collected, twice>>
  BY DEF Grow
<1>2. TypeInv /\ TypeInv'
  <2>1. items' \in Nat /\ initial' <= items' /\ 1 .. items \subseteq 1 .. items'
    BY <1>1 DEF CInv, TypeInv
  <2> QED BY <1>1, <2>1 DEF CInv, TypeInv
<1>3. \A i \in Present : i \in Present' /\ Place(i)' = Place(i)
  <2> SUFFICES ASSUME NEW i \in Present
               PROVE  i \in Present' /\ Place(i)' = Place(i)
    OBVIOUS
  <2>1. i \in 1 .. items /\ items \in Nat /\ removed \subseteq 1 .. items
    BY <1>2, Ranges DEF TypeInv
  <2>2. Present' = Present \union {items + 1}
    <3>1. 1 .. items + 1 = (1 .. items) \union {items + 1} /\ items + 1 \notin removed
      BY <2>1
    <3> QED BY <1>1, <3>1 DEF Present
  <2>3. {j \in Present' : j <= i} = {j \in Present : j <= i}
    BY <2>1, <2>2
  <2> QED BY <2>2, <2>3 DEF Place
<1>4. ASSUME Told
      PROVE  Reading' /\ collected \subseteq 1 .. items'
  <2>1. Reading /\ collected \subseteq 1 .. items /\ requested \in Nat \ {0}
    BY <1>1, <1>4 DEF CInv, OrderInv
  <2>2. collected \intersect Present' \subseteq collected \intersect Present
    BY <1>1, <2>1 DEF Present
  <2>3. (\A i \in collected \intersect Present : Place(i) <= (requested - 1) * provider.size)'
    BY <1>1, <1>3, <2>1, <2>2 DEF Reading
  <2>4. Missed' = Missed
    <3>1. \A i \in Wanted \ (collected \union removed) : Place(i)' = Place(i)
      BY <1>2, <1>3, MissedPresent
    <3> QED BY <1>1, <3>1, SetupFixed DEF Missed
  <2>5. PagesOf(items, provider.size) <= PagesOf(items', provider.size)
    BY <1>1, <1>2, PagesGrow, Ranges DEF TypeInv
  <2>6. PagesOf(items, provider.size) \in Nat /\ PagesOf(items', provider.size) \in Nat
    BY <1>1, <1>2, PagesEnough, Ranges DEF TypeInv
  <2>7. requested - 1 < PagesOf(items, provider.size) => requested - 1 < PagesOf(items', provider.size)
    BY <2>1, <2>5, <2>6
  <2>8. collected \subseteq 1 .. items'
    BY <1>1, <1>2, <2>1 DEF TypeInv
  <2>9. PagesOf(items, provider.size)' = PagesOf(items', provider.size)
    BY <1>1
  <2> QED BY <1>1, <2>1, <2>3, <2>4, <2>7, <2>8, <2>9 DEF Reading
<1>5. OrderInv'
  BY <1>1, <1>4, SetupFixed DEF CInv, OrderInv
<1>6. Told => ~twice
  BY DEF CInv, OrderInv
<1> QED BY <1>1, <1>2, <1>5, <1>6, SetupFixed DEF CInv, Complete, BoundIsExact, Told

\* An item is removed, and those behind it move forward: one of them may cross
\* the boundary of the pages that were read.
LEMMA RemoveComplete ==
  ASSUME CInv, Remove
  PROVE  CInv'
<1>1. /\ outcome = "none" /\ outcome' = outcome
      /\ UNCHANGED <<helper, provider, items, initial, requested, fetched, collected, twice>>
  BY DEF Remove
<1>2. PICK gone \in Present : removed' = removed \union {gone}
  BY DEF Remove
<1>3. TypeInv /\ TypeInv'
  <2>1. TypeInv
    BY DEF CInv
  <2> QED BY <1>1, <1>2, <2>1, Ranges DEF TypeInv
<1>4. Present' = Present \ {gone}
  BY <1>1, <1>2 DEF Present
<1>5. \A i \in Present' : Place(i)' \in {Place(i), Place(i) - 1}
  <2> SUFFICES ASSUME NEW i \in Present'
               PROVE  Place(i)' \in {Place(i), Place(i) - 1}
    OBVIOUS
  <2>1. {j \in Present' : j <= i} = Before(i) \ {gone}
    BY <1>4 DEF Before
  <2>2. IsFiniteSet(Before(i)) /\ Place(i) = Cardinality(Before(i))
    BY <1>3, <1>4, PlaceRange
  <2>3. Cardinality(Before(i) \ {gone}) \in {Cardinality(Before(i)), Cardinality(Before(i)) - 1}
    BY <2>2, FS_RemoveElement
  <2> QED BY <2>1, <2>2, <2>3 DEF Place
<1>6. \A i \in Present : Place(i) \in Nat
  BY <1>3, PlaceRange, Ranges
<1>7. Cardinality(removed') = Cardinality(removed) + 1 /\ Cardinality(removed) \in Nat
  BY <1>2, <1>3, Ranges, FS_AddElement DEF Present
<1>8. ASSUME Told
      PROVE  Reading'
  <2>1. Reading /\ requested \in Nat \ {0}
    BY <1>1, <1>8 DEF CInv, OrderInv
  <2> DEFINE low == (requested - 1) * provider.size
             Crossing == {i \in Present : Place(i) = low + 1}
  <2>2. low \in Nat /\ low' = low
    BY <1>1, <1>3, <2>1, PageBounds
  <2>3. \A i \in collected \intersect Present : Place(i) <= low
    BY <2>1 DEF Reading
  <2>4. Missed = {i \in Wanted \ (collected \union removed) : Place(i) <= low}
    BY DEF Missed
  <2>5. Missed' = {i \in Wanted \ (collected \union removed') : Place(i)' <= low}
    BY <1>1, SetupFixed DEF Missed
  <2>6. Wanted \ (collected \union removed') \subseteq Present'
    <3> SUFFICES ASSUME NEW i \in Wanted \ (collected \union removed')
                 PROVE  i \in Present'
      OBVIOUS
    <3>1. i \in Wanted \ (collected \union removed) /\ i # gone
      BY <1>2
    <3> QED BY <1>3, <1>4, <3>1, MissedPresent
  <2> HIDE DEF low
  <2>7. \A i \in collected \intersect Present' : Place(i)' <= low
    BY <1>4, <1>5, <1>6, <2>2, <2>3
  <2>8. Missed' \subseteq Missed \union Crossing
    <3> SUFFICES ASSUME NEW i \in Wanted \ (collected \union removed'), Place(i)' <= low
                 PROVE  i \in Missed \union Crossing
      BY <2>5
    <3>1. i \in Present /\ i \in Present'
      BY <1>4, <2>6
    <3>2. Place(i) <= low \/ Place(i) = low + 1
      BY <1>5, <1>6, <2>2, <3>1
    <3>3. i \in Wanted \ (collected \union removed)
      BY <1>2
    <3> QED BY <2>4, <3>1, <3>2, <3>3
  <2>9. IsFiniteSet(Crossing) /\ Cardinality(Crossing) <= 1 /\ Cardinality(Crossing) \in Nat
    <3>1. IsFiniteSet(Crossing)
      BY <1>3, Ranges, FS_Subset
    <3>2. CASE Crossing = {}
      <4>1. Cardinality(Crossing) = 0
        BY <3>2, FS_EmptySet
      <4> QED BY <3>1, <4>1
    <3>3. CASE Crossing # {}
      <4>1. PICK i \in Crossing : TRUE
        BY <3>3
      <4>2. \A k \in Crossing : k = i
        BY <1>3, <4>1, PlaceDiffers
      <4>3. Crossing = {i}
        BY <4>1, <4>2
      <4>4. Cardinality(Crossing) = 1
        BY <4>3, FS_Singleton
      <4> QED BY <3>1, <4>4
    <3> QED BY <3>2, <3>3
  <2> HIDE DEF Crossing
  <2>10. Cardinality(Missed') <= Cardinality(removed')
    <3>1. IsFiniteSet(Missed) /\ Cardinality(Missed) \in Nat /\ Cardinality(Missed) <= Cardinality(removed)
      BY <1>3, <2>1, MissedPresent DEF Reading
    <3>2. IsFiniteSet(Missed \union Crossing) /\ IsFiniteSet(Missed \intersect Crossing)
      BY <2>9, <3>1, FS_Union, FS_Subset
    <3>3. /\ Cardinality(Missed \union Crossing)
               = Cardinality(Missed) + Cardinality(Crossing) - Cardinality(Missed \intersect Crossing)
          /\ Cardinality(Missed \intersect Crossing) \in Nat
      BY <2>9, <3>1, <3>2, FS_Union, FS_CardinalityType
    <3>4. IsFiniteSet(Missed') /\ Cardinality(Missed') <= Cardinality(Missed \union Crossing)
      BY <2>8, <3>2, FS_Subset
    <3>5. Cardinality(Missed') \in Nat
      BY <3>4, FS_CardinalityType
    <3> QED BY <1>7, <2>9, <3>1, <3>3, <3>4, <3>5
  <2> QED BY <1>1, <2>1, <2>2, <2>7, <2>10 DEF Reading, low
<1>9. OrderInv'
  BY <1>1, <1>8, SetupFixed DEF CInv, OrderInv
<1>10. Told => ~twice
  BY DEF CInv, OrderInv
<1> QED BY <1>1, <1>3, <1>9, <1>10, SetupFixed DEF CInv, Complete, BoundIsExact, Told

\* The invariant holds in every reachable state.
THEOREM InOrder == Spec => []CInv
<1>1. CInv /\ [Next]_vars => CInv'
  <2> SUFFICES ASSUME CInv, [Next]_vars
               PROVE  CInv'
    OBVIOUS
  <2>1. CASE UNCHANGED vars
    <3>1. /\ UNCHANGED <<helper, provider, items, removed, initial, requested, fetched>>
          /\ UNCHANGED <<collected, twice, warned, outcome>>
      BY <2>1 DEF vars
    <3>2. TypeInv'
      BY <3>1 DEF CInv, TypeInv
    <3>3. Present' = Present /\ \A i : Place(i)' = Place(i)
      BY <3>1 DEF Present, Place
    <3>4. Missed' = Missed
      BY <3>1, <3>3, SetupFixed DEF Missed
    <3>5. Reading' <=> Reading
      BY <3>1, <3>3, <3>4 DEF Reading
    <3>6. OrderInv'
      BY <3>1, <3>5, SetupFixed DEF CInv, OrderInv
    <3>7. Complete' /\ BoundIsExact'
      BY <3>1, SetupFixed DEF CInv, Complete, BoundIsExact, Told
    <3> QED BY <3>2, <3>6, <3>7 DEF CInv
  <2>2. CASE ReceiveWarning
    <3>1. /\ outcome' = AfterWarning(helper.kind) /\ warned'
          /\ UNCHANGED <<helper, provider, items, removed, initial, requested, collected, twice>>
      BY <2>2 DEF ReceiveWarning, Request
    <3>2. outcome' # "QuestBluePaginationError" /\ outcome' # "none"
      BY <3>1 DEF AfterWarning
    <3>3. outcome' # "returned" \/ ~Unwraps(helper.kind)
      BY <3>1 DEF AfterWarning
    <3> QED BY <3>1, <3>2, <3>3, EndComplete DEF BoundIsExact
  <2>3. CASE RequestFails \/ Abandon
    <3>1. /\ outcome' \in {"raised", "abandoned"}
          /\ UNCHANGED <<helper, provider, items, removed, initial, requested, collected, twice>>
      BY <2>3 DEF RequestFails, Request, Abandon
    <3> QED BY <3>1, EndComplete DEF BoundIsExact
  <2> QED BY <2>1, <2>2, <2>3, GiveUpComplete, ReceiveComplete, GrowComplete, RemoveComplete
          DEF Next, Read, Over
<1> QED BY InitComplete, <1>1, PTL DEF Spec

\* A helper that is told the truth yields nothing twice, and misses no more than
\* was removed while it read.
THEOREM WholeCollection == Spec => []Complete
<1>1. CInv => Complete
  BY DEF CInv
<1> QED BY InOrder, <1>1, PTL

\* A paginator gives up only when there are more pages than it may request.
THEOREM ExactBound == Spec => []BoundIsExact
<1>1. CInv => BoundIsExact
  BY DEF CInv
<1> QED BY InOrder, <1>1, PTL

-----------------------------------------------------------------------------
(* How long reading can take *)

\* How many requests a helper has left at most, and the last word: a paginator by
\* its bound, the others by the pages there can be.
StepsLeft ==
  IF outcome # "none" THEN 0
  ELSE IF helper.kind = "paginator" THEN MaxPages + 1 - Cardinality(fetched)
  ELSE MaxItems + 3 - requested

\* A helper that gets somewhere whatever it is told, or is told the truth.
Bounded == helper.kind = "paginator" \/ Told

\* Every request brings such a helper closer to its end, abandoning it ends it, and
\* what is added or removed meanwhile takes it no step back.
ReadingComesToItsEnd ==
  [][Bounded => StepsLeft' < StepsLeft \/ ((Grow \/ Remove) /\ UNCHANGED StepsLeft)]_vars

\* A page is requested only when the one before it was a page of the collection.
RangeInv ==
  /\ items <= MaxItems
  /\ Told /\ helper.kind # "paginator" /\ outcome = "none" => requested <= MaxItems + 2

SInv == IInv /\ CInv /\ RangeInv

\* There is a next page only behind a page that has an item.
LEMMA ItemsBefore ==
  ASSUME TypeInv, Told, helper.kind # "paginator", requested \in Nat \ {0},
         NEW r \in Replies, More(r)
  PROVE  CurrentPage(r) = requested /\ requested <= items
<1> DEFINE n == Cardinality(Present)
           s == provider.size
<1>1. /\ s \in Nat \ {0} /\ n \in Nat /\ n <= items /\ items \in Nat
      /\ PerPage \in Nat \ {0}
  BY Ranges, BoundsAssumption DEF TypeInv
<1>2. helper.kind \in {"inventory", "calls", "faxes"}
  BY KindsOf DEF More
<1>3. CurrentPage(r) = requested
  BY <1>2, PageNumber
<1>4. CASE "total_pages" \in provider.reports
  <2>1. r.total_pages = {PagesOf(n, s)}
    BY <1>4, Truthful DEF Told, Report
  <2>2. requested < PagesOf(n, s)
    BY <1>2, <1>3, <2>1, ValueOf DEF More, MorePages
  <2>3. n * s \in Nat /\ n <= n * s
    <3>1. 1 * n = n /\ s * n = n * s
      BY <1>1
    <3>2. 1 * n <= s * n /\ s * n \in Nat
      BY <1>1, ProductGrows
    <3> QED BY <3>1, <3>2
  <2>4. PagesOf(n, s) \in Nat /\ PagesOf(n, s) <= n
    BY <1>1, <2>3, PagesEnough
  <2> QED BY <1>1, <1>3, <2>2, <2>4
<1>5. CASE "total_pages" \notin provider.reports
  <2>1. r.total_pages = {} /\ r.data = OnPage(requested) /\ helper.kind = "calls"
    BY <1>2, <1>5, Truthful DEF Told, Informed, Report
  <2>2. Cardinality(OnPage(requested)) >= PerPage
    BY <2>1 DEF More
  <2>3. PICK i \in Present : Place(i) > (requested - 1) * s
    <3>1. OnPage(requested) # {}
      <4>1. Cardinality({}) = 0
        BY FS_EmptySet
      <4> QED BY <1>1, <2>2, <4>1
    <3> QED BY <3>1 DEF OnPage
  <2>4. Place(i) \in Nat /\ Place(i) <= i /\ i <= items /\ i \in Nat
    BY <2>3, PlaceRange, Ranges
  <2>5. (requested - 1) * s \in Nat /\ requested - 1 <= (requested - 1) * s
    <3>1. 1 * (requested - 1) = requested - 1 /\ s * (requested - 1) = (requested - 1) * s
      BY <1>1
    <3>2. requested - 1 \in Nat
      OBVIOUS
    <3>3. 1 * (requested - 1) <= s * (requested - 1) /\ s * (requested - 1) \in Nat
      BY <1>1, <3>2, ProductGrows
    <3> QED BY <3>1, <3>3
  <2> QED BY <1>1, <1>3, <2>3, <2>4, <2>5
<1> QED BY <1>4, <1>5

LEMMA RangeStep ==
  ASSUME SInv, [Next]_vars
  PROVE  RangeInv'
<1>0. /\ items \in Nat /\ MaxItems \in Nat /\ items <= MaxItems /\ helper' = helper
      /\ Told' <=> Told
  BY BoundsAssumption
     DEF SInv, CInv, TypeInv, RangeInv, Next, Read, GiveUp, Receive, ReceiveWarning,
         RequestFails, Request, Abandon, Grow, Remove, Over, vars, Told, Informed
<1>1. ASSUME NEW r \in Replies, Receive(r)
      PROVE  RangeInv'
  <2>1. items' = items
    BY <1>1 DEF Receive, Request
  <2>2. ASSUME Told, helper.kind # "paginator", More(r)
        PROVE  requested' <= MaxItems + 2
    <3>1. requested \in Nat \ {0}
      BY <2>2 DEF SInv, CInv, OrderInv
    <3>2. CurrentPage(r) = requested /\ requested <= items
      BY <2>2, <3>1, ItemsBefore DEF SInv, CInv
    <3>3. requested' = requested + 1
      BY <1>1, <2>2, <3>2 DEF Receive
    <3> QED BY <1>0, <3>1, <3>2, <3>3
  <2>3. ~More(r) => outcome' # "none"
    BY <1>1 DEF Receive
  <2> QED BY <1>0, <2>1, <2>2, <2>3 DEF RangeInv
<1>2. CASE GiveUp \/ ReceiveWarning \/ RequestFails \/ Abandon
  BY <1>0, <1>2 DEF RangeInv, GiveUp, ReceiveWarning, RequestFails, Request, AfterWarning, Abandon
<1>3. CASE Grow \/ Remove
  BY <1>0, <1>3 DEF SInv, RangeInv, Grow, Remove
<1>4. CASE Over \/ UNCHANGED vars
  BY <1>0, <1>4 DEF SInv, RangeInv, Over, vars
<1> QED BY <1>1, <1>2, <1>3, <1>4 DEF Next, Read

\* An inventory, or a list of calls or faxes, that is told the truth goes on only past
\* a page that has an item: it never runs away behind the last page there can be.
THEOREM StaysInRange == Spec => []SInv
<1>1. Init => RangeInv
  <2> SUFFICES ASSUME Init PROVE RangeInv
    OBVIOUS
  <2>1. items \in 0 .. MaxItems /\ requested \in 1 .. 2 /\ MaxItems \in Nat
    BY BoundsAssumption DEF Init, Helpers
  <2> QED BY <2>1 DEF RangeInv
<1>2. SInv /\ [Next]_vars => RangeInv'
  BY RangeStep
<1> QED BY Invariance, InOrder, <1>1, <1>2, PTL DEF Spec, SInv

LEMMA StepsRange ==
  ASSUME SInv, Bounded
  PROVE  /\ StepsLeft \in Nat
         /\ outcome = "none" => StepsLeft > 0
         /\ IF helper.kind = "paginator" THEN StepsLeft <= MaxPages + 1
                                         ELSE StepsLeft <= MaxItems + 2
<1>1. MaxPages \in Nat \ {0} /\ MaxItems \in Nat
  BY BoundsAssumption
<1>2. CASE helper.kind = "paginator"
  <2>1. Cardinality(fetched) \in Nat /\ Cardinality(fetched) <= MaxPages
    BY <1>2, FS_CardinalityType DEF SInv, IInv, PaginatorBudget
  <2> QED BY <1>1, <1>2, <2>1 DEF StepsLeft
<1>3. CASE helper.kind # "paginator"
  <2>1. requested \in Nat \ {0} /\ (outcome = "none" => requested <= MaxItems + 2)
    BY <1>3 DEF Bounded, SInv, CInv, OrderInv, RangeInv
  <2> QED BY <1>1, <1>3, <2>1 DEF StepsLeft
<1> QED BY <1>2, <1>3

LEMMA ReadingShrinks ==
  ASSUME SInv, Bounded, [Next]_vars
  PROVE  \/ StepsLeft' < StepsLeft
         \/ (Grow \/ Remove) /\ UNCHANGED StepsLeft
         \/ UNCHANGED vars
<1>0. StepsLeft \in Nat /\ (outcome = "none" => StepsLeft > 0)
  BY StepsRange
<1>1. CASE (Read \/ Abandon) /\ outcome' # "none"
  <2>1. StepsLeft' = 0 /\ outcome = "none"
    BY <1>1 DEF StepsLeft, Read, GiveUp, Receive, ReceiveWarning, RequestFails, Request, Abandon
  <2> QED BY <1>0, <2>1
<1>2. CASE Read /\ outcome' = "none"
  <2>1. PICK r \in Replies : Receive(r) /\ More(r)
    BY <1>2 DEF Read, GiveUp, Receive, ReceiveWarning, RequestFails, AfterWarning
  <2>2. CASE helper.kind = "paginator"
    <3>1. /\ requested \notin fetched /\ fetched' = fetched \union {requested}
          /\ helper' = helper /\ outcome = "none"
      BY <2>1, <2>2 DEF Receive, Request, Exhausted
    <3>2. Cardinality(fetched) \in Nat /\ Cardinality(fetched') = Cardinality(fetched) + 1
      BY <3>1, FS_AddElement, FS_CardinalityType DEF SInv, IInv
    <3>3. MaxPages \in Nat
      BY BoundsAssumption
    <3> QED BY <1>2, <2>2, <3>1, <3>2, <3>3 DEF StepsLeft
  <2>3. CASE helper.kind # "paginator"
    <3>1. Told /\ requested \in Nat \ {0}
      BY <2>3 DEF Bounded, SInv, CInv, OrderInv
    <3>2. CurrentPage(r) = requested
      BY <2>1, <2>3, <3>1, ItemsBefore DEF SInv, CInv
    <3>3. requested' = requested + 1 /\ helper' = helper /\ outcome = "none"
      BY <2>1, <3>2 DEF Receive, Request
    <3>4. MaxItems \in Nat
      BY BoundsAssumption
    <3> QED BY <1>2, <2>3, <3>1, <3>3, <3>4 DEF StepsLeft
  <2> QED BY <2>2, <2>3
<1>3. CASE Grow \/ Remove
  <2>1. helper' = helper /\ outcome' = outcome /\ fetched' = fetched /\ requested' = requested
    BY <1>3 DEF Grow, Remove
  <2>2. StepsLeft' = StepsLeft
    BY <2>1 DEF StepsLeft
  <2> QED BY <1>3, <2>2
<1> QED BY <1>1, <1>2, <1>3 DEF Next, Abandon, Over

\* A paginator makes at most max_pages requests and one step more, whatever the
\* provider answers; a helper that is told the truth no more than there can be
\* pages, and two: what Terminates needs besides each of the requests being made.
THEOREM BoundedReading ==
  Spec => /\ [](Bounded => StepsLeft \in
                          0 .. IF helper.kind = "paginator" THEN MaxPages + 1 ELSE MaxItems + 2)
          /\ ReadingComesToItsEnd
<1>1. SInv => (Bounded => StepsLeft \in
                 0 .. IF helper.kind = "paginator" THEN MaxPages + 1 ELSE MaxItems + 2)
  BY StepsRange, BoundsAssumption
<1>2. SInv /\ [Next]_vars =>
        [Bounded => StepsLeft' < StepsLeft \/ ((Grow \/ Remove) /\ UNCHANGED StepsLeft)]_vars
  BY ReadingShrinks
<1> QED BY StaysInRange, <1>1, <1>2, PTL DEF Spec, ReadingComesToItsEnd
=============================================================================
