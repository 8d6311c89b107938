---------------------------- MODULE Listing_proofs ----------------------------
(***************************************************************************)
(* Proofs about Listing: the pages of a listing, for any number of         *)
(* patents, any lengths of pages and any createdAt, equal ones included.   *)
(***************************************************************************)
EXTENDS Listing, FiniteSetTheorems, TLAPS

\* The rows that the ORDER BY puts in front of p, and their number, which is what
\* skip counts.
Ahead(S, time, p) == {q \in S : Before(time, q, p)}
Rank(S, time, p) == Cardinality(Ahead(S, time, p))

\* The ranks that skip and take let through on page n.
Window(n, limit) == ((n - 1) * limit)..(n * limit - 1)

-----------------------------------------------------------------------------
(* Arithmetic *)

LEMMA TimesMonotone ==
  ASSUME NEW a \in Nat, NEW b \in Nat, NEW c \in Nat, a <= b
  PROVE  a * c <= b * c
  <1> DEFINE d == b - a
  <1>1. d \in Nat /\ b = a + d
    OBVIOUS
  <1>2. b * c = a * c + d * c
    BY <1>1
  <1>3. d * c \in Nat /\ a * c \in Nat
    BY <1>1
  <1> QED
    BY <1>2, <1>3

\* The windows of two pages do not meet.
LEMMA WindowsApart ==
  ASSUME NEW n \in Nat \ {0}, NEW m \in Nat \ {0}, NEW limit \in Nat \ {0}, n # m
  PROVE  Window(n, limit) \cap Window(m, limit) = {}
  <1>1. ASSUME NEW i \in Nat \ {0}, NEW j \in Nat \ {0}, i < j
        PROVE  Window(i, limit) \cap Window(j, limit) = {}
    <2>1. i * limit <= (j - 1) * limit
      BY <1>1, TimesMonotone
    <2>2. i * limit \in Nat /\ (j - 1) * limit \in Nat
      OBVIOUS
    <2> QED
      BY <2>1, <2>2 DEF Window
  <1> QED
    BY <1>1

LEMMA WindowSize ==
  ASSUME NEW n \in Nat \ {0}, NEW limit \in Nat \ {0}
  PROVE  IsFiniteSet(Window(n, limit)) /\ Cardinality(Window(n, limit)) = limit
  <1> DEFINE a == (n - 1) * limit
             b == n * limit - 1
  <1>1. a \in Int /\ b \in Int
    OBVIOUS
  <1>2. n * limit = (n - 1) * limit + limit
    OBVIOUS
  <1>3. b - a + 1 = limit /\ ~(a > b)
    BY <1>1, <1>2
  <1> HIDE DEF a, b
  <1>4. IsFiniteSet(a..b) /\ Cardinality(a..b) = limit
    BY <1>1, <1>3, FS_Interval
  <1> QED
    BY <1>4 DEF Window, a, b

\* Every rank is on a page, and on one of those that TotalPages counts.
LEMMA RankHasPage ==
  ASSUME NEW limit \in Nat \ {0}, NEW size \in Nat, NEW r \in Nat, r < size
  PROVE  \E n \in 1..((size + limit - 1) \div limit) : r \in Window(n, limit)
  <1> DEFINE k == r \div limit
             t == (size + limit - 1) \div limit
  <1>1. k \in Nat /\ limit * k <= r /\ r < limit * k + limit
    OBVIOUS
  <1>2. t \in Nat /\ size + limit - 1 < limit * t + limit
    <2>1. size + limit - 1 \in Nat
      OBVIOUS
    <2> QED
      BY <2>1
  <1> HIDE DEF k, t
  <1>3. k < t
    <2> SUFFICES ASSUME t <= k PROVE FALSE
      BY <1>1, <1>2
    <2>1. t * limit <= k * limit
      BY <1>1, <1>2, TimesMonotone
    <2>2. t * limit = limit * t /\ k * limit = limit * k
      BY <1>1, <1>2
    <2>3. limit * t \in Nat /\ limit * k \in Nat
      BY <1>1, <1>2
    <2> QED
      BY <1>1, <1>2, <2>1, <2>2, <2>3
  <1>4. r \in Window(k + 1, limit)
    <2>1. (k + 1 - 1) * limit = limit * k /\ (k + 1) * limit = limit * k + limit
      BY <1>1
    <2>2. limit * k \in Nat
      BY <1>1
    <2> QED
      BY <1>1, <2>1, <2>2 DEF Window
  <1>5. k + 1 \in 1..t
    BY <1>1, <1>2, <1>3
  <1> QED
    BY <1>4, <1>5 DEF t

-----------------------------------------------------------------------------
(* The order of the rows: createdAt, and id where createdAt is the same *)

LEMMA IdsFinite == IsFiniteSet(Ids)
  BY BoundsAssumption, FS_Interval DEF Ids

LEMMA BeforeIsAnOrder ==
  ASSUME NEW time \in [Ids -> Times]
  PROVE  /\ \A p \in Ids : ~Before(time, p, p)
         /\ \A p, q \in Ids : p # q => Before(time, p, q) \/ Before(time, q, p)
         /\ \A p, q, r \in Ids :
               Before(time, p, q) /\ Before(time, q, r) => Before(time, p, r)
  <1>1. \A p \in Ids : p \in Int
    BY BoundsAssumption DEF Ids
  <1>2. \A p \in Ids : time[p] \in Int
    <2>1. \A p \in Ids : time[p] \in Times
      OBVIOUS
    <2>2. Times \subseteq Int
      BY ListingAssumption
    <2> QED
      BY <2>1, <2>2
  <1> QED
    BY <1>1, <1>2 DEF Before

\* Ranks are 0, 1, ... without a gap or a tie: a set of n rows has its ranks below n,
\* and no two of its rows share one.
LEMMA RankBounded ==
  ASSUME NEW S \in SUBSET Ids, NEW time \in [Ids -> Times], NEW p \in S
  PROVE  /\ IsFiniteSet(S)
         /\ Rank(S, time, p) \in Nat
         /\ Cardinality(S) \in Nat
         /\ Rank(S, time, p) < Cardinality(S)
  <1>1. IsFiniteSet(S)
    BY IdsFinite, FS_Subset
  <1>2. IsFiniteSet(S \ {p}) /\ Cardinality(S \ {p}) = Cardinality(S) - 1
    BY <1>1, FS_RemoveElement
  <1>3. Ahead(S, time, p) \in SUBSET (S \ {p})
    BY BeforeIsAnOrder DEF Ahead
  <1>4. IsFiniteSet(Ahead(S, time, p)) /\ Rank(S, time, p) <= Cardinality(S \ {p})
    BY <1>2, <1>3, FS_Subset DEF Rank
  <1>5. Rank(S, time, p) \in Nat /\ Cardinality(S) \in Nat
    BY <1>1, <1>4, FS_CardinalityType DEF Rank
  <1> QED
    BY <1>1, <1>2, <1>4, <1>5

LEMMA RanksDiffer ==
  ASSUME NEW S \in SUBSET Ids, NEW time \in [Ids -> Times],
         NEW p \in S, NEW q \in S, p # q
  PROVE  Rank(S, time, p) # Rank(S, time, q)
  <1>1. ASSUME NEW a \in S, NEW b \in S, Before(time, a, b)
        PROVE  Rank(S, time, a) # Rank(S, time, b)
    <2>1. Ahead(S, time, a) \in SUBSET Ahead(S, time, b)
      BY <1>1, BeforeIsAnOrder DEF Ahead
    <2>2. a \in Ahead(S, time, b) /\ a \notin Ahead(S, time, a)
      BY <1>1, BeforeIsAnOrder DEF Ahead
    <2>3. IsFiniteSet(Ahead(S, time, b))
      <3>1. IsFiniteSet(S) /\ Ahead(S, time, b) \in SUBSET S
        BY RankBounded DEF Ahead
      <3> QED
        BY <3>1, FS_Subset
    <2> QED
      BY <2>1, <2>2, <2>3, FS_Subset DEF Rank
  <1> QED
    BY <1>1, BeforeIsAnOrder

-----------------------------------------------------------------------------
(* The pages *)

\* A page is the rows whose rank is in its window.
LEMMA PageByRank ==
  ASSUME NEW S \in SUBSET Ids, NEW time \in [Ids -> Times],
         NEW n \in Nat \ {0}, NEW limit \in Nat \ {0}
  PROVE  Page(S, time, n, limit) = {p \in S : Rank(S, time, p) \in Window(n, limit)}
  <1>1. ASSUME NEW p \in S
        PROVE  (/\ Rank(S, time, p) >= (n - 1) * limit
                /\ Rank(S, time, p) < n * limit) <=> Rank(S, time, p) \in Window(n, limit)
    <2>1. Rank(S, time, p) \in Nat
      BY RankBounded
    <2>2. (n - 1) * limit \in Nat /\ n * limit \in Nat
      OBVIOUS
    <2> QED
      BY <2>1, <2>2 DEF Window
  <1>2. Page(S, time, n, limit)
          = {p \in S : /\ Rank(S, time, p) >= (n - 1) * limit
                       /\ Rank(S, time, p) < n * limit}
    BY DEF Page, Rank, Ahead
  <1> QED
    BY <1>1, <1>2

\* No page is longer than was asked: its rows have different ranks in its window.
LEMMA PageIsShort ==
  ASSUME NEW S \in SUBSET Ids, NEW time \in [Ids -> Times],
         NEW n \in Nat \ {0}, NEW limit \in Nat \ {0}
  PROVE  Cardinality(Page(S, time, n, limit)) <= limit
  <1> DEFINE P == Page(S, time, n, limit)
             f == [p \in P |-> Rank(S, time, p)]
  <1>1. P \subseteq S /\ \A p \in P : Rank(S, time, p) \in Window(n, limit)
    BY PageByRank
  <1>2. f \in Injection(P, Window(n, limit))
    <2> HIDE DEF P
    <2>1. f \in [P -> Window(n, limit)]
      BY <1>1
    <2>2. \A p, q \in P : f[p] = f[q] => p = q
      BY <1>1, RanksDiffer
    <2> QED
      BY <2>1, <2>2 DEF Injection, IsInjective
  <1> HIDE DEF P, f
  <1>3. Cardinality(P) <= Cardinality(Window(n, limit))
    BY <1>2, WindowSize, FS_Injection
  <1> QED
    BY <1>3, WindowSize DEF P

LEMMA PagesApart ==
  ASSUME NEW S \in SUBSET Ids, NEW time \in [Ids -> Times],
         NEW n \in Nat \ {0}, NEW m \in Nat \ {0}, NEW limit \in Nat \ {0}, n # m
  PROVE  Page(S, time, n, limit) \cap Page(S, time, m, limit) = {}
  BY PageByRank, WindowsApart

LEMMA PagesAreNumbered ==
  ASSUME NEW S \in SUBSET Ids, NEW limit \in Nat \ {0}
  PROVE  1..TotalPages(S, limit) \subseteq Nat \ {0}
  OBVIOUS

\* Every row is on a page, and the pages show no other.
LEMMA PagesCover ==
  ASSUME NEW S \in SUBSET Ids, NEW time \in [Ids -> Times], NEW limit \in Nat \ {0}
  PROVE  /\ \A p \in S : \E n \in 1..TotalPages(S, limit) : p \in Page(S, time, n, limit)
         /\ \A n \in 1..TotalPages(S, limit) : Page(S, time, n, limit) \subseteq S
  <1>1. ASSUME NEW p \in S
        PROVE  \E n \in 1..TotalPages(S, limit) : p \in Page(S, time, n, limit)
    <2>1. PICK n \in 1..((Cardinality(S) + limit - 1) \div limit) :
             Rank(S, time, p) \in Window(n, limit)
      BY RankBounded, RankHasPage
    <2>2. n \in Nat \ {0}
      OBVIOUS
    <2>3. p \in Page(S, time, n, limit)
      BY <2>1, <2>2, PageByRank
    <2>4. TotalPages(S, limit) = (Cardinality(S) + limit - 1) \div limit
      BY DEF TotalPages
    <2> QED
      BY <2>3, <2>4
  <1>2. \A n \in 1..TotalPages(S, limit) : Page(S, time, n, limit) \subseteq S
    BY DEF Page
  <1> QED
    BY <1>1, <1>2

-----------------------------------------------------------------------------
(* What a reader finds is what may be opened *)

LEMMA ListFilterIsSought ==
  ASSUME NEW u, NEW f
  PROVE  /\ ListFilter(u, f) = {p \in Ids : Opens(u, p) /\ Asked(f, p)}
         /\ ListFilter(u, f) \in SUBSET Ids
  BY DEF ListFilter, Opens, Visible

LEMMA AlwaysExact == ListingIsExact
  <1> SUFFICES ASSUME NEW u \in Users, NEW f \in Filters, NEW limit \in Limits,
                      NEW time \in [Ids -> Times]
               PROVE  LET S == ListFilter(u, f)
                          sought == {p \in Ids : Opens(u, p) /\ Asked(f, p)}
                          page == [n \in 1..TotalPages(S, limit) |->
                                      Page(S, time, n, limit)] IN
                      /\ UNION Range(page) = sought
                      /\ \A n \in DOMAIN page :
                            /\ Cardinality(page[n]) <= limit
                            /\ \A m \in DOMAIN page : m # n => page[m] \cap page[n] = {}
    BY DEF ListingIsExact
  <1> DEFINE S == ListFilter(u, f)
             N == 1..TotalPages(S, limit)
             page == [n \in N |-> Page(S, time, n, limit)]
  <1>1. S = {p \in Ids : Opens(u, p) /\ Asked(f, p)} /\ S \in SUBSET Ids
    BY ListFilterIsSought
  <1>2. limit \in Nat \ {0}
    BY ListingAssumption
  <1> HIDE DEF S
  <1>3. N \subseteq Nat \ {0}
    BY <1>1, <1>2, PagesAreNumbered
  <1>4. /\ \A p \in S : \E n \in N : p \in Page(S, time, n, limit)
        /\ \A n \in N : Page(S, time, n, limit) \subseteq S
    BY <1>1, <1>2, PagesCover
  <1> HIDE DEF N
  <1>5. UNION Range(page) = S
    BY <1>4 DEF Range
  <1>6. ASSUME NEW n \in N
        PROVE  /\ Cardinality(page[n]) <= limit
               /\ \A m \in N : m # n => page[m] \cap page[n] = {}
    BY <1>1, <1>2, <1>3, PageIsShort, PagesApart
  <1> QED
    BY <1>1, <1>5, <1>6 DEF S, N

\* The listing of every state the handlers reach is exact: each patent that the
\* reader may open and asked for is on one page and on one only, no page shows
\* another, and none is longer than its limit, for any number of patents, any
\* createdAt they share and any limit (buildListFilter and listPatents).
THEOREM ListingsAreExact == Spec => []ListingIsExact
  BY AlwaysExact, PTL

=============================================================================
