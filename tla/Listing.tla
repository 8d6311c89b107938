------------------------------- MODULE Listing -------------------------------
(***************************************************************************)
(* What the reads of the patent workflow return (patents/access.js and the *)
(* listing in services/patentService.js) of any state its handlers leave.  *)
(* They change nothing, so they are operators on the tables of             *)
(* PatentWorkflow: who reads is u, and time is a patent's createdAt.       *)
(***************************************************************************)
EXTENDS PatentWorkflow, FiniteSets, Functions

CONSTANTS
    Filters,  \* the queries that are asked
    Times,    \* values of createdAt
    Limits    \* lengths of a page

\* The text searched for stands for one that the text fields contain; the filters
\* on category and jurisdiction are of the same form as that on the submitter.
Filter == [status: (Statuses \ {"absent"}) \cup {"any"}, submittedBy: Users \cup {None},
           search: Contents \cup {None}]

ASSUME ListingAssumption ==
    Filters \subseteq Filter /\ Times \subseteq Nat /\ Limits \subseteq Nat \ {0}

-----------------------------------------------------------------------------
(* One patent *)

\* visibilityWhere: an admin's, one's own, and what was approved.
Visible(u) ==
    {p \in Ids : Exists(p) /\ \/ u \in Admins
                              \/ patent[p].submittedBy = u
                              \/ patent[p].status = "approved"}

\* findVisiblePatent, in front of the patent and of its document's URL.
Opens(u, p) == p \in Visible(u)

-----------------------------------------------------------------------------
(* The listing *)

FieldsMatch(f, p) ==
    /\ f.status # "any" => patent[p].status = f.status
    /\ f.submittedBy # None => patent[p].submittedBy = f.submittedBy

Found(f, p) == patent[p].content = f.search

Asked(f, p) == FieldsMatch(f, p) /\ (f.search # None => Found(f, p))

\* Mutant: the rules are spread into one object, where the search's OR takes the
\* place of that of visibility.
SpreadFilter(u, f) ==
    {p \in Ids : /\ Exists(p) /\ FieldsMatch(f, p)
                 /\ IF f.search = None THEN p \in Visible(u) ELSE Found(f, p)}

\* buildListFilter: visibility AND every filter that was sent.
ListFilter(u, f) == {p \in Visible(u) : Asked(f, p)}

\* orderBy createdAt desc, id desc.
Before(time, p, q) == time[p] > time[q] \/ (time[p] = time[q] /\ p > q)

\* skip and take.
Page(S, time, n, limit) ==
    {p \in S : LET skipped == Cardinality({q \in S : Before(time, q, p)}) IN
               skipped >= (n - 1) * limit /\ skipped < n * limit}

TotalPages(S, limit) ==
    IF S = {} THEN 1 ELSE (Cardinality(S) + limit - 1) \div limit

-----------------------------------------------------------------------------
(* Properties *)

\* A listing shows exactly what can be opened: whatever is searched for, however
\* long the pages are and however many patents share a createdAt, each patent that
\* the reader can open and that was asked for is on exactly one of its pages, and
\* no page shows another ("drops the visibility rule and exposes every user's
\* drafts", buildListFilter; "on two pages or on neither", listPatents).
ListingIsExact ==
    \A u \in Users, f \in Filters, limit \in Limits :
        LET S == ListFilter(u, f)
            sought == {p \in Ids : Opens(u, p) /\ Asked(f, p)} IN
        \A time \in [Ids -> Times] :
            LET page == [n \in 1..TotalPages(S, limit) |-> Page(S, time, n, limit)] IN
            /\ UNION Range(page) = sought
            /\ \A n \in DOMAIN page :
                  /\ Cardinality(page[n]) <= limit
                  /\ \A m \in DOMAIN page : m # n => page[m] \cap page[n] = {}

=============================================================================
