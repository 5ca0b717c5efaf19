------------------------------ MODULE Listing ------------------------------
(***************************************************************************)
(* A caller follows the page tokens of a list to its end while entries     *)
(* come and go.                                                            *)
(*                                                                         *)
(*  - ListManagedIdentities pages through a table in the order of its ids. *)
(*    The token is the last id of the page before.                         *)
(*  - ListServices, ListServicePolicies and the three lists by tag page    *)
(*    through a list of the controller, which filters by name at most.     *)
(*    Everything else is matched here, so that one page can take several   *)
(*    fetches and end in the middle of one.  The token is an offset.       *)
(***************************************************************************)
EXTENDS Integers, FiniteSets, Functions

CONSTANTS
    Ids,                \* entries, as numbers in the order of the list
    Matching,           \* those that the caller asks for
    Sizes,              \* page sizes a caller asks for
    defaultPageSize,    \* the size when none is asked for
    maxPageSize,        \* limit of the table's pages, and of the controller's answers
    MaxChanges,         \* bound on the insertions and on the deletions
    MaxFailures         \* bound on the failing fetches

ASSUME IdsAssumption == Ids \subseteq Nat \ {0} /\ IsFiniteSet(Ids) /\ Matching \subseteq Ids
ASSUME SizesAssumption ==
    /\ Sizes \subseteq Int
    /\ defaultPageSize \in Nat \ {0} /\ maxPageSize \in Nat \ {0}
ASSUME BoundsAssumption == MaxChanges \in Nat /\ MaxFailures \in Nat

VARIABLES
    source,     \* "table" or "controller"
    present,    \* the entries; of a controller's list those that pass its own filter
    listing,    \* "idle", "open" between pages, "scanning" inside one, "ended"
    token,      \* the id or offset in the page token
    limit,      \* of the page being put together
    offset,     \* of its next fetch
    items,      \* how often each entry is on it so far
    times,      \* how often each entry was on a page
    inserted, deleted, failures,
    throughout  \* history: entries that have been there since the first page

vars == <<source, present, listing, token, limit, offset, items, times,
          inserted, deleted, failures, throughout>>

Nothing == [i \in Ids |-> 0]

Init ==
    /\ source \in {"table", "controller"}
    /\ present \in SUBSET Ids
    /\ listing = "idle"
    /\ token = 0 /\ limit = 0 /\ offset = 0
    /\ items = Nothing /\ times = Nothing
    /\ inserted = 0 /\ deleted = 0 /\ failures = 0
    /\ throughout = {}

\* The first n entries of S in the order of the list.
First(S, n) == {i \in S : Cardinality({j \in S : j < i}) < n}

StartListing ==
    /\ listing = "idle"
    /\ listing' = "open" /\ throughout' = present
    /\ UNCHANGED <<source, present, token, limit, offset, items, times,
                   inserted, deleted, failures>>

---------------------------------------------------------------------------
(* Pages of the table                                                      *)

normalizePageSize(size) ==
    IF size <= 0 THEN defaultPageSize
    ELSE IF size > maxPageSize THEN maxPageSize ELSE size

\* Variant: the row of the token itself is included.
CandidatesInclusive == {i \in present \cap Matching : i >= token}

\* The WHERE clause.
Candidates == {i \in present \cap Matching : i > token}

\* Variant: the token is the row that was only fetched to look ahead.
PageFromLookAhead(n) ==
    LET fetched == First(Candidates, n + 1)
    IN IF Cardinality(fetched) > n
       THEN /\ times' = [i \in Ids |-> times[i] + IF i \in First(fetched, n) THEN 1 ELSE 0]
            /\ token' \in fetched /\ \A i \in fetched : i <= token'
            /\ UNCHANGED listing
       ELSE /\ times' = [i \in Ids |-> times[i] + IF i \in fetched THEN 1 ELSE 0]
            /\ listing' = "ended" /\ UNCHANGED token

\* One row more than the page holds is fetched, to know whether there is a next
\* page, whose token is the last row kept.
Page(n) ==
    LET fetched == First(Candidates, n + 1)
        kept == First(fetched, n)
    IN IF Cardinality(fetched) > n
       THEN /\ times' = [i \in Ids |-> times[i] + IF i \in kept THEN 1 ELSE 0]
            /\ token' \in kept /\ \A i \in kept : i <= token'
            /\ UNCHANGED listing
       ELSE /\ times' = [i \in Ids |-> times[i] + IF i \in fetched THEN 1 ELSE 0]
            /\ listing' = "ended" /\ UNCHANGED token

ListManagedIdentities(size) ==
    /\ source = "table" /\ listing = "open"
    /\ Page(normalizePageSize(size))
    /\ UNCHANGED <<source, present, limit, offset, items, inserted, deleted,
                   failures, throughout>>

---------------------------------------------------------------------------
(* Pages of the controller's lists                                         *)

listPagination(size) == IF size <= 0 THEN defaultPageSize ELSE size

Total == Cardinality(present)
Position(i) == Cardinality({j \in present : j < i})

\* The limit the controller applies and reports.
PageLimit == IF limit < maxPageSize THEN limit ELSE maxPageSize

Fetched == {i \in present : offset <= Position(i) /\ Position(i) < offset + PageLimit}

PageLength(page) == SumFunction(page)

\* What the loop over the fetched entries appends before the page is full.
Take == First(Fetched \cap Matching, limit - PageLength(items))

With(page) == [i \in Ids |-> page[i] + IF i \in Take THEN 1 ELSE 0]

\* Variant: the next page begins after the fetched entries, not inside them.
TokenSkips(next) ==
    IF next >= Total THEN listing' = "ended" /\ UNCHANGED token
    ELSE listing' = "open" /\ token' = offset + PageLimit

\* No token once nothing is left.
pageTokenFromOffset(next) ==
    IF next >= Total THEN listing' = "ended" /\ UNCHANGED token
    ELSE listing' = "open" /\ token' = next

Deliver ==
    /\ times' = [i \in Ids |-> times[i] + With(items)[i]]
    /\ items' = Nothing
    /\ UNCHANGED offset

\* Variant: the offset advances by what was kept of a fetch.
AdvanceByKept ==
    IF offset + PageLimit >= Total
    THEN listing' = "ended" /\ Deliver /\ UNCHANGED token
    ELSE /\ items' = With(items) /\ offset' = offset + Cardinality(Take)
         /\ UNCHANGED <<listing, token, times>>

\* The page is not full, so go on with the next fetch, if there is one.
nextPageOffset ==
    IF offset + PageLimit >= Total
    THEN listing' = "ended" /\ Deliver /\ UNCHANGED token
    ELSE /\ items' = With(items) /\ offset' = offset + PageLimit
         /\ UNCHANGED <<listing, token, times>>

StartPage(size) ==
    /\ source = "controller" /\ listing = "open"
    /\ listing' = "scanning"
    /\ limit' = listPagination(size) /\ offset' = token
    /\ UNCHANGED <<source, present, token, items, times, inserted, deleted,
                   failures, throughout>>

Fetch ==
    /\ listing = "scanning"
    /\ IF PageLength(With(items)) = limit
       THEN /\ \E last \in Take :
                 /\ \A i \in Take : i <= last
                 /\ pageTokenFromOffset(Position(last) + 1)
            /\ Deliver
       ELSE nextPageOffset
    /\ UNCHANGED <<source, present, limit, inserted, deleted, failures, throughout>>

\* A failing fetch fails the page; the caller asks for it again.
FailFetch ==
    /\ listing = "scanning"
    /\ failures < MaxFailures /\ failures' = failures + 1
    /\ listing' = "open" /\ items' = Nothing
    /\ UNCHANGED <<source, present, token, limit, offset, times, inserted,
                   deleted, throughout>>

---------------------------------------------------------------------------
(* Other callers                                                           *)

Insert(i) ==
    /\ inserted < MaxChanges /\ inserted' = inserted + 1
    /\ listing \in {"open", "scanning"} /\ i \notin present
    /\ present' = present \cup {i}
    /\ UNCHANGED <<source, listing, token, limit, offset, items, times, deleted,
                   failures, throughout>>

Delete(i) ==
    /\ deleted < MaxChanges /\ deleted' = deleted + 1
    /\ listing \in {"open", "scanning"} /\ i \in present
    /\ present' = present \ {i} /\ throughout' = throughout \ {i}
    /\ UNCHANGED <<source, listing, token, limit, offset, items, times, inserted,
                   failures>>

---------------------------------------------------------------------------

NextPage == \E size \in Sizes : ListManagedIdentities(size) \/ StartPage(size)

Next ==
    \/ StartListing \/ NextPage \/ Fetch \/ FailFetch
    \/ \E i \in Ids : Insert(i) \/ Delete(i)

Spec == Init /\ [][Next]_vars

\* A page is put together to its end, and the caller asks for the next one.
FairSpec == Spec /\ WF_vars(NextPage) /\ WF_vars(Fetch)

---------------------------------------------------------------------------
(* Properties                                                              *)

Missed == {i \in throughout \cap Matching : times[i] = 0}

\* A listing of the table shows no identity twice, whatever is inserted and
\* deleted in between, reinserted included.
NothingListedTwice == source = "table" => \A i \in Ids : times[i] <= 1

\* One that has come to its end has shown every identity of the type asked for
\* that was in the table all the time.
StayersAreListed == source = "table" /\ listing = "ended" => Missed = {}

\* An offset shifts with every deletion and insertion in front of it, and no
\* further: a listing of the controller misses no more of the entries that stayed
\* than were deleted meanwhile, and repeats no more than were inserted.
DriftIsBounded ==
    source = "controller" =>
        /\ listing = "ended" => Cardinality(Missed) <= deleted
        /\ Cardinality({i \in throughout : times[i] > 1}) <= inserted
        /\ \A i \in throughout : times[i] <= 1 + inserted

\* Following the tokens comes to an end, also when pages hold few of the entries
\* that are fetched and fetches fail.
ListingEnds == listing = "open" ~> listing = "ended"
=============================================================================
