----------------------------- MODULE ListProofs -----------------------------
(***************************************************************************)
(* Listings, for any number of entries, page sizes and changes between the *)
(* pages: of the table, nothing twice, and nothing missed that stayed; of  *)
(* the controller, no more than was inserted and deleted meanwhile.  And   *)
(* patches of role attributes, for any lists and any number of calls.      *)
(*                                                                         *)
(* The invariant of a listing of the table is the meaning of the token:    *)
(* what has been shown is not beyond it, and what stayed and is not beyond *)
(* it has been shown.  Of the controller's lists that holds but for what   *)
(* the insertions and deletions took from one side of the offset to the    *)
(* other (Drift).  The invariant of the patches is that a call that was    *)
(* not overtaken has read what the controller has.                         *)
(*                                                                         *)
(* The sum of a page's counts and the merge are recursions, over a set and *)
(* over a list; what they compute is shown for the least set or number of  *)
(* entries for which it would fail.                                        *)
(***************************************************************************)
EXTENDS Listing, RoleAttributes, FiniteSetTheorems, WellFoundedInduction, TLAPS

TableInv ==
    source = "table" =>
        /\ present \subseteq Ids /\ throughout \subseteq present
        /\ listing \in {"idle", "open", "ended"}
        /\ token \in Nat /\ (listing = "idle" => token = 0 /\ throughout = {})
        /\ times \in [Ids -> {0, 1}]
        /\ listing # "ended" => \A i \in Ids : times[i] = 1 => i <= token
        /\ \A i \in throughout \cap Matching :
              i <= token \/ listing = "ended" => times[i] = 1

---------------------------------------------------------------------------
(* Lemmas about sets of numbers                                            *)

\* A set of numbers has a least element.
LEMMA Least ==
    ASSUME NEW T \in SUBSET Nat, T # {}
    PROVE  \E m \in T : \A n \in T : m <= n
<1> DEFINE F == {0..m : m \in T}
<1>1. F \subseteq FiniteSubsetsOf(Nat)
  <2> SUFFICES ASSUME NEW m \in T PROVE 0..m \in FiniteSubsetsOf(Nat)
    OBVIOUS
  <2>1. IsFiniteSet(0..m) BY FS_Interval
  <2> QED BY <2>1 DEF FiniteSubsetsOf
<1>2. F # {}
  OBVIOUS
<1>3. PICK U \in F : \A V \in F : <<V, U>> \notin StrictSubsetOrdering(Nat)
  <2>1. IsWellFoundedOn(StrictSubsetOrdering(Nat), FiniteSubsetsOf(Nat))
    BY FS_StrictSubsetOrderingWellFounded
  <2> HIDE DEF F
  <2> QED BY <1>1, <1>2, <2>1, WFMin
<1>4. PICK m \in T : U = 0..m
  OBVIOUS
<1>5. ASSUME NEW n \in T PROVE m <= n
  <2> SUFFICES ASSUME n < m PROVE FALSE
    OBVIOUS
  <2>1. 0..n \in F /\ 0..n \subseteq 0..m /\ 0..m \subseteq Nat
    OBVIOUS
  <2>2. 0..n # 0..m
    <3>1. m \in 0..m /\ m \notin 0..n OBVIOUS
    <3> QED BY <3>1
  <2>3. <<0..n, 0..m>> \in StrictSubsetOrdering(Nat)
    BY <2>1, <2>2 DEF StrictSubsetOrdering
  <2> QED BY <1>3, <1>4, <2>1, <2>3
<1> QED BY <1>5

\* The predecessors of i in a finite set of numbers are finitely many.
LEMMA Before ==
    ASSUME NEW S \in SUBSET Nat, IsFiniteSet(S), NEW i \in S
    PROVE  LET B == {j \in S : j < i}
           IN IsFiniteSet(B) /\ Cardinality(B) \in Nat
<1>1. IsFiniteSet({j \in S : j < i})
  <2>1. {j \in S : j < i} \subseteq S OBVIOUS
  <2> QED BY <2>1, FS_Subset
<1> QED BY <1>1, FS_CardinalityType

\* What precedes one of the first n entries is one of them.
LEMMA FirstIsClosed ==
    ASSUME NEW S \in SUBSET Nat, IsFiniteSet(S), NEW n \in Nat,
           NEW i \in S, NEW m \in First(S, n), i <= m
    PROVE  i \in First(S, n)
<1>1. m \in S /\ Cardinality({j \in S : j < m}) < n
  BY DEF First
<1>2. {j \in S : j < i} \subseteq {j \in S : j < m}
  <2>1. ASSUME NEW j \in S, j < i PROVE j < m
    <3>1. j \in Nat /\ i \in Nat /\ m \in Nat
      BY <1>1
    <3> QED BY <2>1, <3>1
  <2> QED BY <2>1
<1>3. Cardinality({j \in S : j < i}) <= Cardinality({j \in S : j < m})
  BY <1>1, <1>2, Before, FS_Subset
<1> QED BY <1>1, <1>3, Before DEF First

\* If fewer than n entries come first there are no others.
LEMMA FewAreAll ==
    ASSUME NEW S \in SUBSET Nat, IsFiniteSet(S), NEW n \in Nat,
           Cardinality(First(S, n + 1)) <= n
    PROVE  First(S, n + 1) = S
<1> DEFINE F == First(S, n + 1)
<1>1. F \subseteq S
  BY DEF First
<1>2. IsFiniteSet(F) /\ Cardinality(F) \in Nat
  BY <1>1, FS_Subset, FS_CardinalityType
<1>3. ASSUME S \ F # {} PROVE FALSE
  <2>1. PICK m \in S \ F : \A k \in S \ F : m <= k
    BY <1>3, Least
  <2>2. {j \in S : j < m} \subseteq F
    <3> SUFFICES ASSUME NEW j \in S, j < m, j \notin F PROVE FALSE
      BY <1>1
    <3>1. m <= j /\ m \in Nat /\ j \in Nat
      BY <2>1
    <3> QED BY <3>1
  <2>3. Cardinality({j \in S : j < m}) <= Cardinality(F)
    BY <1>2, <2>2, FS_Subset
  <2>4. ~(Cardinality({j \in S : j < m}) < n + 1)
    BY <2>1 DEF First
  <2>5. Cardinality({j \in S : j < m}) \in Nat
    BY <2>1, Before
  <2> HIDE DEF F
  <2>6. Cardinality(F) <= n
    BY DEF F
  <2> QED BY <1>2, <2>3, <2>4, <2>5, <2>6
<1> QED BY <1>1, <1>3

---------------------------------------------------------------------------
(* The invariant                                                           *)

\* The invariant holds before the first page.
LEMMA InitTable == Init => TableInv
BY DEF Init, TableInv, Nothing

\* Whatever is asked for, the size of a page is a number.
LEMMA SizeType ==
    ASSUME NEW size \in Sizes PROVE normalizePageSize(size) \in Nat
BY SizesAssumption DEF normalizePageSize

\* A page shows what is beyond the token, without a gap.
LEMMA PageStep ==
    ASSUME TableInv, source = "table", listing = "open", NEW n \in Nat, Page(n),
           UNCHANGED <<source, present, throughout>>
    PROVE  TableInv'
<1> DEFINE fetched == First(Candidates, n + 1)
           kept == First(fetched, n)
<1>1. /\ present \subseteq Ids /\ throughout \subseteq present
      /\ token \in Nat /\ times \in [Ids -> {0, 1}]
      /\ \A i \in Ids : times[i] = 1 => i <= token
      /\ \A i \in throughout \cap Matching : i <= token => times[i] = 1
  BY DEF TableInv
<1>2. /\ Candidates \in SUBSET Nat /\ Candidates \subseteq Ids /\ IsFiniteSet(Candidates)
      /\ \A i \in Candidates : i > token
      /\ \A i \in throughout \cap Matching : i > token => i \in Candidates
  <2>1. Candidates \subseteq Ids
    BY <1>1 DEF Candidates
  <2> QED BY <1>1, <2>1, IdsAssumption, FS_Subset DEF Candidates
<1>3. /\ fetched \subseteq Candidates /\ fetched \in SUBSET Nat /\ IsFiniteSet(fetched)
      /\ kept \subseteq fetched
  <2>1. fetched \subseteq Candidates /\ kept \subseteq fetched
    BY DEF First
  <2> QED BY <1>2, <2>1, FS_Subset
<1>4. CASE Cardinality(fetched) > n
  <2>1. /\ times' = [i \in Ids |-> times[i] + IF i \in kept THEN 1 ELSE 0]
        /\ token' \in kept /\ (\A i \in kept : i <= token') /\ listing' = "open"
    BY <1>4 DEF Page
  <2>2. \A i \in Candidates : i <= token' => i \in kept
    <3> SUFFICES ASSUME NEW i \in Candidates, i <= token' PROVE i \in kept
      OBVIOUS
    <3>1. i \in fetched
      BY <1>2, <1>3, <2>1, FirstIsClosed
    <3> QED BY <1>3, <2>1, <3>1, FirstIsClosed
  <2> HIDE DEF fetched, kept
  <2>3. token' \in Nat /\ token' > token
    BY <1>1, <1>2, <1>3, <2>1
  <2>4. \A i \in Ids : i \in kept => times[i] = 0
    BY <1>1, <1>2, <1>3, IdsAssumption
  <2>5. times' \in [Ids -> {0, 1}]
    BY <1>1, <2>1, <2>4
  <2>6. \A i \in Ids : times'[i] = 1 => i <= token'
    BY <1>1, <2>1, <2>3, IdsAssumption
  <2>7. \A i \in throughout \cap Matching : i <= token' => times'[i] = 1
    <3> SUFFICES ASSUME NEW i \in throughout \cap Matching, i <= token'
                 PROVE  times'[i] = 1
      OBVIOUS
    <3>1. i \in Ids /\ i \in Nat
      BY <1>1, IdsAssumption
    <3>2. CASE i <= token
      <4>1. i \notin kept
        BY <1>1, <1>2, <1>3, <3>1, <3>2
      <4> QED BY <1>1, <2>1, <3>1, <3>2, <4>1
    <3>3. CASE i > token
      <4>1. i \in kept
        BY <1>2, <2>2, <3>3
      <4> QED BY <2>1, <2>4, <3>1, <4>1
    <3> QED BY <1>1, <3>1, <3>2, <3>3
  <2> QED BY <1>1, <2>1, <2>3, <2>5, <2>6, <2>7 DEF TableInv
<1>5. CASE ~(Cardinality(fetched) > n)
  <2>1. /\ times' = [i \in Ids |-> times[i] + IF i \in fetched THEN 1 ELSE 0]
        /\ listing' = "ended" /\ token' = token
    BY <1>5 DEF Page
  <2>2. fetched = Candidates
    BY <1>2, <1>3, <1>5, FewAreAll, FS_CardinalityType
  <2> HIDE DEF fetched, kept
  <2>3. \A i \in Ids : i \in fetched => times[i] = 0
    BY <1>1, <1>2, <1>3, IdsAssumption
  <2>4. times' \in [Ids -> {0, 1}]
    BY <1>1, <2>1, <2>3
  <2>5. \A i \in throughout \cap Matching : times'[i] = 1
    <3> SUFFICES ASSUME NEW i \in throughout \cap Matching PROVE times'[i] = 1
      OBVIOUS
    <3>1. i \in Ids /\ i \in Nat
      BY <1>1, IdsAssumption
    <3>2. CASE i <= token
      <4>1. i \notin fetched
        BY <1>1, <1>2, <1>3, <3>1, <3>2
      <4> QED BY <1>1, <2>1, <3>1, <3>2, <4>1
    <3>3. CASE i > token
      <4>1. i \in fetched
        BY <1>2, <2>2, <3>3
      <4> QED BY <2>1, <2>3, <3>1, <4>1
    <3> QED BY <1>1, <3>1, <3>2, <3>3
  <2> QED BY <1>1, <2>1, <2>4, <2>5 DEF TableInv
<1> QED BY <1>4, <1>5

\* Every step of a listing, and every change between its pages, preserves it.
LEMMA NextTable == TableInv /\ [Next]_vars => TableInv'
<1> SUFFICES ASSUME TableInv, [Next]_vars PROVE TableInv'
  OBVIOUS
<1>1. CASE StartListing
  <2> SUFFICES ASSUME source = "table" PROVE TableInv'
    BY <1>1 DEF StartListing, TableInv
  <2>1. /\ token' = 0 /\ present' = present /\ throughout' = present /\ times' = times
        /\ listing' = "open" /\ present \subseteq Ids
    BY <1>1 DEF StartListing, TableInv
  <2>2. \A i \in Ids : i \in Nat /\ ~(i <= 0)
    BY IdsAssumption
  <2> QED BY <1>1, <2>1, <2>2 DEF StartListing, TableInv
<1>2. CASE NextPage
  <2>1. PICK size \in Sizes : ListManagedIdentities(size) \/ StartPage(size)
    BY <1>2 DEF NextPage
  <2>2. CASE ListManagedIdentities(size)
    BY <2>2, SizeType, PageStep DEF ListManagedIdentities
  <2>3. CASE StartPage(size)
    BY <2>3 DEF StartPage, TableInv
  <2> QED BY <2>1, <2>2, <2>3
<1>3. CASE Fetch
  BY <1>3 DEF Fetch, TableInv
<1>4. CASE FailFetch
  BY <1>4 DEF FailFetch, TableInv
<1>5. ASSUME NEW i \in Ids, Insert(i) PROVE TableInv'
  BY <1>5 DEF Insert, TableInv
<1>6. ASSUME NEW i \in Ids, Delete(i) PROVE TableInv'
  BY <1>6 DEF Delete, TableInv
<1>7. CASE UNCHANGED vars
  BY <1>7 DEF vars, TableInv
<1> QED BY <1>1, <1>2, <1>3, <1>4, <1>5, <1>6, <1>7 DEF Next

\* So it holds throughout.
LEMMA TableCorrect == Spec => []TableInv
BY InitTable, NextTable, PTL DEF Spec

\* No page of the table repeats an identity, whatever is deleted and inserted again.
THEOREM NothingTwice == Spec => []NothingListedTwice
<1>1. TableInv => NothingListedTwice
  BY DEF TableInv, NothingListedTwice
<1> QED BY <1>1, TableCorrect, PTL

\* A listing of the table that has ended has shown all that stayed.
THEOREM StayersCorrect == Spec => []StayersAreListed
<1>1. TableInv => StayersAreListed
  <2> SUFFICES ASSUME TableInv, source = "table", listing = "ended",
                      NEW i \in throughout \cap Matching
               PROVE  times[i] # 0
    BY DEF StayersAreListed, Missed
  <2> QED BY DEF TableInv
<1> QED BY <1>1, TableCorrect, PTL

---------------------------------------------------------------------------
(* What a page of a controller's list holds                                *)

\* Of finite sets some are minimal.
LEMMA LeastSet ==
    ASSUME NEW S, IsFiniteSet(S), NEW T \in SUBSET SUBSET S, T # {}
    PROVE  \E u \in T : \A v \in T : v \subseteq u => v = u
<1>1. PICK u \in T : \A v \in T : <<v, u>> \notin StrictSubsetOrdering(S)
  <2>1. IsWellFoundedOn(StrictSubsetOrdering(S), FiniteSubsetsOf(S)) /\ T \subseteq FiniteSubsetsOf(S)
    BY FS_StrictSubsetOrderingWellFounded, FS_Subset DEF FiniteSubsetsOf
  <2> QED BY <2>1, WFMin
<1>2. ASSUME NEW v \in T, v \subseteq u PROVE v = u
  BY <1>1, <1>2 DEF StrictSubsetOrdering
<1> QED BY <1>1, <1>2

\* The sum of a function over a set, from the sums over smaller ones.
One(s) == CHOOSE x \in s : TRUE
SumStep(f, sum, s) == IF s = {} THEN 0 ELSE f[One(s)] + sum[s \ {One(s)}]
IsSum(f, sum, S) == sum = [s \in SUBSET S |-> SumStep(f, sum, s)]

\* A set that is not empty has one member more than its rest.
LEMMA Rest ==
    ASSUME NEW s, s # {}
    PROVE  One(s) \in s /\ s \ {One(s)} \subseteq s /\ s \ {One(s)} # s
BY DEF One

\* The sums over what two sets have in common agree.
LEMMA SumsAgree ==
    ASSUME NEW f, NEW S, NEW sum, IsSum(f, sum, S), NEW Z, NEW sumZ, IsSum(f, sumZ, Z),
           NEW u, u \subseteq S \cap Z, IsFiniteSet(u)
    PROVE  sum[u] = sumZ[u]
<1> DEFINE Differ == {s \in SUBSET u : sum[s] # sumZ[s]}
<1>1. SUFFICES ASSUME Differ # {} PROVE FALSE
  OBVIOUS
<1>2. PICK s \in Differ : \A v \in Differ : v \subseteq s => v = s
  <2>1. Differ \in SUBSET SUBSET u
    OBVIOUS
  <2> HIDE DEF Differ
  <2> QED BY <1>1, <2>1, LeastSet
<1>3. sum[s] = SumStep(f, sum, s) /\ sumZ[s] = SumStep(f, sumZ, s)
  <2>1. s \in SUBSET S /\ s \in SUBSET Z
    OBVIOUS
  <2> QED BY <2>1 DEF IsSum
<1>4. CASE s = {}
  BY <1>2, <1>3, <1>4 DEF SumStep
<1>5. CASE s # {}
  <2>1. s \ {One(s)} \notin Differ /\ s \ {One(s)} \in SUBSET u
    BY <1>2, <1>5, Rest
  <2> QED BY <1>2, <1>3, <1>5, <2>1 DEF SumStep
<1> QED BY <1>4, <1>5

\* The recursion of a sum is sound: there is such a function, put together for the
\* first set that had none from those of its subsets.
LEMMA SumExists ==
    ASSUME NEW f, NEW S, IsFiniteSet(S)
    PROVE  \E sum : IsSum(f, sum, S)
<1> DEFINE Without == {s \in SUBSET S : ~ \E sum : IsSum(f, sum, s)}
           sumOf(s) == CHOOSE sum : IsSum(f, sum, s)
<1>1. SUFFICES ASSUME Without # {} PROVE FALSE
  OBVIOUS
<1>2. PICK s \in Without : \A v \in Without : v \subseteq s => v = s
  <2>1. Without \in SUBSET SUBSET S
    OBVIOUS
  <2> HIDE DEF Without
  <2> QED BY <1>1, <2>1, LeastSet
<1>3. ASSUME NEW v \in SUBSET s, v # s PROVE IsSum(f, sumOf(v), v)
  BY <1>2, <1>3
<1> DEFINE step == [v \in (SUBSET s) \ {s} |-> sumOf(v)[v]]
           more == [v \in SUBSET s |-> IF v = s THEN SumStep(f, step, s) ELSE step[v]]
<1> HIDE DEF sumOf
<1>4. ASSUME NEW v \in SUBSET s PROVE more[v] = SumStep(f, more, v)
  <2>1. CASE v = {}
    <3>1. v # s => sumOf(v)[v] = SumStep(f, sumOf(v), v)
      <4>1. v \in SUBSET v OBVIOUS
      <4> QED BY <1>3, <4>1 DEF IsSum
    <3> QED BY <2>1, <3>1 DEF SumStep
  <2>2. CASE v # {}
    <3> DEFINE r == v \ {One(v)}
    <3>1. r \in SUBSET s /\ r # s /\ more[r] = sumOf(r)[r]
      <4>1. r \in SUBSET s /\ r # s
        BY <2>2, Rest
      <4> HIDE DEF r
      <4> QED BY <4>1
    <3>2. CASE v = s
      <4>1. more[v] = f[One(v)] + step[r]
        BY <2>2, <3>2 DEF SumStep
      <4> QED BY <2>2, <3>1, <4>1 DEF SumStep
    <3>3. CASE v # s
      <4>1. sumOf(v)[v] = f[One(v)] + sumOf(v)[r]
        <5>1. v \in SUBSET v OBVIOUS
        <5> QED BY <1>3, <2>2, <3>3, <5>1 DEF IsSum, SumStep
      <4>2. sumOf(v)[r] = sumOf(r)[r]
        <5>1. IsFiniteSet(r) /\ r \subseteq v \cap r
          <6>1. r \subseteq S BY <3>1
          <6> QED BY <6>1, FS_Subset
        <5>2. IsSum(f, sumOf(v), v) /\ IsSum(f, sumOf(r), r)
          BY <1>3, <3>1, <3>3
        <5> HIDE DEF r
        <5> QED BY <5>1, <5>2, SumsAgree
      <4> QED BY <2>2, <3>1, <3>3, <4>1, <4>2 DEF SumStep
    <3> QED BY <3>2, <3>3
  <2> QED BY <2>1, <2>2
<1>5. IsSum(f, more, s)
  BY <1>4 DEF IsSum
<1> QED BY <1>2, <1>5

\* A page holds as many entries as its counts sum up to.
LEMMA LengthIs ==
    ASSUME NEW S, IsFiniteSet(S), NEW f, DOMAIN f = S
    PROVE  \E sum : IsSum(f, sum, S) /\ PageLength(f) = sum[S]
<1>1. PageLength(f) = (CHOOSE sum : IsSum(f, sum, S))[S]
  BY DEF PageLength, SumFunction, SumFunctionOnSet, FoldFunctionOnSet, MapThenFoldSet, IsSum, SumStep, One
<1> QED BY <1>1, SumExists

\* Nothing makes an empty page, and what is put on it once makes it that much longer.
LEMMA LengthGrows ==
    ASSUME NEW S, IsFiniteSet(S), NEW f \in [S -> Nat], NEW T \in SUBSET S
    PROVE  /\ PageLength(f) \in Nat
           /\ (\A i \in S : f[i] = 0) => PageLength(f) = 0
           /\ PageLength([i \in S |-> f[i] + IF i \in T THEN 1 ELSE 0])
                = PageLength(f) + Cardinality(T)
<1> DEFINE g == [i \in S |-> f[i] + IF i \in T THEN 1 ELSE 0]
<1>1. PICK sum : IsSum(f, sum, S) /\ PageLength(f) = sum[S]
  BY LengthIs
<1>2. PICK more : IsSum(g, more, S) /\ PageLength(g) = more[S]
  BY LengthIs
<1> DEFINE Right(s) == /\ sum[s] \in Nat /\ ((\A i \in S : f[i] = 0) => sum[s] = 0)
                       /\ more[s] = sum[s] + Cardinality(T \cap s)
           Wrong == {s \in SUBSET S : ~Right(s)}
<1>3. ASSUME Wrong # {} PROVE FALSE
  <2>1. PICK s \in Wrong : \A v \in Wrong : v \subseteq s => v = s
    <3>1. Wrong \in SUBSET SUBSET S
      OBVIOUS
    <3> HIDE DEF Wrong
    <3> QED BY <1>3, <3>1, LeastSet
  <2>2. sum[s] = SumStep(f, sum, s) /\ more[s] = SumStep(g, more, s)
    BY <1>1, <1>2 DEF IsSum
  <2>3. CASE s = {}
    <3>1. Cardinality(T \cap s) = 0
      <4>1. T \cap s = {}
        BY <2>3
      <4> QED BY <4>1, FS_EmptySet
    <3>2. sum[s] = 0 /\ more[s] = 0
      BY <2>2, <2>3 DEF SumStep
    <3>3. Right(s)
      BY <3>1, <3>2
    <3> QED BY <3>3
  <2>4. CASE s # {}
    <3> DEFINE x == One(s)
               r == s \ {x}
    <3>1. x \in s /\ r \in SUBSET S /\ r \notin Wrong
      BY <2>1, <2>4, Rest
    <3>2. Right(r)
      BY <3>1
    <3>3. sum[s] = f[x] + sum[r] /\ more[s] = g[x] + more[r]
      BY <2>2, <2>4 DEF SumStep
    <3>4. Cardinality(T \cap s) = Cardinality(T \cap r) + IF x \in T THEN 1 ELSE 0
      <4>1. IsFiniteSet(T \cap r)
        BY <3>1, FS_Subset
      <4>2. T \cap s = IF x \in T THEN (T \cap r) \cup {x} ELSE T \cap r
        BY <3>1
      <4>3. x \notin T \cap r
        OBVIOUS
      <4>4. Cardinality((T \cap r) \cup {x}) = Cardinality(T \cap r) + 1
        BY <4>1, <4>3, FS_AddElement
      <4>5. Cardinality(T \cap r) \in Nat
        BY <4>1, FS_CardinalityType
      <4> HIDE DEF x, r
      <4>6. CASE x \in T
        BY <4>2, <4>4, <4>6
      <4>7. CASE x \notin T
        <5>1. T \cap s = T \cap r
          BY <4>2, <4>7
        <5>2. Cardinality(T \cap s) = Cardinality(T \cap r)
          BY <5>1
        <5> QED BY <4>5, <4>7, <5>2
      <4> QED BY <4>6, <4>7
    <3>5. x \in S /\ f[x] \in Nat /\ g[x] = f[x] + IF x \in T THEN 1 ELSE 0
      BY <3>1
    <3>6. Cardinality(T \cap r) \in Nat
      BY <3>1, FS_Subset, FS_CardinalityType
    <3>7. Right(s)
      <4> HIDE DEF r, x, g
      <4> QED BY <3>2, <3>3, <3>4, <3>5, <3>6
    <3> QED BY <3>7
  <2> QED BY <2>3, <2>4
<1>4. Right(S) /\ T \cap S = T
  BY <1>3
<1> HIDE DEF g
<1>5. PageLength(f) \in Nat /\ ((\A i \in S : f[i] = 0) => PageLength(f) = 0)
      /\ PageLength(g) = PageLength(f) + Cardinality(T)
  BY <1>1, <1>2, <1>4
<1> QED BY <1>5 DEF g

\* A finite set of numbers has a greatest element.
LEMMA Greatest ==
    ASSUME NEW S, IsFiniteSet(S), S # {}, \A j \in S : j \in Nat
    PROVE  \E m \in S : \A n \in S : n <= m
<1> DEFINE above(m) == {j \in S : j >= m}
           F == {above(m) : m \in S}
<1>1. F \in SUBSET SUBSET S /\ F # {}
  OBVIOUS
<1>2. PICK U \in F : \A V \in F : V \subseteq U => V = U
  <2> HIDE DEF F, above
  <2> QED BY <1>1, LeastSet
<1>3. PICK m \in S : U = above(m)
  OBVIOUS
<1>4. ASSUME NEW n \in S, ~(n <= m) PROVE FALSE
  <2>1. m \in Nat /\ n \in Nat /\ \A j \in S : j \in Nat
    OBVIOUS
  <2>2. above(n) \in F
    OBVIOUS
  <2>3. above(n) \subseteq above(m)
    <3> SUFFICES ASSUME NEW j \in S, j >= n PROVE j >= m
      OBVIOUS
    <3> QED BY <1>4, <2>1
  <2>4. m \in above(m) /\ m \notin above(n)
    BY <1>4, <2>1
  <2> QED BY <1>2, <1>3, <2>2, <2>3, <2>4
<1> QED BY <1>4

\* No more than n entries come first, and if fewer do there are no others.
LEMMA FirstAreFew ==
    ASSUME NEW S \in SUBSET Nat, IsFiniteSet(S), NEW n \in Nat
    PROVE  /\ First(S, n) \in SUBSET S /\ IsFiniteSet(First(S, n))
           /\ Cardinality(First(S, n)) \in 0..n
           /\ Cardinality(First(S, n)) # n => First(S, n) = S
<1> DEFINE F == First(S, n)
<1>1. F \in SUBSET S /\ IsFiniteSet(F) /\ Cardinality(F) \in Nat
  <2>1. F \in SUBSET S
    BY DEF First
  <2> QED BY <2>1, FS_Subset, FS_CardinalityType
<1>2. Cardinality(F) <= n
  <2>1. CASE F = {}
    BY <2>1, FS_EmptySet
  <2>2. CASE F # {}
    <3>1. PICK m \in F : \A k \in F : k <= m
      <4>1. \A j \in F : j \in Nat
        BY <1>1
      <4> HIDE DEF F
      <4> QED BY <1>1, <2>2, <4>1, Greatest
    <3> DEFINE B == {j \in S : j < m}
    <3>2. m \in S /\ Cardinality(B) < n /\ IsFiniteSet(B) /\ Cardinality(B) \in Nat
      <4>1. m \in S /\ Cardinality(B) < n
        BY <3>1 DEF First
      <4> QED BY <4>1, Before
    <3>3. F \subseteq B \cup {m}
      <4> SUFFICES ASSUME NEW k \in F, k # m PROVE k \in B
        OBVIOUS
      <4>1. k \in S /\ k \in Nat /\ m \in Nat /\ k <= m
        BY <1>1, <3>1, <3>2
      <4> QED BY <4>1
    <3>4. m \notin B
      BY <3>2
    <3> HIDE DEF B, F
    <3>5. IsFiniteSet(B \cup {m}) /\ Cardinality(B \cup {m}) = Cardinality(B) + 1
      BY <3>2, <3>4, FS_AddElement
    <3>6. Cardinality(F) <= Cardinality(B \cup {m})
      BY <3>3, <3>5, FS_Subset
    <3> QED BY <1>1, <3>2, <3>5, <3>6
  <2> QED BY <2>1, <2>2
<1>3. ASSUME Cardinality(F) # n PROVE F = S
  <2>1. n - 1 \in Nat /\ (n - 1) + 1 = n /\ Cardinality(F) <= n - 1
    BY <1>1, <1>2, <1>3
  <2>2. First(S, (n - 1) + 1) = S
    BY <2>1, FewAreAll
  <2> QED BY <2>1, <2>2
<1> QED BY <1>1, <1>2, <1>3

---------------------------------------------------------------------------
(* Offsets in a list that changes                                          *)

\* The number of entries of the list P in front of i.
Place(P, i) == Cardinality({j \in P : j < i})

\* A walk over the list P has come to the offset from.  Of the entries K that stayed,
\* few are behind it unseen, and few were shown twice or lie ahead to be shown again;
\* one comes to lie ahead again by an insertion only.
Drift(P, K, from, shown, ins, del) ==
    /\ Cardinality({i \in K \cap Matching : Place(P, i) < from /\ shown[i] = 0}) <= del
    /\ Cardinality({i \in K : shown[i] > 1 \/ (shown[i] > 0 /\ Place(P, i) >= from)}) <= ins
    /\ \A i \in K : shown[i] <= ins + IF Place(P, i) < from THEN 1 ELSE 0

\* What a list of entries is made of.
LEMMA ListType ==
    ASSUME NEW P \in SUBSET Ids
    PROVE  /\ IsFiniteSet(P) /\ Cardinality(P) \in Nat
           /\ \A i \in P : i \in Nat
           /\ \A i \in Ids : /\ i \in Nat /\ Place(P, i) \in Nat
                             /\ IsFiniteSet({j \in P : j < i})
<1>1. \A S \in SUBSET P : IsFiniteSet(S) /\ Cardinality(S) \in Nat
  BY IdsAssumption, FS_Subset, FS_CardinalityType
<1>2. \A i \in Ids : {j \in P : j < i} \in SUBSET P
  OBVIOUS
<1>3. \A i \in Ids : i \in Nat
  BY IdsAssumption
<1> QED BY <1>1, <1>2, <1>3 DEF Place

\* Places are in the order of the entries, and below the length of the list.
LEMMA PlaceOrder ==
    ASSUME NEW P \in SUBSET Ids, NEW i \in P
    PROVE  /\ Place(P, i) < Cardinality(P)
           /\ \A j \in P : i < j => Place(P, i) < Place(P, j)
           /\ \A j \in P : Place(P, i) = Place(P, j) => i = j
<1> DEFINE before(j) == {k \in P : k < j}
<1>1. \A j \in P : /\ j \in Nat /\ IsFiniteSet(before(j))
                   /\ Cardinality(before(j)) = Place(P, j) /\ Place(P, j) \in Nat
  <2>1. P \subseteq Ids
    OBVIOUS
  <2> QED BY <2>1, ListType DEF Place
<1>2. ASSUME NEW j \in P, NEW S, IsFiniteSet(S), before(j) \subseteq S, j \in S
      PROVE  Place(P, j) < Cardinality(S)
  <2>1. j \notin before(j)
    <3>1. j \in Nat
      BY <1>1
    <3> QED BY <3>1
  <2>2. IsFiniteSet(before(j)) /\ Cardinality(before(j)) = Place(P, j) /\ Place(P, j) \in Nat
    BY <1>1
  <2> HIDE DEF before
  <2>3. IsFiniteSet(before(j) \cup {j}) /\ Cardinality(before(j) \cup {j}) = Place(P, j) + 1
    BY <2>1, <2>2, FS_AddElement
  <2>4. before(j) \cup {j} \in SUBSET S
    BY <1>2
  <2>5. Cardinality(before(j) \cup {j}) <= Cardinality(S) /\ Cardinality(S) \in Nat
    BY <1>2, <2>4, FS_Subset, FS_CardinalityType
  <2> QED BY <2>2, <2>3, <2>5
<1>3. Place(P, i) < Cardinality(P)
  BY <1>2, ListType
<1>4. ASSUME NEW j \in P, NEW k \in P, j < k PROVE Place(P, j) < Place(P, k)
  <2>1. before(j) \subseteq before(k) /\ j \in before(k)
    <3>1. j \in Nat /\ k \in Nat /\ \A l \in P : l \in Nat
      BY <1>1
    <3>2. ASSUME NEW l \in P, l < j PROVE l < k
      BY <1>4, <3>1, <3>2
    <3> QED BY <1>4, <3>2
  <2> HIDE DEF before
  <2> QED BY <1>1, <1>2, <2>1
<1>5. ASSUME NEW j \in P, Place(P, i) = Place(P, j) PROVE i = j
  <2>1. i \in Nat /\ j \in Nat /\ Place(P, i) \in Nat
    BY <1>1
  <2>2. ~(i < j) /\ ~(j < i)
    BY <1>4, <1>5, <2>1
  <2> QED BY <2>1, <2>2
<1> QED BY <1>3, <1>4, <1>5

\* An entry moves what comes after it by one.
LEMMA PlaceMoves ==
    ASSUME NEW P \in SUBSET Ids, NEW k \in Ids \ P, NEW i \in Ids
    PROVE  Place(P \cup {k}, i) = Place(P, i) + IF k < i THEN 1 ELSE 0
<1> DEFINE B == {j \in P : j < i}
           C == {j \in P \cup {k} : j < i}
<1>1. IsFiniteSet(B) /\ Cardinality(B) \in Nat /\ k \notin B
      /\ Place(P, i) = Cardinality(B) /\ Place(P \cup {k}, i) = Cardinality(C)
  BY ListType DEF Place
<1>2. CASE k < i
  <2>1. C = B \cup {k}
    BY <1>2
  <2> HIDE DEF B, C
  <2>2. Cardinality(C) = Cardinality(B) + 1
    BY <1>1, <2>1, FS_AddElement
  <2> QED BY <1>1, <1>2, <2>2
<1>3. CASE ~(k < i)
  <2>1. C = B
    BY <1>3
  <2> HIDE DEF B, C
  <2> QED BY <1>1, <1>3, <2>1
<1> QED BY <1>2, <1>3

\* A set that gains no more than one member grows by no more than one.
LEMMA OneMore ==
    ASSUME NEW S, IsFiniteSet(S), NEW A \in SUBSET S, NEW B \in SUBSET S,
           \A x, y \in B \ A : x = y, NEW n \in Nat, Cardinality(A) <= n
    PROVE  Cardinality(B) <= n + 1
<1>1. IsFiniteSet(A) /\ Cardinality(A) \in Nat /\ Cardinality(B) \in Nat
  BY FS_Subset, FS_CardinalityType
<1>2. CASE B \subseteq A
  BY <1>1, <1>2, FS_Subset
<1>3. ASSUME NEW x \in B \ A PROVE Cardinality(B) <= n + 1
  <2>1. IsFiniteSet(A \cup {x}) /\ Cardinality(A \cup {x}) = Cardinality(A) + 1
    BY <1>1, FS_AddElement
  <2>2. B \in SUBSET (A \cup {x})
    BY <1>3
  <2>3. Cardinality(B) <= Cardinality(A \cup {x})
    BY <2>1, <2>2, FS_Subset
  <2> QED BY <1>1, <2>1, <2>3
<1> QED BY <1>2, <1>3

\* A set that gains nothing does not grow.
LEMMA NoMore ==
    ASSUME NEW S, IsFiniteSet(S), NEW A \in SUBSET S, NEW B \in SUBSET A,
           NEW n \in Nat, Cardinality(A) <= n
    PROVE  Cardinality(B) <= n
<1>1. IsFiniteSet(A) /\ Cardinality(A) \in Nat /\ Cardinality(B) \in Nat
  BY FS_Subset, FS_CardinalityType
<1>2. Cardinality(B) <= Cardinality(A)
  BY <1>1, FS_Subset
<1> QED BY <1>1, <1>2

\* The arguments of Drift.
Walk(P, K, from, shown, ins, del) ==
    /\ P \in SUBSET Ids /\ K \in SUBSET P /\ from \in Nat
    /\ shown \in [Ids -> Nat] /\ ins \in Nat /\ del \in Nat

Unseen(P, K, from, shown) == {i \in K \cap Matching : Place(P, i) < from /\ shown[i] = 0}
Again(P, K, from, shown) == {i \in K : shown[i] > 1 \/ (shown[i] > 0 /\ Place(P, i) >= from)}

\* An insertion takes at most one entry back in front of the offset.
LEMMA DriftInsert ==
    ASSUME NEW P, NEW K, NEW from, NEW shown, NEW ins, NEW del,
           Walk(P, K, from, shown, ins, del), Drift(P, K, from, shown, ins, del),
           NEW k \in Ids \ P
    PROVE  Drift(P \cup {k}, K, from, shown, ins + 1, del)
<1> DEFINE Q == P \cup {k}
<1>1. /\ P \in SUBSET Ids /\ K \in SUBSET P /\ from \in Nat /\ ins \in Nat /\ del \in Nat
      /\ \A i \in K : shown[i] \in Nat
      /\ IsFiniteSet(P) /\ IsFiniteSet(K)
      /\ \A i \in K : Place(P, i) \in Nat /\ Place(Q, i) \in {Place(P, i), Place(P, i) + 1}
  <2>1. P \in SUBSET Ids /\ K \in SUBSET P /\ \A i \in K : i \in Ids /\ shown[i] \in Nat
    BY DEF Walk
  <2>2. \A i \in K : Place(P, i) \in Nat /\ Place(Q, i) \in {Place(P, i), Place(P, i) + 1}
    <3>1. ASSUME NEW i \in K
          PROVE  /\ Place(P, i) \in Nat
                 /\ Place(P \cup {k}, i) = Place(P, i) + IF k < i THEN 1 ELSE 0
      <4>1. P \in SUBSET Ids /\ i \in Ids
        BY <2>1
      <4> QED BY <4>1, ListType, PlaceMoves
    <3> QED BY <3>1
  <2> QED BY <2>1, <2>2, ListType, FS_Subset DEF Walk
<1> HIDE DEF Q
<1>2. Cardinality(Unseen(Q, K, from, shown)) <= del
  <2>1. Unseen(Q, K, from, shown) \in SUBSET Unseen(P, K, from, shown)
    BY <1>1 DEF Unseen
  <2>2. Unseen(P, K, from, shown) \in SUBSET K
    BY DEF Unseen
  <2>3. Cardinality(Unseen(P, K, from, shown)) <= del
    BY DEF Drift, Unseen
  <2> QED BY <1>1, <2>1, <2>2, <2>3, NoMore
<1>3. Cardinality(Again(Q, K, from, shown)) <= ins + 1
  <2> DEFINE A == Again(P, K, from, shown)
             B == Again(Q, K, from, shown)
  <2>1. ASSUME NEW x \in B \ A PROVE x \in K /\ Place(P, x) = from - 1
    BY <1>1, <2>1 DEF Again
  <2>2. \A x, y \in B \ A : x = y
    <3> HIDE DEF A, B
    <3> QED BY <1>1, <2>1, PlaceOrder
  <2>3. A \in SUBSET K /\ B \in SUBSET K /\ Cardinality(A) <= ins
    BY DEF Drift, Again
  <2> HIDE DEF A, B
  <2>4. Cardinality(B) <= ins + 1
    BY <1>1, <2>2, <2>3, OneMore
  <2> QED BY <2>4 DEF B
<1>4. ASSUME NEW i \in K PROVE shown[i] <= (ins + 1) + IF Place(Q, i) < from THEN 1 ELSE 0
  <2>1. shown[i] <= ins + IF Place(P, i) < from THEN 1 ELSE 0
    BY DEF Drift
  <2> QED BY <1>1, <2>1
<1>5. Drift(Q, K, from, shown, ins + 1, del)
  BY <1>2, <1>3, <1>4 DEF Drift, Unseen, Again
<1> QED BY <1>5 DEF Q

\* A deletion takes at most one entry behind the offset.
LEMMA DriftDelete ==
    ASSUME NEW P, NEW K, NEW from, NEW shown, NEW ins, NEW del,
           Walk(P, K, from, shown, ins, del), Drift(P, K, from, shown, ins, del),
           NEW k \in P
    PROVE  Drift(P \ {k}, K \ {k}, from, shown, ins, del + 1)
<1> DEFINE Q == P \ {k}
           L == K \ {k}
<1>1. /\ P \in SUBSET Ids /\ L \in SUBSET K /\ K \in SUBSET P
      /\ from \in Nat /\ ins \in Nat /\ del \in Nat
      /\ \A i \in K : shown[i] \in Nat
      /\ IsFiniteSet(P) /\ IsFiniteSet(K)
      /\ \A i \in K : Place(Q, i) \in Nat /\ Place(P, i) \in {Place(Q, i), Place(Q, i) + 1}
  <2>1. P \in SUBSET Ids /\ K \in SUBSET P /\ \A i \in K : i \in Ids /\ shown[i] \in Nat
    BY DEF Walk
  <2>2. Q \in SUBSET Ids /\ k \in Ids \ Q /\ P = Q \cup {k}
    BY <2>1
  <2> HIDE DEF Q
  <2>3. \A i \in K : Place(Q, i) \in Nat /\ Place(P, i) \in {Place(Q, i), Place(Q, i) + 1}
    <3>1. ASSUME NEW i \in K
          PROVE  /\ Place(Q, i) \in Nat
                 /\ Place(P, i) = Place(Q, i) + IF k < i THEN 1 ELSE 0
      <4>1. i \in Ids
        BY <2>1
      <4> QED BY <2>2, <4>1, ListType, PlaceMoves
    <3> QED BY <3>1
  <2> QED BY <2>1, <2>3, ListType, FS_Subset DEF Walk
<1> HIDE DEF Q, L
<1>2. Cardinality(Unseen(Q, L, from, shown)) <= del + 1
  <2> DEFINE A == Unseen(P, K, from, shown)
             B == Unseen(Q, L, from, shown)
  <2>1. ASSUME NEW x \in B \ A PROVE x \in K /\ Place(P, x) = from
    BY <1>1, <2>1 DEF Unseen
  <2>2. \A x, y \in B \ A : x = y
    <3> HIDE DEF A, B
    <3> QED BY <1>1, <2>1, PlaceOrder
  <2>3. A \in SUBSET K /\ B \in SUBSET K /\ Cardinality(A) <= del
    BY <1>1 DEF Drift, Unseen
  <2> HIDE DEF A, B
  <2>4. Cardinality(B) <= del + 1
    BY <1>1, <2>2, <2>3, OneMore
  <2> QED BY <2>4 DEF B
<1>3. Cardinality(Again(Q, L, from, shown)) <= ins
  <2>1. Again(Q, L, from, shown) \in SUBSET Again(P, K, from, shown)
    BY <1>1 DEF Again
  <2>2. Again(P, K, from, shown) \in SUBSET K
    BY DEF Again
  <2>3. Cardinality(Again(P, K, from, shown)) <= ins
    BY DEF Drift, Again
  <2> QED BY <1>1, <2>1, <2>2, <2>3, NoMore
<1>4. ASSUME NEW i \in L PROVE shown[i] <= ins + IF Place(Q, i) < from THEN 1 ELSE 0
  <2>1. i \in K /\ shown[i] <= ins + IF Place(P, i) < from THEN 1 ELSE 0
    BY <1>1 DEF Drift
  <2> QED BY <1>1, <2>1
<1>5. Drift(Q, L, from, shown, ins, del + 1)
  BY <1>2, <1>3, <1>4 DEF Drift, Unseen, Again
<1> QED BY <1>5 DEF Q, L

\* A walk that shows what there is up to a later offset.
LEMMA DriftWalk ==
    ASSUME NEW P, NEW K, NEW from, NEW shown, NEW ins, NEW del,
           Walk(P, K, from, shown, ins, del), Drift(P, K, from, shown, ins, del),
           NEW to \in Nat, from <= to, NEW T,
           T = {i \in P \cap Matching : from <= Place(P, i) /\ Place(P, i) < to}
    PROVE  Drift(P, K, to, [i \in Ids |-> shown[i] + IF i \in T THEN 1 ELSE 0], ins, del)
<1> DEFINE more == [i \in Ids |-> shown[i] + IF i \in T THEN 1 ELSE 0]
<1>1. /\ P \in SUBSET Ids /\ K \in SUBSET P /\ IsFiniteSet(K)
      /\ from \in Nat /\ ins \in Nat /\ del \in Nat
      /\ \A i \in K : /\ shown[i] \in Nat /\ Place(P, i) \in Nat
                      /\ more[i] = shown[i] + IF i \in T THEN 1 ELSE 0
  <2>1. P \in SUBSET Ids /\ K \in SUBSET P /\ \A i \in K : i \in Ids /\ shown[i] \in Nat
    BY DEF Walk
  <2> QED BY <2>1, ListType, FS_Subset DEF Walk
<1> HIDE DEF more
<1>2. \A i \in K : i \in T <=> i \in Matching /\ from <= Place(P, i) /\ Place(P, i) < to
  BY <1>1
<1>3. Cardinality(Unseen(P, K, to, more)) <= del
  <2>1. Unseen(P, K, to, more) \in SUBSET Unseen(P, K, from, shown)
    <3> SUFFICES ASSUME NEW i \in K \cap Matching, Place(P, i) < to, more[i] = 0
                 PROVE  Place(P, i) < from /\ shown[i] = 0
      BY DEF Unseen
    <3> QED BY <1>1, <1>2
  <2>2. Unseen(P, K, from, shown) \in SUBSET K
    BY DEF Unseen
  <2>3. Cardinality(Unseen(P, K, from, shown)) <= del
    BY DEF Drift, Unseen
  <2> QED BY <1>1, <2>1, <2>2, <2>3, NoMore
<1>4. Cardinality(Again(P, K, to, more)) <= ins
  <2>1. Again(P, K, to, more) \in SUBSET Again(P, K, from, shown)
    <3> SUFFICES ASSUME NEW i \in K, more[i] > 1 \/ (more[i] > 0 /\ Place(P, i) >= to)
                 PROVE  shown[i] > 1 \/ (shown[i] > 0 /\ Place(P, i) >= from)
      BY DEF Again
    <3> QED BY <1>1, <1>2
  <2>2. Again(P, K, from, shown) \in SUBSET K
    BY DEF Again
  <2>3. Cardinality(Again(P, K, from, shown)) <= ins
    BY DEF Drift, Again
  <2> QED BY <1>1, <2>1, <2>2, <2>3, NoMore
<1>5. ASSUME NEW i \in K PROVE more[i] <= ins + IF Place(P, i) < to THEN 1 ELSE 0
  <2>1. shown[i] <= ins + IF Place(P, i) < from THEN 1 ELSE 0
    BY DEF Drift
  <2> QED BY <1>1, <1>2, <2>1
<1>6. Drift(P, K, to, more, ins, del)
  BY <1>3, <1>4, <1>5 DEF Drift, Unseen, Again
<1> QED BY <1>6 DEF more

\* Of the entries K, those that were shown more than once, and those never shown.
Repeated(K, shown) == {i \in K : shown[i] > 1}
Omitted(K, shown) == {i \in K \cap Matching : shown[i] = 0}

\* What a walk has shown; and what it has missed when it comes to the end of the list.
LEMMA DriftEnds ==
    ASSUME NEW P, NEW K, NEW from, NEW shown, NEW ins, NEW del,
           Walk(P, K, from, shown, ins, del), Drift(P, K, from, shown, ins, del)
    PROVE  /\ Cardinality(Repeated(K, shown)) <= ins
           /\ \A i \in K : shown[i] <= 1 + ins
           /\ from >= Cardinality(P) => Cardinality(Omitted(K, shown)) <= del
<1>1. /\ P \in SUBSET Ids /\ K \in SUBSET P /\ IsFiniteSet(K)
      /\ from \in Nat /\ ins \in Nat /\ del \in Nat /\ Cardinality(P) \in Nat
      /\ \A i \in K : /\ shown[i] \in Nat /\ Place(P, i) \in Nat
                      /\ Place(P, i) < Cardinality(P)
  <2>1. P \in SUBSET Ids /\ K \in SUBSET P /\ \A i \in K : i \in Ids /\ shown[i] \in Nat
    BY DEF Walk
  <2> QED BY <2>1, ListType, PlaceOrder, FS_Subset DEF Walk
<1>2. Cardinality(Repeated(K, shown)) <= ins
  <2>1. Repeated(K, shown) \in SUBSET Again(P, K, from, shown)
    BY DEF Again, Repeated
  <2>2. Again(P, K, from, shown) \in SUBSET K
    BY DEF Again
  <2>3. Cardinality(Again(P, K, from, shown)) <= ins
    BY DEF Drift, Again
  <2> QED BY <1>1, <2>1, <2>2, <2>3, NoMore
<1>3. \A i \in K : shown[i] <= 1 + ins
  BY <1>1 DEF Drift
<1>4. ASSUME from >= Cardinality(P)
      PROVE  Cardinality(Omitted(K, shown)) <= del
  <2>1. Omitted(K, shown) = Unseen(P, K, from, shown)
    BY <1>1, <1>4 DEF Unseen, Omitted
  <2> QED BY <2>1 DEF Drift, Unseen
<1> QED BY <1>2, <1>3, <1>4

---------------------------------------------------------------------------
(* The invariant of a listing of the controller                            *)

\* How often each entry was on a page or is on the one being put together.
Shown == [i \in Ids |-> times[i] + items[i]]

ScanTypes ==
    /\ present \subseteq Ids /\ throughout \subseteq present
    /\ listing \in {"idle", "open", "scanning", "ended"}
    /\ token \in Nat /\ limit \in Nat /\ offset \in Nat
    /\ items \in [Ids -> Nat] /\ times \in [Ids -> Nat]
    /\ inserted \in Nat /\ deleted \in Nat

\* Two walks are under way: the one to the token, with what was on a page, which a
\* failing fetch goes back to; and the one to the offset, with what this page holds.
ScanInv ==
    source = "controller" =>
        /\ ScanTypes
        /\ listing = "idle" => throughout = {} /\ token = 0 /\ times = Nothing
        /\ listing # "scanning" => items = Nothing
        /\ listing # "ended" => Drift(present, throughout, token, times, inserted, deleted)
        /\ listing = "scanning" =>
              /\ PageLength(items) <= limit
              /\ Drift(present, throughout, offset, Shown, inserted, deleted)
        /\ listing = "ended" => DriftIsBounded

\* The arguments of Drift have their types.
LEMMA Walks ==
    ASSUME ScanTypes
    PROVE  /\ Walk(present, throughout, token, times, inserted, deleted)
           /\ Walk(present, throughout, offset, Shown, inserted, deleted)
BY DEF ScanTypes, Walk, Shown

\* The invariant says what the property does.
LEMMA ScanBounds ==
    ASSUME ScanInv
    PROVE  DriftIsBounded
<1> SUFFICES ASSUME source = "controller", listing # "ended" PROVE DriftIsBounded
  BY DEF ScanInv, DriftIsBounded
<1>1. /\ Walk(present, throughout, token, times, inserted, deleted)
      /\ Drift(present, throughout, token, times, inserted, deleted)
  BY Walks DEF ScanInv
<1>2. /\ Cardinality(Repeated(throughout, times)) <= inserted
      /\ \A i \in throughout : times[i] <= 1 + inserted
  BY <1>1, DriftEnds
<1> QED BY <1>2 DEF DriftIsBounded, Repeated

\* The walks begin at the front, with nothing shown.
LEMMA DriftStart ==
    ASSUME NEW P, NEW K, NEW ins, NEW del, Walk(P, K, 0, Nothing, ins, del)
    PROVE  Drift(P, K, 0, Nothing, ins, del)
<1>1. ins \in Nat /\ del \in Nat /\ \A i \in K : i \in Ids /\ Place(P, i) \in Nat
  <2>1. P \in SUBSET Ids /\ \A i \in K : i \in Ids
    BY DEF Walk
  <2> QED BY <2>1, ListType DEF Walk
<1>2. \A i \in K : Nothing[i] = 0
  BY <1>1 DEF Nothing
<1>3. Unseen(P, K, 0, Nothing) = {} /\ Again(P, K, 0, Nothing) = {}
  BY <1>1, <1>2 DEF Unseen, Again
<1>4. Cardinality({}) = 0
  BY FS_EmptySet
<1>5. Cardinality(Unseen(P, K, 0, Nothing)) <= del /\ Cardinality(Again(P, K, 0, Nothing)) <= ins
  BY <1>1, <1>3, <1>4
<1> QED BY <1>1, <1>2, <1>5 DEF Drift, Unseen, Again

\* The invariant holds before the first page.
LEMMA InitScan == Init => ScanInv
<1> SUFFICES ASSUME Init PROVE ScanInv
  OBVIOUS
<1>1. ScanTypes
  BY DEF Init, ScanTypes, Nothing
<1>2. Drift(present, throughout, token, times, inserted, deleted)
  BY <1>1, Walks, DriftStart DEF Init
<1> QED BY <1>1, <1>2 DEF Init, ScanInv

\* A list that has another entry, or one less, between two steps of the listing.
LEMMA ChangeStep ==
    ASSUME ScanInv, source = "controller", NEW k \in Ids, Insert(k) \/ Delete(k)
    PROVE  ScanInv'
<1>1. /\ ScanTypes /\ listing \in {"open", "scanning"}
      /\ Walk(present, throughout, token, times, inserted, deleted)
      /\ Walk(present, throughout, offset, Shown, inserted, deleted)
      /\ Drift(present, throughout, token, times, inserted, deleted)
      /\ listing = "scanning" => Drift(present, throughout, offset, Shown, inserted, deleted)
      /\ UNCHANGED <<source, listing, token, limit, offset, items, times>>
  BY Walks DEF ScanInv, Insert, Delete
<1>2. Shown' = Shown
  BY <1>1 DEF Shown
<1>3. CASE Insert(k)
  <2>1. /\ k \in Ids \ present /\ present' = present \cup {k} /\ throughout' = throughout
        /\ inserted' = inserted + 1 /\ deleted' = deleted
    BY <1>3 DEF Insert
  <2>2. Drift(present', throughout', token', times', inserted', deleted')
    BY <1>1, <2>1, DriftInsert
  <2>3. listing = "scanning" =>
          Drift(present', throughout', offset', Shown', inserted', deleted')
    BY <1>1, <1>2, <2>1, DriftInsert
  <2>4. ScanTypes'
    BY <1>1, <2>1 DEF ScanTypes
  <2> QED BY <1>1, <2>2, <2>3, <2>4 DEF ScanInv
<1>4. CASE Delete(k)
  <2>1. /\ k \in present /\ present' = present \ {k} /\ throughout' = throughout \ {k}
        /\ inserted' = inserted /\ deleted' = deleted + 1
    BY <1>4 DEF Delete
  <2>2. Drift(present', throughout', token', times', inserted', deleted')
    BY <1>1, <2>1, DriftDelete
  <2>3. listing = "scanning" =>
          Drift(present', throughout', offset', Shown', inserted', deleted')
    BY <1>1, <1>2, <2>1, DriftDelete
  <2>4. ScanTypes'
    BY <1>1, <2>1 DEF ScanTypes
  <2> QED BY <1>1, <2>2, <2>3, <2>4 DEF ScanInv
<1> QED BY <1>3, <1>4

\* What a fetch puts on a page: what it finds, as far as the page has room.
LEMMA TakeIs ==
    ASSUME ScanTypes, PageLength(items) <= limit
    PROVE  /\ PageLimit \in Nat /\ Take \in SUBSET (Fetched \cap Matching)
           /\ With(items) \in [Ids -> Nat]
           /\ PageLength(With(items)) \in Nat /\ PageLength(With(items)) <= limit
           /\ PageLength(With(items)) # limit => Take = Fetched \cap Matching
           /\ \A i \in Fetched \cap Matching, last \in Take : i <= last => i \in Take
<1> DEFINE n == limit - PageLength(items)
           S == Fetched \cap Matching
<1>1. PageLimit \in Nat
  BY SizesAssumption DEF ScanTypes, PageLimit
<1>2. items \in [Ids -> Nat] /\ limit \in Nat /\ present \in SUBSET Ids /\ IsFiniteSet(Ids)
  BY IdsAssumption DEF ScanTypes
<1>3. S \in SUBSET Ids /\ S \in SUBSET Nat /\ IsFiniteSet(S)
  <2>1. S \in SUBSET Ids
    BY <1>2 DEF Fetched
  <2>2. S \in SUBSET Nat
    BY <2>1, IdsAssumption
  <2> QED BY <1>2, <2>1, <2>2, FS_Subset
<1>4. Take = First(S, n)
  BY DEF Take
<1>5. With(items) = [i \in Ids |-> items[i] + IF i \in Take THEN 1 ELSE 0]
  BY DEF With
<1> HIDE DEF S
<1>6. PageLength(items) \in Nat
  BY <1>2, LengthGrows
<1>7. n \in Nat
  BY <1>2, <1>6
<1>8. /\ Take \in SUBSET S /\ Cardinality(Take) \in 0..n
      /\ Cardinality(Take) # n => Take = S
  <2> HIDE DEF n
  <2> QED BY <1>3, <1>4, <1>7, FirstAreFew
<1>9. Take \in SUBSET Ids
  BY <1>3, <1>8
<1>10. PageLength(With(items)) = PageLength(items) + Cardinality(Take)
  BY <1>2, <1>5, <1>9, LengthGrows
<1>11. With(items) \in [Ids -> Nat]
  BY <1>2, <1>5
<1>12. /\ PageLength(With(items)) \in Nat /\ PageLength(With(items)) <= limit
       /\ PageLength(With(items)) # limit => Take = S
  <2>1. Cardinality(Take) \in Nat /\ Cardinality(Take) <= n
    BY <1>7, <1>8
  <2> QED BY <1>2, <1>6, <1>8, <1>10, <2>1
<1>13. \A i \in S, last \in Take : i <= last => i \in Take
  <2> HIDE DEF n
  <2> QED BY <1>3, <1>4, <1>7, FirstIsClosed
<1> QED BY <1>1, <1>8, <1>11, <1>12, <1>13 DEF S

\* A fetch takes both walks on, or neither.
LEMMA FetchStep ==
    ASSUME ScanInv, source = "controller", Fetch
    PROVE  ScanInv'
<1>1. /\ ScanTypes /\ listing = "scanning" /\ PageLength(items) <= limit
      /\ Walk(present, throughout, token, times, inserted, deleted)
      /\ Walk(present, throughout, offset, Shown, inserted, deleted)
      /\ Drift(present, throughout, token, times, inserted, deleted)
      /\ Drift(present, throughout, offset, Shown, inserted, deleted)
      /\ UNCHANGED <<source, present, limit, inserted, deleted, throughout>>
  BY Walks DEF ScanInv, Fetch
<1> DEFINE more == [i \in Ids |-> Shown[i] + IF i \in Take THEN 1 ELSE 0]
           upTo(to) == {i \in present \cap Matching :
                            offset <= Place(present, i) /\ Place(present, i) < to}
<1>2. /\ PageLimit \in Nat /\ Take \in SUBSET (Fetched \cap Matching)
      /\ With(items) \in [Ids -> Nat]
      /\ PageLength(With(items)) <= limit
      /\ PageLength(With(items)) # limit => Take = Fetched \cap Matching
      /\ \A i \in Fetched \cap Matching, last \in Take : i <= last => i \in Take
  BY <1>1, TakeIs
<1>3. /\ offset \in Nat /\ present \in SUBSET Ids /\ throughout \in SUBSET present
      /\ times \in [Ids -> Nat] /\ items \in [Ids -> Nat]
      /\ \A i \in Ids : i \in Nat /\ Place(present, i) \in Nat
  <2>1. present \in SUBSET Ids
    BY <1>1 DEF ScanTypes
  <2> QED BY <1>1, <2>1, ListType DEF ScanTypes
<1>4. Fetched = {i \in present : offset <= Place(present, i)
                                 /\ Place(present, i) < offset + PageLimit}
  BY DEF Fetched, Position, Place
<1>5. more \in [Ids -> Nat] /\ more = [i \in Ids |-> times[i] + With(items)[i]]
  BY <1>3 DEF With, Shown
<1>6. ASSUME NEW to \in Nat, offset <= to, Take = upTo(to)
      PROVE  Drift(present, throughout, to, more, inserted, deleted)
  <2> HIDE DEF upTo
  <2>1. Take = {i \in present \cap Matching :
                    offset <= Place(present, i) /\ Place(present, i) < to}
    BY <1>6 DEF upTo
  <2> QED BY <1>1, <1>6, <2>1, DriftWalk
<1> HIDE DEF more
<1>7. ASSUME NEW to \in Nat, Drift(present, throughout, to, more, inserted, deleted),
             to >= Cardinality(present), Deliver, listing' = "ended", token' = token
      PROVE  ScanInv'
  <2>1. times' = more /\ items' = Nothing /\ offset' = offset
    BY <1>5, <1>7 DEF Deliver
  <2>2. ScanTypes'
    BY <1>1, <1>5, <1>7, <2>1 DEF ScanTypes, Nothing
  <2>3. Walk(present, throughout, to, more, inserted, deleted)
    BY <1>1, <1>5, <1>7 DEF Walk
  <2>4. /\ Cardinality(Repeated(throughout, more)) <= inserted
        /\ \A i \in throughout : more[i] <= 1 + inserted
        /\ Cardinality(Omitted(throughout, more)) <= deleted
    BY <1>7, <2>3, DriftEnds
  <2>5. DriftIsBounded'
    BY <1>1, <2>1, <2>4 DEF DriftIsBounded, Missed, Repeated, Omitted
  <2> QED BY <1>7, <2>1, <2>2, <2>5 DEF ScanInv
<1>8. CASE PageLength(With(items)) = limit
  <2>1. PICK last \in Take : /\ \A i \in Take : i <= last
                             /\ pageTokenFromOffset(Position(last) + 1)
    BY <1>8 DEF Fetch
  <2> DEFINE to == Position(last) + 1
  <2>2. Deliver
    BY <1>8 DEF Fetch
  <2>3. /\ last \in present /\ Position(last) = Place(present, last)
        /\ last \in Fetched \cap Matching /\ last \in Ids
    BY <1>2, <1>3, <1>4 DEF Position, Place
  <2>4. to \in Nat /\ offset <= to /\ to = Place(present, last) + 1
    BY <1>3, <1>4, <2>3
  <2>5. \A i \in present : Place(present, i) <= Place(present, last) <=> i <= last
    <3> SUFFICES ASSUME NEW i \in present
                 PROVE  Place(present, i) <= Place(present, last) <=> i <= last
      OBVIOUS
    <3>1. /\ i < last => Place(present, i) < Place(present, last)
          /\ last < i => Place(present, last) < Place(present, i)
      BY <1>3, <2>3, PlaceOrder
    <3>2. /\ i \in Nat /\ last \in Nat
          /\ Place(present, i) \in Nat /\ Place(present, last) \in Nat
      BY <1>3, <2>3
    <3>3. CASE i = last
      BY <3>2, <3>3
    <3> QED BY <3>1, <3>2, <3>3
  <2>6. Take = upTo(to)
    <3>1. ASSUME NEW i \in Take PROVE i \in upTo(to)
      <4>1. i \in present /\ i \in Matching /\ offset <= Place(present, i) /\ i <= last
        BY <1>2, <1>4, <2>1
      <4>2. Place(present, i) <= Place(present, last) /\ i \in Ids
        BY <1>3, <2>5, <4>1
      <4> QED BY <1>3, <2>3, <2>4, <4>1, <4>2
    <3>2. ASSUME NEW i \in upTo(to) PROVE i \in Take
      <4>1. /\ i \in present /\ i \in Matching /\ i \in Ids
            /\ offset <= Place(present, i) /\ Place(present, i) < to
        BY <1>3
      <4>2. Place(present, i) <= Place(present, last)
        BY <1>3, <2>3, <2>4, <4>1
      <4>3. i <= last
        BY <2>5, <4>1, <4>2
      <4>4. i \in Fetched
        BY <1>2, <1>3, <1>4, <2>3, <4>1, <4>2
      <4> QED BY <1>2, <4>1, <4>3, <4>4
    <3> QED BY <3>1, <3>2
  <2>7. Drift(present, throughout, to, more, inserted, deleted)
    <3> HIDE DEF upTo, to
    <3> QED BY <1>6, <2>4, <2>6
  <2>8. CASE to >= Total
    <3>1. listing' = "ended" /\ token' = token /\ to >= Cardinality(present)
      BY <2>1, <2>8 DEF pageTokenFromOffset, Total
    <3> HIDE DEF to
    <3> QED BY <1>7, <2>2, <2>4, <2>7, <3>1
  <2>9. CASE ~(to >= Total)
    <3>1. listing' = "open" /\ token' = to
      BY <2>1, <2>9 DEF pageTokenFromOffset
    <3>2. times' = more /\ items' = Nothing /\ offset' = offset
      BY <1>5, <2>2 DEF Deliver
    <3> HIDE DEF to
    <3>3. ScanTypes'
      BY <1>1, <1>5, <2>4, <3>1, <3>2 DEF ScanTypes, Nothing
    <3>4. Drift(present', throughout', token', times', inserted', deleted')
      BY <1>1, <2>7, <3>1, <3>2
    <3> QED BY <3>1, <3>2, <3>3, <3>4 DEF ScanInv
  <2> QED BY <2>8, <2>9
<1>9. CASE PageLength(With(items)) # limit
  <2> DEFINE to == offset + PageLimit
  <2>1. to \in Nat /\ offset <= to
    BY <1>2, <1>3
  <2>2. Take = upTo(to)
    BY <1>2, <1>4, <1>9
  <2>3. Drift(present, throughout, to, more, inserted, deleted)
    <3> HIDE DEF upTo, to
    <3> QED BY <1>6, <2>1, <2>2
  <2>4. nextPageOffset
    BY <1>9 DEF Fetch
  <2>5. CASE to >= Total
    <3>1. listing' = "ended" /\ token' = token /\ Deliver /\ to >= Cardinality(present)
      BY <2>4, <2>5 DEF nextPageOffset, Total
    <3> HIDE DEF to
    <3> QED BY <1>7, <2>1, <2>3, <3>1
  <2>6. CASE ~(to >= Total)
    <3>1. items' = With(items) /\ offset' = to /\ UNCHANGED <<listing, token, times>>
      BY <2>4, <2>6 DEF nextPageOffset
    <3> HIDE DEF to
    <3>2. Shown' = more
      BY <1>5, <3>1 DEF Shown
    <3>3. ScanTypes'
      BY <1>1, <1>2, <2>1, <3>1 DEF ScanTypes
    <3>4. /\ Drift(present', throughout', offset', Shown', inserted', deleted')
          /\ Drift(present', throughout', token', times', inserted', deleted')
      BY <1>1, <2>3, <3>1, <3>2
    <3>5. PageLength(items') <= limit'
      BY <1>1, <1>2, <3>1
    <3> QED BY <1>1, <3>1, <3>3, <3>4, <3>5 DEF ScanInv
  <2> QED BY <2>5, <2>6
<1> QED BY <1>8, <1>9

\* A page begins at the token, and a failing fetch goes back to it.
LEMMA PageEndsStep ==
    ASSUME ScanInv, source = "controller",
           StartListing \/ FailFetch \/ \E size \in Sizes : StartPage(size)
    PROVE  ScanInv'
<1>1. ScanTypes /\ Walk(present, throughout, token, times, inserted, deleted)
  BY Walks DEF ScanInv
<1>2. CASE StartListing
  <2>1. /\ listing = "idle" /\ token = 0 /\ times = Nothing /\ items = Nothing
        /\ listing' = "open" /\ throughout' = present
        /\ UNCHANGED <<source, present, token, limit, offset, items, times, inserted, deleted>>
    BY <1>2 DEF StartListing, ScanInv
  <2>2. ScanTypes'
    BY <1>1, <2>1 DEF ScanTypes
  <2>3. Drift(present', throughout', token', times', inserted', deleted')
    <3>1. Walk(present, present, 0, Nothing, inserted, deleted)
      BY <1>1, <2>1 DEF Walk
    <3>2. Drift(present, present, 0, Nothing, inserted, deleted)
      BY <3>1, DriftStart
    <3> QED BY <2>1, <3>2
  <2> QED BY <2>1, <2>2, <2>3 DEF ScanInv
<1>3. CASE FailFetch
  <2>1. /\ listing = "scanning" /\ listing' = "open" /\ items' = Nothing
        /\ UNCHANGED <<source, present, token, limit, offset, times, inserted, deleted, throughout>>
        /\ Drift(present, throughout, token, times, inserted, deleted)
    BY <1>3 DEF FailFetch, ScanInv
  <2>2. ScanTypes'
    BY <1>1, <2>1 DEF ScanTypes, Nothing
  <2>3. Drift(present', throughout', token', times', inserted', deleted')
    BY <2>1
  <2> QED BY <2>1, <2>2, <2>3 DEF ScanInv
<1>4. ASSUME NEW size \in Sizes, StartPage(size) PROVE ScanInv'
  <2>1. /\ listing = "open" /\ listing' = "scanning" /\ items = Nothing
        /\ limit' = listPagination(size) /\ offset' = token
        /\ UNCHANGED <<source, present, token, items, times, inserted, deleted, throughout>>
        /\ Drift(present, throughout, token, times, inserted, deleted)
    BY <1>4 DEF StartPage, ScanInv
  <2>2. limit' \in Nat
    BY <2>1, SizesAssumption DEF listPagination
  <2>3. ScanTypes'
    BY <1>1, <2>1, <2>2 DEF ScanTypes
  <2>4. Shown' = times
    BY <1>1, <2>1 DEF Shown, ScanTypes, Nothing
  <2>5. /\ Drift(present', throughout', offset', Shown', inserted', deleted')
        /\ Drift(present', throughout', token', times', inserted', deleted')
    BY <2>1, <2>4
  <2>6. PageLength(items') <= limit'
    <3>1. items \in [Ids -> Nat] /\ \A i \in Ids : items[i] = 0
      BY <1>1, <2>1 DEF ScanTypes, Nothing
    <3>2. PageLength(items) = 0
      BY <3>1, IdsAssumption, LengthGrows
    <3> QED BY <2>1, <2>2, <3>2
  <2> QED BY <2>1, <2>3, <2>5, <2>6 DEF ScanInv
<1> QED BY <1>2, <1>3, <1>4

\* Every step preserves the invariant.
LEMMA NextScan == ScanInv /\ [Next]_vars => ScanInv'
<1> SUFFICES ASSUME ScanInv, [Next]_vars, source' = "controller" PROVE ScanInv'
  BY DEF ScanInv
<1>1. source = "controller"
  BY DEF Next, StartListing, NextPage, ListManagedIdentities, StartPage, Fetch, FailFetch,
     Insert, Delete, vars
<1>2. CASE UNCHANGED vars
  <2>1. /\ UNCHANGED <<source, present, listing, token, limit, offset, items, times,
                       inserted, deleted, throughout>>
    BY <1>2 DEF vars
  <2>2. Shown' = Shown /\ ScanTypes' = ScanTypes /\ DriftIsBounded' = DriftIsBounded
    BY <2>1 DEF Shown, ScanTypes, DriftIsBounded, Missed
  <2> QED BY <2>1, <2>2 DEF ScanInv
<1>3. CASE NextPage
  <2>1. \E size \in Sizes : StartPage(size)
    BY <1>1, <1>3 DEF NextPage, ListManagedIdentities
  <2> QED BY <1>1, <2>1, PageEndsStep
<1> QED BY <1>1, <1>2, <1>3, ChangeStep, FetchStep, PageEndsStep DEF Next

\* A listing of the controller misses no more than was deleted meanwhile and repeats
\* no more than was inserted, for any number of entries and changes, any limits of
\* the pages and of the controller, and wherever fetches fail.
THEOREM DriftCorrect == Spec => []DriftIsBounded
<1>1. Spec => []ScanInv
  BY InitScan, NextScan, PTL DEF Spec
<1> QED BY <1>1, ScanBounds, PTL

---------------------------------------------------------------------------
(* What the passes over a list of role attributes write *)

\* The state of a pass after n entries, and the passes up to k entries.
PassStep(list, todo, pass, n) ==
    IF n = 0 THEN [out |-> <<>>, left |-> todo]
    ELSE IF list[n] \in pass[n - 1].left
    THEN [out |-> Append(pass[n - 1].out, list[n]), left |-> pass[n - 1].left \ {list[n]}]
    ELSE pass[n - 1]

IsPass(list, todo, pass, k) == pass = [n \in 0..k |-> PassStep(list, todo, pass, n)]

\* The recursion of a pass is sound: there is such a function, by extending the one
\* up to the predecessor of the first length that had none.
LEMMA PassExists ==
    ASSUME NEW list, NEW todo, NEW length \in Nat
    PROVE  \E pass : IsPass(list, todo, pass, length)
<1> DEFINE Without == {k \in Nat : ~ \E pass : IsPass(list, todo, pass, k)}
<1>1. SUFFICES ASSUME Without # {} PROVE FALSE
  OBVIOUS
<1>2. PICK k \in Without : \A n \in Without : k <= n
  <2>1. Without \subseteq Nat
    OBVIOUS
  <2> HIDE DEF Without
  <2> QED BY <1>1, <2>1, Least
<1>3. CASE k = 0
  <2> DEFINE pass == [n \in 0..0 |-> [out |-> <<>>, left |-> todo]]
  <2>1. IsPass(list, todo, pass, 0)
    BY DEF IsPass, PassStep
  <2> QED BY <1>2, <1>3, <2>1
<1>4. CASE k # 0
  <2>1. k - 1 \in Nat /\ k - 1 \notin Without
    BY <1>2, <1>4
  <2>2. PICK pass : IsPass(list, todo, pass, k - 1)
    BY <2>1
  <2> DEFINE more == [n \in 0..k |-> IF n = k THEN PassStep(list, todo, pass, k) ELSE pass[n]]
  <2>3. ASSUME NEW n \in 0..k PROVE more[n] = PassStep(list, todo, more, n)
    <3>1. CASE n = 0
      BY <1>4, <2>1, <2>2, <3>1 DEF IsPass, PassStep
    <3>2. CASE n # 0
      <4>1. n - 1 \in 0..k /\ n - 1 # k /\ more[n - 1] = pass[n - 1]
        BY <1>2, <3>2
      <4>2. PassStep(list, todo, more, n) = PassStep(list, todo, pass, n)
        BY <3>2, <4>1 DEF PassStep
      <4>3. n # k => pass[n] = PassStep(list, todo, pass, n)
        <5>1. n # k => n \in 0..k - 1
          BY <1>2
        <5>2. pass = [i \in 0..k - 1 |-> PassStep(list, todo, pass, i)]
          BY <2>2 DEF IsPass
        <5> HIDE DEF more
        <5> QED BY <5>1, <5>2
      <4> QED BY <4>2, <4>3
    <3> QED BY <3>1, <3>2
  <2>4. IsPass(list, todo, more, k)
    BY <2>3 DEF IsPass
  <2> QED BY <1>2, <2>4
<1> QED BY <1>3, <1>4

\* So a pass is what its recursion says.
LEMMA PassIs ==
    ASSUME NEW list, NEW todo, Len(list) \in Nat
    PROVE  \E pass : IsPass(list, todo, pass, Len(list)) /\ Pass(list, todo) = pass[Len(list)].out
<1> DEFINE pass == CHOOSE pass : IsPass(list, todo, pass, Len(list))
<1>1. IsPass(list, todo, pass, Len(list))
  BY PassExists
<1>2. Pass(list, todo) = pass[Len(list)].out
  BY DEF Pass, IsPass, PassStep
<1> QED BY <1>1, <1>2

\* What is written after n entries: those that were to be written, once each and in
\* their order.
Written(list, todo, out, n) ==
    /\ out \in Seq(ToSet(list)) /\ ToSet(out) = todo \cap {list[i] : i \in 1..n}
    /\ IsInjective(out)
    /\ \A p, q \in DOMAIN out : p < q =>
          \E i \in 1..n : list[i] = out[p] /\ \A j \in 1..i : list[j] # out[q]

\* The rest is left.
Passed(list, todo, state, n) ==
    Written(list, todo, state.out, n) /\ state.left = todo \ ToSet(state.out)

\* One entry more is written if it was to be and is not yet.
LEMMA WrittenStep ==
    ASSUME NEW A, NEW list \in Seq(A), NEW todo, NEW n \in Nat \ {0}, n <= Len(list),
           NEW state, Passed(list, todo, state, n - 1),
           NEW next, next = IF list[n] \in state.left
                            THEN [out |-> Append(state.out, list[n]), left |-> state.left \ {list[n]}]
                            ELSE state
    PROVE  Passed(list, todo, next, n)
<1> DEFINE x == list[n]
           s == state.out
           t == Append(s, x)
<1>1. n \in 1..Len(list) /\ x \in ToSet(list) /\ n - 1 \in Nat
  BY DEF ToSet
<1>2. {list[i] : i \in 1..n} = {list[i] : i \in 1..n - 1} \cup {x}
  <2>1. 1..n = 1..n - 1 \cup {n}
    BY <1>1
  <2> QED BY <2>1
<1>3. /\ s \in Seq(ToSet(list)) /\ Len(s) \in Nat /\ DOMAIN s = 1..Len(s)
      /\ ToSet(s) = todo \cap {list[i] : i \in 1..n - 1}
  BY DEF Passed, Written
<1>4. CASE x \notin state.left
  <2>1. next = state /\ state.left = todo \ ToSet(s)
    BY <1>4 DEF Passed
  <2>2. ToSet(s) = todo \cap {list[i] : i \in 1..n}
    BY <1>2, <1>3, <1>4, <2>1
  <2>3. 1..n - 1 \subseteq 1..n
    BY <1>1
  <2> QED BY <2>1, <2>2, <2>3 DEF Passed, Written
<1>5. CASE x \in state.left
  <2>1. x \in todo /\ x \notin ToSet(s) /\ x \notin {list[i] : i \in 1..n - 1}
    BY <1>3, <1>5 DEF Passed
  <2>2. /\ t \in Seq(ToSet(list)) /\ Len(t) = Len(s) + 1 /\ t[Len(t)] = x
        /\ \A p \in 1..Len(s) : t[p] = s[p]
        /\ DOMAIN t = 1..Len(s) + 1
    BY <1>1, <1>3
  <2>3. ToSet(t) = ToSet(s) \cup {x}
    <3>1. 1..Len(s) + 1 = 1..Len(s) \cup {Len(s) + 1}
      BY <1>3
    <3> QED BY <1>3, <2>2, <3>1 DEF ToSet
  <2>4. \A p \in 1..Len(s) : s[p] \in ToSet(s) /\ s[p] # x
    BY <1>3, <2>1 DEF ToSet
  <2>5. IsInjective(t)
    <3>1. \A p, q \in 1..Len(s) : s[p] = s[q] => p = q
      BY <1>3 DEF IsInjective, Passed, Written
    <3>2. ASSUME NEW p \in DOMAIN t, NEW q \in DOMAIN t, t[p] = t[q] PROVE p = q
      <4>1. (p \in 1..Len(s) \/ p = Len(s) + 1) /\ (q \in 1..Len(s) \/ q = Len(s) + 1)
        BY <1>3, <2>2
      <4>2. Len(t) = Len(s) + 1 /\ t[Len(s) + 1] = x
        BY <2>2
      <4> HIDE DEF t, s, x
      <4> QED BY <2>2, <2>4, <3>1, <3>2, <4>1, <4>2
    <3> HIDE DEF t
    <3> QED BY <3>2 DEF IsInjective
  <2>6. ASSUME NEW p \in DOMAIN t, NEW q \in DOMAIN t, p < q
        PROVE  \E i \in 1..n : list[i] = t[p] /\ \A j \in 1..i : list[j] # t[q]
    <3>1. p \in 1..Len(s) /\ t[p] = s[p]
      BY <1>3, <2>2, <2>6
    <3>2. CASE q \in 1..Len(s)
      <4>1. PICK i \in 1..n - 1 : list[i] = s[p] /\ \A j \in 1..i : list[j] # s[q]
        BY <1>3, <2>6, <3>1, <3>2 DEF Passed, Written
      <4> QED BY <1>1, <2>2, <3>1, <3>2, <4>1
    <3>3. CASE q = Len(s) + 1
      <4>1. PICK i \in 1..n - 1 : list[i] = s[p]
        BY <1>3, <2>4, <3>1
      <4>2. \A j \in 1..i : j \in 1..n - 1 /\ list[j] # x
        BY <1>1, <2>1, <4>1
      <4>3. i \in 1..n /\ t[q] = x
        BY <1>1, <2>2, <3>3
      <4> QED BY <3>1, <4>1, <4>2, <4>3
    <3>4. q \in 1..Len(s) \/ q = Len(s) + 1
      BY <1>3, <2>2
    <3> QED BY <3>2, <3>3, <3>4
  <2>7. next.out = t /\ next.left = state.left \ {x}
    BY <1>5
  <2>8. state.left = todo \ ToSet(s)
    BY DEF Passed, Written
  <2>9. ToSet(t) = todo \cap {list[i] : i \in 1..n}
    BY <1>2, <1>3, <2>1, <2>3
  <2>10. next.left = todo \ ToSet(t)
    BY <2>3, <2>7, <2>8
  <2>11. t \in Seq(ToSet(list))
    BY <2>2
  <2> HIDE DEF t
  <2>12. \A p, q \in DOMAIN t : p < q =>
            \E i \in 1..n : list[i] = t[p] /\ \A j \in 1..i : list[j] # t[q]
    BY <2>6
  <2>13. Written(list, todo, t, n)
    BY <2>5, <2>9, <2>11, <2>12 DEF Written
  <2> QED BY <2>7, <2>10, <2>13 DEF Passed
<1> QED BY <1>4, <1>5

\* So a pass writes what there is to write, each once and in the order of the list.
LEMMA PassMeets ==
    ASSUME NEW A, NEW list \in Seq(A), NEW todo \in SUBSET ToSet(list)
    PROVE  LET new == Pass(list, todo)
           IN new \in Seq(A) /\ ToSet(new) = todo /\ IsInjective(new) /\ KeepsOrder(new, list)
<1>0. Len(list) \in Nat /\ DOMAIN list = 1..Len(list)
  OBVIOUS
<1>1. PICK pass : IsPass(list, todo, pass, Len(list)) /\ Pass(list, todo) = pass[Len(list)].out
  BY <1>0, PassIs
<1>2. \A n \in 0..Len(list) : pass[n] = PassStep(list, todo, pass, n)
  <2>1. pass = [n \in 0..Len(list) |-> PassStep(list, todo, pass, n)]
    BY <1>1 DEF IsPass
  <2> QED BY <2>1
<1>3. \A n \in 0..Len(list) : Passed(list, todo, pass[n], n)
  <2> DEFINE Wrong == {n \in 0..Len(list) : ~Passed(list, todo, pass[n], n)}
  <2>1. SUFFICES ASSUME Wrong # {} PROVE FALSE
    OBVIOUS
  <2>2. PICK n \in Wrong : \A m \in Wrong : n <= m
    <3>1. Wrong \in SUBSET Nat
      BY <1>0
    <3> HIDE DEF Wrong
    <3> QED BY <2>1, <3>1, Least
  <2>3. n \in 0..Len(list) /\ pass[n] = PassStep(list, todo, pass, n)
    BY <1>2, <2>2
  <2>4. CASE n = 0
    <3>1. pass[n] = [out |-> <<>>, left |-> todo] /\ 1..0 = {}
      BY <2>3, <2>4 DEF PassStep
    <3>2. /\ <<>> \in Seq(ToSet(list)) /\ ToSet(<<>>) = {} /\ DOMAIN <<>> = {}
      BY DEF ToSet
    <3>3. pass[n].out = <<>> /\ pass[n].left = todo
      BY <3>1
    <3>4. Passed(list, todo, pass[n], n)
      BY <2>4, <3>1, <3>2, <3>3 DEF Passed, Written, IsInjective
    <3> QED BY <2>2, <3>4
  <2>5. CASE n # 0
    <3>1. n \in Nat \ {0} /\ n <= Len(list) /\ n - 1 \in 0..Len(list) /\ ~(n <= n - 1)
      BY <1>0, <2>3, <2>5
    <3>2. Passed(list, todo, pass[n - 1], n - 1)
      BY <2>2, <3>1
    <3>3. PICK state, next : state = pass[n - 1] /\ next = pass[n]
      OBVIOUS
    <3>4. next = IF list[n] \in state.left
                 THEN [out |-> Append(state.out, list[n]), left |-> state.left \ {list[n]}]
                 ELSE state
      BY <2>3, <2>5, <3>3 DEF PassStep
    <3>5. Passed(list, todo, next, n)
      BY <3>1, <3>2, <3>3, <3>4, WrittenStep
    <3> QED BY <2>2, <3>3, <3>5
  <2> QED BY <2>4, <2>5
<1>4. PICK state : state = pass[Len(list)]
  OBVIOUS
<1>5. Written(list, todo, state.out, Len(list)) /\ Pass(list, todo) = state.out
  BY <1>0, <1>1, <1>3, <1>4 DEF Passed
<1>6. PICK new : new = state.out /\ Written(list, todo, new, Len(list))
  BY <1>5
<1>7. ToSet(list) \subseteq A /\ ToSet(list) = {list[i] : i \in 1..Len(list)}
  BY <1>0 DEF ToSet
<1>8. new \in Seq(A) /\ ToSet(new) = todo /\ IsInjective(new)
  BY <1>6, <1>7 DEF Written
<1>9. KeepsOrder(new, list)
  BY <1>0, <1>6 DEF Written, KeepsOrder
<1> QED BY <1>5, <1>6, <1>8, <1>9

---------------------------------------------------------------------------
(* Patches of role attributes *)

AnyRequest == [add : Seq(Attributes), remove : Seq(Attributes)]

\* The merge of any list with any request is what the reference asks for.
LEMMA MergeMeets ==
    ASSUME NEW current \in Seq(Attributes), NEW request \in AnyRequest
    PROVE  LET new == patchRoleAttributes(current, request)
           IN /\ new \in Seq(Attributes)
              /\ ToSet(new) = (ToSet(current) \cup ToSet(request.add)) \ ToSet(request.remove)
              /\ IsInjective(new) /\ KeepsOrder(new, current \o request.add)
<1>1. PICK add : add = request.add /\ add \in Seq(Attributes)
  BY DEF AnyRequest
<1>2. PICK list : list = current \o add
  OBVIOUS
<1>3. list \in Seq(Attributes) /\ Len(list) = Len(current) + Len(add)
  BY <1>1, <1>2
<1>4. ToSet(list) = ToSet(current) \cup ToSet(add)
  <2>1. ASSUME NEW i \in 1..Len(list) PROVE list[i] \in ToSet(current) \cup ToSet(add)
    BY <1>1, <1>2, <1>3 DEF ToSet
  <2>2. ASSUME NEW i \in 1..Len(current) PROVE current[i] \in ToSet(list)
    <3>1. i \in 1..Len(list) /\ list[i] = current[i]
      BY <1>1, <1>2, <1>3
    <3> QED BY <1>3, <3>1 DEF ToSet
  <2>3. ASSUME NEW i \in 1..Len(add) PROVE add[i] \in ToSet(list)
    <3>1. Len(current) + i \in 1..Len(list) /\ list[Len(current) + i] = add[i]
      BY <1>1, <1>2, <1>3
    <3> QED BY <1>3, <3>1 DEF ToSet
  <2>4. /\ ToSet(list) = {list[i] : i \in 1..Len(list)}
        /\ ToSet(current) = {current[i] : i \in 1..Len(current)}
        /\ ToSet(add) = {add[i] : i \in 1..Len(add)}
    BY <1>1, <1>3 DEF ToSet
  <2>5. ToSet(list) \subseteq ToSet(current) \cup ToSet(add)
    BY <2>1, <2>4
  <2>6. ToSet(current) \subseteq ToSet(list) /\ ToSet(add) \subseteq ToSet(list)
    BY <2>2, <2>3, <2>4
  <2> QED BY <2>5, <2>6
<1>5. PICK todo : todo = (ToSet(current) \cup ToSet(add)) \ ToSet(request.remove)
  OBVIOUS
<1>6. todo \in SUBSET ToSet(list) /\ patchRoleAttributes(current, request) = Pass(list, todo)
  BY <1>1, <1>2, <1>4, <1>5 DEF patchRoleAttributes
<1>7. PICK new : new = Pass(list, todo)
  OBVIOUS
<1>8. new \in Seq(Attributes) /\ ToSet(new) = todo /\ IsInjective(new) /\ KeepsOrder(new, list)
  BY <1>3, <1>6, <1>7, PassMeets
<1> QED BY <1>1, <1>2, <1>5, <1>6, <1>7, <1>8

PatchTypes ==
    /\ attrs \in Seq(Attributes)
    /\ at \in [Calls -> {"detail", "patch"} \cup Final]
    /\ asked \in [Calls -> AnyRequest] /\ seen \in [Calls -> Seq(Attributes)]
    /\ inflight \in SUBSET Calls /\ overtaken \in SUBSET Calls
    /\ faults \in [FaultKinds -> Nat]

\* What a call that is about to write, or whose write is on its way, has read is what
\* the controller has, unless it was overtaken.
ReadIsCurrent ==
    \A c \in Calls : (at[c] = "patch" \/ c \in inflight) /\ c \notin overtaken => seen[c] = attrs

PatchInv == PatchTypes /\ ReadIsCurrent /\ \A c \in inflight : at[c] \in Final

\* The invariant holds before the first patch.
LEMMA PatchInvInit == PatchInit => PatchInv
<1> SUFFICES ASSUME PatchInit PROVE PatchInv
  OBVIOUS
<1>1. <<>> \in Seq(Attributes) /\ \A a \in Attributes : <<a>> \in Seq(Attributes)
  OBVIOUS
<1>2. NoRequest \in AnyRequest
  BY <1>1 DEF NoRequest, AnyRequest
<1>3. PatchTypes
  BY <1>1, <1>2 DEF PatchInit, PatchTypes, Final, FaultsInit
<1> QED BY <1>3 DEF PatchInit, PatchInv, ReadIsCurrent

\* Forgetting a call, and a write of the list.
LEMMA ForgetTypes ==
    ASSUME PatchInv, NEW c \in Calls, Forget(c)
    PROVE  /\ asked' \in [Calls -> AnyRequest] /\ seen' \in [Calls -> Seq(Attributes)]
           /\ \A d \in Calls \ {c} : asked'[d] = asked[d] /\ seen'[d] = seen[d]
<1>1. NoRequest \in AnyRequest /\ <<>> \in Seq(Attributes)
  BY DEF NoRequest, AnyRequest
<1> QED BY <1>1 DEF PatchInv, PatchTypes, Forget

\* What the controller is told to replace the list with.
LEMMA WriteMeets ==
    ASSUME PatchInv, NEW c \in Calls, Write(c)
    PROVE  /\ attrs' \in Seq(Attributes)
           /\ ToSet(attrs') = (ToSet(seen[c]) \cup ToSet(asked[c].add)) \ ToSet(asked[c].remove)
BY MergeMeets DEF PatchInv, PatchTypes, Write

\* A patch that reaches the controller disturbs no other, or counts as overtaking it.
LEMMA PatchStep ==
    ASSUME PatchInv, NEW c \in Calls, PatchIdentity(c)
    PROVE  /\ PatchInv'
           /\ c \notin inflight /\ at'[c] # "patch"
           /\ \A d \in Calls \ {c} : at'[d] = at[d] /\ (d \in inflight' <=> d \in inflight)
           /\ at'[c] = "ok" \/ faults'["lost"] # faults["lost"] => Write(c)
<1>1. /\ at[c] = "patch" /\ c \notin inflight /\ faults' \in [FaultKinds -> Nat]
  <2>1. NoFault \/ \E kind \in FaultKinds : Fault(kind)
    BY DEF PatchIdentity, FaultKinds
  <2>2. faults' \in [FaultKinds -> Nat]
    BY <2>1 DEF PatchInv, PatchTypes, Fault, NoFault
  <2>3. at[c] = "patch"
    BY DEF PatchIdentity
  <2> QED BY <2>2, <2>3 DEF PatchInv, Final
<1>2. PICK step \in {"ok", "notfound", "failed"} : Goto(c, step)
  BY DEF PatchIdentity
<1>3. /\ at'[c] = step /\ \A d \in Calls \ {c} : at'[d] = at[d]
      /\ at' \in [Calls -> {"detail", "patch"} \cup Final] /\ step \in Final
  BY <1>2 DEF PatchInv, PatchTypes, Goto, Final
<1>10. inflight' \subseteq inflight \cup {c} => \A d \in inflight' : at'[d] \in Final
  BY <1>3 DEF PatchInv, PatchTypes
<1>4. ASSUME Write(c), UNCHANGED inflight PROVE PatchInv'
  <2>1. PatchTypes'
    BY <1>1, <1>3, <1>4, ForgetTypes, WriteMeets DEF PatchInv, PatchTypes, Write
  <2>2. ReadIsCurrent'
    BY <1>1, <1>3, <1>4 DEF ReadIsCurrent, Write
  <2>3. \A d \in inflight' : at'[d] \in Final
    BY <1>10, <1>4
  <2> QED BY <2>1, <2>2, <2>3 DEF PatchInv
<1>5. ASSUME WriteNothing(c), UNCHANGED inflight PROVE PatchInv'
  <2>1. PatchTypes'
    BY <1>1, <1>3, <1>5, ForgetTypes DEF PatchInv, PatchTypes, WriteNothing
  <2>2. ReadIsCurrent'
    BY <1>1, <1>3, <1>5, ForgetTypes DEF ReadIsCurrent, WriteNothing, PatchInv
  <2>3. \A d \in inflight' : at'[d] \in Final
    BY <1>10, <1>5
  <2> QED BY <2>1, <2>2, <2>3 DEF PatchInv
<1>6. ASSUME inflight' = inflight \cup {c}, UNCHANGED <<attrs, asked, seen, overtaken>>
      PROVE  PatchInv'
  <2>1. PatchTypes'
    BY <1>1, <1>3, <1>6 DEF PatchInv, PatchTypes
  <2>2. ReadIsCurrent'
    BY <1>1, <1>3, <1>6 DEF ReadIsCurrent, PatchInv
  <2>3. \A d \in inflight' : at'[d] \in Final
    BY <1>10, <1>6
  <2> QED BY <2>1, <2>2, <2>3 DEF PatchInv
<1>7. PatchInv'
  BY <1>4, <1>5, <1>6 DEF PatchIdentity
<1>8. \A d \in Calls \ {c} : d \in inflight' <=> d \in inflight
  BY DEF PatchIdentity
<1>9. at'[c] = "ok" \/ faults'["lost"] # faults["lost"] => Write(c)
  BY <1>3 DEF PatchIdentity, PatchInv, PatchTypes, Goto, Fault, NoFault, FaultKinds
<1> QED BY <1>1, <1>3, <1>7, <1>8, <1>9 DEF Final

\* Every step preserves the invariant, and what counts as a write is one.
LEMMA PatchInvNext ==
    ASSUME PatchInv, [PatchNext]_patching
    PROVE  /\ PatchInv'
           /\ \A c \in Calls : Wrote(c) => Write(c)
<1>1. ASSUME NEW c \in Calls, PatchIdentity(c)
      PROVE  PatchInv' /\ \A d \in Calls : Wrote(d) => Write(d)
  BY <1>1, PatchStep DEF Wrote
<1>2. ASSUME NEW c \in Calls, ApplyLate(c)
      PROVE  PatchInv' /\ \A d \in Calls : Wrote(d) => Write(d)
  <2>1. /\ c \in inflight /\ inflight' = inflight \ {c} /\ UNCHANGED <<live, at, faults>>
        /\ at[c] \in Final
    BY <1>2 DEF ApplyLate, PatchInv
  <2>2. \A d \in inflight' : at'[d] \in Final
    BY <2>1 DEF PatchInv
  <2>3. at[c] # "patch"
    BY <2>1 DEF Final
  <2>4. CASE Write(c)
    <3>1. PatchTypes'
      BY <2>1, <2>4, ForgetTypes, WriteMeets DEF PatchInv, PatchTypes, Write
    <3>2. ReadIsCurrent'
      BY <2>1, <2>3, <2>4 DEF ReadIsCurrent, Write
    <3>3. \A d \in Calls : Wrote(d) => d = c
      BY <2>1 DEF Wrote
    <3> QED BY <2>2, <2>4, <3>1, <3>2, <3>3 DEF PatchInv
  <2>5. CASE ~live /\ WriteNothing(c)
    <3>1. PatchTypes'
      BY <2>1, <2>5, ForgetTypes DEF PatchInv, PatchTypes, WriteNothing
    <3>2. ReadIsCurrent'
      BY <2>1, <2>3, <2>5, ForgetTypes DEF ReadIsCurrent, WriteNothing, PatchInv
    <3> QED BY <2>2, <2>5, <3>1, <3>2 DEF PatchInv, Wrote
  <2> QED BY <1>2, <2>4, <2>5 DEF ApplyLate
<1>3. ASSUME NEW c \in Calls, NEW request \in Requests, Start(c, request)
      PROVE  PatchInv' /\ \A d \in Calls : ~Wrote(d)
  <2>1. /\ at' = [at EXCEPT ![c] = "detail"] /\ asked' = [asked EXCEPT ![c] = request]
        /\ UNCHANGED <<live, attrs, seen, inflight, faults, overtaken>>
        /\ c \notin inflight /\ at[c] \in Final /\ request \in AnyRequest
    BY <1>3, RequestsAssumption DEF Start, Goto, AnyRequest
  <2>2. PatchTypes'
    BY <2>1 DEF PatchInv, PatchTypes
  <2>3. ReadIsCurrent' /\ \A d \in inflight' : at'[d] \in Final
    BY <2>1 DEF PatchInv, PatchTypes, ReadIsCurrent
  <2>4. \A d \in Calls : ~Wrote(d)
    BY <2>1 DEF PatchInv, PatchTypes, Wrote, Final
  <2> QED BY <2>2, <2>3, <2>4 DEF PatchInv
<1>4. ASSUME NEW c \in Calls, detailIdentity(c)
      PROVE  PatchInv' /\ \A d \in Calls : ~Wrote(d)
  <2>1. NoFault \/ Fault("refused")
    BY <1>4 DEF detailIdentity
  <2>2. faults' \in [FaultKinds -> Nat] /\ faults'["lost"] = faults["lost"]
    BY <2>1 DEF PatchInv, PatchTypes, Fault, NoFault, FaultKinds
  <2>3. at[c] = "detail" /\ c \notin inflight /\ UNCHANGED <<live, attrs, inflight, overtaken>>
    BY <1>4 DEF detailIdentity, PatchInv, Final
  <2>4. PICK step \in {"patch", "notfound", "failed"} : Goto(c, step)
    BY <1>4 DEF detailIdentity
  <2>5. /\ at'[c] = step /\ \A d \in Calls \ {c} : at'[d] = at[d]
        /\ at' \in [Calls -> {"detail", "patch"} \cup Final]
    BY <2>4 DEF PatchInv, PatchTypes, Goto, Final
  <2>6. /\ asked' \in [Calls -> AnyRequest] /\ seen' \in [Calls -> Seq(Attributes)]
        /\ \A d \in Calls \ {c} : seen'[d] = seen[d]
        /\ step = "patch" => seen'[c] = attrs
    <3>1. CASE Forget(c) /\ step # "patch"
      BY <3>1, ForgetTypes
    <3>2. CASE seen' = [seen EXCEPT ![c] = attrs] /\ UNCHANGED asked
      BY <3>2 DEF PatchInv, PatchTypes
    <3> QED BY <1>4, <2>5, <3>1, <3>2 DEF detailIdentity, Goto, PatchInv, PatchTypes
  <2>7. PatchTypes'
    BY <2>2, <2>3, <2>5, <2>6 DEF PatchInv, PatchTypes
  <2>8. ReadIsCurrent'
    BY <2>3, <2>5, <2>6 DEF PatchInv, ReadIsCurrent
  <2>9. \A d \in inflight' : at'[d] \in Final
    BY <2>3, <2>5 DEF PatchInv, PatchTypes
  <2>10. \A d \in Calls : ~Wrote(d)
    BY <2>2, <2>3, <2>5 DEF Wrote
  <2> QED BY <2>7, <2>8, <2>9, <2>10 DEF PatchInv
<1>5. ASSUME DeleteIdentity \/ UNCHANGED patching
      PROVE  PatchInv' /\ \A d \in Calls : ~Wrote(d)
  <2>1. UNCHANGED <<attrs, at, asked, seen, inflight, faults, overtaken>>
    BY <1>5 DEF DeleteIdentity, patching
  <2> QED BY <2>1 DEF PatchInv, PatchTypes, ReadIsCurrent, Wrote
<1> DEFINE Goal == PatchInv' /\ \A c \in Calls : Wrote(c) => Write(c)
<1>6. \A c \in Calls : PatchIdentity(c) \/ ApplyLate(c) \/ detailIdentity(c) => Goal
  BY <1>1, <1>2, <1>4
<1>7. \A c \in Calls, request \in Requests : Start(c, request) => Goal
  BY <1>3
<1>8. DeleteIdentity \/ UNCHANGED patching => Goal
  BY <1>5
<1> HIDE DEF Goal
<1>9. PatchNext \/ UNCHANGED patching
  OBVIOUS
<1>10. Goal
  BY <1>6, <1>7, <1>8, <1>9 DEF PatchNext
<1> QED BY <1>10 DEF Goal

\* What overlapping patches have read, asked for and written, at any time.
THEOREM PatchInvariant == PatchSpec => []PatchInv
<1>1. PatchInv /\ [PatchNext]_patching => PatchInv'
  BY PatchInvNext
<1> QED BY <1>1, PatchInvInit, PTL DEF PatchSpec

\* Every list that is written is what the reference asks for.
THEOREM MergesAreRight == PatchSpec => []MergeMeetsReference
<1>1. PatchInv => MergeMeetsReference
  BY MergeMeets DEF PatchInv, PatchTypes, MergeMeetsReference
<1> QED BY <1>1, PatchInvariant, PTL

\* A patch is lost only to a write between its read and its write.
THEOREM LossesAreOvertakings == PatchSpec => LossNeedsOvertaking
<1>1. ASSUME PatchInv, [PatchNext]_patching, NEW c \in Calls, Wrote(c), c \notin overtaken
      PROVE  ToSet(attrs') = (ToSet(attrs) \cup ToSet(asked[c].add)) \ ToSet(asked[c].remove)
  <2>1. Write(c)
    BY <1>1, PatchInvNext
  <2>2. seen[c] = attrs
    BY <1>1 DEF PatchInv, ReadIsCurrent, Wrote
  <2> QED BY <1>1, <2>1, <2>2, WriteMeets
<1>2. PatchInv /\ [PatchNext]_patching =>
          [\A c \in Calls : Wrote(c) /\ c \notin overtaken =>
              ToSet(attrs') = (ToSet(attrs) \cup ToSet(asked[c].add))
                                  \ ToSet(asked[c].remove)]_patching
  BY <1>1
<1> QED BY <1>2, PatchInvariant, PTL DEF PatchSpec, LossNeedsOvertaking
==============================================================================
