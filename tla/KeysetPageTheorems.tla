------------------------- MODULE KeysetPageTheorems -------------------------
(***************************************************************************)
(* What a page holds, for any finite set of rows and any page size.        *)
(***************************************************************************)
EXTENDS KeysetPage, FiniteSetTheorems, WellFoundedInduction, TLAPS

\* A nonempty set of numbers has a least element.
LEMMA LeastExists ==
    ASSUME NEW S \in SUBSET Nat, S # {}
    PROVE  \E k \in S : \A j \in S : k <= j
  <1>1. PICK k \in S : \A j \in S : <<j, k>> \notin OpToRel(<, Nat)
    BY NatLessThanWellFounded, WFMin
  <1>2. \A j \in S : ~(j < k)
    BY <1>1 DEF OpToRel
  <1> QED
    BY <1>2

\* A nonempty finite set of numbers has a greatest one: among the sets
\* {j \in S : x <= j}, a smallest by inclusion starts at the greatest element.
LEMMA GreatestExists ==
    ASSUME NEW S \in SUBSET Nat, S # {}, IsFiniteSet(S)
    PROVE  GreatestOf(S) \in S /\ \A j \in S : j <= GreatestOf(S)
  <1> DEFINE Up(x) == {j \in S : x <= j}
             Ups == {Up(x) : x \in S}
  <1>1. Ups \subseteq FiniteSubsetsOf(S) /\ Ups # {}
    <2>1. Ups \subseteq SUBSET S /\ Ups # {}
      OBVIOUS
    <2>2. FiniteSubsetsOf(S) = SUBSET S
      BY FS_FiniteSubsetsOfFinite
    <2> QED
      BY <2>1, <2>2
  <1>2. PICK A \in Ups : \A B \in Ups : <<B, A>> \notin StrictSubsetOrdering(S)
    <2> HIDE DEF Ups
    <2> QED BY <1>1, FS_StrictSubsetOrderingWellFounded, WFMin
  <1>3. PICK x \in S : A = Up(x)
    BY <1>2
  <1>4. \A j \in S : j <= x
    <2> SUFFICES ASSUME NEW j \in S, x < j
                 PROVE  FALSE
      OBVIOUS
    <2>1. x \in Nat /\ j \in Nat /\ A = {i \in S : x <= i}
      BY <1>3
    <2>2. \A i \in S : i \in Nat /\ (j <= i => x <= i)
      BY <2>1
    <2>3. Up(j) \subseteq A /\ x \in A /\ x \notin Up(j)
      <3>1. Up(j) \subseteq A
        BY <2>1, <2>2
      <3>2. x \in A
        BY <2>1
      <3>3. x \notin Up(j)
        BY <2>1
      <3> QED
        BY <3>1, <3>2, <3>3
    <2>4. Up(j) \in SUBSET S /\ A \in SUBSET S
      BY <2>1
    <2>5. <<Up(j), A>> \in StrictSubsetOrdering(S)
      BY <2>3, <2>4 DEF StrictSubsetOrdering
    <2> QED
      BY <2>5, <1>2
  <1> QED
    BY <1>4 DEF GreatestOf

\* A page is finite and made of the selected rows beyond the anchor.
LEMMA PageWithin ==
    ASSUME NEW S \in SUBSET Nat, IsFiniteSet(S), NEW a \in Nat, NEW n
    PROVE  /\ PageAfter(S, a, n) \subseteq S
           /\ \A k \in PageAfter(S, a, n) : a < k
           /\ IsFiniteSet(PageAfter(S, a, n))
           /\ Cardinality(PageAfter(S, a, n)) \in Nat
  <1>1. PageAfter(S, a, n) \subseteq S /\ \A k \in PageAfter(S, a, n) : a < k
    BY DEF PageAfter, FirstOf
  <1>2. IsFiniteSet(PageAfter(S, a, n))
    BY <1>1, FS_Subset
  <1> QED
    BY <1>1, <1>2, FS_CardinalityType

\* A page skips nothing: a selected row beyond the anchor that is at or before
\* a row of the page is in the page.
LEMMA PageSkipsNothing ==
    ASSUME NEW S \in SUBSET Nat, IsFiniteSet(S), NEW a \in Nat, NEW n \in Nat,
           NEW j \in PageAfter(S, a, n), NEW k \in S, a < k, k <= j
    PROVE  k \in PageAfter(S, a, n)
  <1> DEFINE T == {i \in S : i > a}
             Below(x) == {i \in T : i < x}
  <1>1. IsFiniteSet(T) /\ k \in T /\ j \in T /\ Cardinality(Below(j)) < n
    BY FS_Subset DEF PageAfter, FirstOf
  <1>2. IsFiniteSet(Below(j)) /\ IsFiniteSet(Below(k))
    BY <1>1, FS_Subset
  <1>3. Below(k) \subseteq Below(j)
    <2> SUFFICES ASSUME NEW i \in T, i < k
                 PROVE  i < j
      OBVIOUS
    <2>1. i \in Nat /\ j \in Nat /\ k \in Nat
      BY <1>1
    <2> QED
      BY <2>1
  <1>4. Cardinality(Below(k)) <= Cardinality(Below(j))
    BY <1>2, <1>3, FS_Subset
  <1>5. Cardinality(Below(k)) \in Nat /\ Cardinality(Below(j)) \in Nat
    BY <1>2, FS_CardinalityType
  <1>6. Cardinality(Below(k)) < n
    BY <1>1, <1>4, <1>5
  <1> QED
    BY <1>1, <1>6 DEF PageAfter, FirstOf

\* A page shorter than the limit is the last: it holds every selected row
\* beyond the anchor.
LEMMA ShortPageIsLast ==
    ASSUME NEW S \in SUBSET Nat, IsFiniteSet(S), NEW a \in Nat, NEW n \in Nat,
           Cardinality(PageAfter(S, a, n)) < n
    PROVE  \A k \in S : a < k => k \in PageAfter(S, a, n)
  <1> DEFINE T == {i \in S : i > a}
             P == FirstOf(T, n)
             Below(x) == {i \in T : i < x}
  <1>1. IsFiniteSet(T) /\ T \subseteq Nat
    BY FS_Subset
  <1>2. P \subseteq T /\ IsFiniteSet(P)
    BY <1>1, FS_Subset DEF FirstOf
  <1>3. T \subseteq P
    <2> SUFFICES ASSUME T \ P # {}
                 PROVE  FALSE
      OBVIOUS
    <2>1. PICK k \in T \ P : \A j \in T \ P : k <= j
      BY <1>1, LeastExists
    <2>2. Below(k) \subseteq P
      BY <1>1, <2>1
    <2>3. Cardinality(Below(k)) <= Cardinality(P)
      BY <1>2, <2>2, FS_Subset
    <2>4. ~(Cardinality(Below(k)) < n)
      BY <2>1 DEF FirstOf
    <2>5. Cardinality(Below(k)) \in Nat /\ Cardinality(P) \in Nat
      BY <1>2, <2>2, FS_Subset, FS_CardinalityType
    <2>6. Cardinality(P) < n
      BY DEF PageAfter
    <2> QED
      BY <2>3, <2>4, <2>5, <2>6
  <1> QED
    BY <1>3 DEF PageAfter
=============================================================================
