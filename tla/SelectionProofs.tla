--------------------------- MODULE SelectionProofs ---------------------------
(***************************************************************************)
(* Lemmas about numbers and sequences that the proofs about the rule index *)
(* and the route of a message rest on: a least number, which stands for    *)
(* induction, and the order in which Selection lists elements.             *)
(***************************************************************************)
EXTENDS Selection, FiniteSetTheorems, TLAPS

\* A set of naturals with a member has a least one.
LEMMA LeastNatural ==
    ASSUME NEW T \in SUBSET Nat, T # {}
    PROVE  \E m \in T : \A n \in T : m <= n
<1> DEFINE Below(n) == {k \in Nat : k < n}
           B == {Below(n) : n \in T}
<1>1. PICK b \in T : TRUE
    OBVIOUS
<1>2. \A n \in T : IsFiniteSet(Below(n))
    BY FS_BoundedSetOfNaturals
<1>3. B \subseteq FiniteSubsetsOf(Nat) /\ B # {}
    BY <1>2 DEF FiniteSubsetsOf
<1>4. PICK X \in B : \A Y \in B : <<Y, X>> \notin StrictSubsetOrdering(Nat)
    <2>1. IsWellFoundedOn(StrictSubsetOrdering(Nat), FiniteSubsetsOf(Nat))
        BY FS_StrictSubsetOrderingWellFounded
    <2> HIDE DEF B
    <2> QED
        BY <2>1, <1>3, WFMin
<1>5. PICK m \in T : X = Below(m)
    BY <1>4
<1>6. ASSUME NEW n \in T, n < m
      PROVE  FALSE
    <2>1. Below(n) \subseteq Below(m) /\ n \in Below(m) /\ n \notin Below(n)
        BY <1>6
    <2>2. <<Below(n), X>> \in StrictSubsetOrdering(Nat)
        BY <2>1, <1>5 DEF StrictSubsetOrdering
    <2> QED
        BY <2>2, <1>4, <1>6
<1> QED
    BY <1>6

\* A monotone map on the subsets of a set has a fixed point.
LEMMA FixedPoint ==
    ASSUME NEW S, NEW M \in [SUBSET S -> SUBSET S],
           \A A, B \in SUBSET S : A \subseteq B => M[A] \subseteq M[B]
    PROVE  \E X \in SUBSET S : M[X] = X
<1> DEFINE Closed == {A \in SUBSET S : M[A] \subseteq A}
           X == {x \in S : \A A \in Closed : x \in A}
<1>1. X \in SUBSET S /\ M[X] \in SUBSET S /\ M[M[X]] \in SUBSET S
  OBVIOUS
<1>2. \A A \in Closed : A \in SUBSET S /\ M[A] \subseteq A /\ X \subseteq A
  OBVIOUS
<1>3. M[X] \subseteq X
  <2> HIDE DEF X
  <2>1. \A A \in Closed : M[X] \subseteq A
    BY <1>1, <1>2
  <2>2. \A y \in M[X] : y \in S
    BY <1>1
  <2>3. QED
    BY <2>1, <2>2 DEF X
<1>4. M[X] \in Closed
  <2> HIDE DEF X
  <2>1. M[M[X]] \subseteq M[X]
    BY <1>1, <1>3
  <2>2. QED
    BY <1>1, <2>1
<1>5. M[X] = X
  BY <1>2, <1>3, <1>4
<1>6. QED
  BY <1>1, <1>5

\* f is first at 1, and after that step of what it was before.
Follows(f, n, first, step) ==
    \A i \in 1..n : f[i] = IF i = 1 THEN first ELSE step[i][f[i - 1]]

\* A function defined by recursion over 1..n exists.
LEMMA RecursionExists ==
    ASSUME NEW V, NEW n \in Nat \ {0}, NEW first \in V, NEW step \in [2..n -> [V -> V]]
    PROVE  \E f \in [1..n -> V] : Follows(f, n, first, step)
<1> DEFINE Solves(f, k) == \A i \in 1..k : f[i] = IF i = 1 THEN first ELSE step[i][f[i - 1]]
           T == {k \in 1..n : ~\E f \in [1..k -> V] : Solves(f, k)}
<1>1. T = {}
  <2> SUFFICES ASSUME T # {} PROVE FALSE
    OBVIOUS
  <2>1. T \in SUBSET Nat
    OBVIOUS
  <2> HIDE DEF T
  <2>2. PICK k \in T : \A j \in T : k <= j
    BY <2>1, LeastNatural
  <2>3. k \in 1..n /\ ~\E f \in [1..k -> V] : Solves(f, k)
    BY DEF T
  <2>4. CASE k = 1
    <3> DEFINE f == [i \in 1..k |-> first]
    <3>1. f \in [1..k -> V] /\ Solves(f, k)
      BY <2>4
    <3>2. QED
      BY <2>3, <3>1
  <2>5. CASE k # 1
    <3>1. k - 1 \in 1..n /\ k \in 2..n
      BY <2>3, <2>5
    <3>2. k - 1 \notin T
      BY <2>2, <2>3, <3>1
    <3>3. PICK g \in [1..(k - 1) -> V] : Solves(g, k - 1)
      BY <3>1, <3>2 DEF T
    <3> DEFINE f == [i \in 1..k |-> IF i = k THEN step[k][g[k - 1]] ELSE g[i]]
    <3>4. \A i \in 1..k : i # k => i \in 1..(k - 1)
      BY <3>1
    <3>5. step[k][g[k - 1]] \in V
      <4>1. g[k - 1] \in V /\ step[k] \in [V -> V]
        BY <3>1
      <4>2. QED
        BY <4>1
    <3>6. f \in [1..k -> V]
      BY <3>4, <3>5
    <3>6a. \A i \in 1..k : f[i] = IF i = k THEN step[k][g[k - 1]] ELSE g[i]
      OBVIOUS
    <3>6b. \A i \in 1..k : i = k \/ f[i] = g[i]
      BY <3>6a
    <3>6c. f[k] = step[k][g[k - 1]]
      BY <2>3, <3>6a
    <3> HIDE DEF f
    <3>7. ASSUME NEW i \in 1..k
          PROVE  f[i] = IF i = 1 THEN first ELSE step[i][f[i - 1]]
      <4>1. CASE i = k
        <5>1. k - 1 \in 1..k /\ k - 1 # k
          BY <3>1
        <5>2. f[k - 1] = g[k - 1] /\ f[k] = step[k][g[k - 1]]
          BY <3>6b, <3>6c, <5>1
        <5>3. QED
          BY <2>5, <4>1, <5>2
      <4>2. CASE i # k
        <5>1. i \in 1..(k - 1)
          BY <3>4, <4>2
        <5>2. i # 1 => i - 1 \in 1..k /\ i - 1 # k
          BY <2>3, <5>1
        <5>3. f[i] = g[i] /\ (i # 1 => f[i - 1] = g[i - 1])
          BY <3>6b, <4>2, <5>2
        <5>4. g[i] = IF i = 1 THEN first ELSE step[i][g[i - 1]]
          BY <3>3, <5>1
        <5>5. QED
          BY <5>3, <5>4
      <4>3. QED
        BY <4>1, <4>2
    <3>8. QED
      BY <2>3, <3>6, <3>7
  <2>6. QED
    BY <2>4, <2>5
<1>2. PICK f \in [1..n -> V] : Solves(f, n)
  BY <1>1
<1>3. QED
  BY <1>2 DEF Follows

\* Sequences are told by their length and elements.
LEMMA SameSeq ==
    ASSUME NEW S, NEW s \in Seq(S), NEW t \in Seq(S), Len(s) = Len(t),
           \A i \in 1..Len(s) : s[i] = t[i]
    PROVE  s = t
OBVIOUS

LEMMA Joined ==
    ASSUME NEW S, NEW s \in Seq(S), NEW t \in Seq(S)
    PROVE  /\ s \o t \in Seq(S) /\ Len(s \o t) = Len(s) + Len(t)
           /\ \A i \in 1..Len(s) : (s \o t)[i] = s[i]
           /\ \A j \in 1..Len(t) : (s \o t)[Len(s) + j] = t[j]
OBVIOUS

-----------------------------------------------------------------------------
(* Ascending. *)

Below(S, x) == {y \in S : y < x}

\* Members are told apart by how many are below them.
LEMMA RankIncreases ==
    ASSUME NEW S \in SUBSET Int, IsFiniteSet(S), NEW x \in S, NEW y \in S, x < y
    PROVE  Cardinality(Below(S, x)) < Cardinality(Below(S, y))
<1>1. IsFiniteSet(Below(S, y)) /\ Below(S, x) \in SUBSET Below(S, y)
    <2>1. Below(S, y) \in SUBSET S
        BY DEF Below
    <2>2. \A z \in S : z < x => z < y
        OBVIOUS
    <2> QED
        BY <2>1, <2>2, FS_Subset DEF Below
<1>2. x \in Below(S, y) /\ x \notin Below(S, x)
    BY DEF Below
<1>3. /\ IsFiniteSet(Below(S, x))
      /\ Cardinality(Below(S, x)) <= Cardinality(Below(S, y))
      /\ Cardinality(Below(S, x)) = Cardinality(Below(S, y)) => Below(S, x) = Below(S, y)
    BY <1>1, FS_Subset
<1>4. Cardinality(Below(S, x)) \in Nat /\ Cardinality(Below(S, y)) \in Nat
    BY <1>1, <1>3, FS_CardinalityType
<1> QED
    BY <1>2, <1>3, <1>4

LEMMA RankBounded ==
    ASSUME NEW S \in SUBSET Int, IsFiniteSet(S), NEW x \in S
    PROVE  Cardinality(Below(S, x)) \in 0..(Cardinality(S) - 1)
<1>1. Below(S, x) \in SUBSET S /\ x \notin Below(S, x)
    BY DEF Below
<1>2. /\ IsFiniteSet(Below(S, x))
      /\ Cardinality(Below(S, x)) <= Cardinality(S)
      /\ Cardinality(S) = Cardinality(Below(S, x)) => S = Below(S, x)
    BY <1>1, FS_Subset
<1>3. Cardinality(Below(S, x)) \in Nat /\ Cardinality(S) \in Nat
    BY <1>2, FS_CardinalityType
<1> QED
    BY <1>1, <1>2, <1>3

\* Every place is taken.
LEMMA RankOnto ==
    ASSUME NEW S \in SUBSET Int, IsFiniteSet(S), NEW k \in 1..Cardinality(S)
    PROVE  \E x \in S : Cardinality(Below(S, x)) = k - 1
<1> DEFINE n == Cardinality(S)
           r == [x \in S |-> Cardinality(Below(S, x)) + 1]
<1>1. n \in Nat
    BY FS_CardinalityType
<1>2. \A x \in S : r[x] \in 1..n
    BY <1>1, RankBounded
<1>3. ASSUME NEW x \in S, NEW y \in S, r[x] = r[y]
      PROVE  x = y
    <2>1. Cardinality(Below(S, x)) = Cardinality(Below(S, y))
        <3>1. Cardinality(Below(S, x)) \in Int /\ Cardinality(Below(S, y)) \in Int
            BY <1>1, RankBounded
        <3> QED
            BY <3>1, <1>3
    <2>2. Cardinality(Below(S, x)) \in Int
        BY <1>1, RankBounded
    <2>3. ~(x < y) /\ ~(y < x)
        BY <2>1, <2>2, RankIncreases
    <2> QED
        BY <2>3
<1>4. r \in Injection(S, 1..n)
    BY <1>2, <1>3 DEF Injection, IsInjective
<1>5. IsFiniteSet(1..n) /\ Cardinality(1..n) = n
    BY <1>1, FS_Interval
<1>6. r \in Surjection(S, 1..n)
    BY <1>4, <1>5, FS_Injection
<1>7. PICK x \in S : r[x] = k
    BY <1>6 DEF Surjection
<1>8. Cardinality(Below(S, x)) \in Int
    BY <1>1, RankBounded
<1> QED
    BY <1>7, <1>8

\* Ascending lists the members of a set, each once, the lower first.
LEMMA AscendingFacts ==
    ASSUME NEW S \in SUBSET Int, IsFiniteSet(S)
    PROVE  /\ Cardinality(S) \in Nat
           /\ Ascending(S) \in [1..Cardinality(S) -> S]
           /\ \A i, j \in 1..Cardinality(S) : i < j => Ascending(S)[i] < Ascending(S)[j]
           /\ \A x \in S : \E k \in 1..Cardinality(S) : Ascending(S)[k] = x
<1> DEFINE n == Cardinality(S)
           a == Ascending(S)
<1>1. n \in Nat
    BY FS_CardinalityType
<1>2. \A k \in 1..n : a[k] \in S /\ Cardinality(Below(S, a[k])) = k - 1
    BY RankOnto DEF Ascending, Below
<1>3. a \in [1..n -> S]
    BY <1>2 DEF Ascending
<1>4. ASSUME NEW i \in 1..n, NEW j \in 1..n, i < j
      PROVE  a[i] < a[j]
    <2>1. a[i] \in S /\ a[j] \in S /\ a[i] \in Int /\ a[j] \in Int
        BY <1>2
    <2>2. Cardinality(Below(S, a[i])) < Cardinality(Below(S, a[j]))
        BY <1>1, <1>2, <1>4
    <2>3. a[i] # a[j]
        BY <2>2, <1>1, <1>2
    <2>4. CASE a[j] < a[i]
        <3>1. Cardinality(Below(S, a[j])) < Cardinality(Below(S, a[i]))
            BY <2>1, <2>4, RankIncreases
        <3> QED
            BY <3>1, <1>1, <1>2, <1>4
    <2> QED
        BY <2>1, <2>3, <2>4
<1>5. ASSUME NEW x \in S
      PROVE  \E k \in 1..n : a[k] = x
    <2>1. PICK k \in 1..n : Cardinality(Below(S, x)) = k - 1
        <3>1. Cardinality(Below(S, x)) + 1 \in 1..n
            BY <1>1, RankBounded
        <3>2. Cardinality(Below(S, x)) = (Cardinality(Below(S, x)) + 1) - 1
            BY <1>1, RankBounded
        <3> QED
            BY <3>1, <3>2
    <2>2. a[k] \in S /\ Cardinality(Below(S, a[k])) = k - 1
        BY <1>2
    <2> HIDE DEF a
    <2>3. PICK y \in S : y = a[k]
        BY <2>2
    <2>4. ~(y < x) /\ ~(x < y)
        BY <1>1, <2>1, <2>2, <2>3, RankIncreases
    <2>5. y = x
        BY <2>4
    <2> QED
        BY <2>3, <2>5
<1> QED
    BY <1>1, <1>3, <1>4, <1>5

\* No other list does so.
LEMMA AscendingUnique ==
    ASSUME NEW S \in SUBSET Int, NEW n \in Nat, NEW f \in [1..n -> S],
           \A i, j \in 1..n : i < j => f[i] < f[j],
           \A x \in S : \E k \in 1..n : f[k] = x
    PROVE  /\ IsFiniteSet(S) /\ Cardinality(S) = n
           /\ Ascending(S) = f
<1>1. ASSUME NEW i \in 1..n, NEW j \in 1..n
      PROVE  (f[i] < f[j] <=> i < j) /\ (f[i] = f[j] <=> i = j)
    <2>1. f[i] \in Int /\ f[j] \in Int
        OBVIOUS
    <2>2. i < j \/ i = j \/ j < i
        OBVIOUS
    <2> QED
        BY <2>1, <2>2
<1>2. ASSUME NEW m \in 0..n
      PROVE  LET T == {x \in S : \E k \in 1..m : f[k] = x}
             IN  IsFiniteSet(T) /\ Cardinality(T) = m
    <2> DEFINE T == {x \in S : \E k \in 1..m : f[k] = x}
               g == [k \in 1..m |-> f[k]]
    <2>1. g \in [1..m -> T]
        OBVIOUS
    <2>2. \A i, j \in 1..m : g[i] = g[j] => i = j
        BY <1>1
    <2>3. \A x \in T : \E k \in 1..m : g[k] = x
        OBVIOUS
    <2> HIDE DEF T, g
    <2>4. g \in Bijection(1..m, T)
        BY <2>1, <2>2, <2>3 DEF Bijection, Injection, Surjection, IsInjective
    <2>5. IsFiniteSet(1..m) /\ Cardinality(1..m) = m
        BY FS_Interval
    <2>6. IsFiniteSet(T) /\ Cardinality(T) = m
        BY <2>4, <2>5, FS_Bijection DEF ExistsBijection
    <2> QED
        BY <2>6 DEF T
<1>3. IsFiniteSet(S) /\ Cardinality(S) = n
    <2>1. S = {x \in S : \E k \in 1..n : f[k] = x}
        OBVIOUS
    <2> QED
        BY <2>1, <1>2
<1>4. ASSUME NEW k \in 1..n
      PROVE  Cardinality(Below(S, f[k])) = k - 1
    <2>1. Below(S, f[k]) = {x \in S : \E i \in 1..(k - 1) : f[i] = x}
        <3>1. ASSUME NEW x \in S, x < f[k]
              PROVE  \E i \in 1..(k - 1) : f[i] = x
            <4>1. PICK i \in 1..n : f[i] = x
                OBVIOUS
            <4>2. i < k
                BY <4>1, <3>1, <1>1
            <4> QED
                BY <4>1, <4>2
        <3>2. ASSUME NEW i \in 1..(k - 1)
              PROVE  f[i] < f[k]
            BY <1>1
        <3> QED
            BY <3>1, <3>2 DEF Below
    <2>2. k - 1 \in 0..n
        OBVIOUS
    <2> QED
        BY <2>1, <2>2, <1>2
<1>5. ASSUME NEW k \in 1..n
      PROVE  Ascending(S)[k] = f[k]
    <2>1. ASSUME NEW x \in S, Cardinality(Below(S, x)) = k - 1
          PROVE  x = f[k]
        <3>1. ~(x < f[k]) /\ ~(f[k] < x)
            BY <2>1, <1>3, <1>4, RankIncreases
        <3> QED
            BY <3>1
    <2> QED
        BY <2>1, <1>3, <1>4 DEF Ascending, Below
<1>6. Ascending(S) \in [1..n -> S]
    BY <1>3, AscendingFacts
<1> QED
    BY <1>3, <1>5, <1>6

-----------------------------------------------------------------------------
(* Selected. *)

LEMMA PositionsFinite ==
    ASSUME NEW n \in Nat, NEW S \in SUBSET (1..n)
    PROVE  S \in SUBSET Int /\ IsFiniteSet(S) /\ Cardinality(S) \in Nat
<1>1. IsFiniteSet(1..n)
    BY FS_Interval
<1>2. IsFiniteSet(S)
    BY <1>1, FS_Subset
<1>3. \A x \in S : x \in Int
    OBVIOUS
<1> QED
    BY <1>2, <1>3, FS_CardinalityType

\* The elements of r are those that s has at the positions in S; f lists these
\* positions, the lower first.
Picks(r, s, S, f) ==
    /\ Len(r) \in Nat /\ f \in [1..Len(r) -> S]
    /\ \A i, j \in 1..Len(r) : i < j => f[i] < f[j]
    /\ \A x \in S : \E k \in 1..Len(r) : f[k] = x
    /\ \A k \in 1..Len(r) : r[k] = s[f[k]]

LEMMA SelectedFacts ==
    ASSUME NEW E, NEW s \in Seq(E), NEW S \in SUBSET (1..Len(s))
    PROVE  Selected(s, S) \in Seq(E) /\ \E f : Picks(Selected(s, S), s, S, f)
<1> DEFINE n == Cardinality(S)
           a == Ascending(S)
<1>1. Len(s) \in Nat
    OBVIOUS
<1>2. S \in SUBSET Int /\ IsFiniteSet(S) /\ n \in Nat
    BY <1>1, PositionsFinite
<1>3. /\ a \in [1..n -> S]
      /\ \A i, j \in 1..n : i < j => a[i] < a[j]
      /\ \A x \in S : \E k \in 1..n : a[k] = x
    BY <1>2, AscendingFacts
<1>4. Selected(s, S) = [k \in 1..n |-> s[a[k]]]
    BY DEF Selected
<1> HIDE DEF a, n
<1>5. ASSUME NEW k \in 1..n
      PROVE  s[a[k]] \in E
    <2>1. a[k] \in 1..Len(s)
        BY <1>3
    <2> QED
        BY <2>1
<1>6. Selected(s, S) \in Seq(E) /\ Len(Selected(s, S)) = n
    BY <1>2, <1>4, <1>5
<1>7. \A k \in 1..n : Selected(s, S)[k] = s[a[k]]
    BY <1>4
<1>8. Picks(Selected(s, S), s, S, a)
    BY <1>2, <1>3, <1>6, <1>7 DEF Picks
<1> QED
    BY <1>6, <1>8

LEMMA SelectedNone == \A s : Selected(s, {}) = << >>
BY FS_EmptySet DEF Selected

\* The next position adds its element at the end.
LEMMA SelectedNext ==
    ASSUME NEW E, NEW s \in Seq(E), NEW n \in Nat, n < Len(s), NEW S \in SUBSET (1..n)
    PROVE  Selected(s, S \cup {n + 1}) = Append(Selected(s, S), s[n + 1])
<1> DEFINE m == Cardinality(S)
           a == Ascending(S)
           T == S \cup {n + 1}
           b == [k \in 1..(m + 1) |-> IF k = m + 1 THEN n + 1 ELSE a[k]]
<1>1. S \in SUBSET Int /\ IsFiniteSet(S) /\ m \in Nat
    BY PositionsFinite
<1>2. /\ a \in [1..m -> S]
      /\ \A i, j \in 1..m : i < j => a[i] < a[j]
      /\ \A x \in S : \E k \in 1..m : a[k] = x
    BY <1>1, AscendingFacts
<1> HIDE DEF a, m
<1>3. b \in [1..(m + 1) -> T]
    BY <1>1, <1>2
<1>4. ASSUME NEW i \in 1..(m + 1), NEW j \in 1..(m + 1), i < j
      PROVE  b[i] < b[j]
    <2>1. i \in 1..m /\ b[i] = a[i]
        BY <1>1, <1>4
    <2>2. a[i] \in 1..n
        BY <1>2, <2>1
    <2>3. CASE j = m + 1
        BY <2>1, <2>2, <2>3
    <2>4. CASE j # m + 1
        BY <1>1, <1>2, <1>4, <2>1, <2>4
    <2> QED
        BY <2>3, <2>4
<1>5. ASSUME NEW x \in T
      PROVE  \E k \in 1..(m + 1) : b[k] = x
    <2>1. CASE x = n + 1
        BY <2>1, <1>1
    <2>2. CASE x \in S
        <3>1. PICK k \in 1..m : a[k] = x
            BY <2>2, <1>2
        <3>2. k \in 1..(m + 1) /\ k # m + 1
            BY <1>1
        <3> QED
            BY <3>1, <3>2
    <2> QED
        BY <2>1, <2>2
<1>6. Cardinality(T) = m + 1 /\ Ascending(T) = b
    <2>1. T \in SUBSET Int /\ m + 1 \in Nat
        BY <1>1
    <2> HIDE DEF b, T
    <2> QED
        BY <2>1, <1>3, <1>4, <1>5, AscendingUnique
<1>7. Selected(s, T) = [k \in 1..(m + 1) |-> s[b[k]]]
    BY <1>6 DEF Selected
<1>8. Selected(s, S) = [k \in 1..m |-> s[a[k]]]
    BY DEF Selected, a, m
<1>9. ASSUME NEW k \in 1..m
      PROVE  s[a[k]] \in E
    <2>1. a[k] \in 1..n
        BY <1>2
    <2>2. a[k] \in 1..Len(s)
        BY <2>1
    <2> QED
        BY <2>2
<1>10. Selected(s, S) \in Seq(E) /\ Len(Selected(s, S)) = m
    BY <1>1, <1>8, <1>9
<1>11. Append(Selected(s, S), s[n + 1]) =
           [k \in 1..(m + 1) |-> IF k = m + 1 THEN s[n + 1] ELSE Selected(s, S)[k]]
    BY <1>1, <1>10
<1>12. \A k \in 1..(m + 1) :
           s[b[k]] = IF k = m + 1 THEN s[n + 1] ELSE Selected(s, S)[k]
    BY <1>1, <1>8
<1> QED
    BY <1>7, <1>11, <1>12
==============================================================================
