----------------------------- MODULE ScanProofs -----------------------------
(* Facts about the scans of module Scan over a buffer of n slots.          *)
EXTENDS Scan, FiniteSetTheorems, WellFoundedInduction, TLAPS

\* A nonempty set of naturals has a least member.
LEMMA LeastNat ==
  ASSUME NEW T, T \subseteq Nat, T # {}
  PROVE  \E x \in T : \A y \in T : x <= y
<1>1. PICK x \in T : \A y \in T : ~ (<<y, x>> \in OpToRel(<, Nat))
  BY NatLessThanWellFounded, WFMin
<1>2. ASSUME NEW y \in T PROVE x <= y
  <2>1. <<y, x>> \notin OpToRel(<, Nat)
    BY <1>1
  <2>2. ~ (y < x)
    BY <2>1 DEF OpToRel
  <2> QED BY <2>2
<1> QED BY <1>2

\* A set of buffer indices is finite, and Latest is its greatest member.
LEMMA LatestIsLast ==
  ASSUME NEW n \in Nat, NEW S, S \subseteq 0 .. n - 1, S # {}
  PROVE  Latest(S) \in S /\ \A j \in S : j <= Latest(S)
<1> DEFINE T == {n - i : i \in S}
<1>1. T \subseteq Nat /\ T # {}
  OBVIOUS
<1>2. PICK x \in T : \A y \in T : x <= y
  BY <1>1, LeastNat
<1>3. PICK i \in S : x = n - i
  BY <1>2
<1>4. \A j \in S : j <= i
  BY <1>2, <1>3
<1> QED BY <1>4 DEF Latest

LEMMA IndicesFinite ==
  ASSUME NEW n \in Nat, NEW S, S \subseteq 0 .. n - 1
  PROVE  IsFiniteSet(S) /\ Cardinality(S) \in Nat
<1>1. IsFiniteSet(0 .. n - 1)
  BY FS_Interval
<1>2. IsFiniteSet(S)
  BY <1>1, FS_Subset
<1> QED BY <1>2, FS_CardinalityType

\* Ranks order the members of S without gaps or repetitions...
LEMMA RankStrict ==
  ASSUME NEW n \in Nat, NEW S, S \subseteq 0 .. n - 1,
         NEW i \in S, NEW k \in S, i < k
  PROVE  Rank(S, i) < Rank(S, k)
<1> DEFINE A == {j \in S : j < i}
           B == {j \in S : j < k}
<1>1. IsFiniteSet(B) /\ IsFiniteSet(A \union {i}) /\ IsFiniteSet(A)
  BY IndicesFinite
<1>0. \A j \in S : j \in Int
  OBVIOUS
<1>2. A \union {i} \in SUBSET B /\ i \notin A
  <2>1. \A j \in A : j \in B
    BY <1>0
  <2>2. i \in B /\ i \notin A
    BY <1>0
  <2> QED BY <2>1, <2>2
<1>3. Cardinality(A \union {i}) = Cardinality(A) + 1
  BY <1>1, <1>2, FS_AddElement
<1>4. Cardinality(A \union {i}) <= Cardinality(B)
  BY <1>1, <1>2, FS_Subset
<1>5. Cardinality(A) \in Nat /\ Cardinality(B) \in Nat
  BY <1>1, FS_CardinalityType
<1> QED BY <1>3, <1>4, <1>5 DEF Rank

LEMMA RankRange ==
  ASSUME NEW n \in Nat, NEW S, S \subseteq 0 .. n - 1, NEW i \in S
  PROVE  Rank(S, i) \in 0 .. Cardinality(S) - 1
<1> DEFINE A == {j \in S : j < i}
<1>1. IsFiniteSet(S) /\ IsFiniteSet(A \union {i}) /\ IsFiniteSet(A)
  BY IndicesFinite
<1>2. A \union {i} \in SUBSET S /\ i \notin A
  OBVIOUS
<1>3. Cardinality(A \union {i}) = Cardinality(A) + 1
  BY <1>1, <1>2, FS_AddElement
<1>4. Cardinality(A \union {i}) <= Cardinality(S)
  BY <1>1, <1>2, FS_Subset
<1>5. Cardinality(A) \in Nat /\ Cardinality(S) \in Nat
  BY <1>1, FS_CardinalityType
<1> QED BY <1>3, <1>4, <1>5 DEF Rank

\* ... so that Nth enumerates S.
LEMMA NthIsMember ==
  ASSUME NEW n \in Nat, NEW S, S \subseteq 0 .. n - 1,
         NEW r \in 0 .. Cardinality(S) - 1
  PROVE  Nth(S, r) \in S /\ Rank(S, Nth(S, r)) = r
<1> DEFINE C == Cardinality(S)
           f == [i \in S |-> Rank(S, i)]
<1>1. IsFiniteSet(S) /\ C \in Nat
  BY IndicesFinite
<1>2. IsFiniteSet(0 .. C - 1) /\ Cardinality(0 .. C - 1) = C
  BY <1>1, FS_Interval
<1>3. f \in [S -> 0 .. C - 1]
  BY RankRange
<1>4. \A i, k \in S : f[i] = f[k] => i = k
  <2> SUFFICES ASSUME NEW i \in S, NEW k \in S, f[i] = f[k], i # k PROVE FALSE
    OBVIOUS
  <2>1. i < k \/ k < i
    OBVIOUS
  <2>2. Rank(S, i) \in Nat /\ Rank(S, k) \in Nat
    BY <1>3
  <2>3. Rank(S, i) < Rank(S, k) \/ Rank(S, k) < Rank(S, i)
    BY <2>1, RankStrict
  <2> QED BY <2>2, <2>3
<1>5. f \in Injection(S, 0 .. C - 1)
  BY <1>3, <1>4 DEF Injection, IsInjective
<1>6. f \in Surjection(S, 0 .. C - 1)
  BY <1>5, <1>2, FS_Injection
<1>7. PICK i \in S : f[i] = r
  BY <1>6 DEF Surjection
<1>8. \E j \in S : Rank(S, j) = r
  BY <1>7
<1> QED BY <1>8 DEF Nth

LEMMA NthInjective ==
  ASSUME NEW n \in Nat, NEW S, S \subseteq 0 .. n - 1,
         NEW q \in 0 .. Cardinality(S) - 1, NEW r \in 0 .. Cardinality(S) - 1,
         Nth(S, q) = Nth(S, r)
  PROVE  q = r
BY NthIsMember

\* Nth counts from left to right.
LEMMA NthIncreases ==
  ASSUME NEW n \in Nat, NEW S, S \subseteq 0 .. n - 1,
         NEW q \in 0 .. Cardinality(S) - 1, NEW r \in 0 .. Cardinality(S) - 1,
         q < r
  PROVE  Nth(S, q) < Nth(S, r)
<1> DEFINE a == Nth(S, q)
           b == Nth(S, r)
<1>1. a \in S /\ b \in S /\ Rank(S, a) = q /\ Rank(S, b) = r
  BY NthIsMember
<1> HIDE DEF a, b
<1>0. Cardinality(S) \in Nat
  BY IndicesFinite
<1>2. a \in Int /\ b \in Int /\ q \in Int /\ r \in Int
  BY <1>0, <1>1
<1>3. ASSUME b < a PROVE FALSE
  <2>1. Rank(S, b) < Rank(S, a)
    BY <1>1, <1>3, RankStrict
  <2> QED BY <1>1, <1>2, <2>1
<1>4. a # b
  BY <1>1, <1>2
<1>5. a < b
  BY <1>2, <1>3, <1>4
<1> QED BY <1>5 DEF a, b

\* Every member is met by the enumeration, in its place.
LEMMA NthOfRank ==
  ASSUME NEW n \in Nat, NEW S, S \subseteq 0 .. n - 1, NEW i \in S
  PROVE  Nth(S, Rank(S, i)) = i
<1>1. Rank(S, i) \in 0 .. Cardinality(S) - 1
  BY RankRange
<1>2. PICK k \in S : k = Nth(S, Rank(S, i)) /\ Rank(S, k) = Rank(S, i)
  BY <1>1, NthIsMember
<1>3. Rank(S, i) \in Int
  BY <1>1
<1>4. ASSUME k < i PROVE FALSE
  <2>1. Rank(S, k) < Rank(S, i)
    BY <1>4, RankStrict
  <2> QED BY <2>1, <1>2, <1>3
<1>5. ASSUME i < k PROVE FALSE
  <2>1. Rank(S, i) < Rank(S, k)
    BY <1>5, RankStrict
  <2> QED BY <2>1, <1>2, <1>3
<1>6. i \in Int /\ k \in Int
  OBVIOUS
<1> QED BY <1>2, <1>4, <1>5, <1>6

\* There are n indices below n.
LEMMA IndicesBelow ==
  ASSUME NEW n \in Nat
  PROVE  IsFiniteSet(0 .. n - 1) /\ Cardinality(0 .. n - 1) = n
BY FS_Interval

\* An index below which nothing is missing has itself for its rank.
LEMMA RankInPrefix ==
  ASSUME NEW n \in Nat, NEW S, S \subseteq 0 .. n - 1,
         NEW p \in Nat, 0 .. p - 1 \subseteq S
  PROVE  Rank(S, p) = p
<1>1. ASSUME NEW j PROVE j \in {k \in S : k < p} <=> j \in 0 .. p - 1
  <2>1. \A k \in S : k \in Nat
    OBVIOUS
  <2>2. \A k \in 0 .. p - 1 : k \in S /\ k < p
    OBVIOUS
  <2>3. ASSUME j \in S, j < p PROVE j \in 0 .. p - 1
    BY <2>1, <2>3
  <2> QED BY <2>2, <2>3
<1>2. {k \in S : k < p} = 0 .. p - 1
  BY <1>1
<1> QED BY <1>2, IndicesBelow DEF Rank

\* The members of S from q on.
UpFrom(S, q) == {j \in S : j >= q}

\* Of a set that holds every index below q, those from q on come after them.
LEMMA RankAbovePrefix ==
  ASSUME NEW n \in Nat, NEW S, S \subseteq 0 .. n - 1,
         NEW q \in Nat, 0 .. q - 1 \subseteq S, NEW i \in S, q <= i
  PROVE  Rank(UpFrom(S, q), i) = Rank(S, i) - q
<1> DEFINE A == {j \in S : j < i}
           P == 0 .. q - 1
           B == {j \in UpFrom(S, q) : j < i}
<1>1. IsFiniteSet(P) /\ Cardinality(P) = q
  BY FS_Interval
<1>2. IsFiniteSet(B)
  <2>1. B \subseteq 0 .. n - 1
    BY DEF UpFrom
  <2> QED BY <2>1, IndicesFinite
<1>3. P \intersect B = {}
  BY DEF UpFrom
<1>4. A = P \union B
  <2>1. ASSUME NEW j \in A PROVE j \in P \union B
    <3>1. j \in Nat /\ j \in S /\ j < i
      OBVIOUS
    <3>2. CASE j < q
      BY <3>1, <3>2
    <3>3. CASE ~ (j < q)
      <4>1. j >= q
        BY <3>1, <3>3
      <4> QED BY <3>1, <4>1 DEF UpFrom
    <3> QED BY <3>2, <3>3
  <2>2. \A j \in P : j \in S /\ j < i
    OBVIOUS
  <2>3. \A j \in B : j \in A
    BY DEF UpFrom
  <2> QED BY <2>1, <2>2, <2>3
<1> HIDE DEF A, B, P
<1>5. Cardinality(A) = q + Cardinality(B) - Cardinality({})
  BY <1>1, <1>2, <1>3, <1>4, FS_Union
<1>6. Cardinality(A) = q + Cardinality(B)
  BY <1>2, <1>5, FS_EmptySet, FS_CardinalityType
<1>7. Cardinality(B) = Cardinality(A) - q
  BY <1>2, <1>6, FS_CardinalityType
<1> QED BY <1>7 DEF Rank, A, B

\* Such a set is enumerated from its prefix ...
LEMMA NthInPrefix ==
  ASSUME NEW n \in Nat, NEW S, S \subseteq 0 .. n - 1,
         NEW p \in Nat, 0 .. p \subseteq S
  PROVE  Nth(S, p) = p
<1>1. p \in S /\ 0 .. p - 1 \subseteq S
  OBVIOUS
<1>2. Rank(S, p) = p
  BY <1>1, RankInPrefix
<1> QED BY <1>1, <1>2, NthOfRank

\* ... and then from the rest.
LEMMA NthAbovePrefix ==
  ASSUME NEW n \in Nat, NEW S, S \subseteq 0 .. n - 1,
         NEW q \in Nat, 0 .. q - 1 \subseteq S,
         NEW r \in 0 .. Cardinality(S) - 1, q <= r
  PROVE  /\ Nth(S, r) \in S /\ Nth(S, r) >= q /\ Rank(S, Nth(S, r)) = r
         /\ Nth(UpFrom(S, q), r - q) = Nth(S, r)
<1> DEFINE i == Nth(S, r)
           B == UpFrom(S, q)
<1>1. i \in S /\ Rank(S, i) = r
  BY NthIsMember
<1>2. i \in Nat /\ r \in Nat /\ B \subseteq 0 .. n - 1
  <2>1. Cardinality(S) \in Nat
    BY IndicesFinite
  <2>2. B \subseteq 0 .. n - 1
    BY DEF UpFrom
  <2> HIDE DEF i, B
  <2> QED BY <1>1, <2>1, <2>2
<1>3. i >= q
  <2> SUFFICES ASSUME i < q PROVE FALSE
    BY <1>2
  <2> HIDE DEF i
  <2>1. 0 .. i - 1 \subseteq S
    BY <1>2
  <2>2. Rank(S, i) = i
    BY <1>2, <2>1, RankInPrefix
  <2> QED BY <1>1, <1>2, <2>2
<1> HIDE DEF i
<1>4. Rank(B, i) = Rank(S, i) - q
  <2>1. q <= i
    BY <1>2, <1>3
  <2> QED BY <1>1, <2>1, RankAbovePrefix
<1>5. i \in B
  BY <1>1, <1>3 DEF UpFrom
<1> HIDE DEF B
<1>6. Rank(B, i) = r - q
  BY <1>1, <1>4
<1>7. Nth(B, Rank(B, i)) = i
  BY <1>2, <1>5, NthOfRank
<1> QED BY <1>1, <1>3, <1>6, <1>7 DEF i, B

\* f keeps the order of the indices in T, and reaches every member of S.
Increasing(f, T) == \A i, j \in T : i < j => f[i] < f[j]

Reaches(f, T, S) == \A s \in S : \E i \in T : f[i] = s

\* Whatever enumerates a set of indices in order, and all of it, is Nth.
LEMMA NthUnique ==
  ASSUME NEW n \in Nat, NEW S, S \subseteq 0 .. n - 1, NEW m \in Nat,
         NEW f \in [0 .. m - 1 -> S],
         Increasing(f, 0 .. m - 1), Reaches(f, 0 .. m - 1, S)
  PROVE  /\ Cardinality(S) = m
         /\ \A r \in 0 .. m - 1 : Rank(S, f[r]) = r /\ Nth(S, r) = f[r]
<1> USE DEF Increasing, Reaches
<1>0. \A s \in S : s \in Int
  OBVIOUS
<1>1. \A i \in 0 .. m - 1 : f[i] \in S /\ f[i] \in Int
  BY <1>0
<1>2. \A i, j \in 0 .. m - 1 : f[i] = f[j] => i = j
  <2> SUFFICES ASSUME NEW i \in 0 .. m - 1, NEW j \in 0 .. m - 1,
                      f[i] = f[j], i # j
               PROVE  FALSE
    OBVIOUS
  <2>1. i < j \/ j < i
    OBVIOUS
  <2> QED BY <2>1, <1>1
<1>3. ASSUME NEW r \in 0 .. m
      PROVE  Cardinality({f[i] : i \in 0 .. r - 1}) = r
  <2> DEFINE g == [i \in 0 .. r - 1 |-> f[i]]
             R == {f[i] : i \in 0 .. r - 1}
  <2>1. IsFiniteSet(0 .. r - 1) /\ Cardinality(0 .. r - 1) = r
    BY IndicesBelow
  <2>0. \A i \in 0 .. r - 1 : i \in 0 .. m - 1
    OBVIOUS
  <2>2. g \in Bijection(0 .. r - 1, R)
    <3>1. \A i, j \in 0 .. r - 1 : g[i] = g[j] => i = j
      BY <1>2, <2>0
    <3>2. g \in [0 .. r - 1 -> R]
      OBVIOUS
    <3>3. \A x \in R : \E i \in 0 .. r - 1 : g[i] = x
      OBVIOUS
    <3> QED BY <3>1, <3>2, <3>3 DEF Bijection, Injection, Surjection, IsInjective
  <2>3. ExistsBijection(0 .. r - 1, R)
    BY <2>2 DEF ExistsBijection
  <2> HIDE DEF g, R
  <2>4. Cardinality(R) = r
    BY <2>1, <2>3, FS_Bijection
  <2> QED BY <2>4 DEF R
<1>4. S = {f[i] : i \in 0 .. m - 1}
  BY <1>1
<1>5. Cardinality(S) = m
  <2>1. m \in 0 .. m
    OBVIOUS
  <2>2. Cardinality({f[i] : i \in 0 .. m - 1}) = m
    BY <1>3, <2>1
  <2> QED BY <2>2, <1>4
<1>6. ASSUME NEW r \in 0 .. m - 1 PROVE Rank(S, f[r]) = r
  <2>1. ASSUME NEW s \in S, s < f[r] PROVE \E i \in 0 .. r - 1 : f[i] = s
    <3>1. PICK i \in 0 .. m - 1 : f[i] = s
      OBVIOUS
    <3>2. ~ (r < i) /\ r # i
      BY <3>1, <2>1, <1>1
    <3> QED BY <3>1, <3>2
  <2>2. \A i \in 0 .. r - 1 : f[i] \in S /\ f[i] < f[r]
    BY <1>1
  <2>3. {s \in S : s < f[r]} = {f[i] : i \in 0 .. r - 1}
    BY <2>1, <2>2
  <2> QED BY <2>3, <1>3 DEF Rank
<1> QED BY <1>5, <1>6, <1>1, NthOfRank

\* An increasing map between two sets of indices that reaches all of the second
\* takes the r-th member to the r-th.
LEMMA NthThrough ==
  ASSUME NEW n \in Nat, NEW S, S \subseteq 0 .. n - 1,
         NEW m \in Nat, NEW T, T \subseteq 0 .. m - 1,
         NEW g \in [T -> S],
         Increasing(g, T), Reaches(g, T, S)
  PROVE  /\ Cardinality(T) = Cardinality(S)
         /\ \A r \in 0 .. Cardinality(S) - 1 : Nth(S, r) = g[Nth(T, r)]
<1> DEFINE c == Cardinality(T)
           f == [r \in 0 .. c - 1 |-> g[Nth(T, r)]]
<1>0. /\ \A i \in T : g[i] \in S /\ i \in Int
      /\ \A s \in S : s \in Int
  OBVIOUS
<1>1. c \in Nat
  BY IndicesFinite
<1>2. \A r \in 0 .. c - 1 : Nth(T, r) \in T /\ Rank(T, Nth(T, r)) = r
  BY NthIsMember
<1>3. f \in [0 .. c - 1 -> S]
  BY <1>2
<1>4. ASSUME NEW i \in 0 .. c - 1, NEW j \in 0 .. c - 1, i < j
      PROVE  f[i] < f[j]
  <2> DEFINE a == Nth(T, i)
             b == Nth(T, j)
  <2>0. a \in T /\ b \in T /\ Rank(T, a) = i /\ Rank(T, b) = j
    BY <1>2
  <2> HIDE DEF a, b, c
  <2>1. ASSUME b < a PROVE FALSE
    <3>1. Rank(T, b) < Rank(T, a)
      BY <2>0, <2>1, RankStrict
    <3> QED BY <3>1, <2>0, <1>4, <1>1
  <2>2. a < b
    BY <2>0, <2>1, <1>4, <1>0, <1>1
  <2>3. f[i] = g[a] /\ f[j] = g[b]
    BY DEF f, a, b, c
  <2> QED BY <2>2, <2>0, <2>3 DEF Increasing
<1>5. ASSUME NEW s \in S PROVE \E i \in 0 .. c - 1 : f[i] = s
  <2>1. PICK i \in T : g[i] = s
    BY DEF Reaches
  <2>2. Rank(T, i) \in 0 .. c - 1 /\ Nth(T, Rank(T, i)) = i
    BY RankRange, NthOfRank
  <2> QED BY <2>1, <2>2
<1>7. Increasing(f, 0 .. c - 1) /\ Reaches(f, 0 .. c - 1, S)
  BY <1>4, <1>5 DEF Increasing, Reaches
<1> HIDE DEF f, c
<1>6. /\ Cardinality(S) = c
      /\ \A r \in 0 .. c - 1 : Rank(S, f[r]) = r /\ Nth(S, r) = f[r]
  BY ONLY n \in Nat, S \subseteq 0 .. n - 1, <1>1, <1>3, <1>7, NthUnique, Zenon
<1>8. \A r \in 0 .. c - 1 : f[r] = g[Nth(T, r)]
  BY DEF f
<1> QED BY <1>6, <1>8 DEF c

\* A scan of a set of indices meets them in order, and meets them all.
LEMMA ScanInOrder ==
  ASSUME NEW n \in Nat, NEW S, S \subseteq 0 .. n - 1
  PROVE  /\ Cardinality(S) \in Nat
         /\ [r \in 0 .. Cardinality(S) - 1 |-> Nth(S, r)] \in [0 .. Cardinality(S) - 1 -> S]
         /\ Increasing([r \in 0 .. Cardinality(S) - 1 |-> Nth(S, r)], 0 .. Cardinality(S) - 1)
         /\ Reaches([r \in 0 .. Cardinality(S) - 1 |-> Nth(S, r)], 0 .. Cardinality(S) - 1, S)
<1> DEFINE c == Cardinality(S)
           f == [r \in 0 .. c - 1 |-> Nth(S, r)]
<1>1. c \in Nat
  BY IndicesFinite
<1>2. \A r \in 0 .. c - 1 : Nth(S, r) \in S /\ Rank(S, Nth(S, r)) = r
  BY NthIsMember
<1>3. ASSUME NEW i \in 0 .. c - 1, NEW j \in 0 .. c - 1, i < j
      PROVE  f[i] < f[j]
  BY <1>3, NthIncreases
<1>4. ASSUME NEW s \in S PROVE \E i \in 0 .. c - 1 : f[i] = s
  BY RankRange, NthOfRank
<1>5. f \in [0 .. c - 1 -> S]
  BY <1>2
<1> HIDE DEF c, f
<1> QED BY <1>1, <1>3, <1>4, <1>5 DEF Increasing, Reaches, c, f

=============================================================================
