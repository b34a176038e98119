-------------------------- MODULE CollectionsProofs --------------------------
(***************************************************************************)
(* Proofs about Collections, for every set of variables, keys and values   *)
(* and every width of integers: no collection has a key twice, what is     *)
(* built follows what is walked, and the algebra, the slices, the          *)
(* positions and the arrays are what Collections says of them.             *)
(***************************************************************************)
EXTENDS Collections, ScanProofs, SequenceTheorems

-----------------------------------------------------------------------------
(* Tables of entries.                                                      *)

\* A table is a sequence: its positions and what they hold.
LEMMA Positions ==
  ASSUME NEW E, NEW t \in Seq(E)
  PROVE  /\ Len(t) \in Nat /\ DOMAIN t = 1 .. Len(t) /\ t \in [1 .. Len(t) -> E]
         /\ \A i \in DOMAIN t : t[i] \in E /\ i \in Nat
BY LenProperties

\* What is given for each position of a table is a table of the same positions.
LEMMA Table ==
  ASSUME NEW E, NEW n \in Nat, NEW t \in [1 .. n -> E]
  PROVE  t \in Seq(E) /\ Len(t) = n /\ DOMAIN t = 1 .. n
BY IsASeq, LenProperties

LEMMA KeyOf ==
  ASSUME NEW t, NEW k
  PROVE  k \in KeysOf(t) <=> \E i \in DOMAIN t : t[i].key = k
BY DEF KeysOf

\* A put of a key that is there replaces its entry ...
LEMMA PutThere ==
  ASSUME NEW E, NEW t \in Seq(E), NEW e \in E, e.key \in KeysOf(t)
  PROVE  /\ Put(t, e) \in Seq(E) /\ Len(Put(t, e)) = Len(t)
         /\ DOMAIN Put(t, e) = DOMAIN t
         /\ \A i \in DOMAIN t : Put(t, e)[i] = IF t[i].key = e.key THEN e ELSE t[i]
<1> DEFINE s == [i \in 1 .. Len(t) |-> IF t[i].key = e.key THEN e ELSE t[i]]
<1>1. Len(t) \in Nat /\ DOMAIN t = 1 .. Len(t) /\ \A i \in DOMAIN t : t[i] \in E
  BY Positions
<1>2. Put(t, e) = s
  BY <1>1 DEF Put
<1>3. s \in [1 .. Len(t) -> E]
  BY <1>1
<1>4. s \in Seq(E) /\ Len(s) = Len(t) /\ DOMAIN s = 1 .. Len(t)
  BY <1>1, <1>3, Table
<1> QED BY <1>1, <1>2, <1>4

\* ... and that of another is at the end.
LEMMA PutNew ==
  ASSUME NEW E, NEW t \in Seq(E), NEW e \in E, e.key \notin KeysOf(t)
  PROVE  /\ Put(t, e) \in Seq(E) /\ Len(Put(t, e)) = Len(t) + 1
         /\ DOMAIN Put(t, e) = DOMAIN t \union {Len(t) + 1}
         /\ \A i \in DOMAIN t : Put(t, e)[i] = t[i]
         /\ Put(t, e)[Len(t) + 1] = e
<1>1. Len(t) \in Nat /\ DOMAIN t = 1 .. Len(t)
  BY Positions
<1>2. Put(t, e) = Append(t, e)
  BY DEF Put
<1>3. /\ Append(t, e) \in Seq(E) /\ Len(Append(t, e)) = Len(t) + 1
      /\ \A i \in 1 .. Len(t) : Append(t, e)[i] = t[i]
      /\ Append(t, e)[Len(t) + 1] = e
  BY AppendProperties
<1>4. DOMAIN Append(t, e) = 1 .. Len(t) + 1
  BY <1>3, Positions
<1> QED BY <1>1, <1>2, <1>3, <1>4

\* One of the entries of t is e.
Has(t, e) == \E j \in DOMAIN t : t[j] = e

\* A put leaves a table, with the entry and no other key.
LEMMA PutFacts ==
  ASSUME NEW E, NEW t \in Seq(E), NEW e \in E
  PROVE  /\ Put(t, e) \in Seq(E)
         /\ KeysOf(Put(t, e)) = KeysOf(t) \union {e.key}
         /\ DistinctKeys(t) => DistinctKeys(Put(t, e))
         /\ Has(Put(t, e), e)
         /\ Len(Put(t, e)) <= Len(t) + 1
<1> DEFINE s == Put(t, e)
<1>1. Len(t) \in Nat /\ DOMAIN t = 1 .. Len(t)
  BY Positions
<1>2. CASE e.key \in KeysOf(t)
  <2>1. /\ s \in Seq(E) /\ Len(s) = Len(t) /\ DOMAIN s = DOMAIN t
        /\ \A i \in DOMAIN t : s[i] = IF t[i].key = e.key THEN e ELSE t[i]
    BY <1>2, PutThere
  <2> HIDE DEF s
  <2>2. \A i \in DOMAIN t : s[i].key = t[i].key
    BY <2>1
  <2>3. PICK j \in DOMAIN t : t[j].key = e.key
    BY <1>2, KeyOf
  <2>4. KeysOf(s) = KeysOf(t) \union {e.key}
    BY <2>1, <2>2, <1>2 DEF KeysOf
  <2>5. DistinctKeys(t) => DistinctKeys(s)
    BY <2>1, <2>2 DEF DistinctKeys
  <2>6. s[j] = e
    BY <2>1, <2>3
  <2> QED BY <1>1, <2>1, <2>3, <2>4, <2>5, <2>6 DEF s, Has
<1>3. CASE e.key \notin KeysOf(t)
  <2>1. /\ s \in Seq(E) /\ Len(s) = Len(t) + 1
        /\ DOMAIN s = DOMAIN t \union {Len(t) + 1}
        /\ \A i \in DOMAIN t : s[i] = t[i]
        /\ s[Len(t) + 1] = e
    BY <1>3, PutNew
  <2> HIDE DEF s
  <2>2. \A i \in DOMAIN t : t[i].key # e.key
    BY <1>3, KeyOf
  <2>3. ASSUME NEW k PROVE k \in KeysOf(s) <=> k \in KeysOf(t) \union {e.key}
    BY <2>1 DEF KeysOf
  <2>4. KeysOf(s) = KeysOf(t) \union {e.key}
    BY <2>3
  <2>5. ASSUME DistinctKeys(t) PROVE DistinctKeys(s)
    <3>1. \A i, j \in DOMAIN t : t[i].key = t[j].key => i = j
      BY <2>5 DEF DistinctKeys
    <3>2. \A i, j \in DOMAIN s : s[i].key = s[j].key => i = j
      BY <2>1, <2>2, <3>1
    <3> QED BY <3>2 DEF DistinctKeys
  <2> QED BY <1>1, <2>1, <2>4, <2>5 DEF s, Has
<1> QED BY <1>2, <1>3

\* A key stays at the position that it has, and so do the entries of others.
LEMMA PutPlaces ==
  ASSUME NEW E, NEW t \in Seq(E), NEW e \in E, NEW i \in DOMAIN t
  PROVE  /\ i \in DOMAIN Put(t, e) /\ Put(t, e)[i].key = t[i].key
         /\ t[i].key # e.key => Put(t, e)[i] = t[i]
         /\ t[i].key = e.key => Put(t, e)[i] = e
<1> DEFINE s == Put(t, e)
<1>1. CASE e.key \in KeysOf(t)
  <2>1. DOMAIN s = DOMAIN t
    BY <1>1, PutThere
  <2>2. s[i] = IF t[i].key = e.key THEN e ELSE t[i]
    BY <1>1, PutThere
  <2> QED BY <2>1, <2>2
<1>2. CASE e.key \notin KeysOf(t)
  <2>1. /\ s \in Seq(E) /\ Len(s) = Len(t) + 1
        /\ DOMAIN s = DOMAIN t \union {Len(t) + 1}
        /\ \A j \in DOMAIN t : s[j] = t[j]
        /\ s[Len(t) + 1] = e
    BY <1>2, PutNew
  <2>2. s[i] = t[i]
    BY <2>1
  <2>3. t[i].key # e.key
    BY <1>2, KeyOf
  <2> QED BY <2>1, <2>2, <2>3
<1> QED BY <1>1, <1>2

\* What is kept of a table are the entries of the given positions, in order.
LEMMA KeptFacts ==
  ASSUME NEW E, NEW t \in Seq(E), NEW S, S \subseteq DOMAIN t
  PROVE  /\ Cardinality(S) \in Nat
         /\ Kept(t, S) \in Seq(E) /\ Len(Kept(t, S)) = Cardinality(S)
         /\ DOMAIN Kept(t, S) = 1 .. Cardinality(S)
         /\ \A n \in 1 .. Cardinality(S) :
              Nth(S, n - 1) \in S /\ Kept(t, S)[n] = t[Nth(S, n - 1)]
         /\ \A i \in S : \E n \in 1 .. Cardinality(S) : Nth(S, n - 1) = i
<1> DEFINE c == Cardinality(S)
           s == [n \in 1 .. c |-> t[Nth(S, n - 1)]]
<1>1. Len(t) \in Nat /\ Len(t) + 1 \in Nat /\ DOMAIN t = 1 .. Len(t)
      /\ \A i \in DOMAIN t : t[i] \in E
  BY Positions
<1>2. S \subseteq 0 .. (Len(t) + 1) - 1
  BY <1>1
<1>3. c \in Nat
  BY <1>1, <1>2, IndicesFinite
<1>4. ASSUME NEW n \in 1 .. c PROVE Nth(S, n - 1) \in S
  <2>1. n - 1 \in 0 .. Cardinality(S) - 1
    BY <1>3
  <2> QED BY <2>1, <1>1, <1>2, NthIsMember
<1>5. ASSUME NEW i \in S PROVE \E n \in 1 .. c : Nth(S, n - 1) = i
  <2>1. Nth(S, Rank(S, i)) = i /\ Rank(S, i) \in 0 .. c - 1
    BY <1>1, <1>2, NthOfRank, RankRange
  <2> DEFINE n == Rank(S, i) + 1
  <2>2. n \in 1 .. c /\ n - 1 = Rank(S, i)
    BY <2>1, <1>3
  <2> HIDE DEF n
  <2> QED BY <2>1, <2>2
<1>6. s \in [1 .. c -> E]
  BY <1>4, <1>1
<1>7. s \in Seq(E) /\ Len(s) = c /\ DOMAIN s = 1 .. c
  <2> HIDE DEF s, c
  <2> QED BY <1>3, <1>6, Table
<1>8. Kept(t, S) = s
  BY DEF Kept
<1> QED BY <1>3, <1>4, <1>5, <1>7, <1>8

\* A table has no two entries of a key, and none is kept twice.
LEMMA KeptDistinct ==
  ASSUME NEW E, NEW t \in Seq(E), NEW S, S \subseteq DOMAIN t, DistinctKeys(t)
  PROVE  DistinctKeys(Kept(t, S))
<1> DEFINE c == Cardinality(S)
           s == Kept(t, S)
<1>1. /\ c \in Nat /\ DOMAIN s = 1 .. c
      /\ \A n \in 1 .. c : Nth(S, n - 1) \in S /\ s[n] = t[Nth(S, n - 1)]
  BY KeptFacts
<1>2. Len(t) + 1 \in Nat /\ S \subseteq 0 .. (Len(t) + 1) - 1
  BY Positions
<1>3. ASSUME NEW m \in 1 .. c, NEW n \in 1 .. c, Nth(S, m - 1) = Nth(S, n - 1)
      PROVE  m = n
  <2>1. m - 1 \in 0 .. Cardinality(S) - 1 /\ n - 1 \in 0 .. Cardinality(S) - 1
    BY <1>1
  <2>2. m - 1 = n - 1
    BY <2>1, <1>2, <1>3, NthInjective
  <2> QED BY <2>2, <1>1
<1> HIDE DEF s, c
<1>4. ASSUME NEW m \in 1 .. c, NEW n \in 1 .. c, s[m].key = s[n].key
      PROVE  m = n
  <2>1. t[Nth(S, m - 1)].key = t[Nth(S, n - 1)].key
    BY <1>1, <1>4
  <2>2. Nth(S, m - 1) = Nth(S, n - 1)
    BY <1>1, <2>1 DEF DistinctKeys
  <2> QED BY <1>3, <2>2
<1> QED BY <1>1, <1>4 DEF DistinctKeys, s

\* The keys that are kept are those of the given positions.
LEMMA KeptKeys ==
  ASSUME NEW E, NEW t \in Seq(E), NEW S, S \subseteq DOMAIN t
  PROVE  KeysOf(Kept(t, S)) = {t[i].key : i \in S}
<1> DEFINE c == Cardinality(S)
           s == Kept(t, S)
<1>1. /\ DOMAIN s = 1 .. c
      /\ \A n \in 1 .. c : Nth(S, n - 1) \in S /\ s[n] = t[Nth(S, n - 1)]
      /\ \A i \in S : \E n \in 1 .. c : Nth(S, n - 1) = i
  BY KeptFacts
<1> HIDE DEF s, c
<1>2. ASSUME NEW k \in KeysOf(s) PROVE k \in {t[i].key : i \in S}
  <2>1. PICK n \in 1 .. c : s[n].key = k
    BY <1>1 DEF KeysOf
  <2> QED BY <2>1, <1>1
<1>3. ASSUME NEW i \in S PROVE t[i].key \in KeysOf(s)
  <2>1. PICK n \in 1 .. c : Nth(S, n - 1) = i
    BY <1>1
  <2> QED BY <2>1, <1>1 DEF KeysOf
<1>4. KeysOf(s) = {t[i].key : i \in S}
  BY <1>2, <1>3
<1> QED BY <1>4 DEF s

\* The entries of t that f names, in the order of f.
Listed(t, f, m) == [n \in 1 .. m |-> t[f[n]]]

\* Whatever lists the given positions in order, and all of them, lists what is kept.
LEMMA KeptUnique ==
  ASSUME NEW E, NEW t \in Seq(E), NEW S, S \subseteq DOMAIN t, NEW m \in Nat,
         NEW f \in [1 .. m -> S],
         Increasing(f, 1 .. m), Reaches(f, 1 .. m, S)
  PROVE  Kept(t, S) = Listed(t, f, m)
<1> DEFINE g == [r \in 0 .. m - 1 |-> f[r + 1]]
<1>1. Len(t) + 1 \in Nat /\ S \subseteq 0 .. (Len(t) + 1) - 1
  BY Positions
<1>2. \A r \in 0 .. m - 1 : r + 1 \in 1 .. m
  OBVIOUS
<1>3. g \in [0 .. m - 1 -> S]
  BY <1>2
<1>4. Increasing(g, 0 .. m - 1)
  <2>1. ASSUME NEW i \in 0 .. m - 1, NEW j \in 0 .. m - 1, i < j
        PROVE  f[i + 1] < f[j + 1]
    BY <2>1, <1>2 DEF Increasing
  <2> QED BY <2>1 DEF Increasing
<1>5. Reaches(g, 0 .. m - 1, S)
  <2>1. ASSUME NEW i \in S PROVE \E r \in 0 .. m - 1 : g[r] = i
    <3>1. PICK n \in 1 .. m : f[n] = i
      BY DEF Reaches
    <3>2. n - 1 \in 0 .. m - 1 /\ (n - 1) + 1 = n
      OBVIOUS
    <3>3. g[n - 1] = f[n]
      BY <3>2
    <3> QED BY <3>1, <3>2, <3>3
  <2> HIDE DEF g
  <2> QED BY <2>1 DEF Reaches
<1> HIDE DEF g
<1>6. /\ Cardinality(S) = m
      /\ \A r \in 0 .. m - 1 : Rank(S, g[r]) = r /\ Nth(S, r) = g[r]
  BY ONLY Len(t) + 1 \in Nat, m \in Nat, <1>1, <1>3, <1>4, <1>5, NthUnique, Zenon
<1>7. ASSUME NEW n \in 1 .. m PROVE Nth(S, n - 1) = f[n]
  <2>1. n - 1 \in 0 .. m - 1 /\ (n - 1) + 1 = n
    OBVIOUS
  <2>2. Nth(S, n - 1) = g[n - 1]
    BY <1>6, <2>1
  <2>3. g[n - 1] = f[n]
    BY <2>1 DEF g
  <2> QED BY <2>2, <2>3
<1> QED BY <1>6, <1>7 DEF Kept, Listed

-----------------------------------------------------------------------------
(* A table that is put into another, entry by entry.                       *)

\* What is so of 0, and of n when of n - 1, is so up to N.
LEMMA UpTo ==
  ASSUME NEW N \in Nat, NEW G, 0 \in G, \A n \in 1 .. N : n - 1 \in G => n \in G
  PROVE  \A n \in 0 .. N : n \in G
<1> DEFINE Wrong == {n \in 0 .. N : n \notin G}
<1> SUFFICES ASSUME Wrong # {} PROVE FALSE
  OBVIOUS
<1>1. Wrong \subseteq Nat
  OBVIOUS
<1>2. PICK n \in Wrong : \A m \in Wrong : n <= m
  <2> HIDE DEF Wrong
  <2> QED BY <1>1, LeastNat
<1>3. n # 0 /\ n \in 1 .. N
  OBVIOUS
<1>4. n - 1 \in 0 .. N /\ n - 1 \notin Wrong
  BY <1>2, <1>3
<1> QED BY <1>3, <1>4

\* m has the tables that the first n entries of u, put into t, make.
IsMerging(m, N, t, u) ==
  m = [n \in 0 .. N |-> IF n = 0 THEN t ELSE Put(m[n - 1], u[n])]

LEMMA MergingExists ==
  ASSUME NEW t, NEW u, NEW N \in Nat
  PROVE  \E m : IsMerging(m, N, t, u)
<1> DEFINE G == {n \in 0 .. N : \E m : IsMerging(m, n, t, u)}
<1>1. 0 \in G
  <2> DEFINE m == [n \in 0 .. 0 |-> t]
  <2>1. m = [n \in 0 .. 0 |-> IF n = 0 THEN t ELSE Put(m[n - 1], u[n])]
    OBVIOUS
  <2> HIDE DEF m
  <2>2. IsMerging(m, 0, t, u)
    BY <2>1 DEF IsMerging
  <2> QED BY <2>2
<1>2. ASSUME NEW n \in 1 .. N, n - 1 \in G PROVE n \in G
  <2>1. PICK m : IsMerging(m, n - 1, t, u)
    BY <1>2
  <2> DEFINE k == [j \in 0 .. n |-> IF j < n THEN m[j] ELSE Put(m[n - 1], u[n])]
  <2>2. m = [j \in 0 .. n - 1 |-> IF j = 0 THEN t ELSE Put(m[j - 1], u[j])]
    BY <2>1 DEF IsMerging
  <2>3. ASSUME NEW j \in 0 .. n
        PROVE  k[j] = IF j = 0 THEN t ELSE Put(k[j - 1], u[j])
    <3>1. CASE j < n
      <4>1. j \in 0 .. n - 1 /\ k[j] = m[j]
        BY <3>1
      <4>2. m[j] = IF j = 0 THEN t ELSE Put(m[j - 1], u[j])
        <5> HIDE DEF k
        <5> QED BY <2>2, <4>1
      <4>3. j # 0 => k[j - 1] = m[j - 1]
        BY <3>1
      <4> QED BY <4>1, <4>2, <4>3
    <3>2. CASE ~ (j < n)
      <4>1. j = n /\ j # 0 /\ n - 1 \in 0 .. n /\ n - 1 < n
        BY <3>2
      <4> QED BY <4>1
    <3> QED BY <3>1, <3>2
  <2>4. k = [j \in 0 .. n |-> IF j = 0 THEN t ELSE Put(k[j - 1], u[j])]
    <3>1. k = [j \in 0 .. n |-> k[j]]
      OBVIOUS
    <3> HIDE DEF k
    <3> QED BY <2>3, <3>1
  <2> HIDE DEF k
  <2>5. IsMerging(k, n, t, u)
    BY <2>4 DEF IsMerging
  <2> QED BY <2>5
<1> HIDE DEF G
<1>3. N \in G
  BY <1>1, <1>2, UpTo
<1> QED BY <1>3 DEF G

\* A merged table is made in steps, each of them a put.
LEMMA MergedInSteps ==
  ASSUME NEW t, NEW u, Len(u) \in Nat
  PROVE  \E m : /\ Merged(t, u) = m[Len(u)] /\ m[0] = t
                /\ \A n \in 1 .. Len(u) : m[n] = Put(m[n - 1], u[n])
<1> DEFINE merged == CHOOSE m : m = [n \in 0 .. Len(u) |->
                                       IF n = 0 THEN t ELSE Put(m[n - 1], u[n])]
<1>1. Merged(t, u) = merged[Len(u)]
  BY DEF Merged
<1>2. \E m : m = [n \in 0 .. Len(u) |-> IF n = 0 THEN t ELSE Put(m[n - 1], u[n])]
  <2>1. \E m : IsMerging(m, Len(u), t, u)
    BY MergingExists
  <2> QED BY <2>1 DEF IsMerging
<1>3. merged = [n \in 0 .. Len(u) |-> IF n = 0 THEN t ELSE Put(merged[n - 1], u[n])]
  BY <1>2
<1> HIDE DEF merged
<1>4. merged[0] = t /\ \A n \in 1 .. Len(u) : merged[n] = Put(merged[n - 1], u[n])
  BY <1>3
<1> QED BY <1>1, <1>4

\* What is merged is a table, with the keys of both.
LEMMA MergedFacts ==
  ASSUME NEW E, NEW t \in Seq(E), NEW u \in Seq(E)
  PROVE  /\ Merged(t, u) \in Seq(E)
         /\ KeysOf(Merged(t, u)) = KeysOf(t) \union KeysOf(u)
         /\ DistinctKeys(t) => DistinctKeys(Merged(t, u))
<1> DEFINE N == Len(u)
<1>0. N \in Nat
  BY Positions
<1>1. N \in Nat /\ DOMAIN u = 1 .. N /\ \A n \in 1 .. N : u[n] \in E
  BY Positions
<1>2. PICK m : /\ Merged(t, u) = m[N] /\ m[0] = t
               /\ \A n \in 1 .. N : m[n] = Put(m[n - 1], u[n])
  BY ONLY <1>0, MergedInSteps
<1> DEFINE G == {n \in 0 .. N :
                   /\ m[n] \in Seq(E)
                   /\ KeysOf(m[n]) = KeysOf(t) \union {u[i].key : i \in 1 .. n}
                   /\ DistinctKeys(t) => DistinctKeys(m[n])}
<1> HIDE DEF N
<1>3. 0 \in G
  BY <1>1, <1>2
<1>4. ASSUME NEW n \in 1 .. N, n - 1 \in G PROVE n \in G
  <2>1. PICK s : s = m[n - 1]
    OBVIOUS
  <2>2. /\ s \in Seq(E) /\ u[n] \in E /\ m[n] = Put(s, u[n])
        /\ KeysOf(s) = KeysOf(t) \union {u[i].key : i \in 1 .. n - 1}
        /\ DistinctKeys(t) => DistinctKeys(s)
    BY <1>1, <1>2, <1>4, <2>1
  <2>3. PICK e : e = u[n]
    OBVIOUS
  <2>4. s \in Seq(E) /\ e \in E
    BY <2>2, <2>3
  <2>5. /\ Put(s, e) \in Seq(E)
        /\ KeysOf(Put(s, e)) = KeysOf(s) \union {e.key}
        /\ DistinctKeys(s) => DistinctKeys(Put(s, e))
    BY ONLY <2>4, PutFacts, Zenon
  <2>6. KeysOf(m[n]) = KeysOf(s) \union {u[n].key}
    BY <2>2, <2>3, <2>5
  <2>7. 1 .. n = 1 .. n - 1 \union {n}
    BY <1>1
  <2>8. KeysOf(m[n]) = KeysOf(t) \union {u[i].key : i \in 1 .. n}
    BY <2>2, <2>6, <2>7
  <2> QED BY <2>2, <2>3, <2>5, <2>8
<1> HIDE DEF G
<1>5. N \in G
  <2>1. \A n \in 0 .. N : n \in G
    BY <1>1, <1>3, <1>4, UpTo
  <2> QED BY <2>1, <1>1
<1>6. {u[i].key : i \in 1 .. N} = KeysOf(u)
  BY <1>1 DEF KeysOf
<1> QED BY <1>1, <1>2, <1>5, <1>6 DEF G

\* What is at a position keeps its key, and is an entry of what is merged only
\* if that has the key.
LEMMA MergedPlaces ==
  ASSUME NEW E, NEW t \in Seq(E), NEW u \in Seq(E), NEW j \in DOMAIN t
  PROVE  /\ j \in DOMAIN Merged(t, u) /\ Merged(t, u)[j].key = t[j].key
         /\ t[j].key \notin KeysOf(u) => Merged(t, u)[j] = t[j]
<1> DEFINE N == Len(u)
<1>0. N \in Nat
  BY Positions
<1>1. N \in Nat /\ DOMAIN u = 1 .. N /\ \A n \in 1 .. N : u[n] \in E
  BY Positions
<1>2. PICK m : /\ Merged(t, u) = m[N] /\ m[0] = t
               /\ \A n \in 1 .. N : m[n] = Put(m[n - 1], u[n])
  BY ONLY <1>0, MergedInSteps
<1> DEFINE G == {n \in 0 .. N :
                   /\ m[n] \in Seq(E)
                   /\ j \in DOMAIN m[n] /\ m[n][j].key = t[j].key
                   /\ t[j].key \notin KeysOf(u) => m[n][j] = t[j]}
<1> HIDE DEF N
<1>3. 0 \in G
  BY <1>1, <1>2
<1>4. ASSUME NEW n \in 1 .. N, n - 1 \in G PROVE n \in G
  <2>1. PICK s : s = m[n - 1]
    OBVIOUS
  <2>2. /\ s \in Seq(E) /\ u[n] \in E /\ m[n] = Put(s, u[n])
        /\ j \in DOMAIN s /\ s[j].key = t[j].key
        /\ t[j].key \notin KeysOf(u) => s[j] = t[j]
    BY <1>1, <1>2, <1>4, <2>1
  <2>3. Put(s, u[n]) \in Seq(E)
    BY ONLY <2>2, PutFacts
  <2>4. /\ j \in DOMAIN m[n] /\ m[n][j].key = s[j].key
        /\ s[j].key # u[n].key => m[n][j] = s[j]
    BY <2>2, PutPlaces
  <2>5. u[n].key \in KeysOf(u)
    BY <1>1 DEF KeysOf
  <2> QED BY <2>2, <2>3, <2>4, <2>5
<1> HIDE DEF G
<1>5. N \in G
  <2>1. \A n \in 0 .. N : n \in G
    BY <1>1, <1>3, <1>4, UpTo
  <2> QED BY <2>1, <1>1
<1> QED BY <1>2, <1>5 DEF G

\* An entry that is put, and no later one of its key, is there in the end.
LEMMA MergedHasLast ==
  ASSUME NEW E, NEW t \in Seq(E), NEW u \in Seq(E), NEW i \in DOMAIN u,
         \A k \in DOMAIN u : u[k].key = u[i].key => k <= i
  PROVE  Has(Merged(t, u), u[i])
<1> DEFINE N == Len(u)
<1>0. N \in Nat
  BY Positions
<1>1. N \in Nat /\ DOMAIN u = 1 .. N /\ \A n \in 1 .. N : u[n] \in E
  BY Positions
<1>2. PICK m : /\ Merged(t, u) = m[N] /\ m[0] = t
               /\ \A n \in 1 .. N : m[n] = Put(m[n - 1], u[n])
  BY ONLY <1>0, MergedInSteps
<1> DEFINE G == {n \in 0 .. N :
                   /\ m[n] \in Seq(E)
                   /\ i <= n => Has(m[n], u[i])}
<1> HIDE DEF N
<1>3. 0 \in G
  BY <1>1, <1>2
<1>4. ASSUME NEW n \in 1 .. N, n - 1 \in G PROVE n \in G
  <2>1. PICK s : s = m[n - 1]
    OBVIOUS
  <2>2. /\ s \in Seq(E) /\ u[n] \in E /\ m[n] = Put(s, u[n])
        /\ i <= n - 1 => Has(s, u[i])
    BY <1>1, <1>2, <1>4, <2>1
  <2>3. m[n] \in Seq(E) /\ Has(m[n], u[n])
    BY <2>2, PutFacts, Zenon
  <2>4. ASSUME i <= n - 1 PROVE Has(m[n], u[i])
    <3>1. PICK j \in DOMAIN s : s[j] = u[i]
      BY <2>2, <2>4 DEF Has
    <3>2. u[n].key # u[i].key
      BY <1>1, <2>4
    <3>3. j \in DOMAIN m[n] /\ (s[j].key # u[n].key => m[n][j] = s[j])
      BY <2>2, PutPlaces
    <3> QED BY <3>1, <3>2, <3>3 DEF Has
  <2>5. i <= n => i <= n - 1 \/ i = n
    BY <1>1
  <2> QED BY <2>3, <2>4, <2>5
<1> HIDE DEF G
<1>5. N \in G
  <2>1. \A n \in 0 .. N : n \in G
    BY <1>1, <1>3, <1>4, UpTo
  <2> QED BY <2>1, <1>1
<1> QED BY <1>1, <1>2, <1>5 DEF G

\* The rank of what comes next: the same, or one more.
LEMMA RankNext ==
  ASSUME NEW n \in Nat, NEW S, S \subseteq 0 .. n - 1, NEW i \in Nat
  PROVE  /\ Rank(S, i) \in Nat
         /\ i \in S => Rank(S, i + 1) = Rank(S, i) + 1
         /\ i \notin S => Rank(S, i + 1) = Rank(S, i)
<1> DEFINE A == {j \in S : j < i}
           B == {j \in S : j < i + 1}
<1>0. \A j \in S : j \in Nat
  OBVIOUS
<1>1. IsFiniteSet(A) /\ Cardinality(A) \in Nat
  BY IndicesFinite
<1>6. (\A j \in S : j < i + 1 <=> j < i \/ j = i) /\ ~ (i < i)
  BY <1>0
<1>2. ASSUME i \in S PROVE B = A \union {i} /\ i \notin A
  <2>1. ASSUME NEW j PROVE j \in B <=> j \in A \/ j = i
    BY <1>2, <1>6
  <2> QED BY <2>1, <1>6
<1>3. i \notin S => B = A
  BY <1>6
<1> HIDE DEF A, B
<1>4. i \in S => Cardinality(B) = Cardinality(A) + 1
  BY <1>1, <1>2, FS_AddElement
<1>5. i \notin S => Cardinality(B) = Cardinality(A)
  BY <1>3
<1> QED BY <1>1, <1>4, <1>5 DEF Rank, A, B

\* r is t with the entries of u at the positions Added behind it, in order.
AddsBehind(r, t, u, Added) ==
  /\ Len(r) = Len(t) + Cardinality(Added)
  /\ \A i \in Added : r[Len(t) + Rank(Added, i) + 1] = u[i]

\* What a table without a key twice adds to another comes behind, in its order.
LEMMA MergedTail ==
  ASSUME NEW E, NEW t \in Seq(E), NEW u \in Seq(E), DistinctKeys(u),
         NEW Added, Added = {i \in DOMAIN u : u[i].key \notin KeysOf(t)}
  PROVE  AddsBehind(Merged(t, u), t, u, Added)
<1> DEFINE N == Len(u)
<1>0. N \in Nat
  BY Positions
<1>1. N \in Nat /\ DOMAIN u = 1 .. N /\ (\A n \in 1 .. N : u[n] \in E) /\ Len(t) \in Nat
  BY Positions
<1>2. PICK m : /\ Merged(t, u) = m[N] /\ m[0] = t
               /\ \A n \in 1 .. N : m[n] = Put(m[n - 1], u[n])
  BY ONLY <1>0, MergedInSteps
<1>3. Added \subseteq 0 .. (N + 1) - 1 /\ Added \subseteq 1 .. N /\ N + 1 \in Nat
  BY <1>1
<1>4. \A i \in Added : u[i].key \notin KeysOf(t)
  OBVIOUS
<1>5. \A i \in 1 .. N : i \notin Added => u[i].key \in KeysOf(t)
  BY <1>1
<1> HIDE DEF N
<1>6. \A i \in 0 .. N : Rank(Added, i + 1) \in Nat
  <2>1. ASSUME NEW i \in 0 .. N PROVE Rank(Added, i + 1) \in Nat
    <3>1. i + 1 \in Nat
      BY <1>1
    <3> QED BY ONLY <1>3, <3>1, RankNext
  <2> QED BY <2>1
<1> DEFINE G == {n \in 0 .. N :
                   /\ m[n] \in Seq(E)
                   /\ KeysOf(m[n]) = KeysOf(t) \union {u[i].key : i \in 1 .. n}
                   /\ Len(m[n]) = Len(t) + Rank(Added, n + 1)
                   /\ \A i \in Added : i <= n => m[n][Len(t) + Rank(Added, i) + 1] = u[i]}
<1>7. 0 \in G
  <2>1. {j \in Added : j < 0 + 1} = {}
    BY <1>3
  <2>2. Rank(Added, 0 + 1) = 0
    BY <2>1, FS_EmptySet DEF Rank
  <2>3. \A i \in Added : ~ (i <= 0)
    BY <1>3
  <2>4. {u[i].key : i \in 1 .. 0} = {}
    OBVIOUS
  <2> QED BY <1>1, <1>2, <2>2, <2>3, <2>4
<1>8. ASSUME NEW n \in 1 .. N, n - 1 \in G PROVE n \in G
  <2>1. PICK s : s = m[n - 1]
    OBVIOUS
  <2>2. PICK e : e = u[n]
    OBVIOUS
  <2>3. n \in Nat /\ (n - 1) + 1 = n /\ 1 .. n = 1 .. n - 1 \union {n}
    BY <1>1
  <2>4. /\ s \in Seq(E) /\ e \in E /\ m[n] = Put(s, e)
        /\ KeysOf(s) = KeysOf(t) \union {u[i].key : i \in 1 .. n - 1}
        /\ Len(s) = Len(t) + Rank(Added, n)
        /\ \A i \in Added : i <= n - 1 => s[Len(t) + Rank(Added, i) + 1] = u[i]
    BY <1>1, <1>2, <1>8, <2>1, <2>2, <2>3
  <2> HIDE DEF G
  <2>12. s \in Seq(E) /\ e \in E
    BY <2>4
  <2>13. n \in 0 .. N
    BY <2>3
  <2>5. Put(s, e) \in Seq(E) /\ KeysOf(Put(s, e)) = KeysOf(s) \union {e.key}
    BY ONLY <2>12, PutFacts, Zenon
  <2>6. KeysOf(m[n]) = KeysOf(t) \union {u[i].key : i \in 1 .. n}
    <3>1. {u[i].key : i \in 1 .. n} = {u[i].key : i \in 1 .. n - 1} \union {u[n].key}
      BY ONLY <2>3
    <3>2. KeysOf(m[n]) = KeysOf(s) \union {e.key}
      BY ONLY <2>4, <2>5
    <3>3. KeysOf(s) = KeysOf(t) \union {u[i].key : i \in 1 .. n - 1} /\ e.key = u[n].key
      BY <2>2, <2>4
    <3> QED BY ONLY <3>1, <3>2, <3>3
  <2>7. /\ Rank(Added, n) \in Nat
        /\ n \in Added => Rank(Added, n + 1) = Rank(Added, n) + 1
        /\ n \notin Added => Rank(Added, n + 1) = Rank(Added, n)
    <3>1. n \in Nat /\ N + 1 \in Nat /\ Added \subseteq 0 .. (N + 1) - 1
      BY <1>3, <2>13
    <3> QED BY ONLY <3>1, RankNext, Zenon
  <2>8. e.key \in KeysOf(s) <=> n \notin Added
    <3>1. \A i \in 1 .. n - 1 : u[i].key # u[n].key
      BY <1>1, <2>3 DEF DistinctKeys
    <3> QED BY <1>4, <1>5, <2>2, <2>4, <3>1
  <2>9. \A i \in Added : i <= n => i <= n - 1 \/ i = n
    BY <1>3
  <2>10. CASE n \in Added
    <3>1. e.key \notin KeysOf(s)
      BY <2>8, <2>10
    <3>2. /\ Put(s, e) \in Seq(E) /\ Len(Put(s, e)) = Len(s) + 1
          /\ DOMAIN Put(s, e) = DOMAIN s \union {Len(s) + 1}
          /\ \A i \in DOMAIN s : Put(s, e)[i] = s[i]
          /\ Put(s, e)[Len(s) + 1] = e
      BY ONLY <2>12, <3>1, PutNew
    <3>3. ASSUME NEW i \in Added, i <= n - 1
          PROVE  m[n][Len(t) + Rank(Added, i) + 1] = u[i]
      <4>1. Rank(Added, i) < Rank(Added, n) /\ Rank(Added, i) \in Nat
        <5>1. i < n /\ i \in Nat
          BY <1>3, <2>3, <3>3
        <5>2. Rank(Added, i) < Rank(Added, n)
          BY <5>1, <1>3, <2>10, RankStrict
        <5>3. Rank(Added, i) \in Nat
          BY <1>3, <5>1, RankNext
        <5> QED BY <5>2, <5>3
      <4>2. Len(t) + Rank(Added, i) + 1 \in DOMAIN s
        <5>1. DOMAIN s = 1 .. Len(s)
          BY <2>4, Positions
        <5> QED BY <1>1, <2>4, <2>7, <4>1, <5>1
      <4> QED BY <2>4, <3>2, <3>3, <4>2
    <3>4. m[n][Len(t) + Rank(Added, n) + 1] = u[n]
      BY <2>2, <2>4, <3>2
    <3>5. Len(m[n]) = Len(t) + Rank(Added, n + 1)
      BY <1>1, <2>4, <2>7, <2>10, <3>2
    <3>6. \A i \in Added : i <= n => m[n][Len(t) + Rank(Added, i) + 1] = u[i]
      BY <2>9, <3>3, <3>4
    <3> QED BY ONLY <2>13, <2>4, <2>5, <2>6, <3>5, <3>6 DEF G
  <2>11. CASE n \notin Added
    <3>1. e.key \in KeysOf(s)
      BY <2>8, <2>11
    <3>2. /\ Len(Put(s, e)) = Len(s)
          /\ \A i \in DOMAIN s : Put(s, e)[i] = IF s[i].key = e.key THEN e ELSE s[i]
      BY ONLY <2>12, <3>1, PutThere
    <3>3. ASSUME NEW i \in Added, i <= n
          PROVE  m[n][Len(t) + Rank(Added, i) + 1] = u[i]
      <4>0. i < n /\ i \in Nat /\ i <= n - 1
        BY <1>3, <2>3, <2>9, <2>11, <3>3
      <4>1. Rank(Added, i) < Rank(Added, n) /\ Rank(Added, i) \in Nat
        <5>1. Rank(Added, i) \in Nat /\ Rank(Added, i + 1) = Rank(Added, i) + 1
          BY <1>3, <4>0, RankNext
        <5>2. {j \in Added : j < i + 1} \subseteq {j \in Added : j < n}
          BY <1>3, <4>0, <2>3
        <5>3. IsFiniteSet({j \in Added : j < n})
          BY <1>3, IndicesFinite
        <5>4. Rank(Added, i + 1) <= Rank(Added, n)
          BY <5>2, <5>3, FS_Subset DEF Rank
        <5> QED BY <5>1, <5>4, <2>7
      <4>2. Len(t) + Rank(Added, i) + 1 \in DOMAIN s
        <5>1. DOMAIN s = 1 .. Len(s)
          BY <2>4, Positions
        <5> QED BY <1>1, <2>4, <2>7, <4>1, <5>1
      <4>3. s[Len(t) + Rank(Added, i) + 1] = u[i]
        BY <2>4, <4>0
      <4>4. u[i].key # e.key
        BY <1>1, <1>3, <2>2, <4>0 DEF DistinctKeys
      <4> QED BY <2>4, <3>2, <4>2, <4>3, <4>4
    <3>5. Len(m[n]) = Len(t) + Rank(Added, n + 1)
      BY <1>1, <2>4, <2>7, <2>11, <3>2
    <3> QED BY ONLY <2>13, <2>4, <2>5, <2>6, <3>3, <3>5 DEF G
  <2> QED BY <2>10, <2>11
<1> HIDE DEF G
<1>9. N \in G
  <2>1. \A n \in 0 .. N : n \in G
    BY <1>1, <1>7, <1>8, UpTo
  <2> QED BY <2>1, <1>1
<1>10. Rank(Added, N + 1) = Cardinality(Added) /\ \A i \in Added : i <= N
  <2>1. \A i \in Added : i <= N /\ i < N + 1
    BY <1>3, <1>1
  <2>2. {j \in Added : j < N + 1} = Added
    BY <2>1
  <2> QED BY <2>1, <2>2 DEF Rank
<1>11. /\ Len(Merged(t, u)) = Len(t) + Cardinality(Added)
       /\ \A i \in Added : Merged(t, u)[Len(t) + Rank(Added, i) + 1] = u[i]
  BY <1>2, <1>9, <1>10 DEF G
<1> QED BY ONLY <1>11 DEF AddsBehind

-----------------------------------------------------------------------------
(* The algebra.                                                            *)

\* Positions are indices below one more than the length.
LEMMA KeptInOrder ==
  ASSUME NEW E, NEW t \in Seq(E), NEW S, S \subseteq DOMAIN t,
         NEW m \in 1 .. Cardinality(S), NEW n \in 1 .. Cardinality(S), m < n
  PROVE  Nth(S, m - 1) < Nth(S, n - 1)
<1>1. Len(t) + 1 \in Nat /\ S \subseteq 0 .. (Len(t) + 1) - 1
  BY Positions
<1>2. Cardinality(S) \in Nat
  BY <1>1, IndicesFinite
<1>3. m - 1 \in 0 .. Cardinality(S) - 1 /\ n - 1 \in 0 .. Cardinality(S) - 1
      /\ m - 1 < n - 1
  BY <1>2
<1> QED BY ONLY <1>1, <1>3, NthIncreases

LEMMA DiffFacts ==
  ASSUME NEW E, NEW t \in Seq(E), NEW u
  PROVE  /\ Diff(t, u) \in Seq(E)
         /\ KeysOf(Diff(t, u)) = KeysOf(t) \ KeysOf(u)
         /\ DistinctKeys(t) => DistinctKeys(Diff(t, u))
<1> DEFINE S == {i \in DOMAIN t : t[i].key \notin KeysOf(u)}
<1>1. Diff(t, u) = Kept(t, S) /\ S \subseteq DOMAIN t
  BY DEF Diff
<1>2. {t[i].key : i \in S} = KeysOf(t) \ KeysOf(u)
  BY DEF KeysOf
<1> HIDE DEF S
<1>3. Kept(t, S) \in Seq(E)
  BY <1>1, KeptFacts
<1>4. KeysOf(Kept(t, S)) = {t[i].key : i \in S}
  BY <1>1, KeptKeys
<1>5. DistinctKeys(t) => DistinctKeys(Kept(t, S))
  BY <1>1, KeptDistinct
<1> QED BY <1>1, <1>2, <1>3, <1>4, <1>5

LEMMA IntersectFacts ==
  ASSUME NEW E, NEW t \in Seq(E), NEW u
  PROVE  /\ Intersect(t, u) \in Seq(E)
         /\ KeysOf(Intersect(t, u)) = KeysOf(t) \intersect KeysOf(u)
         /\ DistinctKeys(t) => DistinctKeys(Intersect(t, u))
<1> DEFINE S == {i \in DOMAIN t : t[i].key \in KeysOf(u)}
<1>1. Intersect(t, u) = Kept(t, S) /\ S \subseteq DOMAIN t
  BY DEF Intersect
<1>2. {t[i].key : i \in S} = KeysOf(t) \intersect KeysOf(u)
  BY DEF KeysOf
<1> HIDE DEF S
<1>3. Kept(t, S) \in Seq(E)
  BY <1>1, KeptFacts
<1>4. KeysOf(Kept(t, S)) = {t[i].key : i \in S}
  BY <1>1, KeptKeys
<1>5. DistinctKeys(t) => DistinctKeys(Kept(t, S))
  BY <1>1, KeptDistinct
<1> QED BY <1>1, <1>2, <1>3, <1>4, <1>5

\* Two tables behind one another have the keys of both.
LEMMA ConcatFacts ==
  ASSUME NEW E, NEW t \in Seq(E), NEW u \in Seq(E)
  PROVE  /\ t \o u \in Seq(E) /\ KeysOf(t \o u) = KeysOf(t) \union KeysOf(u)
         /\ DistinctKeys(t) /\ DistinctKeys(u) /\ KeysOf(t) \intersect KeysOf(u) = {}
              => DistinctKeys(t \o u)
<1> DEFINE s == t \o u
           m == Len(t)
           n == Len(u)
<1>1. m \in Nat /\ n \in Nat /\ DOMAIN t = 1 .. m /\ DOMAIN u = 1 .. n
  BY Positions
<1>2. /\ s \in Seq(E) /\ Len(s) = m + n
      /\ \A i \in 1 .. m + n : s[i] = IF i <= m THEN t[i] ELSE u[i - m]
  BY ConcatProperties
<1>3. DOMAIN s = 1 .. m + n
  BY <1>2, Positions
<1> HIDE DEF s, m, n
<1>4. \A i \in 1 .. m : i \in 1 .. m + n /\ s[i] = t[i]
  BY <1>1, <1>2
<1>5. \A i \in 1 .. n : m + i \in 1 .. m + n /\ s[m + i] = u[i]
  BY <1>1, <1>2
<1>6. ASSUME NEW i \in 1 .. m + n
      PROVE  \/ i \in 1 .. m /\ s[i] = t[i]
             \/ i - m \in 1 .. n /\ s[i] = u[i - m]
  BY <1>1, <1>2
<1>7. KeysOf(s) = KeysOf(t) \union KeysOf(u)
  <2>1. ASSUME NEW k \in KeysOf(s) PROVE k \in KeysOf(t) \union KeysOf(u)
    <3>1. PICK i \in 1 .. m + n : s[i].key = k
      BY <1>3 DEF KeysOf
    <3> QED BY <1>1, <1>6, <3>1 DEF KeysOf
  <2>2. ASSUME NEW k \in KeysOf(t) PROVE k \in KeysOf(s)
    BY <1>1, <1>3, <1>4 DEF KeysOf
  <2>3. ASSUME NEW k \in KeysOf(u) PROVE k \in KeysOf(s)
    BY <1>1, <1>3, <1>5 DEF KeysOf
  <2> QED BY <2>1, <2>2, <2>3
<1>8. ASSUME DistinctKeys(t), DistinctKeys(u), KeysOf(t) \intersect KeysOf(u) = {}
      PROVE  DistinctKeys(s)
  <2>1. ASSUME NEW i \in 1 .. m + n, NEW j \in 1 .. m + n, s[i].key = s[j].key
        PROVE  i = j
    <3>1. CASE i \in 1 .. m /\ s[i] = t[i] /\ j \in 1 .. m /\ s[j] = t[j]
      BY <1>1, <1>8, <2>1, <3>1 DEF DistinctKeys
    <3>2. CASE i - m \in 1 .. n /\ s[i] = u[i - m] /\ j - m \in 1 .. n /\ s[j] = u[j - m]
      <4>1. i - m = j - m
        BY <1>1, <1>8, <2>1, <3>2 DEF DistinctKeys
      <4> QED BY <1>1, <4>1
    <3>3. ASSUME NEW a \in 1 .. m, NEW b \in 1 .. n PROVE t[a].key # u[b].key
      BY <1>1, <1>8 DEF KeysOf
    <3> QED BY <1>6, <2>1, <3>1, <3>2, <3>3
  <2> QED BY <1>3, <2>1 DEF DistinctKeys
<1> QED BY <1>2, <1>7, <1>8 DEF s

LEMMA XorFacts ==
  ASSUME NEW E, NEW t \in Seq(E), NEW u \in Seq(E)
  PROVE  /\ Xor(t, u) \in Seq(E)
         /\ KeysOf(Xor(t, u)) = (KeysOf(t) \ KeysOf(u)) \union (KeysOf(u) \ KeysOf(t))
         /\ DistinctKeys(t) /\ DistinctKeys(u) => DistinctKeys(Xor(t, u))
<1> DEFINE a == Diff(t, u)
           b == Diff(u, t)
<1>1. /\ a \in Seq(E) /\ KeysOf(a) = KeysOf(t) \ KeysOf(u)
      /\ DistinctKeys(t) => DistinctKeys(a)
  BY DiffFacts
<1>2. /\ b \in Seq(E) /\ KeysOf(b) = KeysOf(u) \ KeysOf(t)
      /\ DistinctKeys(u) => DistinctKeys(b)
  BY DiffFacts
<1>3. Xor(t, u) = a \o b
  BY DEF Xor
<1> HIDE DEF a, b
<1>4. /\ a \o b \in Seq(E) /\ KeysOf(a \o b) = KeysOf(a) \union KeysOf(b)
      /\ DistinctKeys(a) /\ DistinctKeys(b) /\ KeysOf(a) \intersect KeysOf(b) = {}
           => DistinctKeys(a \o b)
  BY <1>1, <1>2, ConcatFacts
<1>5. KeysOf(a) \intersect KeysOf(b) = {}
  BY <1>1, <1>2
<1> QED BY <1>1, <1>2, <1>3, <1>4, <1>5

\* Taking the difference twice leaves the intersection.
LEMMA DiffTwice ==
  ASSUME NEW E, NEW t \in Seq(E), NEW u \in Seq(E), DistinctKeys(t)
  PROVE  Diff(t, Diff(t, u)) = Intersect(t, u)
<1>1. KeysOf(Diff(t, u)) = KeysOf(t) \ KeysOf(u)
  BY DiffFacts
<1>2. \A i \in DOMAIN t : t[i].key \in KeysOf(t)
  BY DEF KeysOf
<1>3. {i \in DOMAIN t : t[i].key \notin KeysOf(Diff(t, u))}
        = {i \in DOMAIN t : t[i].key \in KeysOf(u)}
  BY <1>1, <1>2
<1> QED BY <1>3 DEF Diff, Intersect

\* All of a table is kept as it is.
LEMMA KeptAll ==
  ASSUME NEW E, NEW t \in Seq(E)
  PROVE  Kept(t, DOMAIN t) = t
<1> DEFINE m == Len(t)
           f == [n \in 1 .. m |-> n]
<1>1. m \in Nat /\ DOMAIN t = 1 .. m /\ t \in [1 .. m -> E]
  BY Positions
<1> HIDE DEF m
<1>2. f \in [1 .. m -> DOMAIN t] /\ \A n \in 1 .. m : f[n] = n
  BY <1>1
<1> HIDE DEF f
<1>3. Increasing(f, 1 .. m) /\ Reaches(f, 1 .. m, DOMAIN t)
  BY <1>1, <1>2 DEF Increasing, Reaches
<1>4. Kept(t, DOMAIN t) = [n \in 1 .. m |-> t[f[n]]]
  <2> DEFINE S == DOMAIN t
  <2>1. S \subseteq DOMAIN t /\ f \in [1 .. m -> S] /\ Reaches(f, 1 .. m, S)
    BY <1>2, <1>3
  <2>2. Kept(t, S) = Listed(t, f, m)
    <3> HIDE DEF S
    <3>1. t \in Seq(E) /\ m \in Nat
      BY <1>1
    <3> QED BY ONLY <1>3, <2>1, <3>1, KeptUnique
  <2> QED BY <2>2 DEF Listed
<1>5. [n \in 1 .. m |-> t[f[n]]] = [n \in 1 .. m |-> t[n]]
  BY <1>2
<1> QED BY <1>1, <1>4, <1>5

\* What both have of a union with a table is the table.
LEMMA IntersectUnion ==
  ASSUME NEW E, NEW t \in Seq(E), NEW u \in Seq(E)
  PROVE  Intersect(u, Merged(t, u)) = u
<1>1. KeysOf(Merged(t, u)) = KeysOf(t) \union KeysOf(u)
  BY MergedFacts
<1>2. \A i \in DOMAIN u : u[i].key \in KeysOf(u)
  BY DEF KeysOf
<1>3. {i \in DOMAIN u : u[i].key \in KeysOf(Merged(t, u))} = DOMAIN u
  BY <1>1, <1>2
<1>4. Kept(u, DOMAIN u) = u
  BY KeptAll
<1> QED BY <1>3, <1>4 DEF Intersect

\* The union without the intersection is what either has and the other has not,
\* in the order of xor.
LEMMA XorIsUnionWithout ==
  ASSUME NEW E, NEW t \in Seq(E), NEW u \in Seq(E), DistinctKeys(u)
  PROVE  Xor(t, u) = Diff(Merged(t, u), Intersect(t, u))
<1> DEFINE M == Merged(t, u)
           S == {i \in DOMAIN t : t[i].key \notin KeysOf(u)}
           U == {i \in DOMAIN u : u[i].key \notin KeysOf(t)}
           D == {j \in DOMAIN M : M[j].key \notin KeysOf(Intersect(t, u))}
           m == Len(t)
           a == Cardinality(S)
           b == Cardinality(U)
           f == [n \in 1 .. a + b |-> IF n <= a THEN Nth(S, n - 1) ELSE m + (n - a)]
           x == [n \in 1 .. a + b |-> IF n <= a THEN t[Nth(S, n - 1)]
                                                ELSE u[Nth(U, n - a - 1)]]
<1>1. /\ m \in Nat /\ DOMAIN t = 1 .. m /\ Len(u) \in Nat /\ DOMAIN u = 1 .. Len(u)
  BY Positions
<1>2. S \subseteq DOMAIN t /\ U \subseteq DOMAIN u /\ D \subseteq DOMAIN M
  OBVIOUS
<1>3. M \in Seq(E)
  BY MergedFacts
<1>4. Len(M) = m + b /\ \A i \in U : M[m + Rank(U, i) + 1] = u[i]
  <2> HIDE DEF U
  <2>1. U = {i \in DOMAIN u : u[i].key \notin KeysOf(t)}
    BY DEF U
  <2>2. AddsBehind(Merged(t, u), t, u, U)
    BY <2>1, MergedTail, Zenon
  <2> QED BY <2>2 DEF AddsBehind
<1>5. KeysOf(Intersect(t, u)) = KeysOf(t) \intersect KeysOf(u)
  BY IntersectFacts
<1>6. /\ \A i \in DOMAIN t : i \in S <=> t[i].key \notin KeysOf(u)
      /\ \A i \in U : u[i].key \notin KeysOf(t)
      /\ \A j \in DOMAIN M : j \in D <=> M[j].key \notin KeysOf(t) \intersect KeysOf(u)
  BY <1>5
<1>7. Diff(M, Intersect(t, u)) = Kept(M, D) /\ Xor(t, u) = Kept(t, S) \o Kept(u, U)
  BY DEF Diff, Xor
<1>8. /\ a \in Nat /\ Kept(t, S) \in Seq(E) /\ Len(Kept(t, S)) = a
      /\ \A n \in 1 .. a : Nth(S, n - 1) \in S /\ Kept(t, S)[n] = t[Nth(S, n - 1)]
      /\ \A i \in S : \E n \in 1 .. a : Nth(S, n - 1) = i
  <2> HIDE DEF S
  <2> QED BY <1>2, KeptFacts
<1>9. /\ b \in Nat /\ Kept(u, U) \in Seq(E) /\ Len(Kept(u, U)) = b
      /\ \A n \in 1 .. b : Nth(U, n - 1) \in U /\ Kept(u, U)[n] = u[Nth(U, n - 1)]
  <2> HIDE DEF U
  <2> QED BY <1>2, KeptFacts
<1>10. ASSUME NEW i \in 1 .. m, NEW j \in 1 .. m
       PROVE  /\ i \in DOMAIN M /\ M[i].key = t[i].key
              /\ t[i].key \notin KeysOf(u) => M[i] = t[i]
  <2>1. i \in DOMAIN t
    BY <1>1
  <2> QED BY <2>1, MergedPlaces
<1>11. ASSUME NEW r \in 1 .. b
       PROVE  m + r \in DOMAIN M /\ M[m + r] = u[Nth(U, r - 1)]
  <2>1. r - 1 \in 0 .. Cardinality(U) - 1
    BY <1>9
  <2>2. U \subseteq 0 .. (Len(u) + 1) - 1 /\ Len(u) + 1 \in Nat
    BY <1>1, <1>2
  <2>3. Nth(U, r - 1) \in U /\ Rank(U, Nth(U, r - 1)) = r - 1
    BY <2>1, <2>2, NthIsMember
  <2>4. m + (r - 1) + 1 = m + r
    BY <1>1
  <2>5. M[m + r] = u[Nth(U, r - 1)]
    BY <1>4, <2>3, <2>4
  <2>6. DOMAIN M = 1 .. m + b
    BY <1>3, <1>4, Positions
  <2> QED BY <1>1, <1>9, <2>5, <2>6
<1>12. \A n \in 1 .. a + b : ~ (n <= a) => n - a \in 1 .. b
  BY <1>8, <1>9
<1>13. \A n \in 1 .. a + b : n <= a => n \in 1 .. a
  BY <1>8, <1>9
<1>14. x = Kept(t, S) \o Kept(u, U)
  <2> DEFINE s == Kept(t, S) \o Kept(u, U)
  <2>0. PICK p \in Seq(E), q \in Seq(E) : p = Kept(t, S) /\ q = Kept(u, U)
    BY <1>8, <1>9
  <2>4. /\ p \o q \in Seq(E) /\ Len(p \o q) = Len(p) + Len(q)
        /\ \A i \in 1 .. Len(p) + Len(q) :
             (p \o q)[i] = IF i <= Len(p) THEN p[i] ELSE q[i - Len(p)]
    BY ONLY p \in Seq(E), q \in Seq(E), ConcatProperties
  <2>1. /\ s \in Seq(E) /\ Len(s) = a + b
        /\ \A i \in 1 .. a + b : s[i] = IF i <= a THEN Kept(t, S)[i] ELSE Kept(u, U)[i - a]
    <3> HIDE DEF S, U, a, b
    <3> QED BY <1>8, <1>9, <2>0, <2>4
  <2>2. s \in [1 .. a + b -> E]
    BY <2>1, Positions
  <2> HIDE DEF s, a, b, S, U
  <2>3. ASSUME NEW n \in 1 .. a + b PROVE s[n] = x[n]
    <3>1. n <= a => s[n] = t[Nth(S, n - 1)]
      BY <1>8, <1>13, <2>1
    <3>2. ~ (n <= a) => s[n] = u[Nth(U, n - a - 1)]
      BY <1>9, <1>12, <2>1
    <3> QED BY <3>1, <3>2
  <2> QED BY <2>2, <2>3 DEF s
<1> HIDE DEF D, S, U, M, m, a, b
<1>15. ASSUME NEW n \in 1 .. a + b PROVE f[n] \in D /\ M[f[n]] = x[n]
  <2>1. CASE n <= a
    <3>1. Nth(S, n - 1) \in S
      BY <1>8, <1>13, <2>1
    <3>2. PICK i : i = Nth(S, n - 1)
      OBVIOUS
    <3>3. i \in 1 .. m /\ t[i].key \notin KeysOf(u)
      BY <1>1, <1>2, <1>6, <3>1, <3>2
    <3>4. i \in DOMAIN M /\ M[i] = t[i]
      BY <1>10, <3>3
    <3>5. i \in D
      BY <1>6, <3>3, <3>4
    <3> QED BY <2>1, <3>2, <3>4, <3>5
  <2>2. CASE ~ (n <= a)
    <3>1. PICK r \in 1 .. b : r = n - a
      BY <1>12, <2>2
    <3>2. m + r \in DOMAIN M /\ M[m + r] = u[Nth(U, r - 1)] /\ Nth(U, r - 1) \in U
      BY <1>9, <1>11
    <3>3. m + r \in D
      BY <1>6, <3>2
    <3>4. f[n] = m + r /\ x[n] = u[Nth(U, r - 1)]
      BY <2>2, <3>1
    <3> QED BY <3>2, <3>3, <3>4
  <2> QED BY <2>1, <2>2
<1>16. f \in [1 .. a + b -> D]
  BY <1>15
<1>17. Increasing(f, 1 .. a + b)
  <2>1. ASSUME NEW i \in 1 .. a + b, NEW j \in 1 .. a + b, i < j
        PROVE  f[i] < f[j]
    <3>1. CASE j <= a
      <4>1. i \in 1 .. a /\ j \in 1 .. a
        BY <1>8, <1>9, <2>1, <3>1
      <4>2. Nth(S, i - 1) < Nth(S, j - 1)
        BY <4>1, <1>2, <2>1, KeptInOrder DEF a
      <4>3. i <= a
        BY <4>1
      <4> QED BY <3>1, <4>2, <4>3
    <3>2. CASE ~ (j <= a) /\ i <= a
      <4>1. Nth(S, i - 1) \in S
        BY <1>8, <1>13, <3>2
      <4>2. Nth(S, i - 1) \in 1 .. m
        BY <1>1, <1>2, <4>1
      <4>3. j - a \in 1 .. b
        BY <1>12, <3>2
      <4>4. PICK k \in 1 .. m : k = Nth(S, i - 1)
        BY <4>2
      <4>5. k < m + (j - a)
        BY <1>1, <1>9, <4>3
      <4> QED BY <3>2, <4>4, <4>5
    <3>3. CASE ~ (j <= a) /\ ~ (i <= a)
      <4>1. m + (i - a) < m + (j - a)
        BY <1>1, <1>8, <1>9, <2>1
      <4> QED BY <3>3, <4>1
    <3>4. ~ (i <= a) => ~ (j <= a)
      BY <1>8, <1>9, <2>1
    <3> QED BY <3>1, <3>2, <3>3, <3>4
  <2> HIDE DEF f
  <2> QED BY <2>1 DEF Increasing
<1>18. Reaches(f, 1 .. a + b, D)
  <2>1. ASSUME NEW j \in D PROVE \E n \in 1 .. a + b : f[n] = j
    <3>0. j \in 1 .. m + b
      BY <1>2, <1>3, <1>4, Positions
    <3>1. CASE j <= m
      <4>1. j \in 1 .. m
        BY <1>1, <1>9, <3>0, <3>1
      <4>2. t[j].key \in KeysOf(t)
        BY <1>1, <4>1 DEF KeysOf
      <4>3. j \in S
        BY <1>1, <1>2, <1>6, <1>10, <4>1, <4>2
      <4>4. PICK n \in 1 .. a : Nth(S, n - 1) = j
        BY <1>8, <4>3
      <4>5. n \in 1 .. a + b /\ n <= a
        BY <1>8, <1>9
      <4> QED BY <4>4, <4>5
    <3>2. CASE ~ (j <= m)
      <4> DEFINE n == a + (j - m)
      <4>1. n \in 1 .. a + b /\ ~ (n <= a) /\ m + (n - a) = j
        BY <1>1, <1>8, <1>9, <3>0, <3>2
      <4> HIDE DEF n
      <4> QED BY <4>1
    <3> QED BY <3>1, <3>2
  <2> HIDE DEF f
  <2> QED BY <2>1 DEF Reaches
<1> HIDE DEF f, x
<1>19. Kept(M, D) = [n \in 1 .. a + b |-> M[f[n]]]
  <2>1. a + b \in Nat
    BY <1>8, <1>9
  <2>2. M \in Seq(E) /\ D \subseteq DOMAIN M
    BY <1>2, <1>3
  <2>3. Kept(M, D) = Listed(M, f, a + b)
    <3> HIDE DEF M, D, a, b
    <3> QED BY ONLY <2>1, <2>2, <1>16, <1>17, <1>18, KeptUnique
  <2> QED BY ONLY <2>3 DEF Listed
<1>20. [n \in 1 .. a + b |-> M[f[n]]] = x
  <2>1. x = [n \in 1 .. a + b |-> x[n]]
    BY DEF x
  <2> QED BY <2>1, <1>15
<1> QED BY <1>7, <1>14, <1>19, <1>20 DEF M

-----------------------------------------------------------------------------
(* The tables that the methods make.                                       *)

LEMMA EntryType ==
  ASSUME NEW sort \in {"map", "set"}, NEW k \in Key, NEW v, sort = "map" => v \in Value
  PROVE  EntryOf(sort, k, v) \in EntryOfKind(sort) /\ EntryOf(sort, k, v).key = k
BY DEF EntryOf, EntryOfKind

\* Another order of the entries is a table with the same keys.
LEMMA OrdersFacts ==
  ASSUME NEW E, NEW t \in Seq(E), NEW s \in Orders(t)
  PROVE  /\ s \in Seq(E)
         /\ DistinctKeys(t) => DistinctKeys(s)
<1> DEFINE m == Len(t)
<1>1. m \in Nat /\ DOMAIN t = 1 .. m /\ \A i \in 1 .. m : t[i] \in E
  BY Positions
<1> HIDE DEF m
<1>2. PICK p \in [1 .. m -> 1 .. m] : IsInjective(p) /\ s = [i \in 1 .. m |-> t[p[i]]]
  BY <1>1 DEF Orders
<1>3. s \in [1 .. m -> E]
  BY <1>1, <1>2
<1>4. s \in Seq(E) /\ DOMAIN s = 1 .. m
  BY <1>1, <1>3, Table
<1>5. ASSUME DistinctKeys(t), NEW i \in 1 .. m, NEW j \in 1 .. m, s[i].key = s[j].key
      PROVE  i = j
  <2>1. p[i] = p[j]
    BY <1>1, <1>2, <1>5 DEF DistinctKeys
  <2> QED BY <1>2, <2>1 DEF IsInjective
<1> QED BY <1>4, <1>5 DEF DistinctKeys

LEMMA BackwardsFacts ==
  ASSUME NEW E, NEW t \in Seq(E)
  PROVE  /\ Backwards(t) \in Seq(E)
         /\ DistinctKeys(t) => DistinctKeys(Backwards(t))
<1> DEFINE m == Len(t)
           s == [i \in 1 .. m |-> t[m + 1 - i]]
<1>1. m \in Nat /\ DOMAIN t = 1 .. m /\ \A i \in 1 .. m : t[i] \in E
  BY Positions
<1>2. Backwards(t) = s
  BY <1>1 DEF Backwards
<1> HIDE DEF m
<1>3. \A i \in 1 .. m : m + 1 - i \in 1 .. m
  BY <1>1
<1>4. s \in [1 .. m -> E]
  BY <1>1, <1>3
<1>5. s \in Seq(E) /\ DOMAIN s = 1 .. m
  <2> HIDE DEF s
  <2> QED BY <1>1, <1>4, Table
<1>6. ASSUME DistinctKeys(t), NEW i \in 1 .. m, NEW j \in 1 .. m, s[i].key = s[j].key
      PROVE  i = j
  <2>1. m + 1 - i = m + 1 - j
    BY <1>1, <1>3, <1>6 DEF DistinctKeys
  <2> QED BY <1>1, <2>1
<1> HIDE DEF s
<1> QED BY <1>2, <1>5, <1>6 DEF DistinctKeys

\* A table with an entry for each of another, under its key.
LEMMA SameKeys ==
  ASSUME NEW E, NEW F, NEW t \in Seq(E), NEW s, DOMAIN s = DOMAIN t,
         s = [i \in DOMAIN t |-> s[i]],
         \A i \in DOMAIN t : s[i] \in F /\ s[i].key = t[i].key
  PROVE  /\ s \in Seq(F)
         /\ DistinctKeys(t) => DistinctKeys(s)
<1>1. Len(t) \in Nat /\ DOMAIN t = 1 .. Len(t)
  BY Positions
<1>2. s \in [1 .. Len(t) -> F]
  BY <1>1
<1>3. s \in Seq(F)
  BY <1>1, <1>2, Table
<1> QED BY <1>3 DEF DistinctKeys

LEMMA WithoutFacts ==
  ASSUME NEW E, NEW t \in Seq(E), NEW k
  PROVE  /\ Without(t, k) \in Seq(E)
         /\ DistinctKeys(t) => DistinctKeys(Without(t, k))
<1> DEFINE S == {i \in DOMAIN t : t[i].key # k}
<1>1. Without(t, k) = Kept(t, S) /\ S \subseteq DOMAIN t
  BY DEF Without
<1> HIDE DEF S
<1>2. Kept(t, S) \in Seq(E)
  BY <1>1, KeptFacts
<1>3. DistinctKeys(t) => DistinctKeys(Kept(t, S))
  BY <1>1, KeptDistinct
<1> QED BY <1>1, <1>2, <1>3

LEMMA NoEntries ==
  ASSUME NEW E
  PROVE  << >> \in Seq(E) /\ DistinctKeys(<< >>) /\ Len(<< >>) = 0
<1>1. << >> \in Seq(E) /\ Len(<< >>) = 0
  BY EmptySeq
<1>2. DOMAIN << >> = {}
  BY <1>1, Positions
<1> QED BY <1>1, <1>2 DEF DistinctKeys

\* A part of a table within it.
LEMMA PartFacts ==
  ASSUME NEW E, NEW t \in Seq(E), NEW a \in 1 .. Len(t), NEW b \in a .. Len(t)
  PROVE  /\ SubSeq(t, a, b) \in Seq(E) /\ Len(SubSeq(t, a, b)) = b - a + 1
         /\ \A j \in 1 .. b - a + 1 :
              a + j - 1 \in DOMAIN t /\ SubSeq(t, a, b)[j] = t[a + j - 1]
         /\ DistinctKeys(t) => DistinctKeys(SubSeq(t, a, b))
<1> DEFINE s == SubSeq(t, a, b)
           m == b - a + 1
<1>1. Len(t) \in Nat /\ DOMAIN t = 1 .. Len(t)
  BY Positions
<1>2. /\ s \in Seq(E) /\ Len(s) = m /\ m \in Nat
      /\ \A j \in 1 .. m : s[j] = t[a + j - 1]
  BY <1>1, SubSeqProperties
<1>3. DOMAIN s = 1 .. m
  BY <1>2, Positions
<1>4. \A j \in 1 .. m : a + j - 1 \in DOMAIN t /\ j \in Int
  BY <1>1
<1> HIDE DEF s, m
<1>5. ASSUME DistinctKeys(t), NEW i \in 1 .. m, NEW j \in 1 .. m, s[i].key = s[j].key
      PROVE  i = j
  <2>1. a + i - 1 = a + j - 1
    <3>1. t[a + i - 1].key = t[a + j - 1].key
      BY <1>2, <1>5
    <3>2. a + i - 1 \in DOMAIN t /\ a + j - 1 \in DOMAIN t
      BY <1>4
    <3> QED BY ONLY <1>5, <3>1, <3>2 DEF DistinctKeys
  <2>2. a \in Int
    BY <1>1
  <2> QED BY <1>4, <2>1, <2>2
<1>6. DistinctKeys(t) => DistinctKeys(s)
  BY <1>3, <1>5 DEF DistinctKeys
<1> QED BY <1>2, <1>3, <1>4, <1>6 DEF s, m

-----------------------------------------------------------------------------
(* Type correctness, keys and what is built, together: what is built has   *)
(* no key twice because it follows a table that has none.                  *)

\* A walk is within its table, and no set is freed outside of one.
WalkWithin ==
  /\ call.op \in Walks => call.at <= Len(entries[call.on])
  /\ fault = "freed" => call.op \in Walks

\* TypeOK while no collection has an entry without a key.
Typed ==
  /\ kind \in [Variable -> {"map", "set"}]
  /\ DOMAIN entries = Variable
  /\ \A x \in Variable : entries[x] \in Seq(EntryOfKind(kind[x]))
  /\ \/ call = NoCall
     \/ call \in [op : Ops, on : Variable, at : Nat,
                  built : Seq(EntryOfKind(kind[call.on]))]
  /\ fault \in {"none", "overrun", "freed"}

\* What holds until a Traversable throws in current() or key().
SoundInv == Typed /\ KeysDistinct /\ BuiltFollowsSource /\ WalkWithin

\* What it leaves then: the entry that was put has no key, and nothing is under way.
KeylessInv == fault = "keyless" /\ call = NoCall /\ TypeOK /\ KeysDistinct

IInv == SoundInv \/ KeylessInv

\* A table of entries of that kind, none of them of the same key.
Sound(sort, t) == t \in Seq(EntryOfKind(sort)) /\ DistinctKeys(t)

LEMMA Collection ==
  ASSUME SoundInv, NEW x \in Variable
  PROVE  Sound(kind[x], entries[x]) /\ kind[x] \in {"map", "set"}
BY DEF SoundInv, Typed, KeysDistinct, Sound

\* What is under way is no walk when what a variable has is changed.
LEMMA OpenIsNoWalk ==
  ASSUME Open
  PROVE  fault = "none" /\ call.op \notin Walks
BY DEF Open, Walks

LEMMA ChangeKeeps ==
  ASSUME SoundInv, NEW x \in Variable, NEW t, Sound(kind[x], t), Change(x, t)
  PROVE  SoundInv'
<1>1. /\ entries' = [entries EXCEPT ![x] = t]
      /\ kind' = kind /\ call' = call /\ fault' = fault
      /\ fault = "none" /\ call.op \notin Walks
  BY OpenIsNoWalk DEF Change
<1>2. DOMAIN entries' = Variable
      /\ \A y \in Variable : entries'[y] = IF y = x THEN t ELSE entries[y]
  BY <1>1 DEF SoundInv, Typed
<1>3. Typed'
  BY <1>1, <1>2 DEF SoundInv, Typed, Sound
<1>4. KeysDistinct'
  BY <1>1, <1>2 DEF SoundInv, KeysDistinct, Sound
<1>5. BuiltFollowsSource' /\ WalkWithin'
  BY <1>1 DEF BuiltFollowsSource, WalkWithin
<1> QED BY <1>3, <1>4, <1>5 DEF SoundInv

LEMMA AssignKeeps ==
  ASSUME SoundInv, NEW x \in Variable, NEW sort \in {"map", "set"}, NEW t,
         Sound(sort, t), Assign(x, sort, t)
  PROVE  SoundInv'
<1>1. /\ entries' = [entries EXCEPT ![x] = t]
      /\ kind' = [kind EXCEPT ![x] = sort] /\ call' = call /\ fault' = fault
      /\ call.on # x
      /\ fault = "none" /\ call.op \notin Walks
  BY OpenIsNoWalk DEF Assign, Assignable
<1>2. /\ DOMAIN entries' = Variable /\ kind' \in [Variable -> {"map", "set"}]
      /\ \A y \in Variable : /\ entries'[y] = IF y = x THEN t ELSE entries[y]
                             /\ kind'[y] = IF y = x THEN sort ELSE kind[y]
  BY <1>1 DEF SoundInv, Typed
<1>3. Typed'
  <2>1. \A y \in Variable : entries'[y] \in Seq(EntryOfKind(kind'[y]))
    BY <1>2 DEF SoundInv, Typed, Sound
  <2>2. \/ call' = NoCall
        \/ call' \in [op : Ops, on : Variable, at : Nat,
                      built : Seq(EntryOfKind(kind'[call'.on]))]
    <3>1. CASE call = NoCall
      BY <1>1, <3>1
    <3>2. CASE call \in [op : Ops, on : Variable, at : Nat,
                         built : Seq(EntryOfKind(kind[call.on]))]
      <4>1. kind'[call.on] = kind[call.on]
        BY <1>1, <1>2, <3>2
      <4> QED BY <1>1, <3>2, <4>1
    <3> QED BY <3>1, <3>2 DEF SoundInv, Typed
  <2>3. fault' \in {"none", "overrun", "freed"}
    BY <1>1
  <2> QED BY <1>2, <2>1, <2>2, <2>3 DEF Typed
<1>4. KeysDistinct'
  BY <1>1, <1>2 DEF SoundInv, KeysDistinct, Sound
<1>5. BuiltFollowsSource' /\ WalkWithin'
  BY <1>1 DEF BuiltFollowsSource, WalkWithin
<1> QED BY <1>3, <1>4, <1>5 DEF SoundInv

-----------------------------------------------------------------------------
(* What the program does at once.                                          *)

LEMMA SoundTable ==
  ASSUME NEW sort, NEW t, Sound(sort, t)
  PROVE  t \in Seq(EntryOfKind(sort)) /\ DistinctKeys(t)
BY DEF Sound

LEMMA SoundNone ==
  ASSUME NEW sort
  PROVE  Sound(sort, << >>)
BY NoEntries DEF Sound

LEMMA SoundPut ==
  ASSUME NEW sort, NEW t, Sound(sort, t), NEW e \in EntryOfKind(sort)
  PROVE  Sound(sort, Put(t, e))
<1>1. t \in Seq(EntryOfKind(sort)) /\ DistinctKeys(t)
  BY DEF Sound
<1>2. Put(t, e) \in Seq(EntryOfKind(sort))
  BY <1>1, PutFacts
<1>3. DistinctKeys(Put(t, e))
  BY <1>1, PutFacts
<1> QED BY <1>2, <1>3 DEF Sound

LEMMA SoundMerged ==
  ASSUME NEW sort, NEW t, Sound(sort, t), NEW u \in Seq(EntryOfKind(sort))
  PROVE  Sound(sort, Merged(t, u))
<1>1. t \in Seq(EntryOfKind(sort)) /\ DistinctKeys(t)
  BY DEF Sound
<1>2. Merged(t, u) \in Seq(EntryOfKind(sort))
  BY <1>1, MergedFacts
<1>3. DistinctKeys(Merged(t, u))
  BY <1>1, MergedFacts
<1> QED BY <1>2, <1>3 DEF Sound

LEMMA SoundWithout ==
  ASSUME NEW sort, NEW t, Sound(sort, t), NEW k
  PROVE  Sound(sort, Without(t, k))
BY WithoutFacts DEF Sound

LEMMA SoundOrders ==
  ASSUME NEW sort, NEW t, Sound(sort, t), NEW s \in Orders(t)
  PROVE  Sound(sort, s)
BY OrdersFacts DEF Sound

LEMMA SoundBackwards ==
  ASSUME NEW sort, NEW t, Sound(sort, t)
  PROVE  Sound(sort, Backwards(t))
BY BackwardsFacts DEF Sound

LEMMA SoundSameKeys ==
  ASSUME NEW sort, NEW to, NEW t, Sound(sort, t), NEW s, DOMAIN s = DOMAIN t,
         s = [i \in DOMAIN t |-> s[i]],
         \A i \in DOMAIN t : s[i] \in EntryOfKind(to) /\ s[i].key = t[i].key
  PROVE  Sound(to, s)
<1>1. t \in Seq(EntryOfKind(sort)) /\ DistinctKeys(t)
  BY DEF Sound
<1>2. s \in Seq(EntryOfKind(to))
  BY <1>1, SameKeys
<1>3. DistinctKeys(s)
  BY <1>1, SameKeys
<1> QED BY <1>2, <1>3 DEF Sound

LEMMA SoundAlgebra ==
  ASSUME NEW sort, NEW t, Sound(sort, t), NEW u, Sound(sort, u),
         NEW r \in {Diff(t, u), Intersect(t, u), Xor(t, u), Merged(t, u)}
  PROVE  Sound(sort, r)
<1>1. t \in Seq(EntryOfKind(sort)) /\ DistinctKeys(t)
  BY DEF Sound
<1>2. u \in Seq(EntryOfKind(sort)) /\ DistinctKeys(u)
  BY DEF Sound
<1>3. Sound(sort, Diff(t, u))
  BY <1>1, DiffFacts DEF Sound
<1>4. Sound(sort, Intersect(t, u))
  BY <1>1, IntersectFacts DEF Sound
<1>5. Sound(sort, Xor(t, u))
  BY <1>1, <1>2, XorFacts DEF Sound
<1>6. Sound(sort, Merged(t, u))
  BY <1>2, SoundMerged
<1> QED BY <1>3, <1>4, <1>5, <1>6

\* The length that a slice gets is a natural number.
LEMMA LengthsNat ==
  ASSUME NEW i \in Int, NEW n \in Int, NEW size \in Nat,
         NEW len \in SliceLengths(i, n, size)
  PROVE  len \in Nat /\ SliceFrom(i, size) \in Nat
<1> DEFINE from == SliceFrom(i, size)
           l == IF n < 0 THEN AtLeast0(size + n - from) ELSE n
<1>1. from \in Nat
  BY DEF SliceFrom, AtLeast0
<1> HIDE DEF from
<1>2. l \in Nat /\ AtLeast0(size - from) \in Nat
  BY <1>1 DEF AtLeast0
<1> HIDE DEF l
<1>3. len = 0 \/ len = AtLeast0(size - from) \/ len = l
  BY DEF SliceLengths, l, from
<1> QED BY <1>1, <1>2, <1>3 DEF from

\* A slice that stays in the table is a part of it, or nothing.
LEMMA SliceIsPart ==
  ASSUME NEW E, NEW t \in Seq(E), NEW i \in Int, NEW n \in Int,
         NEW len \in SliceLengths(i, n, Len(t)), ~ ReachesPastEnd(t, i, len)
  PROVE  \/ len = 0 /\ SliceOf(t, i, len) = << >>
         \/ \E a \in 1 .. Len(t) : \E b \in a .. Len(t) :
              /\ SliceOf(t, i, len) = SubSeq(t, a, b)
              /\ a = SliceFrom(i, Len(t)) + 1 /\ b - a + 1 = len
<1> DEFINE size == Len(t)
           from == SliceFrom(i, size)
           a == from + 1
           b == from + len
<1>1. size \in Nat
  BY Positions
<1>2. len \in Nat /\ from \in Nat
  BY <1>1, LengthsNat
<1>3. CASE len = 0
  BY <1>3 DEF SliceOf
<1>4. CASE len # 0
  <2>1. SliceOf(t, i, len) = SubSeq(t, a, b)
    BY <1>4 DEF SliceOf
  <2>2. from + len <= size
    BY <1>1, <1>2, <1>4 DEF ReachesPastEnd
  <2> HIDE DEF from
  <2>3. a \in 1 .. size /\ b \in a .. size /\ b - a + 1 = len
    BY <1>1, <1>2, <1>4, <2>2
  <2> HIDE DEF a, b
  <2>4. a = from + 1
    BY DEF a
  <2> QED BY <2>1, <2>3, <2>4 DEF from
<1> QED BY <1>3, <1>4

LEMMA SoundSlice ==
  ASSUME NEW sort, NEW t, Sound(sort, t), NEW i \in Int, NEW n \in Int,
         NEW len \in SliceLengths(i, n, Len(t)), ~ ReachesPastEnd(t, i, len)
  PROVE  Sound(sort, SliceOf(t, i, len))
<1>1. t \in Seq(EntryOfKind(sort)) /\ DistinctKeys(t)
  BY DEF Sound
<1>2. CASE SliceOf(t, i, len) = << >>
  BY <1>2, SoundNone
<1>3. ASSUME NEW a \in 1 .. Len(t), NEW b \in a .. Len(t),
             SliceOf(t, i, len) = SubSeq(t, a, b)
      PROVE  Sound(sort, SliceOf(t, i, len))
  <2>1. SubSeq(t, a, b) \in Seq(EntryOfKind(sort))
    BY <1>1, PartFacts
  <2>2. DistinctKeys(SubSeq(t, a, b))
    BY <1>1, PartFacts
  <2> QED BY <1>3, <2>1, <2>2 DEF Sound
<1> QED BY <1>1, <1>2, <1>3, SliceIsPart

\* An array that is passed has a value for each of its keys, no key twice.
LEMMA ArrayFacts ==
  ASSUME NEW a \in PhpArrays
  PROVE  /\ a \in Seq([key : Key, value : Value])
         /\ \A i, j \in DOMAIN a : a[i].key = a[j].key => i = j
<1>0. PICK ks \in ArrayKeys : \E vs \in [DOMAIN ks -> Value] :
        a = [i \in DOMAIN ks |-> [key |-> ks[i], value |-> vs[i]]]
  BY DEF PhpArrays
<1>1. PICK vs \in [DOMAIN ks -> Value] :
        a = [i \in DOMAIN ks |-> [key |-> ks[i], value |-> vs[i]]]
  BY <1>0
<1>2. ks \in Seq(Key) /\ IsInjective(ks)
  BY ArrayAssumption
<1>3. Len(ks) \in Nat /\ DOMAIN ks = 1 .. Len(ks) /\ \A i \in DOMAIN ks : ks[i] \in Key
  BY <1>2, Positions
<1>4. a \in [1 .. Len(ks) -> [key : Key, value : Value]]
  BY <1>1, <1>3
<1>5. a \in Seq([key : Key, value : Value]) /\ DOMAIN a = DOMAIN ks
  BY <1>3, <1>4, Table
<1>6. \A i \in DOMAIN ks : a[i].key = ks[i]
  BY <1>1
<1> QED BY <1>2, <1>5, <1>6 DEF IsInjective

\* The pairs that putAll reads of an array: its values, its keys narrowed.
Narrowed(a) == [i \in DOMAIN a |-> [a[i] EXCEPT !.key = Truncated(@)]]

LEMMA NarrowedFacts ==
  ASSUME NEW a \in PhpArrays
  PROVE  /\ Narrowed(a) \in Seq(EntryOfKind("map")) /\ DOMAIN Narrowed(a) = DOMAIN a
         /\ \A i \in DOMAIN a : /\ Narrowed(a)[i].key = Truncated(a[i].key)
                                /\ a[i].key = Truncated(a[i].key) => Narrowed(a)[i] = a[i]
                                /\ a[i].key \in Key
<1>1. a \in Seq([key : Key, value : Value])
  BY ArrayFacts
<1>2. Len(a) \in Nat /\ DOMAIN a = 1 .. Len(a)
      /\ \A i \in DOMAIN a : a[i] \in [key : Key, value : Value]
  BY <1>1, Positions
<1>3. \A k \in Key : Truncated(k) \in Key
  BY WidthAssumption
<1>4. ASSUME NEW i \in DOMAIN a
      PROVE  /\ Narrowed(a)[i] \in EntryOfKind("map")
             /\ Narrowed(a)[i].key = Truncated(a[i].key)
             /\ a[i].key = Truncated(a[i].key) => Narrowed(a)[i] = a[i]
             /\ a[i].key \in Key
  <2>1. PICK e \in [key : Key, value : Value] : e = a[i]
    BY <1>2
  <2>2. Narrowed(a)[i] = [e EXCEPT !.key = Truncated(e.key)]
    BY <2>1 DEF Narrowed
  <2>3. /\ [e EXCEPT !.key = Truncated(e.key)] \in EntryOfKind("map")
        /\ [e EXCEPT !.key = Truncated(e.key)].key = Truncated(e.key)
    BY <1>3 DEF EntryOfKind
  <2>4. e.key = Truncated(e.key) => [e EXCEPT !.key = Truncated(e.key)] = e
    OBVIOUS
  <2> QED BY <2>1, <2>2, <2>3, <2>4
<1>5. Narrowed(a) \in [1 .. Len(a) -> EntryOfKind("map")]
  BY <1>2, <1>4 DEF Narrowed
<1>6. Narrowed(a) \in Seq(EntryOfKind("map")) /\ DOMAIN Narrowed(a) = DOMAIN a
  BY <1>2, <1>5, Table
<1> QED BY <1>4, <1>6

LEMMA PutArrayKeeps ==
  ASSUME SoundInv, NEW x \in Variable, NEW a \in PhpArrays, PutArray(x, a) \/ AddArray(x, a)
  PROVE  SoundInv'
<1>1. Sound(kind[x], entries[x])
  BY Collection
<1>2. CASE PutArray(x, a)
  <2>1. kind[x] = "map" /\ Change(x, Merged(entries[x], Narrowed(a)))
    BY <1>2 DEF PutArray, Narrowed
  <2>2. Narrowed(a) \in Seq(EntryOfKind("map"))
    BY NarrowedFacts
  <2>3. Sound(kind[x], Merged(entries[x], Narrowed(a)))
    BY <1>1, <2>1, <2>2, SoundMerged
  <2> QED BY <2>1, <2>3, ChangeKeeps
<1>3. CASE AddArray(x, a)
  <2> DEFINE u == [i \in DOMAIN a |-> EntryOf("set", a[i].key, NoValue)]
  <2>1. kind[x] = "set" /\ Change(x, Merged(entries[x], u))
    BY <1>3 DEF AddArray
  <2>2. a \in Seq([key : Key, value : Value])
    BY ArrayFacts
  <2>3. Len(a) \in Nat /\ DOMAIN a = 1 .. Len(a)
        /\ \A i \in DOMAIN a : a[i] \in [key : Key, value : Value]
    BY <2>2, Positions
  <2>4. \A i \in DOMAIN a : EntryOf("set", a[i].key, NoValue) \in EntryOfKind("set")
    BY <2>3 DEF EntryOf, EntryOfKind
  <2>5. u \in [1 .. Len(a) -> EntryOfKind("set")]
    BY <2>3, <2>4
  <2> HIDE DEF u
  <2>6. u \in Seq(EntryOfKind("set"))
    BY <2>3, <2>5, Table
  <2>7. Sound(kind[x], Merged(entries[x], u))
    BY <1>1, <2>1, <2>6, SoundMerged
  <2> QED BY <2>1, <2>7, ChangeKeeps
<1> QED BY <1>2, <1>3

LEMMA OneEntryKeeps ==
  ASSUME SoundInv, NEW x \in Variable, NEW k \in Key,
         RemoveOne(x, k) \/ Unset(x, k) \/ \E v \in Value : PutOne(x, k, v)
  PROVE  SoundInv'
<1>1. Sound(kind[x], entries[x]) /\ kind[x] \in {"map", "set"}
  BY Collection
<1>2. CASE RemoveOne(x, k) \/ Unset(x, k)
  <2>1. Change(x, Without(entries[x], k))
    BY <1>2 DEF RemoveOne, Unset
  <2>2. Sound(kind[x], Without(entries[x], k))
    BY <1>1, SoundWithout
  <2> QED BY <2>1, <2>2, ChangeKeeps
<1>3. ASSUME NEW v \in Value, PutOne(x, k, v) PROVE SoundInv'
  <2> DEFINE e == EntryOf(kind[x], k, v)
  <2>1. Change(x, Put(entries[x], e))
    BY <1>3 DEF PutOne
  <2>2. e \in EntryOfKind(kind[x])
    BY <1>1, EntryType
  <2> HIDE DEF e
  <2>3. Sound(kind[x], Put(entries[x], e))
    BY <1>1, <2>2, SoundPut
  <2> QED BY <2>1, <2>3, ChangeKeeps
<1> QED BY <1>2, <1>3

LEMMA WholeKeeps ==
  ASSUME SoundInv, NEW x \in Variable, Clear(x) \/ Sort(x) \/ ReverseAll(x)
  PROVE  SoundInv'
<1>1. Sound(kind[x], entries[x])
  BY Collection
<1>2. CASE Clear(x)
  BY <1>2, SoundNone, ChangeKeeps DEF Clear
<1>3. CASE Sort(x)
  <2>1. PICK t \in Orders(entries[x]) : Change(x, t)
    BY <1>3 DEF Sort
  <2>2. Sound(kind[x], t)
    BY <1>1, SoundOrders
  <2> QED BY <2>1, <2>2, ChangeKeeps
<1>4. CASE ReverseAll(x)
  <2>1. Sound(kind[x], Backwards(entries[x]))
    BY <1>1, SoundBackwards
  <2> QED BY <1>4, <2>1, ChangeKeeps DEF ReverseAll
<1> QED BY <1>2, <1>3, <1>4

LEMMA ApplyKeeps ==
  ASSUME SoundInv, NEW x \in Variable, NEW v \in Value, NEW n, Apply(x, n, v)
  PROVE  SoundInv'
<1> DEFINE t == entries[x]
           s == [i \in DOMAIN t |->
                   IF i <= n THEN [t[i] EXCEPT !.value = v] ELSE t[i]]
<1>1. Sound(kind[x], t)
  BY Collection
<1>2. kind[x] = "map" /\ Change(x, s)
  BY DEF Apply
<1>3. \A i \in DOMAIN t : t[i] \in EntryOfKind("map")
  BY <1>1, <1>2, Positions DEF Sound
<1>4. \A i \in DOMAIN t : s[i] \in EntryOfKind("map") /\ s[i].key = t[i].key
  <2>1. ASSUME NEW e \in EntryOfKind("map")
        PROVE  /\ [e EXCEPT !.value = v] \in EntryOfKind("map")
               /\ [e EXCEPT !.value = v].key = e.key
    BY DEF EntryOfKind
  <2> QED BY <1>3, <2>1
<1>5. DOMAIN s = DOMAIN t /\ s = [i \in DOMAIN t |-> s[i]]
  OBVIOUS
<1> HIDE DEF s
<1>6. Sound("map", s)
  BY <1>1, <1>4, <1>5, SoundSameKeys
<1> QED BY <1>2, <1>6, ChangeKeeps

LEMMA CopyKeeps ==
  ASSUME SoundInv, NEW x \in Variable, NEW y \in Variable,
         Copy(x, y) \/ Sorted(x, y) \/ Reversed(x, y) \/ Keys(x, y) \/ RoundTrip(x, y)
  PROVE  SoundInv'
<1>1. Sound(kind[y], entries[y]) /\ kind[y] \in {"map", "set"}
  BY Collection
<1>2. CASE Copy(x, y)
  BY <1>1, <1>2, AssignKeeps DEF Copy
<1>3. CASE Sorted(x, y)
  <2>1. PICK t \in Orders(entries[y]) : Assign(x, kind[y], t)
    BY <1>3 DEF Sorted
  <2>2. Sound(kind[y], t)
    BY <1>1, SoundOrders
  <2> QED BY <1>1, <2>1, <2>2, AssignKeeps
<1>4. CASE Reversed(x, y)
  <2>1. Sound(kind[y], Backwards(entries[y]))
    BY <1>1, SoundBackwards
  <2> QED BY <1>1, <1>4, <2>1, AssignKeeps DEF Reversed
<1>5. CASE Keys(x, y)
  <2> DEFINE t == entries[y]
             s == [i \in DOMAIN t |-> EntryOf("set", t[i].key, NoValue)]
  <2>1. kind[y] = "map" /\ Assign(x, "set", s)
    BY <1>5 DEF Keys
  <2>2. \A i \in DOMAIN t : t[i] \in EntryOfKind("map")
    BY <1>1, <2>1, Positions DEF Sound
  <2>3. \A i \in DOMAIN t : s[i] \in EntryOfKind("set") /\ s[i].key = t[i].key
    <3>1. ASSUME NEW e \in EntryOfKind("map")
          PROVE  /\ EntryOf("set", e.key, NoValue) \in EntryOfKind("set")
                 /\ EntryOf("set", e.key, NoValue).key = e.key
      BY DEF EntryOfKind, EntryOf
    <3> QED BY <2>2, <3>1
  <2>4. DOMAIN s = DOMAIN t /\ s = [i \in DOMAIN t |-> s[i]]
    OBVIOUS
  <2> HIDE DEF s
  <2>5. Sound("set", s)
    BY <1>1, <2>3, <2>4, SoundSameKeys
  <2> QED BY <2>1, <2>5, AssignKeeps
<1>6. CASE RoundTrip(x, y)
  <2>1. Sound(kind[y], << >>) /\ entries[y] \in Seq(EntryOfKind(kind[y]))
    BY <1>1, SoundNone DEF Sound
  <2>2. Sound(kind[y], Merged(<< >>, entries[y]))
    BY <2>1, SoundMerged
  <2> QED BY <1>1, <1>6, <2>2, AssignKeeps DEF RoundTrip
<1> QED BY <1>2, <1>3, <1>4, <1>5, <1>6

LEMMA CombineKeeps ==
  ASSUME SoundInv, NEW x \in Variable, NEW y \in Variable, NEW z \in Variable,
         Combine(x, y, z)
  PROVE  SoundInv'
<1>1. /\ Sound(kind[y], entries[y]) /\ kind[y] \in {"map", "set"}
      /\ Sound(kind[z], entries[z])
  BY Collection
<1>2. kind[z] = kind[y]
  BY DEF Combine
<1>3. PICK r \in {Diff(entries[y], entries[z]), Intersect(entries[y], entries[z]),
                  Xor(entries[y], entries[z]), Merged(entries[y], entries[z])} :
        Assign(x, kind[y], r)
  BY DEF Combine
<1>4. Sound(kind[y], r)
  <2>1. Sound(kind[y], entries[z])
    BY <1>1, <1>2
  <2> QED BY <1>1, <2>1, SoundAlgebra
<1> QED BY <1>1, <1>3, <1>4, AssignKeeps

LEMMA SliceKeeps ==
  ASSUME SoundInv, NEW x \in Variable, NEW y \in Variable, NEW i \in Argument, NEW n \in Argument,
         Slice(x, y, i, n)
  PROVE  SoundInv'
<1>0. i \in Int /\ n \in Int
  BY WidthAssumption DEF Long
<1>1. Sound(kind[y], entries[y]) /\ kind[y] \in {"map", "set"}
  BY Collection
<1>2. PICK len \in SliceLengths(i, n, Len(entries[y])) :
        IF ReachesPastEnd(entries[y], i, len)
        THEN /\ Assignable(x)
             /\ fault' = "overrun" /\ UNCHANGED <<entries, kind, call>>
        ELSE Assign(x, kind[y], SliceOf(entries[y], i, len))
  BY DEF Slice
<1>3. CASE ReachesPastEnd(entries[y], i, len)
  <2>1. /\ fault' = "overrun" /\ entries' = entries /\ kind' = kind /\ call' = call
        /\ call.op \notin Walks
    BY <1>2, <1>3, OpenIsNoWalk DEF Assignable
  <2>2. Typed' /\ KeysDistinct'
    BY <2>1 DEF SoundInv, Typed, KeysDistinct
  <2>3. BuiltFollowsSource' /\ WalkWithin'
    BY <2>1 DEF BuiltFollowsSource, WalkWithin
  <2> QED BY <2>2, <2>3 DEF SoundInv
<1>4. CASE ~ ReachesPastEnd(entries[y], i, len)
  <2>1. Sound(kind[y], SliceOf(entries[y], i, len))
    BY <1>0, <1>1, <1>4, SoundSlice
  <2>2. Assign(x, kind[y], SliceOf(entries[y], i, len))
    BY <1>2, <1>4
  <2> QED BY <1>1, <2>1, <2>2, AssignKeeps
<1> QED BY <1>3, <1>4

-----------------------------------------------------------------------------
(* Methods that call the user for each entry.                              *)

\* A method under way, and what it has built.
LEMMA UnderWay ==
  ASSUME SoundInv, call.op \in Ops
  PROVE  /\ call \in [op : Ops, on : Variable, at : Nat,
                      built : Seq(EntryOfKind(kind[call.on]))]
         /\ Sound(kind[call.on], call.built) /\ Sound(kind[call.on], entries[call.on])
         /\ kind[call.on] \in {"map", "set"}
<1>1. "none" \notin Ops
  BY DEF Ops, Walks
<1>2. call # NoCall
  BY <1>1 DEF NoCall
<1>3. call \in [op : Ops, on : Variable, at : Nat,
                built : Seq(EntryOfKind(kind[call.on]))]
  BY <1>2 DEF SoundInv, Typed
<1>4. Sound(kind[call.on], call.built)
  BY <1>3 DEF Sound, SoundInv, KeysDistinct
<1>5. Sound(kind[call.on], entries[call.on]) /\ kind[call.on] \in {"map", "set"}
  BY <1>3, Collection
<1> QED BY <1>3, <1>4, <1>5

\* A call that ends, with nothing else changed.
LEMMA EndKeeps ==
  ASSUME SoundInv, fault = "none", call' = NoCall, UNCHANGED <<entries, kind, fault>>
  PROVE  SoundInv'
<1>1. "none" \notin Walks
  BY DEF Walks
<1>2. Typed'
  BY DEF SoundInv, Typed
<1>3. KeysDistinct'
  BY NoEntries DEF SoundInv, KeysDistinct, NoCall
<1>4. BuiltFollowsSource' /\ WalkWithin'
  BY <1>1 DEF BuiltFollowsSource, WalkWithin, NoCall
<1> QED BY <1>2, <1>3, <1>4 DEF SoundInv

\* The keys of a table in order.
LEMMA KeySeqFacts ==
  ASSUME NEW E, NEW t \in Seq(E)
  PROVE  /\ DOMAIN KeySeq(t) = DOMAIN t
         /\ \A i \in DOMAIN t : KeySeq(t)[i] = t[i].key
BY DEF KeySeq

\* The entries walked so far.
LEMMA WalkedFacts ==
  ASSUME NEW E, NEW t \in Seq(E), NEW n \in 0 .. Len(t)
  PROVE  /\ SubSeq(t, 1, n) \in Seq(E) /\ Len(SubSeq(t, 1, n)) = n
         /\ DOMAIN SubSeq(t, 1, n) = 1 .. n
         /\ \A j \in 1 .. n : SubSeq(t, 1, n)[j] = t[j] /\ j \in DOMAIN t
<1> DEFINE s == SubSeq(t, 1, n)
<1>1. Len(t) \in Nat /\ DOMAIN t = 1 .. Len(t) /\ \A i \in DOMAIN t : t[i] \in E
  BY Positions
<1>2. s = [j \in 1 .. n |-> t[j]]
  BY <1>1
<1> HIDE DEF s
<1>6. \A j \in 1 .. n : j \in DOMAIN t
  BY <1>1
<1>3. s \in [1 .. n -> E]
  BY <1>1, <1>2, <1>6
<1>4. n \in Nat
  BY <1>1
<1>5. s \in Seq(E) /\ Len(s) = n /\ DOMAIN s = 1 .. n
  BY <1>3, <1>4, Table
<1> QED BY <1>2, <1>5, <1>6 DEF s

\* An entry of another key behind a table.
LEMMA SoundAppend ==
  ASSUME NEW sort, NEW t, Sound(sort, t), NEW e \in EntryOfKind(sort),
         e.key \notin KeysOf(t)
  PROVE  /\ Sound(sort, Append(t, e)) /\ Len(Append(t, e)) = Len(t) + 1
         /\ DOMAIN Append(t, e) = 1 .. Len(t) + 1
         /\ \A i \in 1 .. Len(t) : Append(t, e)[i] = t[i]
         /\ Append(t, e)[Len(t) + 1] = e
<1>1. Sound(sort, Put(t, e)) /\ Put(t, e) = Append(t, e)
  BY SoundPut DEF Put
<1>2. t \in Seq(EntryOfKind(sort))
  BY DEF Sound
<1>3. /\ Append(t, e) \in Seq(EntryOfKind(sort)) /\ Len(Append(t, e)) = Len(t) + 1
      /\ \A i \in 1 .. Len(t) : Append(t, e)[i] = t[i]
      /\ Append(t, e)[Len(t) + 1] = e
  BY <1>2, AppendProperties
<1>4. DOMAIN Append(t, e) = 1 .. Len(t) + 1
  BY <1>3, Positions
<1> QED BY <1>1, <1>3, <1>4

\* The keys of a table follow those of another in order, none of them twice.
KeysWithin(b, t, n) == IsSubSeqOf(KeySeq(b), KeySeq(SubSeq(t, 1, n)))

LEMMA WithinIsMap ==
  ASSUME NEW E, NEW t \in Seq(E), NEW n \in 0 .. Len(t), NEW b \in Seq(E)
  PROVE  KeysWithin(b, t, n) <=>
           \E f \in [1 .. Len(b) -> 1 .. n] :
             /\ \A i, j \in 1 .. Len(b) : i < j => f[i] < f[j]
             /\ \A i \in 1 .. Len(b) : b[i].key = t[f[i]].key
<1> DEFINE w == SubSeq(t, 1, n)
<1>1. w \in Seq(E) /\ DOMAIN w = 1 .. n /\ \A j \in 1 .. n : w[j] = t[j]
  BY WalkedFacts
<1>2. DOMAIN b = 1 .. Len(b)
  BY Positions
<1> HIDE DEF w
<1>3. /\ DOMAIN KeySeq(b) = 1 .. Len(b) /\ DOMAIN KeySeq(w) = 1 .. n
      /\ \A i \in 1 .. Len(b) : KeySeq(b)[i] = b[i].key
      /\ \A j \in 1 .. n : KeySeq(w)[j] = t[j].key
  BY <1>1, <1>2, KeySeqFacts
<1>4. KeysWithin(b, t, n) <=> IsSubSeqOf(KeySeq(b), KeySeq(w))
  BY DEF KeysWithin, w
<1>5. IsSubSeqOf(KeySeq(b), KeySeq(w)) <=>
        \E f \in [1 .. Len(b) -> 1 .. n] :
             /\ \A i, j \in 1 .. Len(b) : i < j => f[i] < f[j]
             /\ \A i \in 1 .. Len(b) : KeySeq(b)[i] = KeySeq(w)[f[i]]
  BY <1>3 DEF IsSubSeqOf
<1>6. ASSUME NEW f \in [1 .. Len(b) -> 1 .. n], NEW i \in 1 .. Len(b)
      PROVE  KeySeq(b)[i] = b[i].key /\ KeySeq(w)[f[i]] = t[f[i]].key
  BY <1>3
<1>7. (\E f \in [1 .. Len(b) -> 1 .. n] :
             /\ \A i, j \in 1 .. Len(b) : i < j => f[i] < f[j]
             /\ \A i \in 1 .. Len(b) : KeySeq(b)[i] = KeySeq(w)[f[i]])
        <=> \E f \in [1 .. Len(b) -> 1 .. n] :
             /\ \A i, j \in 1 .. Len(b) : i < j => f[i] < f[j]
             /\ \A i \in 1 .. Len(b) : b[i].key = t[f[i]].key
  <2>1. \A f \in [1 .. Len(b) -> 1 .. n] :
          (\A i \in 1 .. Len(b) : KeySeq(b)[i] = KeySeq(w)[f[i]])
          <=> \A i \in 1 .. Len(b) : b[i].key = t[f[i]].key
    BY ONLY <1>6
  <2> QED BY ONLY <2>1, Zenon
<1> QED BY <1>4, <1>5, <1>7

\* Of a table without a key twice, the next entry has a key that is not there yet.
LEMMA FilterStep ==
  ASSUME NEW sort, NEW t, Sound(sort, t), NEW n \in 0 .. Len(t) - 1,
         NEW b, Sound(sort, b), KeysWithin(b, t, n)
  PROVE  /\ t[n + 1].key \notin KeysOf(b)
         /\ KeysWithin(Append(b, t[n + 1]), t, n + 1)
         /\ KeysWithin(b, t, n + 1)
<1> DEFINE E == EntryOfKind(sort)
           m == Len(b)
           c == Append(b, t[n + 1])
<1>1. t \in Seq(E) /\ b \in Seq(E) /\ DistinctKeys(t)
  BY DEF Sound
<1>2. /\ Len(t) \in Nat /\ DOMAIN t = 1 .. Len(t) /\ \A i \in DOMAIN t : t[i] \in E
      /\ m \in Nat /\ DOMAIN b = 1 .. m
  BY <1>1, Positions
<1>3. /\ n \in Nat /\ n \in 0 .. Len(t) /\ n + 1 \in 0 .. Len(t)
      /\ n + 1 \in DOMAIN t /\ t[n + 1] \in E
  BY <1>2
<1> HIDE DEF E
<1>4. PICK f \in [1 .. m -> 1 .. n] :
        /\ \A i, j \in 1 .. m : i < j => f[i] < f[j]
        /\ \A i \in 1 .. m : b[i].key = t[f[i]].key
  BY <1>1, <1>3, WithinIsMap
<1>5. t[n + 1].key \notin KeysOf(b)
  <2>1. ASSUME NEW i \in 1 .. m PROVE b[i].key # t[n + 1].key
    <3>1. f[i] \in DOMAIN t /\ f[i] # n + 1
      BY <1>2, <1>3
    <3> QED BY <1>1, <1>3, <1>4, <3>1 DEF DistinctKeys
  <2> QED BY <1>2, <2>1 DEF KeysOf
<1>6. /\ Sound(sort, c) /\ Len(c) = m + 1
      /\ \A i \in 1 .. m : c[i] = b[i]
      /\ c[m + 1] = t[n + 1]
  BY <1>3, <1>5, SoundAppend DEF E
<1>7. c \in Seq(E)
  BY <1>6 DEF Sound, E
<1> HIDE DEF c, m
<1>8. KeysWithin(c, t, n + 1)
  <2> DEFINE g == [i \in 1 .. m + 1 |-> IF i <= m THEN f[i] ELSE n + 1]
  <2>1. \A i \in 1 .. m + 1 : i <= m => i \in 1 .. m
    BY <1>2
  <2>2. g \in [1 .. m + 1 -> 1 .. n + 1]
    BY <1>3, <2>1
  <2>3. ASSUME NEW i \in 1 .. m + 1, NEW j \in 1 .. m + 1, i < j
        PROVE  g[i] < g[j]
    <3>1. i <= m /\ i \in 1 .. m
      BY <1>2, <2>3
    <3>2. CASE j <= m
      BY <1>4, <2>1, <2>3, <3>1, <3>2
    <3>3. CASE ~ (j <= m)
      <4>1. f[i] < n + 1
        BY <1>3, <3>1
      <4> QED BY <3>1, <3>3, <4>1
    <3> QED BY <3>2, <3>3
  <2>4. ASSUME NEW i \in 1 .. m + 1 PROVE c[i].key = t[g[i]].key
    <3>1. CASE i <= m
      BY <1>4, <1>6, <2>1, <3>1
    <3>2. CASE ~ (i <= m)
      <4>1. i = m + 1
        BY <1>2, <3>2
      <4> QED BY <1>6, <3>2, <4>1
    <3> QED BY <3>1, <3>2
  <2> HIDE DEF g
  <2>5. \E h \in [1 .. Len(c) -> 1 .. n + 1] :
          /\ \A i, j \in 1 .. Len(c) : i < j => h[i] < h[j]
          /\ \A i \in 1 .. Len(c) : c[i].key = t[h[i]].key
    BY <1>6, <2>2, <2>3, <2>4
  <2> QED BY <1>1, <1>3, <1>7, <2>5, WithinIsMap
<1>9. KeysWithin(b, t, n + 1)
  <2>1. f \in [1 .. m -> 1 .. n + 1]
    BY <1>3
  <2>2. \E h \in [1 .. Len(b) -> 1 .. n + 1] :
          /\ \A i, j \in 1 .. Len(b) : i < j => h[i] < h[j]
          /\ \A i \in 1 .. Len(b) : b[i].key = t[h[i]].key
    BY <1>4, <2>1 DEF m
  <2> QED BY <1>1, <1>3, <2>2, WithinIsMap
<1> QED BY <1>5, <1>8, <1>9 DEF c

\* The keys of a table are those of another that were walked, in order.
KeysWalked(b, t, n) == KeySeq(b) = KeySeq(SubSeq(t, 1, n))

LEMMA WalkedIsKeys ==
  ASSUME NEW E, NEW F, NEW t \in Seq(E), NEW n \in 0 .. Len(t), NEW b \in Seq(F)
  PROVE  KeysWalked(b, t, n) <=> Len(b) = n /\ \A i \in 1 .. n : b[i].key = t[i].key
<1> DEFINE w == SubSeq(t, 1, n)
<1>1. w \in Seq(E) /\ DOMAIN w = 1 .. n /\ Len(w) = n /\ \A j \in 1 .. n : w[j] = t[j]
  BY WalkedFacts
<1>2. DOMAIN b = 1 .. Len(b) /\ Len(b) \in Nat
  BY Positions
<1> HIDE DEF w
<1>3. KeySeq(b) = [i \in 1 .. Len(b) |-> b[i].key]
  BY <1>2 DEF KeySeq
<1>4. KeySeq(w) = [i \in 1 .. n |-> t[i].key]
  BY <1>1 DEF KeySeq
<1>5. n \in Nat
  BY Positions
<1>6. ASSUME KeySeq(b) = KeySeq(w)
      PROVE  Len(b) = n /\ \A i \in 1 .. n : b[i].key = t[i].key
  <2>1. 1 .. Len(b) = 1 .. n
    BY <1>3, <1>4, <1>6
  <2>2. Len(b) = n
    <3>1. PICK m \in Nat : m = Len(b)
      BY <1>2
    <3>2. \A i \in Nat \ {0} : i <= m <=> i <= n
      <4>1. \A i \in Nat \ {0} : i \in 1 .. m <=> i \in 1 .. n
        BY <2>1, <3>1
      <4>2. \A i \in Nat \ {0} : (i \in 1 .. m <=> i <= m) /\ (i \in 1 .. n <=> i <= n)
        BY <1>5
      <4> QED BY <4>1, <4>2
    <3>3. m # 0 => m <= n
      BY <3>2
    <3>4. n # 0 => n <= m
      BY <1>5, <3>2
    <3> QED BY <1>5, <3>1, <3>3, <3>4
  <2>3. \A i \in 1 .. n : KeySeq(b)[i] = b[i].key /\ KeySeq(w)[i] = t[i].key
    BY <1>3, <1>4, <2>2
  <2> QED BY <1>6, <2>2, <2>3
<1>7. ASSUME Len(b) = n, \A i \in 1 .. n : b[i].key = t[i].key
      PROVE  KeySeq(b) = KeySeq(w)
  BY <1>3, <1>4, <1>7
<1> QED BY <1>6, <1>7 DEF KeysWalked, w

LEMMA MapStep ==
  ASSUME NEW sort, NEW t, Sound(sort, t), NEW n \in 0 .. Len(t) - 1,
         NEW b, Sound(sort, b), KeysWalked(b, t, n),
         NEW e \in EntryOfKind(sort), e.key = t[n + 1].key
  PROVE  e.key \notin KeysOf(b) /\ KeysWalked(Append(b, e), t, n + 1)
<1> DEFINE E == EntryOfKind(sort)
           c == Append(b, e)
<1>1. t \in Seq(E) /\ b \in Seq(E) /\ DistinctKeys(t)
  BY DEF Sound
<1>2. /\ Len(t) \in Nat /\ DOMAIN t = 1 .. Len(t)
      /\ Len(b) \in Nat /\ DOMAIN b = 1 .. Len(b)
  BY <1>1, Positions
<1>3. n \in Nat /\ n \in 0 .. Len(t) /\ n + 1 \in 0 .. Len(t) /\ n + 1 \in DOMAIN t
  BY <1>2
<1> HIDE DEF E
<1>4. Len(b) = n /\ \A i \in 1 .. n : b[i].key = t[i].key
  BY <1>1, <1>3, WalkedIsKeys
<1>5. e.key \notin KeysOf(b)
  <2>1. ASSUME NEW i \in 1 .. n PROVE b[i].key # t[n + 1].key
    <3>1. i \in DOMAIN t /\ i # n + 1
      BY <1>2, <1>3
    <3> QED BY <1>1, <1>3, <1>4, <3>1 DEF DistinctKeys
  <2> QED BY <1>2, <1>4, <2>1 DEF KeysOf
<1>6. /\ Sound(sort, c) /\ Len(c) = Len(b) + 1
      /\ \A i \in 1 .. Len(b) : c[i] = b[i]
      /\ c[Len(b) + 1] = e
  BY <1>5, SoundAppend
<1>7. c \in Seq(E)
  BY <1>6 DEF Sound, E
<1> HIDE DEF c
<1>8. ASSUME NEW i \in 1 .. n + 1 PROVE c[i].key = t[i].key
  <2>1. i \in 1 .. n \/ i = n + 1
    BY <1>3
  <2> QED BY <1>4, <1>6, <2>1
<1>9. KeysWalked(c, t, n + 1)
  BY <1>1, <1>3, <1>4, <1>6, <1>7, <1>8, WalkedIsKeys
<1> QED BY <1>5, <1>9 DEF c

\* What is read back is what was written so far.
LEMMA UnserializeStep ==
  ASSUME NEW sort, NEW t, Sound(sort, t), NEW n \in 0 .. Len(t) - 1
  PROVE  Put(SubSeq(t, 1, n), t[n + 1]) = SubSeq(t, 1, n + 1)
<1> DEFINE E == EntryOfKind(sort)
           w == SubSeq(t, 1, n)
<1>1. t \in Seq(E) /\ DistinctKeys(t)
  BY DEF Sound
<1>2. /\ Len(t) \in Nat /\ DOMAIN t = 1 .. Len(t) /\ \A i \in DOMAIN t : t[i] \in E
  BY <1>1, Positions
<1>3. /\ n \in Nat /\ n \in 0 .. Len(t) /\ n + 1 \in 0 .. Len(t)
      /\ n + 1 \in DOMAIN t /\ t[n + 1] \in E
  BY <1>2
<1> HIDE DEF E
<1>4. /\ w \in Seq(E) /\ Len(w) = n /\ DOMAIN w = 1 .. n
      /\ \A j \in 1 .. n : w[j] = t[j] /\ j \in DOMAIN t
  BY <1>1, <1>3, WalkedFacts
<1> HIDE DEF w
<1>5. t[n + 1].key \notin KeysOf(w)
  <2>1. ASSUME NEW i \in 1 .. n PROVE w[i].key # t[n + 1].key
    <3>1. i # n + 1
      BY <1>3
    <3> QED BY <1>1, <1>3, <1>4, <3>1 DEF DistinctKeys
  <2> QED BY <1>4, <2>1 DEF KeysOf
<1>6. Put(w, t[n + 1]) = Append(w, t[n + 1])
  BY <1>5 DEF Put
<1>7. Append(w, t[n + 1]) = [j \in 1 .. n + 1 |-> t[j]]
  BY <1>3, <1>4
<1>8. SubSeq(t, 1, n + 1) = [j \in 1 .. n + 1 |-> t[j]]
  BY <1>1, <1>2, <1>3
<1> QED BY <1>6, <1>7, <1>8 DEF w

\* What a method has built of the n entries of t that it has walked.
Follows(op, sort, b, t, n) ==
  /\ op = "unserialize" => b = SubSeq(t, 1, n)
  /\ op = "filter" => KeysWithin(b, t, n)
  /\ op = "map" => IF sort = "map" THEN KeysWalked(b, t, n) ELSE Len(b) <= n

LEMMA FollowsNow ==
  ASSUME call.op \in Walks, BuiltFollowsSource
  PROVE  Follows(call.op, kind[call.on], call.built, entries[call.on], call.at)
BY DEF BuiltFollowsSource, Follows, KeysWithin, KeysWalked

LEMMA FollowsThen ==
  ASSUME call'.op \in Walks, fault' = "none",
         Follows(call'.op, kind'[call'.on], call'.built, entries'[call'.on], call'.at)
  PROVE  BuiltFollowsSource'
BY DEF BuiltFollowsSource, Follows, KeysWithin, KeysWalked

\* A step of a walk.
LEMMA WalkKeeps ==
  ASSUME SoundInv, NEW op \in Walks, Walking(op), NEW b, WalkOn(b),
         Sound(kind[call.on], b),
         Follows(op, kind[call.on], b, entries[call.on], call.at + 1)
  PROVE  SoundInv'
<1>1. fault = "none" /\ call.op = op /\ call.at < Len(entries[call.on]) /\ op \in Ops
  BY DEF Walking, Busy, Ops
<1>2. /\ call \in [op : Ops, on : Variable, at : Nat,
                   built : Seq(EntryOfKind(kind[call.on]))]
      /\ Sound(kind[call.on], entries[call.on])
  BY <1>1, UnderWay
<1>3. /\ call' = [call EXCEPT !.at = call.at + 1, !.built = b]
      /\ entries' = entries /\ kind' = kind /\ fault' = fault
  BY DEF WalkOn
<1>4. /\ call'.op = op /\ call'.on = call.on /\ call'.at = call.at + 1 /\ call'.built = b
      /\ call' = [op |-> op, on |-> call.on, at |-> call.at + 1, built |-> b]
  BY <1>1, <1>2, <1>3
<1>5. call' \in [op : Ops, on : Variable, at : Nat,
                 built : Seq(EntryOfKind(kind'[call'.on]))]
  <2>1. call.on \in Variable /\ call.at + 1 \in Nat
    BY <1>2
  <2>2. b \in Seq(EntryOfKind(kind'[call'.on]))
    BY <1>3, <1>4 DEF Sound
  <2> QED BY <1>1, <1>4, <2>1, <2>2
<1>6. Typed'
  BY <1>1, <1>3, <1>5 DEF SoundInv, Typed
<1>7. KeysDistinct'
  BY <1>3, <1>4 DEF SoundInv, KeysDistinct, Sound
<1>8. BuiltFollowsSource'
  BY <1>1, <1>3, <1>4, FollowsThen
<1>9. WalkWithin'
  <2>1. Len(entries[call.on]) \in Nat
    BY <1>2, Positions DEF Sound
  <2> QED BY <1>1, <1>2, <1>3, <1>4, <2>1 DEF WalkWithin
<1> QED BY <1>6, <1>7, <1>8, <1>9 DEF SoundInv

\* A walk that is at an entry, and what it has built.
LEMMA WalkingFacts ==
  ASSUME SoundInv, NEW op \in Walks, Walking(op)
  PROVE  /\ Sound(kind[call.on], entries[call.on]) /\ Sound(kind[call.on], call.built)
         /\ kind[call.on] \in {"map", "set"} /\ call.op = op
         /\ call.at \in 0 .. Len(entries[call.on]) - 1
         /\ Current \in EntryOfKind(kind[call.on])
         /\ Current = entries[call.on][call.at + 1]
         /\ Follows(op, kind[call.on], call.built, entries[call.on], call.at)
<1>1. call.op = op /\ call.at < Len(entries[call.on]) /\ op \in Ops
  BY DEF Walking, Busy, Ops
<1>2. /\ call \in [op : Ops, on : Variable, at : Nat,
                   built : Seq(EntryOfKind(kind[call.on]))]
      /\ Sound(kind[call.on], call.built) /\ Sound(kind[call.on], entries[call.on])
      /\ kind[call.on] \in {"map", "set"}
  BY <1>1, UnderWay
<1>3. PICK t \in Seq(EntryOfKind(kind[call.on])) : t = entries[call.on]
  BY <1>2 DEF Sound
<1>4. /\ Len(t) \in Nat /\ DOMAIN t = 1 .. Len(t)
      /\ \A i \in DOMAIN t : t[i] \in EntryOfKind(kind[call.on])
  BY Positions
<1>5. call.at \in 0 .. Len(t) - 1 /\ call.at + 1 \in DOMAIN t
  BY <1>1, <1>2, <1>3, <1>4
<1>6. Follows(op, kind[call.on], call.built, entries[call.on], call.at)
  BY <1>1, FollowsNow DEF SoundInv
<1> QED BY <1>1, <1>2, <1>3, <1>4, <1>5, <1>6 DEF Current

LEMMA MapNextKeeps ==
  ASSUME SoundInv, NEW k \in Key, NEW v \in Value, MapNext(k, v)
  PROVE  SoundInv'
<1> DEFINE t == entries[call.on]
           b == call.built
           n == call.at
           sort == kind[call.on]
<1>0. "map" \in Walks /\ Walking("map")
  BY DEF MapNext, Walks
<1>1. /\ Sound(sort, t) /\ Sound(sort, b) /\ sort \in {"map", "set"}
      /\ n \in 0 .. Len(t) - 1 /\ Current \in EntryOfKind(sort) /\ Current = t[n + 1]
      /\ Follows("map", sort, b, t, n)
  BY <1>0, WalkingFacts
<1>2. WalkOn(IF sort = "map" THEN Append(b, [key |-> Current.key, value |-> v])
                             ELSE AddMapped(b, k))
  BY DEF MapNext
<1>3. CASE sort = "map"
  <2> DEFINE e == [key |-> Current.key, value |-> v]
  <2>1. WalkOn(Append(b, e))
    BY <1>2, <1>3
  <2>2. e \in EntryOfKind(sort) /\ e.key = t[n + 1].key
    BY <1>1, <1>3 DEF EntryOfKind
  <2>3. KeysWalked(b, t, n)
    BY <1>1, <1>3 DEF Follows
  <2> HIDE DEF e, t, b, n, sort
  <2>4. e.key \notin KeysOf(b) /\ KeysWalked(Append(b, e), t, n + 1)
    BY <1>1, <2>2, <2>3, MapStep
  <2>5. Sound(sort, Append(b, e))
    BY <1>1, <2>2, <2>4, SoundAppend
  <2>6. Follows("map", sort, Append(b, e), t, n + 1)
    BY <1>3, <2>4 DEF Follows
  <2> QED BY <1>0, <2>1, <2>5, <2>6, WalkKeeps DEF t, n, sort
<1>4. CASE sort = "set"
  <2> DEFINE e == EntryOf("set", k, NoValue)
  <2>1. WalkOn(Put(b, e))
    BY <1>2, <1>4 DEF AddMapped
  <2>2. e \in EntryOfKind(sort)
    BY <1>4, EntryType
  <2>3. Len(b) <= n
    BY <1>1, <1>4 DEF Follows
  <2> HIDE DEF e, t, b, n, sort
  <2>4. Sound(sort, Put(b, e))
    BY <1>1, <2>2, SoundPut
  <2>5. Len(Put(b, e)) <= Len(b) + 1
    BY <1>1, <2>2, PutFacts DEF Sound
  <2>6. Len(Put(b, e)) \in Nat /\ Len(b) \in Nat /\ n \in Nat
    <3>1. Len(Put(b, e)) \in Nat
      BY <2>4, Positions DEF Sound
    <3>2. Len(b) \in Nat
      BY <1>1, Positions DEF Sound
    <3>3. Len(t) \in Nat
      BY <1>1, Positions DEF Sound
    <3> QED BY <1>1, <3>1, <3>2, <3>3
  <2>7. Len(Put(b, e)) <= n + 1
    BY <2>3, <2>5, <2>6
  <2>8. Follows("map", sort, Put(b, e), t, n + 1)
    BY <1>4, <2>7 DEF Follows
  <2> QED BY <1>0, <2>1, <2>4, <2>8, WalkKeeps DEF t, n, sort
<1> QED BY <1>1, <1>3, <1>4

LEMMA FilterNextKeeps ==
  ASSUME SoundInv, NEW answer \in BOOLEAN, FilterNext(answer)
  PROVE  SoundInv'
<1> DEFINE t == entries[call.on]
           b == call.built
           n == call.at
           sort == kind[call.on]
           c == IF answer THEN Append(b, Current) ELSE b
<1>0. "filter" \in Walks /\ Walking("filter") /\ WalkOn(c)
  BY DEF FilterNext, Walks
<1>1. /\ Sound(sort, t) /\ Sound(sort, b)
      /\ n \in 0 .. Len(t) - 1 /\ Current \in EntryOfKind(sort) /\ Current = t[n + 1]
      /\ Follows("filter", sort, b, t, n)
  BY <1>0, WalkingFacts
<1>2. KeysWithin(b, t, n)
  BY <1>1 DEF Follows
<1>3. c = Append(b, t[n + 1]) \/ c = b
  BY <1>1
<1> HIDE DEF t, b, n, sort, c
<1>4. /\ t[n + 1].key \notin KeysOf(b)
      /\ KeysWithin(Append(b, t[n + 1]), t, n + 1) /\ KeysWithin(b, t, n + 1)
  BY <1>1, <1>2, FilterStep
<1>5. Sound(sort, Append(b, t[n + 1]))
  BY <1>1, <1>4, SoundAppend
<1>6. Sound(sort, c) /\ Follows("filter", sort, c, t, n + 1)
  BY <1>1, <1>3, <1>4, <1>5 DEF Follows
<1> QED BY <1>0, <1>6, WalkKeeps DEF t, n, sort

LEMMA UnserializeNextKeeps ==
  ASSUME SoundInv, UnserializeNext
  PROVE  SoundInv'
<1> DEFINE t == entries[call.on]
           b == call.built
           n == call.at
           sort == kind[call.on]
           c == Put(b, Current)
<1>0. "unserialize" \in Walks /\ Walking("unserialize") /\ WalkOn(c)
  BY DEF UnserializeNext, Walks
<1>1. /\ Sound(sort, t) /\ Sound(sort, b)
      /\ n \in 0 .. Len(t) - 1 /\ Current \in EntryOfKind(sort) /\ Current = t[n + 1]
      /\ Follows("unserialize", sort, b, t, n)
  BY <1>0, WalkingFacts
<1>2. b = SubSeq(t, 1, n)
  BY <1>1 DEF Follows
<1>3. Sound(sort, c)
  BY <1>1, SoundPut
<1>4. c = Put(SubSeq(t, 1, n), t[n + 1])
  BY <1>1, <1>2
<1> HIDE DEF t, b, n, sort, c
<1>5. c = SubSeq(t, 1, n + 1)
  BY <1>1, <1>4, UnserializeStep
<1>6. Follows("unserialize", sort, c, t, n + 1)
  BY <1>5 DEF Follows
<1> QED BY <1>0, <1>3, <1>6, WalkKeeps DEF t, n, sort

\* A method that begins has walked nothing and built nothing but a clone.
LEMMA NothingWalked ==
  ASSUME NEW E, NEW t \in Seq(E), NEW op, NEW sort
  PROVE  Follows(op, sort, << >>, t, 0)
<1>1. Len(t) \in Nat /\ 0 \in 0 .. Len(t)
  BY Positions
<1>2. << >> \in Seq(E) /\ Len(<< >>) = 0
  BY NoEntries
<1>3. SubSeq(t, 1, 0) = << >>
  <2>1. SubSeq(t, 1, 0) \in Seq(E) /\ Len(SubSeq(t, 1, 0)) = 0
    BY <1>1, WalkedFacts
  <2> QED BY <2>1, EmptySeq
<1>4. KeysWithin(<< >>, t, 0)
  <2>1. PICK b \in Seq(E) : b = << >> /\ Len(b) = 0
    BY <1>2
  <2>2. PICK f : f = [i \in 1 .. 0 |-> 0]
    OBVIOUS
  <2>3. f \in [1 .. Len(b) -> 1 .. 0] /\ \A i \in 1 .. Len(b) : FALSE
    BY <2>1, <2>2
  <2>4. \E h \in [1 .. Len(b) -> 1 .. 0] :
          /\ \A i, j \in 1 .. Len(b) : i < j => h[i] < h[j]
          /\ \A i \in 1 .. Len(b) : b[i].key = t[h[i]].key
    BY <2>3
  <2>5. KeysWithin(b, t, 0)
    BY ONLY t \in Seq(E), b \in Seq(E), <1>1, <2>4, WithinIsMap
  <2> QED BY <2>1, <2>5
<1>5. KeysWalked(<< >>, t, 0)
  BY <1>3 DEF KeysWalked
<1> QED BY <1>2, <1>3, <1>4, <1>5 DEF Follows

LEMMA BeginKeeps ==
  ASSUME SoundInv, NEW x \in Variable, NEW op \in Ops, Begin(op, x)
  PROVE  SoundInv'
<1>1. Sound(kind[x], entries[x]) /\ kind[x] \in {"map", "set"}
  BY Collection
<1>2. /\ fault = "none" /\ call' = [op |-> op, on |-> x, at |-> 0, built |-> StartsFrom(op, x)]
      /\ entries' = entries /\ kind' = kind /\ fault' = fault
  BY DEF Begin
<1>3. /\ call'.op = op /\ call'.on = x /\ call'.at = 0
      /\ call'.built = StartsFrom(op, x)
  BY <1>2
<1>4. Sound(kind[x], StartsFrom(op, x))
  BY <1>1, SoundNone DEF StartsFrom
<1>5. call' \in [op : Ops, on : Variable, at : Nat,
                 built : Seq(EntryOfKind(kind'[call'.on]))]
  BY <1>2, <1>3, <1>4 DEF Sound
<1>6. Typed'
  BY <1>2, <1>5 DEF SoundInv, Typed
<1>7. KeysDistinct'
  BY <1>2, <1>3, <1>4 DEF SoundInv, KeysDistinct, Sound
<1>8. CASE op \in Walks
  <2>1. StartsFrom(op, x) = << >>
    BY <1>8 DEF StartsFrom, Walks
  <2>2. entries[x] \in Seq(EntryOfKind(kind[x]))
    BY <1>1 DEF Sound
  <2>3. Follows(op, kind[x], << >>, entries[x], 0)
    BY <2>2, NothingWalked
  <2>4. BuiltFollowsSource'
    <3>1. call'.op \in Walks /\ fault' = "none"
      BY <1>2, <1>3, <1>8
    <3>2. Follows(call'.op, kind'[call'.on], call'.built, entries'[call'.on], call'.at)
      BY <1>2, <1>3, <2>1, <2>3
    <3> QED BY <3>1, <3>2, FollowsThen
  <2>5. 0 <= Len(entries[x])
    BY <2>2, Positions
  <2>6. WalkWithin'
    BY <1>2, <1>3, <2>5 DEF WalkWithin
  <2> QED BY <1>6, <1>7, <2>4, <2>6 DEF SoundInv
<1>9. CASE op \notin Walks
  <2>1. BuiltFollowsSource' /\ WalkWithin'
    BY <1>2, <1>3, <1>9 DEF BuiltFollowsSource, WalkWithin
  <2> QED BY <1>6, <1>7, <2>1 DEF SoundInv
<1> QED BY <1>8, <1>9

LEMMA PutNextKeeps ==
  ASSUME SoundInv, NEW k \in Key, NEW v \in Value, PutNext(k, v)
  PROVE  SoundInv'
<1> DEFINE x == call.on
           e == EntryOf(kind[x], k, v)
<1>1. /\ fault = "none" /\ call.op \in {"putAll", "merge"}
      /\ kind' = kind /\ fault' = fault
  BY DEF PutNext, Busy
<1>2. call.op \in Ops /\ call.op \notin Walks
  BY <1>1 DEF Ops, Walks
<1>3. /\ call \in [op : Ops, on : Variable, at : Nat, built : Seq(EntryOfKind(kind[x]))]
      /\ Sound(kind[x], call.built) /\ Sound(kind[x], entries[x])
      /\ kind[x] \in {"map", "set"}
  BY <1>2, UnderWay
<1>4. e \in EntryOfKind(kind[x])
  BY <1>3, EntryType
<1>5. CASE /\ entries' = [entries EXCEPT ![x] = Put(entries[x], e)]
           /\ call' = [call EXCEPT !.at = call.at + 1]
  <2> HIDE DEF e
  <2>1. Sound(kind[x], Put(entries[x], e))
    BY <1>3, <1>4, SoundPut
  <2>2. /\ DOMAIN entries' = Variable
        /\ \A y \in Variable : entries'[y] = IF y = x THEN Put(entries[x], e) ELSE entries[y]
    BY <1>3, <1>5 DEF SoundInv, Typed
  <2>3. /\ call'.op = call.op /\ call'.on = x /\ call'.built = call.built
        /\ call' \in [op : Ops, on : Variable, at : Nat, built : Seq(EntryOfKind(kind[x]))]
    BY <1>3, <1>5
  <2>4. \A y \in Variable : entries'[y] \in Seq(EntryOfKind(kind'[y]))
    BY <1>1, <2>1, <2>2 DEF SoundInv, Typed, Sound
  <2>5. Typed'
    <3>1. call' \in [op : Ops, on : Variable, at : Nat,
                     built : Seq(EntryOfKind(kind'[call'.on]))]
      BY <1>1, <2>3
    <3> QED BY <1>1, <2>2, <2>4, <3>1 DEF SoundInv, Typed
  <2>6. KeysDistinct'
    BY <2>1, <2>2, <2>3 DEF SoundInv, KeysDistinct, Sound
  <2>7. BuiltFollowsSource' /\ WalkWithin'
    BY <1>1, <1>2, <2>3 DEF BuiltFollowsSource, WalkWithin
  <2> QED BY <2>5, <2>6, <2>7 DEF SoundInv
<1>6. CASE /\ call' = [call EXCEPT !.at = call.at + 1, !.built = Put(call.built, e)]
           /\ entries' = entries
  <2> HIDE DEF e
  <2>1. Sound(kind[x], Put(call.built, e))
    BY <1>3, <1>4, SoundPut
  <2>2. PICK b \in Seq(EntryOfKind(kind[x])) : b = Put(call.built, e)
    BY <2>1 DEF Sound
  <2>3. /\ call'.op = call.op /\ call'.on = x /\ call'.built = b
        /\ call' \in [op : Ops, on : Variable, at : Nat, built : Seq(EntryOfKind(kind[x]))]
    <3>1. PICK S : S = Seq(EntryOfKind(kind[x]))
      OBVIOUS
    <3>2. PICK n \in Nat : n = call.at + 1
      BY <1>3
    <3>3. call \in [op : Ops, on : Variable, at : Nat, built : S] /\ b \in S
      BY <1>3, <3>1
    <3>4. call' = [call EXCEPT !.at = n, !.built = b]
      BY <1>6, <2>2, <3>2
    <3>5. /\ call'.op = call.op /\ call'.on = call.on /\ call'.built = b
          /\ call' \in [op : Ops, on : Variable, at : Nat, built : S]
      BY ONLY <3>3, <3>4, n \in Nat
    <3> QED BY <3>1, <3>5
  <2>4. Typed'
    <3>1. call' \in [op : Ops, on : Variable, at : Nat,
                     built : Seq(EntryOfKind(kind'[call'.on]))]
      BY <1>1, <2>3
    <3> QED BY <1>1, <1>6, <3>1 DEF SoundInv, Typed
  <2>5. KeysDistinct'
    BY <1>6, <2>1, <2>2, <2>3 DEF SoundInv, KeysDistinct, Sound
  <2>6. BuiltFollowsSource' /\ WalkWithin'
    BY <1>1, <1>2, <2>3 DEF BuiltFollowsSource, WalkWithin
  <2> QED BY <2>4, <2>5, <2>6 DEF SoundInv
<1> HIDE DEF e
<1>7. \/ /\ entries' = [entries EXCEPT ![x] = Put(entries[x], e)]
         /\ call' = [call EXCEPT !.at = call.at + 1]
      \/ /\ call' = [call EXCEPT !.at = call.at + 1, !.built = Put(call.built, e)]
         /\ entries' = entries
  BY <1>3 DEF PutNext, e
<1> QED BY <1>5, <1>6, <1>7

LEMMA ReturnKeeps ==
  ASSUME SoundInv, NEW x \in Variable, Return(x)
  PROVE  SoundInv'
<1>1. call # NoCall /\ fault = "none" /\ call' = NoCall /\ fault' = fault
  BY DEF Return
<1>2. CASE call.op = "putAll"
  <2>1. entries' = entries /\ kind' = kind
    BY <1>2 DEF Return
  <2> QED BY <1>1, <2>1, EndKeeps
<1>3. CASE call.op # "putAll"
  <2>1. /\ entries' = [entries EXCEPT ![x] = call.built]
        /\ kind' = [kind EXCEPT ![x] = kind[call.on]]
    BY <1>3 DEF Return
  <2>2. call \in [op : Ops, on : Variable, at : Nat,
                  built : Seq(EntryOfKind(kind[call.on]))]
    BY <1>1 DEF SoundInv, Typed
  <2>3. PICK sort \in {"map", "set"} : sort = kind[call.on]
    BY <2>2 DEF SoundInv, Typed
  <2>4. PICK b : b = call.built
    OBVIOUS
  <2>5. Sound(sort, b)
    BY <2>2, <2>3, <2>4 DEF Sound, SoundInv, KeysDistinct
  <2>6. /\ DOMAIN entries' = Variable /\ kind' \in [Variable -> {"map", "set"}]
        /\ \A y \in Variable : /\ entries'[y] = IF y = x THEN b ELSE entries[y]
                               /\ kind'[y] = IF y = x THEN sort ELSE kind[y]
    BY <2>1, <2>3, <2>4 DEF SoundInv, Typed
  <2>7. Typed'
    <3>1. \A y \in Variable : entries'[y] \in Seq(EntryOfKind(kind'[y]))
      BY <2>5, <2>6 DEF SoundInv, Typed, Sound
    <3> QED BY <1>1, <2>6, <3>1 DEF Typed
  <2>8. KeysDistinct'
    <3>1. \A y \in Variable : DistinctKeys(entries'[y])
      BY <2>5, <2>6 DEF SoundInv, KeysDistinct, Sound
    <3>2. DistinctKeys(call'.built)
      BY <1>1, NoEntries DEF NoCall
    <3> QED BY <3>1, <3>2 DEF KeysDistinct
  <2>9. BuiltFollowsSource' /\ WalkWithin'
    <3>1. call'.op \notin Walks /\ fault' = "none"
      BY <1>1 DEF NoCall, Walks
    <3> QED BY <3>1 DEF BuiltFollowsSource, WalkWithin
  <2> QED BY <2>7, <2>8, <2>9 DEF SoundInv
<1> QED BY <1>2, <1>3

LEMMA FailKeeps ==
  ASSUME SoundInv, UnserializeFails
  PROVE  SoundInv'
<1>1. fault = "none" /\ call.op = "unserialize" /\ call.op \in Walks
  BY DEF UnserializeFails, Busy, Walks
<1>2. CASE kind[call.on] = "set"
  <2>1. fault' = "freed" /\ entries' = entries /\ kind' = kind /\ call' = call
    BY <1>2 DEF UnserializeFails
  <2>2. Typed' /\ KeysDistinct'
    BY <2>1 DEF SoundInv, Typed, KeysDistinct
  <2>3. BuiltFollowsSource'
    BY <1>1, <1>2, <2>1 DEF SoundInv, BuiltFollowsSource
  <2>4. WalkWithin'
    BY <1>1, <2>1 DEF SoundInv, WalkWithin
  <2> QED BY <2>2, <2>3, <2>4 DEF SoundInv
<1>3. CASE kind[call.on] # "set"
  <2>1. call' = NoCall /\ UNCHANGED <<entries, kind, fault>>
    BY <1>3 DEF UnserializeFails
  <2> QED BY <1>1, <2>1, EndKeeps
<1> QED BY <1>2, <1>3

\* A table that gets an entry without a key has no key twice.
LEMMA AppendKeyless ==
  ASSUME NEW E, NEW t \in Seq(E), DistinctKeys(t), NEW e, NEW F,
         E \subseteq F, e \in F, \A d \in E : d.key # e.key
  PROVE  /\ Append(t, e) \in Seq(F) /\ DistinctKeys(Append(t, e))
         /\ Len(Append(t, e)) = Len(t) + 1 /\ Append(t, e)[Len(t) + 1] = e
         /\ SubSeq(Append(t, e), 1, Len(t)) = t
<1>1. Len(t) \in Nat /\ DOMAIN t = 1 .. Len(t) /\ \A i \in DOMAIN t : t[i] \in E
  BY Positions
<1>2. t \in Seq(F)
  BY <1>1
<1>3. PICK u \in Seq(F) : u = Append(t, e)
  <2>1. Append(t, e) \in Seq(F)
    BY <1>2
  <2> QED BY <2>1
<1>4. /\ Len(u) = Len(t) + 1 /\ DOMAIN u = 1 .. Len(t) + 1 /\ u[Len(t) + 1] = e
      /\ \A i \in 1 .. Len(t) : u[i] = t[i]
  BY <1>1, <1>2, <1>3
<1>5. DistinctKeys(u)
  <2>1. ASSUME NEW i \in DOMAIN u, NEW j \in DOMAIN u, u[i].key = u[j].key PROVE i = j
    <3>1. CASE i \in DOMAIN t /\ j \in DOMAIN t
      BY <1>1, <1>4, <2>1, <3>1 DEF DistinctKeys
    <3>2. CASE i \notin DOMAIN t /\ j \notin DOMAIN t
      BY <1>1, <1>4, <3>2
    <3>3. \A m \in DOMAIN t : u[m].key # e.key
      BY <1>1, <1>4
    <3>4. \A m \in DOMAIN u : m \notin DOMAIN t => u[m].key = e.key
      BY <1>1, <1>4
    <3> QED BY <2>1, <3>1, <3>2, <3>3, <3>4
  <2> QED BY <2>1 DEF DistinctKeys
<1>6. SubSeq(u, 1, Len(t)) = t
  BY <1>1, <1>2, <1>4
<1> QED BY <1>3, <1>4, <1>5, <1>6

\* The entry without a key is the last of its collection, the others are untouched.
LEMMA YieldThrowsKeeps ==
  ASSUME SoundInv, NEW v \in Value \union {NoValue}, YieldThrows(v)
  PROVE  IInv'
<1>1. call' = NoCall /\ kind' = kind
  BY DEF YieldThrows
<1>2. CASE Busy("merge") /\ UNCHANGED <<entries, fault>>
  BY <1>1, <1>2, EndKeeps DEF Busy, IInv
<1>3. CASE /\ Busy("putAll") /\ fault' = "keyless"
           /\ entries' = [entries EXCEPT
                ![call.on] = Append(@, EntryOf(kind[call.on], NoKey, v))]
  <2>1. PICK x \in Variable : x = call.on /\ Sound(kind[x], entries[x]) /\ kind[x] \in {"map", "set"}
    BY <1>3, UnderWay DEF Busy, Ops
  <2> DEFINE E == EntryOfKind(kind[x])
             F == [key : Key \union {NoKey}, value : Value \union {NoValue}]
  <2>2. PICK t \in Seq(E) : t = entries[x] /\ DistinctKeys(t)
    BY <2>1 DEF Sound
  <2>3. PICK e : e = EntryOf(kind[x], NoKey, v)
    OBVIOUS
  <2>4. PICK u : u = Append(t, e)
    OBVIOUS
  <2>5. e \in F /\ e.key = NoKey /\ E \subseteq F /\ \A d \in E : d.key # NoKey
    BY <2>1, <2>3, NoKeyAssumption DEF EntryOf, EntryOfKind
  <2>6. /\ DOMAIN entries' = Variable
        /\ \A y \in Variable : entries'[y] = IF y = x THEN u ELSE entries[y]
    BY <1>3, <2>1, <2>2, <2>3, <2>4 DEF SoundInv, Typed
  <2>7. kind' \in [Variable -> {"map", "set"}] /\ kind'[x] = kind[x]
    BY <1>1 DEF SoundInv, Typed
  <2>8. Len(t) \in Nat
    BY Positions
  <2> HIDE DEF E, F
  <2>9. /\ u \in Seq(F) /\ DistinctKeys(u) /\ Len(u) = Len(t) + 1 /\ u[Len(t) + 1] = e
        /\ SubSeq(u, 1, Len(t)) = t
    BY <2>2, <2>4, <2>5, AppendKeyless
  <2>10. EndsKeyless(x)'
    <3>1. Len(u) - 1 = Len(t) /\ Len(u) > 0 /\ u[Len(u)] = e
      BY <2>8, <2>9
    <3>2. entries'[x] = u
      BY <2>6
    <3>3. u[Len(u)].key = NoKey /\ SubSeq(u, 1, Len(u) - 1) \in Seq(EntryOfKind(kind'[x]))
      BY <2>5, <2>7, <2>9, <3>1 DEF E
    <3> QED BY <2>9, <3>1, <3>2, <3>3 DEF EndsKeyless, F
  <2>11. ASSUME NEW y \in Variable \ {x} PROVE OfItsKind(y)'
    <3>1. entries'[y] = entries[y] /\ kind'[y] = kind[y]
      BY <1>1, <2>6
    <3> QED BY <3>1 DEF OfItsKind, SoundInv, Typed
  <2>12. TypeOK'
    BY <1>1, <1>3, <2>6, <2>7, <2>10, <2>11 DEF TypeOK
  <2>13. KeysDistinct'
    <3>1. \A y \in Variable : DistinctKeys(entries'[y])
      BY <2>6, <2>9 DEF SoundInv, KeysDistinct
    <3>2. DistinctKeys(call'.built)
      BY <1>1, NoEntries DEF NoCall
    <3> QED BY <3>1, <3>2 DEF KeysDistinct
  <2> QED BY <1>1, <1>3, <2>12, <2>13 DEF IInv, KeylessInv
<1> QED BY <1>1, <1>2, <1>3 DEF YieldThrows

LEMMA StutterKeeps ==
  ASSUME SoundInv, UNCHANGED vars
  PROVE  SoundInv'
BY DEF SoundInv, Typed, KeysDistinct, BuiltFollowsSource, WalkWithin, vars

LEMMA NextKeeps ==
  ASSUME SoundInv, [Next]_vars
  PROVE  IInv'
<1>1. ASSUME NEW x \in Variable, NEW k \in Key,
             RemoveOne(x, k) \/ Unset(x, k) \/ \E v \in Value : PutOne(x, k, v)
      PROVE  SoundInv'
  BY <1>1, OneEntryKeeps
<1>2. ASSUME NEW x \in Variable, Clear(x) \/ Sort(x) \/ ReverseAll(x) PROVE SoundInv'
  BY <1>2, WholeKeeps
<1>3. ASSUME NEW x \in Variable, NEW a \in PhpArrays, PutArray(x, a) \/ AddArray(x, a)
      PROVE  SoundInv'
  BY <1>3, PutArrayKeeps
<1>4. ASSUME NEW x \in Variable, NEW v \in Value, NEW n, Apply(x, n, v) PROVE SoundInv'
  BY <1>4, ApplyKeeps
<1>5. ASSUME NEW x \in Variable, NEW sort \in {"map", "set"}, New(x, sort) PROVE SoundInv'
  BY <1>5, SoundNone, AssignKeeps DEF New
<1>6. ASSUME NEW x \in Variable, NEW y \in Variable,
             Copy(x, y) \/ Sorted(x, y) \/ Reversed(x, y) \/ Keys(x, y) \/ RoundTrip(x, y)
      PROVE  SoundInv'
  BY <1>6, CopyKeeps
<1>7. ASSUME NEW x \in Variable, NEW y \in Variable, NEW i \in Argument, NEW n \in Argument,
             Slice(x, y, i, n)
      PROVE  SoundInv'
  BY <1>7, SliceKeeps
<1>8. ASSUME NEW x \in Variable, NEW y \in Variable, NEW z \in Variable, Combine(x, y, z)
      PROVE  SoundInv'
  BY <1>8, CombineKeeps
<1>9. ASSUME NEW x \in Variable, Return(x) \/ \E op \in Ops : Begin(op, x) PROVE SoundInv'
  BY <1>9, ReturnKeeps, BeginKeeps
<1>10. ASSUME NEW k \in Key, NEW v \in Value, PutNext(k, v) \/ MapNext(k, v) PROVE SoundInv'
  BY <1>10, PutNextKeeps, MapNextKeeps
<1>11. ASSUME NEW answer \in BOOLEAN, FilterNext(answer) PROVE SoundInv'
  BY <1>11, FilterNextKeeps
<1>12. CASE UnserializeNext \/ UnserializeFails
  BY <1>12, UnserializeNextKeeps, FailKeeps DEF IInv
<1>13. CASE Throw
  BY <1>13, EndKeeps DEF Throw, IInv
<1>14. CASE Stopped \/ UNCHANGED vars
  BY <1>14, StutterKeeps DEF Stopped, IInv
<1>15. ASSUME NEW v \in Value \union {NoValue}, YieldThrows(v) PROVE IInv'
  BY <1>15, YieldThrowsKeeps
<1> QED
  BY <1>1, <1>2, <1>3, <1>4, <1>5, <1>6, <1>7, <1>8, <1>9, <1>10, <1>11, <1>12,
     <1>13, <1>14, <1>15 DEF Next, IInv

\* Nothing follows the fault.
LEMMA NothingFollows ==
  ASSUME fault = "keyless", call = NoCall, [Next]_vars
  PROVE  UNCHANGED vars
<1>1. /\ ~ Open /\ call.op = "none" /\ \A op : ~ Busy(op)
      /\ \A x \in Variable : ~ Assignable(x)
  BY DEF Open, Busy, Assignable, NoCall
<1>2. /\ \A x \in Variable : \A t : ~ Change(x, t)
      /\ \A x \in Variable : \A sort, t : ~ Assign(x, sort, t)
  BY <1>1 DEF Change, Assign
<1>3. ASSUME NEW x \in Variable, NEW k \in Key
      PROVE  ~ (RemoveOne(x, k) \/ Unset(x, k) \/ \E v \in Value : PutOne(x, k, v))
  BY <1>2 DEF RemoveOne, Unset, PutOne
<1>4. ASSUME NEW x \in Variable PROVE ~ (Clear(x) \/ Sort(x) \/ ReverseAll(x))
  BY <1>2 DEF Clear, Sort, ReverseAll
<1>5. ASSUME NEW x \in Variable, NEW a \in PhpArrays PROVE ~ (PutArray(x, a) \/ AddArray(x, a))
  BY <1>2 DEF PutArray, AddArray
<1>6. ASSUME NEW x \in Variable, NEW v, NEW n PROVE ~ Apply(x, n, v)
  BY <1>2 DEF Apply
<1>7. ASSUME NEW x \in Variable, NEW sort PROVE ~ New(x, sort)
  BY <1>2 DEF New
<1>8. ASSUME NEW x \in Variable, NEW y \in Variable
      PROVE  ~ (Copy(x, y) \/ Sorted(x, y) \/ Reversed(x, y) \/ Keys(x, y) \/ RoundTrip(x, y))
  BY <1>2 DEF Copy, Sorted, Reversed, Keys, RoundTrip
<1>9. ASSUME NEW x \in Variable, NEW y \in Variable, NEW i, NEW n PROVE ~ Slice(x, y, i, n)
  BY <1>1, <1>2 DEF Slice
<1>10. ASSUME NEW x \in Variable, NEW y \in Variable, NEW z \in Variable
       PROVE  ~ Combine(x, y, z)
  BY <1>2 DEF Combine
<1>11. ASSUME NEW x \in Variable PROVE ~ (Return(x) \/ \E op \in Ops : Begin(op, x))
  BY DEF Return, Begin
<1>12. ASSUME NEW k, NEW v PROVE ~ (PutNext(k, v) \/ MapNext(k, v))
  BY <1>1 DEF PutNext, MapNext, Walking
<1>13. ASSUME NEW v PROVE ~ YieldThrows(v)
  BY <1>1 DEF YieldThrows
<1>14. ASSUME NEW answer PROVE ~ FilterNext(answer)
  BY <1>1 DEF FilterNext, Walking
<1>15. ~ (UnserializeNext \/ UnserializeFails \/ Throw)
  BY <1>1 DEF UnserializeNext, UnserializeFails, Throw, Walking
<1>16. ASSUME Next PROVE Stopped
  BY <1>3, <1>4, <1>5, <1>6, <1>7, <1>8, <1>9, <1>10, <1>11, <1>12, <1>13, <1>14,
     <1>15, <1>16 DEF Next
<1> QED BY <1>16 DEF Stopped

\* What is left then stays as it is.
LEMMA KeylessStays ==
  ASSUME KeylessInv, UNCHANGED vars
  PROVE  KeylessInv'
BY DEF KeylessInv, TypeOK, KeysDistinct, OfItsKind, EndsKeyless, vars

LEMMA InitHolds ==
  ASSUME Init
  PROVE  SoundInv
<1>1. /\ entries = [x \in Variable |-> << >>] /\ kind \in [Variable -> {"map", "set"}]
      /\ call = NoCall /\ fault = "none"
  BY DEF Init
<1>2. \A x \in Variable : Sound(kind[x], entries[x])
  BY <1>1, SoundNone
<1>3. Typed
  BY <1>1, <1>2 DEF Typed, Sound
<1>4. KeysDistinct
  BY <1>1, <1>2, NoEntries DEF KeysDistinct, Sound, NoCall
<1>5. call.op \notin Walks
  BY <1>1 DEF NoCall, Walks
<1>6. BuiltFollowsSource /\ WalkWithin
  BY <1>1, <1>5 DEF BuiltFollowsSource, WalkWithin
<1> QED BY <1>3, <1>4, <1>6 DEF SoundInv

LEMMA Invariant == Spec => []IInv
<1>1. Init => IInv
  BY InitHolds DEF IInv
<1>2. IInv /\ [Next]_vars => IInv'
  <2>1. ASSUME SoundInv, [Next]_vars PROVE IInv'
    BY <2>1, NextKeeps
  <2>2. ASSUME KeylessInv, [Next]_vars PROVE IInv'
    <3>1. UNCHANGED vars
      BY <2>2, NothingFollows DEF KeylessInv
    <3> QED BY <2>2, <3>1, KeylessStays DEF IInv
  <2> QED BY <2>1, <2>2 DEF IInv
<1> QED BY <1>1, <1>2, PTL DEF Spec

-----------------------------------------------------------------------------
(* What the runs check, for every instance.                                *)

\* Maps hold pairs and sets hold values, also while they are being built
\* (ds_map.h, ds_set.h), and a Traversable whose current() or key() throws leaves one
\* entry without a key at the end of the collection that it was put into, and
\* everything else as it was (ds_map.c:282-292, ds_set.c:68-72).
THEOREM TypeCorrect == Spec => []TypeOK
<1>1. IInv => TypeOK
  BY DEF IInv, SoundInv, KeylessInv, Typed, TypeOK, OfItsKind
<1> QED BY <1>1, Invariant, PTL

\* No collection has a key twice, finished or being built, although the results
\* of the algebra, of slice, map and filter are filled without looking for keys
\* (ds_htable.c:663-676, 878-1050, 1084-1135; ds_set.c:307-420).
THEOREM NoKeyTwice == Spec => []KeysDistinct
<1>1. IInv => KeysDistinct
  BY DEF IInv, SoundInv, KeylessInv
<1> QED BY <1>1, Invariant, PTL

\* What a callback sees built is what its answers say of the entries walked, for
\* every table and every answer (ds_htable.c:974-1050, 1205-1270, ds_set.c:307-420).
THEOREM WalksFollowed == Spec => []BuiltFollowsSource
<1>1. IInv => BuiltFollowsSource
  <2>1. NoCall.op \notin Walks
    BY DEF NoCall, Walks
  <2> QED BY <2>1 DEF IInv, SoundInv, KeylessInv, BuiltFollowsSource
<1> QED BY <1>1, Invariant, PTL

LEMMA AlgebraOfTwo ==
  ASSUME NEW E, NEW t \in Seq(E), NEW F, NEW u \in Seq(F), DistinctKeys(t), DistinctKeys(u)
  PROVE  LET union == Merged(t, u)
         IN  /\ Xor(t, u) = Diff(union, Intersect(t, u))
             /\ KeysOf(Xor(Xor(t, u), u)) = KeysOf(t)
             /\ Diff(t, Diff(t, u)) = Intersect(t, u)
             /\ Intersect(u, union) = u
             /\ \A i \in DOMAIN u : \E j \in DOMAIN union : u[i] = union[j]
<1> DEFINE G == E \union F
<1>1. t \in Seq(G) /\ u \in Seq(G)
  BY SeqMonotonic
<1> HIDE DEF G
<1>2. Xor(t, u) = Diff(Merged(t, u), Intersect(t, u))
  BY <1>1, XorIsUnionWithout
<1>3. KeysOf(Xor(Xor(t, u), u)) = KeysOf(t)
  <2>1. PICK x : x = Xor(t, u)
    OBVIOUS
  <2>2. x \in Seq(G) /\ KeysOf(x) = (KeysOf(t) \ KeysOf(u)) \union (KeysOf(u) \ KeysOf(t))
    BY <1>1, <2>1, XorFacts
  <2>3. KeysOf(Xor(x, u)) = (KeysOf(x) \ KeysOf(u)) \union (KeysOf(u) \ KeysOf(x))
    BY <1>1, <2>2, XorFacts
  <2> QED BY <2>1, <2>2, <2>3
<1>4. Diff(t, Diff(t, u)) = Intersect(t, u)
  BY <1>1, DiffTwice
<1>5. Intersect(u, Merged(t, u)) = u
  BY <1>1, IntersectUnion
<1>6. ASSUME NEW i \in DOMAIN u
      PROVE  \E j \in DOMAIN Merged(t, u) : u[i] = Merged(t, u)[j]
  <2>1. DOMAIN u = 1 .. Len(u) /\ i \in Nat
    BY <1>1, Positions
  <2>2. \A k \in DOMAIN u : u[k].key = u[i].key => k <= i
    BY <2>1 DEF DistinctKeys
  <2>3. Has(Merged(t, u), u[i])
    BY <1>1, <2>2, MergedHasLast
  <2> QED BY <2>3 DEF Has
<1> QED BY <1>2, <1>3, <1>4, <1>5, <1>6

\* The operations on two collections fit together, for every two tables without
\* a key twice, order and values included (ds_htable.c:1084-1148).
THEOREM AlgebraHolds == Spec => []AlgebraFits
<1>1. ASSUME IInv, fault # "keyless" PROVE AlgebraFits
  <2>0. SoundInv
    BY <1>1 DEF IInv, KeylessInv
  <2>1. ASSUME NEW x \in Variable, NEW y \in Variable
        PROVE  LET t == entries[x]
                   u == entries[y]
                   union == Merged(t, u)
               IN  /\ Xor(t, u) = Diff(union, Intersect(t, u))
                   /\ KeysOf(Xor(Xor(t, u), u)) = KeysOf(t)
                   /\ Diff(t, Diff(t, u)) = Intersect(t, u)
                   /\ Intersect(u, union) = u
                   /\ \A i \in DOMAIN u : \E j \in DOMAIN union : u[i] = union[j]
    <3>1. PICK t \in Seq(EntryOfKind(kind[x])) : t = entries[x] /\ DistinctKeys(t)
      BY <2>0, Collection DEF Sound
    <3>2. PICK u \in Seq(EntryOfKind(kind[y])) : u = entries[y] /\ DistinctKeys(u)
      BY <2>0, Collection DEF Sound
    <3>3. LET union == Merged(t, u)
          IN  /\ Xor(t, u) = Diff(union, Intersect(t, u))
              /\ KeysOf(Xor(Xor(t, u), u)) = KeysOf(t)
              /\ Diff(t, Diff(t, u)) = Intersect(t, u)
              /\ Intersect(u, union) = u
              /\ \A i \in DOMAIN u : \E j \in DOMAIN union : u[i] = union[j]
      BY <3>1, <3>2, AlgebraOfTwo
    <3> QED BY <3>1, <3>2, <3>3
  <2> QED BY <2>1 DEF AlgebraFits
<1>2. IInv => AlgebraFits
  BY <1>1 DEF AlgebraFits
<1> QED BY <1>2, Invariant, PTL

-----------------------------------------------------------------------------
(* Integers and their widths.                                              *)

\* Each power of two is twice the one before it.
LEMMA PowerSteps ==
  /\ PowerOf2[0] = 1
  /\ \A k \in 1 .. LongBits : PowerOf2[k] = 2 * PowerOf2[k - 1]
<1> DEFINE IsPower(f, n) == f = [k \in 0 .. n |-> IF k = 0 THEN 1 ELSE 2 * f[k - 1]]
           G == {n \in 0 .. LongBits : \E f : IsPower(f, n)}
<1>0. LongBits \in Nat
  BY WidthAssumption
<1>1. 0 \in G
  <2>1. PICK f : f = [k \in 0 .. 0 |-> 1]
    OBVIOUS
  <2>2. f = [k \in 0 .. 0 |-> IF k = 0 THEN 1 ELSE 2 * f[k - 1]]
    BY <2>1
  <2> QED BY <1>0, <2>2
<1>2. ASSUME NEW n \in 1 .. LongBits, n - 1 \in G PROVE n \in G
  <2>1. PICK f : f = [k \in 0 .. n - 1 |-> IF k = 0 THEN 1 ELSE 2 * f[k - 1]]
    BY <1>2
  <2> DEFINE g == [k \in 0 .. n |-> IF k < n THEN f[k] ELSE 2 * f[n - 1]]
  <2>2. ASSUME NEW k \in 0 .. n
        PROVE  g[k] = IF k = 0 THEN 1 ELSE 2 * g[k - 1]
    <3>1. CASE k < n
      <4>1. k \in 0 .. n - 1 /\ g[k] = f[k]
        BY <3>1
      <4>2. f[k] = IF k = 0 THEN 1 ELSE 2 * f[k - 1]
        <5> HIDE DEF g
        <5> QED BY <2>1, <4>1
      <4>3. k # 0 => g[k - 1] = f[k - 1]
        BY <3>1
      <4> QED BY <4>1, <4>2, <4>3
    <3>2. CASE ~ (k < n)
      <4>1. k = n /\ k # 0 /\ n - 1 \in 0 .. n /\ n - 1 < n
        BY <3>2
      <4> QED BY <4>1
    <3> QED BY <3>1, <3>2
  <2>3. g = [k \in 0 .. n |-> IF k = 0 THEN 1 ELSE 2 * g[k - 1]]
    <3>1. g = [k \in 0 .. n |-> g[k]]
      OBVIOUS
    <3> HIDE DEF g
    <3> QED BY <2>2, <3>1
  <2> HIDE DEF g
  <2>4. n \in 0 .. LongBits
    BY <1>0
  <2> QED BY <2>3, <2>4
<1> HIDE DEF G
<1>3. LongBits \in G
  <2>1. \A n \in 0 .. LongBits : n \in G
    BY <1>0, <1>1, <1>2, UpTo
  <2> QED BY <1>0, <2>1
<1>4. \E f : f = [k \in 0 .. LongBits |-> IF k = 0 THEN 1 ELSE 2 * f[k - 1]]
  BY <1>3 DEF G
<1>5. PowerOf2 = [k \in 0 .. LongBits |-> IF k = 0 THEN 1 ELSE 2 * PowerOf2[k - 1]]
  BY <1>4 DEF PowerOf2
<1>6. PICK f : f = PowerOf2
  OBVIOUS
<1>7. f = [k \in 0 .. LongBits |-> IF k = 0 THEN 1 ELSE 2 * f[k - 1]]
  BY <1>5, <1>6
<1>8. f[0] = 1 /\ \A k \in 1 .. LongBits : f[k] = 2 * f[k - 1]
  BY <1>0, <1>7
<1> QED BY <1>6, <1>8

LEMMA PowerPositive ==
  ASSUME NEW k \in 0 .. LongBits
  PROVE  PowerOf2[k] \in Nat \ {0}
<1> DEFINE G == {n \in 0 .. LongBits : PowerOf2[n] \in Nat \ {0}}
<1>0. LongBits \in Nat
  BY WidthAssumption
<1>1. 0 \in G
  BY <1>0, PowerSteps
<1>2. ASSUME NEW n \in 1 .. LongBits, n - 1 \in G PROVE n \in G
  <2>1. PICK m \in Nat \ {0} : m = PowerOf2[n - 1]
    BY <1>2
  <2>2. PowerOf2[n] = 2 * m
    BY <2>1, PowerSteps
  <2>3. 2 * m \in Nat \ {0} /\ n \in 0 .. LongBits
    BY <1>0
  <2> QED BY <2>2, <2>3
<1> HIDE DEF G
<1>3. \A n \in 0 .. LongBits : n \in G
  BY <1>0, <1>1, <1>2, UpTo
<1> QED BY <1>3 DEF G

\* The range of a uint32_t, and half of it.
LEMMA IndexRange ==
  /\ PowerOf2[IndexBits] \in Nat \ {0}
  /\ PowerOf2[IndexBits - 1] \in Nat \ {0}
  /\ PowerOf2[IndexBits] = 2 * PowerOf2[IndexBits - 1]
<1>1. LongBits \in Nat /\ IndexBits \in 1 .. LongBits
  BY WidthAssumption
<1>2. IndexBits \in 0 .. LongBits /\ IndexBits - 1 \in 0 .. LongBits
  BY <1>1
<1> QED BY <1>1, <1>2, PowerSteps, PowerPositive

\* An integer that a uint32_t holds is taken for itself, others for one that it holds.
LEMMA TruncatedFacts ==
  ASSUME NEW n \in Int
  PROVE  /\ Truncated(n) \in 0 .. PowerOf2[IndexBits] - 1
         /\ n \in 0 .. PowerOf2[IndexBits] - 1 => Truncated(n) = n
<1>1. PICK m \in Nat \ {0} : m = PowerOf2[IndexBits]
  BY IndexRange
<1>2. n % m \in 0 .. m - 1 /\ (n \in 0 .. m - 1 => n % m = n)
  OBVIOUS
<1> QED BY <1>1, <1>2 DEF Truncated

\* After putAll of an array its pairs are in the map, but for the keys that a
\* uint32_t cannot hold and those that such a key is taken for, and the entries of
\* other keys are as they were (ds_map.c:299-315).
THEOREM ArraysPut == Spec => ArraysExplained
<1>1. ASSUME IInv, NEW x \in Variable, NEW a \in PhpArrays, PutArray(x, a)
      PROVE  LET after == {entries'[x][j] : j \in DOMAIN entries'[x]}
             IN  /\ Untouched(entries[x], a) \subseteq after
                 /\ \A i \in DOMAIN a :
                      \/ a[i] \in after
                      \/ a[i].key \notin 0 .. PowerOf2[IndexBits] - 1
                      \/ \E j \in DOMAIN a : j # i /\ Truncated(a[j].key) = a[i].key
  <2> DEFINE u == Narrowed(a)
             after == {entries'[x][j] : j \in DOMAIN entries'[x]}
  <2>0. SoundInv
    BY <1>1 DEF IInv, KeylessInv, PutArray, Change, Open
  <2>1. PICK t \in Seq(EntryOfKind("map")) : t = entries[x]
    BY <1>1, <2>0, Collection DEF Sound, PutArray
  <2>2. entries'[x] = Merged(t, u)
    BY <1>1, <2>0, <2>1 DEF PutArray, Change, Narrowed, SoundInv, Typed
  <2>3. /\ u \in Seq(EntryOfKind("map")) /\ DOMAIN u = DOMAIN a
        /\ \A i \in DOMAIN a : /\ u[i].key = Truncated(a[i].key)
                               /\ a[i].key = Truncated(a[i].key) => u[i] = a[i]
                               /\ a[i].key \in Key
    BY NarrowedFacts
  <2>4. after = {Merged(t, u)[j] : j \in DOMAIN Merged(t, u)}
    BY <2>2
  <2> HIDE DEF u, after
  <2>5. ASSUME NEW m \in DOMAIN t, \A i \in DOMAIN a : Truncated(a[i].key) # t[m].key
        PROVE  t[m] \in after
    <3>1. t[m].key \notin KeysOf(u)
      BY <2>3, <2>5 DEF KeysOf
    <3>2. m \in DOMAIN Merged(t, u) /\ Merged(t, u)[m] = t[m]
      BY <2>3, <3>1, MergedPlaces
    <3> QED BY <2>4, <3>2
  <2>6. ASSUME NEW i \in DOMAIN a, a[i].key \in 0 .. PowerOf2[IndexBits] - 1,
               \A j \in DOMAIN a : j # i => Truncated(a[j].key) # a[i].key
        PROVE  a[i] \in after
    <3>1. Truncated(a[i].key) = a[i].key
      <4>1. PICK k \in Int : k = a[i].key
        <5>1. PICK k \in Key : k = a[i].key
          BY <2>3
        <5>2. k \in Long
          BY WidthAssumption
        <5>3. k \in Int
          BY <5>2 DEF Long
        <5> QED BY <5>1, <5>3
      <4> QED BY <2>6, <4>1, TruncatedFacts
    <3>2. u[i] = a[i] /\ i \in DOMAIN u
      BY <2>3, <3>1
    <3>3. \A k \in DOMAIN u : u[k].key = u[i].key => k = i
      BY <2>3, <2>6, <3>2
    <3>4. \A k \in DOMAIN u : u[k].key = u[i].key => k <= i
      <4>1. i \in Nat
        BY <2>3, <3>2, Positions
      <4> QED BY <3>3, <4>1
    <3>5. Has(Merged(t, u), u[i])
      BY <2>3, <3>2, <3>4, MergedHasLast
    <3> QED BY <2>4, <3>2, <3>5 DEF Has
  <2>7. Untouched(t, a) \subseteq after
    BY <2>5 DEF Untouched
  <2> QED BY <2>1, <2>6, <2>7 DEF after
<1>2. IInv => [\A x \in Variable, a \in PhpArrays :
                 PutArray(x, a) =>
                   LET after == {entries'[x][j] : j \in DOMAIN entries'[x]} IN
                   /\ Untouched(entries[x], a) \subseteq after
                   /\ \A i \in DOMAIN a :
                        \/ a[i] \in after
                        \/ a[i].key \notin 0 .. PowerOf2[IndexBits] - 1
                        \/ \E j \in DOMAIN a : j # i /\ Truncated(a[j].key) = a[i].key]_vars
  BY <1>1
<1> QED BY <1>2, Invariant, PTL DEF ArraysExplained

\* Up to half the range of a uint32_t there is a power of two.
LEMMA PowersBelow ==
  ASSUME NEW k \in 0 .. IndexBits - 1
  PROVE  PowerOf2[k] <= PowerOf2[IndexBits - 1]
<1> DEFINE N == IndexBits - 1
           G == {n \in 0 .. N : \A j \in 0 .. n : PowerOf2[j] <= PowerOf2[n]}
<1>0. N \in Nat /\ LongBits \in Nat /\ N <= LongBits
  BY WidthAssumption
<1>1. ASSUME NEW n \in 0 .. N PROVE PowerOf2[n] \in Nat
  <2>1. n \in 0 .. LongBits
    BY <1>0
  <2> QED BY <2>1, PowerPositive
<1> HIDE DEF N
<1>2. 0 \in G
  <2>1. PowerOf2[0] \in Nat
    BY <1>0, <1>1
  <2>2. \A j \in 0 .. 0 : j = 0
    OBVIOUS
  <2>3. \A j \in 0 .. 0 : PowerOf2[j] <= PowerOf2[0]
    BY <2>1, <2>2
  <2> QED BY <1>0, <2>3
<1>3. ASSUME NEW n \in 1 .. N, n - 1 \in G PROVE n \in G
  <2>1. n \in 0 .. N /\ n - 1 \in 0 .. N /\ n \in 1 .. LongBits
    BY <1>0
  <2>2. PICK m \in Nat : m = PowerOf2[n - 1]
    BY <1>1, <2>1
  <2>3. PowerOf2[n] = 2 * m
    BY <2>1, <2>2, PowerSteps
  <2>4. ASSUME NEW j \in 0 .. n PROVE PowerOf2[j] <= PowerOf2[n]
    <3>1. CASE j = n
      BY <2>2, <2>3, <3>1
    <3>2. CASE j # n
      <4>1. j \in 0 .. n - 1 /\ j \in 0 .. N
        BY <1>0, <3>2
      <4>2. PICK i \in Nat : i = PowerOf2[j]
        BY <1>1, <4>1
      <4>3. i <= m
        BY <1>3, <2>2, <4>1, <4>2
      <4> QED BY <2>3, <4>2, <4>3
    <3> QED BY <3>1, <3>2
  <2> QED BY <2>1, <2>4
<1> HIDE DEF G
<1>4. N \in G
  <2>1. \A n \in 0 .. N : n \in G
    BY <1>0, <1>2, <1>3, UpTo
  <2> QED BY <1>0, <2>1
<1> QED BY <1>4 DEF G, N

\* The least power of two that holds n, as long as n is within half the range.
LEMMA PowerFound ==
  ASSUME NEW n \in Nat \ {0}, n <= PowerOf2[IndexBits - 1]
  PROVE  \E p \in {PowerOf2[k] : k \in 0 .. IndexBits} :
           n <= p /\ (p = 1 \/ p \div 2 < n)
<1> DEFINE T == {k \in 0 .. IndexBits - 1 : n <= PowerOf2[k]}
<1>0. LongBits \in Nat /\ IndexBits \in 1 .. LongBits
  BY WidthAssumption
<1>1. T \subseteq Nat /\ IndexBits - 1 \in T
  BY <1>0
<1>2. PICK k \in T : \A j \in T : k <= j
  <2> HIDE DEF T
  <2> QED BY <1>1, LeastNat
<1>3. k \in 0 .. IndexBits - 1 /\ k \in 0 .. IndexBits /\ n <= PowerOf2[k]
  BY <1>0
<1>4. CASE k = 0
  BY <1>3, <1>4, PowerSteps
<1>5. CASE k # 0
  <2>1. k \in 1 .. LongBits /\ k - 1 \in 0 .. IndexBits - 1 /\ k - 1 \in 0 .. LongBits
    BY <1>0, <1>3, <1>5
  <2>2. k - 1 \notin T
    BY <1>2, <2>1
  <2>3. ~ (n <= PowerOf2[k - 1])
    BY <2>1, <2>2
  <2>4. PICK m \in Nat : m = PowerOf2[k - 1]
    BY <2>1, PowerPositive
  <2>5. PowerOf2[k] = 2 * m
    BY <2>1, <2>4, PowerSteps
  <2>6. (2 * m) \div 2 = m /\ m < n
    BY <2>3, <2>4
  <2>7. PowerOf2[k] \div 2 < n
    BY <2>5, <2>6
  <2> QED BY <1>3, <2>7
<1> QED BY <1>4, <1>5

LEMMA CapacityFacts ==
  ASSUME NEW n \in Nat, n <= PowerOf2[IndexBits - 1]
  PROVE  /\ CapacityFor(n) >= n
         /\ CapacityFor(n) < 2 * n \/ CapacityFor(n) = MinCapacity
<1> DEFINE Powers == {PowerOf2[k] : k \in 0 .. IndexBits}
<1>0. LongBits \in Nat /\ IndexBits \in 1 .. LongBits
  BY WidthAssumption
<1>1. PICK h \in Nat \ {0} : h = PowerOf2[IndexBits - 1] /\ 2 * h = PowerOf2[IndexBits]
  BY IndexRange
<1>2. Truncated(n) = n
  <2>1. n \in 0 .. 2 * h - 1
    BY <1>1
  <2> QED BY <1>1, <2>1, TruncatedFacts
<1>3. MinCapacity \in Nat \ {0}
  <2>1. PICK k \in 0 .. IndexBits - 1 : MinCapacity = PowerOf2[k]
    BY WidthAssumption
  <2>2. k \in 0 .. LongBits
    BY <1>0
  <2> QED BY <2>1, <2>2, PowerPositive
<1>4. CASE n < MinCapacity
  <2>1. CapacityFor(n) = MinCapacity
    BY <1>2, <1>4 DEF CapacityFor, NextPowerOf2
  <2> QED BY <1>3, <1>4, <2>1
<1>5. CASE ~ (n < MinCapacity)
  <2>1. n \in Nat \ {0}
    BY <1>3, <1>5
  <2> DEFINE p == CHOOSE q \in Powers : n <= q /\ (q = 1 \/ q \div 2 < n)
  <2>2. CapacityFor(n) = Truncated(p)
    BY <1>2, <1>5 DEF CapacityFor, NextPowerOf2
  <2>3. \E q \in Powers : n <= q /\ (q = 1 \/ q \div 2 < n)
    BY <2>1, PowerFound
  <2>4. p \in Powers /\ n <= p /\ (p = 1 \/ p \div 2 < n)
    <3> HIDE DEF Powers
    <3> QED BY <2>3
  <2> HIDE DEF p
  <2>5. PICK k \in 0 .. IndexBits : p = PowerOf2[k]
    BY <2>4
  <2>6. PICK m \in Nat : m = p
    <3>1. k \in 0 .. LongBits
      BY <1>0
    <3> QED BY <2>5, <3>1, PowerPositive
  <2>7. m < 2 * n
    <3>1. CASE m = 1
      BY <2>1, <3>1
    <3>2. CASE m # 1
      <4>1. k # 0
        BY <2>5, <2>6, <3>2, PowerSteps
      <4>2. k \in 1 .. LongBits /\ k - 1 \in 0 .. LongBits
        BY <1>0, <4>1
      <4>3. PICK i \in Nat : i = PowerOf2[k - 1]
        BY <4>2, PowerPositive
      <4>4. m = 2 * i /\ (2 * i) \div 2 = i
        BY <2>5, <2>6, <4>2, <4>3, PowerSteps
      <4> QED BY <2>4, <2>6, <3>2, <4>4
    <3> QED BY <3>1, <3>2
  <2>8. m <= h
    <3>1. CASE k = IndexBits
      <4>1. m = 2 * h
        BY <1>1, <2>5, <2>6, <3>1
      <4> QED BY <1>1, <2>7, <4>1
    <3>2. CASE k # IndexBits
      <4>1. k \in 0 .. IndexBits - 1
        BY <1>0, <3>2
      <4> QED BY <1>1, <2>5, <2>6, <4>1, PowersBelow
    <3> QED BY <3>1, <3>2
  <2>9. Truncated(m) = m
    <3>1. m \in 0 .. 2 * h - 1
      BY <1>1, <2>8
    <3> QED BY <1>1, <3>1, TruncatedFacts
  <2> QED BY <2>2, <2>4, <2>6, <2>7, <2>9
<1> QED BY <1>4, <1>5

\* skip() and get() find the entry at their position and refuse every other, but
\* for what a uint32_t cannot hold, and a capacity holds what it is made for up to
\* half that range, whatever the widths
\* (ds_map.c:269-279, ds_set.c:130-140, ds_htable.c:392-396, common.c:8-21).
THEOREM NarrowingHolds == Spec => []NarrowingExplained
<1>1. CapacitiesHold
  <2>1. ASSUME NEW n \in Long, n >= 0, ~ (n > PowerOf2[IndexBits - 1])
        PROVE  /\ CapacityFor(n) >= n
               /\ CapacityFor(n) < 2 * n \/ CapacityFor(n) = MinCapacity
    <3>1. n \in Int
      BY DEF Long
    <3>2. n \in Nat /\ n <= PowerOf2[IndexBits - 1]
      BY <2>1, <3>1, IndexRange
    <3> QED BY <3>2, CapacityFacts
  <2> QED BY <2>1 DEF CapacitiesHold
<1>2. ASSUME SoundInv, NEW x \in Variable PROVE PositionsFound(entries[x])
  <2>1. PICK t \in Seq(EntryOfKind(kind[x])) : t = entries[x]
    BY <1>2, Collection DEF Sound
  <2>2. PICK m \in Nat : m = Len(t)
    BY Positions
  <2>3. PICK h \in Nat \ {0} : h = PowerOf2[IndexBits]
    BY IndexRange
  <2>4. ASSUME NEW p \in Long
        PROVE  \/ p \in 0 .. m - 1 /\ Found(t, p) = p + 1
               \/ p \notin 0 .. m - 1 /\ Found(t, p) = 0
               \/ p \notin 0 .. h - 1 /\ Truncated(p) < m
    <3>1. p \in Int
      BY DEF Long
    <3>2. PICK q \in 0 .. h - 1 : q = Truncated(p) /\ (p \in 0 .. h - 1 => q = p)
      BY <2>3, <3>1, TruncatedFacts
    <3>3. Found(t, p) = IF q < m THEN q + 1 ELSE 0
      BY <2>2, <3>2 DEF Found
    <3> QED BY <3>1, <3>2, <3>3
  <2>5. PositionsFound(t)
    BY <2>2, <2>3, <2>4 DEF PositionsFound
  <2> QED BY <2>1, <2>5
<1>3. IInv => NarrowingExplained
  BY <1>1, <1>2 DEF NarrowingExplained, IInv, KeylessInv
<1> QED BY <1>3, Invariant, PTL

\* A sum that a zend_long holds is what it is, and a natural one does not grow.
LEMMA SumsFacts ==
  ASSUME NEW i \in Nat, NEW n \in Nat, NEW sum \in Sums(i, n)
  PROVE  /\ sum \in Int /\ sum <= i + n
         /\ i + n \in Long => sum = i + n
<1>1. PICK h \in Nat \ {0} : h = PowerOf2[LongBits - 1] /\ 2 * h = PowerOf2[LongBits]
  <2>1. LongBits \in Nat \ {0} /\ LongBits \in 1 .. LongBits /\ LongBits - 1 \in 0 .. LongBits
    BY WidthAssumption
  <2> QED BY <2>1, PowerSteps, PowerPositive
<1>2. sum = i + n \/ sum = ((i + n + h) % (2 * h)) - h
  BY <1>1 DEF Sums
<1>3. PICK y \in Nat : y = i + n + h
  BY <1>1
<1>4. PICK m \in Nat \ {0} : m = 2 * h
  BY <1>1
<1>5. PICK z \in Nat : z = y % m /\ z <= y /\ (y < m => z = y)
  <2>1. y % m \in 0 .. m - 1 /\ (y < m => y % m = y)
    OBVIOUS
  <2> QED BY <2>1
<1>6. sum = i + n \/ sum = z - h
  BY <1>1, <1>2, <1>3, <1>4, <1>5
<1>7. i + n \in Long => y < m
  BY <1>1, <1>3, <1>4 DEF Long
<1>8. sum \in Int
  BY <1>6
<1>9. sum <= i + n
  BY <1>3, <1>5, <1>6
<1>10. i + n \in Long => sum = i + n
  BY <1>3, <1>5, <1>6, <1>7
<1> QED BY <1>8, <1>9, <1>10

\* The positions that a slice names are those from its first on, as many as its
\* length, unless a sum overflows and takes it past the end.
LEMMA SliceRange ==
  ASSUME NEW size \in Nat, NEW i \in Int, NEW n \in Int,
         NEW len \in SliceLengths(i, n, size)
  PROVE  LET from == SliceFrom(i, size)
         IN  /\ from \in Nat /\ len \in Nat
             /\ len > 0 /\ from + len > size => n > 0 /\ from + n \notin Long
             /\ ~ (len > 0 /\ from + len > size) => Named(i, n, size) = from .. from + len - 1
<1> DEFINE from == SliceFrom(i, size)
           l == IF n < 0 THEN AtLeast0(size + n - from) ELSE n
           first == IF i < 0 THEN size + i ELSE i
           to == IF n < 0 THEN size + n ELSE AtLeast0(first) + n
           N == {p \in 0 .. size - 1 : first <= p /\ p < to}
<1>1. from \in Nat /\ len \in Nat
  BY LengthsNat
<1>2. Named(i, n, size) = N
  BY DEF Named
<1>3. /\ first \in Int /\ from = AtLeast0(first)
      /\ first < 0 => from = 0
      /\ first >= 0 => from = first
  BY DEF SliceFrom, AtLeast0
<1>4. to \in Int /\ (n < 0 => to = size + n) /\ (n >= 0 => to = from + n)
  BY <1>3 DEF AtLeast0
<1>5. CASE size = 0 \/ i >= size
  <2>1. len = 0
    BY <1>5 DEF SliceLengths
  <2>2. first >= size \/ size = 0
    BY <1>5
  <2> HIDE DEF from, first, to
  <2>3. N = {}
    BY <1>3, <2>2
  <2>4. from .. from + len - 1 = {}
    BY <1>1, <2>1
  <2> QED BY <1>1, <1>2, <2>1, <2>3, <2>4 DEF from
<1>6. CASE ~ (size = 0 \/ i >= size)
  <2>1. PICK sum \in Sums(from, l) : len = IF sum > size THEN AtLeast0(size - from) ELSE l
    BY <1>6 DEF SliceLengths
  <2>2. from < size
    BY <1>3, <1>6
  <2>3. /\ l \in Nat
        /\ n >= 0 => l = n
        /\ n < 0 /\ size + n - from >= 0 => l = size + n - from
        /\ n < 0 /\ size + n - from < 0 => l = 0
    BY <1>1 DEF AtLeast0
  <2> HIDE DEF from, first, to, l
  <2>4. sum \in Int /\ sum <= from + l /\ (from + l \in Long => sum = from + l)
    BY <1>1, <2>3, SumsFacts
  <2>5. len = IF sum > size THEN size - from ELSE l
    BY <1>1, <2>1, <2>2 DEF AtLeast0
  <2>6. ASSUME len > 0, from + len > size PROVE n > 0 /\ from + n \notin Long
    <3>1. len = l /\ sum <= size
      BY <1>1, <2>4, <2>5, <2>6
    <3>2. n > 0 /\ l = n
      BY <1>1, <2>2, <2>3, <2>6, <3>1
    <3> QED BY <1>1, <2>4, <2>6, <3>1, <3>2
  <2>7. ASSUME ~ (len > 0 /\ from + len > size)
        PROVE  N = from .. from + len - 1
    <3>1. CASE sum > size
      <4>1. len = size - from /\ from + l > size
        BY <1>1, <2>3, <2>4, <2>5, <3>1
      <4>2. n >= 0 /\ to >= size
        BY <1>1, <1>4, <2>2, <2>3, <4>1
      <4>3. ASSUME NEW p PROVE p \in N <=> p \in from .. from + len - 1
        BY <1>1, <1>3, <1>4, <4>1, <4>2
      <4> QED BY <4>3
    <3>2. CASE ~ (sum > size)
      <4>1. len = l /\ from + len <= size
        BY <1>1, <2>2, <2>4, <2>5, <2>7, <3>2
      <4>2. CASE n >= 0
        <5>1. to = from + len
          BY <1>4, <2>3, <4>1, <4>2
        <5>2. ASSUME NEW p PROVE p \in N <=> p \in from .. from + len - 1
          BY <1>1, <1>3, <4>1, <5>1
        <5> QED BY <5>2
      <4>3. CASE n < 0
        <5>1. to = size + n /\ (to >= from => to = from + len) /\ (to < from => len = 0)
          BY <1>1, <1>4, <2>3, <4>1, <4>3
        <5>2. ASSUME NEW p PROVE p \in N <=> p \in from .. from + len - 1
          BY <1>1, <1>3, <1>4, <4>1, <5>1
        <5> QED BY <5>2
      <4> QED BY <4>2, <4>3
    <3> QED BY <3>1, <3>2
  <2> QED BY <1>1, <1>2, <2>6, <2>7 DEF from
<1> QED BY <1>5, <1>6

\* For every index and length a slice has the entries of the positions named, in
\* order; only an index and a length whose sum overflows take it past the end of
\* the table, whatever the width of zend_long (common.c:115-147).
THEOREM SlicesNamed == Spec => []SlicesExplained
<1>1. ASSUME SoundInv, NEW x \in Variable, NEW i \in Argument, NEW n \in Argument,
             NEW len \in SliceLengths(i, n, Len(entries[x]))
      PROVE  LET t == entries[x]
                 size == Len(t)
             IN  IF ReachesPastEnd(t, i, len)
                 THEN n > 0 /\ SliceFrom(i, size) + n \notin Long
                 ELSE LET s == SliceOf(t, i, len)
                          N == Named(i, n, size)
                      IN  /\ \A p \in N : \E j \in DOMAIN s : s[j] = t[p + 1]
                          /\ \A j \in DOMAIN s : \E p \in N : s[j] = t[p + 1]
                          /\ \A j \in 1 .. Len(s) - 1 : \A p, q \in N :
                               s[j] = t[p + 1] /\ s[j + 1] = t[q + 1] => p < q
  <2>0. i \in Int /\ n \in Int
    BY WidthAssumption DEF Long
  <2>1. PICK t \in Seq(EntryOfKind(kind[x])) : t = entries[x] /\ DistinctKeys(t)
    BY <1>1, Collection DEF Sound
  <2> DEFINE size == Len(t)
             from == SliceFrom(i, size)
             s == SliceOf(t, i, len)
             N == Named(i, n, size)
  <2>2. size \in Nat /\ DOMAIN t = 1 .. size
    BY Positions
  <2>3. len \in SliceLengths(i, n, size)
    BY <2>1
  <2>4. /\ from \in Nat /\ len \in Nat
        /\ len > 0 /\ from + len > size => n > 0 /\ from + n \notin Long
        /\ ~ (len > 0 /\ from + len > size) => N = from .. from + len - 1
    <3> HIDE DEF N
    <3> QED BY <2>0, <2>2, <2>3, SliceRange DEF N
  <2>5. CASE ReachesPastEnd(t, i, len)
    BY <2>1, <2>4, <2>5 DEF ReachesPastEnd
  <2>6. CASE ~ ReachesPastEnd(t, i, len)
    <3>1. N = from .. from + len - 1
      BY <2>4, <2>6 DEF ReachesPastEnd
    <3>2. DOMAIN s = 1 .. len /\ Len(s) = len
          /\ \A j \in 1 .. len : from + j \in DOMAIN t /\ s[j] = t[from + j]
      <4>1. CASE len = 0 /\ s = << >>
        <5>1. << >> \in Seq(EntryOfKind(kind[x])) /\ Len(<< >>) = 0
          BY NoEntries
        <5>2. DOMAIN << >> = 1 .. 0
          BY <5>1, Positions
        <5> QED BY <4>1, <5>1, <5>2
      <4>2. ASSUME NEW a \in 1 .. size, NEW b \in a .. size,
                   s = SubSeq(t, a, b), a = from + 1, b - a + 1 = len
            PROVE  DOMAIN s = 1 .. len /\ Len(s) = len
                   /\ \A j \in 1 .. len : from + j \in DOMAIN t /\ s[j] = t[from + j]
        <5>1. PICK r : r = SubSeq(t, a, b)
          OBVIOUS
        <5>2. /\ r \in Seq(EntryOfKind(kind[x])) /\ Len(r) = b - a + 1
              /\ \A j \in 1 .. b - a + 1 :
                   a + j - 1 \in DOMAIN t /\ r[j] = t[a + j - 1]
          BY <5>1, PartFacts
        <5>3. DOMAIN r = 1 .. len
          BY <4>2, <5>2, Positions
        <5>4. \A j \in 1 .. len : a + j - 1 = from + j
          BY <2>4, <4>2
        <5> QED BY <4>2, <5>1, <5>2, <5>3, <5>4
      <4> HIDE DEF s, from
      <4>3. \/ len = 0 /\ s = << >>
            \/ \E a \in 1 .. size : \E b \in a .. size :
                 s = SubSeq(t, a, b) /\ a = from + 1 /\ b - a + 1 = len
        BY <2>0, <2>3, <2>6, SliceIsPart DEF s, from
      <4> QED BY <4>1, <4>2, <4>3
    <3> HIDE DEF s, N, from
    <3>3. ASSUME NEW p \in N PROVE \E j \in DOMAIN s : s[j] = t[p + 1]
      <4>1. PICK j \in 1 .. len : from + j = p + 1
        <5>1. (p - from) + 1 \in 1 .. len /\ from + ((p - from) + 1) = p + 1
          BY <2>4, <3>1
        <5> QED BY <5>1
      <4> QED BY <3>2, <4>1
    <3>4. ASSUME NEW j \in DOMAIN s PROVE \E p \in N : s[j] = t[p + 1]
      <4>1. j \in 1 .. len /\ s[j] = t[from + j]
        BY <3>2
      <4>2. from + j - 1 \in N /\ (from + j - 1) + 1 = from + j
        BY <2>4, <3>1, <4>1
      <4> QED BY <4>1, <4>2
    <3>5. ASSUME NEW j \in 1 .. Len(s) - 1, NEW p \in N, NEW q \in N,
                 s[j] = t[p + 1], s[j + 1] = t[q + 1]
          PROVE  p < q
      <4>1. j \in 1 .. len /\ j + 1 \in 1 .. len
        BY <2>4, <3>2
      <4>2. /\ s[j] = t[from + j] /\ from + j \in DOMAIN t
            /\ s[j + 1] = t[from + (j + 1)] /\ from + (j + 1) \in DOMAIN t
        BY <3>2, <4>1
      <4>3. \A r \in N : r + 1 \in DOMAIN t
        <5>1. ASSUME NEW r \in N PROVE r + 1 \in DOMAIN t
          <6>1. PICK k \in 1 .. len : from + k = r + 1
            <7>1. (r - from) + 1 \in 1 .. len /\ from + ((r - from) + 1) = r + 1
              BY <2>4, <3>1
            <7> QED BY <7>1
          <6> QED BY <3>2, <6>1
        <5> QED BY <5>1
      <4>4. p + 1 = from + j /\ q + 1 = from + (j + 1)
        BY <2>1, <3>5, <4>2, <4>3 DEF DistinctKeys
      <4> QED BY <2>4, <3>1, <4>1, <4>4
    <3> QED BY <2>1, <2>6, <3>3, <3>4, <3>5 DEF s, N
  <2> QED BY <2>5, <2>6
<1>2. IInv => SlicesExplained
  BY <1>1 DEF SlicesExplained, IInv, KeylessInv
<1> QED BY <1>2, Invariant, PTL

=============================================================================
