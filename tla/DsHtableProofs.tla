--------------------------- MODULE DsHtableProofs ---------------------------
(***************************************************************************)
(* The inductive invariant of DsHtable and what follows from it.  The      *)
(* first half is about tables alone: what each operator that remakes a     *)
(* table does to a table that satisfies the invariant.                     *)
(***************************************************************************)
EXTENDS Sequences, DsHtable, ScanProofs

\* A bucket buffer whose lookup and links may be out of date.
BufferOK(t) ==
  /\ t = [f \in Fields |-> t[f]]
  /\ t.next \in Nat /\ t.size \in Nat /\ t.minDeleted \in Nat
  /\ t.capacity \in 1 .. MaxCapacity
  /\ t.key \in [0 .. t.next - 1 -> Key \union {Undef}]
  /\ t.value \in [0 .. t.next - 1 -> Value \union {Undef}]

LEMMA LiveIndices ==
  ASSUME NEW t, t.next \in Nat
  PROVE  /\ Live(t) \subseteq 0 .. t.next - 1
         /\ IsFiniteSet(Live(t)) /\ Cardinality(Live(t)) \in Nat
         /\ \A s, n : Colliding(t, s, n) \subseteq 0 .. t.next - 1
<1>1. Live(t) \subseteq 0 .. t.next - 1
  BY DEF Live
<1>2. \A s, n : Colliding(t, s, n) \subseteq Live(t)
  BY DEF Colliding
<1> QED BY <1>1, <1>2, IndicesFinite

\* Rehashing a buffer rebuilds chains that hold exactly its live buckets, and
\* leaves the buffer itself alone.
LEMMA RelinkRebuilds ==
  ASSUME NEW t, BufferOK(t)
  PROVE  LET u == Relink(t) IN
         /\ TableTypeOK(u) /\ Chained(u) /\ Live(u) = Live(t)
         /\ u.key = t.key /\ u.value = t.value /\ u.next = t.next
         /\ u.size = t.size /\ u.capacity = t.capacity
         /\ u.minDeleted = t.capacity
<1> DEFINE u == Relink(t)
<1>1. /\ u.key = t.key /\ u.value = t.value /\ u.next = t.next
      /\ u.size = t.size /\ u.capacity = t.capacity
      /\ u.minDeleted = t.capacity
      /\ u.link = [i \in 0 .. t.next - 1 |->
                 IF t.key[i] = Undef THEN NIL
                 ELSE Latest(Colliding(t, Slot(t, t.key[i]), i))]
      /\ u.lookup = [s \in 0 .. t.capacity - 1 |-> Latest(Colliding(t, s, t.next))]
      /\ u = [f \in Fields |-> u[f]]
  BY DEF Relink, ChainedAfter, BufferOK, Fields
<1>2. Live(u) = Live(t)
  BY <1>1 DEF Live
<1>3. \A k : Slot(u, k) = Slot(t, k)
  BY <1>1 DEF Slot
<1>4. \A s, n : Colliding(u, s, n) = Colliding(t, s, n)
  BY <1>1, <1>2, <1>3 DEF Colliding
<1>5. \A s, n : IsLatest(Latest(Colliding(t, s, n)), Colliding(t, s, n))
             /\ Latest(Colliding(t, s, n)) \in Int
  <2> TAKE s, n
  <2> DEFINE C == Colliding(t, s, n)
  <2> SUFFICES IsLatest(Latest(C), C) /\ Latest(C) \in Int
    OBVIOUS
  <2>1. t.next \in Nat /\ C \subseteq 0 .. t.next - 1
    BY LiveIndices DEF BufferOK
  <2> HIDE DEF C
  <2>2. CASE C = {}
    BY <2>2 DEF IsLatest, Latest, NIL
  <2>3. CASE C # {}
    <3>1. Latest(C) \in C /\ \A j \in C : j <= Latest(C)
      BY <2>1, <2>3, LatestIsLast
    <3>2. PICK x \in C : x = Latest(C)
      BY <3>1
    <3>3. x \in Int
      BY <2>1
    <3> QED BY <3>1, <3>2, <3>3, <2>3 DEF IsLatest
  <2> QED BY <2>2, <2>3
<1>6. Chained(u)
  BY <1>1, <1>2, <1>3, <1>4, <1>5 DEF Chained, Live
<1>7. TableTypeOK(u)
  <2>1. u.link \in [0 .. u.next - 1 -> Int]
    BY <1>1, <1>5 DEF NIL
  <2>2. u.lookup \in [0 .. u.capacity - 1 -> Int]
    BY <1>1, <1>5
  <2>3. u.minDeleted \in Nat
    BY <1>1, CapacityAssumption DEF BufferOK
  <2> HIDE DEF u
  <2> QED BY <1>1, <2>1, <2>2, <2>3 DEF TableTypeOK, BufferOK
<1> QED BY <1>1, <1>2, <1>6, <1>7

\* Each live bucket of u is one of t, with its key and value, and no two are the
\* same one.
Carried(u, t) ==
  \E src \in [Live(u) -> Live(t)] :
    /\ \A i, j \in Live(u) : src[i] = src[j] => i = j
    /\ \A i \in Live(u) : u.key[i] = t.key[src[i]] /\ u.value[i] = t.value[src[i]]

LEMMA CarriedSame ==
  ASSUME NEW u, NEW t, Live(u) = Live(t), u.key = t.key, u.value = t.value
  PROVE  Carried(u, t)
<1>1. [i \in Live(u) |-> i] \in [Live(u) -> Live(t)]
  OBVIOUS
<1> QED BY <1>1 DEF Carried

LEMMA CarriedOn ==
  ASSUME NEW w, NEW u, NEW t, Carried(w, u), Carried(u, t)
  PROVE  Carried(w, t)
<1>1. PICK f \in [Live(w) -> Live(u)] :
        /\ \A i, j \in Live(w) : f[i] = f[j] => i = j
        /\ \A i \in Live(w) : w.key[i] = u.key[f[i]] /\ w.value[i] = u.value[f[i]]
  BY DEF Carried
<1>2. PICK g \in [Live(u) -> Live(t)] :
        /\ \A i, j \in Live(u) : g[i] = g[j] => i = j
        /\ \A i \in Live(u) : u.key[i] = t.key[g[i]] /\ u.value[i] = t.value[g[i]]
  BY DEF Carried
<1> DEFINE h == [i \in Live(w) |-> g[f[i]]]
<1>3. h \in [Live(w) -> Live(t)]
  OBVIOUS
<1>4. \A i, j \in Live(w) : h[i] = h[j] => i = j
  BY <1>1, <1>2
<1>5. \A i \in Live(w) : w.key[i] = t.key[h[i]] /\ w.value[i] = t.value[h[i]]
  BY <1>1, <1>2
<1> HIDE DEF h
<1> QED BY <1>3, <1>4, <1>5 DEF Carried

\* Gathering distinct live buckets, one into each index, repeats no key and
\* invents none; gathering them all keeps them all.
LEMMA GatherKeeps ==
  ASSUME NEW t, BufferOK(t), NEW n \in Nat,
         NEW src \in [0 .. n - 1 -> Live(t)],
         \A i, j \in 0 .. n - 1 : src[i] = src[j] => i = j
  PROVE  LET u == Gather(t, src, n) IN
         /\ BufferOK(u) /\ u.next = n /\ u.size = t.size
         /\ u.capacity = t.capacity /\ u.minDeleted = t.minDeleted
         /\ Live(u) = 0 .. n - 1 /\ Cardinality(Live(u)) = n
         /\ Carried(u, t) /\ (Distinct(t) => Distinct(u))
         /\ KeySet(u) \subseteq KeySet(t)
         /\ n = Cardinality(Live(t)) => KeySet(u) = KeySet(t)
<1> DEFINE u == Gather(t, src, n)
<1>1. /\ u.key = [i \in 0 .. n - 1 |-> t.key[src[i]]]
      /\ u.value = [i \in 0 .. n - 1 |-> t.value[src[i]]]
      /\ u.next = n /\ u.size = t.size /\ u.capacity = t.capacity
      /\ u.minDeleted = t.minDeleted
      /\ u = [f \in Fields |-> u[f]]
  BY DEF Gather, BufferOK, Fields
<1>2. \A i \in 0 .. n - 1 : src[i] \in Live(t) /\ src[i] \in 0 .. t.next - 1
                          /\ t.key[src[i]] # Undef
  BY DEF Live
<1> HIDE DEF u
<1>3. BufferOK(u)
  <2>0. /\ t.next \in Nat
        /\ t.key \in [0 .. t.next - 1 -> Key \union {Undef}]
        /\ t.value \in [0 .. t.next - 1 -> Value \union {Undef}]
    BY DEF BufferOK
  <2>1. u.key \in [0 .. n - 1 -> Key \union {Undef}]
    BY <1>1, <1>2, <2>0
  <2>2. u.value \in [0 .. n - 1 -> Value \union {Undef}]
    BY <1>1, <1>2, <2>0
  <2> QED BY <1>1, <2>1, <2>2 DEF BufferOK
<1>4. Live(u) = 0 .. n - 1
  BY <1>1, <1>2 DEF Live
<1>5. Cardinality(Live(u)) = n
  BY <1>4, FS_Interval
<1>6. Carried(u, t) /\ (Distinct(t) => Distinct(u))
  <2>1. Distinct(t) => Distinct(u)
    BY <1>1, <1>2, <1>4 DEF Distinct
  <2>2. \A i \in 0 .. n - 1 : u.key[i] = t.key[src[i]] /\ u.value[i] = t.value[src[i]]
    BY <1>1
  <2> QED BY <1>4, <2>1, <2>2 DEF Carried
<1>7. KeySet(u) \subseteq KeySet(t)
  BY <1>1, <1>2, <1>4 DEF KeySet
<1>8. ASSUME n = Cardinality(Live(t)) PROVE KeySet(t) \subseteq KeySet(u)
  <2>1. src \in Injection(0 .. n - 1, Live(t))
    BY DEF Injection, IsInjective
  <2>2. IsFiniteSet(Live(t)) /\ Cardinality(0 .. n - 1) = n
    <3>1. t.next \in Nat
      BY DEF BufferOK
    <3>2. IsFiniteSet(Live(t))
      BY <3>1, LiveIndices
    <3>3. Cardinality(0 .. n - 1) = n
      BY FS_Interval
    <3> QED BY <3>2, <3>3
  <2>3. src \in Surjection(0 .. n - 1, Live(t))
    BY <1>8, <2>1, <2>2, FS_Injection
  <2>4. \A j \in Live(t) : \E i \in 0 .. n - 1 : src[i] = j
    BY <2>3 DEF Surjection
  <2> QED BY <1>1, <1>4, <2>4 DEF KeySet
<1> QED BY <1>1, <1>3, <1>4, <1>5, <1>6, <1>7, <1>8 DEF u

\* The members of S from the left.
Scanned(S) == [i \in 0 .. Cardinality(S) - 1 |-> Nth(S, i)]

\* Scanning the members of a set of live buckets gathers them.
LEMMA NthGathers ==
  ASSUME NEW t, t.next \in Nat, NEW S, S \subseteq Live(t)
  PROVE  /\ Cardinality(S) \in Nat
         /\ Scanned(S) \in [0 .. Cardinality(S) - 1 -> S]
         /\ \A i, j \in 0 .. Cardinality(S) - 1 :
              Scanned(S)[i] = Scanned(S)[j] => i = j
<1>1. S \subseteq 0 .. t.next - 1
  BY LiveIndices
<1>2. Cardinality(S) \in Nat
  BY <1>1, IndicesFinite
<1>3. \A i \in 0 .. Cardinality(S) - 1 : Nth(S, i) \in S
  BY <1>1, NthIsMember
<1>4. \A i, j \in 0 .. Cardinality(S) - 1 : Nth(S, i) = Nth(S, j) => i = j
  BY <1>1, NthInjective
<1> QED BY <1>2, <1>3, <1>4 DEF Scanned

\* The predicates of the entries look at nothing but keys and size.
LEMMA SameEntries ==
  ASSUME NEW t, NEW u, u.key = t.key, Live(u) = Live(t), u.size = t.size
  PROVE  /\ CountsLive(u) <=> CountsLive(t)
         /\ Distinct(u) <=> Distinct(t)
         /\ KeySet(u) = KeySet(t)
BY Zenon DEF CountsLive, Distinct, KeySet

\* A table without deleted buckets is full of live ones.
LEMMA PackedIsLive ==
  ASSUME NEW t, t.next \in Nat, CountsLive(t), IsPacked(t)
  PROVE  Live(t) = 0 .. t.next - 1
<1>1. Cardinality(0 .. t.next - 1) = t.next /\ IsFiniteSet(0 .. t.next - 1)
  BY FS_Interval, SMTT(30)
<1>2. Live(t) \in SUBSET (0 .. t.next - 1)
  BY LiveIndices
<1> QED BY <1>1, <1>2, FS_Subset DEF CountsLive, IsPacked

\* rehash() leaves the entries of the table, packed and well chained.
LEMMA RehashKeeps ==
  ASSUME NEW t, BufferOK(t), CountsLive(t)
  PROVE  LET u == Rehash(t) IN
         /\ TableTypeOK(u) /\ CountsLive(u) /\ Chained(u) /\ Carried(u, t)
         /\ Distinct(t) => Distinct(u)
         /\ KeySet(u) = KeySet(t)
         /\ u.next = t.size /\ u.size = t.size /\ u.capacity = t.capacity
         /\ u.minDeleted = t.capacity
         /\ Live(u) = 0 .. t.size - 1
<1> DEFINE n == Cardinality(Live(t))
           src == [i \in 0 .. n - 1 |-> Nth(Live(t), i)]
<1>0. t.next \in Nat /\ t.size \in Nat /\ n = t.size
  BY DEF BufferOK, CountsLive
<1>1. CASE IsPacked(t)
  <2> DEFINE u == Relink(t)
  <2>1. Rehash(t) = u
    BY <1>1 DEF Rehash
  <2>2. /\ TableTypeOK(u) /\ Chained(u) /\ Live(u) = Live(t)
        /\ u.key = t.key /\ u.value = t.value /\ u.next = t.next
        /\ u.size = t.size /\ u.capacity = t.capacity
        /\ u.minDeleted = t.capacity
    BY RelinkRebuilds
  <2>3. Live(t) = 0 .. t.size - 1
    BY <1>0, <1>1, PackedIsLive DEF IsPacked
  <2> HIDE DEF u
  <2>4. /\ CountsLive(u) /\ (Distinct(t) => Distinct(u)) /\ KeySet(u) = KeySet(t)
        /\ Carried(u, t)
    BY <2>2, SameEntries, CarriedSame
  <2> QED BY <2>1, <2>2, <2>3, <2>4, <1>0, <1>1 DEF IsPacked
<1>2. CASE ~IsPacked(t)
  <2> DEFINE g == Gather(t, src, n)
             u == Relink(g)
  <2>1. Rehash(t) = u
    BY <1>2 DEF Rehash, Compacted
  <2>2. n \in Nat /\ src \in [0 .. n - 1 -> Live(t)]
        /\ \A i, j \in 0 .. n - 1 : src[i] = src[j] => i = j
    BY <1>0, NthGathers DEF Scanned
  <2> HIDE DEF src, n
  <2>3. /\ BufferOK(g) /\ g.next = n /\ g.size = t.size
        /\ g.capacity = t.capacity
        /\ Live(g) = 0 .. n - 1 /\ Cardinality(Live(g)) = n
        /\ Carried(g, t) /\ (Distinct(t) => Distinct(g)) /\ KeySet(g) = KeySet(t)
    BY <2>2, GatherKeeps DEF n
  <2> HIDE DEF g
  <2>4. /\ TableTypeOK(u) /\ Chained(u) /\ Live(u) = Live(g)
        /\ u.key = g.key /\ u.value = g.value /\ u.next = g.next
        /\ u.size = g.size /\ u.capacity = g.capacity
        /\ u.minDeleted = g.capacity
    BY <2>3, RelinkRebuilds
  <2> HIDE DEF u
  <2>5. CountsLive(u) /\ (Distinct(t) => Distinct(u)) /\ KeySet(u) = KeySet(t)
    <3>1. CountsLive(g)
      BY <1>0, <2>3 DEF CountsLive
    <3> QED BY <3>1, <2>3, <2>4, SameEntries
  <2>6. Carried(u, t)
    BY <2>3, <2>4, CarriedSame, CarriedOn
  <2> QED BY <2>1, <2>3, <2>4, <2>5, <2>6, <1>0
<1> QED BY <1>1, <1>2

\* The bucket that pack() moves to each index.
PackSource(t) ==
  LET m == t.minDeleted
      A == {i \in Live(t) : i > m}
  IN  [i \in 0 .. t.size - 1 |->
         IF i \in m .. m + Cardinality(A) - 1 THEN Nth(A, i - m) ELSE i]

\* The moves of pack(): when minDeleted is the first hole, every index below
\* size receives a live bucket, and none twice.
LEMMA PackMoves ==
  ASSUME NEW t, t.next \in Nat, t.minDeleted \in Nat, CountsLive(t),
         HoleAtMin(t), LiveBelowMin(t)
  PROVE  /\ PackSource(t) \in [0 .. t.size - 1 -> Live(t)]
         /\ \A i, j \in 0 .. t.size - 1 :
              PackSource(t)[i] = PackSource(t)[j] => i = j
<1> DEFINE n == t.next
           L == Live(t)
           m == t.minDeleted
           A == {i \in L : i > m}
           c == Cardinality(A)
           z == t.size
           src == [i \in 0 .. z - 1 |->
                     IF i \in m .. m + c - 1 THEN Nth(A, i - m) ELSE i]
<1>a. /\ n \in Nat /\ L \subseteq 0 .. n - 1 /\ m \in Nat /\ m < n
      /\ m \notin L /\ \A i \in 0 .. n - 1 : i < m => i \in L
      /\ z = Cardinality(L)
  BY LiveIndices DEF HoleAtMin, LiveBelowMin, Live, CountsLive
<1>b. /\ A = {i \in L : i > m} /\ c = Cardinality(A)
      /\ src = [i \in 0 .. z - 1 |->
                 IF i \in m .. m + c - 1 THEN Nth(A, i - m) ELSE i]
  OBVIOUS
<1> SUFFICES /\ src \in [0 .. z - 1 -> L]
             /\ \A i, j \in 0 .. z - 1 : src[i] = src[j] => i = j
  BY DEF PackSource
<1> HIDE DEF n, L, m, A, c, z, src
<1> USE <1>a, <1>b
<1>0. \A i \in L : i \in 0 .. n - 1
  OBVIOUS
<1>1. A \subseteq 0 .. n - 1 /\ c \in Nat /\ IsFiniteSet(A)
  BY IndicesFinite
<1>2. L = (0 .. m - 1) \union A
  <2>1. ASSUME NEW x \in L PROVE x \in (0 .. m - 1) \union A
    <3>1. x \in 0 .. n - 1 /\ x # m
      BY <1>0
    <3> QED BY <3>1
  <2>2. ASSUME NEW x \in 0 .. m - 1 PROVE x \in L
    <3>1. x \in 0 .. n - 1 /\ x < m
      OBVIOUS
    <3> QED BY <3>1
  <2>3. A \subseteq L
    OBVIOUS
  <2> QED BY <2>1, <2>2, <2>3
<1>3. (0 .. m - 1) \intersect A = {}
  OBVIOUS
<1>4. z = m + c
  <2>1. IsFiniteSet(0 .. m - 1) /\ Cardinality(0 .. m - 1) = m
    BY IndicesBelow
  <2>2. Cardinality((0 .. m - 1) \union A)
          = Cardinality(0 .. m - 1) + Cardinality(A)
            - Cardinality((0 .. m - 1) \intersect A)
    BY <2>1, <1>1, FS_Union
  <2>3. Cardinality((0 .. m - 1) \intersect A) = 0
    BY <1>3, FS_EmptySet
  <2>4. z = m + c - 0
    BY <2>1, <2>2, <2>3, <1>2
  <2> QED BY <2>4, <1>1
<1>5. \A i \in 0 .. c - 1 : Nth(A, i) \in A
  BY <1>1, NthIsMember
<1>6. \A i, j \in 0 .. c - 1 : Nth(A, i) = Nth(A, j) => i = j
  BY <1>1, NthInjective
<1>7. \A i \in 0 .. z - 1 : i < m => src[i] = i
  BY <1>4
<1>8. \A i \in 0 .. z - 1 : i >= m => /\ i - m \in 0 .. c - 1
                                     /\ src[i] = Nth(A, i - m)
  BY <1>1, <1>4
<1>9. \A i \in 0 .. z - 1 : i >= m => src[i] \in A
  BY <1>5, <1>8
<1>10. src \in [0 .. z - 1 -> L]
  <2>1. ASSUME NEW i \in 0 .. z - 1 PROVE src[i] \in L
    <3>1. CASE i < m
      <4>1. i \in 0 .. m - 1
        BY <3>1, <1>1, <1>4
      <4> QED BY <3>1, <4>1, <1>2, <1>7
    <3>2. CASE i >= m
      BY <3>2, <1>2, <1>9
    <3> QED BY <3>1, <3>2, <1>1, <1>4
  <2> QED BY <2>1
<1>11. ASSUME NEW i \in 0 .. z - 1, NEW j \in 0 .. z - 1, src[i] = src[j]
       PROVE  i = j
  <2>0. \A x \in A : x > m
    OBVIOUS
  <2>1. i \in Int /\ j \in Int /\ z \in Nat
    BY <1>1, <1>4
  <2>2. CASE i < m /\ j < m
    BY <2>2, <1>7, <1>11
  <2>3. CASE i >= m /\ j >= m
    <3>1. /\ i - m \in 0 .. c - 1 /\ src[i] = Nth(A, i - m)
          /\ j - m \in 0 .. c - 1 /\ src[j] = Nth(A, j - m)
      BY <2>3, <1>8
    <3>2. i - m = j - m
      BY <3>1, <1>6, <1>11
    <3> QED BY <3>2, <2>1
  <2>4. CASE i < m /\ j >= m
    <3>1. src[i] = i /\ src[j] > m
      BY <2>4, <2>0, <1>7, <1>9
    <3> QED BY <3>1, <2>1, <2>4, <1>11
  <2>5. CASE j < m /\ i >= m
    <3>1. src[j] = j /\ src[i] > m
      BY <2>5, <2>0, <1>7, <1>9
    <3> QED BY <3>1, <2>1, <2>5, <1>11
  <2> QED BY <2>1, <2>2, <2>3, <2>4, <2>5
<1> QED BY <1>10, <1>11

\* pack() keeps the entries of a table whose minDeleted is its first deleted
\* bucket; then it does not fault.
LEMMA PackKeeps ==
  ASSUME NEW t, BufferOK(t), CountsLive(t),
         IsPacked(t) \/ (HoleAtMin(t) /\ LiveBelowMin(t))
  PROVE  LET u == Pack(t) IN
         /\ BufferOK(u) /\ CountsLive(u) /\ Carried(u, t)
         /\ Distinct(t) => Distinct(u)
         /\ KeySet(u) = KeySet(t) /\ PackFault(t) = "none"
         /\ u.next = t.size /\ u.size = t.size /\ u.capacity = t.capacity
<1>1. CASE IsPacked(t)
  BY <1>1, CarriedSame DEF Pack, PackFault, IsPacked
<1>2. CASE ~IsPacked(t)
  <2> DEFINE m == t.minDeleted
             A == {i \in Live(t) : i > m}
             c == Cardinality(A)
             src == [i \in 0 .. t.size - 1 |->
                       IF i \in m .. m + c - 1 THEN Nth(A, i - m) ELSE i]
             g == Gather(t, src, t.size)
             u == Pack(t)
  <2>1. /\ t.next \in Nat /\ t.size \in Nat /\ m \in Nat
        /\ m < t.next /\ t.key[m] = Undef
        /\ \A i \in 0 .. t.next - 1 : i < m => t.key[i] # Undef
    BY <1>2 DEF BufferOK, HoleAtMin, LiveBelowMin
  <2>2. u = [g EXCEPT !.minDeleted = t.capacity]
    BY <1>2 DEF Pack
  <2>3. /\ src \in [0 .. t.size - 1 -> Live(t)]
        /\ \A i, j \in 0 .. t.size - 1 : src[i] = src[j] => i = j
    BY <1>2, <2>1, PackMoves DEF PackSource
  <2>11. /\ BufferOK(g) /\ g.next = t.size /\ g.size = t.size
         /\ g.capacity = t.capacity
         /\ Cardinality(Live(g)) = t.size
         /\ Carried(g, t) /\ (Distinct(t) => Distinct(g)) /\ KeySet(g) = KeySet(t)
    <3> HIDE DEF src
    <3>1. t.size = Cardinality(Live(t))
      BY DEF CountsLive
    <3> QED BY <2>1, <2>3, <3>1, GatherKeeps
  <2> HIDE DEF src, g
  <2>12. /\ u.key = g.key /\ u.value = g.value /\ u.next = g.next
         /\ u.size = g.size /\ u.capacity = g.capacity
         /\ u.minDeleted = t.capacity
         /\ u = [f \in Fields |-> u[f]]
    BY <2>2, <2>11 DEF BufferOK, Fields
  <2> HIDE DEF u
  <2>13. t.capacity \in Nat
    BY CapacityAssumption DEF BufferOK
  <2>14. BufferOK(u)
    BY <2>11, <2>12, <2>13 DEF BufferOK
  <2>15. Live(u) = Live(g)
    BY <2>12 DEF Live
  <2>16. /\ CountsLive(u) /\ (Distinct(t) => Distinct(u)) /\ KeySet(u) = KeySet(t)
         /\ Carried(u, t)
    <3>1. CountsLive(g)
      BY <2>11 DEF CountsLive
    <3> QED BY <3>1, <2>11, <2>12, <2>15, SameEntries, CarriedSame, CarriedOn
  <2>17. PackFault(t) = "none"
    BY <2>16, <2>1 DEF PackFault, u
  <2> QED BY <2>11, <2>12, <2>14, <2>16, <2>17 DEF u
<1> QED BY <1>1, <1>2

\* A new table is empty and sound.
LEMMA FreshInv ==
  ASSUME NEW c \in 1 .. MaxCapacity
  PROVE  LET t == Fresh(c) IN
         /\ TableTypeOK(t) /\ TableInv(t) /\ Live(t) = {}
         /\ t.next = 0 /\ t.size = 0 /\ t.capacity = c /\ t.minDeleted = c
<1> DEFINE t == Fresh(c)
<1>1. c \in Nat
  BY CapacityAssumption
<1>2. /\ t = [f \in Fields |-> t[f]]
      /\ t.key = [i \in {} |-> Undef] /\ t.value = [i \in {} |-> Undef]
      /\ t.link = [i \in {} |-> NIL]
      /\ t.lookup = [s \in 0 .. c - 1 |-> NIL]
      /\ t.next = 0 /\ t.size = 0 /\ t.capacity = c /\ t.minDeleted = c
  BY DEF Fresh, Fields
<1> HIDE DEF t
<1>3. 0 .. t.next - 1 = {}
  BY <1>2
<1>4. TableTypeOK(t)
  <2>1. /\ t.key \in [0 .. t.next - 1 -> Key \union {Undef}]
        /\ t.value \in [0 .. t.next - 1 -> Value \union {Undef}]
        /\ t.link \in [0 .. t.next - 1 -> Int]
    BY <1>2, <1>3
  <2>2. t.lookup \in [0 .. t.capacity - 1 -> Int]
    BY <1>2 DEF NIL
  <2>3. t.next \in Nat /\ t.size \in Nat /\ t.minDeleted \in Nat
    BY <1>1, <1>2
  <2> QED BY <1>2, <2>1, <2>2, <2>3 DEF TableTypeOK
<1>5. Live(t) = {} /\ \A s, n : Colliding(t, s, n) = {}
  BY <1>3 DEF Live, Colliding
<1>6. CountsLive(t)
  BY <1>2, <1>5, FS_EmptySet DEF CountsLive
<1>7. Distinct(t) /\ Chained(t)
  BY <1>2, <1>5 DEF Distinct, Chained, IsLatest
<1> QED BY <1>1, <1>2, <1>4, <1>5, <1>6, <1>7 DEF TableInv, t

\* u is t with one more bucket, which is its last and the head of its chain.
Added(u, t, k, v) ==
  /\ u = [f \in Fields |-> u[f]]
  /\ u.key = [j \in 0 .. t.next |-> IF j = t.next THEN k ELSE t.key[j]]
  /\ u.value = [j \in 0 .. t.next |-> IF j = t.next THEN v ELSE t.value[j]]
  /\ u.link = [j \in 0 .. t.next |-> IF j = t.next THEN t.lookup[Slot(t, k)] ELSE t.link[j]]
  /\ u.lookup = [t.lookup EXCEPT ![Slot(t, k)] = t.next]
  /\ u.next = t.next + 1 /\ u.size = t.size + 1
  /\ u.capacity = t.capacity /\ u.minDeleted = t.minDeleted
  /\ Slot(t, k) \in 0 .. t.capacity - 1
  /\ Live(u) = Live(t) \union {t.next}
  /\ \A j \in 0 .. t.next - 1 : /\ u.key[j] = t.key[j] /\ u.value[j] = t.value[j]
                               /\ u.link[j] = t.link[j] /\ j # t.next

\* init_next_bucket adds one entry at the end.
LEMMA InsertBuffer ==
  ASSUME NEW t, TableTypeOK(t), t.next < t.capacity, NEW k \in Key, NEW v \in Value
  PROVE  LET u == InitNextBucket(t, k, v) IN
         /\ TableTypeOK(u) /\ Added(u, t, k, v)
         /\ CountsLive(t) => CountsLive(u)
         /\ MinDeletedOK(t) => MinDeletedOK(u)
<1> DEFINE u == InitNextBucket(t, k, v)
           e == t.next
           h == Slot(t, k)
<1>1. /\ e \in Nat /\ t.size \in Nat /\ t.capacity \in Nat /\ e < t.capacity
      /\ t.capacity \in 1 .. MaxCapacity /\ t.minDeleted \in Nat
      /\ t.key \in [0 .. e - 1 -> Key \union {Undef}]
      /\ t.value \in [0 .. e - 1 -> Value \union {Undef}]
      /\ t.link \in [0 .. e - 1 -> Int]
      /\ t.lookup \in [0 .. t.capacity - 1 -> Int]
  <2>1. t.capacity \in 1 .. MaxCapacity
    BY DEF TableTypeOK
  <2>2. t.capacity \in Nat
    BY <2>1, CapacityAssumption
  <2> QED BY <2>1, <2>2 DEF TableTypeOK
<1>2. /\ u = [f \in Fields |-> u[f]]
      /\ u.key = [j \in 0 .. e |-> IF j = e THEN k ELSE t.key[j]]
      /\ u.value = [j \in 0 .. e |-> IF j = e THEN v ELSE t.value[j]]
      /\ u.link = [j \in 0 .. e |-> IF j = e THEN t.lookup[h] ELSE t.link[j]]
      /\ u.lookup = [t.lookup EXCEPT ![h] = e]
      /\ u.next = e + 1 /\ u.size = t.size + 1
      /\ u.capacity = t.capacity /\ u.minDeleted = t.minDeleted
  BY DEF InitNextBucket, TableTypeOK, Fields
<1>3. h \in 0 .. t.capacity - 1
  BY <1>1, MaskAssumption DEF Slot
<1>4. Live(t) \subseteq 0 .. e - 1 /\ IsFiniteSet(Live(t)) /\ Cardinality(Live(t)) \in Nat
  BY <1>1, LiveIndices
<1>5. k # Undef
  BY UndefAssumption
<1> HIDE DEF u, e, h
<1>11. u.next - 1 = e
  <2>1. e \in Nat
    BY <1>1
  <2>2. u.next = e + 1
    BY <1>2
  <2> QED BY ONLY <2>1, <2>2
<1>6. Live(u) = Live(t) \union {e}
  <2>1. 0 .. e = (0 .. e - 1) \union {e}
    BY ONLY <1>1
  <2>2. \A j \in 0 .. e - 1 : u.key[j] = t.key[j]
    BY <1>1, <1>2
  <2>3. u.key[e] = k
    BY <1>1, <1>2
  <2> QED BY <1>11, <2>1, <2>2, <2>3, <1>5 DEF Live, e
<1>7. TableTypeOK(u)
  <2>7. \A j \in 0 .. e : j = e \/ j \in 0 .. e - 1
    BY ONLY <1>1
  <2>1. u.key \in [0 .. u.next - 1 -> Key \union {Undef}]
    BY <1>1, <1>2, <1>11, <2>7
  <2>2. u.value \in [0 .. u.next - 1 -> Value \union {Undef}]
    BY <1>1, <1>2, <1>11, <2>7
  <2>3. u.link \in [0 .. u.next - 1 -> Int]
    <3>1. t.lookup[h] \in Int
      BY <1>1, <1>3
    <3> QED BY <1>1, <1>2, <1>11, <2>7, <3>1
  <2>4. u.lookup \in [0 .. u.capacity - 1 -> Int]
    <3>1. e \in Int /\ u.capacity = t.capacity
      BY <1>1, <1>2
    <3>2. [t.lookup EXCEPT ![h] = e] \in [0 .. t.capacity - 1 -> Int]
      BY <1>1, <3>1
    <3> QED BY <1>2, <3>1, <3>2
  <2>5. u.next \in Nat /\ u.size \in Nat /\ u.minDeleted \in Nat
    BY <1>1, <1>2
  <2>6. u.capacity \in 1 .. MaxCapacity
    BY <1>1, <1>2
  <2> QED BY <1>2, <2>1, <2>2, <2>3, <2>4, <2>5, <2>6 DEF TableTypeOK
<1>8. CountsLive(t) => CountsLive(u)
  <2>1. e \notin Live(t)
    BY <1>1, <1>4
  <2>2. Cardinality(Live(t) \union {e}) = Cardinality(Live(t)) + 1
    BY <1>4, <2>1, FS_AddElement
  <2> QED BY <1>2, <1>6, <2>2 DEF CountsLive
<1>9. \A j \in 0 .. e - 1 : /\ u.key[j] = t.key[j] /\ u.value[j] = t.value[j]
                            /\ u.link[j] = t.link[j] /\ j # e
  BY <1>1, <1>2
<1>10. ASSUME MinDeletedOK(t) PROVE MinDeletedOK(u)
  <2>1. LiveBelowMin(u)
    <3>1. \A j \in 0 .. u.next - 1 : j = e \/ j \in 0 .. e - 1
      BY <1>1, <1>2
    <3>2. u.key[e] # Undef
      BY <1>6 DEF Live
    <3> QED BY <1>2, <1>9, <1>10, <3>1, <3>2 DEF MinDeletedOK, LiveBelowMin, e
  <2>2. HoleAtMin(t) => HoleAtMin(u)
    BY <1>1, <1>2, <1>9 DEF HoleAtMin, e
  <2> QED BY <1>2, <1>10, <2>1, <2>2 DEF MinDeletedOK
<1> QED BY <1>2, <1>3, <1>6, <1>7, <1>8, <1>9, <1>10 DEF u, e, h, Added

\* The chains are those of the live buckets but for the ones in D.
ChainedBut(t, D) ==
  /\ \A s \in 0 .. t.capacity - 1 : IsLatest(t.lookup[s], Colliding(t, s, t.next) \ D)
  /\ \A i \in Live(t) \ D :
       IsLatest(t.link[i], Colliding(t, Slot(t, t.key[i]), i) \ D)

LEMMA ChainedButNone ==
  ASSUME NEW t
  PROVE  Chained(t) <=> ChainedBut(t, {})
<1>1. \A S : S \ {} = S
  OBVIOUS
<1> QED BY <1>1 DEF Chained, ChainedBut

\* A new bucket at the head of its chain leaves the chains as they were.
LEMMA InsertChains ==
  ASSUME NEW t, t.next \in Nat, NEW u, NEW k, NEW v, Added(u, t, k, v),
         NEW D, D \subseteq Live(t), ChainedBut(t, D),
         t.lookup \in [0 .. t.capacity - 1 -> Int]
  PROVE  ChainedBut(u, D)
<1> DEFINE e == t.next
           h == Slot(t, k)
<1>1. /\ e \in Nat /\ h \in 0 .. t.capacity - 1
      /\ u.link = [j \in 0 .. e |-> IF j = e THEN t.lookup[h] ELSE t.link[j]]
      /\ u.key = [j \in 0 .. e |-> IF j = e THEN k ELSE t.key[j]]
      /\ u.lookup = [t.lookup EXCEPT ![h] = e]
      /\ u.next = e + 1 /\ u.capacity = t.capacity
      /\ Live(u) = Live(t) \union {e}
      /\ \A j \in 0 .. e - 1 : u.key[j] = t.key[j] /\ u.link[j] = t.link[j] /\ j # e
  BY DEF Added
<1>2. Live(t) \subseteq 0 .. e - 1
  BY LiveIndices
<1> HIDE DEF e, h
<1>3. u.key[e] = k /\ u.link[e] = t.lookup[h] /\ e \notin D
  BY <1>1, <1>2
<1>4. \A x : Slot(u, x) = Slot(t, x)
  BY <1>1 DEF Slot
<1>5. \A s : \A n \in Nat : n <= e => Colliding(u, s, n) = Colliding(t, s, n)
  BY <1>1, <1>2, <1>4 DEF Colliding
<1>6. \A s : Colliding(u, s, e + 1) =
              IF s = h THEN Colliding(t, s, e) \union {e} ELSE Colliding(t, s, e)
  <2> TAKE s
  <2>1. \A j \in Live(t) : j < e + 1 /\ j < e
    BY <1>1, <1>2
  <2>2. \A j \in Live(t) : Slot(u, u.key[j]) = Slot(t, t.key[j])
    BY <1>1, <1>2, <1>4
  <2>3. Slot(u, u.key[e]) = h
    BY <1>3, <1>4 DEF h
  <2>4. e < e + 1
    BY <1>1
  <2> QED BY <1>1, <2>1, <2>2, <2>3, <2>4 DEF Colliding
<1>7. /\ \A s \in 0 .. t.capacity - 1 : IsLatest(t.lookup[s], Colliding(t, s, e) \ D)
      /\ \A i \in Live(t) \ D :
           IsLatest(t.link[i], Colliding(t, Slot(t, t.key[i]), i) \ D)
  BY DEF ChainedBut, e
<1>8. ASSUME NEW s \in 0 .. u.capacity - 1
      PROVE  IsLatest(u.lookup[s], Colliding(u, s, u.next) \ D)
  <2>1. CASE s = h
    <3>1. u.lookup[s] = e /\ Colliding(u, s, u.next) = Colliding(t, s, e) \union {e}
      BY <2>1, <1>1, <1>6
    <3>2. \A j \in Colliding(t, s, e) : j <= e
      BY <1>1, <1>2 DEF Colliding
    <3> QED BY <3>1, <3>2, <1>1, <1>3 DEF IsLatest
  <2>2. CASE s # h
    BY <2>2, <1>1, <1>6, <1>7
  <2> QED BY <2>1, <2>2
<1>9. ASSUME NEW i \in Live(u) \ D
      PROVE  IsLatest(u.link[i], Colliding(u, Slot(u, u.key[i]), i) \ D)
  <2>1. CASE i = e
    <3>1. Slot(u, u.key[i]) = h
      BY <2>1, <1>3, <1>4 DEF h
    <3>2. Colliding(u, h, i) = Colliding(t, h, e)
      BY <2>1, <1>1, <1>5
    <3> QED BY <2>1, <3>1, <3>2, <1>1, <1>3, <1>7
  <2>2. CASE i \in Live(t)
    <3>1. i \in 0 .. e - 1 /\ i \in Nat /\ i <= e
      BY <2>2, <1>1, <1>2
    <3>2. IsLatest(t.link[i], Colliding(t, Slot(t, t.key[i]), i) \ D)
      BY <2>2, <1>7
    <3> QED BY <3>1, <3>2, <1>1, <1>4, <1>5
  <2> QED BY <2>1, <2>2, <1>1
<1> QED BY <1>8, <1>9 DEF ChainedBut

LEMMA InsertKeeps ==
  ASSUME NEW t, TableTypeOK(t), TableInv(t), t.next < t.capacity,
         NEW k \in Key, NEW v \in Value, k \notin KeySet(t)
  PROVE  LET u == InitNextBucket(t, k, v) IN
         /\ TableTypeOK(u) /\ TableInv(u)
         /\ Live(u) = Live(t) \union {t.next}
         /\ u.next = t.next + 1 /\ u.size = t.size + 1
         /\ u.capacity = t.capacity /\ u.minDeleted = t.minDeleted
         /\ \A j \in 0 .. t.next - 1 : u.key[j] = t.key[j]
<1> DEFINE u == InitNextBucket(t, k, v)
<1>1. /\ t.next \in Nat /\ t.capacity \in Nat
      /\ t.lookup \in [0 .. t.capacity - 1 -> Int]
  <2>1. t.capacity \in Nat
    BY CapacityAssumption DEF TableTypeOK
  <2> QED BY <2>1 DEF TableTypeOK
<1>2. TableTypeOK(u) /\ Added(u, t, k, v) /\ CountsLive(u)
  BY InsertBuffer DEF TableInv
<1> HIDE DEF u
<1>3. /\ Live(u) = Live(t) \union {t.next}
      /\ u.next = t.next + 1 /\ u.size = t.size + 1
      /\ u.capacity = t.capacity /\ u.minDeleted = t.minDeleted
      /\ \A j \in 0 .. t.next - 1 : u.key[j] = t.key[j]
      /\ u.key[t.next] = k
  <2>1. u.key[t.next] = k
    <3>1. t.next \in 0 .. t.next
      BY <1>1
    <3>2. u.key = [j \in 0 .. t.next |-> IF j = t.next THEN k ELSE t.key[j]]
      BY <1>2 DEF Added
    <3> QED BY ONLY <3>1, <3>2
  <2> QED BY <1>1, <1>2, <2>1 DEF Added
<1>4. Live(t) \subseteq 0 .. t.next - 1
  BY <1>1, LiveIndices
<1>5. Distinct(u)
  <2>1. \A j \in Live(t) : u.key[j] = t.key[j] /\ t.key[j] # k
    BY <1>3, <1>4 DEF KeySet
  <2> QED BY <2>1, <1>3 DEF Distinct, TableInv
<1>6. Chained(u)
  BY <1>1, <1>2, InsertChains, ChainedButNone DEF TableInv
<1>7. TableInv(u)
  BY <1>1, <1>2, <1>3, <1>5, <1>6 DEF TableInv
<1> QED BY <1>2, <1>3, <1>7 DEF u

\* Dropping a bucket that is not the latest leaves the latest where it was.
LEMMA LatestWithout ==
  ASSUME NEW l, NEW S, IsLatest(l, S), NEW i, l # i
  PROVE  IsLatest(l, S \ {i})
BY DEF IsLatest

\* Dropping the latest of a chain leaves what lies before it.
LEMMA CollidingBefore ==
  ASSUME NEW t, t.next \in Nat, NEW s, NEW n \in Int, NEW i,
         IsLatest(i, Colliding(t, s, n)), i \in Colliding(t, s, n)
  PROVE  Colliding(t, s, n) \ {i} = Colliding(t, s, i)
<1>1. \A j \in Live(t) : j \in Int
  BY LiveIndices
<1>2. i \in Live(t) /\ i < n /\ \A j \in Colliding(t, s, n) : j <= i
  BY DEF IsLatest, Colliding
<1>3. ASSUME NEW j \in Colliding(t, s, n) \ {i} PROVE j \in Colliding(t, s, i)
  <2>1. j \in Live(t) /\ j <= i /\ j # i /\ Slot(t, t.key[j]) = s
    BY <1>2 DEF Colliding
  <2> QED BY <2>1, <1>1, <1>2 DEF Colliding
<1>4. ASSUME NEW j \in Colliding(t, s, i) PROVE j \in Colliding(t, s, n) \ {i}
  <2>1. j \in Live(t) /\ j < i /\ Slot(t, t.key[j]) = s
    BY DEF Colliding
  <2> QED BY <2>1, <1>1, <1>2 DEF Colliding
<1> QED BY <1>3, <1>4

\* Bucket p precedes bucket i in the chain, or i heads it and p is NIL.
Precedes(t, p, i) ==
  LET s == Slot(t, t.key[i])
  IN  IF p = NIL THEN t.lookup[s] = i
      ELSE p \in Colliding(t, s, t.next) /\ t.link[p] = i

\* u is t without bucket i, which p precedes: it ends after its last live
\* bucket when the last of t was removed, unless that was the only one.
Deleted(u, t, i, p) ==
  /\ u = [f \in Fields |-> u[f]]
  /\ u.next \in Nat /\ u.next <= t.next
  /\ u.next = t.next \/ (i = t.next - 1 /\ u.next <= i)
  /\ Live(u) = Live(t) \ {i}
  /\ u.size = t.size - 1 /\ t.size \in Nat \ {0}
  /\ u.size = Cardinality(Live(u))
  /\ u.capacity = t.capacity
  /\ u.minDeleted = IF i < t.minDeleted THEN i ELSE t.minDeleted
  /\ u.key = [j \in 0 .. u.next - 1 |-> IF j = i THEN Undef ELSE t.key[j]]
  /\ u.value = [j \in 0 .. u.next - 1 |-> IF j = i THEN Undef ELSE t.value[j]]
  /\ u.link = [j \in 0 .. u.next - 1 |->
                 IF j = i THEN NIL ELSE IF j = p THEN t.link[i] ELSE t.link[j]]
  /\ u.lookup = [s \in 0 .. t.capacity - 1 |->
                   IF p = NIL /\ s = Slot(t, t.key[i])
                   THEN t.link[i] ELSE t.lookup[s]]

LEMMA DeleteBuffer ==
  ASSUME NEW t, TableTypeOK(t), CountsLive(t), NEW i \in Live(t), NEW p
  PROVE  Deleted(DeleteBucket(t, i, p), t, i, p)
<1> DEFINE u == DeleteBucket(t, i, p)
           R == Live(t) \ {i}
           n == IF i = t.next - 1 /\ t.size > 1 THEN Latest(R) + 1 ELSE t.next
<1>1. t.next \in Nat /\ t.size \in Nat
  BY DEF TableTypeOK
<1>2. /\ Live(t) \subseteq 0 .. t.next - 1 /\ IsFiniteSet(Live(t))
      /\ t.size = Cardinality(Live(t))
  BY <1>1, LiveIndices DEF CountsLive
<1>3. /\ IsFiniteSet(R) /\ Cardinality(R) = t.size - 1
      /\ t.size \in Nat \ {0}
  <2>1. Cardinality(R) = Cardinality(Live(t)) - 1 /\ IsFiniteSet(R)
    BY <1>2, FS_RemoveElement
  <2>2. Cardinality(R) \in Nat
    BY <2>1, FS_CardinalityType
  <2> QED BY <1>1, <1>2, <2>1, <2>2
<1>4. i \in 0 .. t.next - 1
  BY <1>2
<1>5. /\ n \in Nat /\ n <= t.next /\ R \subseteq 0 .. n - 1
      /\ n = t.next \/ (i = t.next - 1 /\ n <= i)
  <2>1. CASE i = t.next - 1 /\ t.size > 1
    <3>1. R # {}
      BY <1>1, <1>3, <2>1, FS_EmptySet
    <3>2. R \subseteq 0 .. t.next - 1
      BY <1>2
    <3>3. Latest(R) \in R /\ \A j \in R : j <= Latest(R)
      BY <1>1, <3>1, <3>2, LatestIsLast
    <3>4. PICK x \in R : x = Latest(R)
      BY <3>3
    <3>5. \A j \in R : j \in 0 .. t.next - 1 /\ j # i /\ j <= x
      BY <3>2, <3>3, <3>4
    <3>6. n = x + 1 /\ x \in 0 .. t.next - 1 /\ x # i
      BY <2>1, <3>2, <3>4
    <3>7. n \in Nat /\ n <= t.next /\ n <= i
      BY <1>1, <2>1, <3>6
    <3>8. R \subseteq 0 .. n - 1
      <4>1. \A j \in R : j \in Int /\ 0 <= j /\ j <= x
        BY <1>1, <3>5
      <4>2. x \in Int /\ n - 1 = x
        BY <1>1, <3>6
      <4> HIDE DEF R, n
      <4> QED BY <4>1, <4>2
    <3> QED BY <2>1, <3>7, <3>8
  <2>2. CASE ~(i = t.next - 1 /\ t.size > 1)
    BY <2>2, <1>1, <1>2
  <2> QED BY <2>1, <2>2
<1>6. /\ u = [f \in Fields |-> u[f]]
      /\ u.next = n /\ u.size = t.size - 1 /\ u.capacity = t.capacity
      /\ u.minDeleted = IF i < t.minDeleted THEN i ELSE t.minDeleted
      /\ u.key = [j \in 0 .. n - 1 |-> IF j = i THEN Undef ELSE t.key[j]]
      /\ u.value = [j \in 0 .. n - 1 |-> IF j = i THEN Undef ELSE t.value[j]]
      /\ u.link = [j \in 0 .. n - 1 |->
                     IF j = i THEN NIL ELSE IF j = p THEN t.link[i] ELSE t.link[j]]
      /\ u.lookup = [s \in 0 .. t.capacity - 1 |->
                       IF p = NIL /\ s = Slot(t, t.key[i])
                       THEN t.link[i] ELSE t.lookup[s]]
  BY DEF DeleteBucket, NextWithout, LinkWithout, LookupWithout, MinDeletedWith,
         TableTypeOK, Fields
<1> HIDE DEF n, u
<1>7. Live(u) = R
  <2>1. \A j \in 0 .. n - 1 : /\ j \in 0 .. t.next - 1
                              /\ u.key[j] = IF j = i THEN Undef ELSE t.key[j]
    BY <1>1, <1>5, <1>6
  <2> QED BY <2>1, <1>5, <1>6 DEF Live
<1> QED BY <1>3, <1>5, <1>6, <1>7 DEF u, Deleted

\* remove() unlinks the bucket: what remains is chained as before.
LEMMA DeleteKeeps ==
  ASSUME NEW t, TableTypeOK(t), TableInv(t), NEW i \in Live(t), NEW p,
         Precedes(t, p, i)
  PROVE  LET u == DeleteBucket(t, i, p) IN
         TableTypeOK(u) /\ TableInv(u)
<1> DEFINE u == DeleteBucket(t, i, p)
           h == Slot(t, t.key[i])
<1>1. /\ t.next \in Nat /\ t.capacity \in 1 .. MaxCapacity
      /\ t.minDeleted \in Nat
      /\ t.key \in [0 .. t.next - 1 -> Key \union {Undef}]
      /\ t.value \in [0 .. t.next - 1 -> Value \union {Undef}]
      /\ t.link \in [0 .. t.next - 1 -> Int]
      /\ t.lookup \in [0 .. t.capacity - 1 -> Int]
  BY DEF TableTypeOK
<1>2. /\ u = [f \in Fields |-> u[f]]
      /\ u.next \in Nat /\ u.next <= t.next
      /\ Live(u) = Live(t) \ {i}
      /\ u.size = t.size - 1 /\ t.size \in Nat \ {0}
      /\ u.size = Cardinality(Live(u))
      /\ u.capacity = t.capacity
      /\ u.minDeleted = IF i < t.minDeleted THEN i ELSE t.minDeleted
      /\ u.key = [j \in 0 .. u.next - 1 |-> IF j = i THEN Undef ELSE t.key[j]]
      /\ u.value = [j \in 0 .. u.next - 1 |-> IF j = i THEN Undef ELSE t.value[j]]
      /\ u.link = [j \in 0 .. u.next - 1 |->
                     IF j = i THEN NIL ELSE IF j = p THEN t.link[i] ELSE t.link[j]]
      /\ u.lookup = [s \in 0 .. t.capacity - 1 |->
                       IF p = NIL /\ s = h THEN t.link[i] ELSE t.lookup[s]]
  <2> HIDE DEF u
  <2>1. Deleted(u, t, i, p)
    BY DeleteBuffer DEF TableInv, u
  <2> QED BY <2>1 DEF Deleted
<1>3. /\ Live(t) \subseteq 0 .. t.next - 1
      /\ \A j \in Live(t) : j \in 0 .. t.next - 1 /\ j \in Int /\ j < t.next
  BY <1>1, LiveIndices
<1>4. \A j \in Live(u) : j \in 0 .. u.next - 1
  <2>1. Live(u) \subseteq 0 .. u.next - 1
    BY <1>2, LiveIndices
  <2> QED BY <2>1
<1>5. /\ \A s \in 0 .. t.capacity - 1 : IsLatest(t.lookup[s], Colliding(t, s, t.next))
      /\ \A j \in Live(t) :
           IsLatest(t.link[j], Colliding(t, Slot(t, t.key[j]), j))
  BY DEF TableInv, Chained
<1>6. Precedes(t, p, i) <=> IF p = NIL THEN t.lookup[h] = i
                            ELSE p \in Colliding(t, h, t.next) /\ t.link[p] = i
  BY DEF Precedes
<1>7. t.key[i] \in Key /\ t.key[i] # Undef
  BY <1>1, <1>3 DEF Live
<1>8. h \in 0 .. t.capacity - 1
  BY <1>1, <1>7, MaskAssumption DEF Slot
<1>9. t.link[i] \in Int
  BY <1>1, <1>3
<1> HIDE DEF u, h
<1>10. TableTypeOK(u)
  <2>1. \A j \in 0 .. u.next - 1 : j \in 0 .. t.next - 1
    BY <1>1, <1>2
  <2>2. u.key \in [0 .. u.next - 1 -> Key \union {Undef}]
    BY <1>1, <1>2, <2>1
  <2>3. u.value \in [0 .. u.next - 1 -> Value \union {Undef}]
    BY <1>1, <1>2, <2>1
  <2>4. u.link \in [0 .. u.next - 1 -> Int]
    <3>1. ASSUME NEW j \in 0 .. u.next - 1 PROVE u.link[j] \in Int
      <4>1. t.link[j] \in Int /\ NIL \in Int
        BY <1>1, <2>1 DEF NIL
      <4>2. u.link[j] = IF j = i THEN NIL ELSE IF j = p THEN t.link[i] ELSE t.link[j]
        BY <1>2
      <4> QED BY <4>1, <4>2, <1>9
    <3> QED BY <3>1, <1>2
  <2>5. u.lookup \in [0 .. u.capacity - 1 -> Int]
    BY <1>1, <1>2, <1>9
  <2>6. u.size \in Nat /\ u.minDeleted \in Nat
    BY <1>1, <1>2, <1>3
  <2> QED BY <1>1, <1>2, <2>2, <2>3, <2>4, <2>5, <2>6 DEF TableTypeOK
<1>11. CountsLive(u)
  BY <1>2 DEF CountsLive
<1>12. \A j \in Live(u) : j \in Live(t) /\ j # i /\ u.key[j] = t.key[j]
  BY <1>2, <1>4
<1>13. Distinct(u)
  BY <1>12 DEF TableInv, Distinct
<1>14. \A s, n : Colliding(u, s, n) = Colliding(t, s, n) \ {i}
  <2>1. \A x : Slot(u, x) = Slot(t, x)
    BY <1>2 DEF Slot
  <2>2. \A j \in Live(u) : Slot(u, u.key[j]) = Slot(t, t.key[j])
    BY <2>1, <1>12
  <2> TAKE s, n
  <2>3. Colliding(u, s, n) = {j \in Live(t) \ {i} : j < n /\ Slot(t, t.key[j]) = s}
    BY <1>2, <2>2 DEF Colliding
  <2> QED BY <2>3 DEF Colliding
<1>15. i \in Colliding(t, h, t.next) /\ IsLatest(t.link[i], Colliding(t, h, i))
  BY <1>3, <1>5 DEF Colliding, h
<1>16. \A s, n : i \in Colliding(t, s, n) => s = h
  BY DEF Colliding, h
<1>17. ASSUME NEW s \in 0 .. u.capacity - 1
       PROVE  IsLatest(u.lookup[s], Colliding(u, s, u.next))
  <2>0. Colliding(u, s, u.next) = Colliding(t, s, t.next) \ {i}
    <3>1. Colliding(u, s, u.next) = Colliding(u, s, t.next)
      BY <1>1, <1>2, <1>4, SMTT(30) DEF Colliding
    <3> QED BY <3>1, <1>14
  <2>1. CASE p = NIL /\ s = h
    <3>1. t.lookup[h] = i /\ u.lookup[h] = t.link[i]
      BY <2>1, <1>2, <1>6, <1>8
    <3>2. Colliding(t, h, t.next) \ {i} = Colliding(t, h, i)
      BY <3>1, <1>1, <1>5, <1>8, <1>15, CollidingBefore, SMTT(30)
    <3> QED BY <2>0, <2>1, <3>1, <3>2, <1>15
  <2>2. CASE ~(p = NIL /\ s = h)
    <3>1. u.lookup[s] = t.lookup[s] /\ IsLatest(t.lookup[s], Colliding(t, s, t.next))
      BY <2>2, <1>2, <1>5
    <3>2. t.lookup[s] # i
      <4>1. SUFFICES ASSUME t.lookup[s] = i PROVE FALSE
        OBVIOUS
      <4>2. CASE Colliding(t, s, t.next) = {}
        BY <4>1, <4>2, <3>1, <1>3 DEF IsLatest, NIL
      <4>3. CASE Colliding(t, s, t.next) # {}
        <5>1. i \in Colliding(t, s, t.next) /\ \A j \in Colliding(t, s, t.next) : j <= i
          BY <4>1, <4>3, <3>1 DEF IsLatest
        <5>2. s = h /\ p # NIL
          BY <5>1, <2>2, <1>16
        <5>3. p \in Live(t) /\ p <= i /\ t.link[p] = i /\ Slot(t, t.key[p]) = h
          BY <5>1, <5>2, <1>6 DEF Colliding
        <5>4. IsLatest(i, Colliding(t, h, p))
          BY <5>3, <1>5
        <5>5. Colliding(t, h, p) # {}
          BY <5>4, <1>3 DEF IsLatest, NIL
        <5>6. i < p
          BY <5>4, <5>5 DEF IsLatest, Colliding
        <5> QED BY <5>3, <5>6, <1>3
      <4> QED BY <4>2, <4>3
    <3> QED BY <2>0, <3>1, <3>2, LatestWithout
  <2> QED BY <2>1, <2>2
<1>18. ASSUME NEW j \in Live(u)
       PROVE  IsLatest(u.link[j], Colliding(u, Slot(u, u.key[j]), j))
  <2> DEFINE g == Slot(t, t.key[j])
  <2>0. /\ j \in Live(t) /\ j # i /\ j \in 0 .. u.next - 1 /\ j \in Int
        /\ IsLatest(t.link[j], Colliding(t, g, j))
    BY <1>3, <1>4, <1>5, <1>12
  <2>1. Colliding(u, Slot(u, u.key[j]), j) = Colliding(t, g, j) \ {i}
    <3>1. Slot(u, u.key[j]) = g
      BY <1>2, <1>12 DEF Slot
    <3> QED BY <3>1, <1>14
  <2> HIDE DEF g
  <2>2. i \notin {NIL}
    BY <1>3 DEF NIL
  <2>3. CASE j = p
    <3>1. /\ u.link[j] = t.link[i] /\ t.link[j] = i
          /\ j \in Colliding(t, h, t.next)
      <4>1. p # NIL
        BY <2>0, <2>3, <1>3 DEF NIL
      <4>2. u.link[j] = t.link[i]
        BY <2>0, <2>3, <1>2
      <4> QED BY <2>3, <4>1, <4>2, <1>6
    <3>2. g = h
      BY <3>1 DEF Colliding, g
    <3>3. i \in Colliding(t, h, j)
      BY <2>0, <2>2, <3>1, <3>2 DEF IsLatest
    <3>4. Colliding(t, h, j) \ {i} = Colliding(t, h, i)
      BY <1>1, <2>0, <3>1, <3>2, <3>3, CollidingBefore
    <3> QED BY <2>1, <3>1, <3>2, <3>4, <1>15
  <2>4. CASE j # p
    <3>1. u.link[j] = t.link[j]
      BY <2>0, <2>4, <1>2
    <3>2. t.link[j] # i
      <4>1. SUFFICES ASSUME t.link[j] = i PROVE FALSE
        OBVIOUS
      <4>2. /\ i \in Colliding(t, g, j)
            /\ \A x \in Colliding(t, g, j) : x <= i
        BY <2>0, <2>2, <4>1 DEF IsLatest
      <4>3. g = h /\ i < j
        BY <4>2, <1>16 DEF Colliding
      <4>4. j \in Colliding(t, h, t.next)
        BY <2>0, <4>3, <1>3 DEF Colliding, g
      <4>5. CASE p = NIL
        <5>1. IsLatest(i, Colliding(t, h, t.next))
          BY <4>5, <1>5, <1>6, <1>8
        <5>2. j <= i
          BY <4>4, <5>1 DEF IsLatest
        <5> QED BY <5>2, <4>3, <2>0, <1>3
      <4>6. CASE p # NIL
        <5>1. p \in Live(t) /\ Slot(t, t.key[p]) = h /\ t.link[p] = i
          BY <4>6, <1>6 DEF Colliding
        <5>2. IsLatest(i, Colliding(t, h, p))
          BY <5>1, <1>5
        <5>3. i < p /\ \A x \in Colliding(t, h, p) : x <= i
          BY <5>2, <2>2 DEF IsLatest, Colliding
        <5>4. p < j => p <= i
          BY <5>1, <4>2, <4>3 DEF Colliding
        <5>5. j < p => j <= i
          BY <5>3, <4>4 DEF Colliding
        <5> QED BY <5>1, <5>3, <5>4, <5>5, <4>3, <2>0, <2>4, <1>3
      <4> QED BY <4>5, <4>6
    <3> QED BY <2>0, <2>1, <3>1, <3>2, LatestWithout
  <2> QED BY <2>3, <2>4
<1>19. u.next <= u.capacity
  BY <1>1, <1>2, CapacityAssumption DEF TableInv
<1> QED BY <1>10, <1>11, <1>13, <1>17, <1>18, <1>19 DEF TableInv, Chained, u

\* A buffer without deleted buckets, whose minDeleted says so, is in order.
LEMMA NoneDeleted ==
  ASSUME NEW t, t.capacity \in Nat \ {0}, t.minDeleted = t.capacity,
         Live(t) = 0 .. t.next - 1
  PROVE  MinDeletedOK(t)
BY DEF MinDeletedOK, LiveBelowMin, Live

\* A buffer that ends at or before minDeleted has no deleted buckets.
LEMMA LiveToTheEnd ==
  ASSUME NEW t, t.next \in Nat, t.minDeleted \in Nat, CountsLive(t),
         LiveBelowMin(t), t.next <= t.minDeleted
  PROVE  IsPacked(t)
<1>1. Live(t) = 0 .. t.next - 1
  BY DEF LiveBelowMin, Live
<1>2. Cardinality(0 .. t.next - 1) = t.next
  BY IndicesBelow
<1> QED BY <1>1, <1>2 DEF CountsLive, IsPacked

\* A removal from a table whose minDeleted is in order leaves it in order, and
\* a table that is then truncated is one that pack() handles: although
\* minDeleted may point at a live bucket, it never does in a table so sparse.
LEMMA DeleteMin ==
  ASSUME NEW t, TableTypeOK(t), CountsLive(t), MinDeletedOK(t),
         NEW i \in Live(t), NEW p
  PROVE  LET u == DeleteBucket(t, i, p) IN
         /\ LiveBelowMin(u)
         /\ Truncates(u) => IsPacked(u) \/ HoleAtMin(u)
         /\ ~Truncates(u) => MinDeletedOK(u)
<1> DEFINE u == DeleteBucket(t, i, p)
           m == t.minDeleted
<1>1. /\ t.next \in Nat /\ t.size \in Nat /\ m \in Nat
      /\ t.capacity \in 1 .. MaxCapacity
  BY DEF TableTypeOK
<1>2. /\ u.next \in Nat /\ u.next <= t.next
      /\ u.next = t.next \/ (i = t.next - 1 /\ u.next <= i)
      /\ Live(u) = Live(t) \ {i}
      /\ u.size = t.size - 1 /\ t.size \in Nat \ {0}
      /\ u.size = Cardinality(Live(u))
      /\ u.capacity = t.capacity
      /\ u.minDeleted = IF i < m THEN i ELSE m
      /\ u.key = [j \in 0 .. u.next - 1 |-> IF j = i THEN Undef ELSE t.key[j]]
  <2> HIDE DEF u
  <2>1. Deleted(u, t, i, p)
    BY DeleteBuffer DEF u
  <2> QED BY <2>1 DEF Deleted
<1> DEFINE q == t.capacity \div 4
<1>3. i \in 0 .. t.next - 1
  BY <1>1, LiveIndices
<1>4. t.capacity \in Nat /\ q \in Nat /\ MinCapacity \in Nat \ {0}
  BY <1>1, CapacityAssumption
<1>5. \A j \in 0 .. t.next - 1 : j < m => t.key[j] # Undef
  BY DEF MinDeletedOK, LiveBelowMin
<1>6. /\ \/ m < t.next /\ t.key[m] = Undef
         \/ m > q
         \/ t.capacity \div 2 < MinCapacity
  BY DEF MinDeletedOK, HoleAtMin
<1>7. Truncates(u) <=> u.size <= q /\ t.capacity \div 2 >= MinCapacity
  BY <1>2 DEF Truncates
<1> HIDE DEF u, q
<1>8. LiveBelowMin(u)
  <2>1. ASSUME NEW j \in 0 .. u.next - 1, j < u.minDeleted
        PROVE  u.key[j] # Undef
    <3>1. j \in 0 .. t.next - 1 /\ j < m /\ j # i
      BY <1>1, <1>2, <1>3, <2>1
    <3> QED BY <1>2, <1>5, <3>1
  <2> QED BY <2>1 DEF LiveBelowMin
<1>9. CountsLive(u) /\ u.minDeleted \in Nat
  BY <1>1, <1>2, <1>3 DEF CountsLive
<1>10. u.next <= u.minDeleted => IsPacked(u)
  BY <1>2, <1>8, <1>9, LiveToTheEnd
<1>11. \/ HoleAtMin(u)
       \/ IsPacked(u) /\ u.next <= u.minDeleted
       \/ u.minDeleted = m /\ m > q
       \/ t.capacity \div 2 < MinCapacity
  <2>1. CASE i < m
    <3>1. u.minDeleted = i
      BY <1>2, <2>1
    <3>2. CASE i < u.next
      <4>1. i \in 0 .. u.next - 1
        BY <1>2, <1>3, <3>2
      <4> QED BY <1>2, <3>1, <3>2, <4>1 DEF HoleAtMin
    <3>3. CASE ~(i < u.next)
      BY <1>2, <1>3, <1>10, <3>1, <3>3
    <3> QED BY <3>2, <3>3
  <2>2. CASE ~(i < m)
    <3>1. u.minDeleted = m
      BY <1>2, <2>2
    <3>2. CASE m < t.next /\ t.key[m] = Undef
      <4>1. CASE m < u.next
        <5>1. m \in 0 .. u.next - 1
          BY <1>1, <1>2, <4>1
        <5> QED BY <1>2, <3>1, <3>2, <4>1, <5>1 DEF HoleAtMin
      <4>2. CASE ~(m < u.next)
        BY <1>1, <1>2, <1>10, <3>1, <4>2
      <4> QED BY <4>1, <4>2
    <3> QED BY <1>6, <3>1, <3>2
  <2> QED BY <2>1, <2>2
<1>12. ASSUME Truncates(u), u.minDeleted = m, m > q PROVE IsPacked(u)
  <2>1. SUFFICES ASSUME m < u.next PROVE FALSE
    BY <1>1, <1>2, <1>10, <1>12
  <2>2. 0 .. m - 1 \subseteq Live(u)
    <3>1. ASSUME NEW j \in 0 .. m - 1 PROVE j \in Live(u)
      <4>1. j \in 0 .. u.next - 1 /\ j < u.minDeleted
        BY <1>1, <1>2, <1>12, <2>1
      <4> QED BY <1>8, <4>1 DEF LiveBelowMin, Live
    <3> QED BY <3>1
  <2>3. Cardinality(0 .. m - 1) = m
    BY <1>1, IndicesBelow
  <2>4. IsFiniteSet(Live(u))
    BY <1>2, LiveIndices
  <2>5. Cardinality(0 .. m - 1) <= Cardinality(Live(u))
    BY <2>2, <2>4, FS_Subset
  <2>6. u.size \in Nat /\ m <= u.size
    BY <1>2, <2>3, <2>5
  <2> QED BY <1>1, <1>4, <1>7, <1>12, <2>6
<1>13. Truncates(u) => IsPacked(u) \/ HoleAtMin(u)
  BY <1>4, <1>7, <1>11, <1>12, CapacityAssumption
<1>14. ASSUME ~Truncates(u) PROVE MinDeletedOK(u)
  <2>1. u.size > q \/ t.capacity \div 2 < MinCapacity
    BY <1>2, <1>4, <1>7, <1>14, CapacityAssumption
  <2>2. IsPacked(u) /\ u.next <= u.minDeleted /\ u.size > q => u.minDeleted > q
    BY <1>2, <1>4, <1>9 DEF IsPacked
  <2> QED BY <1>2, <1>8, <1>11, <2>1, <2>2 DEF MinDeletedOK, q
<1> QED BY <1>8, <1>13, <1>14 DEF u

-----------------------------------------------------------------------------
(* The operations on tables: each keeps a sound table sound.               *)

Sound(t, d) == TableTypeOK(t) /\ TableInv(t) /\ MinDeletedInv(t, d)

LEMMA SoundBuffer ==
  ASSUME NEW t, TableTypeOK(t)
  PROVE  /\ BufferOK(t) /\ t = [f \in Fields |-> t[f]]
         /\ t.next \in Nat /\ t.size \in Nat /\ t.minDeleted \in Nat
         /\ t.capacity \in 1 .. MaxCapacity /\ t.capacity \in Nat \ {0}
<1>1. BufferOK(t) /\ t.capacity \in 1 .. MaxCapacity
  BY DEF TableTypeOK, BufferOK
<1>2. t.capacity \in Nat \ {0}
  BY <1>1, CapacityAssumption
<1> QED BY <1>1, <1>2 DEF BufferOK

\* size never exceeds next.
LEMMA SizeWithinNext ==
  ASSUME NEW t, t.next \in Nat, CountsLive(t)
  PROVE  t.size \in Nat /\ t.size <= t.next
<1>1. Live(t) \subseteq 0 .. t.next - 1
  BY LiveIndices
<1>2. IsFiniteSet(0 .. t.next - 1) /\ Cardinality(0 .. t.next - 1) = t.next
  BY IndicesBelow
<1>3. Cardinality(Live(t)) <= Cardinality(0 .. t.next - 1)
  BY <1>1, <1>2, FS_Subset
<1>4. Cardinality(Live(t)) \in Nat
  BY LiveIndices
<1> QED BY <1>2, <1>3, <1>4 DEF CountsLive

LEMMA PackedSound ==
  ASSUME NEW t, TableTypeOK(t), TableInv(t), t.minDeleted = t.capacity,
         Live(t) = 0 .. t.next - 1
  PROVE  Sound(t, FALSE)
<1>1. t.next \in Nat /\ t.capacity \in Nat \ {0}
  BY SoundBuffer
<1>2. t.size = t.next
  BY <1>1, IndicesBelow DEF TableInv, CountsLive
<1>3. ~Hollow(t)
  BY <1>1, <1>2 DEF Hollow
<1>4. MinDeletedOK(t)
  BY <1>1, NoneDeleted
<1> QED BY <1>3, <1>4 DEF Sound, MinDeletedInv

\* A table that rehash() leaves is sound and has no deleted buckets.
LEMMA RehashSound ==
  ASSUME NEW t, BufferOK(t), CountsLive(t), Distinct(t), t.size <= t.capacity
  PROVE  LET u == Rehash(t) IN
         /\ Sound(u, FALSE) /\ KeySet(u) = KeySet(t)
         /\ u.next = t.size /\ u.size = t.size /\ u.capacity = t.capacity
         /\ u.minDeleted = t.capacity
<1> DEFINE u == Rehash(t)
<1>1. /\ TableTypeOK(u) /\ CountsLive(u) /\ Chained(u) /\ Distinct(u)
      /\ KeySet(u) = KeySet(t)
      /\ u.next = t.size /\ u.size = t.size /\ u.capacity = t.capacity
      /\ u.minDeleted = t.capacity
      /\ Live(u) = 0 .. t.size - 1
  BY RehashKeeps
<1> HIDE DEF u
<1>2. Sound(u, FALSE)
  BY <1>1, PackedSound DEF TableInv
<1> QED BY <1>1, <1>2 DEF u

\* The capacity of a buffer may be set before it is rehashed.
LEMMA Recapacitate ==
  ASSUME NEW t, BufferOK(t), NEW c \in 1 .. MaxCapacity
  PROVE  LET u == [t EXCEPT !.capacity = c] IN
         /\ BufferOK(u) /\ u.next = t.next /\ u.size = t.size
         /\ u.capacity = c /\ u.key = t.key /\ Live(u) = Live(t)
         /\ KeySet(u) = KeySet(t) /\ Carried(u, t)
         /\ CountsLive(u) <=> CountsLive(t)
         /\ Distinct(u) <=> Distinct(t)
<1> DEFINE u == [t EXCEPT !.capacity = c]
<1>1. /\ u.next = t.next /\ u.size = t.size /\ u.capacity = c
      /\ u.minDeleted = t.minDeleted
      /\ u.key = t.key /\ u.value = t.value /\ u = [f \in Fields |-> u[f]]
  BY DEF BufferOK, Fields
<1> HIDE DEF u
<1>2. BufferOK(u)
  BY <1>1 DEF BufferOK
<1>3. Live(u) = Live(t)
  BY <1>1 DEF Live
<1>4. /\ CountsLive(u) <=> CountsLive(t)
      /\ Distinct(u) <=> Distinct(t)
      /\ KeySet(u) = KeySet(t)
  BY <1>1, <1>3, SameEntries
<1>5. Carried(u, t)
  BY <1>1, <1>3, CarriedSame
<1> QED BY <1>1, <1>2, <1>3, <1>4, <1>5 DEF u

\* u is t rehashed: its live buckets, packed and chained.
Gathered(u, t) ==
  /\ TableTypeOK(u) /\ CountsLive(u) /\ Chained(u)
  /\ Carried(u, t) /\ (Distinct(t) => Distinct(u)) /\ KeySet(u) = KeySet(t)
  /\ Live(u) = 0 .. u.next - 1 /\ u.next = t.size /\ u.size = t.size
  /\ u.minDeleted = u.capacity

LEMMA RehashGathers ==
  ASSUME NEW t, BufferOK(t), CountsLive(t)
  PROVE  Gathered(Rehash(t), t) /\ Rehash(t).capacity = t.capacity
<1> DEFINE u == Rehash(t)
<1>1. /\ TableTypeOK(u) /\ CountsLive(u) /\ Chained(u) /\ Carried(u, t)
      /\ Distinct(t) => Distinct(u)
      /\ KeySet(u) = KeySet(t)
      /\ u.next = t.size /\ u.size = t.size /\ u.capacity = t.capacity
      /\ u.minDeleted = t.capacity
      /\ Live(u) = 0 .. t.size - 1
  BY RehashKeeps
<1> HIDE DEF u
<1>2. Gathered(u, t) /\ u.capacity = t.capacity
  BY <1>1 DEF Gathered
<1> QED BY <1>2 DEF u

\* What is rehashed after it was moved is gathered too.
LEMMA GatheredOn ==
  ASSUME NEW u, NEW g, NEW t, Gathered(u, g), Carried(g, t),
         Distinct(t) => Distinct(g), KeySet(g) = KeySet(t), g.size = t.size
  PROVE  Gathered(u, t)
<1>1. Carried(u, t)
  BY CarriedOn DEF Gathered
<1> QED BY <1>1 DEF Gathered

\* increase_capacity() makes room for a bucket in a full buffer.
LEMMA IncreaseGathers ==
  ASSUME NEW t, TableTypeOK(t), CountsLive(t), t.next = t.capacity,
         IncreaseCapacity(t).capacity <= MaxCapacity
  PROVE  LET u == IncreaseCapacity(t) IN Gathered(u, t) /\ u.next < u.capacity
<1>1. /\ BufferOK(t) /\ t.next \in Nat /\ t.capacity \in Nat \ {0}
      /\ t = [f \in Fields |-> t[f]]
  BY SoundBuffer
<1>2. t.size \in Nat /\ t.size <= t.next
  BY <1>1, SizeWithinNext
<1>3. CASE t.next > t.size + t.size \div 32
  <2>1. t.size < t.capacity
    BY <1>1, <1>2, <1>3
  <2>2. IncreaseCapacity(t) = Rehash(t)
    BY <1>3 DEF IncreaseCapacity
  <2> DEFINE u == Rehash(t)
  <2>3. Gathered(u, t) /\ u.capacity = t.capacity
    BY <1>1, RehashGathers
  <2> HIDE DEF u
  <2>4. u.next < u.capacity
    BY <2>1, <2>3 DEF Gathered
  <2> QED BY <2>2, <2>3, <2>4 DEF u
<1>4. CASE ~(t.next > t.size + t.size \div 32)
  <2> DEFINE g == [t EXCEPT !.capacity = 2 * t.capacity]
             u == Rehash(g)
  <2>1. IncreaseCapacity(t) = u
    BY <1>4 DEF IncreaseCapacity
  <2>2. u.capacity = 2 * t.capacity
    BY <1>1 DEF Rehash, Compacted, Relink, Gather, Fields
  <2>3. 2 * t.capacity \in 1 .. MaxCapacity
    BY <1>1, <2>1, <2>2, CapacityAssumption
  <2>4. /\ BufferOK(g) /\ g.size = t.size /\ g.capacity = 2 * t.capacity
        /\ KeySet(g) = KeySet(t) /\ CountsLive(g) /\ Carried(g, t)
        /\ Distinct(t) => Distinct(g)
    BY <1>1, <2>3, Recapacitate
  <2> HIDE DEF g
  <2>5. Gathered(u, g) /\ u.capacity = g.capacity
    BY <2>4, RehashGathers
  <2> HIDE DEF u
  <2>6. Gathered(u, t)
    BY <2>4, <2>5, GatheredOn
  <2>7. u.next < u.capacity
    BY <1>1, <1>2, <2>4, <2>5, <2>6 DEF Gathered
  <2> QED BY <2>1, <2>6, <2>7
<1> QED BY <1>3, <1>4

LEMMA IncreaseKeeps ==
  ASSUME NEW t, TableTypeOK(t), TableInv(t), t.next = t.capacity,
         IncreaseCapacity(t).capacity <= MaxCapacity
  PROVE  LET u == IncreaseCapacity(t) IN
         /\ Sound(u, FALSE) /\ KeySet(u) = KeySet(t) /\ u.next < u.capacity
<1> DEFINE u == IncreaseCapacity(t)
<1>1. Gathered(u, t) /\ u.next < u.capacity
  BY IncreaseGathers DEF TableInv
<1> HIDE DEF u
<1>2. u.next \in Nat /\ u.capacity \in Nat
  BY <1>1, SoundBuffer DEF Gathered
<1>3. TableInv(u)
  BY <1>1, <1>2 DEF Gathered, TableInv
<1>4. Sound(u, FALSE)
  BY <1>1, <1>3, PackedSound DEF Gathered
<1> QED BY <1>1, <1>4 DEF Gathered, u

\* auto_truncate() of a table whose first deleted bucket is where minDeleted says.
LEMMA TruncateGathers ==
  ASSUME NEW t, TableTypeOK(t), CountsLive(t), Truncates(t),
         LiveBelowMin(t), IsPacked(t) \/ HoleAtMin(t)
  PROVE  LET u == AutoTruncate(t) IN
         Gathered(u, t) /\ u.next <= u.capacity /\ PackFault(t) = "none"
<1> DEFINE g == Pack(t)
           c == t.capacity \div 2
           w == [g EXCEPT !.capacity = c]
<1>1. /\ BufferOK(t) /\ t.size \in Nat /\ t.capacity \in 1 .. MaxCapacity
      /\ t.capacity \in Nat \ {0}
  BY SoundBuffer
<1>2. /\ BufferOK(g) /\ CountsLive(g) /\ Carried(g, t) /\ KeySet(g) = KeySet(t)
      /\ Distinct(t) => Distinct(g)
      /\ PackFault(t) = "none" /\ g.size = t.size
  BY <1>1, PackKeeps
<1> HIDE DEF g
<1>3. t.size <= t.capacity \div 4 /\ c >= MinCapacity
  BY DEF Truncates
<1>4. c \in 1 .. MaxCapacity /\ t.size <= c
  BY <1>1, <1>3, CapacityAssumption
<1> HIDE DEF c
<1>5. /\ BufferOK(w) /\ CountsLive(w) /\ Carried(w, g) /\ KeySet(w) = KeySet(g)
      /\ Distinct(w) <=> Distinct(g)
      /\ w.size = g.size /\ w.capacity = c
  BY <1>2, <1>4, Recapacitate
<1>6. AutoTruncate(t) = Rehash(w)
  BY DEF AutoTruncate, g, c
<1> HIDE DEF w
<1> DEFINE u == Rehash(w)
<1>7. Gathered(u, w) /\ u.capacity = c
  BY <1>5, RehashGathers
<1> HIDE DEF u
<1>8. Carried(w, t)
  BY <1>2, <1>5, CarriedOn
<1>9. Gathered(u, t)
  BY <1>2, <1>5, <1>7, <1>8, GatheredOn
<1>10. u.next <= u.capacity
  BY <1>4, <1>7, <1>9 DEF Gathered
<1> QED BY <1>2, <1>6, <1>9, <1>10 DEF u

\* A bucket added at the end is past minDeleted or fills no hole.
LEMMA InsertSound ==
  ASSUME NEW t, NEW d \in BOOLEAN, Sound(t, d), t.next < t.capacity,
         NEW k \in Key, NEW v \in Value, k \notin KeySet(t)
  PROVE  Sound(InitNextBucket(t, k, v), d)
<1> DEFINE u == InitNextBucket(t, k, v)
<1>1. TableTypeOK(t) /\ TableInv(t) /\ MinDeletedInv(t, d)
  BY DEF Sound
<1>2. t.next \in Nat /\ t.size \in Nat /\ t.minDeleted \in Nat
  BY <1>1, SoundBuffer
<1>3. /\ TableTypeOK(u) /\ TableInv(u)
      /\ Live(u) = Live(t) \union {t.next}
      /\ u.next = t.next + 1 /\ u.size = t.size + 1
      /\ u.capacity = t.capacity /\ u.minDeleted = t.minDeleted
      /\ \A j \in 0 .. t.next - 1 : u.key[j] = t.key[j]
  BY <1>1, InsertKeeps
<1> HIDE DEF u
<1>4. ~Hollow(u)
  BY <1>2, <1>3 DEF Hollow
<1>5. ASSUME MinDeletedOK(t) PROVE MinDeletedOK(u)
  <2>1. LiveBelowMin(u)
    <3>1. \A j \in 0 .. u.next - 1 : j = t.next \/ j \in 0 .. t.next - 1
      BY <1>2, <1>3
    <3>2. u.key[t.next] # Undef
      BY <1>3 DEF Live
    <3> QED BY <1>3, <1>5, <3>1, <3>2 DEF MinDeletedOK, LiveBelowMin
  <2>2. HoleAtMin(t) => HoleAtMin(u)
    BY <1>2, <1>3 DEF HoleAtMin
  <2> QED BY <1>3, <1>5, <2>1, <2>2 DEF MinDeletedOK
<1>6. MinDeletedInv(u, d)
  BY <1>1, <1>3, <1>4, <1>5 DEF MinDeletedInv
<1> QED BY <1>3, <1>6 DEF Sound, u

\* A removal and the truncation it may bring about; pack() does not fault.
LEMMA RemoveSound ==
  ASSUME NEW t, NEW d \in BOOLEAN, Sound(t, d), NEW i \in Live(t), NEW p,
         Precedes(t, p, i)
  PROVE  LET u == DeleteBucket(t, i, p) IN
         /\ Sound(AutoTruncate(u), d /\ ~Truncates(u))
         /\ Truncates(u) => PackFault(u) = "none"
<1> DEFINE u == DeleteBucket(t, i, p)
<1>1. TableTypeOK(t) /\ TableInv(t) /\ MinDeletedInv(t, d)
  BY DEF Sound
<1>2. CountsLive(t)
  BY <1>1 DEF TableInv
<1>3. TableTypeOK(u) /\ TableInv(u)
  BY <1>1, DeleteKeeps
<1>4. u.capacity = t.capacity /\ t.capacity \in Nat \ {0} /\ u.size \in Nat
  <2> HIDE DEF u
  <2>1. Deleted(u, t, i, p)
    BY <1>1, <1>2, DeleteBuffer DEF u
  <2> QED BY <1>1, <1>3, <2>1, SoundBuffer DEF Deleted
<1>5. ASSUME ~d
      PROVE  /\ LiveBelowMin(u)
             /\ Truncates(u) => IsPacked(u) \/ HoleAtMin(u)
             /\ ~Truncates(u) => MinDeletedOK(u)
  <2>1. MinDeletedOK(t)
    BY <1>1, <1>5 DEF MinDeletedInv
  <2> QED BY <1>1, <1>2, <2>1, DeleteMin
<1> HIDE DEF u
<1>6. d => t.capacity \div 2 < MinCapacity
  BY <1>1 DEF MinDeletedInv
<1>7. t.capacity \div 2 \in Nat /\ t.capacity \div 4 \in Nat /\ MinCapacity \in Nat \ {0}
  BY <1>4, CapacityAssumption
<1>8. ASSUME Truncates(u)
      PROVE  PackFault(u) = "none" /\ Sound(AutoTruncate(u), FALSE)
  <2>1. t.capacity \div 2 >= MinCapacity
    BY <1>4, <1>8 DEF Truncates
  <2>2. ~d
    BY <1>6, <1>7, <2>1
  <2> DEFINE w == AutoTruncate(u)
  <2>3. Gathered(w, u) /\ w.next <= w.capacity /\ PackFault(u) = "none"
    BY <1>3, <1>5, <1>8, <2>2, TruncateGathers DEF TableInv
  <2> HIDE DEF w
  <2>4. TableInv(w)
    BY <1>3, <2>3 DEF Gathered, TableInv
  <2>5. Sound(w, FALSE)
    BY <2>3, <2>4, PackedSound DEF Gathered
  <2> QED BY <2>3, <2>5 DEF w
<1>9. ASSUME ~Truncates(u) PROVE Sound(AutoTruncate(u), d)
  <2>1. AutoTruncate(u) = u
    BY <1>9 DEF AutoTruncate
  <2>2. Hollow(u) \/ d => u.capacity \div 2 < MinCapacity
    BY <1>4, <1>6, <1>7, <1>9 DEF Hollow, Truncates
  <2>3. ~d => MinDeletedOK(u)
    BY <1>5, <1>9
  <2> QED BY <1>3, <2>1, <2>2, <2>3 DEF Sound, MinDeletedInv
<1>10. (d /\ ~Truncates(u)) = IF Truncates(u) THEN FALSE ELSE d
  OBVIOUS
<1> QED BY <1>8, <1>9, <1>10 DEF u

\* A table that is rehashed or grown is still a table.
LEMMA IncreaseShape ==
  ASSUME NEW t, t = [f \in Fields |-> t[f]]
  PROVE  IncreaseCapacity(t) = [f \in Fields |-> IncreaseCapacity(t)[f]]
<1>1. ASSUME NEW w, w = [f \in Fields |-> w[f]]
      PROVE  Relink(w) = [f \in Fields |-> Relink(w)[f]]
  BY <1>1 DEF Relink, Fields
<1>2. ASSUME NEW w, w = [f \in Fields |-> w[f]]
      PROVE  Rehash(w) = [f \in Fields |-> Rehash(w)[f]]
  <2> DEFINE n == Cardinality(Live(w))
             g == Gather(w, [i \in 0 .. n - 1 |-> Nth(Live(w), i)], n)
  <2>1. g = [f \in Fields |-> g[f]]
    BY <1>2 DEF Gather, Fields
  <2>2. Rehash(w) = Relink(w) \/ Rehash(w) = Relink(g)
    BY DEF Rehash, Compacted
  <2> HIDE DEF g
  <2> QED BY <1>1, <1>2, <2>1, <2>2
<1> DEFINE b == [t EXCEPT !.capacity = 2 * t.capacity]
<1>3. b = [f \in Fields |-> b[f]]
  BY DEF Fields
<1>4. IncreaseCapacity(t) = Rehash(t) \/ IncreaseCapacity(t) = Rehash(b)
  BY DEF IncreaseCapacity
<1> HIDE DEF b
<1> QED BY <1>2, <1>3, <1>4

\* A put that found no bucket for its key.
LEMMA PutNewSound ==
  ASSUME NEW t, NEW d \in BOOLEAN, Sound(t, d), NEW k \in Key, NEW v \in Value,
         k \notin KeySet(t), PutNew(t, k, v).capacity <= MaxCapacity
  PROVE  Sound(PutNew(t, k, v), d /\ ~Full(t))
<1>1. TableTypeOK(t) /\ TableInv(t)
  BY DEF Sound
<1>2. /\ t.next \in Nat /\ t.capacity \in Nat \ {0} /\ t.next <= t.capacity
      /\ t = [f \in Fields |-> t[f]]
  BY <1>1, SoundBuffer DEF TableInv
<1>3. CASE t.next = t.capacity
  <2> DEFINE u == IncreaseCapacity(t)
  <2>1. PutNew(t, k, v) = InitNextBucket(u, k, v)
    BY <1>3 DEF PutNew, Full
  <2>2. PutNew(t, k, v).capacity = u.capacity
    <3>1. u = [f \in Fields |-> u[f]]
      BY <1>2, IncreaseShape
    <3> HIDE DEF u
    <3> QED BY <2>1, <3>1 DEF InitNextBucket, Fields
  <2>3. Sound(u, FALSE) /\ KeySet(u) = KeySet(t) /\ u.next < u.capacity
    BY <1>1, <1>3, <2>2, IncreaseKeeps
  <2> HIDE DEF u
  <2>4. Sound(InitNextBucket(u, k, v), FALSE)
    BY <2>3, InsertSound
  <2>5. (d /\ ~Full(t)) = FALSE
    BY <1>3 DEF Full
  <2> QED BY <2>1, <2>4, <2>5
<1>4. CASE t.next # t.capacity
  <2>1. PutNew(t, k, v) = InitNextBucket(t, k, v)
    BY <1>4 DEF PutNew, Full
  <2>2. t.next < t.capacity
    BY <1>2, <1>4
  <2>3. Sound(InitNextBucket(t, k, v), d)
    BY <2>2, InsertSound
  <2>4. (d /\ ~Full(t)) = d
    BY <1>4 DEF Full
  <2> QED BY <2>1, <2>3, <2>4
<1> QED BY <1>3, <1>4

\* A put into a buffer known not to hold the key or any deleted bucket.
LEMMA PutDistinctSound ==
  ASSUME NEW t, NEW d \in BOOLEAN, Sound(t, d), NEW k \in Key, NEW v \in Value,
         IsPacked(t), t.minDeleted = t.capacity, t.next < t.capacity,
         k \notin KeySet(t), PutDistinctBucket(t, k, v).capacity <= MaxCapacity
  PROVE  Sound(PutDistinctBucket(t, k, v), FALSE)
<1> DEFINE u == InitNextBucket(t, k, v)
<1>1. TableTypeOK(t) /\ TableInv(t)
  BY DEF Sound
<1>2. t.next \in Nat /\ CountsLive(t)
  BY <1>1, SoundBuffer DEF TableInv
<1>3. Live(t) = 0 .. t.next - 1
  BY <1>2, PackedIsLive
<1>4. Sound(t, FALSE)
  BY <1>1, <1>3, PackedSound
<1>5. Sound(u, FALSE)
  BY <1>4, InsertSound
<1> HIDE DEF u
<1>6. CASE u.next = u.capacity
  <2>1. PutDistinctBucket(t, k, v) = IncreaseCapacity(u)
    BY <1>6 DEF PutDistinctBucket, Full, u
  <2>2. TableTypeOK(u) /\ TableInv(u)
    BY <1>5 DEF Sound
  <2> QED BY <1>6, <2>1, <2>2, IncreaseKeeps
<1>7. CASE u.next # u.capacity
  BY <1>5, <1>7 DEF PutDistinctBucket, Full, u
<1> QED BY <1>6, <1>7

\* clear(), as long as the buffer it leaves is large enough for what it left.
LEMMA ClearSound ==
  ASSUME NEW t, NEW d \in BOOLEAN, Sound(t, d),
         ClearTable(t).next <= ClearTable(t).capacity
  PROVE  Sound(ClearTable(t), ClearTable(t).next > 0)
<1> DEFINE b == IF t.size = 0 THEN t ELSE Fresh(t.capacity)
           c == IF t.capacity > MinCapacity THEN MinCapacity ELSE t.capacity
           u == ClearTable(t)
<1>1. TableTypeOK(t) /\ CountsLive(t) /\ t.capacity \in 1 .. MaxCapacity
  BY SoundBuffer DEF Sound, TableInv
<1>2. c \in 1 .. MaxCapacity /\ c \in Nat \ {0} /\ c \div 2 < MinCapacity
  BY <1>1, CapacityAssumption
<1>3. TableTypeOK(b) /\ b.size = 0 /\ Live(b) = {}
  <2>1. CASE t.size = 0
    <3>1. IsFiniteSet(Live(t)) /\ Cardinality(Live(t)) = 0
      BY <1>1, <2>1, SoundBuffer, LiveIndices DEF CountsLive
    <3> QED BY <1>1, <2>1, <3>1, FS_EmptySet
  <2>2. CASE t.size # 0
    BY <1>1, <2>2, FreshInv
  <2> QED BY <2>1, <2>2
<1> HIDE DEF b, c
<1>4. /\ b = [f \in Fields |-> b[f]] /\ b.next \in Nat
      /\ b.key \in [0 .. b.next - 1 -> Key \union {Undef}]
      /\ b.value \in [0 .. b.next - 1 -> Value \union {Undef}]
      /\ b.link \in [0 .. b.next - 1 -> Int]
  BY <1>3 DEF TableTypeOK
<1>5. u = [b EXCEPT !.capacity = c, !.minDeleted = c,
                    !.lookup = [s \in 0 .. c - 1 |-> NIL]]
  BY DEF ClearTable, b, c
<1>6. /\ u = [f \in Fields |-> u[f]]
      /\ u.key = b.key /\ u.value = b.value /\ u.link = b.link
      /\ u.next = b.next /\ u.size = 0 /\ u.capacity = c /\ u.minDeleted = c
      /\ u.lookup = [s \in 0 .. c - 1 |-> NIL]
  BY <1>3, <1>4, <1>5 DEF Fields
<1>7. u.next <= u.capacity
  OBVIOUS
<1> HIDE DEF u
<1>8. TableTypeOK(u)
  <2>1. u.lookup \in [0 .. u.capacity - 1 -> Int]
    BY <1>6 DEF NIL
  <2>2. u.next \in Nat /\ u.size \in Nat /\ u.minDeleted \in Nat
        /\ u.capacity \in 1 .. MaxCapacity
    BY <1>2, <1>4, <1>6
  <2>3. /\ u.key \in [0 .. u.next - 1 -> Key \union {Undef}]
        /\ u.value \in [0 .. u.next - 1 -> Value \union {Undef}]
        /\ u.link \in [0 .. u.next - 1 -> Int]
    BY <1>4, <1>6
  <2> QED BY <1>6, <2>1, <2>2, <2>3 DEF TableTypeOK
<1>9. Live(u) = {} /\ \A s, n : Colliding(u, s, n) = {}
  BY <1>3, <1>6 DEF Live, Colliding
<1>10. CountsLive(u)
  BY <1>6, <1>9, FS_EmptySet DEF CountsLive
<1>11. TableInv(u)
  BY <1>6, <1>7, <1>9, <1>10 DEF TableInv, Distinct, Chained, IsLatest
<1>12. u.next = 0 => MinDeletedOK(u)
  <2>1. u.next = 0 => Live(u) = 0 .. u.next - 1
    BY <1>9
  <2> QED BY <1>2, <1>6, <2>1, NoneDeleted
<1>13. MinDeletedInv(u, u.next > 0)
  BY <1>2, <1>4, <1>6, <1>12 DEF MinDeletedInv
<1> QED BY <1>8, <1>11, <1>13 DEF Sound, u

\* ensure_capacity() grows and rehashes.
LEMMA EnsureSound ==
  ASSUME NEW t, NEW d \in BOOLEAN, Sound(t, d),
         NEW c \in AllocCapacities, c > t.capacity
  PROVE  Sound(Rehash([t EXCEPT !.capacity = c]), FALSE)
<1> DEFINE u == [t EXCEPT !.capacity = c]
<1>1. /\ BufferOK(t) /\ CountsLive(t) /\ Distinct(t) /\ t.next <= t.capacity
      /\ t.next \in Nat /\ t.capacity \in Nat \ {0}
  BY SoundBuffer DEF Sound, TableInv
<1>2. c \in 1 .. MaxCapacity /\ c \in Nat
  BY CapacityAssumption
<1>3. BufferOK(u) /\ CountsLive(u) /\ Distinct(u) /\ u.size = t.size /\ u.capacity = c
  BY <1>1, <1>2, Recapacitate
<1>4. t.size \in Nat /\ t.size <= t.next
  BY <1>1, SizeWithinNext
<1>5. u.size <= u.capacity
  BY <1>1, <1>2, <1>3, <1>4
<1> QED BY <1>3, <1>5, RehashSound

\* A sort that does not fault: when every key survives pack(), the buffer it
\* leaves holds each of them once, wherever minDeleted pointed.
LEMMA PackCovers ==
  ASSUME NEW t, TableTypeOK(t), CountsLive(t), Distinct(t), PackFault(t) = "none"
  PROVE  LET u == Pack(t) IN
         /\ BufferOK(u) /\ CountsLive(u) /\ Distinct(u)
         /\ u.size = t.size /\ u.next = t.size /\ u.capacity = t.capacity
         /\ Live(u) = 0 .. t.size - 1
<1>1. /\ BufferOK(t) /\ t.next \in Nat /\ t.minDeleted \in Nat
      /\ t = [f \in Fields |-> t[f]] /\ t.capacity \in Nat \ {0}
  BY SoundBuffer
<1>2. t.size \in Nat /\ t.size <= t.next
  BY <1>1, SizeWithinNext
<1>3. CASE IsPacked(t)
  <2>1. Live(t) = 0 .. t.next - 1
    BY <1>1, <1>3, PackedIsLive
  <2> QED BY <1>1, <1>3, <2>1 DEF Pack, IsPacked
<1>4. CASE ~IsPacked(t)
  <2> DEFINE m == t.minDeleted
             A == {i \in Live(t) : i > m}
             src == [i \in 0 .. t.size - 1 |->
                       IF i \in m .. m + Cardinality(A) - 1
                       THEN Nth(A, i - m) ELSE i]
             g == Gather(t, src, t.size)
             u == Pack(t)
  <2>1. u = [g EXCEPT !.minDeleted = t.capacity]
    BY <1>4 DEF Pack
  <2>2. KeySet(u) = KeySet(t)
    BY <1>4 DEF PackFault
  <2>3. \A i \in 0 .. t.size - 1 : src[i] \in 0 .. t.next - 1
    <3>1. A \subseteq 0 .. t.next - 1
      BY <1>1, LiveIndices
    <3>2. /\ Cardinality(A) \in Nat
          /\ \A j \in 0 .. Cardinality(A) - 1 : Nth(A, j) \in A
      BY <1>1, <3>1, IndicesFinite, NthIsMember
    <3> DEFINE c == Cardinality(A)
    <3> HIDE DEF A, c
    <3>3. ASSUME NEW i \in 0 .. t.size - 1 PROVE src[i] \in 0 .. t.next - 1
      <4>1. CASE i \in m .. m + c - 1
        <5>1. i - m \in 0 .. c - 1
          BY <1>1, <3>2, <4>1 DEF c
        <5> QED BY <3>1, <3>2, <4>1, <5>1 DEF c
      <4>2. CASE i \notin m .. m + c - 1
        BY <1>1, <1>2, <4>2 DEF c
      <4> QED BY <4>1, <4>2
    <3> QED BY <3>3
  <2> HIDE DEF src
  <2>4. /\ u = [f \in Fields |-> u[f]]
        /\ u.key = [i \in 0 .. t.size - 1 |-> t.key[src[i]]]
        /\ u.value = [i \in 0 .. t.size - 1 |-> t.value[src[i]]]
        /\ u.next = t.size /\ u.size = t.size /\ u.capacity = t.capacity
        /\ u.minDeleted = t.capacity
    BY <1>1, <2>1 DEF Gather, Fields
  <2> HIDE DEF u
  <2>5. BufferOK(u)
    <3>1. /\ t.key \in [0 .. t.next - 1 -> Key \union {Undef}]
          /\ t.value \in [0 .. t.next - 1 -> Value \union {Undef}]
          /\ t.capacity \in 1 .. MaxCapacity
      BY <1>1 DEF BufferOK
    <3>2. \A i \in 0 .. t.size - 1 : /\ t.key[src[i]] \in Key \union {Undef}
                                     /\ t.value[src[i]] \in Value \union {Undef}
      BY <2>3, <3>1
    <3>3. /\ u.key \in [0 .. t.size - 1 -> Key \union {Undef}]
          /\ u.value \in [0 .. t.size - 1 -> Value \union {Undef}]
      BY <2>4, <3>2
    <3> QED BY <1>1, <1>2, <2>4, <3>1, <3>3 DEF BufferOK
  <2> DEFINE n == t.size
             I == 0 .. n - 1
             f == [i \in Live(t) |-> t.key[i]]
  <2>6. IsFiniteSet(Live(t)) /\ Cardinality(Live(t)) = n
    BY <1>1, LiveIndices DEF CountsLive
  <2>7. IsFiniteSet(KeySet(t)) /\ Cardinality(KeySet(t)) = n
    <3>1. f \in Surjection(Live(t), KeySet(t))
      BY DEF KeySet, Surjection
    <3>2. f \in Injection(Live(t), KeySet(t))
      BY DEF KeySet, Distinct, Injection, IsInjective
    <3> HIDE DEF f
    <3> QED BY <2>6, <3>1, <3>2, FS_Surjection
  <2>8. IsFiniteSet(Live(u)) /\ Live(u) \subseteq I
    BY <1>2, <2>4, LiveIndices
  <2>9. IsFiniteSet(I) /\ Cardinality(I) = n
    BY <1>2, IndicesBelow
  <2> DEFINE e == [i \in Live(u) |-> u.key[i]]
  <2>10. e \in Surjection(Live(u), KeySet(u))
    BY DEF KeySet, Surjection
  <2> HIDE DEF e, I
  <2>11. /\ Cardinality(KeySet(u)) <= Cardinality(Live(u))
         /\ Cardinality(KeySet(u)) = Cardinality(Live(u)) <=>
               e \in Injection(Live(u), KeySet(u))
    BY <2>8, <2>10, FS_Surjection
  <2>12. Cardinality(Live(u)) <= n /\ Cardinality(Live(u)) \in Nat
    BY <2>8, <2>9, FS_Subset, FS_CardinalityType
  <2>13. Cardinality(Live(u)) = n
    BY <1>2, <2>2, <2>7, <2>11, <2>12
  <2>14. Live(u) = I
    BY <2>8, <2>9, <2>13, FS_Subset
  <2>15. e \in Injection(Live(u), KeySet(u))
    BY <2>2, <2>7, <2>11, <2>13
  <2>16. Distinct(u)
    BY <2>15 DEF Distinct, Injection, IsInjective, e
  <2>17. CountsLive(u)
    BY <2>4, <2>13 DEF CountsLive
  <2> QED BY <2>4, <2>5, <2>14, <2>16, <2>17 DEF u, I
<1> QED BY <1>3, <1>4

\* A sort or a reversal that did not fault.
LEMMA RearrangeSound ==
  ASSUME NEW t, NEW d \in BOOLEAN, Sound(t, d), PackFault(t) = "none",
         NEW p \in Shuffles(t.size)
  PROVE  Sound(Rehash(Gather(Pack(t), p, t.size)), FALSE)
<1> DEFINE u == Pack(t)
           n == t.size
           g == Gather(u, p, n)
<1>1. /\ TableTypeOK(t) /\ CountsLive(t) /\ Distinct(t)
      /\ t.next \in Nat /\ t.next <= t.capacity /\ t.capacity \in Nat
  BY SoundBuffer DEF Sound, TableInv
<1>2. n \in Nat /\ n <= t.next
  BY <1>1, SizeWithinNext
<1>3. /\ BufferOK(u) /\ CountsLive(u) /\ Distinct(u)
      /\ u.size = n /\ u.capacity = t.capacity /\ Live(u) = 0 .. n - 1
  BY <1>1, PackCovers
<1> HIDE DEF u, n
<1>4. /\ p \in [0 .. n - 1 -> Live(u)]
      /\ \A i, j \in 0 .. n - 1 : p[i] = p[j] => i = j
  BY <1>3 DEF Shuffles, n
<1>5. /\ BufferOK(g) /\ g.size = n /\ g.capacity = t.capacity
      /\ Cardinality(Live(g)) = n /\ Distinct(g)
  BY <1>2, <1>3, <1>4, GatherKeeps
<1> HIDE DEF g
<1>6. CountsLive(g) /\ g.size <= g.capacity
  BY <1>1, <1>2, <1>5 DEF CountsLive
<1>7. Sound(Rehash(g), FALSE)
  BY <1>5, <1>6, RehashSound
<1> QED BY <1>7 DEF g, u, n

\* Reversing is one of the permutations.
LEMMA ReversalShuffles ==
  ASSUME NEW n \in Nat
  PROVE  [i \in 0 .. n - 1 |-> n - 1 - i] \in Shuffles(n)
BY DEF Shuffles

\* A table copied out of another from distinct buckets is sound unless one of
\* them was a deleted one.
LEMMA CopySound ==
  ASSUME NEW t, NEW d \in BOOLEAN, Sound(t, d), NEW n \in Nat,
         NEW src \in [0 .. n - 1 -> 0 .. t.next - 1],
         \A i, j \in 0 .. n - 1 : src[i] = src[j] => i = j,
         NEW c \in 1 .. MaxCapacity, n <= c,
         Cardinality(Live(CopyOf(t, src, n, c))) = n
  PROVE  Sound(CopyOf(t, src, n, c), FALSE)
<1> DEFINE g == Gather(t, src, n)
           w == [g EXCEPT !.capacity = c, !.size = n]
           u == CopyOf(t, src, n, c)
<1>1. /\ BufferOK(t) /\ Distinct(t)
      /\ t.key \in [0 .. t.next - 1 -> Key \union {Undef}]
      /\ t.value \in [0 .. t.next - 1 -> Value \union {Undef}]
      /\ t.minDeleted \in Nat
  BY SoundBuffer DEF Sound, TableInv, TableTypeOK
<1>2. /\ w = [f \in Fields |-> w[f]]
      /\ w.key = [i \in 0 .. n - 1 |-> t.key[src[i]]]
      /\ w.value = [i \in 0 .. n - 1 |-> t.value[src[i]]]
      /\ w.next = n /\ w.size = n /\ w.capacity = c /\ w.minDeleted = t.minDeleted
  BY <1>1 DEF BufferOK, Gather, Fields
<1>3. u = Relink(w)
  BY DEF CopyOf
<1> HIDE DEF w, u
<1>4. BufferOK(w)
  <2>1. \A i \in 0 .. n - 1 : /\ t.key[src[i]] \in Key \union {Undef}
                              /\ t.value[src[i]] \in Value \union {Undef}
    BY <1>1
  <2>2. /\ w.key \in [0 .. n - 1 -> Key \union {Undef}]
        /\ w.value \in [0 .. n - 1 -> Value \union {Undef}]
    BY <1>2, <2>1
  <2> QED BY <1>1, <1>2, <2>2 DEF BufferOK
<1>5. /\ TableTypeOK(u) /\ Chained(u) /\ Live(u) = Live(w)
      /\ u.key = w.key /\ u.next = n
      /\ u.size = n /\ u.capacity = c /\ u.minDeleted = c
  BY <1>2, <1>3, <1>4, RelinkRebuilds
<1>6. Live(u) = 0 .. n - 1
  <2>1. Cardinality(0 .. n - 1) = n /\ IsFiniteSet(0 .. n - 1)
    BY IndicesBelow
  <2>2. Live(u) \in SUBSET (0 .. n - 1)
    BY <1>5, LiveIndices
  <2>3. Cardinality(Live(u)) = n
    BY DEF u
  <2> QED BY <2>1, <2>2, <2>3, FS_Subset
<1>7. CountsLive(u)
  BY <1>5, <1>6, IndicesBelow DEF CountsLive
<1>8. Distinct(u)
  <2>1. \A i \in 0 .. n - 1 : u.key[i] = t.key[src[i]] /\ u.key[i] # Undef
    BY <1>2, <1>5, <1>6 DEF Live
  <2>2. \A i \in 0 .. n - 1 : src[i] \in Live(t)
    BY <2>1 DEF Live
  <2> QED BY <1>1, <1>6, <2>1, <2>2 DEF Distinct
<1>9. TableInv(u)
  BY <1>5, <1>7, <1>8 DEF TableInv
<1> QED BY <1>5, <1>6, <1>9, PackedSound DEF u

\* filter() and reversed() copy all their buckets from live ones.
LEMMA ScanCopies ==
  ASSUME NEW t, NEW d \in BOOLEAN, Sound(t, d)
  PROVE  /\ t.next \in Nat /\ t.capacity \in 1 .. MaxCapacity
         /\ t.size \in Nat /\ t.size <= t.next /\ t.next <= t.capacity
         /\ t.capacity \in Nat
         /\ Live(t) \subseteq 0 .. t.next - 1 /\ t.size = Cardinality(Live(t))
<1>1. /\ TableTypeOK(t) /\ CountsLive(t) /\ t.next <= t.capacity
  BY DEF Sound, TableInv
<1>2. t.next \in Nat /\ t.capacity \in 1 .. MaxCapacity /\ t.capacity \in Nat
  BY <1>1, SoundBuffer
<1> QED BY <1>1, <1>2, SizeWithinNext, LiveIndices DEF CountsLive

LEMMA FilterSound ==
  ASSUME NEW t, NEW d \in BOOLEAN, Sound(t, d), NEW S \in SUBSET Live(t),
         Cardinality(Live(Filter(t, S))) = Filter(t, S).size
  PROVE  Sound(Filter(t, S), FALSE)
<1> DEFINE n == Cardinality(S)
           src == [r \in 0 .. n - 1 |-> Nth(S, r)]
           u == CopyOf(t, src, n, t.capacity)
<1>1. /\ t.next \in Nat /\ t.capacity \in 1 .. MaxCapacity
      /\ t.next <= t.capacity /\ t.capacity \in Nat
      /\ Live(t) \subseteq 0 .. t.next - 1
  BY ScanCopies
<1>2. /\ n \in Nat /\ src \in [0 .. n - 1 -> S]
      /\ \A i, j \in 0 .. n - 1 : src[i] = src[j] => i = j
  BY <1>1, NthGathers DEF Scanned
<1>3. n <= t.next
  <2>1. S \in SUBSET (0 .. t.next - 1)
    BY <1>1
  <2>2. /\ IsFiniteSet(0 .. t.next - 1)
        /\ Cardinality(0 .. t.next - 1) = t.next
    BY <1>1, IndicesBelow
  <2>3. Cardinality(S) <= Cardinality(0 .. t.next - 1)
    BY <2>1, <2>2, FS_Subset
  <2> QED BY <2>2, <2>3
<1>4. Filter(t, S) = u
  BY DEF Filter
<1> HIDE DEF n, src
<1>5. src \in [0 .. n - 1 -> 0 .. t.next - 1]
  BY <1>1, <1>2
<1>6. u.size = n
  <2>1. t = [f \in Fields |-> t[f]]
    BY DEF Sound, TableTypeOK
  <2> QED BY <2>1 DEF CopyOf, Gather, Relink, Fields
<1>7. n <= t.capacity
  BY <1>1, <1>2, <1>3
<1> HIDE DEF u
<1>8. Cardinality(Live(u)) = n
  BY <1>4, <1>6
<1>9. Cardinality(Live(CopyOf(t, src, n, t.capacity))) = n
  BY <1>8 DEF u
<1>10. Sound(CopyOf(t, src, n, t.capacity), FALSE)
  BY <1>1, <1>2, <1>5, <1>7, <1>9, CopySound
<1> QED BY <1>4, <1>10 DEF u

LEMMA ReversedSound ==
  ASSUME NEW t, NEW d \in BOOLEAN, Sound(t, d),
         Cardinality(Live(Reversed(t))) = Reversed(t).size
  PROVE  Sound(Reversed(t), FALSE)
<1> DEFINE n == t.size
           L == Live(t)
           nth == [r \in 0 .. n - 1 |-> Nth(L, r)]
           src == [r \in 0 .. n - 1 |-> Nth(L, n - 1 - r)]
           u == CopyOf(t, src, n, t.capacity)
<1>1. /\ t.next \in Nat /\ t.capacity \in 1 .. MaxCapacity
      /\ n \in Nat /\ n <= t.next /\ t.next <= t.capacity /\ t.capacity \in Nat
      /\ L \subseteq 0 .. t.next - 1 /\ n = Cardinality(L)
  BY ScanCopies
<1>2. /\ nth \in [0 .. n - 1 -> L]
      /\ \A i, j \in 0 .. n - 1 : nth[i] = nth[j] => i = j
  BY <1>1, NthGathers DEF Scanned
<1>3. Reversed(t) = u
  BY DEF Reversed
<1> HIDE DEF n, L
<1>4. \A r \in 0 .. n - 1 : n - 1 - r \in 0 .. n - 1 /\ src[r] = nth[n - 1 - r]
  BY <1>1
<1> HIDE DEF nth, src
<1>5. src \in [0 .. n - 1 -> 0 .. t.next - 1]
  <2>1. \A r \in 0 .. n - 1 : src[r] \in 0 .. t.next - 1
    BY <1>1, <1>2, <1>4
  <2> QED BY <2>1 DEF src
<1>6. ASSUME NEW i \in 0 .. n - 1, NEW j \in 0 .. n - 1, src[i] = src[j]
      PROVE  i = j
  <2>1. n - 1 - i = n - 1 - j
    BY <1>2, <1>4, <1>6
  <2> QED BY <1>1, <2>1
<1>7. u.size = n
  <2>1. t = [f \in Fields |-> t[f]]
    BY DEF Sound, TableTypeOK
  <2> QED BY <2>1 DEF CopyOf, Gather, Relink, Fields
<1>8. n <= t.capacity
  BY <1>1
<1> HIDE DEF u
<1>9. Cardinality(Live(u)) = n
  BY <1>3, <1>7
<1>10. Cardinality(Live(CopyOf(t, src, n, t.capacity))) = n
  BY <1>9 DEF u
<1>11. Sound(CopyOf(t, src, n, t.capacity), FALSE)
  BY <1>1, <1>5, <1>6, <1>8, <1>10, CopySound
<1> QED BY <1>3, <1>11 DEF u

LEMMA FreshSound ==
  ASSUME NEW c \in 1 .. MaxCapacity
  PROVE  Sound(Fresh(c), FALSE)
<1>1. /\ TableTypeOK(Fresh(c)) /\ TableInv(Fresh(c)) /\ Live(Fresh(c)) = {}
      /\ Fresh(c).next = 0 /\ Fresh(c).minDeleted = Fresh(c).capacity
  BY FreshInv
<1> DEFINE t == Fresh(c)
<1> HIDE DEF t
<1>2. Live(t) = 0 .. t.next - 1
  BY <1>1 DEF t
<1>3. TableTypeOK(t) /\ TableInv(t) /\ t.minDeleted = t.capacity
  BY <1>1 DEF t
<1> QED BY <1>2, <1>3, PackedSound DEF t

\* slice() reads buckets of the buffer, each once, by whichever of its three
\* ways, and from left to right: even when minDeleted misleads it, enough live
\* buckets follow.
LEMMA SliceSources ==
  ASSUME NEW t, NEW d \in BOOLEAN, Sound(t, d),
         NEW i \in 0 .. t.size, NEW n \in 0 .. t.size, i + n <= t.size, n # 0
  PROVE  LET src == [r \in 0 .. n - 1 |-> SliceSource(t, i, n, r)] IN
         /\ src \in [0 .. n - 1 -> 0 .. t.next - 1]
         /\ \A x, y \in 0 .. n - 1 : src[x] = src[y] => x = y
         /\ Increasing(src, 0 .. n - 1)
<1> DEFINE L == Live(t)
           B == {j \in L : j > i}
           src == [r \in 0 .. n - 1 |-> SliceSource(t, i, n, r)]
<1>1. /\ t.next \in Nat /\ t.size \in Nat /\ t.size <= t.next
      /\ L \subseteq 0 .. t.next - 1 /\ t.size = Cardinality(L)
  BY ScanCopies
<1>2. i \in Nat /\ n \in Nat \ {0} /\ i < t.size
  BY <1>1
<1>9. ASSUME \A r \in 0 .. n - 1 : src[r] \in 0 .. t.next - 1, Increasing(src, 0 .. n - 1)
      PROVE  \A x, y \in 0 .. n - 1 : src[x] = src[y] => x = y
  <2> SUFFICES ASSUME NEW x \in 0 .. n - 1, NEW y \in 0 .. n - 1,
                      src[x] = src[y], x # y
               PROVE  FALSE
    OBVIOUS
  <2> HIDE DEF src
  <2>1. src[x] \in Int /\ src[y] \in Int /\ (x < y \/ y < x)
    BY <1>1, <1>9
  <2> QED BY <1>9, <2>1 DEF Increasing
<1> SUFFICES /\ \A r \in 0 .. n - 1 : src[r] \in 0 .. t.next - 1
             /\ Increasing(src, 0 .. n - 1)
  BY <1>9
<1>3. CASE IsPacked(t) \/ i + n <= t.minDeleted
  <2>1. \A r \in 0 .. n - 1 : src[r] = i + r
    BY <1>3 DEF SliceSource, Contiguous
  <2> QED BY <1>1, <1>2, <2>1 DEF Increasing
<1>4. CASE ~(IsPacked(t) \/ i + n <= t.minDeleted) /\ i < t.minDeleted
  <2>1. \A r \in 0 .. n - 1 : src[r] = IF r = 0 THEN i ELSE Nth(B, r - 1)
    BY <1>4 DEF SliceSource, Contiguous
  <2>2. /\ B \subseteq 0 .. t.next - 1 /\ IsFiniteSet(B) /\ Cardinality(B) \in Nat
        /\ IsFiniteSet(L)
    <3>1. B \subseteq 0 .. t.next - 1
      BY <1>1
    <3> QED BY <1>1, <3>1, IndicesFinite
  <2>3. n - 1 <= Cardinality(B)
    <3>1. L \subseteq (0 .. i) \union B
      <4>1. \A j \in L : j \in 0 .. t.next - 1
        BY <1>1
      <4>2. \A j \in L : j \in 0 .. i \/ j \in B
        BY <1>2, <4>1
      <4> QED BY <4>2
    <3>2. IsFiniteSet(0 .. i) /\ Cardinality(0 .. i) = i + 1
      <4>1. IsFiniteSet(0 .. (i + 1) - 1) /\ Cardinality(0 .. (i + 1) - 1) = i + 1
        BY <1>2, IndicesBelow
      <4>2. (i + 1) - 1 = i
        BY <1>2
      <4> QED BY <4>1, <4>2
    <3> HIDE DEF L, B
    <3>3. /\ IsFiniteSet((0 .. i) \union B)
          /\ Cardinality((0 .. i) \union B)
               = Cardinality(0 .. i) + Cardinality(B) - Cardinality((0 .. i) \intersect B)
      BY <2>2, <3>2, FS_Union
    <3>4. Cardinality(L) <= Cardinality((0 .. i) \union B)
      BY <3>1, <3>3, FS_Subset
    <3>5. Cardinality((0 .. i) \intersect B) \in Nat
      BY <2>2, FS_Intersection, FS_CardinalityType
    <3> QED BY <1>1, <1>2, <2>2, <3>2, <3>3, <3>4, <3>5
  <2>4. \A r \in 0 .. n - 1 : r # 0 => r - 1 \in 0 .. Cardinality(B) - 1
    BY <1>2, <2>2, <2>3
  <2>5. \A q \in 0 .. Cardinality(B) - 1 : Nth(B, q) \in B
    BY <1>1, <2>2, NthIsMember
  <2>6. \A q, z \in 0 .. Cardinality(B) - 1 : q < z => Nth(B, q) < Nth(B, z)
    BY <1>1, <2>2, NthIncreases
  <2>7. \A j \in B : j \in 0 .. t.next - 1 /\ j > i
    BY <1>1
  <2> HIDE DEF B, L, src
  <2>8. \A r \in 0 .. n - 1 : r # 0 => src[r] \in B
    BY <2>1, <2>4, <2>5
  <2>9. src[0] = i /\ i \in 0 .. t.next - 1
    BY <1>1, <1>2, <2>1
  <2>10. \A r \in 0 .. n - 1 : src[r] \in 0 .. t.next - 1
    BY <2>7, <2>8, <2>9
  <2>11. ASSUME NEW x \in 0 .. n - 1, NEW y \in 0 .. n - 1, x < y
         PROVE  src[x] < src[y]
    <3>1. y # 0 /\ src[y] \in B
      BY <1>2, <2>8, <2>11
    <3>2. CASE x = 0
      BY <2>7, <2>9, <3>1, <3>2
    <3>3. CASE x # 0
      <4>1. x - 1 < y - 1
        BY <1>2, <2>11
      <4> QED BY <2>1, <2>4, <2>6, <3>1, <3>3, <4>1
    <3> QED BY <3>2, <3>3
  <2> QED BY <2>10, <2>11 DEF Increasing
<1>5. CASE ~(IsPacked(t) \/ i + n <= t.minDeleted) /\ ~(i < t.minDeleted)
  <2>1. \A r \in 0 .. n - 1 : src[r] = Nth(L, i + r)
    BY <1>5 DEF SliceSource, Contiguous
  <2>2. \A q \in 0 .. Cardinality(L) - 1 : Nth(L, q) \in L
    BY <1>1, NthIsMember
  <2>3. \A q, z \in 0 .. Cardinality(L) - 1 : q < z => Nth(L, q) < Nth(L, z)
    BY <1>1, NthIncreases
  <2>4. \A r \in 0 .. n - 1 : i + r \in 0 .. Cardinality(L) - 1
    BY <1>1, <1>2
  <2> HIDE DEF L, src
  <2>5. \A r \in 0 .. n - 1 : src[r] \in 0 .. t.next - 1
    BY <1>1, <2>1, <2>2, <2>4
  <2>6. ASSUME NEW x \in 0 .. n - 1, NEW y \in 0 .. n - 1, x < y
        PROVE  src[x] < src[y]
    <3>1. i + x < i + y
      BY <1>2, <2>6
    <3> QED BY <2>1, <2>3, <2>4, <3>1
  <2> QED BY <2>5, <2>6 DEF Increasing
<1> QED BY <1>3, <1>4, <1>5

LEMMA SliceSound ==
  ASSUME NEW t, NEW d \in BOOLEAN, Sound(t, d),
         NEW i \in 0 .. t.size, NEW n \in 0 .. t.size, i + n <= t.size,
         Cardinality(Live(Slice(t, i, n))) = Slice(t, i, n).size
  PROVE  Sound(Slice(t, i, n), FALSE)
<1>1. CASE n = 0
  <2>1. MinCapacity \in 1 .. MaxCapacity
    BY CapacityAssumption
  <2> QED BY <1>1, <2>1, FreshSound DEF Slice
<1>2. CASE n # 0
  <2> DEFINE src == [r \in 0 .. n - 1 |-> SliceSource(t, i, n, r)]
             u == CopyOf(t, src, n, n)
  <2>1. /\ src \in [0 .. n - 1 -> 0 .. t.next - 1]
        /\ \A x, y \in 0 .. n - 1 : src[x] = src[y] => x = y
    BY <1>2, SliceSources
  <2>2. n \in Nat /\ n \in 1 .. MaxCapacity /\ n <= n
    <3>1. /\ t.size \in Nat /\ t.size <= t.next /\ t.next <= t.capacity
          /\ t.next \in Nat /\ t.capacity \in 1 .. MaxCapacity
      BY ScanCopies
    <3>2. n \in Int /\ 1 <= n /\ n <= t.capacity
      BY <1>2, <3>1
    <3> QED BY <3>1, <3>2, CapacityAssumption
  <2>3. Slice(t, i, n) = u
    BY <1>2 DEF Slice
  <2> HIDE DEF src
  <2>4. u.size = n
    <3>1. t = [f \in Fields |-> t[f]]
      BY DEF Sound, TableTypeOK
    <3> QED BY <3>1 DEF CopyOf, Gather, Relink, Fields
  <2> HIDE DEF u
  <2>5. Cardinality(Live(u)) = n
    BY <2>3, <2>4
  <2>6. Cardinality(Live(CopyOf(t, src, n, n))) = n
    BY <2>5 DEF u
  <2>7. Sound(CopyOf(t, src, n, n), FALSE)
    BY <2>1, <2>2, <2>6, CopySound
  <2> QED BY <2>3, <2>7 DEF u
<1> QED BY <1>1, <1>2

\* Values are nobody's concern but the program's.
LEMMA RevalueSound ==
  ASSUME NEW t, NEW d \in BOOLEAN, Sound(t, d),
         NEW f \in [0 .. t.next - 1 -> Value \union {Undef}]
  PROVE  Sound([t EXCEPT !.value = f], d)
<1> DEFINE u == [t EXCEPT !.value = f]
<1>1. TableTypeOK(t) /\ TableInv(t) /\ MinDeletedInv(t, d)
  BY DEF Sound
<1>2. /\ u = [x \in Fields |-> u[x]]
      /\ u.key = t.key /\ u.link = t.link /\ u.lookup = t.lookup
      /\ u.next = t.next /\ u.size = t.size /\ u.capacity = t.capacity
      /\ u.minDeleted = t.minDeleted /\ u.value = f
  BY <1>1 DEF TableTypeOK, Fields
<1> HIDE DEF u
<1>3. TableTypeOK(u)
  BY <1>1, <1>2 DEF TableTypeOK
<1>4. Live(u) = Live(t) /\ \A k : Slot(u, k) = Slot(t, k)
  BY <1>2 DEF Live, Slot
<1>5. \A s, n : Colliding(u, s, n) = Colliding(t, s, n)
  BY <1>2, <1>4 DEF Colliding
<1>6. TableInv(u)
  BY <1>1, <1>2, <1>4, <1>5 DEF TableInv, CountsLive, Distinct, Chained
<1>7. MinDeletedInv(u, d)
  BY <1>1, <1>2 DEF MinDeletedInv, MinDeletedOK, Hollow, LiveBelowMin, HoleAtMin
<1> QED BY <1>3, <1>6, <1>7 DEF Sound, u

-----------------------------------------------------------------------------
(* The walk along a chain.                                                 *)

\* The state of a walk: nothing that precedes the bucket it is at in its
\* chain holds the key.
LEMMA BeginWalk ==
  ASSUME NEW t, NEW d \in BOOLEAN, Sound(t, d), NEW k \in Key
  PROVE  LET chain == Colliding(t, Slot(t, k), t.next)
             c == t.lookup[Slot(t, k)]
         IN  /\ c \in Int /\ (c = NIL \/ c \in chain)
             /\ \A i \in Live(t) : t.key[i] = k => c # NIL /\ i <= c
<1> DEFINE s == Slot(t, k)
           chain == Colliding(t, s, t.next)
           c == t.lookup[s]
<1>1. /\ TableTypeOK(t) /\ Chained(t) /\ t.next \in Nat
      /\ t.capacity \in 1 .. MaxCapacity /\ t.lookup \in [0 .. t.capacity - 1 -> Int]
  BY DEF Sound, TableInv, TableTypeOK
<1>2. s \in 0 .. t.capacity - 1
  BY <1>1, MaskAssumption DEF Slot
<1>3. IsLatest(c, chain) /\ c \in Int
  BY <1>1, <1>2 DEF Chained
<1>4. /\ chain \subseteq 0 .. t.next - 1
      /\ \A i \in Live(t) : i \in 0 .. t.next - 1
  BY <1>1, LiveIndices
<1>5. \A i \in Live(t) : t.key[i] = k => i \in chain
  BY <1>1, <1>4 DEF Colliding
<1> HIDE DEF c, chain
<1>6. c = NIL \/ c \in chain
  BY <1>3 DEF IsLatest
<1>7. \A i \in Live(t) : t.key[i] = k => c # NIL /\ i <= c
  BY <1>3, <1>4, <1>5 DEF IsLatest, NIL
<1> QED BY <1>3, <1>6, <1>7 DEF c, chain

LEMMA AdvanceWalk ==
  ASSUME NEW t, NEW d \in BOOLEAN, Sound(t, d), NEW k \in Key,
         NEW c, c \in Colliding(t, Slot(t, k), t.next), t.key[c] # k,
         \A i \in Live(t) : t.key[i] = k => i <= c
  PROVE  LET chain == Colliding(t, Slot(t, k), t.next)
             n == t.link[c]
         IN  /\ n \in Int /\ c \in Int /\ c # NIL /\ (n = NIL \/ n \in chain)
             /\ \A i \in Live(t) : t.key[i] = k => n # NIL /\ i <= n
<1> DEFINE s == Slot(t, k)
           chain == Colliding(t, s, t.next)
           rest == Colliding(t, s, c)
           n == t.link[c]
<1>1. /\ TableTypeOK(t) /\ Chained(t) /\ t.next \in Nat
      /\ t.link \in [0 .. t.next - 1 -> Int]
  BY DEF Sound, TableInv, TableTypeOK
<1>2. c \in Live(t) /\ Slot(t, t.key[c]) = s
  BY DEF Colliding
<1>3. \A i \in Live(t) : i \in 0 .. t.next - 1
  BY <1>1, LiveIndices
<1>4. IsLatest(n, rest) /\ n \in Int /\ c \in Nat
  BY <1>1, <1>2, <1>3 DEF Chained
<1>5. \A i \in rest : i \in chain /\ i \in Nat
  BY <1>1, <1>3 DEF Colliding
<1>6. \A i \in Live(t) : t.key[i] = k => i \in rest
  BY <1>1, <1>2, <1>3, <1>4 DEF Colliding
<1> HIDE DEF n, chain, rest
<1>7. n = NIL \/ n \in chain
  BY <1>4, <1>5 DEF IsLatest
<1>8. \A i \in Live(t) : t.key[i] = k => n # NIL /\ i <= n
  BY <1>4, <1>5, <1>6 DEF IsLatest, NIL
<1> QED BY <1>4, <1>7, <1>8 DEF n, chain, NIL

-----------------------------------------------------------------------------
(* The specification: one step per action.                                 *)

\* After a step that leaves no walk under way, only the table matters.
LEMMA IdleAfter ==
  ASSUME pc' = "idle", call' = NoCall, cur' \in Int, prev' \in Int,
         dirty' \in BOOLEAN, fault' \in Faults,
         fault' = "none" => Sound(table', dirty')
  PROVE  IInv'
BY DEF IInv, TypeOK, WalkInv, Sound

LEMMA ReturnIsIdle ==
  ASSUME Return
  PROVE  pc' = "idle" /\ call' = NoCall /\ cur' \in Int /\ prev' \in Int
BY DEF Return, NIL

LEMMA QuietIsIdle ==
  ASSUME IInv, pc = "idle", Quiet
  PROVE  pc' = "idle" /\ call' = NoCall /\ cur' \in Int /\ prev' \in Int
BY DEF IInv, TypeOK, Quiet, walkVars

LEMMA IdleSound ==
  ASSUME IInv, Idle
  PROVE  /\ pc = "idle" /\ fault = "none" /\ dirty \in BOOLEAN
         /\ Sound(table, dirty)
BY DEF IInv, TypeOK, Idle, Sound

LEMMA WalkingSound ==
  ASSUME IInv, Walking
  PROVE  /\ fault = "none" /\ dirty \in BOOLEAN /\ Sound(table, dirty)
         /\ pc = "walk" /\ call \in [op : Ops, key : Key, value : Value]
         /\ cur = NIL \/ cur \in Colliding(table, Slot(table, call.key), table.next)
         /\ \A i \in Live(table) :
              table.key[i] = call.key => cur # NIL /\ i <= cur
         /\ IF prev = NIL
            THEN call.op = "remove" => cur = table.lookup[Slot(table, call.key)]
            ELSE /\ prev \in Colliding(table, Slot(table, call.key), table.next)
                 /\ table.link[prev] = cur
BY DEF IInv, TypeOK, Walking, Sound, WalkInv

LEMMA FaultKinds == \A t : PackFault(t) \in Faults
BY DEF PackFault, Faults

LEMMA InitHolds == ASSUME Init PROVE IInv
<1>1. MinCapacity \in 1 .. MaxCapacity
  BY CapacityAssumption
<1>2. Sound(Fresh(MinCapacity), FALSE)
  BY <1>1, FreshSound
<1>3. Sound(table, dirty)
  BY <1>2, Zenon DEF Init
<1>4. /\ pc = "idle" /\ call = NoCall /\ cur \in Int
      /\ prev \in Int /\ dirty \in BOOLEAN /\ fault \in Faults
  <2>1. /\ pc = "idle" /\ call = NoCall /\ cur = NIL /\ prev = NIL
        /\ dirty = FALSE /\ fault = "none"
    BY Zenon DEF Init
  <2>2. NIL \in Int
    BY DEF NIL
  <2> QED BY <2>1, <2>2 DEF Faults
<1> QED BY <1>3, <1>4 DEF IInv, TypeOK, WalkInv, Sound

LEMMA BeginHolds ==
  ASSUME IInv, NEW op \in Ops, NEW k \in Key, NEW v \in Value, Begin(op, k, v)
  PROVE  IInv'
<1>1. /\ pc = "idle" /\ fault = "none" /\ dirty \in BOOLEAN
      /\ Sound(table, dirty) /\ UNCHANGED <<table, dirty, fault>>
  BY IdleSound DEF Begin
<1>2. /\ pc' = "walk" /\ call' = [op |-> op, key |-> k, value |-> v]
      /\ cur' = table.lookup[Slot(table, k)] /\ prev' = NIL
  BY DEF Begin
<1>3. /\ call' \in [op : Ops, key : Key, value : Value] /\ call'.key = k
      /\ call' # NoCall
  BY <1>2 DEF NoCall, Ops
<1>4. /\ cur' \in Int
      /\ cur' = NIL \/ cur' \in Colliding(table, Slot(table, k), table.next)
      /\ \A i \in Live(table) : table.key[i] = k => cur' # NIL /\ i <= cur'
  BY <1>1, <1>2, BeginWalk
<1>5. WalkInv'
  BY <1>1, <1>2, <1>3, <1>4 DEF WalkInv
<1>6. TypeOK'
  BY <1>1, <1>2, <1>3, <1>4 DEF TypeOK, Sound, Faults, NIL
<1> QED BY <1>1, <1>5, <1>6 DEF IInv, Sound

LEMMA AdvanceHolds == ASSUME IInv, Advance PROVE IInv'
<1>1. Walking /\ cur # NIL /\ table.key[cur] # call.key
  BY DEF Advance
<1>2. /\ fault = "none" /\ dirty \in BOOLEAN /\ Sound(table, dirty)
      /\ pc = "walk" /\ call \in [op : Ops, key : Key, value : Value]
      /\ cur \in Colliding(table, Slot(table, call.key), table.next)
      /\ \A i \in Live(table) : table.key[i] = call.key => i <= cur
  BY <1>1, WalkingSound
<1>3. /\ cur' = table.link[cur] /\ prev' = IF call.op = "remove" THEN cur ELSE NIL
      /\ UNCHANGED <<table, pc, call, dirty, fault>>
  BY DEF Advance
<1>4. call.key \in Key /\ call # NoCall
  BY <1>2 DEF NoCall, Ops
<1>5. /\ cur' \in Int /\ cur \in Int
      /\ cur' = NIL \/ cur' \in Colliding(table, Slot(table, call.key), table.next)
      /\ \A i \in Live(table) : table.key[i] = call.key => cur' # NIL /\ i <= cur'
  BY <1>1, <1>2, <1>3, <1>4, AdvanceWalk
<1>6. WalkInv'
  BY <1>1, <1>2, <1>3, <1>5 DEF WalkInv
<1>7. TypeOK'
  BY <1>2, <1>3, <1>4, <1>5 DEF TypeOK, Sound, Faults, NIL
<1> QED BY <1>2, <1>3, <1>6, <1>7 DEF IInv, Sound

\* The bucket a walk stops at holds the key and lies in the table.
LEMMA HitBucket ==
  ASSUME IInv, NEW op, Hit(op)
  PROVE  /\ fault = "none" /\ dirty \in BOOLEAN /\ Sound(table, dirty)
         /\ call.op = op /\ call.value \in Value
         /\ cur \in Live(table) /\ cur \in 0 .. table.next - 1
         /\ op = "remove" => Precedes(table, prev, cur)
<1>1. /\ Walking /\ call.op = op /\ cur # NIL /\ table.key[cur] = call.key
  BY DEF Hit
<1>2. /\ fault = "none" /\ dirty \in BOOLEAN /\ Sound(table, dirty)
      /\ call \in [op : Ops, key : Key, value : Value]
      /\ cur \in Colliding(table, Slot(table, call.key), table.next)
      /\ IF prev = NIL
         THEN call.op = "remove" => cur = table.lookup[Slot(table, call.key)]
         ELSE /\ prev \in Colliding(table, Slot(table, call.key), table.next)
              /\ table.link[prev] = cur
  BY <1>1, WalkingSound
<1>3. cur \in Live(table) /\ cur \in 0 .. table.next - 1
  BY <1>2 DEF Colliding, Live
<1>4. op = "remove" => Precedes(table, prev, cur)
  BY <1>1, <1>2 DEF Precedes
<1> QED BY <1>1, <1>2, <1>3, <1>4

LEMMA PutHitHolds == ASSUME IInv, PutHit PROVE IInv'
<1>1. /\ fault = "none" /\ dirty \in BOOLEAN /\ Sound(table, dirty)
      /\ call.value \in Value /\ cur \in 0 .. table.next - 1
  BY HitBucket DEF PutHit
<1> DEFINE f == [table.value EXCEPT ![cur] = call.value]
<1>2. table' = [table EXCEPT !.value = f]
  BY DEF PutHit
<1>3. f \in [0 .. table.next - 1 -> Value \union {Undef}]
  BY <1>1 DEF Sound, TableTypeOK
<1>4. Sound(table', dirty)
  BY <1>1, <1>2, <1>3, RevalueSound
<1> QED BY <1>1, <1>4, ReturnIsIdle, IdleAfter DEF PutHit, Faults

\* A removal keeps the table sound and never faults.
LEMMA RemoveHitHolds == ASSUME IInv, RemoveHit PROVE IInv' /\ fault' = fault
<1>1. /\ fault = "none" /\ dirty \in BOOLEAN /\ Sound(table, dirty)
      /\ cur \in Live(table) /\ Precedes(table, prev, cur)
  BY HitBucket DEF RemoveHit
<1> DEFINE u == DeleteBucket(table, cur, prev)
<1>2. /\ Sound(AutoTruncate(u), dirty /\ ~Truncates(u))
      /\ Truncates(u) => PackFault(u) = "none"
  BY <1>1, RemoveSound
<1>3. /\ table' = AutoTruncate(u) /\ dirty' = (dirty /\ ~Truncates(u))
      /\ fault' = (IF Truncates(u) THEN PackFault(u) ELSE "none")
      /\ Return
  BY DEF RemoveHit
<1> HIDE DEF u
<1>4. fault' = "none" /\ dirty' \in BOOLEAN /\ Sound(table', dirty')
  BY <1>2, <1>3
<1> QED BY <1>1, <1>3, <1>4, ReturnIsIdle, IdleAfter DEF Faults

\* A miss proves the key absent: put may take a new bucket for it.
LEMMA MissAbsent ==
  ASSUME IInv, Miss
  PROVE  /\ fault = "none" /\ dirty \in BOOLEAN /\ Sound(table, dirty)
         /\ call.key \in Key /\ call.value \in Value
         /\ call.key \notin KeySet(table)
BY WalkingSound DEF Miss, KeySet

LEMMA PutMissHolds == ASSUME IInv, PutMiss PROVE IInv'
<1>1. /\ fault = "none" /\ dirty \in BOOLEAN /\ Sound(table, dirty)
      /\ call.key \in Key /\ call.value \in Value
      /\ call.key \notin KeySet(table)
  BY MissAbsent DEF PutMiss
<1> DEFINE u == PutNew(table, call.key, call.value)
<1>2. /\ table' = u /\ u.capacity <= MaxCapacity
      /\ dirty' = (dirty /\ ~Full(table)) /\ fault' = fault
      /\ Return
  BY DEF PutMiss
<1>3. Sound(u, dirty /\ ~Full(table))
  BY <1>1, <1>2, PutNewSound
<1> HIDE DEF u
<1>4. Sound(table', dirty') /\ dirty' \in BOOLEAN
  BY <1>1, <1>2, <1>3
<1> QED BY <1>1, <1>2, <1>4, ReturnIsIdle, IdleAfter DEF Faults

\* The steps of a walk.
LEMMA StepHolds == ASSUME IInv, Step PROVE IInv' /\ fault' = fault
<1>1. CASE Advance
  BY <1>1, AdvanceHolds DEF Advance
<1>2. CASE GetHit
  <2>1. fault = "none" /\ dirty \in BOOLEAN /\ Sound(table, dirty)
    BY <1>2, HitBucket DEF GetHit
  <2>2. Return /\ UNCHANGED <<table, dirty, fault>>
    BY <1>2 DEF GetHit
  <2> QED BY <2>1, <2>2, ReturnIsIdle, IdleAfter DEF Faults
<1>3. CASE PutHit
  BY <1>3, PutHitHolds DEF PutHit
<1>4. CASE RemoveHit
  BY <1>4, RemoveHitHolds
<1>5. CASE MissNoOp
  <2>1. fault = "none" /\ dirty \in BOOLEAN /\ Sound(table, dirty)
    BY <1>5, MissAbsent DEF MissNoOp
  <2>2. Return /\ UNCHANGED <<table, dirty, fault>>
    BY <1>5 DEF MissNoOp
  <2> QED BY <2>1, <2>2, ReturnIsIdle, IdleAfter DEF Faults
<1>6. CASE PutMiss
  BY <1>6, PutMissHolds DEF PutMiss
<1> QED BY <1>1, <1>2, <1>3, <1>4, <1>5, <1>6 DEF Step

LEMMA PutDistinctHolds ==
  ASSUME IInv, NEW k \in Key, NEW v \in Value, PutDistinct(k, v)
  PROVE  IInv'
<1> DEFINE u == PutDistinctBucket(table, k, v)
<1>1. /\ pc = "idle" /\ fault = "none" /\ dirty \in BOOLEAN /\ Sound(table, dirty)
  BY IdleSound DEF PutDistinct
<1>2. /\ IsPacked(table) /\ table.minDeleted = table.capacity
      /\ table.next < table.capacity /\ k \notin KeySet(table)
      /\ table' = u /\ u.capacity <= MaxCapacity /\ dirty' = FALSE
      /\ fault' = fault /\ Quiet
  BY DEF PutDistinct
<1>3. Sound(u, FALSE)
  BY <1>1, <1>2, PutDistinctSound
<1> HIDE DEF u
<1>4. Sound(table', dirty') /\ dirty' \in BOOLEAN
  BY <1>2, <1>3
<1> QED BY <1>1, <1>2, <1>4, QuietIsIdle, IdleAfter DEF Faults

LEMMA ClearHolds == ASSUME IInv, Clear PROVE IInv'
<1>1. /\ pc = "idle" /\ fault = "none" /\ dirty \in BOOLEAN /\ Sound(table, dirty)
  BY IdleSound DEF Clear
<1> DEFINE u == ClearTable(table)
<1>2. /\ table' = u /\ dirty' = (u.next > 0) /\ Quiet
      /\ fault' = IF u.next > u.capacity THEN "overrun" ELSE "none"
  BY DEF Clear
<1>3. u.next <= u.capacity => Sound(u, u.next > 0)
  BY <1>1, ClearSound
<1>4. u.next \in Int /\ u.capacity \in Int
  <2>1. /\ table = [f \in Fields |-> table[f]] /\ table.next \in Nat
        /\ table.capacity \in Nat
    BY <1>1, SoundBuffer DEF Sound
  <2>2. u.next = IF table.size = 0 THEN table.next ELSE 0
    BY <2>1 DEF ClearTable, Fresh, Fields
  <2>3. u.capacity = IF table.capacity > MinCapacity THEN MinCapacity ELSE table.capacity
    BY <2>1 DEF ClearTable, Fresh, Fields
  <2> QED BY <2>1, <2>2, <2>3, CapacityAssumption
<1> HIDE DEF u
<1>5. fault' \in Faults /\ (fault' = "none" => Sound(table', dirty'))
  BY <1>2, <1>3, <1>4 DEF Faults
<1>6. dirty' \in BOOLEAN
  BY <1>2
<1> QED BY <1>1, <1>2, <1>5, <1>6, QuietIsIdle, IdleAfter

LEMMA EnsureCapacityHolds ==
  ASSUME IInv, NEW c \in AllocCapacities, EnsureCapacity(c)
  PROVE  IInv'
<1>1. /\ pc = "idle" /\ fault = "none" /\ dirty \in BOOLEAN /\ Sound(table, dirty)
  BY IdleSound DEF EnsureCapacity
<1>2. /\ c > table.capacity /\ table' = Rehash([table EXCEPT !.capacity = c])
      /\ dirty' = FALSE /\ fault' = fault /\ Quiet
  BY DEF EnsureCapacity
<1>3. Sound(Rehash([table EXCEPT !.capacity = c]), FALSE)
  BY <1>1, <1>2, EnsureSound
<1>4. Sound(table', dirty') /\ dirty' \in BOOLEAN
  BY <1>2, <1>3
<1> QED BY <1>1, <1>2, <1>4, QuietIsIdle, IdleAfter DEF Faults

LEMMA RearrangeHolds ==
  ASSUME IInv, NEW p \in Shuffles(table.size), Rearrange(p)
  PROVE  IInv'
<1>1. /\ pc = "idle" /\ fault = "none" /\ dirty \in BOOLEAN /\ Sound(table, dirty)
  BY IdleSound DEF Rearrange
<1>2. /\ fault' = PackFault(table) /\ dirty' = FALSE /\ Quiet
      /\ fault' = "none" => table' = Rehash(Gather(Pack(table), p, table.size))
  BY DEF Rearrange
<1>3. ASSUME fault' = "none" PROVE Sound(table', dirty')
  <2>1. Sound(Rehash(Gather(Pack(table), p, table.size)), FALSE)
    BY <1>1, <1>2, <1>3, RearrangeSound
  <2> QED BY <1>2, <1>3, <2>1
<1>4. fault' \in Faults /\ dirty' \in BOOLEAN
  BY <1>2, FaultKinds
<1> QED BY <1>1, <1>2, <1>3, <1>4, QuietIsIdle, IdleAfter

LEMMA ReverseHolds == ASSUME IInv, Reverse PROVE IInv'
<1>1. Idle
  BY DEF Reverse, Rearrange
<1>2. table.size \in Nat
  BY <1>1, IdleSound DEF Sound, TableTypeOK
<1>3. [i \in 0 .. table.size - 1 |-> table.size - 1 - i] \in Shuffles(table.size)
  BY <1>2, ReversalShuffles
<1> QED BY <1>3, RearrangeHolds DEF Reverse

LEMMA ApplyHolds ==
  ASSUME IInv, NEW f \in [Live(table) -> Value], Apply(f)
  PROVE  IInv'
<1>1. /\ pc = "idle" /\ fault = "none" /\ dirty \in BOOLEAN /\ Sound(table, dirty)
  BY IdleSound DEF Apply
<1> DEFINE g == [i \in 0 .. table.next - 1 |->
                   IF i \in Live(table) THEN f[i] ELSE table.value[i]]
<1>2. table' = [table EXCEPT !.value = g] /\ UNCHANGED <<dirty, fault>> /\ Quiet
  BY DEF Apply
<1>3. g \in [0 .. table.next - 1 -> Value \union {Undef}]
  BY <1>1 DEF Sound, TableTypeOK
<1> HIDE DEF g
<1>4. Sound(table', dirty)
  BY <1>1, <1>2, <1>3, RevalueSound
<1> QED BY <1>1, <1>2, <1>4, QuietIsIdle, IdleAfter DEF Faults

LEMMA GoOnHolds ==
  ASSUME IInv, pc = "idle", NEW t, GoOnWith(t),
         Cardinality(Live(t)) = t.size => Sound(t, FALSE)
  PROVE  IInv'
<1>1. /\ table' = t /\ dirty' = FALSE /\ Quiet
      /\ fault' = IF Cardinality(Live(t)) # t.size THEN "corrupt" ELSE "none"
  BY DEF GoOnWith
<1>2. fault' \in Faults /\ dirty' \in BOOLEAN
  BY <1>1 DEF Faults
<1>3. fault' = "none" => Sound(table', dirty')
  BY <1>1
<1> QED BY <1>1, <1>2, <1>3, QuietIsIdle, IdleAfter

LEMMA TakeHolds ==
  ASSUME IInv, Idle
  PROVE  /\ \A i, n \in 0 .. table.size : TakeSlice(i, n) => IInv'
         /\ \A S \in SUBSET Live(table) : TakeFilter(S) => IInv'
         /\ TakeReversed => IInv'
         /\ TakeNew => IInv'
<1>1. pc = "idle" /\ dirty \in BOOLEAN /\ Sound(table, dirty)
  BY IdleSound
<1>2. ASSUME NEW i \in 0 .. table.size, NEW n \in 0 .. table.size, TakeSlice(i, n)
      PROVE  IInv'
  <2>1. i + n <= table.size /\ GoOnWith(Slice(table, i, n))
    BY <1>2 DEF TakeSlice
  <2>2. Cardinality(Live(Slice(table, i, n))) = Slice(table, i, n).size
           => Sound(Slice(table, i, n), FALSE)
    BY <1>1, <2>1, SliceSound
  <2> QED BY <1>1, <2>1, <2>2, GoOnHolds
<1>3. ASSUME NEW S \in SUBSET Live(table), TakeFilter(S) PROVE IInv'
  <2>1. GoOnWith(Filter(table, S))
    BY <1>3 DEF TakeFilter
  <2>2. Cardinality(Live(Filter(table, S))) = Filter(table, S).size
           => Sound(Filter(table, S), FALSE)
    BY <1>1, FilterSound
  <2> QED BY <1>1, <2>1, <2>2, GoOnHolds
<1>4. ASSUME TakeReversed PROVE IInv'
  <2>1. GoOnWith(Reversed(table))
    BY <1>4 DEF TakeReversed
  <2>2. Cardinality(Live(Reversed(table))) = Reversed(table).size
           => Sound(Reversed(table), FALSE)
    BY <1>1, ReversedSound
  <2> QED BY <1>1, <2>1, <2>2, GoOnHolds
<1>5. ASSUME TakeNew PROVE IInv'
  <2>1. GoOnWith(Fresh(MinCapacity))
    BY <1>5 DEF TakeNew
  <2>2. MinCapacity \in 1 .. MaxCapacity
    BY CapacityAssumption
  <2>3. Sound(Fresh(MinCapacity), FALSE)
    BY <2>2, FreshSound
  <2> QED BY <1>1, <2>1, <2>3, GoOnHolds
<1> QED BY <1>2, <1>3, <1>4, <1>5

\* Once a fault has occurred nothing moves.
LEMMA StutterHolds == ASSUME IInv, UNCHANGED vars PROVE IInv' /\ fault' = fault
<1>1. UNCHANGED <<table, pc, call, cur, prev, dirty, fault>>
  BY DEF vars
<1>2. TypeOK'
  BY <1>1 DEF IInv, TypeOK
<1>3. fault' = "none" => TableInv(table') /\ MinDeletedInv(table', dirty')
  BY <1>1 DEF IInv
<1>4. fault' = "none" => WalkInv'
  BY <1>1 DEF IInv, WalkInv
<1> QED BY <1>1, <1>2, <1>3, <1>4 DEF IInv

\* The invariant is inductive.
LEMMA NextHolds == ASSUME IInv, [Next]_vars PROVE IInv'
<1>1. CASE UNCHANGED vars
  BY <1>1, StutterHolds
<1>2. CASE \E op \in Ops, k \in Key, v \in Value : Begin(op, k, v)
  BY <1>2, BeginHolds
<1>3. CASE Step
  BY <1>3, StepHolds
<1>4. CASE \E k \in Key, v \in Value : PutDistinct(k, v)
  BY <1>4, PutDistinctHolds
<1>5. CASE Clear
  BY <1>5, ClearHolds
<1>6. CASE \E c \in AllocCapacities : EnsureCapacity(c)
  BY <1>6, EnsureCapacityHolds
<1>7. CASE Sort
  BY <1>7, RearrangeHolds DEF Sort
<1>8. CASE Reverse
  BY <1>8, ReverseHolds
<1>9. CASE \E f \in [Live(table) -> Value] : Apply(f)
  BY <1>9, ApplyHolds
<1>10. CASE \E i, n \in 0 .. table.size : TakeSlice(i, n)
  <2>1. Idle
    BY <1>10 DEF TakeSlice
  <2> QED BY <1>10, <2>1, TakeHolds
<1>11. CASE \E S \in SUBSET Live(table) : TakeFilter(S)
  <2>1. Idle
    BY <1>11 DEF TakeFilter
  <2> QED BY <1>11, <2>1, TakeHolds
<1>12. CASE TakeReversed
  BY <1>12, TakeHolds DEF TakeReversed
<1>13. CASE TakeNew
  BY <1>13, TakeHolds DEF TakeNew
<1>14. CASE Stopped
  BY <1>14, StutterHolds DEF Stopped
<1> QED BY <1>1, <1>2, <1>3, <1>4, <1>5, <1>6, <1>7, <1>8, <1>9, <1>10, <1>11,
           <1>12, <1>13, <1>14 DEF Next

\* Every execution keeps the inductive invariant, whatever the hash of the
\* keys, the number of keys and the capacities allocated.
THEOREM Invariant == Spec => []IInv
<1>1. Init => IInv
  BY InitHolds
<1>2. IInv /\ [Next]_vars => IInv'
  BY NextHolds
<1> QED BY <1>1, <1>2, PTL DEF Spec

\* The type invariant of the table and of the walk through it.
THEOREM TypeCorrect == Spec => []TypeOK
<1>1. IInv => TypeOK
  BY DEF IInv
<1> QED BY <1>1, Invariant, PTL

\* The size that count() reports is the number of live buckets
\* (ds_htable.c:678-734, 818-876).
THEOREM EntriesCounted == Spec => []SizeIsEntryCount
<1>1. IInv => SizeIsEntryCount
  BY DEF IInv, TableInv, SizeIsEntryCount
<1> QED BY <1>1, Invariant, PTL

\* put never gives a second bucket to a key (ds_htable.c:702-734).
THEOREM KeysUnique == Spec => []UniqueKeys
<1>1. IInv => UniqueKeys
  BY DEF IInv, TableInv, UniqueKeys
<1> QED BY <1>1, Invariant, PTL

\* A lookup that comes to the end of a chain proves the key absent: growth,
\* truncation, sorting and removal never lose a bucket from its chain
\* (ds_htable.c:359-385, 818-850).
THEOREM LookupsComplete == Spec => []MissMeansAbsent
<1>1. IInv => MissMeansAbsent
  BY MissAbsent DEF MissMeansAbsent
<1> QED BY <1>1, Invariant, PTL

\* A put writes inside the buffer unless a clear() has overrun it
\* (ds_htable.c:634-643, 663-718).
THEOREM BufferRespected == Spec => []WithinBuffer
<1>1. IInv => WithinBuffer
  BY DEF IInv, TableInv, WithinBuffer
<1> QED BY <1>1, Invariant, PTL

\* No remove() ever starts a pack() that minDeleted misleads, although other
\* removals leave minDeleted at live buckets (ds_htable.c:111-120, 855-868).
THEOREM RemovalsSafe == Spec => RemovalNeverFaults
<1>1. IInv /\ [Next]_vars => (pc = "walk" => fault' = fault)
  <2> SUFFICES ASSUME IInv, [Next]_vars, pc = "walk" PROVE fault' = fault
    OBVIOUS
  <2>1. CASE UNCHANGED vars
    BY <2>1 DEF vars
  <2>2. CASE Step
    BY <2>2, StepHolds
  <2>3. CASE Stopped
    BY <2>3 DEF Stopped, vars
  <2>4. ~Idle
    BY DEF Idle
  <2> QED BY <2>1, <2>2, <2>3, <2>4
       DEF Next, Begin, PutDistinct, Clear, EnsureCapacity, Sort, Reverse,
           Rearrange, Apply, TakeSlice, TakeFilter, TakeReversed, TakeNew
<1>2. IInv /\ [Next]_vars => [pc = "walk" => fault' = fault]_vars
  BY <1>1
<1> QED BY <1>2, Invariant, PTL DEF Spec, RemovalNeverFaults

\* The latest of the buckets before a bucket is nearer the front.
LEMMA LatestIsBelow ==
  ASSUME NEW c \in Nat, NEW n \in Nat, NEW l,
         NEW S, S \subseteq {i \in 0 .. n - 1 : i < c}, IsLatest(l, S)
  PROVE  NIL <= l /\ l < c
<1>1. CASE S = {}
  BY <1>1 DEF IsLatest, NIL
<1>2. CASE S # {}
  <2>1. l \in S
    BY <1>2 DEF IsLatest
  <2>2. l \in 0 .. n - 1 /\ l < c
    BY <2>1
  <2>3. \A i \in 0 .. n - 1 : NIL <= i
    BY DEF NIL
  <2> QED BY <2>2, <2>3
<1> QED BY <1>1, <1>2

\* A lookup ends: the walk goes down the buffer with every bucket it passes
\* (ds_htable.c:371-375, 821-829).
THEOREM LookupsDescend == Spec => WalksDescend
<1>1. IInv /\ Advance => NIL <= cur' /\ cur' < cur
  <2> SUFFICES ASSUME IInv, Advance PROVE NIL <= cur' /\ cur' < cur
    OBVIOUS
  <2> DEFINE S == Colliding(table, Slot(table, table.key[cur]), cur)
  <2>1. /\ cur \in Live(table) /\ Chained(table)
        /\ cur' = table.link[cur]
    <3>1. fault = "none" /\ pc = "walk" /\ cur # NIL /\ cur' = table.link[cur]
      BY DEF Advance, Walking
    <3>2. WalkInv /\ Chained(table)
      BY <3>1 DEF IInv, TableInv
    <3>3. cur \in Colliding(table, Slot(table, call.key), table.next)
      BY <3>1, <3>2 DEF WalkInv
    <3> QED BY <3>1, <3>2, <3>3 DEF Colliding
  <2>2. IsLatest(cur', S)
    BY <2>1 DEF Chained
  <2>3. S \subseteq {i \in 0 .. table.next - 1 : i < cur}
    BY DEF Colliding, Live
  <2>4. cur \in Nat /\ table.next \in Nat
    BY <2>1 DEF IInv, TypeOK, TableTypeOK, Live, Advance, Walking
  <2> HIDE DEF S
  <2> QED BY <2>2, <2>3, <2>4, LatestIsBelow
<1>2. IInv /\ [Next]_vars => [Advance => NIL <= cur' /\ cur' < cur]_vars
  BY <1>1
<1> QED BY <1>2, Invariant, PTL DEF Spec, WalksDescend

-----------------------------------------------------------------------------
(* Positions, and the faults that positions and clear() lead to.           *)

\* Up to minDeleted, and everywhere in a packed table, positions are indices.
LEMMA PrefixLive ==
  ASSUME NEW t, t.next \in Nat, t.minDeleted \in Nat, CountsLive(t),
         LiveBelowMin(t), NEW p \in 0 .. t.size - 1, IsPacked(t) \/ p < t.minDeleted
  PROVE  0 .. p \subseteq Live(t) /\ Nth(Live(t), p) = p
<1>1. t.size \in Nat /\ t.size <= t.next
  BY SizeWithinNext
<1>2. p \in Nat /\ p < t.next
  BY <1>1
<1>3. ASSUME NEW j \in 0 .. p PROVE j \in Live(t)
  <2>1. j \in 0 .. t.next - 1
    BY <1>2
  <2>2. CASE IsPacked(t)
    BY <2>1, <2>2, PackedIsLive
  <2>3. CASE p < t.minDeleted
    BY <1>2, <2>1, <2>3 DEF LiveBelowMin, Live
  <2> QED BY <2>2, <2>3
<1>4. 0 .. p \subseteq Live(t)
  BY <1>3
<1>5. Live(t) \subseteq 0 .. t.next - 1
  BY LiveIndices
<1> HIDE DEF Live
<1> QED BY <1>2, <1>4, <1>5, NthInPrefix

\* The buckets of a table with a deleted one: minDeleted is an index, and what
\* lies below it is live.
LEMMA BelowMin ==
  ASSUME NEW t, t.next \in Nat, t.minDeleted \in Nat, CountsLive(t),
         LiveBelowMin(t), ~IsPacked(t)
  PROVE  t.minDeleted < t.next /\ 0 .. t.minDeleted - 1 \subseteq Live(t)
<1>1. t.minDeleted < t.next
  BY LiveToTheEnd
<1>2. ASSUME NEW j \in 0 .. t.minDeleted - 1 PROVE j \in Live(t)
  BY <1>1 DEF Live, LiveBelowMin
<1> QED BY <1>1, <1>2

\* lookup_by_position() returns the entry that a scan counts to.
LEMMA PositionScans ==
  ASSUME NEW t, t.next \in Nat, t.minDeleted \in Nat, CountsLive(t),
         LiveBelowMin(t), NEW p \in 0 .. t.size - 1
  PROVE  LookupByPosition(t, p) = Nth(Live(t), p)
<1> DEFINE L == Live(t)
           m == t.minDeleted
           U == UpFrom(L, m)
<1>1. CASE IsPacked(t) \/ p < m
  BY <1>1, PrefixLive DEF LookupByPosition
<1>2. CASE ~ (IsPacked(t) \/ p < m)
  <2>1. /\ L \subseteq 0 .. t.next - 1 /\ 0 .. m - 1 \subseteq L
        /\ p \in 0 .. Cardinality(L) - 1
    BY <1>2, LiveIndices, BelowMin DEF CountsLive
  <2>2. LookupByPosition(t, p) = CHOOSE i \in L : i >= m /\ m + Rank(U, i) = p
    BY <1>2 DEF LookupByPosition, UpFrom
  <2>3. p \in Nat /\ m \in Nat /\ m <= p
    BY <1>2, <2>1
  <2> HIDE DEF L, m
  <2>4. /\ Nth(L, p) \in L /\ Nth(L, p) >= m /\ Rank(L, Nth(L, p)) = p
    BY <2>1, <2>3, NthAbovePrefix
  <2>5. ASSUME NEW i \in L, i >= m
        PROVE  Rank(U, i) = Rank(L, i) - m /\ Rank(L, i) \in Int
    <3>1. m <= i
      BY <2>1, <2>3, <2>5
    <3>2. Rank(U, i) = Rank(L, i) - m
      BY <2>1, <2>3, <3>1, RankAbovePrefix
    <3>3. Rank(L, i) \in 0 .. Cardinality(L) - 1 /\ Cardinality(L) \in Nat
      BY <2>1, RankRange, IndicesFinite
    <3> QED BY <3>2, <3>3
  <2> HIDE DEF U
  <2>6. m + Rank(U, Nth(L, p)) = p
    BY <2>3, <2>4, <2>5
  <2>7. ASSUME NEW i \in L, i >= m, m + Rank(U, i) = p PROVE i = Nth(L, p)
    <3>1. Rank(L, i) = p
      BY <2>3, <2>5, <2>7
    <3> QED BY <2>1, <3>1, NthOfRank
  <2> QED BY <2>2, <2>4, <2>6, <2>7 DEF L
<1> QED BY <1>1, <1>2

\* slice() copies the entries that a scan counts to.
LEMMA SliceScans ==
  ASSUME NEW t, t.next \in Nat, t.minDeleted \in Nat, CountsLive(t),
         LiveBelowMin(t), NEW i \in 0 .. t.size, NEW n \in 0 .. t.size,
         i + n <= t.size, NEW r \in 0 .. n - 1
  PROVE  SliceSource(t, i, n, r) = Nth(Live(t), i + r)
<1> DEFINE L == Live(t)
           m == t.minDeleted
<1>1. t.size \in Nat /\ t.size <= t.next /\ t.size = Cardinality(L)
  BY SizeWithinNext DEF CountsLive
<1>2. /\ i \in Nat /\ n \in Nat /\ r \in Nat /\ r < n
      /\ i + r \in 0 .. t.size - 1 /\ i \in 0 .. t.size - 1
  BY <1>1
<1>3. CASE IsPacked(t) \/ i + n <= m
  <2>1. IsPacked(t) \/ i + r < m
    BY <1>2, <1>3
  <2>2. Nth(L, i + r) = i + r
    BY <1>2, <2>1, PrefixLive
  <2> QED BY <1>3, <2>2 DEF SliceSource, Contiguous
<1>4. CASE ~ (IsPacked(t) \/ i + n <= m) /\ i < m
  <2> DEFINE B == {j \in L : j > i}
  <2>1. SliceSource(t, i, n, r) = IF r = 0 THEN i ELSE Nth(B, r - 1)
    BY <1>4 DEF SliceSource, Contiguous
  <2>2. 0 .. i \subseteq L /\ Nth(L, i) = i
    BY <1>2, <1>4, PrefixLive
  <2>3. CASE r = 0
    BY <1>2, <2>1, <2>2, <2>3
  <2>4. CASE r # 0
    <3>1. L \subseteq 0 .. t.next - 1
      BY LiveIndices
    <3>2. B = UpFrom(L, i + 1)
      <4>1. \A j \in L : j > i <=> j >= i + 1
        BY <1>2, <3>1
      <4> QED BY <4>1 DEF UpFrom
    <3>3. /\ i + 1 \in Nat /\ (i + 1) - 1 = i /\ i + 1 <= i + r
          /\ (i + r) - (i + 1) = r - 1
      BY <1>2, <2>4
    <3> HIDE DEF B, L, m
    <3>4. 0 .. (i + 1) - 1 \subseteq L /\ i + r \in 0 .. Cardinality(L) - 1
      BY <1>1, <1>2, <2>2, <3>3
    <3>5. Nth(B, (i + r) - (i + 1)) = Nth(L, i + r)
      BY <3>1, <3>2, <3>3, <3>4, NthAbovePrefix
    <3>6. Nth(B, r - 1) = Nth(L, i + r)
      BY <3>3, <3>5
    <3> QED BY <2>1, <2>4, <3>6 DEF L
  <2> QED BY <2>3, <2>4
<1>5. CASE ~ (IsPacked(t) \/ i + n <= m) /\ ~ (i < m)
  BY <1>5 DEF SliceSource, Contiguous
<1> QED BY <1>3, <1>4, <1>5

\* get() by position, first(), last(), skip() and slice() return the entries
\* that they are said to (ds_htable.c:392-433, 878-952).
THEOREM PositionsRight == Spec => []PositionsExact
<1>1. ASSUME IInv PROVE PositionsExact
  <2> SUFFICES ASSUME fault = "none", ~dirty
               PROVE  LET L == Live(table) IN
                      /\ \A p \in 0 .. table.size - 1 :
                           LookupByPosition(table, p) = Nth(L, p)
                      /\ \A i, n \in 0 .. table.size : i + n <= table.size =>
                           \A r \in 0 .. n - 1 :
                             SliceSource(table, i, n, r) = Nth(L, i + r)
    BY DEF PositionsExact
  <2>1. /\ table.next \in Nat /\ table.minDeleted \in Nat
        /\ CountsLive(table) /\ LiveBelowMin(table)
    BY <1>1 DEF IInv, TypeOK, TableTypeOK, TableInv, MinDeletedInv, MinDeletedOK
  <2> QED BY <2>1, PositionScans, SliceScans
<1> QED BY <1>1, Invariant, PTL

\* A table copied from live buckets has as many entries as it says.
LEMMA CopyIsLive ==
  ASSUME NEW t, t = [f \in Fields |-> t[f]], t.next \in Nat, NEW n \in Nat,
         NEW src \in [0 .. n - 1 -> Live(t)], NEW c
  PROVE  Cardinality(Live(CopyOf(t, src, n, c))) = CopyOf(t, src, n, c).size
<1> DEFINE u == CopyOf(t, src, n, c)
<1>1. /\ u.key = [i \in 0 .. n - 1 |-> t.key[src[i]]]
      /\ u.next = n /\ u.size = n
  BY DEF CopyOf, Gather, Relink, Fields
<1> HIDE DEF u
<1>2. \A i \in 0 .. n - 1 : u.key[i] # Undef
  BY <1>1 DEF Live
<1>3. Live(u) = 0 .. n - 1
  BY <1>1, <1>2 DEF Live
<1> QED BY <1>1, <1>3, IndicesBelow DEF u

\* A slice holds a deleted bucket only if minDeleted misled it.
LEMMA SliceIsLive ==
  ASSUME NEW t, t = [f \in Fields |-> t[f]], t.next \in Nat, t.minDeleted \in Nat,
         CountsLive(t), IsPacked(t) \/ LiveBelowMin(t),
         NEW i \in 0 .. t.size, NEW n \in 0 .. t.size, i + n <= t.size
  PROVE  Cardinality(Live(Slice(t, i, n))) = Slice(t, i, n).size
<1> DEFINE L == Live(t)
           src == [r \in 0 .. n - 1 |-> SliceSource(t, i, n, r)]
<1>1. /\ t.size \in Nat /\ t.size <= t.next /\ t.size = Cardinality(L)
      /\ L \subseteq 0 .. t.next - 1
  BY SizeWithinNext, LiveIndices DEF CountsLive
<1>2. CASE n = 0
  <2>1. Live(Fresh(MinCapacity)) = {} /\ Fresh(MinCapacity).size = 0
    BY DEF Fresh, Live
  <2> QED BY <1>2, <2>1, FS_EmptySet DEF Slice
<1>3. CASE n # 0
  <2>1. ASSUME NEW r \in 0 .. n - 1 PROVE SliceSource(t, i, n, r) \in L
    <3>1. i + r \in 0 .. t.size - 1
      BY <1>1
    <3>2. CASE IsPacked(t)
      <4>1. L = 0 .. t.next - 1 /\ t.next = t.size
        BY <3>2, PackedIsLive DEF IsPacked
      <4> QED BY <3>1, <3>2, <4>1 DEF SliceSource, Contiguous
    <3>3. CASE LiveBelowMin(t)
      <4>1. SliceSource(t, i, n, r) = Nth(L, i + r)
        BY <3>3, SliceScans
      <4> HIDE DEF L
      <4>2. Nth(L, i + r) \in L
        BY <1>1, <3>1, NthIsMember
      <4> QED BY <4>1, <4>2
    <3> QED BY <3>2, <3>3
  <2>2. src \in [0 .. n - 1 -> L] /\ n \in Nat
    BY <1>1, <2>1
  <2>3. Slice(t, i, n) = CopyOf(t, src, n, n)
    BY <1>3 DEF Slice
  <2> HIDE DEF src
  <2> QED BY <2>2, <2>3, CopyIsLive
<1> QED BY <1>2, <1>3

\* pack() faults only on a minDeleted that is not the first deleted bucket.
LEMMA PackFaultExplained ==
  ASSUME NEW t, NEW d \in BOOLEAN, Sound(t, d), PackFault(t) # "none"
  PROVE  ~IsPacked(t) /\ (~HoleAtMin(t) \/ d)
<1>1. BufferOK(t) /\ CountsLive(t) /\ Distinct(t)
  BY SoundBuffer DEF Sound, TableInv
<1>2. ~d => LiveBelowMin(t)
  BY DEF Sound, MinDeletedInv, MinDeletedOK
<1> QED BY <1>1, <1>2, PackKeeps

\* A fault needs a stale minDeleted, or an emptied table that is cleared while
\* deleted buckets are left in it (ds_htable.c:79-109, 495-524, 878-952).
THEOREM FaultsAccounted == Spec => FaultsExplained
<1> DEFINE Stale == ~IsPacked(table) /\ (~HoleAtMin(table) \/ dirty)
           Emptied == table.size = 0 /\ table.next > MinCapacity
<1>1. ASSUME IInv, [Next]_vars, fault = "none", fault' # "none"
      PROVE  Stale \/ Emptied
  <2>1. dirty \in BOOLEAN /\ Sound(table, dirty)
    BY <1>1 DEF IInv, TypeOK, Sound
  <2>2. /\ table = [f \in Fields |-> table[f]] /\ table.next \in Nat
        /\ table.size \in Nat /\ table.minDeleted \in Nat
        /\ table.capacity \in Nat \ {0} /\ CountsLive(table)
        /\ table.next <= table.capacity
        /\ ~dirty => LiveBelowMin(table)
        /\ Live(table) \subseteq 0 .. table.next - 1
    BY <2>1, SoundBuffer, LiveIndices
       DEF Sound, TableInv, MinDeletedInv, MinDeletedOK
  <2>3. ~Step
    BY <1>1, StepHolds
  <2>4. ASSUME Clear PROVE Emptied
    <3>1. MinCapacity \in Nat
      BY CapacityAssumption
    <3> DEFINE b == IF table.size = 0 THEN table ELSE Fresh(table.capacity)
               c == IF table.capacity > MinCapacity THEN MinCapacity
                    ELSE table.capacity
    <3>2. table'.next > table'.capacity /\ table' = ClearTable(table)
      BY <1>1, <2>4 DEF Clear
    <3>3. b = [f \in Fields |-> b[f]]
      BY <2>2 DEF Fresh, Fields
    <3>4. table'.next = b.next /\ table'.capacity = c
      <4>1. table' = [b EXCEPT !.capacity = c, !.minDeleted = c,
                               !.lookup = [s \in 0 .. c - 1 |-> NIL]]
        BY <3>2 DEF ClearTable
      <4> HIDE DEF b, c
      <4> QED BY <3>3, <4>1 DEF Fields
    <3>5. table.size # 0 => b.next = 0
      BY DEF Fresh
    <3>6. c \in Nat
      BY <2>2, <3>1
    <3>7. table.size = 0
      BY <3>2, <3>4, <3>5, <3>6
    <3>8. table.next > c
      BY <3>2, <3>4, <3>7
    <3> QED BY <2>2, <3>1, <3>7, <3>8
  <2>5. ASSUME NEW p, Rearrange(p) PROVE Stale
    <3>1. PackFault(table) # "none"
      BY <1>1, <2>5 DEF Rearrange
    <3> QED BY <2>1, <3>1, PackFaultExplained
  <2>6. ASSUME NEW i \in 0 .. table.size, NEW n \in 0 .. table.size, TakeSlice(i, n)
        PROVE  Stale
    <3>1. /\ i + n <= table.size
          /\ Cardinality(Live(Slice(table, i, n))) # Slice(table, i, n).size
      BY <1>1, <2>6 DEF TakeSlice, GoOnWith
    <3>2. ~ (IsPacked(table) \/ LiveBelowMin(table))
      BY <2>2, <3>1, SliceIsLive
    <3> QED BY <2>1, <2>2, <3>2
  <2>7. ASSUME NEW S \in SUBSET Live(table) PROVE ~TakeFilter(S)
    <3> DEFINE n == Cardinality(S)
               src == [r \in 0 .. n - 1 |-> Nth(S, r)]
    <3>1. n \in Nat /\ src \in [0 .. n - 1 -> S]
      BY <2>2, NthGathers DEF Scanned
    <3>2. Filter(table, S) = CopyOf(table, src, n, table.capacity)
      BY DEF Filter
    <3> HIDE DEF n, src
    <3>3. src \in [0 .. n - 1 -> Live(table)]
      BY <3>1
    <3>4. Cardinality(Live(Filter(table, S))) = Filter(table, S).size
      BY <2>2, <3>1, <3>2, <3>3, CopyIsLive
    <3> QED BY <1>1, <3>4 DEF TakeFilter, GoOnWith
  <2>8. ~TakeReversed
    <3> DEFINE n == table.size
               L == Live(table)
               src == [r \in 0 .. n - 1 |-> Nth(L, n - 1 - r)]
    <3>1. n \in Nat /\ n = Cardinality(L)
      BY <2>2 DEF CountsLive
    <3>2. Reversed(table) = CopyOf(table, src, n, table.capacity)
      BY DEF Reversed
    <3> HIDE DEF n, L
    <3>3. \A r \in 0 .. n - 1 : n - 1 - r \in 0 .. n - 1
      BY <3>1
    <3>4. \A r \in 0 .. n - 1 : Nth(L, r) \in L
      BY <2>2, <3>1, NthIsMember DEF L
    <3>5. src \in [0 .. n - 1 -> L]
      BY <3>3, <3>4
    <3> HIDE DEF src
    <3>6. Cardinality(Live(Reversed(table))) = Reversed(table).size
      BY <2>2, <3>1, <3>2, <3>5, CopyIsLive DEF L
    <3> QED BY <1>1, <3>6 DEF TakeReversed, GoOnWith
  <2>9. ~TakeNew
    <3>1. Live(Fresh(MinCapacity)) = {} /\ Fresh(MinCapacity).size = 0
      BY DEF Fresh, Live
    <3> QED BY <1>1, <3>1, FS_EmptySet DEF TakeNew, GoOnWith
  <2>10. /\ \A op \in Ops, k \in Key, v \in Value : ~Begin(op, k, v)
         /\ \A k \in Key, v \in Value : ~PutDistinct(k, v)
         /\ \A c \in AllocCapacities : ~EnsureCapacity(c)
         /\ \A f \in [Live(table) -> Value] : ~Apply(f)
         /\ ~Stopped
         /\ ~UNCHANGED vars
    BY <1>1 DEF Begin, PutDistinct, EnsureCapacity, Apply, Stopped, vars
  <2>11. Sort \/ Reverse => Stale
    BY <2>5 DEF Sort, Reverse
  <2> QED BY <1>1, <2>3, <2>4, <2>6, <2>7, <2>8, <2>9, <2>10, <2>11 DEF Next
<1>2. IInv /\ [Next]_vars => [fault = "none" /\ fault' # "none" => Stale \/ Emptied]_vars
  BY <1>1
<1> QED BY <1>2, Invariant, PTL DEF Spec, FaultsExplained

-----------------------------------------------------------------------------
(* The table as an ordered map: what each operator does to the entries that *)
(* a table shows.  A table that copies live buckets of another, in order,   *)
(* shows some of its entries, in order; the lemmas say where the buckets of *)
(* each new table come from.                                                *)

\* The r-th entry shown is that of the r-th live bucket.
LEMMA EntryAt ==
  ASSUME NEW t, t.next \in Nat
  PROVE  LET c == Cardinality(Live(t)) IN
         /\ c \in Nat
         /\ DOMAIN Entries(t) = 1 .. c
         /\ Entries(t) = [r \in 1 .. c |-> Entries(t)[r]]
         /\ \A r \in 1 .. c :
              /\ Nth(Live(t), r - 1) \in Live(t)
              /\ Rank(Live(t), Nth(Live(t), r - 1)) = r - 1
              /\ Entries(t)[r] = [key   |-> t.key[Nth(Live(t), r - 1)],
                                  value |-> t.value[Nth(Live(t), r - 1)]]
<1> DEFINE L == Live(t)
           c == Cardinality(L)
<1>1. L \subseteq 0 .. t.next - 1 /\ c \in Nat
  BY LiveIndices
<1>2. \A r \in 1 .. c : r - 1 \in 0 .. c - 1
  BY <1>1
<1>3. \A r \in 1 .. c : Nth(L, r - 1) \in L /\ Rank(L, Nth(L, r - 1)) = r - 1
  BY <1>1, <1>2, NthIsMember
<1> QED BY <1>1, <1>3 DEF Entries

\* Bucket i of u is bucket g[i] of t.
Copies(u, t, g) ==
  /\ g \in [Live(u) -> Live(t)]
  /\ \A i \in Live(u) : u.key[i] = t.key[g[i]] /\ u.value[i] = t.value[g[i]]

\* Where in t's entries the r-th entry of u is found.
Origin(u, t, g) ==
  [r \in 1 .. Cardinality(Live(u)) |->
     Rank(Live(t), g[Nth(Live(u), r - 1)]) + 1]

LEMMA EntriesInherited ==
  ASSUME NEW t, t.next \in Nat, NEW u, u.next \in Nat, NEW g, Copies(u, t, g)
  PROVE  LET p == Origin(u, t, g)
             c == Cardinality(Live(u))
         IN  /\ c \in Nat
             /\ p \in [1 .. c -> DOMAIN Entries(t)]
             /\ DOMAIN Entries(t) = 1 .. Cardinality(Live(t))
             /\ Entries(u) = [r \in 1 .. c |-> Entries(t)[p[r]]]
<1> DEFINE p == Origin(u, t, g)
           c == Cardinality(Live(u))
           d == Cardinality(Live(t))
           b(r) == Nth(Live(u), r - 1)
<1>1. /\ c \in Nat
      /\ Entries(u) = [r \in 1 .. c |-> Entries(u)[r]]
      /\ \A r \in 1 .. c : /\ b(r) \in Live(u)
                           /\ Entries(u)[r] = [key |-> u.key[b(r)], value |-> u.value[b(r)]]
  BY EntryAt
<1>2. /\ d \in Nat /\ DOMAIN Entries(t) = 1 .. d
      /\ \A r \in 1 .. d :
           Entries(t)[r] = [key   |-> t.key[Nth(Live(t), r - 1)],
                            value |-> t.value[Nth(Live(t), r - 1)]]
  BY EntryAt
<1>3. Live(t) \subseteq 0 .. t.next - 1
  BY LiveIndices
<1>4. ASSUME NEW r \in 1 .. c
      PROVE  p[r] \in 1 .. d /\ Entries(u)[r] = Entries(t)[p[r]]
  <2> DEFINE i == b(r)
             j == g[i]
  <2>1. i \in Live(u) /\ j \in Live(t) /\ u.key[i] = t.key[j] /\ u.value[i] = t.value[j]
    BY <1>1 DEF Copies
  <2>2. p[r] = Rank(Live(t), j) + 1
    BY DEF Origin
  <2>3. Entries(u)[r] = [key |-> u.key[i], value |-> u.value[i]]
    BY <1>1
  <2> HIDE DEF i, j, p, c, d
  <2>4. Rank(Live(t), j) \in 0 .. d - 1 /\ Nth(Live(t), Rank(Live(t), j)) = j
    BY <2>1, <1>3, RankRange, NthOfRank DEF d
  <2>5. p[r] \in 1 .. d /\ p[r] - 1 = Rank(Live(t), j)
    BY <2>2, <2>4, <1>2
  <2> QED BY <2>1, <2>3, <2>4, <2>5, <1>2
<1>5. p = [r \in 1 .. c |-> p[r]]
  BY DEF Origin
<1> HIDE DEF p, c, d
<1>6. p \in [1 .. c -> 1 .. d]
  BY <1>4, <1>5
<1> QED BY <1>1, <1>2, <1>4, <1>6 DEF p, c, d

\* Live buckets copied in order, all of them, show the same entries.
LEMMA SameShown ==
  ASSUME NEW t, t.next \in Nat, NEW u, u.next \in Nat, NEW g, Copies(u, t, g),
         Increasing(g, Live(u)), Reaches(g, Live(u), Live(t))
  PROVE  Entries(u) = Entries(t)
<1> DEFINE c == Cardinality(Live(t))
<1>1. Live(t) \subseteq 0 .. t.next - 1 /\ Live(u) \subseteq 0 .. u.next - 1
  BY LiveIndices
<1>2. /\ Cardinality(Live(u)) = c
      /\ \A r \in 0 .. c - 1 : Nth(Live(t), r) = g[Nth(Live(u), r)]
  BY <1>1, NthThrough DEF Copies
<1>3. /\ c \in Nat
      /\ Entries(u) = [r \in 1 .. c |-> Entries(u)[r]]
      /\ Entries(t) = [r \in 1 .. c |-> Entries(t)[r]]
      /\ \A r \in 1 .. c :
           /\ Nth(Live(u), r - 1) \in Live(u)
           /\ Entries(u)[r] = [key   |-> u.key[Nth(Live(u), r - 1)],
                               value |-> u.value[Nth(Live(u), r - 1)]]
           /\ Entries(t)[r] = [key   |-> t.key[Nth(Live(t), r - 1)],
                               value |-> t.value[Nth(Live(t), r - 1)]]
  BY <1>2, EntryAt
<1>4. ASSUME NEW r \in 1 .. c PROVE Entries(u)[r] = Entries(t)[r]
  <2>1. r - 1 \in 0 .. c - 1
    BY <1>3
  <2>2. Nth(Live(t), r - 1) = g[Nth(Live(u), r - 1)]
    BY <1>2, <2>1
  <2> QED BY <2>2, <1>3 DEF Copies
<1> QED BY <1>3, <1>4

\* What it is for u to show some of the entries of t, in order, or all of them,
\* in some order.
ShowsSome(u, t) ==
  \E S \in SUBSET DOMAIN Entries(t) :
    Entries(u) = [n \in 1 .. Cardinality(S) |-> Entries(t)[Nth(S, n - 1)]]

ShowsRearranged(u, t) ==
  \E p \in [DOMAIN Entries(t) -> DOMAIN Entries(t)] :
    /\ \A i, j \in DOMAIN Entries(t) : p[i] = p[j] => i = j
    /\ Entries(u) = [i \in DOMAIN Entries(t) |-> Entries(t)[p[i]]]

\* Live buckets copied in order show some of the entries, in order.
LEMMA KeptShown ==
  ASSUME NEW t, t.next \in Nat, NEW u, u.next \in Nat, NEW g, Copies(u, t, g),
         Increasing(g, Live(u))
  PROVE  ShowsSome(u, t)
<1> DEFINE p == Origin(u, t, g)
           c == Cardinality(Live(u))
           d == Cardinality(Live(t))
           S == {p[r] : r \in 1 .. c}
           f == [r \in 0 .. c - 1 |-> p[r + 1]]
<1>0. /\ c \in Nat /\ p \in [1 .. c -> DOMAIN Entries(t)]
      /\ DOMAIN Entries(t) = 1 .. d
      /\ Entries(u) = [r \in 1 .. c |-> Entries(t)[p[r]]]
  BY EntriesInherited
<1>1. /\ c \in Nat /\ p \in [1 .. c -> 1 .. d] /\ DOMAIN Entries(t) = 1 .. d
      /\ Entries(u) = [r \in 1 .. c |-> Entries(t)[p[r]]]
  <2> HIDE DEF p, c, d
  <2> QED BY <1>0
<1>2. d \in Nat /\ Live(t) \subseteq 0 .. t.next - 1 /\ Live(u) \subseteq 0 .. u.next - 1
  BY LiveIndices
<1>3. ASSUME NEW q \in 1 .. c, NEW r \in 1 .. c, q < r PROVE p[q] < p[r]
  <2> DEFINE i == Nth(Live(u), q - 1)
             j == Nth(Live(u), r - 1)
  <2>1. /\ i \in Live(u) /\ Rank(Live(u), i) = q - 1
        /\ j \in Live(u) /\ Rank(Live(u), j) = r - 1
    BY EntryAt
  <2>2. p[q] = Rank(Live(t), g[i]) + 1 /\ p[r] = Rank(Live(t), g[j]) + 1
    BY DEF Origin
  <2>3. \A x \in Live(u) : x \in Int
    BY <1>2
  <2>4. \A x \in Live(t) : Rank(Live(t), x) \in Int
    BY <1>2, RankRange
  <2> HIDE DEF i, j
  <2>0. q - 1 < r - 1 /\ q - 1 \in Int /\ r - 1 \in Int
    BY <1>1, <1>3
  <2>5. ASSUME j < i \/ i = j PROVE FALSE
    <3>1. CASE j < i
      <4>1. Rank(Live(u), j) < Rank(Live(u), i)
        BY <1>2, <2>1, <3>1, RankStrict
      <4> QED BY <4>1, <2>0, <2>1
    <3> QED BY <3>1, <2>5, <2>0, <2>1
  <2>6. i < j
    BY <2>1, <2>3, <2>5
  <2>7. g[i] \in Live(t) /\ g[j] \in Live(t) /\ g[i] < g[j]
    BY <2>1, <2>6 DEF Copies, Increasing
  <2>8. Rank(Live(t), g[i]) < Rank(Live(t), g[j])
    BY <1>2, <2>7, RankStrict
  <2> QED BY <2>2, <2>4, <2>7, <2>8
<1> HIDE DEF p, d
<1>4. S \subseteq 0 .. (d + 1) - 1 /\ S \in SUBSET (1 .. d) /\ d + 1 \in Nat
  BY <1>1, <1>2
<1>5. f \in [0 .. c - 1 -> S]
  <2>1. \A r \in 0 .. c - 1 : r + 1 \in 1 .. c
    BY <1>1
  <2> QED BY <2>1
<1>6. Increasing(f, 0 .. c - 1)
  BY <1>1, <1>3 DEF Increasing
<1>7. Reaches(f, 0 .. c - 1, S)
  <2>1. ASSUME NEW r \in 1 .. c PROVE r - 1 \in 0 .. c - 1 /\ f[r - 1] = p[r]
    BY <1>1
  <2> QED BY <2>1 DEF Reaches
<1>9. \A r \in 1 .. c : r - 1 \in 0 .. c - 1 /\ f[r - 1] = p[r]
  BY <1>1
<1> HIDE DEF f, S, c
<1>8. /\ Cardinality(S) = c
      /\ \A r \in 0 .. c - 1 : Rank(S, f[r]) = r /\ Nth(S, r) = f[r]
  BY ONLY <1>1, <1>4, <1>5, <1>6, <1>7, NthUnique, Zenon
<1>10. \A r \in 1 .. c : Nth(S, r - 1) = p[r]
  BY <1>8, <1>9
<1> QED BY <1>1, <1>4, <1>8, <1>10 DEF ShowsSome

\* Live buckets copied in any order, all of them, show a rearrangement.
LEMMA RearrangementShown ==
  ASSUME NEW t, t.next \in Nat, NEW u, u.next \in Nat, NEW g, Copies(u, t, g),
         \A i, j \in Live(u) : g[i] = g[j] => i = j,
         Cardinality(Live(u)) = Cardinality(Live(t))
  PROVE  ShowsRearranged(u, t)
<1> DEFINE p == Origin(u, t, g)
           c == Cardinality(Live(u))
<1>1. /\ c \in Nat /\ p \in [1 .. c -> 1 .. c] /\ DOMAIN Entries(t) = 1 .. c
      /\ Entries(u) = [r \in 1 .. c |-> Entries(t)[p[r]]]
  BY EntriesInherited
<1>2. Live(t) \subseteq 0 .. t.next - 1 /\ Live(u) \subseteq 0 .. u.next - 1
  BY LiveIndices
<1>3. ASSUME NEW q \in 1 .. c, NEW r \in 1 .. c, p[q] = p[r] PROVE q = r
  <2> DEFINE i == Nth(Live(u), q - 1)
             j == Nth(Live(u), r - 1)
  <2>1. /\ i \in Live(u) /\ Rank(Live(u), i) = q - 1
        /\ j \in Live(u) /\ Rank(Live(u), j) = r - 1
    BY EntryAt
  <2>2. p[q] = Rank(Live(t), g[i]) + 1 /\ p[r] = Rank(Live(t), g[j]) + 1
    BY DEF Origin
  <2> HIDE DEF i, j, p, c
  <2>3. g[i] \in Live(t) /\ g[j] \in Live(t)
    BY <2>1 DEF Copies
  <2>4. \A x \in Live(t) : Rank(Live(t), x) \in Int /\ Nth(Live(t), Rank(Live(t), x)) = x
    BY <1>2, RankRange, NthOfRank
  <2>5. Rank(Live(t), g[i]) = Rank(Live(t), g[j])
    BY <2>2, <2>3, <2>4, <1>3
  <2>6. g[i] = g[j]
    BY <2>3, <2>4, <2>5
  <2>7. i = j
    BY <2>1, <2>6
  <2> QED BY <2>1, <2>7, <1>1
<1> HIDE DEF p, c
<1> QED BY <1>1, <1>3, SMTT(30) DEF ShowsRearranged

\* What is shown depends on the buffer alone.
LEMMA BufferShows ==
  ASSUME NEW t, NEW u, u.next = t.next, u.key = t.key, u.value = t.value
  PROVE  Entries(u) = Entries(t)
<1>1. Live(u) = Live(t)
  BY DEF Live
<1> QED BY <1>1 DEF Entries

\* A gathered buffer copies the buckets it is gathered from.
LEMMA GatherCopies ==
  ASSUME NEW t, t = [f \in Fields |-> t[f]], t.next \in Nat, NEW n \in Nat,
         NEW src \in [0 .. n - 1 -> Live(t)], NEW u, u.next = n,
         u.key = Gather(t, src, n).key, u.value = Gather(t, src, n).value
  PROVE  Copies(u, t, src) /\ Live(u) = 0 .. n - 1
<1>1. /\ u.key = [i \in 0 .. n - 1 |-> t.key[src[i]]]
      /\ u.value = [i \in 0 .. n - 1 |-> t.value[src[i]]]
  BY DEF Gather, Fields
<1>2. \A i \in 0 .. n - 1 : src[i] \in Live(t) /\ t.key[src[i]] # Undef
  BY DEF Live
<1>3. Live(u) = 0 .. n - 1
  BY <1>1, <1>2 DEF Live
<1> QED BY <1>1, <1>2, <1>3 DEF Copies

\* rehash() shows what was shown, whether or not it moves buckets down.
LEMMA RehashShows ==
  ASSUME NEW t, BufferOK(t)
  PROVE  Entries(Rehash(t)) = Entries(t)
<1>0. t = [f \in Fields |-> t[f]] /\ t.next \in Nat
  BY DEF BufferOK
<1> DEFINE n == Cardinality(Live(t))
           src == [i \in 0 .. n - 1 |-> Nth(Live(t), i)]
           g == Gather(t, src, n)
           u == Relink(g)
<1>1. CASE IsPacked(t)
  <2>1. /\ Relink(t).key = t.key /\ Relink(t).value = t.value
        /\ Relink(t).next = t.next
    BY <1>0 DEF Relink, Fields
  <2>2. Entries(Relink(t)) = Entries(t)
    BY <2>1, BufferShows
  <2> QED BY <1>1, <2>2 DEF Rehash
<1>2. CASE ~IsPacked(t)
  <2>1. Rehash(t) = u
    BY <1>2 DEF Rehash, Compacted
  <2>2. u.key = g.key /\ u.value = g.value /\ u.next = n
    BY <1>0 DEF Relink, Gather, Fields
  <2>3. /\ n \in Nat /\ src \in [0 .. n - 1 -> Live(t)]
        /\ Increasing(src, 0 .. n - 1) /\ Reaches(src, 0 .. n - 1, Live(t))
    <3>1. Live(t) \subseteq 0 .. t.next - 1
      BY <1>0, LiveIndices
    <3> QED BY <1>0, <3>1, ScanInOrder
  <2> HIDE DEF n, src, u
  <2>4. Copies(u, t, src) /\ Live(u) = 0 .. n - 1
    BY <1>0, <2>2, <2>3, GatherCopies
  <2>5. u.next \in Nat
    BY <2>2, <2>3
  <2> HIDE DEF g
  <2>6. Increasing(src, Live(u)) /\ Reaches(src, Live(u), Live(t))
    BY <2>3, <2>4
  <2>7. Entries(u) = Entries(t)
    BY <1>0, <2>4, <2>5, <2>6, SameShown
  <2> QED BY <2>1, <2>7
<1> QED BY <1>1, <1>2

\* The moves of pack() from the first hole on leave the order alone.
LEMMA PackInOrder ==
  ASSUME NEW t, t.next \in Nat, t.minDeleted \in Nat, CountsLive(t),
         HoleAtMin(t), LiveBelowMin(t)
  PROVE  /\ PackSource(t) \in [0 .. t.size - 1 -> Live(t)]
         /\ Increasing(PackSource(t), 0 .. t.size - 1)
         /\ Reaches(PackSource(t), 0 .. t.size - 1, Live(t))
<1> DEFINE n == t.next
           L == Live(t)
           m == t.minDeleted
           A == {i \in L : i > m}
           c == Cardinality(A)
           z == t.size
           src == [i \in 0 .. z - 1 |->
                     IF i \in m .. m + c - 1 THEN Nth(A, i - m) ELSE i]
<1>1. /\ src \in [0 .. z - 1 -> L]
      /\ \A i, j \in 0 .. z - 1 : src[i] = src[j] => i = j
  BY PackMoves DEF PackSource
<1>2. n \in Nat /\ L \subseteq 0 .. n - 1 /\ m \in Nat /\ z = Cardinality(L)
  BY LiveIndices DEF CountsLive
<1>3. A \subseteq 0 .. n - 1
  BY <1>2
<1>4. /\ c \in Nat /\ IsFiniteSet(L) /\ z \in Nat
      /\ \A r \in 0 .. c - 1 : Nth(A, r) \in A /\ Rank(A, Nth(A, r)) = r
  BY <1>2, <1>3, IndicesFinite, NthIsMember
<1>5. Reaches(src, 0 .. z - 1, L)
  <2>1. src \in Injection(0 .. z - 1, L)
    BY <1>1 DEF Injection, IsInjective
  <2>2. Cardinality(0 .. z - 1) = z
    BY <1>4, FS_Interval
  <2> HIDE DEF src, z, L
  <2>3. src \in Surjection(0 .. z - 1, L)
    BY <1>2, <1>4, <2>1, <2>2, FS_Injection
  <2> QED BY <2>3 DEF Surjection, Reaches
<1>6. /\ \A i \in 0 .. z - 1 :
           src[i] = IF i \in m .. m + c - 1 THEN Nth(A, i - m) ELSE i
      /\ \A x \in A : x > m /\ x \in Int
  BY <1>2
<1>9. \A a, b \in A : b < a => Rank(A, b) < Rank(A, a)
  BY <1>2, <1>3, RankStrict
<1>8. ASSUME NEW i \in 0 .. z - 1, i >= m PROVE i \in m .. m + c - 1
  \* Otherwise i would be a bucket met a second time, or beyond the buffer.
  <2> DEFINE P == 0 .. m - 1
  <2>1. IsFiniteSet(P) /\ Cardinality(P) = m
    BY <1>2, IndicesBelow
  <2>2. IsFiniteSet(A)
    BY <1>2, <1>3, IndicesFinite
  <2>3. L \subseteq P \union A
    BY <1>2 DEF HoleAtMin, Live
  <2>4. IsFiniteSet(P \union A) /\ P \intersect A = {}
    <3>1. P \intersect A = {}
      BY <1>2, <1>6
    <3> HIDE DEF P, A
    <3> QED BY <2>1, <2>2, <3>1, FS_Union
  <2>5. Cardinality(P \union A) = m + c
    <3>1. Cardinality(P \union A)
            = Cardinality(P) + Cardinality(A) - Cardinality(P \intersect A)
      BY <2>1, <2>2, FS_Union
    <3>2. Cardinality(P \intersect A) = 0
      BY <2>4, FS_EmptySet
    <3> QED BY <1>2, <1>4, <2>1, <3>1, <3>2
  <2>6. z <= m + c
    BY <1>2, <2>3, <2>4, <2>5, FS_Subset
  <2> QED BY <1>2, <1>4, <1>8, <2>6
<1> HIDE DEF n, L, m, A, c, z, src
<1>7. ASSUME NEW i \in 0 .. z - 1, NEW j \in 0 .. z - 1, i < j
      PROVE  src[i] < src[j]
  <2>0. i \in Int /\ j \in Int /\ i < j
    BY <1>7
  <2>1. CASE j < m
    <3>1. src[i] = i /\ src[j] = j
      BY <1>2, <1>4, <1>6, <2>0, <2>1
    <3> QED BY <3>1, <2>0
  <2>2. CASE i < m /\ j >= m
    <3>1. src[i] = i /\ j - m \in 0 .. c - 1 /\ src[j] = Nth(A, j - m)
      BY <1>2, <1>4, <1>6, <1>8, <2>0, <2>2
    <3>2. src[j] > m /\ src[j] \in Int
      BY <3>1, <1>4, <1>6
    <3> QED BY <3>1, <3>2, <2>0, <2>2, <1>2
  <2>3. CASE i >= m
    <3>1. /\ i - m \in 0 .. c - 1 /\ src[i] = Nth(A, i - m)
          /\ j - m \in 0 .. c - 1 /\ src[j] = Nth(A, j - m)
      BY <1>2, <1>4, <1>6, <1>8, <2>0, <2>3
    <3>2. /\ src[i] \in A /\ Rank(A, src[i]) = i - m
          /\ src[j] \in A /\ Rank(A, src[j]) = j - m
      BY <3>1, <1>4
    <3>3. i - m < j - m /\ ~ (j - m < i - m) /\ i - m # j - m
      BY <2>0, <1>2
    <3>4. ~ (src[j] < src[i])
      BY <3>2, <3>3, <1>9
    <3>5. src[i] # src[j]
      BY <3>2, <3>3
    <3> QED BY <3>2, <3>4, <3>5, <1>6
  <2> QED BY <2>0, <2>1, <2>2, <2>3, <1>2
<1>10. Increasing(src, 0 .. z - 1)
  BY <1>7 DEF Increasing
<1> QED BY <1>1, <1>5, <1>10 DEF PackSource, n, L, m, A, c, z, src

\* pack() shows what was shown when minDeleted is the first hole.
LEMMA PackShows ==
  ASSUME NEW t, BufferOK(t), CountsLive(t),
         IsPacked(t) \/ (HoleAtMin(t) /\ LiveBelowMin(t))
  PROVE  Entries(Pack(t)) = Entries(t)
<1>1. CASE IsPacked(t)
  BY <1>1 DEF Pack
<1>2. CASE ~IsPacked(t)
  <2> DEFINE m == t.minDeleted
             A == {i \in Live(t) : i > m}
             src == [i \in 0 .. t.size - 1 |->
                       IF i \in m .. m + Cardinality(A) - 1
                       THEN Nth(A, i - m) ELSE i]
             u == Pack(t)
  <2>1. /\ t.next \in Nat /\ t.size \in Nat /\ m \in Nat
        /\ t = [f \in Fields |-> t[f]] /\ HoleAtMin(t) /\ LiveBelowMin(t)
    BY <1>2 DEF BufferOK
  <2>2. u = [Gather(t, src, t.size) EXCEPT !.minDeleted = t.capacity]
    BY <1>2 DEF Pack
  <2>3. /\ src \in [0 .. t.size - 1 -> Live(t)]
        /\ Increasing(src, 0 .. t.size - 1)
        /\ Reaches(src, 0 .. t.size - 1, Live(t))
    BY <2>1, PackInOrder DEF PackSource
  <2> HIDE DEF src
  <2>4. /\ u.key = Gather(t, src, t.size).key
        /\ u.value = Gather(t, src, t.size).value /\ u.next = t.size
    BY <2>1, <2>2 DEF Gather, Fields
  <2> HIDE DEF u
  <2>5. Copies(u, t, src) /\ Live(u) = 0 .. t.size - 1
    BY <2>1, <2>3, <2>4, GatherCopies
  <2>6. u.next \in Nat
    BY <2>1, <2>4
  <2>7. Increasing(src, Live(u)) /\ Reaches(src, Live(u), Live(t))
    BY <2>3, <2>5
  <2>8. Entries(u) = Entries(t)
    BY <2>1, <2>5, <2>6, <2>7, SameShown
  <2> QED BY <2>8 DEF u
<1> QED BY <1>1, <1>2

\* A truncation after a removal shows what was shown.
LEMMA TruncationShows ==
  ASSUME NEW t, TableTypeOK(t), TableInv(t),
         Truncates(t) => IsPacked(t) \/ (HoleAtMin(t) /\ LiveBelowMin(t))
  PROVE  Entries(AutoTruncate(t)) = Entries(t)
<1>1. CASE ~Truncates(t)
  BY <1>1 DEF AutoTruncate
<1>2. CASE Truncates(t)
  <2> DEFINE g == Pack(t)
             c == t.capacity \div 2
             w == [g EXCEPT !.capacity = c]
  <2>1. BufferOK(t) /\ CountsLive(t) /\ Distinct(t)
    BY SoundBuffer DEF TableInv
  <2>2. BufferOK(g)
    BY <1>2, <2>1, PackKeeps
  <2>3. Entries(g) = Entries(t)
    BY <1>2, <2>1, PackShows
  <2>4. c \in 1 .. MaxCapacity
    <3>1. t.capacity \in 1 .. MaxCapacity /\ t.capacity \in Nat
      BY SoundBuffer
    <3>2. c >= MinCapacity
      BY <1>2 DEF Truncates
    <3> QED BY <3>1, <3>2, CapacityAssumption
  <2> HIDE DEF g, c
  <2>5. BufferOK(w)
    BY <2>2, <2>4, Recapacitate
  <2>6. w.key = g.key /\ w.value = g.value /\ w.next = g.next
    BY <2>2 DEF BufferOK, Fields
  <2> HIDE DEF w
  <2>7. Entries(w) = Entries(g)
    BY <2>6, BufferShows
  <2>8. Entries(Rehash(w)) = Entries(w)
    BY <2>5, RehashShows
  <2>9. AutoTruncate(t) = Rehash(w)
    BY <1>2 DEF AutoTruncate, w, g, c
  <2> QED BY <2>3, <2>7, <2>8, <2>9
<1> QED BY <1>1, <1>2

\* A buffer made larger shows what was shown, and so does a rehash of it.
LEMMA LargerShows ==
  ASSUME NEW t, BufferOK(t), NEW c \in 1 .. MaxCapacity
  PROVE  Entries(Rehash([t EXCEPT !.capacity = c])) = Entries(t)
<1> DEFINE w == [t EXCEPT !.capacity = c]
<1>1. BufferOK(w)
  BY Recapacitate
<1>2. w.key = t.key /\ w.value = t.value /\ w.next = t.next
  BY DEF BufferOK, Fields
<1> HIDE DEF w
<1>3. Entries(w) = Entries(t)
  BY <1>2, BufferShows
<1>4. Entries(Rehash(w)) = Entries(w)
  BY <1>1, RehashShows
<1> QED BY <1>3, <1>4 DEF w

LEMMA IncreaseShows ==
  ASSUME NEW t, TableTypeOK(t), IncreaseCapacity(t).capacity <= MaxCapacity
  PROVE  Entries(IncreaseCapacity(t)) = Entries(t)
<1>1. BufferOK(t) /\ t.capacity \in Nat \ {0} /\ t = [f \in Fields |-> t[f]]
  BY SoundBuffer
<1>2. CASE t.next > t.size + t.size \div 32
  BY <1>1, <1>2, RehashShows DEF IncreaseCapacity
<1>3. CASE ~ (t.next > t.size + t.size \div 32)
  <2> DEFINE u == Rehash([t EXCEPT !.capacity = 2 * t.capacity])
  <2>1. IncreaseCapacity(t) = u
    BY <1>3 DEF IncreaseCapacity
  <2>2. u.capacity = 2 * t.capacity
    BY <1>1 DEF Rehash, Compacted, Relink, Gather, Fields
  <2> HIDE DEF u
  <2>3. 2 * t.capacity \in 1 .. MaxCapacity
    BY <1>1, <2>1, <2>2, CapacityAssumption
  <2> QED BY <1>1, <2>1, <2>3, LargerShows DEF u
<1> QED BY <1>2, <1>3

\* A new bucket shows a new last entry.
LEMMA InsertShows ==
  ASSUME NEW t, TableTypeOK(t), TableInv(t), t.next < t.capacity,
         NEW k \in Key, NEW v \in Value, k \notin KeySet(t)
  PROVE  Entries(InitNextBucket(t, k, v))
           = Append(Entries(t), [key |-> k, value |-> v])
<1> DEFINE u == InitNextBucket(t, k, v)
           L == Live(t)
           c == Cardinality(L)
           e == [key |-> k, value |-> v]
           f == [r \in 0 .. c |-> IF r = c THEN t.next ELSE Nth(L, r)]
<1>1. /\ t.next \in Nat /\ t = [x \in Fields |-> t[x]] /\ t.capacity \in Nat
  BY SoundBuffer
<1>2. /\ TableTypeOK(u)
      /\ Live(u) = L \union {t.next}
      /\ u.next = t.next + 1
  BY InsertKeeps
<1>3. /\ u.key = [j \in 0 .. t.next |-> IF j = t.next THEN k ELSE t.key[j]]
      /\ u.value = [j \in 0 .. t.next |-> IF j = t.next THEN v ELSE t.value[j]]
  BY <1>1 DEF InitNextBucket, Fields
<1> HIDE DEF u
<1>4. /\ L \subseteq 0 .. t.next - 1 /\ c \in Nat
      /\ Live(u) \subseteq 0 .. (t.next + 1) - 1
  BY <1>1, <1>2, LiveIndices
<1>5. LET s == [r \in 0 .. c - 1 |-> Nth(L, r)]
      IN  /\ s \in [0 .. c - 1 -> L]
          /\ Increasing(s, 0 .. c - 1) /\ Reaches(s, 0 .. c - 1, L)
  BY <1>1, <1>4, ScanInOrder
<1>6. \A r \in 0 .. c - 1 : Nth(L, r) \in L
  BY <1>5
<1>7. \A q, r \in 0 .. c - 1 : q < r => Nth(L, q) < Nth(L, r)
  BY <1>5 DEF Increasing
<1>8. \A x \in L : \E r \in 0 .. c - 1 : Nth(L, r) = x
  BY <1>5 DEF Reaches
<1> HIDE DEF L, c
<1>9. f \in [0 .. (c + 1) - 1 -> Live(u)] /\ c + 1 \in Nat /\ t.next + 1 \in Nat
  <2>1. \A r \in 0 .. c : r = c \/ r \in 0 .. c - 1
    BY <1>4
  <2> QED BY <1>1, <1>2, <1>4, <1>6, <2>1
<1>10. Increasing(f, 0 .. (c + 1) - 1)
  <2>1. ASSUME NEW q \in 0 .. c, NEW r \in 0 .. c, q < r PROVE f[q] < f[r]
    <3>1. q \in 0 .. c - 1 /\ q # c
      BY <1>4, <2>1
    <3>2. CASE r = c
      BY <1>1, <1>4, <1>6, <3>1, <3>2
    <3>3. CASE r # c
      <4>1. r \in 0 .. c - 1
        BY <1>4, <3>3
      <4> QED BY <1>7, <2>1, <3>1, <3>3, <4>1
    <3> QED BY <3>2, <3>3
  <2> QED BY <1>4, <2>1 DEF Increasing
<1>11. Reaches(f, 0 .. (c + 1) - 1, Live(u))
  <2>1. ASSUME NEW x \in Live(u) PROVE \E r \in 0 .. c : f[r] = x
    <3>1. CASE x = t.next
      BY <1>4, <3>1
    <3>2. CASE x # t.next
      <4>1. PICK r \in 0 .. c - 1 : Nth(L, r) = x
        BY <1>2, <1>8, <3>2
      <4>2. r \in 0 .. c /\ r # c
        BY <1>4, <4>1
      <4> QED BY <4>1, <4>2
    <3> QED BY <3>1, <3>2
  <2> QED BY <1>4, <2>1 DEF Reaches
<1>20. f[c] = t.next /\ \A r \in 0 .. c - 1 : f[r] = Nth(L, r)
  BY <1>4
<1> HIDE DEF f
<1>12. /\ Cardinality(Live(u)) = c + 1
       /\ \A r \in 0 .. (c + 1) - 1 : Rank(Live(u), f[r]) = r /\ Nth(Live(u), r) = f[r]
  BY ONLY <1>4, <1>9, <1>10, <1>11, NthUnique, ZenonT(30)
<1>13. /\ DOMAIN Entries(t) = 1 .. c
       /\ Entries(t) = [r \in 1 .. c |-> Entries(t)[r]]
       /\ \A r \in 1 .. c :
            Entries(t)[r] = [key   |-> t.key[Nth(L, r - 1)],
                             value |-> t.value[Nth(L, r - 1)]]
  BY <1>1, EntryAt DEF L, c
<1>14. u.next \in Nat
  BY <1>1, <1>2
<1>15. /\ Entries(u) = [r \in 1 .. c + 1 |-> Entries(u)[r]]
       /\ \A r \in 1 .. c + 1 :
            Entries(u)[r] = [key   |-> u.key[Nth(Live(u), r - 1)],
                             value |-> u.value[Nth(Live(u), r - 1)]]
  BY <1>12, <1>14, EntryAt
<1>16. Entries(u)[c + 1] = e
  <2>1. Nth(Live(u), c) = t.next /\ (c + 1) - 1 = c /\ c + 1 \in 1 .. c + 1
    BY <1>4, <1>12, <1>20
  <2>2. u.key[t.next] = k /\ u.value[t.next] = v
    BY <1>1, <1>3
  <2> QED BY <1>15, <2>1, <2>2
<1>17. ASSUME NEW r \in 1 .. c PROVE Entries(u)[r] = Entries(t)[r]
  <2>1. /\ r - 1 \in 0 .. c - 1 /\ r - 1 \in 0 .. (c + 1) - 1
        /\ r \in 1 .. c + 1
    BY <1>4
  <2>2. Nth(Live(u), r - 1) = Nth(L, r - 1) /\ Nth(L, r - 1) \in L
    BY <1>6, <1>12, <1>20, <2>1
  <2>3. \A x \in L : u.key[x] = t.key[x] /\ u.value[x] = t.value[x]
    <3>1. \A x \in L : x \in 0 .. t.next /\ x # t.next
      BY <1>1, <1>4
    <3> QED BY <1>3, <3>1
  <2> QED BY <1>13, <1>15, <2>1, <2>2, <2>3
<1>18. Append(Entries(t), e)
         = [r \in 1 .. c + 1 |-> IF r = c + 1 THEN e ELSE Entries(t)[r]]
  <2>1. Entries(t) \in Seq({Entries(t)[r] : r \in 1 .. c})
    BY <1>4, <1>13
  <2>2. Len(Entries(t)) = c
    BY <1>4, <1>13, <2>1
  <2> QED BY <2>1, <2>2
<1>19. \A r \in 1 .. c + 1 : r = c + 1 \/ r \in 1 .. c
  BY <1>4
<1> QED BY <1>15, <1>16, <1>17, <1>18, <1>19 DEF u

\* A put into a table, whether or not the buffer grows first.
LEMMA PutShows ==
  ASSUME NEW t, NEW d \in BOOLEAN, Sound(t, d), NEW k \in Key, NEW v \in Value,
         k \notin KeySet(t), PutNew(t, k, v).capacity <= MaxCapacity
  PROVE  Entries(PutNew(t, k, v)) = Append(Entries(t), [key |-> k, value |-> v])
<1>1. /\ TableTypeOK(t) /\ TableInv(t)
      /\ t.next \in Nat /\ t.capacity \in Nat \ {0} /\ t.next <= t.capacity
      /\ t = [f \in Fields |-> t[f]]
  BY SoundBuffer DEF Sound, TableInv
<1>2. CASE t.next = t.capacity
  <2> DEFINE u == IncreaseCapacity(t)
  <2>1. PutNew(t, k, v) = InitNextBucket(u, k, v)
    BY <1>2 DEF PutNew, Full
  <2>2. u.capacity <= MaxCapacity
    <3>1. u = [f \in Fields |-> u[f]]
      BY <1>1, IncreaseShape
    <3> HIDE DEF u
    <3> QED BY <2>1, <3>1 DEF InitNextBucket, Fields
  <2>3. Sound(u, FALSE) /\ KeySet(u) = KeySet(t) /\ u.next < u.capacity
    BY <1>1, <1>2, <2>2, IncreaseKeeps
  <2>4. Entries(u) = Entries(t)
    BY <1>1, <2>2, IncreaseShows
  <2> HIDE DEF u
  <2>5. TableTypeOK(u) /\ TableInv(u)
    BY <2>3 DEF Sound
  <2> QED BY <2>1, <2>3, <2>4, <2>5, InsertShows
<1>3. CASE t.next # t.capacity
  <2>1. PutNew(t, k, v) = InitNextBucket(t, k, v)
    BY <1>3 DEF PutNew, Full
  <2>2. t.next < t.capacity
    BY <1>1, <1>3
  <2> QED BY <1>1, <2>1, <2>2, InsertShows
<1> QED BY <1>2, <1>3

\* ... or after it.
LEMMA PutDistinctShows ==
  ASSUME NEW t, NEW d \in BOOLEAN, Sound(t, d), NEW k \in Key, NEW v \in Value,
         k \notin KeySet(t), t.next < t.capacity,
         PutDistinctBucket(t, k, v).capacity <= MaxCapacity
  PROVE  Entries(PutDistinctBucket(t, k, v))
           = Append(Entries(t), [key |-> k, value |-> v])
<1> DEFINE u == InitNextBucket(t, k, v)
<1>1. TableTypeOK(t) /\ TableInv(t)
  BY DEF Sound
<1>2. Entries(u) = Append(Entries(t), [key |-> k, value |-> v])
  BY <1>1, InsertShows
<1>3. TableTypeOK(u)
  BY <1>1, InsertKeeps
<1>4. PutDistinctBucket(t, k, v) = IF Full(u) THEN IncreaseCapacity(u) ELSE u
  BY DEF PutDistinctBucket
<1> HIDE DEF u
<1>5. CASE Full(u)
  <2>1. Entries(IncreaseCapacity(u)) = Entries(u)
    BY <1>3, <1>4, <1>5, IncreaseShows
  <2> QED BY <1>2, <1>4, <1>5, <2>1
<1> QED BY <1>2, <1>4, <1>5

\* A live bucket's own index says where it is copied from when it stays put.
LEMMA RemainderKept ==
  ASSUME NEW t, t.next \in Nat, NEW u, u.next \in Nat, Live(u) \subseteq Live(t),
         \A i \in Live(u) : u.key[i] = t.key[i] /\ u.value[i] = t.value[i]
  PROVE  ShowsSome(u, t)
<1> DEFINE g == [i \in Live(u) |-> i]
<1>1. Copies(u, t, g)
  BY DEF Copies
<1>2. Increasing(g, Live(u))
  BY DEF Increasing
<1> HIDE DEF g
<1> QED BY <1>1, <1>2, KeptShown

\* A removal shows all other entries, before and after a truncation.
LEMMA RemovalShows ==
  ASSUME NEW t, NEW d \in BOOLEAN, Sound(t, d), NEW i \in Live(t), NEW p,
         Precedes(t, p, i)
  PROVE  ShowsSome(AutoTruncate(DeleteBucket(t, i, p)), t)
<1> DEFINE u == DeleteBucket(t, i, p)
<1>1. TableTypeOK(t) /\ TableInv(t) /\ MinDeletedInv(t, d) /\ CountsLive(t)
  BY DEF Sound, TableInv
<1>2. TableTypeOK(u) /\ TableInv(u)
  BY <1>1, DeleteKeeps
<1>3. Deleted(u, t, i, p)
  BY <1>1, DeleteBuffer
<1>4. ASSUME ~d, Truncates(u) PROVE LiveBelowMin(u) /\ (IsPacked(u) \/ HoleAtMin(u))
  <2>1. MinDeletedOK(t)
    BY <1>1, <1>4 DEF MinDeletedInv
  <2> QED BY <1>1, <1>4, <2>1, DeleteMin
<1> HIDE DEF u
<1>5. Truncates(u) => ~d
  <2>1. u.capacity = t.capacity /\ t.capacity \in Nat
    BY <1>1, <1>3, SoundBuffer DEF Deleted
  <2>2. d => t.capacity \div 2 < MinCapacity
    BY <1>1 DEF MinDeletedInv
  <2>3. t.capacity \div 2 \in Nat /\ MinCapacity \in Nat
    BY <2>1, CapacityAssumption
  <2> QED BY <2>1, <2>2, <2>3 DEF Truncates
<1>6. Entries(AutoTruncate(u)) = Entries(u)
  BY <1>2, <1>4, <1>5, TruncationShows
<1>7. /\ t.next \in Nat /\ u.next \in Nat /\ Live(u) = Live(t) \ {i}
      /\ Live(u) \subseteq 0 .. u.next - 1
      /\ u.key = [j \in 0 .. u.next - 1 |-> IF j = i THEN Undef ELSE t.key[j]]
      /\ u.value = [j \in 0 .. u.next - 1 |-> IF j = i THEN Undef ELSE t.value[j]]
  BY <1>1, <1>3, SoundBuffer, LiveIndices DEF Deleted
<1>8. \A j \in Live(u) : u.key[j] = t.key[j] /\ u.value[j] = t.value[j]
  BY <1>7
<1>9. Live(u) \subseteq Live(t)
  BY <1>7
<1>10. ShowsSome(u, t)
  BY <1>7, <1>8, <1>9, RemainderKept
<1> QED BY <1>6, <1>10 DEF ShowsSome, u

\* A table copied out of live buckets copies them, whatever its capacity.
LEMMA CopyCopies ==
  ASSUME NEW t, t = [f \in Fields |-> t[f]], t.next \in Nat, NEW n \in Nat,
         NEW src \in [0 .. n - 1 -> Live(t)], NEW c
  PROVE  LET u == CopyOf(t, src, n, c) IN
         u.next = n /\ Copies(u, t, src) /\ Live(u) = 0 .. n - 1
<1> DEFINE u == CopyOf(t, src, n, c)
<1>1. /\ u.next = n /\ u.key = Gather(t, src, n).key
      /\ u.value = Gather(t, src, n).value
  BY DEF CopyOf, Relink, Gather, Fields
<1> HIDE DEF u
<1>2. Copies(u, t, src) /\ Live(u) = 0 .. n - 1
  BY <1>1, GatherCopies
<1> QED BY <1>1, <1>2 DEF u

\* A copy from buckets of which one was deleted shows less than it counts.
LEMMA CopyFaultFree ==
  ASSUME NEW t, t = [f \in Fields |-> t[f]], t.next \in Nat, NEW n \in Nat,
         NEW src \in [0 .. n - 1 -> 0 .. t.next - 1], NEW c,
         Cardinality(Live(CopyOf(t, src, n, c))) = CopyOf(t, src, n, c).size
  PROVE  src \in [0 .. n - 1 -> Live(t)]
<1> DEFINE u == CopyOf(t, src, n, c)
<1>1. /\ u.next = n /\ u.size = n /\ u.key = [i \in 0 .. n - 1 |-> t.key[src[i]]]
  BY DEF CopyOf, Relink, Gather, Fields
<1>2. Cardinality(Live(u)) = u.size
  OBVIOUS
<1> HIDE DEF u
<1>3. Live(u) \in SUBSET (0 .. n - 1)
  BY <1>1 DEF Live
<1>4. IsFiniteSet(0 .. n - 1) /\ Cardinality(0 .. n - 1) = n
  BY IndicesBelow
<1>5. Live(u) = 0 .. n - 1
  BY <1>1, <1>2, <1>3, <1>4, FS_Subset
<1>6. \A i \in 0 .. n - 1 : t.key[src[i]] # Undef
  BY <1>1, <1>5 DEF Live
<1>7. \A i \in 0 .. n - 1 : src[i] \in Live(t)
  BY <1>6 DEF Live
<1> QED BY <1>7

\* New values in the same buckets, the keys untouched.
LEMMA RevaluedShows ==
  ASSUME NEW t, t = [x \in Fields |-> t[x]], t.next \in Nat, NEW f
  PROVE  LET u == [t EXCEPT !.value = f]
             c == Cardinality(Live(t))
         IN  Entries(u) = [r \in 1 .. c |-> [key   |-> Entries(t)[r].key,
                                             value |-> f[Nth(Live(t), r - 1)]]]
<1> DEFINE u == [t EXCEPT !.value = f]
           c == Cardinality(Live(t))
<1>1. u.key = t.key /\ u.next = t.next /\ u.value = f
  BY DEF Fields
<1> HIDE DEF u
<1>2. Live(u) = Live(t)
  BY <1>1 DEF Live
<1>3. ASSUME NEW r \in 1 .. c PROVE Entries(t)[r].key = t.key[Nth(Live(t), r - 1)]
  <2> DEFINE i == Nth(Live(t), r - 1)
  <2>1. Entries(t)[r] = [key |-> t.key[i], value |-> t.value[i]]
    BY EntryAt
  <2> HIDE DEF i
  <2>2. Entries(t)[r].key = t.key[i]
    BY <2>1
  <2> QED BY <2>2 DEF i
<1>4. Entries(u) = [r \in 1 .. c |-> [key   |-> t.key[Nth(Live(t), r - 1)],
                                      value |-> f[Nth(Live(t), r - 1)]]]
  BY <1>1, <1>2 DEF Entries
<1>5. \A r \in 1 .. c :
        [key |-> t.key[Nth(Live(t), r - 1)], value |-> f[Nth(Live(t), r - 1)]]
          = [key |-> Entries(t)[r].key, value |-> f[Nth(Live(t), r - 1)]]
  BY <1>3
<1> HIDE DEF c
<1>6. Entries(u) = [r \in 1 .. c |-> [key   |-> Entries(t)[r].key,
                                      value |-> f[Nth(Live(t), r - 1)]]]
  BY <1>4, <1>5
<1> QED BY <1>6 DEF u, c

\* What it is for u to show the value v for the key k, and t's entries besides.
ShowsReplaced(u, t, k, v) ==
  \E r \in DOMAIN Entries(t) :
    /\ Entries(t)[r].key = k
    /\ Entries(u) = [Entries(t) EXCEPT ![r] = [key |-> k, value |-> v]]

\* A put that finds its key replaces the value in its place.
LEMMA ReplacementShows ==
  ASSUME NEW t, TableTypeOK(t), NEW i \in Live(t), NEW v,
         NEW u, u = [t EXCEPT !.value = [t.value EXCEPT ![i] = v]]
  PROVE  ShowsReplaced(u, t, t.key[i], v)
<1> DEFINE L == Live(t)
           c == Cardinality(L)
           f == [t.value EXCEPT ![i] = v]
           r == Rank(L, i) + 1
<1>1. /\ t = [x \in Fields |-> t[x]] /\ t.next \in Nat
      /\ t.value = [j \in 0 .. t.next - 1 |-> t.value[j]]
  BY DEF TableTypeOK
<1>2. L \subseteq 0 .. t.next - 1
  BY <1>1, LiveIndices
<1>3. /\ c \in Nat /\ DOMAIN Entries(t) = 1 .. c
      /\ Entries(t) = [q \in 1 .. c |-> Entries(t)[q]]
      /\ \A q \in 1 .. c :
           /\ Nth(L, q - 1) \in L /\ Rank(L, Nth(L, q - 1)) = q - 1
           /\ Entries(t)[q] = [key |-> t.key[Nth(L, q - 1)],
                               value |-> t.value[Nth(L, q - 1)]]
  BY <1>1, EntryAt
<1>4. Rank(L, i) \in 0 .. c - 1 /\ Nth(L, Rank(L, i)) = i
  BY <1>1, <1>2, RankRange, NthOfRank
<1>5. Entries(u) = [q \in 1 .. c |-> [key   |-> Entries(t)[q].key,
                                      value |-> f[Nth(L, q - 1)]]]
  BY <1>1, RevaluedShows
<1>6. f[i] = v /\ \A j \in L : j # i => f[j] = t.value[j]
  BY <1>1, <1>2
<1> HIDE DEF L, c, f
<1>7. r \in 1 .. c /\ r - 1 = Rank(L, i)
  BY <1>3, <1>4
<1>8. \A q \in 1 .. c : q # r => Nth(L, q - 1) # i
  BY <1>3, <1>7
<1>9. ASSUME NEW q \in 1 .. c
      PROVE  [key |-> Entries(t)[q].key, value |-> f[Nth(L, q - 1)]]
               = IF q = r THEN [key |-> t.key[i], value |-> v] ELSE Entries(t)[q]
  <2>1. CASE q = r
    BY <1>3, <1>4, <1>6, <1>7, <2>1
  <2>2. CASE q # r
    <3> DEFINE j == Nth(L, q - 1)
    <3>1. j \in L /\ j # i /\ Entries(t)[q] = [key |-> t.key[j], value |-> t.value[j]]
      BY <1>3, <1>8, <2>2
    <3>2. f[j] = t.value[j]
      BY <1>6, <3>1
    <3> QED BY <2>2, <3>1, <3>2
  <2> QED BY <2>1, <2>2
<1>11. Entries(u) = [Entries(t) EXCEPT ![r] = [key |-> t.key[i], value |-> v]]
  BY <1>3, <1>5, <1>9
<1>12. Entries(t)[r].key = t.key[i]
  BY <1>3, <1>4, <1>7
<1> QED BY <1>3, <1>7, <1>11, <1>12 DEF ShowsReplaced

\* A pack() that does not fault copies live buckets, each of them once.
LEMMA PackCopies ==
  ASSUME NEW t, TableTypeOK(t), CountsLive(t), Distinct(t), PackFault(t) = "none"
  PROVE  \E g : /\ Copies(Pack(t), t, g)
                /\ \A i, j \in Live(Pack(t)) : g[i] = g[j] => i = j
<1>1. /\ BufferOK(t) /\ t.next \in Nat /\ t.minDeleted \in Nat
      /\ t = [f \in Fields |-> t[f]]
  BY SoundBuffer
<1>2. t.size \in Nat /\ t.size <= t.next
  BY <1>1, SizeWithinNext
<1>3. /\ Distinct(Pack(t)) /\ Live(Pack(t)) = 0 .. t.size - 1
  BY PackCovers
<1>4. CASE IsPacked(t)
  <2> DEFINE g == [i \in Live(t) |-> i]
  <2>1. Pack(t) = t
    BY <1>4 DEF Pack
  <2>2. Copies(t, t, g) /\ \A i, j \in Live(t) : g[i] = g[j] => i = j
    BY DEF Copies
  <2> QED BY <2>1, <2>2
<1>5. CASE ~IsPacked(t)
  <2> DEFINE m == t.minDeleted
             A == {i \in Live(t) : i > m}
             src == [i \in 0 .. t.size - 1 |->
                       IF i \in m .. m + Cardinality(A) - 1
                       THEN Nth(A, i - m) ELSE i]
             u == Pack(t)
  <2>1. u = [Gather(t, src, t.size) EXCEPT !.minDeleted = t.capacity]
    BY <1>5 DEF Pack
  <2>2. \A i \in 0 .. t.size - 1 : src[i] \in 0 .. t.next - 1
    <3>1. A \subseteq 0 .. t.next - 1
      BY <1>1, LiveIndices
    <3>2. /\ Cardinality(A) \in Nat
          /\ \A j \in 0 .. Cardinality(A) - 1 : Nth(A, j) \in A
      BY <1>1, <3>1, IndicesFinite, NthIsMember
    <3> DEFINE c == Cardinality(A)
    <3> HIDE DEF A, c
    <3>3. ASSUME NEW i \in 0 .. t.size - 1 PROVE src[i] \in 0 .. t.next - 1
      <4>1. CASE i \in m .. m + c - 1
        <5>1. i - m \in 0 .. c - 1
          BY <1>1, <3>2, <4>1 DEF c
        <5> QED BY <3>1, <3>2, <4>1, <5>1 DEF c
      <4>2. CASE i \notin m .. m + c - 1
        BY <1>1, <1>2, <4>2 DEF c
      <4> QED BY <4>1, <4>2
    <3> QED BY <3>3
  <2>6. src = [i \in 0 .. t.size - 1 |-> src[i]]
    OBVIOUS
  <2> HIDE DEF src
  <2>3. /\ u.key = [i \in 0 .. t.size - 1 |-> t.key[src[i]]]
        /\ u.value = [i \in 0 .. t.size - 1 |-> t.value[src[i]]]
    BY <1>1, <2>1 DEF Gather, Fields
  <2>4. Live(u) = 0 .. t.size - 1 /\ Distinct(u)
    BY <1>3
  <2> HIDE DEF u
  <2>5. \A i \in 0 .. t.size - 1 : src[i] \in Live(t)
    <3>1. \A i \in 0 .. t.size - 1 : t.key[src[i]] # Undef
      BY <2>3, <2>4 DEF Live
    <3> QED BY <2>2, <3>1 DEF Live
  <2>7. Copies(u, t, src)
    BY <2>3, <2>4, <2>5, <2>6 DEF Copies
  <2>8. \A i, j \in Live(u) : src[i] = src[j] => i = j
    BY <2>3, <2>4 DEF Distinct
  <2> QED BY <2>7, <2>8 DEF u
<1> QED BY <1>4, <1>5

\* A sort or a reversal that does not fault shows the entries rearranged.
LEMMA RearrangingShows ==
  ASSUME NEW t, NEW d \in BOOLEAN, Sound(t, d), PackFault(t) = "none",
         NEW p \in Shuffles(t.size)
  PROVE  LET u == Rehash(Gather(Pack(t), p, t.size))
         IN  ShowsRearranged(u, t)
<1> DEFINE n == t.size
           w == Pack(t)
           b == Gather(w, p, n)
<1>1. /\ TableTypeOK(t) /\ CountsLive(t) /\ Distinct(t)
      /\ t.next \in Nat
  BY SoundBuffer DEF Sound, TableInv
<1>2. n \in Nat /\ n = Cardinality(Live(t))
  BY <1>1, SizeWithinNext DEF CountsLive
<1>3. /\ BufferOK(w) /\ Distinct(w) /\ Live(w) = 0 .. n - 1
  BY <1>1, PackCovers
<1>4. PICK g : /\ Copies(w, t, g)
               /\ \A i, j \in Live(w) : g[i] = g[j] => i = j
  BY <1>1, PackCopies
<1> HIDE DEF w, n
<1>5. /\ p \in [0 .. n - 1 -> Live(w)]
      /\ \A i, j \in 0 .. n - 1 : p[i] = p[j] => i = j
  BY <1>3 DEF Shuffles, n
<1>6. BufferOK(b) /\ b.next = n
  BY <1>2, <1>3, <1>5, GatherKeeps
<1>7. Copies(b, w, p) /\ Live(b) = 0 .. n - 1
  <2>1. w = [f \in Fields |-> w[f]] /\ w.next \in Nat
    BY <1>3 DEF BufferOK
  <2> HIDE DEF b
  <2>2. b.key = Gather(w, p, n).key /\ b.value = Gather(w, p, n).value
    BY DEF b
  <2> QED BY <1>2, <1>5, <1>6, <2>1, <2>2, GatherCopies
<1> HIDE DEF b
<1> DEFINE h == [i \in Live(b) |-> g[p[i]]]
<1>8. Copies(b, t, h)
  BY <1>4, <1>7 DEF Copies
<1>9. \A i, j \in Live(b) : h[i] = h[j] => i = j
  BY <1>4, <1>5, <1>7
<1>10. Cardinality(Live(b)) = Cardinality(Live(t))
  BY <1>2, <1>7, IndicesBelow
<1>11. b.next \in Nat
  BY <1>2, <1>6
<1>12. Entries(Rehash(b)) = Entries(b)
  BY <1>6, RehashShows
<1> HIDE DEF h
<1>13. ShowsRearranged(b, t)
  BY <1>1, <1>8, <1>9, <1>10, <1>11, RearrangementShown
<1> QED BY <1>12, <1>13 DEF ShowsRearranged, b, w, n

\* An empty table shows nothing.
LEMMA NothingShown ==
  ASSUME NEW u, Live(u) = {}
  PROVE  Entries(u) = << >> /\ \A t : ShowsSome(u, t)
<1>1. Entries(u) = << >>
  <2>1. Cardinality({}) = 0
    BY FS_EmptySet
  <2> QED BY <2>1 DEF Entries
<1>2. ASSUME NEW t PROVE ShowsSome(u, t)
  <2>1. [n \in 1 .. Cardinality({}) |-> Entries(t)[Nth({}, n - 1)]] = << >>
    <3>1. Cardinality({}) = 0
      BY FS_EmptySet
    <3> QED BY <3>1
  <2>2. {} \in SUBSET DOMAIN Entries(t)
    OBVIOUS
  <2> QED BY <1>1, <2>1, <2>2 DEF ShowsSome
<1> QED BY <1>1, <1>2

\* clear() leaves nothing to show, even where it leaves deleted buckets.
LEMMA ClearShows ==
  ASSUME NEW t, NEW d \in BOOLEAN, Sound(t, d)
  PROVE  Live(ClearTable(t)) = {}
<1>1. /\ t = [f \in Fields |-> t[f]] /\ t.next \in Nat /\ t.size = Cardinality(Live(t))
      /\ IsFiniteSet(Live(t))
  <2>1. TableTypeOK(t) /\ CountsLive(t)
    BY DEF Sound, TableInv
  <2> QED BY <2>1, SoundBuffer, LiveIndices DEF CountsLive
<1> DEFINE u == ClearTable(t)
<1>2. CASE t.size = 0
  <2>1. Live(t) = {}
    BY <1>1, <1>2, FS_EmptySet
  <2>2. u.key = t.key /\ u.next = t.next
    BY <1>1, <1>2 DEF ClearTable, Fields
  <2> HIDE DEF u
  <2> QED BY <2>1, <2>2 DEF Live, u
<1>3. CASE t.size # 0
  <2>1. u.next = 0
    BY <1>3 DEF ClearTable, Fresh
  <2> HIDE DEF u
  <2> QED BY <2>1 DEF Live, u
<1> QED BY <1>2, <1>3

\* filter() shows the entries that it keeps.
LEMMA FilterShows ==
  ASSUME NEW t, NEW d \in BOOLEAN, Sound(t, d), NEW S \in SUBSET Live(t)
  PROVE  ShowsSome(Filter(t, S), t)
<1> DEFINE n == Cardinality(S)
           src == [r \in 0 .. n - 1 |-> Nth(S, r)]
           u == Filter(t, S)
<1>1. /\ t.next \in Nat /\ S \subseteq 0 .. t.next - 1 /\ t = [f \in Fields |-> t[f]]
  BY ScanCopies DEF Sound, TableTypeOK
<1>2. n \in Nat /\ src \in [0 .. n - 1 -> S] /\ Increasing(src, 0 .. n - 1)
  BY <1>1, ScanInOrder
<1>3. u = CopyOf(t, src, n, t.capacity)
  BY DEF Filter
<1> HIDE DEF n, src, u
<1>4. src \in [0 .. n - 1 -> Live(t)]
  BY <1>2
<1>5. u.next = n /\ Copies(u, t, src) /\ Live(u) = 0 .. n - 1
  BY <1>1, <1>2, <1>3, <1>4, CopyCopies
<1>6. Increasing(src, Live(u))
  BY <1>2, <1>5
<1>7. u.next \in Nat
  BY <1>2, <1>5
<1> QED BY <1>1, <1>5, <1>6, <1>7, KeptShown DEF u

\* slice() shows some of the entries, in order, as long as it copies no
\* deleted bucket.
LEMMA SliceShows ==
  ASSUME NEW t, NEW d \in BOOLEAN, Sound(t, d),
         NEW i \in 0 .. t.size, NEW n \in 0 .. t.size, i + n <= t.size,
         Cardinality(Live(Slice(t, i, n))) = Slice(t, i, n).size
  PROVE  ShowsSome(Slice(t, i, n), t)
<1>1. CASE n = 0
  <2>1. Slice(t, i, n) = Fresh(MinCapacity) /\ Live(Fresh(MinCapacity)) = {}
    BY <1>1 DEF Slice, Fresh, Live
  <2> QED BY <2>1, NothingShown
<1>2. CASE n # 0
  <2> DEFINE src == [r \in 0 .. n - 1 |-> SliceSource(t, i, n, r)]
             u == CopyOf(t, src, n, n)
  <2>1. /\ src \in [0 .. n - 1 -> 0 .. t.next - 1] /\ Increasing(src, 0 .. n - 1)
    BY <1>2, SliceSources
  <2>2. /\ t.next \in Nat /\ t = [f \in Fields |-> t[f]] /\ n \in Nat
    BY ScanCopies DEF Sound, TableTypeOK
  <2>3. Slice(t, i, n) = u
    BY <1>2 DEF Slice
  <2> HIDE DEF src
  <2>4. Cardinality(Live(u)) = u.size
    BY <2>3
  <2>5. src \in [0 .. n - 1 -> Live(t)]
    BY <2>1, <2>2, <2>4, CopyFaultFree
  <2>6. u.next = n /\ Copies(u, t, src) /\ Live(u) = 0 .. n - 1
    BY <2>2, <2>5, CopyCopies
  <2> HIDE DEF u
  <2>7. Increasing(src, Live(u))
    BY <2>1, <2>6
  <2>8. u.next \in Nat
    BY <2>2, <2>6
  <2> QED BY <2>2, <2>3, <2>6, <2>7, <2>8, KeptShown
<1> QED BY <1>1, <1>2

\* reversed() shows all of them.
LEMMA ReversedShows ==
  ASSUME NEW t, NEW d \in BOOLEAN, Sound(t, d)
  PROVE  ShowsRearranged(Reversed(t), t)
<1> DEFINE n == t.size
           L == Live(t)
           src == [r \in 0 .. n - 1 |-> Nth(L, n - 1 - r)]
           u == Reversed(t)
<1>1. /\ t.next \in Nat /\ n \in Nat /\ L \subseteq 0 .. t.next - 1
      /\ n = Cardinality(L) /\ t = [f \in Fields |-> t[f]]
  BY ScanCopies DEF Sound, TableTypeOK
<1>2. u = CopyOf(t, src, n, t.capacity)
  BY DEF Reversed
<1>3. /\ \A q \in 0 .. n - 1 : Nth(L, q) \in L
      /\ \A q, r \in 0 .. n - 1 : Nth(L, q) = Nth(L, r) => q = r
  BY <1>1, NthIsMember, NthInjective
<1> HIDE DEF n, u, L
<1>4. \A r \in 0 .. n - 1 : n - 1 - r \in 0 .. n - 1
  BY <1>1
<1>5. src \in [0 .. n - 1 -> L] /\ \A i, j \in 0 .. n - 1 : src[i] = src[j] => i = j
  <2>1. ASSUME NEW i \in 0 .. n - 1, NEW j \in 0 .. n - 1, src[i] = src[j]
        PROVE  i = j
    <3>1. n - 1 - i = n - 1 - j
      BY <1>3, <1>4, <2>1
    <3> QED BY <1>1, <3>1
  <2> QED BY <1>3, <1>4, <2>1
<1> HIDE DEF src
<1>6. u.next = n /\ Copies(u, t, src) /\ Live(u) = 0 .. n - 1
  BY <1>1, <1>2, <1>5, CopyCopies DEF L
<1>7. /\ \A i, j \in Live(u) : src[i] = src[j] => i = j
      /\ Cardinality(Live(u)) = Cardinality(Live(t)) /\ u.next \in Nat
  BY <1>1, <1>5, <1>6, IndicesBelow DEF L
<1> QED BY <1>1, <1>6, <1>7, RearrangementShown DEF u

\* What a step shows makes it a step of the ordered map.
LEMMA KeepsSome ==
  ASSUME ShowsSome(table', table)
  PROVE  OM!Next
<1>1. PICK S \in SUBSET DOMAIN Entries(table) :
        Entries(table')
          = [n \in 1 .. Cardinality(S) |-> Entries(table)[Nth(S, n - 1)]]
  BY DEF ShowsSome
<1>2. \A T : OM!Cardinality(T) = Cardinality(T)
  BY DEF OM!Cardinality, Cardinality
<1>4. \A r : OM!Nth(S, r) = Nth(S, r)
  BY <1>2 DEF OM!Nth, Nth, OM!Rank, Rank
<1>3. OM!Keep(S)
  BY <1>1, <1>2, <1>4 DEF OM!Keep
<1> QED BY <1>3 DEF OM!Next

LEMMA KeepsAll ==
  ASSUME ShowsRearranged(table', table)
  PROVE  OM!Next
<1>1. OM!Rearrange
  BY DEF ShowsRearranged, OM!Rearrange
<1> QED BY <1>1 DEF OM!Next

LEMMA AddsLast ==
  ASSUME NEW k \in Key, NEW v \in Value, k \notin KeySet(table), table.next \in Nat,
         Entries(table') = Append(Entries(table), [key |-> k, value |-> v])
  PROVE  OM!Next
<1>1. k \notin OM!Keys
  <2>1. ASSUME NEW r \in DOMAIN Entries(table) PROVE Entries(table)[r].key # k
    <3> DEFINE i == Nth(Live(table), r - 1)
    <3>1. /\ i \in Live(table)
          /\ Entries(table)[r] = [key |-> table.key[i], value |-> table.value[i]]
      BY EntryAt
    <3> HIDE DEF i
    <3>2. Entries(table)[r].key = table.key[i] /\ table.key[i] \in KeySet(table)
      BY <3>1 DEF KeySet
    <3> QED BY <3>2
  <2> QED BY <2>1 DEF OM!Keys
<1>2. OM!Put(k, v)
  BY <1>1 DEF OM!Put
<1> QED BY <1>2 DEF OM!Next

LEMMA PutHitMaps == ASSUME IInv, PutHit PROVE OM!Next
<1>1. /\ Sound(table, dirty) /\ call.value \in Value
      /\ cur \in Live(table) /\ table.key[cur] = call.key
      /\ table' = [table EXCEPT !.value = [@ EXCEPT ![cur] = call.value]]
  BY HitBucket DEF PutHit, Hit
<1>2. call.key \in Key
  BY WalkingSound DEF PutHit, Hit
<1>3. TableTypeOK(table)
  BY <1>1 DEF Sound
<1>7. table' = [table EXCEPT !.value = [table.value EXCEPT ![cur] = call.value]]
  BY <1>1
<1>8. ShowsReplaced(table', table, call.key, call.value)
  BY <1>1, <1>3, <1>7, ReplacementShows
<1> DEFINE k == call.key
           v == call.value
<1>4. PICK r \in DOMAIN Entries(table) :
        /\ Entries(table)[r].key = k
        /\ Entries(table') = [Entries(table) EXCEPT ![r] = [key |-> k, value |-> v]]
  BY <1>8 DEF ShowsReplaced
<1> HIDE DEF k, v
<1>5. k \in OM!Keys
  BY <1>4 DEF OM!Keys
<1>6. OM!Put(k, v)
  BY <1>4, <1>5 DEF OM!Put
<1> QED BY <1>1, <1>2, <1>6 DEF OM!Next, k, v

LEMMA PutMissMaps == ASSUME IInv, PutMiss PROVE OM!Next
<1>1. /\ dirty \in BOOLEAN /\ Sound(table, dirty)
      /\ call.key \in Key /\ call.value \in Value
      /\ call.key \notin KeySet(table)
  BY MissAbsent DEF PutMiss
<1> DEFINE k == call.key
           v == call.value
           u == PutNew(table, k, v)
<1>2. table' = u /\ u.capacity <= MaxCapacity
  BY DEF PutMiss
<1>3. table.next \in Nat
  BY <1>1, ScanCopies
<1> HIDE DEF k, v
<1>4. Entries(u) = Append(Entries(table), [key |-> k, value |-> v])
  BY <1>1, <1>2, PutShows DEF k, v
<1> HIDE DEF u
<1> QED BY <1>1, <1>2, <1>3, <1>4, AddsLast DEF k, v

LEMMA RemoveHitMaps == ASSUME IInv, RemoveHit PROVE OM!Next
<1>1. /\ dirty \in BOOLEAN /\ Sound(table, dirty)
      /\ cur \in Live(table) /\ Precedes(table, prev, cur)
  BY HitBucket DEF RemoveHit
<1>2. table' = AutoTruncate(DeleteBucket(table, cur, prev))
  BY DEF RemoveHit
<1>3. ShowsSome(table', table)
  BY <1>1, <1>2, RemovalShows
<1> QED BY <1>3, KeepsSome

LEMMA StepMaps == ASSUME IInv, Step PROVE OM!Next \/ UNCHANGED Entries(table)
<1>1. ASSUME UNCHANGED table PROVE UNCHANGED Entries(table)
  BY <1>1
<1>2. CASE Advance BY <1>1, <1>2 DEF Advance
<1>3. CASE GetHit BY <1>1, <1>3 DEF GetHit
<1>4. CASE MissNoOp BY <1>1, <1>4 DEF MissNoOp
<1>5. CASE PutHit BY <1>5, PutHitMaps
<1>6. CASE RemoveHit BY <1>6, RemoveHitMaps
<1>7. CASE PutMiss BY <1>7, PutMissMaps
<1> QED BY <1>2, <1>3, <1>4, <1>5, <1>6, <1>7 DEF Step

LEMMA PutDistinctMaps ==
  ASSUME IInv, NEW k \in Key, NEW v \in Value, PutDistinct(k, v)
  PROVE  OM!Next
<1>1. dirty \in BOOLEAN /\ Sound(table, dirty)
  BY IdleSound DEF PutDistinct
<1> DEFINE u == PutDistinctBucket(table, k, v)
<1>2. /\ table' = u /\ u.capacity <= MaxCapacity
      /\ table.next < table.capacity /\ k \notin KeySet(table)
  BY DEF PutDistinct
<1>3. table.next \in Nat
  BY <1>1, ScanCopies
<1>4. Entries(u) = Append(Entries(table), [key |-> k, value |-> v])
  BY <1>1, <1>2, PutDistinctShows
<1> HIDE DEF u
<1> QED BY <1>2, <1>3, <1>4, AddsLast

LEMMA ClearMaps == ASSUME IInv, Clear PROVE OM!Next
<1>1. dirty \in BOOLEAN /\ Sound(table, dirty) /\ table' = ClearTable(table)
  BY IdleSound DEF Clear
<1>2. Live(table') = {}
  BY <1>1, ClearShows
<1>3. ShowsSome(table', table)
  BY <1>2, NothingShown
<1> QED BY <1>3, KeepsSome

LEMMA EnsureCapacityMaps ==
  ASSUME IInv, NEW c \in AllocCapacities, EnsureCapacity(c)
  PROVE  UNCHANGED Entries(table)
<1>1. /\ dirty \in BOOLEAN /\ Sound(table, dirty)
      /\ table' = Rehash([table EXCEPT !.capacity = c])
  BY IdleSound DEF EnsureCapacity
<1>2. BufferOK(table) /\ c \in 1 .. MaxCapacity
  BY <1>1, SoundBuffer, CapacityAssumption DEF Sound
<1>3. Entries(table') = Entries(table)
  BY <1>1, <1>2, LargerShows
<1> QED BY <1>3

LEMMA RearrangeMaps ==
  ASSUME IInv, NEW p \in Shuffles(table.size), Rearrange(p), fault' = "none"
  PROVE  OM!Next
<1>1. dirty \in BOOLEAN /\ Sound(table, dirty)
  BY IdleSound DEF Rearrange
<1>2. /\ PackFault(table) = "none"
      /\ table' = Rehash(Gather(Pack(table), p, table.size))
  BY DEF Rearrange
<1>3. ShowsRearranged(table', table)
  BY <1>1, <1>2, RearrangingShows
<1> QED BY <1>3, KeepsAll

LEMMA ApplyMaps ==
  ASSUME IInv, NEW f \in [Live(table) -> Value], Apply(f)
  PROVE  OM!Next
<1> DEFINE g == [i \in 0 .. table.next - 1 |->
                   IF i \in Live(table) THEN f[i] ELSE table.value[i]]
           c == Cardinality(Live(table))
<1>1. dirty \in BOOLEAN /\ Sound(table, dirty) /\ table' = [table EXCEPT !.value = g]
  BY IdleSound DEF Apply
<1>2. table = [x \in Fields |-> table[x]] /\ table.next \in Nat
  BY <1>1, ScanCopies DEF Sound, TableTypeOK
<1>3. \A i \in Live(table) : g[i] \in Value
  BY <1>2, LiveIndices
<1> HIDE DEF g
<1>4. Entries(table') = [r \in 1 .. c |-> [key   |-> Entries(table)[r].key,
                                           value |-> g[Nth(Live(table), r - 1)]]]
  BY <1>1, <1>2, RevaluedShows
<1>5. /\ DOMAIN Entries(table) = 1 .. c
      /\ \A r \in 1 .. c : Nth(Live(table), r - 1) \in Live(table)
  BY <1>2, EntryAt
<1> HIDE DEF c
<1>6. OM!Revalue
  BY <1>3, <1>4, <1>5 DEF OM!Revalue
<1> QED BY <1>6 DEF OM!Next

LEMMA TakeMaps ==
  ASSUME IInv, Idle, fault' = "none"
  PROVE  /\ \A i, n \in 0 .. table.size : TakeSlice(i, n) => OM!Next
         /\ \A S \in SUBSET Live(table) : TakeFilter(S) => OM!Next
         /\ TakeReversed => OM!Next
         /\ TakeNew => OM!Next
<1>1. dirty \in BOOLEAN /\ Sound(table, dirty)
  BY IdleSound
<1>2. ASSUME NEW i \in 0 .. table.size, NEW n \in 0 .. table.size, TakeSlice(i, n)
      PROVE  OM!Next
  <2>1. /\ i + n <= table.size /\ table' = Slice(table, i, n)
        /\ Cardinality(Live(Slice(table, i, n))) = Slice(table, i, n).size
    BY <1>2 DEF TakeSlice, GoOnWith
  <2>2. ShowsSome(table', table)
    BY <1>1, <2>1, SliceShows
  <2> QED BY <2>2, KeepsSome
<1>3. ASSUME NEW S \in SUBSET Live(table), TakeFilter(S) PROVE OM!Next
  <2>1. table' = Filter(table, S)
    BY <1>3 DEF TakeFilter, GoOnWith
  <2>2. ShowsSome(table', table)
    BY <1>1, <2>1, FilterShows
  <2> QED BY <2>2, KeepsSome
<1>4. ASSUME TakeReversed PROVE OM!Next
  <2>1. table' = Reversed(table)
    BY <1>4 DEF TakeReversed, GoOnWith
  <2>2. ShowsRearranged(table', table)
    BY <1>1, <2>1, ReversedShows
  <2> QED BY <2>2, KeepsAll
<1>5. ASSUME TakeNew PROVE OM!Next
  <2>1. table' = Fresh(MinCapacity)
    BY <1>5 DEF TakeNew, GoOnWith
  <2>2. Live(table') = {}
    BY <2>1 DEF Fresh, Live
  <2>3. ShowsSome(table', table)
    BY <2>2, NothingShown
  <2> QED BY <2>3, KeepsSome
<1> QED BY <1>2, <1>3, <1>4, <1>5

LEMMA NextMaps ==
  ASSUME IInv, [Next]_vars, fault' = "none"
  PROVE  OM!Next \/ UNCHANGED Entries(table)
<1>1. ASSUME NEW op \in Ops, NEW k \in Key, NEW v \in Value, Begin(op, k, v)
      PROVE  UNCHANGED Entries(table)
  BY <1>1 DEF Begin
<1>2. CASE Step
  BY <1>2, StepMaps
<1>3. ASSUME NEW k \in Key, NEW v \in Value, PutDistinct(k, v) PROVE OM!Next
  BY <1>3, PutDistinctMaps
<1>4. CASE Clear
  BY <1>4, ClearMaps
<1>5. ASSUME NEW c \in AllocCapacities, EnsureCapacity(c)
      PROVE  UNCHANGED Entries(table)
  BY <1>5, EnsureCapacityMaps
<1>6. CASE Sort
  BY <1>6, RearrangeMaps DEF Sort
<1>7. CASE Reverse
  <2>1. table.size \in Nat
    BY <1>7, IdleSound, ScanCopies DEF Reverse, Rearrange
  <2>2. [i \in 0 .. table.size - 1 |-> table.size - 1 - i] \in Shuffles(table.size)
    BY <2>1, ReversalShuffles
  <2> QED BY <1>7, <2>2, RearrangeMaps DEF Reverse
<1>8. ASSUME NEW f \in [Live(table) -> Value], Apply(f) PROVE OM!Next
  BY <1>8, ApplyMaps
<1>9. ASSUME NEW i \in 0 .. table.size, NEW n \in 0 .. table.size, TakeSlice(i, n)
      PROVE  OM!Next
  BY <1>9, TakeMaps DEF TakeSlice
<1>10. ASSUME NEW S \in SUBSET Live(table), TakeFilter(S) PROVE OM!Next
  BY <1>10, TakeMaps DEF TakeFilter
<1>11. CASE TakeReversed
  BY <1>11, TakeMaps DEF TakeReversed
<1>12. CASE TakeNew
  BY <1>12, TakeMaps DEF TakeNew
<1>13. CASE UNCHANGED vars
  BY <1>13 DEF vars
<1>14. CASE Stopped
  BY <1>14 DEF Stopped, vars
<1> QED
  BY <1>1, <1>2, <1>3, <1>4, <1>5, <1>6, <1>7, <1>8, <1>9, <1>10, <1>11, <1>12,
     <1>13, <1>14 DEF Next

\* The table is an ordered map for every size of keys, values and buffer: what
\* it shows in buffer order, deleted buckets skipped, changes only as the map's
\* does, in every operation that does not exercise a defect
\* (ds_htable.c:28-120, 634-734, 818-952).
THEOREM RefinesOrderedMap == Spec => ImplementsOrderedMap
<1>1. Init => OM!Init
  <2>1. ASSUME Init PROVE Live(table) = {}
    BY <2>1 DEF Init, Fresh, Live
  <2> QED BY <2>1, NothingShown DEF OM!Init
<1>2. ASSUME IInv, [Next]_vars
      PROVE  [fault' = "none" => OM!Next \/ UNCHANGED Entries(table)]_vars
  BY <1>2, NextMaps
<1> QED BY <1>1, <1>2, Invariant, PTL DEF Spec, ImplementsOrderedMap

\* From one live bucket an iterator moves to the next.
LEMMA NextIsNth ==
  ASSUME NEW t, t.next \in Nat, NEW p \in 1 .. Cardinality(Live(t)) - 1
  PROVE  NextBucket(t, Nth(Live(t), p - 1)) = Nth(Live(t), p)
<1> DEFINE L == Live(t)
           c == Cardinality(L)
           i == Nth(L, p - 1)
           k == Nth(L, p)
           B == {j \in L : j > i}
<1>1. L \subseteq 0 .. t.next - 1 /\ c \in Nat
  BY LiveIndices
<1>2. p - 1 \in 0 .. c - 1 /\ p \in 0 .. c - 1 /\ p - 1 < p
  BY <1>1
<1>3. i \in L /\ k \in L /\ i < k
  BY <1>1, <1>2, NthIsMember, NthIncreases
<1>4. \A j \in B : ~ (j < k)
  <2> SUFFICES ASSUME NEW j \in B, j < k PROVE FALSE
    OBVIOUS
  <2>1. Rank(L, i) = p - 1 /\ Rank(L, k) = p
    BY <1>1, <1>2, NthIsMember
  <2> HIDE DEF i, k, L
  <2>2. j \in L /\ i < j
    BY <1>3
  <2>3. Rank(L, i) < Rank(L, j) /\ Rank(L, j) < Rank(L, k)
    BY <1>1, <1>3, <2>2, RankStrict
  <2>4. Rank(L, j) \in Int
    <3>1. Rank(L, j) \in 0 .. Cardinality(L) - 1
      BY <1>1, <2>2, RankRange
    <3> QED BY <3>1
  <2> QED BY <1>2, <2>1, <2>3, <2>4
<1>5. k \in B /\ B \subseteq 0 .. t.next - 1
  BY <1>1, <1>3
<1>6. Rank(B, k) = 0
  <2>1. {j \in B : j < k} = {}
    BY <1>4
  <2> HIDE DEF B, k
  <2> QED BY <2>1, FS_EmptySet DEF Rank
<1> HIDE DEF k, i
<1>7. Nth(B, 0) = k
  <2> HIDE DEF B
  <2> QED BY <1>5, <1>6, NthOfRank
<1>8. NextBucket(t, i) = Nth(B, 0)
  BY <1>5 DEF NextBucket
<1> QED BY <1>7, <1>8 DEF i, k

\* At each position the iterator is on the live bucket of that rank.
LEMMA VisitsScan ==
  ASSUME NEW t, t.next \in Nat, CountsLive(t)
  PROVE  \A p \in 0 .. t.size - 1 : Visits(t)[p] = Nth(Live(t), p)
<1> DEFINE n == t.size
           P == 0 .. n - 1
           visit == CHOOSE f : f = [p \in P |->
                      IF p = 0 THEN FirstBucket(t) ELSE NextBucket(t, f[p - 1])]
           nth == [p \in P |-> Nth(Live(t), p)]
<1>1. n \in Nat /\ n = Cardinality(Live(t))
  BY SizeWithinNext DEF CountsLive
<1>2. Visits(t) = visit
  BY DEF Visits
<1>3. ASSUME NEW p \in P, p # 0
      PROVE  p - 1 \in P /\ NextBucket(t, Nth(Live(t), p - 1)) = Nth(Live(t), p)
  <2>1. p \in 1 .. Cardinality(Live(t)) - 1 /\ p - 1 \in P
    BY <1>1, <1>3
  <2> QED BY <2>1, NextIsNth
<1>4. nth = [p \in P |-> IF p = 0 THEN FirstBucket(t) ELSE NextBucket(t, nth[p - 1])]
  <2>1. ASSUME NEW p \in P
        PROVE  Nth(Live(t), p)
                 = IF p = 0 THEN FirstBucket(t) ELSE NextBucket(t, nth[p - 1])
    <3>1. CASE p = 0
      BY <3>1 DEF FirstBucket
    <3>2. CASE p # 0
      BY <1>3, <3>2
    <3> QED BY <3>1, <3>2
  <2> QED BY <2>1
<1>5. visit = [p \in P |-> IF p = 0 THEN FirstBucket(t) ELSE NextBucket(t, visit[p - 1])]
  <2> HIDE DEF nth, P
  <2> QED BY <1>4
<1> HIDE DEF visit
<1> DEFINE Wrong == {p \in P : visit[p] # Nth(Live(t), p)}
<1>6. ASSUME Wrong # {} PROVE FALSE
  <2>1. Wrong \subseteq Nat
    BY <1>1
  <2>2. PICK p \in Wrong : \A q \in Wrong : p <= q
    <3> HIDE DEF Wrong
    <3> QED BY <1>6, <2>1, LeastNat
  <2>3. CASE p = 0
    BY <1>5, <2>3 DEF FirstBucket
  <2>4. CASE p # 0
    <3>1. p - 1 \in P /\ p - 1 \notin Wrong
      BY <1>1, <2>2, <2>4
    <3>2. visit[p - 1] = Nth(Live(t), p - 1)
      BY <3>1
    <3>3. visit[p] = NextBucket(t, visit[p - 1])
      BY <1>5, <2>4
    <3> QED BY <1>3, <2>4, <3>2, <3>3
  <2> QED BY <2>3, <2>4
<1> QED BY <1>2, <1>6

\* An iterator meets every live bucket, each at the position that it counts, and
\* is on the last of them at its last position, for every size of buffer
\* (php_htable_iterator.c:6-37, 104-121; ds_htable.c:748-776).
THEOREM IterationsComplete == Spec => []IterationExact
<1>1. ASSUME IInv, fault = "none", table.size > 0
      PROVE  /\ {Visits(table)[p] : p \in 0 .. table.size - 1} = Live(table)
             /\ Visits(table)[table.size - 1] = Latest(Live(table))
  <2> DEFINE L == Live(table)
             c == table.size
             v == Visits(table)
  <2>1. table.next \in Nat /\ CountsLive(table)
    BY <1>1, SoundBuffer DEF IInv, TypeOK, TableInv
  <2>2. L \subseteq 0 .. table.next - 1 /\ c = Cardinality(L) /\ c \in Nat
    BY <2>1, SizeWithinNext, LiveIndices DEF CountsLive
  <2>3. \A p \in 0 .. c - 1 : v[p] = Nth(L, p)
    BY <2>1, VisitsScan
  <2> HIDE DEF L, c, v
  <2>4. \A p \in 0 .. c - 1 : Nth(L, p) \in L /\ Rank(L, Nth(L, p)) = p
    BY <2>1, <2>2, NthIsMember
  <2>5. \A i \in L : Rank(L, i) \in 0 .. c - 1 /\ Nth(L, Rank(L, i)) = i
    BY <2>1, <2>2, RankRange, NthOfRank
  <2>6. {v[p] : p \in 0 .. c - 1} = L
    BY <2>3, <2>4, <2>5
  <2>7. c - 1 \in 0 .. c - 1
    BY <1>1, <2>2 DEF c
  <2>8. Nth(L, c - 1) = Latest(L)
    <3> DEFINE i == Nth(L, c - 1)
               k == Latest(L)
    <3>1. i \in L /\ Rank(L, i) = c - 1
      BY <2>4, <2>7
    <3>2. k \in L /\ i <= k
      BY <2>1, <2>2, <3>1, LatestIsLast
    <3> HIDE DEF i, k
    <3>3. i \in Int /\ k \in Int
      BY <2>2, <3>1, <3>2
    <3>4. ~ (i < k)
      <4>1. ASSUME i < k PROVE FALSE
        <5>1. Rank(L, i) < Rank(L, k)
          BY <2>1, <2>2, <3>1, <3>2, <4>1, RankStrict
        <5> QED BY <2>2, <2>5, <3>1, <3>2, <5>1
      <4> QED BY <4>1
    <3>5. i = k
      BY <3>2, <3>3, <3>4
    <3> QED BY <3>5 DEF i, k
  <2> QED BY <2>3, <2>6, <2>7, <2>8 DEF L, c, v
<1>2. IInv => IterationExact
  BY <1>1 DEF IterationExact
<1> QED BY <1>2, Invariant, PTL

-----------------------------------------------------------------------------
(* Tables out of whose chains some buckets have been taken before they are  *)
(* deleted, or whose chains are broken: the operations keep what is left.   *)

\* What is in lookup and links are indices of the buffer.
Pointers(t) ==
  /\ t.lookup \in [0 .. t.capacity - 1 -> NIL .. t.capacity - 1]
  /\ t.link \in [0 .. t.next - 1 -> NIL .. t.capacity - 1]

\* What is left of a table whose chains are broken.
Held(t) ==
  /\ TableTypeOK(t) /\ CountsLive(t) /\ t.next <= t.capacity
  /\ MinDeletedOK(t) /\ Pointers(t)

Descends(t) == \A i \in 0 .. t.next - 1 : t.link[i] \in NIL .. i - 1

\* The chains are those of the live buckets without D.
Ordered(t, D) == Descends(t) /\ ChainedBut(t, D)

\* What is the latest of some indices.
LEMMA LatestWithin ==
  ASSUME NEW n \in Nat, NEW S, S \subseteq 0 .. n - 1, NEW l, IsLatest(l, S)
  PROVE  l \in NIL .. n - 1
<1>1. CASE S = {}
  BY <1>1 DEF IsLatest, NIL
<1>2. CASE S # {}
  <2>1. l \in 0 .. n - 1
    BY <1>2 DEF IsLatest
  <2> QED BY <2>1 DEF NIL
<1> QED BY <1>1, <1>2

LEMMA HeldFacts ==
  ASSUME NEW t, Held(t)
  PROVE  /\ t = [f \in Fields |-> t[f]]
         /\ t.next \in Nat /\ t.size \in Nat /\ t.minDeleted \in Nat
         /\ t.capacity \in 1 .. MaxCapacity /\ t.capacity \in Nat \ {0}
         /\ t.next <= t.capacity
         /\ t.key \in [0 .. t.next - 1 -> Key \union {Undef}]
         /\ t.value \in [0 .. t.next - 1 -> Value \union {Undef}]
         /\ t.lookup \in [0 .. t.capacity - 1 -> NIL .. t.capacity - 1]
         /\ t.link \in [0 .. t.next - 1 -> NIL .. t.capacity - 1]
         /\ Live(t) \subseteq 0 .. t.next - 1
         /\ \A i \in Live(t) : /\ i \in 0 .. t.next - 1 /\ i \in Nat /\ i < t.next
                               /\ t.key[i] \in Key
                               /\ Slot(t, t.key[i]) \in 0 .. t.capacity - 1
<1>1. /\ t = [f \in Fields |-> t[f]]
      /\ t.next \in Nat /\ t.size \in Nat /\ t.minDeleted \in Nat
      /\ t.capacity \in 1 .. MaxCapacity /\ t.capacity \in Nat \ {0}
      /\ t.key \in [0 .. t.next - 1 -> Key \union {Undef}]
      /\ t.value \in [0 .. t.next - 1 -> Value \union {Undef}]
  BY SoundBuffer DEF Held, TableTypeOK
<1>2. Live(t) \subseteq 0 .. t.next - 1
  BY <1>1, LiveIndices
<1>3. ASSUME NEW i \in Live(t)
      PROVE  /\ i \in 0 .. t.next - 1 /\ i \in Nat /\ i < t.next
             /\ t.key[i] \in Key /\ Slot(t, t.key[i]) \in 0 .. t.capacity - 1
  <2>1. i \in 0 .. t.next - 1 /\ t.key[i] # Undef
    BY <1>2, <1>3 DEF Live
  <2>2. t.key[i] \in Key
    BY <1>1, <2>1
  <2>3. Slot(t, t.key[i]) \in 0 .. t.capacity - 1
    BY <1>1, <2>2, MaskAssumption DEF Slot
  <2> QED BY <1>1, <2>1, <2>2, <2>3
<1> QED BY <1>1, <1>2, <1>3 DEF Held, Pointers

\* A rehash restores the chains, whatever they were.
LEMMA GatheredHeld ==
  ASSUME NEW u, NEW t, Gathered(u, t), u.next <= u.capacity
  PROVE  Held(u) /\ Ordered(u, {})
<1>1. /\ TableTypeOK(u) /\ CountsLive(u) /\ Chained(u)
      /\ Live(u) = 0 .. u.next - 1 /\ u.minDeleted = u.capacity
  BY DEF Gathered
<1>2. u.next \in Nat /\ u.capacity \in Nat \ {0} /\ u.minDeleted \in Nat
  BY <1>1, SoundBuffer
<1>3. MinDeletedOK(u)
  BY <1>1, <1>2, NoneDeleted
<1>4. \A s, n : Colliding(u, s, n) \subseteq 0 .. u.next - 1
  BY <1>2, LiveIndices
<1>5. /\ u.lookup \in [0 .. u.capacity - 1 -> Int]
      /\ u.link \in [0 .. u.next - 1 -> Int]
  BY <1>1 DEF TableTypeOK
<1>6. ASSUME NEW s \in 0 .. u.capacity - 1 PROVE u.lookup[s] \in NIL .. u.capacity - 1
  <2>1. IsLatest(u.lookup[s], Colliding(u, s, u.next))
    BY <1>1 DEF Chained
  <2>2. u.lookup[s] \in NIL .. u.next - 1
    BY <2>1, <1>2, <1>4, LatestWithin
  <2> QED BY <2>2, <1>2 DEF NIL
<1>7. ASSUME NEW i \in 0 .. u.next - 1 PROVE u.link[i] \in NIL .. i - 1
  <2>1. IsLatest(u.link[i], Colliding(u, Slot(u, u.key[i]), i))
    BY <1>1 DEF Chained
  <2>2. \A s : Colliding(u, s, i) \subseteq 0 .. i - 1
    BY <1>2, <1>4 DEF Colliding
  <2> QED BY <2>1, <2>2, LatestWithin
<1>8. \A i \in 0 .. u.next - 1 : u.link[i] \in NIL .. u.capacity - 1
  BY <1>2, <1>7 DEF NIL
<1>9. Pointers(u)
  BY <1>5, <1>6, <1>8 DEF Pointers
<1> QED BY <1>1, <1>3, <1>7, <1>9, ChainedButNone DEF Held, Ordered, Descends

\* Bucket e of u is new; the others are live ones of t.
AddedTo(u, t, e, k, v) ==
  /\ e \in Live(u) /\ u.key[e] = k /\ u.value[e] = v
  /\ \E src \in [Live(u) \ {e} -> Live(t)] :
       /\ \A i, j \in Live(u) \ {e} : src[i] = src[j] => i = j
       /\ \A i \in Live(u) \ {e} : u.key[i] = t.key[src[i]] /\ u.value[i] = t.value[src[i]]
       /\ ~Full(t) => \A i \in Live(u) \ {e} : src[i] = i
  /\ ~Full(t) => Live(t) = Live(u) \ {e}

\* init_next_bucket, with room for the bucket.
LEMMA InsertHeld ==
  ASSUME NEW t, Held(t), t.next < t.capacity, NEW k \in Key, NEW v \in Value
  PROVE  LET u == InitNextBucket(t, k, v) IN
         /\ Held(u) /\ Added(u, t, k, v)
         /\ \A D : D \subseteq Live(t) /\ Ordered(t, D) => Ordered(u, D)
<1> DEFINE u == InitNextBucket(t, k, v)
           e == t.next
<1>1. /\ t.next \in Nat /\ t.capacity \in Nat \ {0}
      /\ t.lookup \in [0 .. t.capacity - 1 -> NIL .. t.capacity - 1]
      /\ t.link \in [0 .. t.next - 1 -> NIL .. t.capacity - 1]
  BY HeldFacts
<1>2. TableTypeOK(u) /\ Added(u, t, k, v) /\ CountsLive(u) /\ MinDeletedOK(u)
  BY InsertBuffer DEF Held
<1> HIDE DEF u
<1>3. /\ u.lookup = [t.lookup EXCEPT ![Slot(t, k)] = e]
      /\ u.link = [j \in 0 .. e |-> IF j = e THEN t.lookup[Slot(t, k)] ELSE t.link[j]]
      /\ Slot(t, k) \in 0 .. t.capacity - 1
      /\ u.next = e + 1 /\ u.capacity = t.capacity
  BY ONLY <1>2 DEF Added, e
<1>4. e \in Nat /\ e \in NIL .. t.capacity - 1 /\ u.next <= u.capacity /\ u.next - 1 = e
  <2>1. e \in Nat /\ t.capacity \in Nat /\ e < t.capacity
    BY <1>1
  <2> HIDE DEF e
  <2> QED BY ONLY <1>3, <2>1 DEF NIL
<1> HIDE DEF e
<1>5. \A j \in 0 .. e : j = e \/ (j \in 0 .. e - 1 /\ j # e)
  BY <1>4
<1>6. t.lookup[Slot(t, k)] \in NIL .. t.capacity - 1
  BY <1>1, <1>3
<1>7. Pointers(u)
  <2>1. u.lookup \in [0 .. t.capacity - 1 -> NIL .. t.capacity - 1]
    BY <1>1, <1>3, <1>4
  <2>2. u.link \in [0 .. e -> NIL .. t.capacity - 1]
    BY <1>1, <1>3, <1>5, <1>6 DEF e
  <2> QED BY <1>3, <1>4, <2>1, <2>2 DEF Pointers
<1>8. ASSUME NEW D, D \subseteq Live(t), Ordered(t, D) PROVE Ordered(u, D)
  <2>1. t.lookup \in [0 .. t.capacity - 1 -> Int]
    BY DEF Held, TableTypeOK
  <2>2. ChainedBut(u, D)
    BY <1>1, <1>2, <1>8, <2>1, InsertChains DEF Ordered
  <2>3. t.lookup[Slot(t, k)] \in NIL .. e - 1
    <3>1. IsLatest(t.lookup[Slot(t, k)], Colliding(t, Slot(t, k), t.next) \ D)
      BY <1>3, <1>8 DEF Ordered, ChainedBut
    <3>2. Colliding(t, Slot(t, k), t.next) \ D \subseteq 0 .. e - 1
      BY <1>1, LiveIndices DEF e
    <3> QED BY <1>4, <3>1, <3>2, LatestWithin
  <2>4. Descends(u)
    <3>1. \A j \in 0 .. e - 1 : t.link[j] \in NIL .. j - 1
      BY <1>8 DEF Ordered, Descends, e
    <3> QED BY <1>3, <1>4, <1>5, <2>3, <3>1 DEF Descends
  <2> QED BY <2>2, <2>4 DEF Ordered
<1> QED BY <1>2, <1>4, <1>7, <1>8 DEF Held, u

\* A put that found no bucket for its key, in whatever state the chains are: when the
\* buffer is full they are restored first.
LEMMA PutNewHeld ==
  ASSUME NEW t, Held(t), NEW k \in Key, NEW v \in Value,
         PutNew(t, k, v).capacity <= MaxCapacity
  PROVE  LET u == PutNew(t, k, v) IN
         /\ Held(u) /\ AddedTo(u, t, u.next - 1, k, v)
         /\ Full(t) => Ordered(u, {})
         /\ ~Full(t) => \A D : D \subseteq Live(t) /\ Ordered(t, D) => Ordered(u, D)
<1>1. /\ t.next \in Nat /\ t.capacity \in Nat \ {0} /\ t.next <= t.capacity
      /\ t = [f \in Fields |-> t[f]] /\ TableTypeOK(t) /\ CountsLive(t)
  BY HeldFacts DEF Held
<1>2. CASE Full(t)
  <2> DEFINE w == IncreaseCapacity(t)
             u == InitNextBucket(w, k, v)
             e == w.next
  <2>1. PutNew(t, k, v) = u
    BY <1>2 DEF PutNew
  <2>2. u.capacity = w.capacity
    <3>1. w = [f \in Fields |-> w[f]]
      BY <1>1, IncreaseShape
    <3> HIDE DEF w
    <3> QED BY <3>1 DEF InitNextBucket, Fields
  <2>3. Gathered(w, t) /\ w.next < w.capacity
    BY <1>1, <1>2, <2>1, <2>2, IncreaseGathers DEF Full
  <2> HIDE DEF w
  <2>4. w.next \in Nat /\ w.capacity \in Nat
    BY <2>3, SoundBuffer DEF Gathered
  <2>5. Held(w) /\ Ordered(w, {})
    BY <2>3, <2>4, GatheredHeld
  <2>6. Held(u) /\ Added(u, w, k, v) /\ Ordered(u, {})
    BY <2>3, <2>5, InsertHeld
  <2> HIDE DEF u
  <2>7. /\ Live(u) = Live(w) \union {e} /\ Live(w) \subseteq 0 .. e - 1
        /\ u.key[e] = k /\ u.value[e] = v /\ u.next - 1 = e
        /\ \A j \in 0 .. e - 1 : u.key[j] = w.key[j] /\ u.value[j] = w.value[j] /\ j # e
    <3>1. Live(w) \subseteq 0 .. e - 1 /\ e \in 0 .. e
      BY <2>4, LiveIndices
    <3>2. /\ u.key = [j \in 0 .. e |-> IF j = e THEN k ELSE w.key[j]]
          /\ u.value = [j \in 0 .. e |-> IF j = e THEN v ELSE w.value[j]]
      BY <2>6 DEF Added
    <3>3. u.key[e] = k /\ u.value[e] = v
      BY ONLY <3>1, <3>2
    <3>4. u.next - 1 = e
      BY <2>4, <2>6 DEF Added
    <3> QED BY <2>6, <3>1, <3>3, <3>4 DEF Added
  <2>8. Live(u) \ {e} = Live(w)
    BY <2>7
  <2>9. PICK src \in [Live(w) -> Live(t)] :
          /\ \A i, j \in Live(w) : src[i] = src[j] => i = j
          /\ \A i \in Live(w) : w.key[i] = t.key[src[i]] /\ w.value[i] = t.value[src[i]]
    BY <2>3 DEF Gathered, Carried
  <2>10. \A i \in Live(w) : u.key[i] = t.key[src[i]] /\ u.value[i] = t.value[src[i]]
    BY <2>7, <2>9
  <2> HIDE DEF e
  <2>11. AddedTo(u, t, e, k, v)
    <3>1. e \in Live(u) /\ u.key[e] = k /\ u.value[e] = v
      BY ONLY <2>7
    <3>2. /\ src \in [Live(u) \ {e} -> Live(t)]
          /\ \A i, j \in Live(u) \ {e} : src[i] = src[j] => i = j
          /\ \A i \in Live(u) \ {e} : u.key[i] = t.key[src[i]] /\ u.value[i] = t.value[src[i]]
      BY ONLY <2>8, <2>9, <2>10
    <3> HIDE DEF e
    <3> QED BY ONLY <1>2, <3>1, <3>2, Zenon DEF AddedTo
  <2> QED BY <1>2, <2>1, <2>6, <2>7, <2>11
<1>3. CASE ~Full(t)
  <2> DEFINE u == InitNextBucket(t, k, v)
             e == t.next
  <2>1. PutNew(t, k, v) = u
    BY <1>3 DEF PutNew
  <2>2. t.next < t.capacity
    BY <1>1, <1>3 DEF Full
  <2>3. /\ Held(u) /\ Added(u, t, k, v)
        /\ \A D : D \subseteq Live(t) /\ Ordered(t, D) => Ordered(u, D)
    BY <2>2, InsertHeld
  <2> HIDE DEF u
  <2>4. /\ Live(u) = Live(t) \union {e} /\ Live(t) \subseteq 0 .. e - 1
        /\ u.key[e] = k /\ u.value[e] = v /\ u.next - 1 = e
        /\ \A j \in 0 .. e - 1 : u.key[j] = t.key[j] /\ u.value[j] = t.value[j] /\ j # e
    <3>1. Live(t) \subseteq 0 .. e - 1 /\ e \in 0 .. e
      BY <1>1, LiveIndices
    <3>2. /\ u.key = [j \in 0 .. e |-> IF j = e THEN k ELSE t.key[j]]
          /\ u.value = [j \in 0 .. e |-> IF j = e THEN v ELSE t.value[j]]
      BY <2>3 DEF Added
    <3>3. u.key[e] = k /\ u.value[e] = v
      BY ONLY <3>1, <3>2
    <3>4. u.next - 1 = e
      BY <1>1, <2>3 DEF Added
    <3> QED BY <2>3, <3>1, <3>3, <3>4 DEF Added
  <2> HIDE DEF e
  <2>5. Live(u) \ {e} = Live(t)
    BY <2>4
  <2> DEFINE src == [i \in Live(t) |-> i]
  <2>6. src \in [Live(t) -> Live(t)] /\ \A i \in Live(t) : src[i] = i
    OBVIOUS
  <2>7. \A i \in Live(t) : u.key[i] = t.key[i] /\ u.value[i] = t.value[i]
    BY <2>4
  <2> HIDE DEF src
  <2>8. AddedTo(u, t, e, k, v)
    <3>1. e \in Live(u) /\ u.key[e] = k /\ u.value[e] = v
      BY ONLY <2>4
    <3>2. /\ src \in [Live(u) \ {e} -> Live(t)]
          /\ \A i, j \in Live(u) \ {e} : src[i] = src[j] => i = j
          /\ \A i \in Live(u) \ {e} : u.key[i] = t.key[src[i]] /\ u.value[i] = t.value[src[i]]
          /\ \A i \in Live(u) \ {e} : src[i] = i
      BY ONLY <2>5, <2>6, <2>7
    <3> QED BY ONLY <2>5, <3>1, <3>2, Zenon DEF AddedTo
  <2> QED BY <1>3, <2>1, <2>3, <2>4, <2>8
<1> QED BY <1>2, <1>3

\* Bucket p precedes bucket i among those that are still chained.
PrecedesBut(t, p, i, D) ==
  IF p = NIL THEN t.lookup[Slot(t, t.key[i])] = i
  ELSE /\ p \in Colliding(t, Slot(t, t.key[i]), t.next) \ D
       /\ t.link[p] = i

\* u is t but for one link, that of p, or one lookup, that of slot m: it leads to
\* what follows bucket i.
BypassedAt(u, t, i, p, m) ==
  /\ u.key = t.key /\ u.next = t.next /\ u.capacity = t.capacity
  /\ u.link = [j \in 0 .. t.next - 1 |-> IF j = p THEN t.link[i] ELSE t.link[j]]
  /\ u.lookup = [s \in 0 .. t.capacity - 1 |->
                   IF p = NIL /\ s = m THEN t.link[i] ELSE t.lookup[s]]

\* The link or lookup is the one that leads from p to bucket i.
Bypassed(u, t, i, p) == BypassedAt(u, t, i, p, Slot(t, t.key[i]))

\* A bucket whose predecessor bypasses it is in no chain.
LEMMA BypassOrders ==
  ASSUME NEW t, Held(t), NEW D, Ordered(t, D), NEW i \in Live(t) \ D, NEW p,
         PrecedesBut(t, p, i, D), NEW u, Bypassed(u, t, i, p)
  PROVE  Ordered(u, D \union {i})
<1> DEFINE C(s, n) == Colliding(t, s, n) \ D
           h == Slot(t, t.key[i])
           l == t.link[i]
<1>1. /\ t.next \in Nat /\ t.capacity \in Nat \ {0}
      /\ \A j \in Live(t) : /\ j \in 0 .. t.next - 1 /\ j \in Nat /\ j < t.next
                            /\ Slot(t, t.key[j]) \in 0 .. t.capacity - 1
  BY HeldFacts
<1>2. /\ u.key = t.key /\ u.next = t.next /\ u.capacity = t.capacity
      /\ \A j \in 0 .. t.next - 1 : u.link[j] = IF j = p THEN l ELSE t.link[j]
      /\ \A s \in 0 .. t.capacity - 1 : u.lookup[s] = IF p = NIL /\ s = h THEN l ELSE t.lookup[s]
  BY DEF Bypassed, BypassedAt
<1>3. Live(u) = Live(t)
  BY <1>2 DEF Live
<1>4. \A s, n : Colliding(u, s, n) = Colliding(t, s, n)
  <2>1. \A k : Slot(u, k) = Slot(t, k)
    BY <1>2 DEF Slot
  <2> QED BY <1>2, <1>3, <2>1 DEF Colliding
<1>5. \A s, n : Colliding(u, s, n) \ (D \union {i}) = C(s, n) \ {i}
  BY <1>4
<1>6. /\ \A s \in 0 .. t.capacity - 1 : IsLatest(t.lookup[s], C(s, t.next))
      /\ \A j \in Live(t) \ D : IsLatest(t.link[j], C(Slot(t, t.key[j]), j))
      /\ \A j \in 0 .. t.next - 1 : t.link[j] \in NIL .. j - 1
  BY DEF Ordered, ChainedBut, Descends
<1>7. \A s, n, j : j \in C(s, n) <=> /\ j \in Live(t) \ D /\ j < n
                                     /\ Slot(t, t.key[j]) = s
  BY DEF Colliding
<1>8. IF p = NIL THEN t.lookup[h] = i ELSE p \in C(h, t.next) /\ t.link[p] = i
  BY DEF PrecedesBut
<1>9. i \in Live(t) \ D /\ Slot(t, t.key[i]) = h /\ h \in 0 .. t.capacity - 1
      /\ IsLatest(l, C(h, i)) /\ l \in NIL .. i - 1
  BY <1>1, <1>6
<1> HIDE DEF C, h, l
<1>10. i \in Nat /\ i # NIL
  BY <1>1, <1>9 DEF NIL
\* What lies before i in its chain is what is left below anything that led to i.
<1>11. ASSUME NEW n \in Int, IsLatest(i, C(h, n)), i < n
       PROVE  IsLatest(l, C(h, n) \ {i})
  <2>1. i \in C(h, n)
    BY <1>7, <1>9, <1>11
  <2>2. \A j \in C(h, n) : j <= i
    BY <1>11, <2>1 DEF IsLatest
  <2>3. ASSUME NEW j PROVE j \in C(h, n) \ {i} <=> j \in C(h, i)
    <3>1. j \in C(h, n) \ {i} => j \in C(h, i)
      <4>1. ASSUME j \in C(h, n) \ {i} PROVE j < i
        BY <1>1, <1>7, <2>2, <4>1
      <4> QED BY <1>7, <4>1
    <3>2. j \in C(h, i) => j \in C(h, n) \ {i}
      <4>1. ASSUME j \in C(h, i) PROVE j < n /\ j # i
        BY <1>1, <1>7, <1>11, <4>1
      <4> QED BY <1>7, <4>1
    <3> QED BY <3>1, <3>2
  <2>4. C(h, n) \ {i} = C(h, i)
    BY <2>3
  <2> QED BY <1>9, <2>4
<1>12. ASSUME NEW s \in 0 .. t.capacity - 1
       PROVE  IsLatest(u.lookup[s], C(s, t.next) \ {i})
  <2>1. CASE p = NIL /\ s = h
    <3>1. IsLatest(i, C(h, t.next)) /\ i < t.next
      BY <1>1, <1>6, <1>8, <1>9, <2>1
    <3>2. IsLatest(l, C(h, t.next) \ {i})
      BY <1>1, <1>11, <3>1
    <3> QED BY <1>2, <2>1, <3>2
  <2>2. CASE ~(p = NIL /\ s = h)
    <3>1. u.lookup[s] = t.lookup[s] /\ IsLatest(t.lookup[s], C(s, t.next))
      BY <1>2, <1>6, <2>2
    <3>2. t.lookup[s] # i
      <4>1. SUFFICES ASSUME t.lookup[s] = i PROVE FALSE
        OBVIOUS
      <4>2. i \in C(s, t.next) /\ \A j \in C(s, t.next) : j <= i
        BY <1>10, <3>1, <4>1 DEF IsLatest
      <4>3. s = h /\ p # NIL
        BY <1>7, <1>9, <2>2, <4>2
      <4>4. p \in C(h, t.next) /\ t.link[p] = i /\ p <= i
        BY <1>8, <4>2, <4>3
      <4>5. t.link[p] < p /\ p \in Nat
        BY <1>1, <1>6, <1>7, <4>4 DEF NIL
      <4> QED BY <1>10, <4>4, <4>5
    <3> QED BY <3>1, <3>2, LatestWithout
  <2> QED BY <2>1, <2>2
<1>13. ASSUME NEW j \in Live(t) \ (D \union {i})
       PROVE  IsLatest(u.link[j], C(Slot(t, t.key[j]), j) \ {i})
  <2> DEFINE g == Slot(t, t.key[j])
  <2>1. /\ j \in Live(t) \ D /\ j # i /\ j \in 0 .. t.next - 1 /\ j \in Nat /\ j < t.next
        /\ j # NIL /\ Slot(t, t.key[j]) = g
        /\ IsLatest(t.link[j], C(g, j)) /\ t.link[j] \in NIL .. j - 1
        /\ g \in 0 .. t.capacity - 1
    BY <1>1, <1>6 DEF NIL
  <2> HIDE DEF g
  <2>2. CASE j = p
    <3>1. g = h /\ t.link[j] = i
      BY <1>7, <1>8, <2>1, <2>2
    <3>2. i < j
      BY <1>10, <2>1, <3>1
    <3>3. IsLatest(l, C(h, j) \ {i})
      BY <1>11, <2>1, <3>1, <3>2
    <3> QED BY <1>2, <2>1, <2>2, <3>1, <3>3
  <2>3. CASE j # p
    <3>1. u.link[j] = t.link[j]
      BY <1>2, <2>1, <2>3
    <3>2. t.link[j] # i
      <4>1. SUFFICES ASSUME t.link[j] = i PROVE FALSE
        OBVIOUS
      <4>2. i \in C(g, j) /\ \A x \in C(g, j) : x <= i
        BY <1>10, <2>1, <4>1 DEF IsLatest
      <4>3. g = h /\ i < j
        BY <1>7, <1>9, <4>2
      <4>4. j \in C(h, t.next)
        BY <1>7, <2>1, <4>3
      <4>5. CASE p = NIL
        <5>1. IsLatest(i, C(h, t.next))
          BY <1>6, <1>8, <1>9, <4>5
        <5>2. j <= i
          BY <4>4, <5>1 DEF IsLatest
        <5> QED BY <1>10, <2>1, <4>3, <5>2
      <4>6. CASE p # NIL
        <5>1. /\ p \in C(h, t.next) /\ t.link[p] = i
              /\ p \in Live(t) \ D /\ Slot(t, t.key[p]) = h /\ p \in Nat
          BY <1>1, <1>7, <1>8, <4>6
        <5>2. IsLatest(i, C(h, p))
          BY <1>6, <5>1
        <5>3. i < p /\ \A x \in C(h, p) : x <= i
          BY <1>7, <1>10, <5>2 DEF IsLatest
        <5>4. p < j => p <= i
          BY <1>7, <4>2, <4>3, <5>1
        <5>5. j < p => j <= i
          BY <1>7, <2>1, <4>3, <5>3
        <5> QED BY <1>10, <2>1, <2>3, <4>3, <5>1, <5>3, <5>4, <5>5
      <4> QED BY <4>5, <4>6
    <3> QED BY <2>1, <3>1, <3>2, LatestWithout DEF g
  <2> QED BY <2>2, <2>3
<1>14. ASSUME NEW j \in 0 .. t.next - 1 PROVE u.link[j] \in NIL .. j - 1
  <2>1. CASE j = p
    <3>1. t.link[j] = i /\ t.link[j] \in NIL .. j - 1
      BY <1>1, <1>6, <1>8, <2>1 DEF NIL
    <3>2. i < j
      BY <1>1, <1>10, <3>1
    <3> QED BY <1>1, <1>2, <1>9, <1>10, <2>1, <3>2 DEF NIL
  <2>2. CASE j # p
    BY <1>2, <1>6, <2>2
  <2> QED BY <2>1, <2>2
<1>15. \A k : Slot(u, k) = Slot(t, k)
  BY <1>2 DEF Slot
<1>16. ChainedBut(u, D \union {i})
  <2>1. \A s \in 0 .. u.capacity - 1 :
           IsLatest(u.lookup[s], Colliding(u, s, u.next) \ (D \union {i}))
    BY <1>2, <1>5, <1>12
  <2>2. \A j \in Live(u) \ (D \union {i}) :
           IsLatest(u.link[j], Colliding(u, Slot(u, u.key[j]), j) \ (D \union {i}))
    BY <1>2, <1>3, <1>5, <1>13, <1>15
  <2> QED BY <2>1, <2>2 DEF ChainedBut
<1> QED BY <1>2, <1>14, <1>16 DEF Ordered, Descends

\* A bucket that is bypassed is still there, whichever slot is written.
LEMMA BypassHeld ==
  ASSUME NEW t, Held(t), NEW i \in Live(t), NEW p, NEW m, NEW u,
         BypassedAt(u, t, i, p, m),
         u = [f \in Fields |-> u[f]],
         u.value = t.value, u.size = t.size, u.minDeleted = t.minDeleted
  PROVE  Held(u) /\ Live(u) = Live(t)
<1>1. /\ TableTypeOK(t) /\ i \in 0 .. t.next - 1
      /\ t.lookup \in [0 .. t.capacity - 1 -> NIL .. t.capacity - 1]
      /\ t.link \in [0 .. t.next - 1 -> NIL .. t.capacity - 1]
  BY HeldFacts DEF Held
<1>2. /\ u.key = t.key /\ u.next = t.next /\ u.capacity = t.capacity
      /\ u.link = [j \in 0 .. t.next - 1 |-> IF j = p THEN t.link[i] ELSE t.link[j]]
      /\ u.lookup = [s \in 0 .. t.capacity - 1 |->
                      IF p = NIL /\ s = m THEN t.link[i] ELSE t.lookup[s]]
  BY DEF BypassedAt
<1>3. Live(u) = Live(t)
  BY <1>2 DEF Live
<1>4. Pointers(u)
  <2>1. t.link[i] \in NIL .. t.capacity - 1
    BY ONLY <1>1
  <2>2. \A s \in 0 .. t.capacity - 1 :
           (IF p = NIL /\ s = m THEN t.link[i] ELSE t.lookup[s])
             \in NIL .. t.capacity - 1
    BY ONLY <1>1, <2>1
  <2>3. \A j \in 0 .. t.next - 1 :
           (IF j = p THEN t.link[i] ELSE t.link[j]) \in NIL .. t.capacity - 1
    BY ONLY <1>1, <2>1
  <2>4. u.lookup \in [0 .. t.capacity - 1 -> NIL .. t.capacity - 1]
    BY ONLY <1>2, <2>2
  <2>5. u.link \in [0 .. t.next - 1 -> NIL .. t.capacity - 1]
    BY ONLY <1>2, <2>3
  <2> QED BY ONLY <1>2, <2>4, <2>5 DEF Pointers
<1>5. u.capacity \in Int /\ NIL .. u.capacity - 1 \subseteq Int
  BY <1>1, <1>2 DEF TableTypeOK, NIL
<1>6. TableTypeOK(u)
  BY <1>1, <1>2, <1>4, <1>5 DEF TableTypeOK, Pointers
<1> QED BY <1>2, <1>3, <1>4, <1>6
        DEF Held, CountsLive, MinDeletedOK, LiveBelowMin, HoleAtMin

\* The deletion of a bucket that is in no chain, in whatever state the chains are.
LEMMA DropHeld ==
  ASSUME NEW t, Held(t), NEW i \in Live(t)
  PROVE  LET u == DeleteBucket(t, i, i) IN
         /\ TableTypeOK(u) /\ CountsLive(u) /\ u.next <= u.capacity /\ Pointers(u)
         /\ Live(u) = Live(t) \ {i}
         /\ \A j \in Live(u) : u.key[j] = t.key[j] /\ u.value[j] = t.value[j]
         /\ \A D : D \subseteq Live(t) /\ i \in D /\ Ordered(t, D) => Ordered(u, D \ {i})
<1> DEFINE u == DeleteBucket(t, i, i)
<1>1. /\ t.next \in Nat /\ t.capacity \in 1 .. MaxCapacity /\ t.capacity \in Nat \ {0}
      /\ t.next <= t.capacity /\ t.minDeleted \in Nat
      /\ t.key \in [0 .. t.next - 1 -> Key \union {Undef}]
      /\ t.value \in [0 .. t.next - 1 -> Value \union {Undef}]
      /\ t.lookup \in [0 .. t.capacity - 1 -> NIL .. t.capacity - 1]
      /\ t.link \in [0 .. t.next - 1 -> NIL .. t.capacity - 1]
      /\ \A j \in Live(t) : /\ j \in 0 .. t.next - 1 /\ j \in Nat /\ j < t.next
                            /\ Slot(t, t.key[j]) \in 0 .. t.capacity - 1
  BY HeldFacts
<1>2. Deleted(u, t, i, i)
  BY DeleteBuffer DEF Held
<1> HIDE DEF u
<1>3. /\ u = [f \in Fields |-> u[f]]
      /\ u.next \in Nat /\ u.next <= t.next
      /\ Live(u) = Live(t) \ {i}
      /\ u.size = t.size - 1 /\ t.size \in Nat \ {0}
      /\ u.size = Cardinality(Live(u)) /\ u.capacity = t.capacity
      /\ u.minDeleted = IF i < t.minDeleted THEN i ELSE t.minDeleted
      /\ u.key = [j \in 0 .. u.next - 1 |-> IF j = i THEN Undef ELSE t.key[j]]
      /\ u.value = [j \in 0 .. u.next - 1 |-> IF j = i THEN Undef ELSE t.value[j]]
      /\ u.link = [j \in 0 .. u.next - 1 |-> IF j = i THEN NIL ELSE t.link[j]]
  BY <1>2 DEF Deleted
<1>4. i # NIL /\ i \in Nat
  BY <1>1 DEF NIL
<1>5. u.lookup = t.lookup
  <2>1. u.lookup = [s \in 0 .. t.capacity - 1 |-> t.lookup[s]]
    BY <1>2, <1>4 DEF Deleted
  <2> QED BY <1>1, <2>1
<1>6. \A j \in 0 .. u.next - 1 : j \in 0 .. t.next - 1
  BY <1>1, <1>3
<1>7. NIL \in NIL .. t.capacity - 1 /\ NIL .. t.capacity - 1 \subseteq Int
  BY <1>1 DEF NIL
<1>8. \A j \in 0 .. u.next - 1 : /\ u.key[j] = IF j = i THEN Undef ELSE t.key[j]
                                 /\ u.value[j] = IF j = i THEN Undef ELSE t.value[j]
                                 /\ u.link[j] = IF j = i THEN NIL ELSE t.link[j]
  <2> TAKE j \in 0 .. u.next - 1
  <2>1. u.key[j] = IF j = i THEN Undef ELSE t.key[j]
    BY <1>3
  <2>2. u.value[j] = IF j = i THEN Undef ELSE t.value[j]
    BY <1>3
  <2>3. u.link[j] = IF j = i THEN NIL ELSE t.link[j]
    BY <1>3
  <2> QED BY <2>1, <2>2, <2>3
<1>9. u.link \in [0 .. u.next - 1 -> NIL .. t.capacity - 1]
  <2>1. ASSUME NEW j \in 0 .. u.next - 1 PROVE u.link[j] \in NIL .. t.capacity - 1
    <3>1. t.link[j] \in NIL .. t.capacity - 1
      BY <1>1, <1>6
    <3> QED BY <1>7, <1>8, <3>1
  <2> QED BY <1>3, <2>1
<1>10. Pointers(u)
  BY <1>1, <1>3, <1>5, <1>9 DEF Pointers
<1>11. TableTypeOK(u)
  <2>1. u.key \in [0 .. u.next - 1 -> Key \union {Undef}]
    BY <1>1, <1>3, <1>6
  <2>2. u.value \in [0 .. u.next - 1 -> Value \union {Undef}]
    BY <1>1, <1>3, <1>6
  <2>3. u.link \in [0 .. u.next - 1 -> Int] /\ u.lookup \in [0 .. u.capacity - 1 -> Int]
    BY <1>1, <1>3, <1>5, <1>7, <1>9
  <2>4. u.size \in Nat /\ u.minDeleted \in Nat
    BY <1>1, <1>3, <1>4
  <2> QED BY <1>1, <1>3, <2>1, <2>2, <2>3, <2>4 DEF TableTypeOK
<1>12. Live(u) \subseteq 0 .. u.next - 1
  BY <1>3, LiveIndices
<1>13. \A j \in Live(u) : /\ u.key[j] = t.key[j] /\ u.value[j] = t.value[j]
                         /\ u.link[j] = t.link[j]
  BY <1>3, <1>8, <1>12
<1>14. ASSUME NEW D, D \subseteq Live(t), i \in D, Ordered(t, D) PROVE Ordered(u, D \ {i})
  <2>1. \A k : Slot(u, k) = Slot(t, k)
    BY <1>3 DEF Slot
  <2>2. Live(u) \ (D \ {i}) = Live(t) \ D
    BY <1>3, <1>14
  <2>3. \A s, n : Colliding(u, s, n) \ (D \ {i}) = Colliding(t, s, n) \ D
    <3>1. \A j \in Live(u) : Slot(u, u.key[j]) = Slot(t, t.key[j])
      BY <1>13, <2>1
    <3> TAKE s, n
    <3>2. Colliding(u, s, n) = {j \in Live(t) \ {i} : j < n /\ Slot(t, t.key[j]) = s}
      BY <1>3, <3>1 DEF Colliding
    <3>3. i \notin Colliding(u, s, n)
      BY <3>2
    <3> QED BY <1>14, <3>2, <3>3 DEF Colliding
  <2>4. \A s : Colliding(u, s, u.next) = Colliding(u, s, t.next)
    <3>1. \A j \in Live(u) : j < u.next /\ j < t.next
      BY <1>1, <1>3, <1>12
    <3> QED BY <3>1 DEF Colliding
  <2>5. ChainedBut(u, D \ {i})
    <3>1. ASSUME NEW s \in 0 .. u.capacity - 1
          PROVE  IsLatest(u.lookup[s], Colliding(u, s, u.next) \ (D \ {i}))
      <4>1. IsLatest(t.lookup[s], Colliding(t, s, t.next) \ D)
        BY <1>3, <1>14 DEF Ordered, ChainedBut
      <4> QED BY <1>5, <2>3, <2>4, <4>1
    <3>2. ASSUME NEW j \in Live(u) \ (D \ {i})
          PROVE  IsLatest(u.link[j], Colliding(u, Slot(u, u.key[j]), j) \ (D \ {i}))
      <4>1. IsLatest(t.link[j], Colliding(t, Slot(t, t.key[j]), j) \ D)
        BY <1>14, <2>2 DEF Ordered, ChainedBut
      <4> QED BY <1>13, <2>1, <2>3, <4>1
    <3> QED BY <3>1, <3>2 DEF ChainedBut
  <2>6. Descends(u)
    <3>1. ASSUME NEW j \in 0 .. u.next - 1 PROVE u.link[j] \in NIL .. j - 1
      <4>1. t.link[j] \in NIL .. j - 1
        BY <1>6, <1>14 DEF Ordered, Descends
      <4>2. NIL \in NIL .. j - 1
        BY DEF NIL
      <4>3. u.link[j] = NIL \/ u.link[j] = t.link[j]
        BY <1>8
      <4> QED BY ONLY <4>1, <4>2, <4>3
    <3> QED BY <3>1 DEF Descends
  <2> QED BY <2>5, <2>6 DEF Ordered
<1>15. u.next <= u.capacity
  BY <1>1, <1>3
<1>16. CountsLive(u)
  BY <1>3 DEF CountsLive
<1> QED BY <1>3, <1>10, <1>11, <1>13, <1>14, <1>15, <1>16 DEF u

\* What is left of t without bucket i: its live buckets, moved or not.
DroppedFrom(u, t, i, moved) ==
  /\ \E src \in [Live(u) -> Live(t) \ {i}] :
       /\ \A j, k \in Live(u) : src[j] = src[k] => j = k
       /\ \A j \in Live(u) : u.key[j] = t.key[src[j]] /\ u.value[j] = t.value[src[j]]
       /\ ~moved => \A j \in Live(u) : src[j] = j
  /\ ~moved => Live(u) = Live(t) \ {i}

\* The deletion, and the truncation that it may bring about.
LEMMA DeleteHeld ==
  ASSUME NEW t, Held(t), NEW i \in Live(t)
  PROVE  LET w == DeleteBucket(t, i, i)
             u == AutoTruncate(w)
         IN  /\ Held(u) /\ DroppedFrom(u, t, i, Truncates(w))
             /\ Truncates(w) => Ordered(u, {})
             /\ ~Truncates(w) =>
                  \A D : D \subseteq Live(t) /\ i \in D /\ Ordered(t, D) => Ordered(u, D \ {i})
<1> DEFINE w == DeleteBucket(t, i, i)
           u == AutoTruncate(w)
<1>1. /\ TableTypeOK(w) /\ CountsLive(w) /\ w.next <= w.capacity /\ Pointers(w)
      /\ Live(w) = Live(t) \ {i}
      /\ \A j \in Live(w) : w.key[j] = t.key[j] /\ w.value[j] = t.value[j]
      /\ \A D : D \subseteq Live(t) /\ i \in D /\ Ordered(t, D) => Ordered(w, D \ {i})
  BY DropHeld
<1>2. /\ LiveBelowMin(w)
      /\ Truncates(w) => IsPacked(w) \/ HoleAtMin(w)
      /\ ~Truncates(w) => MinDeletedOK(w)
  BY DeleteMin DEF Held
<1> HIDE DEF w
<1>3. CASE Truncates(w)
  <2>1. Gathered(u, w) /\ u.next <= u.capacity
    BY <1>1, <1>2, <1>3, TruncateGathers
  <2> HIDE DEF u
  <2>2. Held(u) /\ Ordered(u, {})
    BY <2>1, GatheredHeld
  <2>3. PICK src \in [Live(u) -> Live(w)] :
          /\ \A j, k \in Live(u) : src[j] = src[k] => j = k
          /\ \A j \in Live(u) : u.key[j] = w.key[src[j]] /\ u.value[j] = w.value[src[j]]
    BY <2>1 DEF Gathered, Carried
  <2>4. \A j \in Live(u) : u.key[j] = t.key[src[j]] /\ u.value[j] = t.value[src[j]]
    BY <1>1, <2>3
  <2>5. src \in [Live(u) -> Live(t) \ {i}]
    BY <1>1, <2>3
  <2>6. DroppedFrom(u, t, i, Truncates(w))
    BY <1>3, <2>3, <2>4, <2>5 DEF DroppedFrom
  <2> QED BY <1>3, <2>2, <2>6 DEF u, w
<1>4. CASE ~Truncates(w)
  <2>1. u = w
    BY <1>4 DEF AutoTruncate
  <2>2. Held(w)
    BY <1>1, <1>2, <1>4 DEF Held
  <2> DEFINE src == [j \in Live(w) |-> j]
  <2>3. src \in [Live(w) -> Live(t) \ {i}] /\ \A j \in Live(w) : src[j] = j
    BY <1>1
  <2> HIDE DEF src
  <2>4. DroppedFrom(w, t, i, Truncates(w))
    BY <1>1, <1>4, <2>3 DEF DroppedFrom
  <2> HIDE DEF u
  <2> QED BY <1>1, <1>4, <2>1, <2>2, <2>4 DEF u, w
<1> QED BY <1>3, <1>4

\* A new buffer is in order.
LEMMA FreshHeld ==
  ASSUME NEW c \in 1 .. MaxCapacity
  PROVE  Held(Fresh(c)) /\ Ordered(Fresh(c), {}) /\ Live(Fresh(c)) = {}
<1> DEFINE t == Fresh(c)
<1>1. /\ TableTypeOK(t) /\ TableInv(t) /\ Live(t) = {}
      /\ t.next = 0 /\ t.size = 0 /\ t.capacity = c /\ t.minDeleted = c
  BY FreshInv
<1>2. t.lookup = [s \in 0 .. c - 1 |-> NIL]
  BY DEF Fresh
<1> HIDE DEF t
<1>3. c \in Nat \ {0}
  BY CapacityAssumption
<1>4. Live(t) = 0 .. t.next - 1
  BY <1>1
<1>5. MinDeletedOK(t)
  BY <1>1, <1>3, <1>4, NoneDeleted
<1>6. Pointers(t)
  <2>1. NIL \in NIL .. c - 1
    BY <1>3 DEF NIL
  <2>2. 0 .. t.next - 1 = {}
    BY <1>1
  <2>3. t.link \in [0 .. t.next - 1 -> Int]
    BY <1>1 DEF TableTypeOK
  <2> QED BY <1>1, <1>2, <2>1, <2>2, <2>3 DEF Pointers
<1>7. Descends(t)
  BY <1>1 DEF Descends
<1> QED BY <1>1, <1>5, <1>6, <1>7, ChainedButNone DEF Held, Ordered, TableInv, t

\* clear() of a table with entries.
LEMMA ClearHeld ==
  ASSUME NEW t, Held(t), t.size > 0
  PROVE  LET u == ClearTable(t) IN Held(u) /\ Ordered(u, {}) /\ Live(u) = {}
<1> DEFINE c == IF t.capacity > MinCapacity THEN MinCapacity ELSE t.capacity
<1>1. c \in 1 .. MaxCapacity /\ c \in Nat /\ t.size # 0
  BY HeldFacts, CapacityAssumption
<1>2. ClearTable(t) = Fresh(c)
  <2> HIDE DEF c
  <2>1. ClearTable(t) = [Fresh(t.capacity) EXCEPT !.capacity = c, !.minDeleted = c,
                           !.lookup = [s \in 0 .. c - 1 |-> NIL]]
    BY <1>1 DEF ClearTable, c
  <2> QED BY <2>1 DEF Fresh
<1> QED BY <1>1, <1>2, FreshHeld

\* Values are nobody's concern but the program's.
LEMMA RevalueHeld ==
  ASSUME NEW t, Held(t), NEW i \in Live(t), NEW v \in Value
  PROVE  LET u == [t EXCEPT !.value[i] = v] IN
         /\ Held(u) /\ Live(u) = Live(t) /\ u.key = t.key
         /\ u.link = t.link /\ u.lookup = t.lookup /\ u.capacity = t.capacity
         /\ u.next = t.next /\ u.size = t.size /\ u.value[i] = v
         /\ \A j \in Live(t) : j # i => u.value[j] = t.value[j]
         /\ \A D : Ordered(u, D) <=> Ordered(t, D)
<1> DEFINE u == [t EXCEPT !.value[i] = v]
<1>1. /\ t = [f \in Fields |-> t[f]] /\ TableTypeOK(t)
      /\ t.value \in [0 .. t.next - 1 -> Value \union {Undef}]
      /\ i \in 0 .. t.next - 1 /\ Live(t) \subseteq 0 .. t.next - 1
  BY HeldFacts DEF Held
<1>2. /\ u = [f \in Fields |-> u[f]]
      /\ u.key = t.key /\ u.link = t.link /\ u.lookup = t.lookup
      /\ u.next = t.next /\ u.size = t.size /\ u.capacity = t.capacity
      /\ u.minDeleted = t.minDeleted /\ u.value = [t.value EXCEPT ![i] = v]
  BY <1>1 DEF Fields
<1> HIDE DEF u
<1>3. /\ u.value \in [0 .. t.next - 1 -> Value \union {Undef}]
      /\ u.value[i] = v /\ \A j \in Live(t) : j # i => u.value[j] = t.value[j]
  BY <1>1, <1>2
<1>4. TableTypeOK(u)
  BY <1>1, <1>2, <1>3 DEF TableTypeOK
<1>5. Live(u) = Live(t) /\ \A k : Slot(u, k) = Slot(t, k)
  BY <1>2 DEF Live, Slot
<1>6. \A s, n : Colliding(u, s, n) = Colliding(t, s, n)
  BY <1>2, <1>5 DEF Colliding
<1>7. Held(u)
  BY <1>2, <1>4, <1>5
     DEF Held, CountsLive, Pointers, MinDeletedOK, LiveBelowMin, HoleAtMin
<1>8. \A D : Ordered(u, D) <=> Ordered(t, D)
  <2>1. Descends(u) <=> Descends(t)
    BY <1>2 DEF Descends
  <2>2. \A D : ChainedBut(u, D) <=> ChainedBut(t, D)
    <3>1. \A j, n : Colliding(u, Slot(u, u.key[j]), n) = Colliding(t, Slot(t, t.key[j]), n)
      BY <1>2, <1>5, <1>6
    <3>2. \A s : Colliding(u, s, u.next) = Colliding(t, s, t.next)
      BY <1>2, <1>6
    <3> QED BY <1>2, <1>5, <3>1, <3>2, Zenon DEF ChainedBut
  <2> QED BY <2>1, <2>2 DEF Ordered
<1> QED BY <1>2, <1>3, <1>5, <1>7, <1>8 DEF u
=============================================================================
