------------------------- MODULE SeqOwnershipProofs -------------------------
(***************************************************************************)
(* Proofs about SeqOwnership: the references of a sequence's values are    *)
(* counted right, whatever user code does to the sequence in the midst of  *)
(* its methods.  What the edits do to the values of the window is taken    *)
(* from the proofs about DsSeq, here over raw cells.                       *)
(***************************************************************************)
EXTENDS SeqOwnership, FiniteSetTheorems, FunctionTheorems, SequenceTheorems, TLAPS

Bits == Value \union {Gone}

P == INSTANCE DsSeqProofs WITH
  Value <- Value \union {Gone}, MaxArgs <- 1, MaxTurns <- 0,
  pc <- "idle", lo <- 0, hi <- 0, turns <- 0, fault <- "none"

LEMMA Assumptions == P!HoleAssumption /\ P!CapacityAssumption /\ P!SizeAssumption
BY GoneAssumption, CapacityAssumption, SizeAssumption
   DEF P!HoleAssumption, P!CapacityAssumption, P!SizeAssumption

-----------------------------------------------------------------------------
(* The operators of DsSeq that SeqOwnership takes are those of its proofs. *)

LEMMA SameCells ==
  /\ \A s, p : S!Cell(s, p) = P!Cell(s, p)
  /\ \A s : S!Window(s) = P!Window(s)
  /\ \A s : S!Full(s) = P!Full(s)
  /\ \A s : S!Truncates(s) = P!Truncates(s)
  /\ \A s, i : S!Overreads(s, i) = P!Overreads(s, i)
  /\ \A s, n : S!OverflowsRight(s, n) = P!OverflowsRight(s, n)
BY DEF S!Cell, P!Cell, S!Window, P!Window, S!Full, P!Full, S!Truncates, P!Truncates,
       S!Overreads, P!Overreads, S!OverflowsRight, P!OverflowsRight

LEMMA SameFronts ==
  /\ \A s : S!FrontBuffer(s) = P!FrontBuffer(s)
  /\ \A s : S!ResetHead(s) = P!ResetHead(s)
  /\ \A s, c : S!Reallocate(s, c) = P!Reallocate(s, c)
  /\ \A s : S!AutoTruncate(s) = P!AutoTruncate(s)
  /\ \A s : S!Cleared(s) = P!Cleared(s)
  /\ \A c : S!Fresh(c) = P!Fresh(c)
BY Zenon DEF S!FrontBuffer, P!FrontBuffer, S!ResetHead, P!ResetHead, S!Reallocate,
       P!Reallocate, S!AutoTruncate, P!AutoTruncate, S!Truncates, P!Truncates,
       S!Cleared, P!Cleared, S!Fresh, P!Fresh, S!FromBuffer, P!FromBuffer,
       S!Move, P!Move, S!RoomBetween, P!RoomBetween

LEMMA SameEdits ==
  /\ \A s, vs : S!Pushed(s, vs) = P!Pushed(s, vs)
  /\ \A s, vs : S!Unshifted(s, vs) = P!Unshifted(s, vs)
  /\ \A s, p, vs : S!Inserted(s, p, vs) = P!Inserted(s, p, vs)
  /\ \A s : S!Shifted(s) = P!Shifted(s)
  /\ \A s : S!Popped(s) = P!Popped(s)
  /\ \A s, i : S!Closed(s, i) = P!Closed(s, i)
<1>0. /\ \A b, d, i, n : S!Move(b, d, i, n) = P!Move(b, d, i, n)
      /\ \A b, i, vs, c : S!Filled(b, i, vs, c) = P!Filled(b, i, vs, c)
  BY DEF S!Move, P!Move, S!Filled, P!Filled
<1>1. \A s, vs : S!Pushed(s, vs) = P!Pushed(s, vs)
  BY <1>0 DEF S!Pushed, P!Pushed
<1>2. \A s, vs : S!Unshifted(s, vs) = P!Unshifted(s, vs)
  BY <1>0 DEF S!Unshifted, P!Unshifted
<1>3. \A s, p, vs : S!Inserted(s, p, vs) = P!Inserted(s, p, vs)
  <2>1. \A s, i, vs : S!OpenedRight(s, i, vs) = P!OpenedRight(s, i, vs)
    <3> SUFFICES ASSUME NEW s, NEW i, NEW vs
                 PROVE  S!OpenedRight(s, i, vs) = P!OpenedRight(s, i, vs)
      OBVIOUS
    <3>1. CASE S!OverflowsRight(s, Len(vs))
      <4>1. P!OverflowsRight(s, Len(vs))
        BY <3>1, SameCells
      <4> QED BY <1>0, <3>1, <4>1 DEF S!OpenedRight, P!OpenedRight
    <3>2. CASE ~ S!OverflowsRight(s, Len(vs))
      <4>1. ~ P!OverflowsRight(s, Len(vs))
        BY <3>2, SameCells
      <4> QED BY <1>0, <3>2, <4>1 DEF S!OpenedRight, P!OpenedRight
    <3> QED BY <3>1, <3>2
  <2>2. \A s, i, vs : S!OpenedLeft(s, i, vs) = P!OpenedLeft(s, i, vs)
    BY <1>0 DEF S!OpenedLeft, P!OpenedLeft
  <2> SUFFICES ASSUME NEW s, NEW p, NEW vs PROVE S!Inserted(s, p, vs) = P!Inserted(s, p, vs)
    OBVIOUS
  <2>3. PICK i : i = S!Cell(s, p) /\ i = P!Cell(s, p)
    BY SameCells
  <2>4. S!Inserted(s, p, vs) = IF i <= s.tail THEN S!OpenedRight(s, i, vs) ELSE S!OpenedLeft(s, i, vs)
    BY ONLY <2>3 DEF S!Inserted
  <2>5. P!Inserted(s, p, vs) = IF i <= s.tail THEN P!OpenedRight(s, i, vs) ELSE P!OpenedLeft(s, i, vs)
    BY ONLY <2>3 DEF P!Inserted
  <2> QED BY ONLY <2>1, <2>2, <2>4, <2>5
<1>4. \A s : S!Shifted(s) = P!Shifted(s)
  BY SameFronts, Zenon DEF S!Shifted, P!Shifted
<1>5. \A s : S!Popped(s) = P!Popped(s)
  BY SameFronts, Zenon DEF S!Popped, P!Popped
<1>6. \A s, i : S!Closed(s, i) = P!Closed(s, i)
  BY <1>0, SameFronts DEF S!Closed, P!Closed
<1> QED BY <1>1, <1>2, <1>3, <1>4, <1>5, <1>6

-----------------------------------------------------------------------------
(* How often a value occurs.                                               *)

One(b) == IF b THEN 1 ELSE 0

\* Sets of the same size.
LEMMA SameSize ==
  ASSUME NEW A, IsFiniteSet(A), NEW B, NEW h \in [A -> B],
         \A x, y \in A : h[x] = h[y] => x = y,
         \A y \in B : \E x \in A : h[x] = y
  PROVE  IsFiniteSet(B) /\ Cardinality(B) = Cardinality(A)
<1>1. h \in Bijection(A, B)
  BY DEF Bijection, Injection, Surjection, IsInjective
<1> QED BY <1>1, FS_Bijection DEF ExistsBijection

LEMMA TimesNat ==
  ASSUME NEW E, NEW f \in Seq(E), NEW v
  PROVE  /\ Times(v, f) \in Nat
         /\ IsFiniteSet({i \in DOMAIN f : f[i] = v})
         /\ Times(v, f) = 0 <=> \A i \in DOMAIN f : f[i] # v
<1> DEFINE T == {i \in DOMAIN f : f[i] = v}
<1>1. IsFiniteSet(DOMAIN f)
  BY LenProperties, FS_Interval
<1>2. IsFiniteSet(T) /\ Cardinality(T) \in Nat /\ (Cardinality(T) = 0 <=> T = {})
  BY <1>1, FS_Subset, FS_CardinalityType, FS_EmptySet
<1>3. T = {} <=> \A i \in DOMAIN f : f[i] # v
  OBVIOUS
<1> QED BY <1>2, <1>3 DEF Times

LEMMA Splicing ==
  ASSUME NEW f \in Seq(Bits), NEW z \in Nat, Len(f) = z, NEW p \in Nat, p <= z,
         NEW vs \in Seq(Bits), NEW n \in Nat, Len(vs) = n
  PROVE  /\ P!Spliced(f, p, vs) \in Seq(Bits) /\ Len(P!Spliced(f, p, vs)) = z + n
         /\ P!IsSpliced(P!Spliced(f, p, vs), f, z, p, vs, n)
BY Assumptions, P!SplicedAt DEF Bits

\* A value put in at a position is there once more, the others as often.
LEMMA TimesSpliced ==
  ASSUME NEW f \in Seq(Bits), NEW z \in Nat, Len(f) = z, NEW p \in 0 .. z, NEW w \in Bits,
         NEW v
  PROVE  Times(v, P!Spliced(f, p, <<w>>)) = Times(v, f) + One(w = v)
<1>1. PICK g : g = P!Spliced(f, p, <<w>>)
  OBVIOUS
<1>2. /\ g \in Seq(Bits) /\ Len(g) = z + 1
      /\ \A q \in 0 .. z :
           /\ q < p => g[q + 1] = f[q + 1]
           /\ q = p => g[q + 1] = w
           /\ p + 1 <= q => g[q + 1] = f[q]
  <2>1. PICK vs : vs = <<w>>
    OBVIOUS
  <2>2. vs \in Seq(Bits) /\ Len(vs) = 1 /\ vs[1] = w /\ 1 \in Nat /\ p \in Nat /\ p <= z
    BY <2>1
  <2>3. g \in Seq(Bits) /\ Len(g) = z + 1 /\ P!IsSpliced(g, f, z, p, vs, 1)
    <3>1. g = P!Spliced(f, p, vs)
      BY <1>1, <2>1
    <3>2. f \in Seq(Bits) /\ Len(f) = z /\ z \in Nat
      OBVIOUS
    <3>3. PICK n \in Nat : n = 1
      OBVIOUS
    <3>4. Len(vs) = n
      BY <2>2, <3>3
    <3>5. /\ P!Spliced(f, p, vs) \in Seq(Bits) /\ Len(P!Spliced(f, p, vs)) = z + n
          /\ P!IsSpliced(P!Spliced(f, p, vs), f, z, p, vs, n)
      BY ONLY <2>2, <3>2, <3>4, n \in Nat, Splicing
    <3> QED BY ONLY <3>1, <3>3, <3>5
  <2>4. \A q \in 0 .. z :
          /\ q < p => g[q + 1] = f[q + 1]
          /\ p <= q /\ q < p + 1 => g[q + 1] = vs[q - p + 1]
          /\ p + 1 <= q => g[q + 1] = f[q - 1 + 1]
    BY <2>3 DEF P!IsSpliced
  <2>5. ASSUME NEW q \in 0 .. z
        PROVE  /\ q < p => g[q + 1] = f[q + 1]
               /\ q = p => g[q + 1] = w
               /\ p + 1 <= q => g[q + 1] = f[q]
    <3>1. q - 1 + 1 = q /\ (q = p => q - p + 1 = 1 /\ p <= q /\ q < p + 1)
      OBVIOUS
    <3> QED BY <2>2, <2>4, <3>1
  <2> QED BY <2>3, <2>5
<1> DEFINE A == {i \in DOMAIN f : f[i] = v}
           B == {j \in DOMAIN g : g[j] = v}
           h == [i \in A |-> IF i <= p THEN i ELSE i + 1]
<1>3. DOMAIN f = 1 .. z /\ DOMAIN g = 1 .. z + 1
  BY <1>2, LenProperties
<1>4. \A i \in 1 .. z : /\ i <= p => g[i] = f[i]
                        /\ i > p => g[i + 1] = f[i]
  <2> SUFFICES ASSUME NEW i \in 1 .. z
               PROVE  (i <= p => g[i] = f[i]) /\ (i > p => g[i + 1] = f[i])
    OBVIOUS
  <2>1. i - 1 \in 0 .. z /\ i \in 0 .. z /\ (i - 1) + 1 = i
    OBVIOUS
  <2>2. i <= p => i - 1 < p
    OBVIOUS
  <2>3. i <= p => g[i] = f[i]
    BY <1>2, <2>1, <2>2
  <2>4. i > p => g[i + 1] = f[i]
    BY <1>2, <2>1
  <2> QED BY <2>3, <2>4
<1>5. g[p + 1] = w
  BY <1>2
<1>6. h \in [A -> B \ {p + 1}]
  BY <1>3, <1>4
<1>7. \A x, y \in A : h[x] = h[y] => x = y
  BY <1>3
<1>8. ASSUME NEW y \in B \ {p + 1} PROVE \E x \in A : h[x] = y
  <2>1. CASE y <= p
    <3>1. y \in A
      BY <1>3, <1>4, <2>1
    <3> QED BY <2>1, <3>1
  <2>2. CASE y > p
    <3>1. y - 1 \in 1 .. z /\ y - 1 > p /\ (y - 1) + 1 = y
      BY <1>3, <2>2
    <3>2. y - 1 \in A
      BY <1>3, <1>4, <3>1
    <3>3. ~ (y - 1 <= p)
      BY <3>1
    <3> QED BY <3>1, <3>2, <3>3
  <2> QED BY <1>3, <2>1, <2>2
<1>9. IsFiniteSet(A) /\ Cardinality(A) = Times(v, f) /\ Cardinality(A) \in Nat
  BY TimesNat DEF Times
<1>10. Times(v, g) = Cardinality(B)
  BY DEF Times
<1>11. (p + 1 \in B) <=> (w = v)
  BY <1>3, <1>5
<1> HIDE DEF A, B, h
<1>12. IsFiniteSet(B \ {p + 1}) /\ Cardinality(B \ {p + 1}) = Cardinality(A)
  BY <1>6, <1>7, <1>8, <1>9, SameSize
<1>13. CASE w = v
  <2>1. B = (B \ {p + 1}) \union {p + 1} /\ p + 1 \notin B \ {p + 1}
    BY <1>11, <1>13
  <2>2. Cardinality(B) = Cardinality(B \ {p + 1}) + 1
    BY <1>12, <2>1, FS_AddElement
  <2> QED BY <1>1, <1>9, <1>10, <1>12, <1>13, <2>2 DEF One
<1>14. CASE w # v
  <2>1. B \ {p + 1} = B
    BY <1>11, <1>14
  <2>2. Cardinality(B \ {p + 1}) = Cardinality(B)
    BY <2>1
  <2> QED BY ONLY <1>1, <1>9, <1>10, <1>12, <1>14, <2>2 DEF One
<1> QED BY <1>13, <1>14

LEMMA Dropping ==
  ASSUME NEW f \in Seq(Bits), NEW z \in Nat, Len(f) = z, NEW p \in Nat, p < z
  PROVE  /\ P!Dropped(f, p) \in Seq(Bits) /\ Len(P!Dropped(f, p)) = z - 1
         /\ P!IsDropped(P!Dropped(f, p), f, z, p)
BY Assumptions, P!DroppedAt DEF Bits

\* A value that is replaced.
LEMMA TimesReplaced ==
  ASSUME NEW f \in Seq(Bits), NEW g \in Seq(Bits), NEW i \in DOMAIN f,
         DOMAIN g = DOMAIN f, \A j \in DOMAIN f \ {i} : g[j] = f[j], NEW v
  PROVE  Times(v, g) + One(f[i] = v) = Times(v, f) + One(g[i] = v)
<1> DEFINE A == {j \in DOMAIN f : f[j] = v}
           B == {j \in DOMAIN g : g[j] = v}
           C == {j \in DOMAIN f \ {i} : f[j] = v}
<1>1. /\ Times(v, f) = Cardinality(A) /\ Times(v, g) = Cardinality(B)
      /\ IsFiniteSet(A) /\ IsFiniteSet(B)
  BY TimesNat DEF Times
<1>2. /\ C \subseteq A /\ i \notin C
      /\ f[i] = v => A = C \union {i}
      /\ f[i] # v => A = C
      /\ g[i] = v => B = C \union {i}
      /\ g[i] # v => B = C
  OBVIOUS
<1> HIDE DEF A, B, C
<1>3. IsFiniteSet(C) /\ Cardinality(C) \in Nat /\ Cardinality(C \union {i}) = Cardinality(C) + 1
  BY <1>1, <1>2, FS_Subset, FS_CardinalityType, FS_AddElement
<1>4. Times(v, f) = Cardinality(C) + One(f[i] = v)
  <2>1. CASE f[i] = v
    <3>1. Cardinality(A) = Cardinality(C) + 1
      BY <1>2, <1>3, <2>1
    <3> QED BY ONLY <1>1, <1>3, <2>1, <3>1 DEF One
  <2>2. CASE f[i] # v
    <3>1. Cardinality(A) = Cardinality(C)
      BY <1>2, <2>2
    <3> QED BY ONLY <1>1, <1>3, <2>2, <3>1 DEF One
  <2> QED BY <2>1, <2>2
<1>5. Times(v, g) = Cardinality(C) + One(g[i] = v)
  <2>1. CASE g[i] = v
    <3>1. Cardinality(B) = Cardinality(C) + 1
      BY <1>2, <1>3, <2>1
    <3> QED BY ONLY <1>1, <1>3, <2>1, <3>1 DEF One
  <2>2. CASE g[i] # v
    <3>1. Cardinality(B) = Cardinality(C)
      BY <1>2, <2>2
    <3> QED BY ONLY <1>1, <1>3, <2>2, <3>1 DEF One
  <2> QED BY <2>1, <2>2
<1> QED BY <1>3, <1>4, <1>5 DEF One

LEMMA TimesEmpty == ASSUME NEW v PROVE Times(v, << >>) = 0
<1>1. << >> \in Seq(Bits) /\ DOMAIN << >> = {}
  OBVIOUS
<1> QED BY <1>1, TimesNat

\* A value taken out from a position was there once more.
LEMMA TimesDropped ==
  ASSUME NEW f \in Seq(Bits), NEW z \in Nat, Len(f) = z, NEW p \in 0 .. z - 1, NEW v
  PROVE  Times(v, f) = Times(v, P!Dropped(f, p)) + One(f[p + 1] = v)
<1>1. PICK w : w = f[p + 1]
  OBVIOUS
<1>2. w \in Bits /\ p \in Nat /\ p < z /\ z - 1 \in Nat /\ p <= z - 1 /\ p \in 0 .. z - 1
  BY <1>1, LenProperties
<1>3. PICK g \in Seq(Bits) : /\ g = P!Dropped(f, p) /\ Len(g) = z - 1
                             /\ P!IsDropped(g, f, z, p)
  BY <1>2, Dropping
<1>4. Times(v, P!Spliced(g, p, <<w>>)) = Times(v, g) + One(w = v)
  BY <1>2, <1>3, TimesSpliced
<1>5. PICK vs : vs = <<w>>
  OBVIOUS
<1>6. vs \in Seq(Bits) /\ Len(vs) = 1 /\ vs[1] = w
  BY <1>2, <1>5
<1>7. PICK n \in Nat, y \in Nat : n = 1 /\ y = z - 1
  BY <1>2
<1>8. PICK h \in Seq(Bits) : /\ h = P!Spliced(g, p, vs) /\ Len(h) = y + n
                             /\ P!IsSpliced(h, g, y, p, vs, n)
  <2>1. Len(vs) = n /\ Len(g) = y /\ p <= y
    BY <1>2, <1>3, <1>6, <1>7
  <2> QED BY ONLY <1>2, <1>6, <2>1, g \in Seq(Bits), y \in Nat, n \in Nat, Splicing
<1>9. Len(h) = z
  BY <1>7, <1>8
<1>10. ASSUME NEW i \in 1 .. z PROVE h[i] = f[i]
  <2>1. PICK q \in 0 .. z - 1 : q = i - 1 /\ q + 1 = i
    OBVIOUS
  <2>2. CASE q < p
    <3>1. q \in 0 .. z - 2 /\ q \in 0 .. y + n - 1
      BY <1>2, <1>7, <2>2
    <3>2. g[q + 1] = f[q + 1]
      BY <1>3, <2>2, <3>1 DEF P!IsDropped
    <3>3. h[q + 1] = g[q + 1]
      BY <1>8, <2>2, <3>1 DEF P!IsSpliced
    <3> QED BY <2>1, <3>2, <3>3
  <2>3. CASE q = p
    <3>1. q \in 0 .. y + n - 1 /\ p <= q /\ q < p + n /\ q - p + 1 = 1
      BY <1>2, <1>7, <2>3
    <3>2. h[q + 1] = vs[1]
      BY <1>8, <3>1 DEF P!IsSpliced
    <3> QED BY <1>1, <1>6, <2>1, <2>3, <3>2
  <2>4. CASE p < q
    <3>1. q \in 0 .. y + n - 1 /\ p + n <= q /\ q - n + 1 = q /\ q - 1 \in 0 .. z - 2
          /\ p <= q - 1 /\ (q - 1) + 1 = q /\ (q - 1) + 2 = q + 1
      BY <1>2, <1>7, <2>4
    <3>2. h[q + 1] = g[q]
      BY <1>8, <3>1 DEF P!IsSpliced
    <3>3. g[q] = f[q + 1]
      BY <1>3, <3>1 DEF P!IsDropped
    <3> QED BY <2>1, <3>2, <3>3
  <2> QED BY <1>2, <2>2, <2>3, <2>4
<1>11. h = f
  BY <1>9, <1>10, SeqEqual
<1> QED BY <1>1, <1>3, <1>4, <1>5, <1>8, <1>11

-----------------------------------------------------------------------------
(* The inductive invariant.  Its parts are about a sequence s, a method c  *)
(* under way, and references n counted and l lost.                         *)

Items(s) == P!Contents(s)

Kept(s) == P!Sound(s) /\ P!Typed(s)

CallFields == DOMAIN NoCall

\* The method holds a value that it has still to store.
Holds(c) == c.op \in {"apply", "set"} /\ c.phase = "destructor"

\* The local variables of the method.
CallShape(c) ==
  /\ c = [f \in CallFields |-> c[f]]
  /\ c.op \in Methods \union {"none", "set"}
  /\ c.phase \in {"walk", "callback", "destructor"}
  /\ c.size \in 0 .. MaxSize /\ c.at \in 0 .. c.size
  /\ c.built \in Seq(Value)
  /\ c.freed \in BOOLEAN /\ c.edited \in BOOLEAN
  /\ c.op = "none" => c = NoCall
  /\ c.phase = "callback" => c.op \in {"map", "filter", "apply"}
  /\ c.phase = "destructor" => c.op \in {"apply", "set", "clear"}
  /\ c.op = "set" => c.phase = "destructor"
  /\ c.phase # "walk" => c.at < c.size
  /\ c.op \notin {"map", "filter"} => Len(c.built) = One(Holds(c))
  /\ c.edited => c.size > 0

\* What the method has read of the sequence still holds, unless its user code
\* has edited it.
Undisturbed(s, c) ==
  (c.op # "none" /\ ~ c.edited) =>
    c.head = s.head /\ c.size = s.size /\ c.capacity = s.capacity /\ ~ c.freed

\* Where released values lie.  The only one of apply() and set() is that of the
\* cell they are about to write; clear() leaves them behind itself.
Emptied(s, c) ==
  /\ c.op # "clear" => Times(Gone, Items(s)) = One(c.phase = "destructor")
  /\ (Holds(c) /\ ~ c.edited) => Items(s)[c.at + 1] = Gone
  /\ (c.op = "clear" /\ ~ c.edited) =>
       \A p \in 0 .. s.size - 1 :
         Items(s)[p + 1] = Gone <=> p < c.at \/ (p = c.at /\ c.phase = "destructor")

Balance(s, c, n, l) ==
  \A v \in Value : n[v] = Times(v, Items(s)) + Times(v, c.built) + l[v]

Counts(n, l) == n \in [Value -> Nat] /\ l \in [Value -> 0 .. MaxLost]

Inv(s, c, n, l, k, f) ==
  /\ Kept(s) /\ s.size <= MaxSize
  /\ k \in BOOLEAN /\ (k \/ P!Clean(s))
  /\ CallShape(c)
  /\ Counts(n, l)
  /\ f \in Faults \union {"none"}
  /\ f = "none" => Undisturbed(s, c) /\ Emptied(s, c) /\ Balance(s, c, n, l)
  /\ f # "none" => c.edited \/ s.tail = s.capacity

IInv == Inv(seq, call, counted, lost, copies, fault)

-----------------------------------------------------------------------------
(* Counting.                                                               *)

LEMMA TimesOne ==
  ASSUME NEW w \in Bits, NEW v
  PROVE  Times(v, <<w>>) = One(w = v)
<1>1. PICK f, g : f = << >> /\ g = <<w>>
  OBVIOUS
<1>2. /\ f \in Seq(Bits) /\ g \in Seq(Bits) /\ Len(f) = 0
      /\ Len(g) = 1 /\ g[1] = w
  BY <1>1
<1>3. DOMAIN g = {1}
  BY <1>2, LenProperties
<1>4. CASE w = v
  <2>1. {i \in DOMAIN g : g[i] = v} = {1}
    BY <1>2, <1>3, <1>4
  <2>2. Cardinality({1}) = 1
    BY FS_Singleton
  <2> QED BY <1>1, <1>4, <2>1, <2>2 DEF Times, One
<1>5. CASE w # v
  <2>1. {i \in DOMAIN g : g[i] = v} = {}
    BY <1>2, <1>3, <1>5
  <2>2. Cardinality({}) = 0
    BY FS_EmptySet
  <2> QED BY <1>1, <1>5, <2>1, <2>2 DEF Times, One
<1> QED BY <1>4, <1>5

LEMMA OneNat == ASSUME NEW b PROVE One(b) \in Nat /\ One(TRUE) = 1 /\ One(FALSE) = 0
BY DEF One

LEMMA ItemsAre ==
  ASSUME NEW s, P!Sound(s)
  PROVE  /\ Items(s) \in Seq(Bits) /\ Len(Items(s)) = s.size /\ s.size \in Nat
         /\ s.size <= s.capacity /\ s.capacity \in Capacities
         /\ s.capacity \in Nat \ {0} /\ s.head \in 0 .. s.capacity - 1
         /\ s.tail \in 0 .. s.capacity
<1>1. /\ P!Contents(s) \in Seq(Value \union {Gone}) /\ Len(P!Contents(s)) = s.size
      /\ s.size \in Nat /\ s.size <= s.capacity /\ s.capacity \in Capacities
  BY Assumptions, P!ContentsAreValues
<1>2. /\ s.capacity \in Nat \ {0} /\ s.head \in 0 .. s.capacity - 1
      /\ s.tail \in 0 .. s.capacity
  BY Assumptions, P!Bounds DEF P!Sound
<1> QED BY <1>1, <1>2 DEF Items, Bits

-----------------------------------------------------------------------------
(* What each edit makes, over raw cells.                                   *)

\* The sequence u is s with the value w put in at position p.
Puts(u, s, p, w) ==
  Kept(u) /\ Items(u) = P!Spliced(Items(s), p, <<w>>) /\ u.size = s.size + 1

\* The sequence u is s without the value at position p.
Takes(u, s, p) == Kept(u) /\ Items(u) = P!Dropped(Items(s), p) /\ u.size = s.size - 1

LEMMA Growing ==
  ASSUME Kept(seq), seq.size < MaxSize
  PROVE  /\ Kept(Grown) /\ Items(Grown) = Items(seq) /\ Grown.size = seq.size
         /\ Grown.size < Grown.capacity
         /\ Grown.tail = Grown.capacity => seq.tail = seq.capacity
         /\ S!Full(seq) \/ P!Clean(seq) => P!Clean(Grown)
<1>1. /\ seq.size \in Nat /\ seq.size <= seq.capacity
      /\ seq.capacity \in Capacities /\ seq.capacity \in Nat \ {0}
  BY ItemsAre DEF Kept
<1>2. CASE S!Full(seq)
  <2>1. seq.size = seq.capacity
    BY <1>2 DEF S!Full
  <2>2. PICK c \in Capacities : c = 2 * seq.capacity
    BY <1>1, <2>1, SizeAssumption
  <2>3. Grown = P!Reallocate(seq, c)
    BY <1>2, <2>2, SameFronts DEF Grown
  <2>4. seq.size <= c /\ seq.size < c /\ seq.size # c
    BY <1>1, <2>1, <2>2
  <2>5. /\ P!Sound(P!Reallocate(seq, c)) /\ P!Reallocate(seq, c).capacity = c
        /\ P!Reallocate(seq, c).size = seq.size /\ P!Reallocate(seq, c).tail = seq.size
    BY <2>4, Assumptions, P!ReallocateSound DEF Kept
  <2>6. P!Contents(P!Reallocate(seq, c)) = P!Contents(seq)
    BY <2>4, Assumptions, P!ReallocateShows DEF Kept
  <2>7. /\ P!Typed(P!Reallocate(seq, c))
        /\ P!Full(seq) => P!Clean(P!Reallocate(seq, c))
    BY <2>4, Assumptions, P!ReallocateCells DEF Kept
  <2> QED BY <1>2, <2>3, <2>4, <2>5, <2>6, <2>7, SameCells DEF Kept, Items
<1>3. CASE ~ S!Full(seq)
  <2>1. seq.size # seq.capacity
    BY <1>3 DEF S!Full
  <2>2. Grown = seq
    BY <1>3 DEF Grown
  <2> QED BY <1>1, <1>3, <2>1, <2>2
<1> QED BY <1>2, <1>3

LEMMA One1 == ASSUME NEW w \in Bits PROVE <<w>> \in Seq(Value \union {Gone}) /\ Len(<<w>>) = 1
BY DEF Bits

LEMMA PushMakes ==
  ASSUME NEW s, Kept(s), s.size < s.capacity, s.tail # s.capacity, NEW w \in Bits
  PROVE  /\ Puts(S!Pushed(s, <<w>>), s, s.size, w)
         /\ P!Clean(s) => P!Clean(S!Pushed(s, <<w>>))
<1>1. PICK vs : vs = <<w>>
  OBVIOUS
<1>2. vs \in Seq(Value \union {Gone}) /\ Len(vs) = 1
  BY <1>1, One1
<1>3. s.size + Len(vs) <= s.capacity
  BY <1>2, ItemsAre DEF Kept
<1>4. P!Sound(P!Pushed(s, vs))
  BY <1>2, <1>3, Assumptions, P!PushedSound DEF Kept
<1>5. P!Contents(P!Pushed(s, vs)) = P!Spliced(P!Contents(s), s.size, vs)
  BY <1>2, <1>3, Assumptions, P!PushedShows DEF Kept
<1>6. P!Typed(P!Pushed(s, vs)) /\ (P!Clean(s) => P!Clean(P!Pushed(s, vs)))
  BY <1>2, <1>3, Assumptions, P!PushedCells DEF Kept
<1>7. P!Pushed(s, vs).size = s.size + 1
  BY <1>2 DEF P!Pushed, Kept, P!Sound, P!Shaped, P!Fields
<1>8. S!Pushed(s, <<w>>) = P!Pushed(s, vs)
  BY <1>1, SameEdits
<1> QED BY <1>1, <1>4, <1>5, <1>6, <1>7, <1>8 DEF Puts, Kept, Items

LEMMA UnshiftMakes ==
  ASSUME NEW s, Kept(s), s.size < s.capacity, NEW w \in Bits
  PROVE  /\ Puts(S!Unshifted(s, <<w>>), s, 0, w)
         /\ P!Clean(s) => P!Clean(S!Unshifted(s, <<w>>))
<1>1. PICK vs : vs = <<w>>
  OBVIOUS
<1>2. vs \in Seq(Value \union {Gone}) /\ Len(vs) = 1
  BY <1>1, One1
<1>3. s.size + Len(vs) <= s.capacity
  BY <1>2, ItemsAre DEF Kept
<1>4. P!Sound(P!Unshifted(s, vs))
  BY <1>2, <1>3, Assumptions, P!UnshiftedSound DEF Kept
<1>5. P!Contents(P!Unshifted(s, vs)) = P!Spliced(P!Contents(s), 0, vs)
  BY <1>2, <1>3, Assumptions, P!UnshiftedShows DEF Kept
<1>6. P!Typed(P!Unshifted(s, vs)) /\ (P!Clean(s) => P!Clean(P!Unshifted(s, vs)))
  BY <1>2, <1>3, Assumptions, P!UnshiftedCells DEF Kept
<1>7. P!Unshifted(s, vs).size = s.size + 1
  BY <1>2 DEF P!Unshifted, Kept, P!Sound, P!Shaped, P!Fields
<1>8. S!Unshifted(s, <<w>>) = P!Unshifted(s, vs)
  BY <1>1, SameEdits
<1> QED BY <1>1, <1>4, <1>5, <1>6, <1>7, <1>8 DEF Puts, Kept, Items

LEMMA InsertMakes ==
  ASSUME NEW s, Kept(s), s.size < s.capacity, NEW p \in 1 .. s.size - 1, NEW w \in Bits
  PROVE  /\ Puts(S!Inserted(s, p, <<w>>), s, p, w)
         /\ (P!Clean(s) /\ ~ (S!Cell(s, p) <= s.tail /\ S!OverflowsRight(s, 1))) =>
              P!Clean(S!Inserted(s, p, <<w>>))
<1>1. PICK vs : vs = <<w>>
  OBVIOUS
<1>2. vs \in Seq(Value \union {Gone}) /\ Len(vs) = 1
  BY <1>1, One1
<1>3. s.size + Len(vs) <= s.capacity
  BY <1>2, ItemsAre DEF Kept
<1>4. P!Sound(P!Inserted(s, p, vs))
  BY <1>2, <1>3, Assumptions, P!InsertedSound DEF Kept
<1>5. P!Contents(P!Inserted(s, p, vs)) = P!Spliced(P!Contents(s), p, vs)
  BY <1>2, <1>3, Assumptions, P!InsertedShows DEF Kept
<1>6. /\ P!Typed(P!Inserted(s, p, vs))
      /\ (P!Clean(s) /\ ~ (P!Cell(s, p) <= s.tail /\ P!OverflowsRight(s, Len(vs)))) =>
           P!Clean(P!Inserted(s, p, vs))
  BY <1>2, <1>3, Assumptions, P!InsertedCells DEF Kept
<1>7. P!Inserted(s, p, vs).size = s.size + 1
  BY <1>2 DEF P!Inserted, P!OpenedRight, P!OpenedLeft, Kept, P!Sound, P!Shaped, P!Fields
<1>8. S!Inserted(s, p, <<w>>) = P!Inserted(s, p, vs)
  BY <1>1, SameEdits
<1>9. S!Cell(s, p) = P!Cell(s, p) /\ (S!OverflowsRight(s, 1) <=> P!OverflowsRight(s, Len(vs)))
  BY <1>2, SameCells
<1> QED BY <1>1, <1>4, <1>5, <1>6, <1>7, <1>8, <1>9 DEF Puts, Kept, Items

LEMMA Shrunk ==
  ASSUME NEW s, P!Sound(s), NEW u, P!Sound(u), NEW p \in 0 .. s.size - 1,
         P!Contents(u) = P!Dropped(P!Contents(s), p)
  PROVE  u.size = s.size - 1
<1>1. PICK f \in Seq(Bits), z \in Nat : f = Items(s) /\ z = s.size /\ Len(f) = z
  BY ItemsAre
<1>2. p \in Nat /\ p < z
  BY <1>1
<1>3. Len(P!Dropped(f, p)) = z - 1
  BY <1>1, <1>2, Dropping
<1>4. Len(Items(u)) = u.size
  BY ItemsAre
<1> QED BY <1>1, <1>3, <1>4 DEF Items

LEMMA ShiftMakes ==
  ASSUME NEW s, Kept(s), s.size > 0
  PROVE  /\ Takes(S!Shifted(s), s, 0)
         /\ (P!Clean(s) /\ ~ S!Truncates([s EXCEPT !.size = @ - 1])) => P!Clean(S!Shifted(s))
<1>1. P!Sound(P!Shifted(s))
  BY Assumptions, P!ShiftedSound DEF Kept
<1>2. P!Contents(P!Shifted(s)) = P!Dropped(P!Contents(s), 0)
  BY Assumptions, P!ShiftedShows DEF Kept
<1>3. /\ P!Typed(P!Shifted(s))
      /\ (P!Clean(s) /\ ~ P!Truncates([s EXCEPT !.size = @ - 1])) => P!Clean(P!Shifted(s))
  BY Assumptions, P!ShiftedCells DEF Kept
<1>4. 0 \in 0 .. s.size - 1
  BY ItemsAre DEF Kept
<1>5. P!Shifted(s).size = s.size - 1
  BY <1>1, <1>2, <1>4, Shrunk DEF Kept
<1>6. S!Shifted(s) = P!Shifted(s)
  BY SameEdits
<1> QED BY <1>1, <1>2, <1>3, <1>5, <1>6, SameCells DEF Takes, Kept, Items

LEMMA PopMakes ==
  ASSUME NEW s, Kept(s), s.size > 0
  PROVE  /\ Takes(S!Popped(s), s, s.size - 1)
         /\ (P!Clean(s) /\ ~ S!Truncates([s EXCEPT !.size = @ - 1])) => P!Clean(S!Popped(s))
<1>1. P!Sound(P!Popped(s))
  BY Assumptions, P!PoppedSound DEF Kept
<1>2. P!Contents(P!Popped(s)) = P!Dropped(P!Contents(s), s.size - 1)
  BY Assumptions, P!PoppedShows DEF Kept
<1>3. /\ P!Typed(P!Popped(s))
      /\ (P!Clean(s) /\ ~ P!Truncates([s EXCEPT !.size = @ - 1])) => P!Clean(P!Popped(s))
  BY Assumptions, P!PoppedCells DEF Kept
<1>4. s.size - 1 \in 0 .. s.size - 1
  BY ItemsAre DEF Kept
<1>5. P!Popped(s).size = s.size - 1
  BY <1>1, <1>2, <1>4, Shrunk DEF Kept
<1>6. S!Popped(s) = P!Popped(s)
  BY SameEdits
<1> QED BY <1>1, <1>2, <1>3, <1>5, <1>6, SameCells DEF Takes, Kept, Items

\* Closing a gap overwrites the cell it removes without reading it.
LEMMA CloseIgnores ==
  ASSUME NEW s, Kept(s), NEW p \in 1 .. s.size - 2, ~ P!Overreads(s, P!Cell(s, p))
  PROVE  P!Closed([s EXCEPT !.buffer[P!Cell(s, p)] = Hole], P!Cell(s, p)) =
           P!Closed(s, P!Cell(s, p))
<1>1. PICK c \in Nat \ {0}, h \in Nat, t \in Nat, z \in Nat :
        /\ P!Has(s, c, h, t, z) /\ c \in Capacities
        /\ P!Fits(c, h, t, z) /\ P!Fills(s.buffer, c, h, z)
  BY Assumptions, P!Parts DEF Kept
<1>2. p \in 1 .. z - 2 /\ p \in 0 .. z - 1 /\ h < c /\ t <= c /\ z <= c
      /\ (h + z = t \/ h + z = t + c)
  BY <1>1 DEF P!Has, P!Fits
<1>3. PICK i \in Nat : i = P!Cell(s, p) /\ i = IF h + p < c THEN h + p ELSE h + p - c
  BY <1>1, <1>2, Assumptions, P!CellPicked
<1>4. PICK b, g : b = s.buffer /\ g = [b EXCEPT ![i] = Hole]
  OBVIOUS
<1>5. DOMAIN b = 0 .. c - 1 /\ DOMAIN g = 0 .. c - 1
      /\ \A j \in 0 .. c - 1 : j # i => g[j] = b[j]
  BY <1>1, <1>4 DEF P!Fills
<1>6. PICK u : u = [s EXCEPT !.buffer[i] = Hole]
  OBVIOUS
<1>7. P!Has(u, c, h, t, z) /\ u.buffer = g /\ P!Has(s, c, h, t, z)
  BY <1>1, <1>4, <1>6 DEF P!Has, P!Fields
<1>8. CASE i < t
  <2>1. t < c
    <3>1. t # c
      BY <1>1, <1>3, <1>8 DEF P!Overreads, P!Has
    <3> QED BY <1>2, <3>1
  <2>2. \A j \in 0 .. c - 1 : /\ j \in i .. i + (t - i) - 1 =>
                                   i + 1 + j - i \in 0 .. c - 1 /\ i + 1 + j - i # i
                              /\ j \notin i .. i + (t - i) - 1 => j # i
    BY <1>8, <2>1
  <2>3. P!Move(g, i, i + 1, t - i) = P!Move(b, i, i + 1, t - i)
    BY <1>5, <2>2 DEF P!Move
  <2>4. [u EXCEPT !.buffer = P!Move(g, i, i + 1, t - i), !.tail = t - 1, !.size = z - 1] =
        [s EXCEPT !.buffer = P!Move(b, i, i + 1, t - i), !.tail = t - 1, !.size = z - 1]
    BY <1>7, <2>3 DEF P!Has, P!Fields
  <2>5. P!Closed(u, i) = P!AutoTruncate([u EXCEPT !.buffer = P!Move(g, i, i + 1, t - i),
                                                  !.tail = t - 1, !.size = z - 1])
    BY <1>7, <1>8 DEF P!Closed, P!Has
  <2>6. P!Closed(s, i) = P!AutoTruncate([s EXCEPT !.buffer = P!Move(b, i, i + 1, t - i),
                                                  !.tail = t - 1, !.size = z - 1])
    BY <1>4, <1>7, <1>8 DEF P!Closed, P!Has
  <2> QED BY <1>3, <1>6, <2>4, <2>5, <2>6
<1>9. CASE ~ (i < t)
  <2>1. i = h + p /\ h + p < c
    BY <1>2, <1>3, <1>9
  <2>2. \A j \in 0 .. c - 1 : /\ j \in h + 1 .. h + 1 + (i - h) - 1 =>
                                   h + j - (h + 1) \in 0 .. c - 1 /\ h + j - (h + 1) # i
                              /\ j \notin h + 1 .. h + 1 + (i - h) - 1 => j # i
    BY <1>2, <2>1
  <2>3. P!Move(g, h + 1, h, i - h) = P!Move(b, h + 1, h, i - h)
    BY <1>5, <2>2 DEF P!Move
  <2>4. [u EXCEPT !.buffer = P!Move(g, h + 1, h, i - h), !.head = h + 1, !.size = z - 1] =
        [s EXCEPT !.buffer = P!Move(b, h + 1, h, i - h), !.head = h + 1, !.size = z - 1]
    BY <1>7, <2>3 DEF P!Has, P!Fields
  <2>5. P!Closed(u, i) = P!AutoTruncate([u EXCEPT !.buffer = P!Move(g, h + 1, h, i - h),
                                                  !.head = h + 1, !.size = z - 1])
    BY <1>7, <1>9 DEF P!Closed, P!Has
  <2>6. P!Closed(s, i) = P!AutoTruncate([s EXCEPT !.buffer = P!Move(b, h + 1, h, i - h),
                                                  !.head = h + 1, !.size = z - 1])
    BY <1>4, <1>7, <1>9 DEF P!Closed, P!Has
  <2> QED BY <1>3, <1>6, <2>4, <2>5, <2>6
<1> QED BY <1>8, <1>9

LEMMA CloseMakes ==
  ASSUME NEW s, Kept(s), NEW p \in 1 .. s.size - 2, ~ S!Overreads(s, S!Cell(s, p))
  PROVE  LET u == S!Closed([s EXCEPT !.buffer[S!Cell(s, p)] = Hole], S!Cell(s, p)) IN
         /\ Takes(u, s, p)
         /\ (P!Clean(s) /\ S!Cell(s, p) < s.tail /\ ~ S!Full(s)
               /\ ~ S!Truncates([s EXCEPT !.size = @ - 1])) => P!Clean(u)
<1>1. ~ P!Overreads(s, P!Cell(s, p)) /\ S!Cell(s, p) = P!Cell(s, p)
  BY SameCells
<1>2. PICK u : u = P!Closed(s, P!Cell(s, p))
  OBVIOUS
<1>3. S!Closed([s EXCEPT !.buffer[S!Cell(s, p)] = Hole], S!Cell(s, p)) = u
  BY <1>1, <1>2, CloseIgnores, SameEdits
<1>4. P!Sound(u)
  BY <1>1, <1>2, Assumptions, P!ClosedSound DEF Kept
<1>5. P!Contents(u) = P!Dropped(P!Contents(s), p)
  BY <1>1, <1>2, Assumptions, P!ClosedShows DEF Kept
<1>6. /\ P!Typed(u)
      /\ (P!Clean(s) /\ P!Cell(s, p) < s.tail /\ ~ P!Full(s)
            /\ ~ P!Truncates([s EXCEPT !.size = @ - 1])) => P!Clean(u)
  BY <1>1, <1>2, Assumptions, P!ClosedCells DEF Kept
<1>7. p \in 0 .. s.size - 1
  BY ItemsAre DEF Kept
<1>8. u.size = s.size - 1
  BY <1>4, <1>5, <1>7, Shrunk DEF Kept
<1>9. Takes(u, s, p)
  BY <1>4, <1>5, <1>6, <1>8 DEF Takes, Kept, Items
<1> QED BY <1>3, <1>6, <1>9, SameCells

LEMMA ResetMakes ==
  ASSUME NEW s, Kept(s)
  PROVE  LET u == S!ResetHead(s) IN
         /\ Kept(u) /\ Items(u) = Items(s) /\ u.size = s.size
         /\ IF s.head = 0 THEN P!Clean(s) => P!Clean(u)
            ELSE (/\ s.head >= s.tail /\ ~ S!RoomBetween(s.head, s.tail, s.capacity - s.head)
                  /\ s.size > 0 \/ P!Clean(s)) => P!Clean(u)
<1>1. PICK u : u = P!ResetHead(s)
  OBVIOUS
<1>2. P!Sound(u) /\ u.size = s.size
  BY <1>1, Assumptions, P!ResetHeadSound DEF Kept
<1>3. P!Contents(u) = P!Contents(s)
  BY <1>1, Assumptions, P!ResetHeadShows DEF Kept
<1>4. /\ P!Typed(u)
      /\ IF s.head = 0 THEN P!Clean(s) => P!Clean(u)
         ELSE (/\ s.head >= s.tail /\ ~ P!RoomBetween(s.head, s.tail, s.capacity - s.head)
               /\ s.size > 0 \/ P!Clean(s)) => P!Clean(u)
  BY <1>1, Assumptions, P!ResetHeadCells DEF Kept
<1>5. S!ResetHead(s) = u
  BY <1>1, SameFronts
<1>6. S!RoomBetween(s.head, s.tail, s.capacity - s.head)
        <=> P!RoomBetween(s.head, s.tail, s.capacity - s.head)
  BY DEF S!RoomBetween, P!RoomBetween
<1> QED BY <1>2, <1>3, <1>4, <1>5, <1>6 DEF Kept, Items

\* A cell of the window is written.
LEMMA SetMakes ==
  ASSUME NEW s, Kept(s), NEW p \in 0 .. s.size - 1, NEW w \in Bits
  PROVE  LET u == [s EXCEPT !.buffer[S!Cell(s, p)] = w] IN
         /\ Kept(u) /\ u.size = s.size /\ u.head = s.head /\ u.tail = s.tail
         /\ u.capacity = s.capacity
         /\ Items(u) = [Items(s) EXCEPT ![p + 1] = w]
         /\ P!Clean(s) => P!Clean(u)
<1>1. PICK c \in Nat \ {0}, h \in Nat, t \in Nat, z \in Nat, f \in Seq(Value \union {Gone}) :
        /\ P!Has(s, c, h, t, z) /\ c \in Capacities
        /\ P!Fits(c, h, t, z) /\ DOMAIN s.buffer = 0 .. c - 1
        /\ f = P!Contents(s) /\ Len(f) = z /\ P!Shows(s.buffer, c, h, z, f)
  BY Assumptions, P!PartsShown DEF Kept
<1>2. p \in 0 .. z - 1 /\ h < c /\ z <= c /\ p + 1 \in 1 .. z
  BY <1>1 DEF P!Has, P!Fits
<1>3. PICK i \in Nat : i = P!Cell(s, p) /\ i = IF h + p < c THEN h + p ELSE h + p - c
  BY <1>1, <1>2, Assumptions, P!CellPicked
<1>4. /\ \A q \in 0 .. z - 1 : P!Spot(c, h, q) \in 0 .. c - 1
                               /\ P!Around(c, h, z, P!Spot(c, h, q))
      /\ \A q, r \in 0 .. z - 1 : P!Spot(c, h, q) = P!Spot(c, h, r) => q = r
  BY <1>2, Assumptions, P!SpotsDiffer
<1>5. i = P!Spot(c, h, p)
  BY <1>3 DEF P!Spot
<1>6. PICK u : u = [s EXCEPT !.buffer[i] = w]
  OBVIOUS
<1>7. P!Has(u, c, h, t, z) /\ u.buffer = [s.buffer EXCEPT ![i] = w]
  BY <1>1, <1>6 DEF P!Has, P!Fields
<1>8. i \in 0 .. c - 1 /\ P!Around(c, h, z, i)
  BY <1>2, <1>4, <1>5
<1>9. DOMAIN u.buffer = 0 .. c - 1 /\ u.buffer[i] = w
      /\ \A j \in 0 .. c - 1 : j # i => u.buffer[j] = s.buffer[j]
  BY <1>1, <1>7, <1>8
<1>10. PICK g : g = [f EXCEPT ![p + 1] = w]
  OBVIOUS
<1>11. g \in Seq(Value \union {Gone}) /\ Len(g) = z /\ g[p + 1] = w
       /\ \A q \in 0 .. z - 1 : q # p => g[q + 1] = f[q + 1]
  <2>1. w \in Value \union {Gone} /\ DOMAIN f = 1 .. z
    BY <1>1 DEF Bits
  <2> QED BY <1>1, <1>2, <1>10, <2>1
<1>12. P!Shows(u.buffer, c, h, z, g)
  <2>1. ASSUME NEW q \in 0 .. z - 1 PROVE u.buffer[P!Spot(c, h, q)] = g[q + 1]
    <3>1. CASE q = p
      BY <1>5, <1>9, <1>11, <3>1
    <3>2. CASE q # p
      <4>1. P!Spot(c, h, q) # i /\ P!Spot(c, h, q) \in 0 .. c - 1
        BY <1>2, <1>4, <1>5, <3>2
      <4>2. s.buffer[P!Spot(c, h, q)] = f[q + 1]
        BY <1>1 DEF P!Shows
      <4> QED BY <1>9, <1>11, <3>2, <4>1, <4>2
    <3> QED BY <3>1, <3>2
  <2> QED BY <2>1 DEF P!Shows
<1>13. P!Sound(u) /\ P!Contents(u) = g
  <2>1. P!Has(u, c, h, t, z) /\ P!Fits(c, h, t, z) /\ DOMAIN u.buffer = 0 .. c - 1
    BY <1>1, <1>7, <1>9
  <2>2. c \in Capacities /\ g \in Seq(Value \union {Gone}) /\ Len(g) = z
    BY <1>1, <1>11
  <2> QED BY ONLY c \in Nat \ {0}, h \in Nat, t \in Nat, z \in Nat, <2>1, <2>2, <1>12,
                  Assumptions, P!WholeShows
<1>14. P!Typed(u)
  BY <1>1, <1>7, <1>9 DEF Kept, P!Typed, P!Legible, P!Has, Bits
<1>15. P!Clean(s) => P!Clean(u)
  BY <1>1, <1>7, <1>8, <1>9 DEF P!Clean, P!Bare, P!Has
<1>16. S!Cell(s, p) = i
  BY <1>3, SameCells
<1> QED BY <1>1, <1>6, <1>7, <1>10, <1>13, <1>14, <1>15, <1>16 DEF Kept, Items, P!Has

-----------------------------------------------------------------------------
(* Each action keeps the invariant.                                        *)

LEMMA NextInv ==
  ASSUME Inv(seq', call', counted', lost', copies', fault')
  PROVE  IInv'
BY DEF IInv

LEMMA SameInv == ASSUME IInv, UNCHANGED vars PROVE IInv'
<1>1. /\ seq' = seq /\ call' = call /\ counted' = counted /\ lost' = lost
      /\ copies' = copies /\ fault' = fault
  BY DEF vars
<1> QED BY <1>1, NextInv DEF IInv

\* How often the values of a sequence occur is a number.
LEMMA TimesItems ==
  ASSUME NEW s, P!Sound(s), NEW v
  PROVE  Times(v, Items(s)) \in Nat
BY ItemsAre, TimesNat

LEMMA TimesBuilt ==
  ASSUME NEW f \in Seq(Value), NEW v
  PROVE  Times(v, f) \in Nat
BY TimesNat

LEMMA PutTimes ==
  ASSUME NEW s, P!Sound(s), NEW u, NEW p \in 0 .. s.size, NEW w \in Bits, Puts(u, s, p, w),
         NEW v
  PROVE  Times(v, Items(u)) = Times(v, Items(s)) + One(w = v)
<1>1. PICK f \in Seq(Bits), z \in Nat : f = Items(s) /\ z = s.size /\ Len(f) = z
  BY ItemsAre
<1>2. p \in 0 .. z
  BY <1>1
<1>3. Items(u) = P!Spliced(f, p, <<w>>)
  BY <1>1 DEF Puts
<1> QED BY <1>1, <1>2, <1>3, TimesSpliced

LEMMA TakeTimes ==
  ASSUME NEW s, P!Sound(s), NEW u, NEW p \in 0 .. s.size - 1, Takes(u, s, p), NEW v
  PROVE  Times(v, Items(s)) = Times(v, Items(u)) + One(Items(s)[p + 1] = v)
<1>1. PICK f \in Seq(Bits), z \in Nat : f = Items(s) /\ z = s.size /\ Len(f) = z
  BY ItemsAre
<1>2. p \in 0 .. z - 1
  BY <1>1
<1>3. Items(u) = P!Dropped(f, p)
  BY <1>1 DEF Takes
<1> QED BY <1>1, <1>2, <1>3, TimesDropped

LEMMA SameShape ==
  ASSUME NEW k, CallShape(k), k.op # "none", NEW c,
         c = [f \in CallFields |-> c[f]], c.op = k.op, c.phase = k.phase,
         c.built = k.built, c.at = k.at, c.size = k.size,
         c.freed \in BOOLEAN, c.edited \in BOOLEAN, c.edited => c.size > 0
  PROVE  CallShape(c)
<1>1. One(Holds(c)) = One(Holds(k))
  BY DEF Holds, One
<1>2. c.op # "none"
  OBVIOUS
<1> HIDE DEF One, Holds
<1>3. /\ c.op \in Methods \union {"none", "set"}
      /\ c.phase \in {"walk", "callback", "destructor"}
      /\ c.size \in 0 .. MaxSize /\ c.at \in 0 .. c.size
      /\ c.built \in Seq(Value)
      /\ c.phase = "callback" => c.op \in {"map", "filter", "apply"}
      /\ c.phase = "destructor" => c.op \in {"apply", "set", "clear"}
      /\ c.op = "set" => c.phase = "destructor"
      /\ c.phase # "walk" => c.at < c.size
      /\ c.op \notin {"map", "filter"} => Len(c.built) = One(Holds(k))
  BY DEF CallShape
<1> QED BY <1>1, <1>2, <1>3 DEF CallShape

\* Edits, outside of any method or in the midst of one.
LEMMA EditHolds ==
  ASSUME IInv, fault = "none", UserCode, NEW s, Kept(s), s.size <= MaxSize,
         NEW refs \in [Value -> Int], NEW leaves \in BOOLEAN, Edited(s, refs, leaves),
         leaves \/ P!Clean(s),
         \A v \in Value : refs[v] = counted[v] + Times(v, Items(s)) - Times(v, Items(seq)),
         Times(Gone, Items(s)) = Times(Gone, Items(seq))
  PROVE  IInv'
<1>1. /\ Kept(seq) /\ CallShape(call) /\ Counts(counted, lost)
      /\ Undisturbed(seq, call) /\ Emptied(seq, call) /\ Balance(seq, call, counted, lost)
  BY DEF IInv, Inv
<1>2. /\ seq' = s /\ counted' = refs /\ copies' = leaves /\ lost' = lost /\ fault' = "none"
      /\ call' = IF call.op = "none" THEN call
                 ELSE [call EXCEPT !.edited = TRUE,
                         !.freed = @ \/ s.capacity # seq.capacity \/ (s.size = seq.size /\ ResetsApart)]
  BY DEF Edited
<1>3. PICK c : c = call'
  OBVIOUS
<1>4. CallShape(c) /\ c.op = call.op /\ c.phase = call.phase /\ c.built = call.built
      /\ (c.op # "none" => c.edited)
  <2>1. CASE call.op = "none"
    BY <1>1, <1>2, <1>3, <2>1
  <2>2. CASE call.op # "none"
    <3>1. call.phase # "walk"
      BY <2>2 DEF UserCode
    <3>2. call.size > 0
      BY <1>1, <3>1, SizeAssumption DEF CallShape
    <3>3. PICK x \in BOOLEAN : c = [call EXCEPT !.edited = TRUE, !.freed = x]
      BY <1>1, <1>2, <1>3, <2>2 DEF CallShape
    <3>4. /\ c.op = call.op /\ c.phase = call.phase /\ c.built = call.built /\ c.at = call.at
          /\ c.size = call.size /\ c.edited = TRUE /\ c.freed = x
          /\ c = [f \in CallFields |-> c[f]]
      BY <1>1, <3>3 DEF CallShape, CallFields, NoCall
    <3>5. CallShape(c)
      BY <1>1, <2>2, <3>2, <3>4, SameShape DEF CallShape
    <3> QED BY <3>4, <3>5
  <2> QED BY <2>1, <2>2
<1>5. Balance(s, c, refs, lost)
  <2> SUFFICES ASSUME NEW v \in Value
               PROVE  refs[v] = Times(v, Items(s)) + Times(v, c.built) + lost[v]
    BY DEF Balance
  <2>1. Times(v, Items(s)) \in Nat /\ Times(v, Items(seq)) \in Nat
    BY <1>1, TimesItems DEF Kept
  <2>2. Times(v, c.built) \in Nat /\ lost[v] \in Int
    BY <1>1, <1>4, TimesBuilt, SizeAssumption DEF CallShape, Counts
  <2>3. counted[v] = Times(v, Items(seq)) + Times(v, c.built) + lost[v]
    BY <1>1, <1>4 DEF Balance
  <2>4. refs[v] = counted[v] + Times(v, Items(s)) - Times(v, Items(seq))
    OBVIOUS
  <2> QED BY <2>1, <2>2, <2>3, <2>4
<1>6. Counts(refs, lost)
  <2>1. ASSUME NEW v \in Value PROVE refs[v] \in Nat
    <3>1. Times(v, Items(s)) \in Nat
      BY <1>1, TimesItems DEF Kept
    <3>2. Times(v, c.built) \in Nat /\ lost[v] \in Nat
      BY <1>1, <1>4, TimesBuilt, SizeAssumption DEF CallShape, Counts
    <3> QED BY <1>5, <3>1, <3>2 DEF Balance
  <2> QED BY <1>1, <2>1 DEF Counts
<1>7. Undisturbed(s, c)
  BY <1>4 DEF Undisturbed
<1>8. Emptied(s, c)
  <2>1. c.op # "none" => c.edited
    BY <1>4
  <2>2. Holds(c) => c.op # "none"
    BY DEF Holds
  <2> QED BY <1>1, <1>4, <2>1, <2>2 DEF Emptied
<1> QED BY <1>2, <1>3, <1>4, <1>5, <1>6, <1>7, <1>8, NextInv DEF Inv

LEMMA FailsHolds ==
  ASSUME IInv, fault = "none", NEW kind \in Faults, Fails(kind),
         call.edited \/ seq.tail = seq.capacity
  PROVE  IInv'
<1>1. /\ seq' = seq /\ call' = call /\ counted' = counted /\ lost' = lost
      /\ copies' = copies /\ fault' = kind /\ kind # "none"
  BY DEF Fails, Faults
<1> QED BY <1>1, NextInv DEF IInv, Inv

LEMMA EditFailsHolds ==
  ASSUME IInv, fault = "none", UserCode, NEW kind \in Faults, EditFails(kind),
         call.op # "none" \/ seq.tail = seq.capacity
  PROVE  IInv'
<1>1. /\ seq' = seq /\ counted' = counted /\ lost' = lost
      /\ copies' = copies /\ fault' = kind /\ kind # "none"
      /\ call' = [call EXCEPT !.edited = call.op # "none"]
  BY DEF EditFails, Faults
<1>2. CallShape(call) /\ call.op \in Methods \union {"none", "set"}
  BY DEF IInv, Inv, CallShape
<1>3. PICK c : c = call'
  OBVIOUS
<1>4. CallShape(c) /\ (call.op # "none" => c.edited)
  <2>1. CASE call.op = "none"
    <3>1. c = call
      BY <1>1, <1>2, <1>3, <2>1 DEF CallShape, NoCall
    <3> QED BY <1>2, <2>1, <3>1
  <2>2. CASE call.op # "none"
    <3>1. call.phase # "walk"
      BY <2>2 DEF UserCode
    <3>2. call.size > 0
      BY <1>2, <3>1, SizeAssumption DEF CallShape
    <3>3. c = [call EXCEPT !.edited = TRUE]
      BY <1>1, <1>3, <2>2
    <3>4. /\ c.op = call.op /\ c.phase = call.phase /\ c.built = call.built /\ c.at = call.at
          /\ c.size = call.size /\ c.edited = TRUE /\ c.freed = call.freed
          /\ c = [f \in CallFields |-> c[f]]
      BY <1>2, <3>3 DEF CallShape, CallFields, NoCall
    <3>5. CallShape(c)
      BY <1>2, <2>2, <3>2, <3>4, SameShape DEF CallShape
    <3> QED BY <3>4, <3>5
  <2> QED BY <2>1, <2>2
<1> QED BY <1>1, <1>3, <1>4, NextInv DEF IInv, Inv

LEMMA InvParts ==
  ASSUME IInv, fault = "none"
  PROVE  /\ Kept(seq) /\ P!Sound(seq) /\ CallShape(call) /\ Counts(counted, lost)
         /\ Undisturbed(seq, call) /\ Emptied(seq, call)
         /\ Balance(seq, call, counted, lost)
         /\ copies \in BOOLEAN /\ (copies \/ P!Clean(seq))
         /\ seq.size \in Nat /\ seq.size <= MaxSize
         /\ seq.capacity \in Nat \ {0} /\ seq.tail \in Nat /\ seq.head \in Nat
         /\ Items(seq) \in Seq(Bits) /\ Len(Items(seq)) = seq.size
<1>1. P!Sound(seq)
  BY DEF IInv, Inv, Kept
<1> QED BY <1>1, ItemsAre DEF IInv, Inv

LEMMA PutHolds ==
  ASSUME IInv, fault = "none", UserCode, seq.size < MaxSize,
         NEW g, Kept(g), Items(g) = Items(seq), g.size = seq.size,
         NEW p \in 0 .. g.size, NEW v \in Value, NEW u, Puts(u, g, p, v),
         NEW leaves \in BOOLEAN, leaves \/ P!Clean(u), Edited(u, Counting(<<v>>), leaves)
  PROVE  IInv'
<1>1. v \in Bits /\ v # Gone
  BY GoneAssumption DEF Bits
<1>2. \A x : Times(x, Items(u)) = Times(x, Items(seq)) + One(v = x)
  BY <1>1, PutTimes DEF Kept
<1>3. \A x : Times(x, Items(seq)) \in Nat /\ One(v = x) \in Nat
  BY InvParts, TimesItems, OneNat
<1>4. \A x \in Value : Counting(<<v>>)[x] = counted[x] + One(v = x) /\ counted[x] \in Nat
  BY <1>1, InvParts, TimesOne DEF Counting, Counts
<1>5. Counting(<<v>>) \in [Value -> Int]
  <2>1. \A x \in Value : Counting(<<v>>)[x] \in Int
    BY <1>3, <1>4
  <2> QED BY <2>1 DEF Counting
<1>6. \A x \in Value : Counting(<<v>>)[x] = counted[x] + Times(x, Items(u)) - Times(x, Items(seq))
  BY <1>2, <1>3, <1>4
<1>7. Times(Gone, Items(u)) = Times(Gone, Items(seq))
  <2>1. One(v = Gone) = 0
    BY <1>1 DEF One
  <2> QED BY <1>2, <1>3, <2>1
<1>8. Kept(u) /\ u.size <= MaxSize
  BY InvParts, SizeAssumption DEF Puts
<1> QED BY <1>5, <1>6, <1>7, <1>8, EditHolds

LEMMA TakeHolds ==
  ASSUME IInv, fault = "none", UserCode, NEW p \in 0 .. seq.size - 1, NEW w \in Value,
         Items(seq)[p + 1] = w, NEW u, Takes(u, seq, p),
         NEW leaves \in BOOLEAN, leaves \/ P!Clean(u), Edited(u, Releasing(<<w>>), leaves)
  PROVE  IInv'
<1>1. w \in Bits /\ w # Gone
  BY GoneAssumption DEF Bits
<1>2. \A x : Times(x, Items(seq)) = Times(x, Items(u)) + One(w = x)
  BY InvParts, TakeTimes
<1>3. \A x : Times(x, Items(seq)) \in Nat /\ Times(x, Items(u)) \in Nat /\ One(w = x) \in Nat
  BY InvParts, TimesItems, OneNat DEF Takes, Kept
<1>4. \A x \in Value : Releasing(<<w>>)[x] = counted[x] - One(w = x) /\ counted[x] \in Nat
  BY <1>1, InvParts, TimesOne DEF Releasing, Counts
<1>5. Releasing(<<w>>) \in [Value -> Int]
  <2>1. ASSUME NEW x \in Value PROVE Releasing(<<w>>)[x] \in Int
    <3>1. PICK m \in Nat : m = One(w = x)
      BY <1>3
    <3> QED BY <1>4, <3>1
  <2> QED BY <2>1 DEF Releasing
<1>6. \A x \in Value : Releasing(<<w>>)[x] = counted[x] + Times(x, Items(u)) - Times(x, Items(seq))
  BY <1>2, <1>3, <1>4
<1>7. Times(Gone, Items(u)) = Times(Gone, Items(seq))
  <2>1. One(w = Gone) = 0
    BY <1>1 DEF One
  <2> QED BY <1>2, <1>3, <2>1
<1>8. Kept(u) /\ u.size <= MaxSize
  BY InvParts, SizeAssumption DEF Takes
<1> QED BY <1>5, <1>6, <1>7, <1>8, EditHolds

LEMMA PushHolds ==
  ASSUME IInv, fault = "none", NEW v \in Value, Push(v)
  PROVE  IInv'
<1>1. v \in Bits /\ UserCode /\ seq.size < MaxSize
  BY DEF Bits, Push
<1>2. /\ Kept(Grown) /\ Items(Grown) = Items(seq) /\ Grown.size = seq.size
      /\ Grown.size < Grown.capacity
      /\ Grown.tail = Grown.capacity => seq.tail = seq.capacity
      /\ S!Full(seq) \/ P!Clean(seq) => P!Clean(Grown)
  BY <1>1, InvParts, Growing
<1>3. PICK g : g = Grown
  OBVIOUS
<1>4. CASE g.tail = g.capacity
  <2>1. EditFails("overrun") /\ "overrun" \in Faults /\ seq.tail = seq.capacity
    BY <1>2, <1>3, <1>4 DEF Push, Faults
  <2> QED BY <1>1, <2>1, EditFailsHolds
<1>5. CASE g.tail # g.capacity
  <2>1. PICK u : u = S!Pushed(g, <<v>>)
    OBVIOUS
  <2>2. PICK leaves \in BOOLEAN :
          leaves = (copies /\ ~ S!Full(seq)) /\ Edited(u, Counting(<<v>>), leaves)
    BY <1>3, <1>5, <2>1, Zenon DEF Push
  <2>3. Puts(u, g, g.size, v) /\ (P!Clean(g) => P!Clean(u))
    BY <1>1, <1>2, <1>3, <1>5, <2>1, PushMakes
  <2>4. leaves \/ P!Clean(u)
    BY <1>2, <1>3, <2>2, <2>3, InvParts
  <2>5. g.size \in 0 .. g.size
    BY <1>2, <1>3, InvParts
  <2> QED BY <1>1, <1>2, <1>3, <2>2, <2>3, <2>4, <2>5, PutHolds
<1> QED BY <1>4, <1>5

LEMMA UnshiftHolds ==
  ASSUME IInv, fault = "none", NEW v \in Value, Unshift(v)
  PROVE  IInv'
<1>1. v \in Bits /\ UserCode /\ seq.size < MaxSize
  BY DEF Bits, Unshift
<1>2. /\ Kept(Grown) /\ Items(Grown) = Items(seq) /\ Grown.size = seq.size
      /\ Grown.size < Grown.capacity
      /\ S!Full(seq) \/ P!Clean(seq) => P!Clean(Grown)
  BY <1>1, InvParts, Growing
<1>3. PICK g : g = Grown
  OBVIOUS
<1>4. PICK u : u = S!Unshifted(g, <<v>>)
  OBVIOUS
<1>5. PICK leaves \in BOOLEAN :
        leaves = (copies /\ ~ S!Full(seq)) /\ Edited(u, Counting(<<v>>), leaves)
  BY <1>3, <1>4, Zenon DEF Unshift
<1>6. Puts(u, g, 0, v) /\ (P!Clean(g) => P!Clean(u))
  BY <1>1, <1>2, <1>3, <1>4, UnshiftMakes
<1>7. leaves \/ P!Clean(u)
  BY <1>2, <1>3, <1>5, <1>6, InvParts
<1>8. 0 \in 0 .. g.size
  BY <1>2, <1>3, InvParts
<1> QED BY <1>1, <1>2, <1>3, <1>5, <1>6, <1>7, <1>8, PutHolds

LEMMA InsertHolds ==
  ASSUME IInv, fault = "none", NEW p \in 1 .. seq.size - 1, NEW v \in Value, Insert(p, v)
  PROVE  IInv'
<1>1. v \in Bits /\ UserCode /\ seq.size < MaxSize
  BY DEF Bits, Insert
<1>2. /\ Kept(Grown) /\ Items(Grown) = Items(seq) /\ Grown.size = seq.size
      /\ Grown.size < Grown.capacity
      /\ S!Full(seq) \/ P!Clean(seq) => P!Clean(Grown)
  BY <1>1, InvParts, Growing
<1>3. PICK g : g = Grown
  OBVIOUS
<1>4. PICK u : u = S!Inserted(g, p, <<v>>)
  OBVIOUS
<1>5. PICK leaves \in BOOLEAN :
        /\ leaves = (\/ copies /\ ~ S!Full(seq)
                     \/ S!Cell(g, p) <= g.tail /\ S!OverflowsRight(g, 1))
        /\ Edited(u, Counting(<<v>>), leaves)
  BY <1>3, <1>4, Zenon DEF Insert
<1>6. p \in 1 .. g.size - 1 /\ p \in 0 .. g.size
  BY <1>2, <1>3, InvParts
<1>7. /\ Puts(u, g, p, v)
      /\ (P!Clean(g) /\ ~ (S!Cell(g, p) <= g.tail /\ S!OverflowsRight(g, 1))) => P!Clean(u)
  BY <1>1, <1>2, <1>3, <1>4, <1>6, InsertMakes
<1>8. leaves \/ P!Clean(u)
  BY <1>2, <1>3, <1>5, <1>7, InvParts
<1> QED BY <1>1, <1>2, <1>3, <1>5, <1>6, <1>7, <1>8, PutHolds

\* The values of a sequence and its cells.
LEMMA ItemAt ==
  ASSUME NEW s, P!Sound(s), NEW p \in 0 .. s.size - 1
  PROVE  /\ Items(s)[p + 1] = s.buffer[S!Cell(s, p)] /\ Items(s)[p + 1] \in Bits
         /\ p + 1 \in DOMAIN Items(s)
         /\ S!Cell(s, p) \in 0 .. s.capacity - 1 /\ S!Cell(s, p) \in S!Window(s)
<1>1. /\ Items(s) \in Seq(Bits) /\ Len(Items(s)) = s.size /\ s.size \in Nat
  BY ItemsAre
<1>2. p + 1 \in 1 .. s.size /\ (p + 1) - 1 = p
  BY <1>1
<1>3. Items(s)[p + 1] = s.buffer[P!Cell(s, p)]
  BY <1>2 DEF Items, P!Contents
<1>4. Items(s)[p + 1] \in Bits /\ p + 1 \in DOMAIN Items(s)
  BY <1>1, <1>2, LenProperties, ElementOfSeq
<1>5. P!Cell(s, p) \in P!Cells(s)
  BY Assumptions, P!CellOfPosition DEF P!Sound
<1>6. P!Cell(s, p) \in P!Window(s)
  BY DEF P!Window
<1> QED BY <1>3, <1>4, <1>5, <1>6, SameCells DEF P!Cells

LEMMA CellsDiffer ==
  ASSUME NEW s, P!Sound(s), NEW p \in 0 .. s.size - 1, NEW q \in 0 .. s.size - 1,
         S!Cell(s, p) = S!Cell(s, q)
  PROVE  p = q
<1>1. (P!Cell(s, p) - s.head) % s.capacity = p
  BY Assumptions, P!CellOfPosition DEF P!Sound
<1>2. (P!Cell(s, q) - s.head) % s.capacity = q
  BY Assumptions, P!CellOfPosition DEF P!Sound
<1> QED BY <1>1, <1>2, SameCells

\* A value that occurs in a sequence.
LEMMA Occurs ==
  ASSUME NEW s, P!Sound(s), NEW p \in 0 .. s.size - 1
  PROVE  Times(Items(s)[p + 1], Items(s)) # 0
<1>1. p + 1 \in DOMAIN Items(s)
  BY ItemAt
<1>2. Items(s) \in Seq(Bits)
  BY ItemsAre
<1> QED BY <1>1, <1>2, TimesNat

LEMMA RemoveHolds ==
  ASSUME IInv, fault = "none", NEW p \in 0 .. seq.size - 1, Remove(p)
  PROVE  IInv'
<1>1. PICK i : i = S!Cell(seq, p)
  OBVIOUS
<1>2. /\ Items(seq)[p + 1] = seq.buffer[i] /\ Items(seq)[p + 1] \in Bits
      /\ i \in 0 .. seq.capacity - 1
  BY <1>1, InvParts, ItemAt
<1>3. PICK w : w = seq.buffer[i]
  OBVIOUS
<1>4. UserCode
  BY DEF Remove
<1>5. CASE w = Gone
  <2>1. EditFails("twice") /\ "twice" \in Faults
    BY <1>1, <1>3, <1>5 DEF Remove, Faults
  <2>2. call.op # "none"
    <3>1. Times(Gone, Items(seq)) # 0
      BY <1>2, <1>3, <1>5, InvParts, Occurs
    <3>2. ASSUME call.op = "none" PROVE FALSE
      <4>1. call.phase = "walk"
        BY <3>2, InvParts DEF CallShape, NoCall
      <4>2. Times(Gone, Items(seq)) = One(call.phase = "destructor")
        BY <3>2, InvParts DEF Emptied
      <4> QED BY <3>1, <4>1, <4>2 DEF One
    <3> QED BY <3>2
  <2> QED BY <1>4, <2>1, <2>2, EditFailsHolds
<1>6. CASE w # Gone /\ p \notin {0, seq.size - 1} /\ S!Overreads(seq, i)
  <2>1. EditFails("overrun") /\ "overrun" \in Faults
    BY <1>1, <1>3, <1>6 DEF Remove, Faults
  <2>2. seq.tail = seq.capacity
    BY <1>6 DEF S!Overreads
  <2> QED BY <1>4, <2>1, <2>2, EditFailsHolds
<1>7. CASE w # Gone /\ ~ (p \notin {0, seq.size - 1} /\ S!Overreads(seq, i))
  <2>1. PICK u : u = IF p = 0 THEN S!Shifted(seq)
                     ELSE IF p \notin {0, seq.size - 1}
                     THEN S!Closed([seq EXCEPT !.buffer[i] = Hole], i)
                     ELSE S!Popped(seq)
    OBVIOUS
  <2>2. PICK leaves \in BOOLEAN :
          leaves = (copies \/ RemovalLeaves(i)) /\ Edited(u, Releasing(<<w>>), leaves)
    BY <1>1, <1>3, <1>7, <2>1, Zenon DEF Remove
  <2>3. w \in Value /\ Items(seq)[p + 1] = w
    BY <1>2, <1>3, <1>7 DEF Bits
  <2>4. /\ RemovalLeaves(i) \/ ~ S!Truncates([seq EXCEPT !.size = @ - 1])
        /\ RemovalLeaves(i) \/ i \in {S!Cell(seq, 0), S!Cell(seq, seq.size - 1)}
                            \/ ~ (i >= seq.tail \/ S!Full(seq))
    BY DEF RemovalLeaves
  <2>5. CASE p = 0
    <3>1. seq.size > 0 /\ u = S!Shifted(seq)
      BY <2>1, <2>5, InvParts
    <3>2. /\ Takes(u, seq, p)
          /\ (P!Clean(seq) /\ ~ S!Truncates([seq EXCEPT !.size = @ - 1])) => P!Clean(u)
      BY <2>5, <3>1, InvParts, ShiftMakes
    <3>3. leaves \/ P!Clean(u)
      BY <2>2, <2>4, <3>2, InvParts
    <3> QED BY <1>4, <2>2, <2>3, <3>2, <3>3, TakeHolds
  <2>6. CASE p # 0 /\ p = seq.size - 1
    <3>1. seq.size > 0 /\ u = S!Popped(seq)
      BY <2>1, <2>6, InvParts
    <3>2. /\ Takes(u, seq, p)
          /\ (P!Clean(seq) /\ ~ S!Truncates([seq EXCEPT !.size = @ - 1])) => P!Clean(u)
      BY <2>6, <3>1, InvParts, PopMakes
    <3>3. leaves \/ P!Clean(u)
      BY <2>2, <2>4, <3>2, InvParts
    <3> QED BY <1>4, <2>2, <2>3, <3>2, <3>3, TakeHolds
  <2>7. CASE p \notin {0, seq.size - 1}
    <3>1. p \in 1 .. seq.size - 2 /\ ~ S!Overreads(seq, S!Cell(seq, p))
      BY <1>1, <1>7, <2>7, InvParts
    <3>2. u = S!Closed([seq EXCEPT !.buffer[S!Cell(seq, p)] = Hole], S!Cell(seq, p))
      BY <1>1, <2>1, <2>7
    <3>3. /\ Takes(u, seq, p)
          /\ (P!Clean(seq) /\ S!Cell(seq, p) < seq.tail /\ ~ S!Full(seq)
                /\ ~ S!Truncates([seq EXCEPT !.size = @ - 1])) => P!Clean(u)
      BY <3>1, <3>2, InvParts, CloseMakes
    <3>4. i \notin {S!Cell(seq, 0), S!Cell(seq, seq.size - 1)}
      <4>1. 0 \in 0 .. seq.size - 1 /\ seq.size - 1 \in 0 .. seq.size - 1
        BY InvParts
      <4> QED BY <1>1, <2>7, <4>1, InvParts, CellsDiffer
    <3>5. ~ RemovalLeaves(i) => S!Cell(seq, p) < seq.tail /\ ~ S!Full(seq)
      BY <1>1, <1>2, <2>4, <3>4, InvParts
    <3>6. leaves \/ P!Clean(u)
      BY <2>2, <2>4, <3>3, <3>5, InvParts
    <3> QED BY <1>4, <2>2, <2>3, <3>3, <3>6, TakeHolds
  <2> QED BY <2>5, <2>6, <2>7
<1> QED BY <1>5, <1>6, <1>7

LEMMA ResetHeadHolds ==
  ASSUME IInv, fault = "none", ResetHead
  PROVE  IInv'
<1>1. PICK u : u = S!ResetHead(seq)
  OBVIOUS
<1>2. PICK leaves \in BOOLEAN :
        /\ leaves = (ResetsInPlace(seq) \/ (copies /\ (seq.size = 0 \/ ~ ResetsApart)))
        /\ Edited(u, counted, leaves)
  BY <1>1, Zenon DEF ResetHead
<1>3. /\ Kept(u) /\ Items(u) = Items(seq) /\ u.size = seq.size
      /\ IF seq.head = 0 THEN P!Clean(seq) => P!Clean(u)
         ELSE (/\ seq.head >= seq.tail
               /\ ~ S!RoomBetween(seq.head, seq.tail, seq.capacity - seq.head)
               /\ seq.size > 0 \/ P!Clean(seq)) => P!Clean(u)
  BY <1>1, InvParts, ResetMakes
<1>4. leaves \/ P!Clean(u)
  <2> SUFFICES ASSUME ~ leaves PROVE P!Clean(u)
    OBVIOUS
  <2>1. ~ ResetsInPlace(seq) /\ (~ copies \/ (seq.size # 0 /\ ResetsApart))
    BY <1>2
  <2>2. CASE seq.head = 0
    BY <1>3, <2>1, <2>2, InvParts DEF ResetsApart
  <2>3. CASE seq.head # 0
    <3>1. seq.head >= seq.tail /\ ~ S!RoomBetween(seq.head, seq.tail, seq.capacity - seq.head)
      BY <2>1, <2>3, InvParts DEF ResetsInPlace
    <3>2. seq.size > 0 \/ P!Clean(seq)
      BY <2>1, InvParts
    <3> QED BY <1>3, <2>3, <3>1, <3>2
  <2> QED BY <2>2, <2>3
<1>5. counted \in [Value -> Int]
  BY InvParts DEF Counts
<1>6. \A v \in Value : counted[v] = counted[v] + Times(v, Items(u)) - Times(v, Items(seq))
  BY <1>3, <1>5, InvParts, TimesItems
<1>7. u.size <= MaxSize /\ UserCode
  BY <1>3, InvParts DEF ResetHead
<1> QED BY <1>2, <1>3, <1>4, <1>5, <1>6, <1>7, EditHolds

-----------------------------------------------------------------------------
(* The methods.                                                            *)

LEMMA StepHolds ==
  ASSUME IInv, fault = "none", fault' = "none",
         NEW s, seq' = s, Kept(s), s.size <= MaxSize,
         NEW k \in BOOLEAN, copies' = k, k \/ P!Clean(s),
         NEW c, call' = c, CallShape(c), Undisturbed(s, c), Emptied(s, c),
         NEW n \in [Value -> Int], counted' = n,
         NEW l \in [Value -> 0 .. MaxLost], lost' = l,
         Balance(s, c, n, l)
  PROVE  IInv'
<1>1. ASSUME NEW v \in Value PROVE n[v] \in Nat
  <2>1. Times(v, Items(s)) \in Nat /\ Times(v, c.built) \in Nat
    BY TimesItems, TimesBuilt DEF Kept, CallShape
  <2>2. l[v] \in Nat
    BY SizeAssumption
  <2>3. n[v] = Times(v, Items(s)) + Times(v, c.built) + l[v]
    BY DEF Balance
  <2> QED BY <2>1, <2>2, <2>3
<1>2. Counts(n, l)
  BY <1>1 DEF Counts
<1> QED BY <1>2, NextInv DEF Inv

\* A step of a method that leaves the sequence alone.
LEMMA LeavesHolds ==
  ASSUME IInv, fault = "none", UNCHANGED <<seq, copies, fault>>,
         NEW c, call' = c, CallShape(c), Undisturbed(seq, c), Emptied(seq, c),
         NEW n \in [Value -> Int], counted' = n,
         NEW l \in [Value -> 0 .. MaxLost], lost' = l,
         Balance(seq, c, n, l)
  PROVE  IInv'
BY InvParts, StepHolds

LEMMA NoCallFits ==
  /\ CallShape(NoCall) /\ NoCall.built = << >> /\ NoCall.op = "none"
  /\ NoCall.phase = "walk" /\ NoCall.edited = FALSE
  /\ \A s : Undisturbed(s, NoCall)
<1>1. NoCall.built = << >> /\ << >> \in Seq(Value) /\ Len(<< >>) = 0
  BY DEF NoCall
<1>2. /\ NoCall.op = "none" /\ NoCall.phase = "walk" /\ NoCall.at = 0 /\ NoCall.size = 0
      /\ NoCall.freed = FALSE /\ NoCall.edited = FALSE
      /\ NoCall = [f \in CallFields |-> NoCall[f]]
  BY DEF NoCall, CallFields
<1>3. One(Holds(NoCall)) = 0
  BY <1>2 DEF Holds, One
<1>4. 0 \in 0 .. MaxSize /\ 0 \in 0 .. 0
  BY SizeAssumption
<1>5. CallShape(NoCall)
  BY <1>1, <1>2, <1>3, <1>4 DEF CallShape
<1> QED BY <1>1, <1>2, <1>5 DEF Undisturbed

\* The method ends, and no released value is left.
LEMMA FinishHolds ==
  ASSUME IInv, fault = "none", UNCHANGED <<seq, copies, fault>>, Finish,
         Times(Gone, Items(seq)) = 0,
         NEW n \in [Value -> Int], counted' = n,
         NEW l \in [Value -> 0 .. MaxLost], lost' = l,
         \A v \in Value : n[v] = Times(v, Items(seq)) + l[v]
  PROVE  IInv'
<1>1. Emptied(seq, NoCall)
  BY NoCallFits DEF Emptied, Holds, One
<1>2. Balance(seq, NoCall, n, l)
  <2> SUFFICES ASSUME NEW v \in Value
               PROVE  n[v] = Times(v, Items(seq)) + Times(v, NoCall.built) + l[v]
    BY DEF Balance
  <2>1. Times(v, NoCall.built) = 0
    BY NoCallFits, TimesEmpty
  <2>2. Times(v, Items(seq)) \in Nat
    BY InvParts, TimesItems
  <2>3. n[v] = Times(v, Items(seq)) + l[v]
    OBVIOUS
  <2> QED BY <2>1, <2>2, <2>3
<1> QED BY <1>1, <1>2, NoCallFits, LeavesHolds DEF Finish

\* No method is under way, and no value of the sequence is released.
LEMMA NoneUnderWay ==
  ASSUME IInv, fault = "none", call.op = "none"
  PROVE  /\ call = NoCall /\ Times(Gone, Items(seq)) = 0
         /\ \A p \in 0 .. seq.size - 1 : Items(seq)[p + 1] \in Value
         /\ \A v \in Value : counted[v] = Times(v, Items(seq)) + lost[v]
<1>1. call = NoCall
  BY InvParts DEF CallShape
<1>2. Times(Gone, Items(seq)) = 0
  BY <1>1, InvParts, NoCallFits DEF Emptied, One
<1>3. ASSUME NEW p \in 0 .. seq.size - 1 PROVE Items(seq)[p + 1] \in Value
  BY <1>2, InvParts, ItemAt, Occurs DEF Bits
<1>4. ASSUME NEW v \in Value PROVE counted[v] = Times(v, Items(seq)) + lost[v]
  <2>1. counted[v] = Times(v, Items(seq)) + Times(v, call.built) + lost[v]
    BY InvParts DEF Balance
  <2>2. Times(v, call.built) = 0
    BY <1>1, NoCallFits, TimesEmpty
  <2>3. Times(v, Items(seq)) \in Nat
    BY InvParts, TimesItems
  <2> QED BY <2>1, <2>2, <2>3
<1> QED BY <1>1, <1>2, <1>3, <1>4

LEMMA WalkShape ==
  ASSUME seq.size \in 0 .. MaxSize, NEW op
  PROVE  /\ Walk(op).op = op /\ Walk(op).phase = "walk" /\ Walk(op).at = 0
         /\ Walk(op).head = seq.head /\ Walk(op).size = seq.size
         /\ Walk(op).capacity = seq.capacity /\ Walk(op).built = << >>
         /\ Walk(op).freed = FALSE /\ Walk(op).edited = FALSE
         /\ Walk(op) = [f \in CallFields |-> Walk(op)[f]]
BY DEF Walk, NoCall, CallFields

LEMMA BeginHolds ==
  ASSUME IInv, fault = "none", NEW op \in Methods, Begin(op)
  PROVE  IInv'
<1>1. PICK c : c = Walk(op)
  OBVIOUS
<1>2. seq.size \in 0 .. MaxSize /\ call.op = "none"
  BY InvParts, SizeAssumption DEF Begin
<1>3. /\ c.op = op /\ c.phase = "walk" /\ c.at = 0 /\ c.head = seq.head /\ c.size = seq.size
      /\ c.capacity = seq.capacity /\ c.built = << >> /\ c.freed = FALSE /\ c.edited = FALSE
      /\ c = [f \in CallFields |-> c[f]]
  BY <1>1, <1>2, WalkShape
<1>4. op \in {"map", "filter", "apply", "clear"}
  BY DEF Methods
<1>5. CallShape(c)
  <2>1. One(Holds(c)) = 0
    BY <1>3 DEF Holds, One
  <2>2. << >> \in Seq(Value) /\ Len(<< >>) = 0 /\ 0 \in 0 .. seq.size
    BY <1>2, InvParts
  <2> QED BY <1>2, <1>3, <1>4, <2>1, <2>2 DEF CallShape
<1>6. Undisturbed(seq, c)
  BY <1>3 DEF Undisturbed
<1>7. Emptied(seq, c)
  <2>1. One(c.phase = "destructor") = 0 /\ ~ Holds(c)
    BY <1>3 DEF One, Holds
  <2>2. ASSUME NEW p \in 0 .. seq.size - 1
        PROVE  Items(seq)[p + 1] # Gone /\ ~ (p < c.at \/ (p = c.at /\ c.phase = "destructor"))
    BY <1>2, <1>3, NoneUnderWay, GoneAssumption, InvParts
  <2> QED BY <1>2, <2>1, <2>2, NoneUnderWay DEF Emptied
<1>8. Balance(seq, c, counted, lost)
  <2> SUFFICES ASSUME NEW v \in Value
               PROVE  counted[v] = Times(v, Items(seq)) + Times(v, c.built) + lost[v]
    BY DEF Balance
  <2>1. Times(v, c.built) = 0 /\ Times(v, Items(seq)) \in Nat
    BY <1>3, TimesEmpty, InvParts, TimesItems
  <2>2. counted[v] = Times(v, Items(seq)) + lost[v]
    BY <1>2, NoneUnderWay
  <2> QED BY <2>1, <2>2
<1>9. counted \in [Value -> Int] /\ lost \in [Value -> 0 .. MaxLost]
  BY InvParts DEF Counts
<1> QED BY <1>1, <1>5, <1>6, <1>7, <1>8, <1>9, LeavesHolds DEF Begin

\* The walk over a sequence that user code has not edited is at a cell of it.
LEMMA CurrentCell ==
  ASSUME IInv, fault = "none", call.op # "none", ~ call.edited, call.at < call.size
  PROVE  /\ call.at \in 0 .. seq.size - 1 /\ Current = S!Cell(seq, call.at)
         /\ Current < seq.capacity /\ Current \in S!Window(seq)
         /\ seq.buffer[Current] = Items(seq)[call.at + 1]
         /\ Items(seq)[call.at + 1] \in Bits /\ ~ call.freed
<1>1. call.head = seq.head /\ call.size = seq.size /\ call.capacity = seq.capacity /\ ~ call.freed
  BY InvParts DEF Undisturbed
<1>2. call.at \in 0 .. seq.size - 1
  BY <1>1, InvParts DEF CallShape
<1>3. Current = S!Cell(seq, call.at)
  BY <1>1 DEF Current, S!Cell
<1>4. Current \in 0 .. seq.capacity - 1
  BY <1>2, <1>3, InvParts, ItemAt
<1> QED BY <1>1, <1>2, <1>3, <1>4, InvParts, ItemAt

\* Before the value at hand is released, all are live.
LEMMA AllLive ==
  ASSUME IInv, fault = "none", call.op # "clear", call.phase # "destructor"
  PROVE  /\ Times(Gone, Items(seq)) = 0
         /\ \A p \in 0 .. seq.size - 1 : Items(seq)[p + 1] \in Value
<1>1. Times(Gone, Items(seq)) = 0
  BY InvParts DEF Emptied, One
<1>2. ASSUME NEW p \in 0 .. seq.size - 1 PROVE Items(seq)[p + 1] \in Value
  BY <1>1, InvParts, ItemAt, Occurs DEF Bits
<1> QED BY <1>1, <1>2

LEMMA CallBackHolds ==
  ASSUME IInv, fault = "none", CallBack
  PROVE  IInv'
<1>1. call.op \in {"map", "filter", "apply"} /\ call.phase = "walk" /\ call.at < call.size
  BY DEF CallBack
<1>2. ~ call.edited => Current < seq.capacity /\ Live(Current)
  <2> SUFFICES ASSUME ~ call.edited PROVE Current < seq.capacity /\ Live(Current)
    OBVIOUS
  <2>1. call.op # "none" /\ call.op # "clear" /\ call.phase # "destructor"
    BY <1>1
  <2> QED BY <1>1, <2>1, CurrentCell, AllLive DEF Live
<1>3. CASE Current >= seq.capacity
  <2>1. call.edited
    <3>1. ASSUME ~ call.edited PROVE FALSE
      <4>1. Current \in 0 .. seq.capacity - 1
        BY <1>1, <3>1, CurrentCell, InvParts, ItemAt
      <4> QED BY <1>3, <4>1, InvParts
    <3> QED BY <3>1
  <2>2. Fails("overrun") /\ "overrun" \in Faults
    BY <1>3 DEF CallBack, Faults
  <2> QED BY <2>1, <2>2, FailsHolds
<1>4. CASE ~ (Current >= seq.capacity) /\ ~ Live(Current)
  <2>1. Fails("astray") /\ "astray" \in Faults
    BY <1>4 DEF CallBack, Faults
  <2> QED BY <1>2, <1>4, <2>1, FailsHolds
<1>5. CASE ~ (Current >= seq.capacity) /\ Live(Current)
  <2>1. PICK c : c = [call EXCEPT !.phase = "callback", !.freed = FALSE]
    OBVIOUS
  <2>2. call' = c /\ UNCHANGED <<seq, counted, lost, copies, fault>>
    BY <1>5, <2>1 DEF CallBack
  <2>3. CallShape(call)
    BY InvParts
  <2>4. /\ c.op = call.op /\ c.phase = "callback" /\ c.at = call.at /\ c.head = call.head
        /\ c.size = call.size /\ c.capacity = call.capacity /\ c.built = call.built
        /\ c.freed = FALSE /\ c.edited = call.edited
        /\ c = [f \in CallFields |-> c[f]]
    BY <2>1, <2>3 DEF CallShape, CallFields, NoCall
  <2>5. One(Holds(c)) = 0 /\ One(Holds(call)) = 0 /\ ~ Holds(c)
    BY <1>1, <2>4 DEF Holds, One
  <2>6. CallShape(c)
    BY <1>1, <2>3, <2>4, <2>5 DEF CallShape
  <2>7. Undisturbed(seq, c)
    BY <2>4, InvParts DEF Undisturbed
  <2>8. Emptied(seq, c)
    <3>1. Times(Gone, Items(seq)) = 0 /\ One(c.phase = "destructor") = 0
      BY <1>1, <2>4, AllLive DEF One
    <3> QED BY <1>1, <2>4, <2>5, <3>1 DEF Emptied
  <2>9. Balance(seq, c, counted, lost)
    BY <2>4, InvParts DEF Balance
  <2>10. counted \in [Value -> Int] /\ lost \in [Value -> 0 .. MaxLost]
    BY InvParts DEF Counts
  <2> QED BY <2>2, <2>6, <2>7, <2>8, <2>9, <2>10, LeavesHolds
<1> QED BY <1>3, <1>4, <1>5

\* A value put after others is there once more.
LEMMA TimesAppended ==
  ASSUME NEW f \in Seq(Value), NEW w \in Value, NEW v
  PROVE  /\ f \o <<w>> \in Seq(Value)
         /\ Times(v, f \o <<w>>) = Times(v, f) + One(w = v)
<1>1. PICK z \in Nat : z = Len(f)
  OBVIOUS
<1>2. PICK vs : vs = <<w>>
  OBVIOUS
<1>3. vs \in Seq(Value) /\ f \o vs \in Seq(Value)
  BY <1>2
<1>4. SubSeq(f, 1, z) = f /\ SubSeq(f, z + 1, z) = << >>
  BY <1>1
<1>5. P!Spliced(f, z, vs) = f \o vs
  <2>1. P!Spliced(f, z, vs) = SubSeq(f, 1, z) \o vs \o SubSeq(f, z + 1, z)
    BY <1>1 DEF P!Spliced
  <2>2. (f \o vs) \o << >> = f \o vs
    BY <1>3
  <2> QED BY <1>4, <2>1, <2>2
<1>6. f \in Seq(Bits) /\ w \in Bits /\ z \in 0 .. z
  BY DEF Bits
<1>7. Times(v, P!Spliced(f, z, <<w>>)) = Times(v, f) + One(w = v)
  BY <1>1, <1>6, TimesSpliced
<1> QED BY <1>2, <1>3, <1>5, <1>7

LEMMA TimesOneBuilt ==
  ASSUME NEW w \in Value, NEW v
  PROVE  Times(v, <<w>>) = One(w = v) /\ One(w = v) \in Nat
BY TimesOne, OneNat DEF Bits

\* One more value, or none, goes to the new buffer.
LEMMA BuiltHolds ==
  ASSUME IInv, fault = "none", Calling("map") \/ Calling("filter"),
         NEW vs, vs = << >> \/ \E w \in Value : vs = <<w>>, Built(vs)
  PROVE  IInv'
<1>1. call.op \in {"map", "filter"} /\ call.phase = "callback" /\ CallShape(call)
  BY InvParts DEF Calling
<1>2. PICK c : c = [call EXCEPT !.phase = "walk", !.at = @ + 1, !.built = @ \o vs]
  OBVIOUS
<1>3. call' = c /\ counted' = Counting(vs) /\ UNCHANGED <<seq, lost, copies, fault>>
  BY <1>2 DEF Built
<1>4. /\ c.op = call.op /\ c.phase = "walk" /\ c.at = call.at + 1 /\ c.head = call.head
      /\ c.size = call.size /\ c.capacity = call.capacity /\ c.built = call.built \o vs
      /\ c.freed = call.freed /\ c.edited = call.edited
      /\ c = [f \in CallFields |-> c[f]]
  BY <1>1, <1>2 DEF CallShape, CallFields, NoCall
<1>5. call.built \in Seq(Value) /\ call.at < call.size
  BY <1>1 DEF CallShape
<1>6. /\ c.built \in Seq(Value)
      /\ \A v : Times(v, c.built) = Times(v, call.built) + Times(v, vs) /\ Times(v, vs) \in Nat
  <2>1. CASE vs = << >>
    <3>1. c.built = call.built
      BY <1>4, <1>5, <2>1
    <3>2. \A v : Times(v, vs) = 0 /\ Times(v, call.built) \in Nat
      BY <1>5, <2>1, TimesEmpty, TimesBuilt
    <3> QED BY <1>5, <3>1, <3>2
  <2>2. CASE \E w \in Value : vs = <<w>>
    BY <1>4, <1>5, <2>2, TimesAppended, TimesOneBuilt
  <2> QED BY <2>1, <2>2
<1>7. CallShape(c)
  <2>1. call.at \in 0 .. call.size /\ call.size \in 0 .. MaxSize
    BY <1>1 DEF CallShape
  <2>2. c.at \in 0 .. c.size
    BY <1>4, <1>5, <2>1
  <2> QED BY <1>1, <1>4, <1>6, <2>2 DEF CallShape
<1>8. Undisturbed(seq, c)
  BY <1>4, InvParts DEF Undisturbed
<1>9. Emptied(seq, c)
  <2>1. Times(Gone, Items(seq)) = 0 /\ One(c.phase = "destructor") = 0 /\ ~ Holds(c)
    BY <1>1, <1>4, AllLive DEF One, Holds
  <2> QED BY <1>1, <1>4, <2>1 DEF Emptied
<1>10. \A v \in Value : Counting(vs)[v] = counted[v] + Times(v, vs) /\ counted[v] \in Nat
  BY InvParts DEF Counting, Counts
<1>11. Balance(seq, c, Counting(vs), lost)
  <2> SUFFICES ASSUME NEW v \in Value
               PROVE  Counting(vs)[v] = Times(v, Items(seq)) + Times(v, c.built) + lost[v]
    BY DEF Balance
  <2>1. Times(v, Items(seq)) \in Nat /\ Times(v, call.built) \in Nat /\ lost[v] \in Int
    BY <1>5, InvParts, TimesItems, TimesBuilt, SizeAssumption DEF Counts
  <2>2. counted[v] = Times(v, Items(seq)) + Times(v, call.built) + lost[v]
    BY InvParts DEF Balance
  <2> QED BY <1>6, <1>10, <2>1, <2>2
<1>12. Counting(vs) \in [Value -> Int] /\ lost \in [Value -> 0 .. MaxLost]
  <2>1. ASSUME NEW v \in Value PROVE Counting(vs)[v] \in Int
    BY <1>6, <1>10
  <2> QED BY <2>1, InvParts DEF Counts, Counting
<1> QED BY <1>3, <1>7, <1>8, <1>9, <1>11, <1>12, LeavesHolds

LEMMA MapReturnsHolds ==
  ASSUME IInv, fault = "none", NEW v \in Value, MapReturns(v)
  PROVE  IInv'
BY BuiltHolds DEF MapReturns

LEMMA FilterReturnsHolds ==
  ASSUME IInv, fault = "none", NEW keeps \in BOOLEAN, FilterReturns(keeps)
  PROVE  IInv'
<1>1. call.op = "filter" /\ call.phase = "callback" /\ Calling("filter")
  BY DEF FilterReturns, Calling
<1>2. ~ call.edited => ~ call.freed /\ Live(Current)
  <2> SUFFICES ASSUME ~ call.edited PROVE ~ call.freed /\ Live(Current)
    OBVIOUS
  <2>1. call.at < call.size /\ call.op # "none" /\ call.op # "clear" /\ call.phase # "destructor"
    BY <1>1, InvParts DEF CallShape
  <2> QED BY <2>1, CurrentCell, AllLive DEF Live
<1>3. CASE ~ keeps
  BY <1>1, <1>3, BuiltHolds DEF FilterReturns
<1>4. CASE keeps /\ call.freed
  <2>1. Fails("freed") /\ "freed" \in Faults
    BY <1>4 DEF FilterReturns, Faults
  <2> QED BY <1>2, <1>4, <2>1, FailsHolds
<1>5. CASE keeps /\ ~ call.freed /\ ~ Live(Current)
  <2>1. Fails("astray") /\ "astray" \in Faults
    BY <1>5 DEF FilterReturns, Faults
  <2> QED BY <1>2, <1>5, <2>1, FailsHolds
<1>6. CASE keeps /\ ~ call.freed /\ Live(Current)
  <2>1. Built(<<seq.buffer[Current]>>) /\ seq.buffer[Current] \in Value
    BY <1>6 DEF FilterReturns, Live
  <2> QED BY <1>1, <2>1, BuiltHolds
<1> QED BY <1>3, <1>4, <1>5, <1>6

\* The first of several values, and the others.
LEMMA TimesTail ==
  ASSUME NEW f \in Seq(Value), f # << >>, NEW v
  PROVE  /\ Tail(f) \in Seq(Value) /\ Head(f) \in Value
         /\ Times(v, f) = Times(v, Tail(f)) + One(Head(f) = v)
<1>1. PICK z \in Nat : z = Len(f) /\ z > 0
  OBVIOUS
<1>2. Tail(f) \in Seq(Value) /\ Len(Tail(f)) = z - 1 /\ Head(f) = f[1]
  BY <1>1
<1>3. f[1] \in Value
  BY <1>1
<1>4. f \in Seq(Bits) /\ 0 \in 0 .. z - 1 /\ 0 < z /\ 0 \in Nat
  BY <1>1 DEF Bits
<1>5. PICK g \in Seq(Bits) : g = P!Dropped(f, 0) /\ Len(g) = z - 1 /\ P!IsDropped(g, f, z, 0)
  BY <1>1, <1>4, Dropping
<1>6. ASSUME NEW k \in 1 .. z - 1 PROVE g[k] = Tail(f)[k]
  <2>1. PICK q \in 0 .. z - 2 : q = k - 1 /\ q + 1 = k /\ q + 2 = k + 1 /\ 0 <= q
    BY <1>1
  <2>2. g[q + 1] = f[q + 2]
    BY <1>5, <2>1 DEF P!IsDropped
  <2>3. Tail(f)[k] = f[k + 1]
    BY <1>1, <1>2
  <2> QED BY <2>1, <2>2, <2>3
<1>7. g = Tail(f)
  <2>1. Tail(f) \in Seq(Bits)
    BY <1>2 DEF Bits
  <2> QED BY <1>2, <1>5, <1>6, <2>1, SeqEqual
<1>8. Times(v, f) = Times(v, P!Dropped(f, 0)) + One(f[0 + 1] = v)
  BY <1>1, <1>4, TimesDropped
<1>9. Head(f) = f[0 + 1]
  BY <1>2
<1>10. Times(v, f) = Times(v, Tail(f)) + One(Head(f) = v)
  BY ONLY <1>5, <1>7, <1>8, <1>9
<1> QED BY <1>2, <1>3, <1>10

LEMMA BuildThrowsHolds ==
  ASSUME IInv, fault = "none", BuildThrows
  PROVE  IInv'
<1>1. call.op \in {"map", "filter"} /\ call.phase = "callback" /\ CallShape(call)
  BY InvParts DEF BuildThrows, Calling
<1>2. call.built \in Seq(Value)
  BY <1>1 DEF CallShape
<1>3. Times(Gone, Items(seq)) = 0
  BY <1>1, AllLive
<1>4. PICK vs, n, l : vs = Released(call.op, call.built) /\ n = Releasing(vs) /\ l = lost'
  OBVIOUS
<1>5. /\ counted' = n /\ UNCHANGED <<seq, copies, fault>> /\ Finish
      /\ \A v \in Value : l[v] <= MaxLost
      /\ l = IF Calling("map") /\ call.built # << >>
             THEN [lost EXCEPT ![Head(call.built)] = @ + 1]
             ELSE lost
  BY <1>4 DEF BuildThrows
<1>6. \A v \in Value : n[v] = counted[v] - Times(v, vs) /\ counted[v] \in Nat /\ lost[v] \in Nat
  BY <1>4, InvParts, SizeAssumption DEF Releasing, Counts
<1>7. \A v \in Value : counted[v] = Times(v, Items(seq)) + Times(v, call.built) + lost[v]
  BY InvParts DEF Balance
<1>8. \A v : Times(v, Items(seq)) \in Nat /\ Times(v, call.built) \in Nat
  BY <1>2, InvParts, TimesItems, TimesBuilt
<1>9. DOMAIN lost = Value /\ lost \in [Value -> Nat]
  BY <1>6, InvParts DEF Counts
<1>10. CASE call.op = "map" /\ call.built # << >>
  <2>1. vs = Tail(call.built) /\ l = [lost EXCEPT ![Head(call.built)] = @ + 1]
    BY <1>1, <1>4, <1>5, <1>10 DEF Released, Calling
  <2>2. /\ vs \in Seq(Value) /\ Head(call.built) \in Value
        /\ \A v : Times(v, call.built) = Times(v, vs) + One(Head(call.built) = v)
    BY <1>2, <1>10, <2>1, TimesTail
  <2>3. \A v \in Value : l[v] = lost[v] + One(Head(call.built) = v)
    BY <1>6, <1>9, <2>1, <2>2 DEF One
  <2>4. \A v : Times(v, vs) \in Nat /\ One(Head(call.built) = v) \in Nat
    BY <2>2, TimesBuilt, OneNat
  <2>5. ASSUME NEW v \in Value
        PROVE  l[v] \in Nat /\ n[v] \in Int /\ n[v] = Times(v, Items(seq)) + l[v]
    <3>1. PICK o \in Nat : o = One(Head(call.built) = v)
      BY <2>4
    <3>2. l[v] = lost[v] + o /\ lost[v] \in Nat /\ l[v] \in Nat
      BY <1>6, <2>3, <3>1
    <3>3. PICK a \in Nat : a = Times(v, Items(seq))
      BY <1>8
    <3>4. PICK b \in Nat : b = Times(v, vs)
      BY <2>4
    <3>5. Times(v, call.built) = b + o
      BY <2>2, <3>1, <3>4
    <3>6. n[v] = counted[v] - b /\ counted[v] = a + (b + o) + lost[v]
      BY <1>6, <1>7, <3>3, <3>4, <3>5
    <3>7. n[v] = a + l[v] /\ n[v] \in Int
      BY ONLY <3>2, <3>6, a \in Nat, b \in Nat, o \in Nat
    <3> QED BY <3>2, <3>3, <3>7
  <2>6. l \in [Value -> 0 .. MaxLost]
    <3>1. l = [v \in Value |-> l[v]]
      BY <1>9, <2>1
    <3>2. ASSUME NEW v \in Value PROVE l[v] \in 0 .. MaxLost
      BY <1>5, <2>5, SizeAssumption
    <3> QED BY <3>1, <3>2
  <2>7. n \in [Value -> Int]
    BY <1>4, <2>5 DEF Releasing
  <2> QED BY <1>3, <1>4, <1>5, <2>5, <2>6, <2>7, FinishHolds
<1>11. CASE ~ (call.op = "map" /\ call.built # << >>)
  <2>1. vs = call.built /\ l = lost
    BY <1>1, <1>4, <1>5, <1>11 DEF Released, Calling
  <2>2. ASSUME NEW v \in Value
        PROVE  n[v] \in Int /\ n[v] = Times(v, Items(seq)) + l[v]
    BY <1>6, <1>7, <1>8, <2>1
  <2>3. n \in [Value -> Int]
    BY <1>4, <2>2 DEF Releasing
  <2>4. l \in [Value -> 0 .. MaxLost]
    BY <2>1, InvParts DEF Counts
  <2> QED BY <1>3, <1>4, <1>5, <2>2, <2>3, <2>4, FinishHolds
<1> QED BY <1>10, <1>11

LEMMA BuildEndsHolds ==
  ASSUME IInv, fault = "none", BuildEnds
  PROVE  IInv'
<1>1. call.op \in {"map", "filter"} /\ call.phase = "walk" /\ CallShape(call)
  BY InvParts DEF BuildEnds
<1>2. CASE call.op = "map" /\ (seq.size # call.size \/ seq.capacity # call.capacity)
  <2>1. Fails("misfit") /\ "misfit" \in Faults
    BY <1>2 DEF BuildEnds, Faults
  <2>2. call.edited
    BY <1>2, InvParts DEF Undisturbed
  <2> QED BY <2>1, <2>2, FailsHolds
<1>3. CASE ~ (call.op = "map" /\ (seq.size # call.size \/ seq.capacity # call.capacity))
  <2>1. counted' = Releasing(call.built) /\ Finish /\ UNCHANGED <<seq, lost, copies, fault>>
    BY <1>3 DEF BuildEnds
  <2>2. Times(Gone, Items(seq)) = 0
    BY <1>1, AllLive
  <2>3. call.built \in Seq(Value)
    BY <1>1 DEF CallShape
  <2>4. ASSUME NEW v \in Value
        PROVE  /\ Releasing(call.built)[v] \in Int
               /\ Releasing(call.built)[v] = Times(v, Items(seq)) + lost[v]
    <3>1. Releasing(call.built)[v] = counted[v] - Times(v, call.built)
      BY DEF Releasing
    <3>2. counted[v] \in Nat /\ lost[v] \in Nat
      BY InvParts, SizeAssumption DEF Counts
    <3>3. Times(v, Items(seq)) \in Nat /\ Times(v, call.built) \in Nat
      BY <2>3, InvParts, TimesItems, TimesBuilt
    <3>4. counted[v] = Times(v, Items(seq)) + Times(v, call.built) + lost[v]
      BY InvParts DEF Balance
    <3> QED BY <3>1, <3>2, <3>3, <3>4
  <2>5. Releasing(call.built) \in [Value -> Int]
    BY <2>4 DEF Releasing
  <2>6. lost \in [Value -> 0 .. MaxLost]
    BY InvParts DEF Counts
  <2> QED BY <2>1, <2>2, <2>4, <2>5, <2>6, FinishHolds
<1> QED BY <1>2, <1>3

\* A cell of the window is written, and what that does to the values.
LEMMA WriteMakes ==
  ASSUME NEW s, Kept(s), NEW p \in 0 .. s.size - 1, NEW w \in Bits, NEW i, i = S!Cell(s, p),
         NEW u, u = [s EXCEPT !.buffer[i] = w]
  PROVE  /\ Kept(u) /\ u.size = s.size /\ u.head = s.head /\ u.tail = s.tail
         /\ u.capacity = s.capacity
         /\ Items(u)[p + 1] = w
         /\ \A q \in 0 .. s.size - 1 : q # p => Items(u)[q + 1] = Items(s)[q + 1]
         /\ \A v : Times(v, Items(u)) + One(Items(s)[p + 1] = v) = Times(v, Items(s)) + One(w = v)
         /\ P!Clean(s) => P!Clean(u)
<1>1. /\ Kept(u) /\ u.size = s.size /\ u.head = s.head /\ u.tail = s.tail
      /\ u.capacity = s.capacity /\ Items(u) = [Items(s) EXCEPT ![p + 1] = w]
      /\ P!Clean(s) => P!Clean(u)
  <2>1. u = [s EXCEPT !.buffer[S!Cell(s, p)] = w]
    OBVIOUS
  <2> QED BY ONLY <2>1, Kept(s), p \in 0 .. s.size - 1, w \in Bits, SetMakes
<1>2. PICK f, g : f = Items(s) /\ g = Items(u)
  OBVIOUS
<1>3. f \in Seq(Bits) /\ Len(f) = s.size /\ s.size \in Nat /\ p + 1 \in DOMAIN f
  BY <1>2, ItemsAre, ItemAt DEF Kept
<1>4. g \in Seq(Bits) /\ g = [f EXCEPT ![p + 1] = w]
  BY <1>1, <1>2, ItemsAre DEF Kept
<1>5. DOMAIN g = DOMAIN f /\ g[p + 1] = w /\ \A j \in DOMAIN f \ {p + 1} : g[j] = f[j]
  BY <1>3, <1>4
<1>6. ASSUME NEW q \in 0 .. s.size - 1, q # p PROVE g[q + 1] = f[q + 1]
  <2>1. q + 1 \in DOMAIN f \ {p + 1}
    BY <1>3, <1>6, LenProperties
  <2> QED BY <1>5, <2>1
<1>7. ASSUME NEW v PROVE Times(v, g) + One(f[p + 1] = v) = Times(v, f) + One(w = v)
  <2>1. PICK k \in DOMAIN f : k = p + 1
    BY <1>3
  <2>2. DOMAIN g = DOMAIN f /\ \A j \in DOMAIN f \ {k} : g[j] = f[j]
    BY <1>5, <2>1
  <2>3. f \in Seq(Bits) /\ g \in Seq(Bits)
    BY <1>3, <1>4
  <2>4. Times(v, g) + One(f[k] = v) = Times(v, f) + One(g[k] = v)
    BY ONLY k \in DOMAIN f, <2>2, <2>3, TimesReplaced
  <2> QED BY ONLY <1>5, <2>1, <2>4
<1> QED BY <1>1, <1>2, <1>5, <1>6, <1>7

\* A cell of the window is that of one position.
LEMMA PositionOf ==
  ASSUME NEW s, NEW i \in S!Window(s)
  PROVE  \E p \in 0 .. s.size - 1 : i = S!Cell(s, p)
BY DEF S!Window

\* The value at a position is released, and its destructor runs.
LEMMA ReleaseHolds ==
  ASSUME IInv, fault = "none", UNCHANGED <<lost, copies, fault>>, call.built = << >>,
         NEW p \in 0 .. seq.size - 1, NEW w \in Value, Items(seq)[p + 1] = w,
         NEW i, i = S!Cell(seq, p), seq' = [seq EXCEPT !.buffer[i] = Gone],
         NEW c, call' = c, CallShape(c), c.phase = "destructor", c.op # "none",
         Undisturbed(seq, c), ~ c.edited => p = c.at,
         c.op # "clear" => Times(Gone, Items(seq)) = 0,
         (c.op = "clear" /\ ~ c.edited) =>
           \A q \in 0 .. seq.size - 1 : Items(seq)[q + 1] = Gone <=> q < c.at,
         counted' = [Counting(c.built) EXCEPT ![w] = @ - 1]
  PROVE  IInv'
<1>1. w \in Bits /\ Gone \in Bits /\ w # Gone
  BY GoneAssumption DEF Bits
<1>2. PICK u : u = [seq EXCEPT !.buffer[i] = Gone]
  OBVIOUS
<1>3. /\ Kept(u) /\ u.size = seq.size /\ u.head = seq.head /\ u.capacity = seq.capacity
      /\ Items(u)[p + 1] = Gone
      /\ \A q \in 0 .. seq.size - 1 : q # p => Items(u)[q + 1] = Items(seq)[q + 1]
      /\ \A v : Times(v, Items(u)) + One(w = v) = Times(v, Items(seq)) + One(Gone = v)
      /\ P!Clean(seq) => P!Clean(u)
  <2>1. Kept(seq)
    BY InvParts
  <2> QED BY <1>1, <1>2, <2>1, WriteMakes
<1>4. \A v : /\ Times(v, Items(u)) \in Nat /\ Times(v, Items(seq)) \in Nat
             /\ One(w = v) \in Nat /\ Times(v, c.built) \in Nat
  BY <1>3, InvParts, TimesItems, TimesBuilt, OneNat DEF Kept, CallShape
<1>5. PICK n : n = [Counting(c.built) EXCEPT ![w] = @ - 1]
  OBVIOUS
<1>6. ASSUME NEW v \in Value PROVE n[v] = (counted[v] + Times(v, c.built)) - One(w = v)
  <2>1. Counting(c.built)[v] = counted[v] + Times(v, c.built) /\ DOMAIN Counting(c.built) = Value
    BY DEF Counting
  <2>2. counted[v] + Times(v, c.built) \in Int
    BY <1>4, InvParts DEF Counts
  <2>3. PICK r \in Int : r = counted[v] + Times(v, c.built)
    BY <2>2
  <2>4. PICK o \in Nat : o = One(w = v)
    BY <1>4
  <2>5. CASE w = v
    <3>1. n[v] = r - 1
      BY <1>5, <2>1, <2>3, <2>5
    <3>2. o = 1
      BY <2>4, <2>5 DEF One
    <3> QED BY <2>3, <2>4, <3>1, <3>2
  <2>6. CASE w # v
    <3>1. n[v] = r
      BY <1>5, <2>1, <2>3, <2>6
    <3>2. o = 0
      BY <2>4, <2>6 DEF One
    <3> QED BY <2>3, <2>4, <3>1, <3>2
  <2> QED BY <2>5, <2>6
<1>7. ASSUME NEW v \in Value
      PROVE  n[v] = Times(v, Items(u)) + Times(v, c.built) + lost[v] /\ n[v] \in Int
  <2>1. PICK o \in Nat : o = One(w = v)
    BY <1>4
  <2>2. PICK a \in Nat : a = Times(v, Items(u))
    BY <1>4
  <2>3. PICK b \in Nat : b = Times(v, Items(seq))
    BY <1>4
  <2>4. PICK d \in Nat : d = Times(v, c.built)
    BY <1>4
  <2>5. One(Gone = v) = 0 /\ Times(v, call.built) = 0
    BY GoneAssumption, TimesEmpty DEF One
  <2>6. a + o = b
    BY <1>3, <2>1, <2>2, <2>3, <2>5
  <2>7. counted[v] = Times(v, Items(seq)) + Times(v, call.built) + lost[v]
    BY InvParts DEF Balance
  <2>8. lost[v] \in Int
    BY InvParts, SizeAssumption DEF Counts
  <2>9. counted[v] = b + lost[v]
    BY ONLY <2>3, <2>5, <2>7, <2>8, b \in Nat
  <2>10. n[v] = (counted[v] + d) - o
    BY <1>6, <2>1, <2>4
  <2>11. n[v] = a + d + lost[v] /\ n[v] \in Int
    BY ONLY <2>6, <2>8, <2>9, <2>10, a \in Nat, b \in Nat, d \in Nat, o \in Nat
  <2> QED BY <2>2, <2>4, <2>11
<1>8. n \in [Value -> Int] /\ lost \in [Value -> 0 .. MaxLost]
  <2>1. n = [v \in Value |-> n[v]]
    BY <1>5 DEF Counting
  <2> QED BY <1>7, <2>1, InvParts DEF Counts
<1>9. Balance(u, c, n, lost)
  BY <1>7 DEF Balance
<1>10. Undisturbed(u, c)
  BY <1>3 DEF Undisturbed
<1>11. Emptied(u, c)
  <2>1. c.op # "clear" => Times(Gone, Items(u)) = One(c.phase = "destructor")
    <3> SUFFICES ASSUME c.op # "clear" PROVE Times(Gone, Items(u)) = 1
      BY DEF One
    <3>1. One(w = Gone) = 0 /\ One(Gone = Gone) = 1
      BY <1>1 DEF One
    <3>2. Times(Gone, Items(u)) + One(w = Gone) = Times(Gone, Items(seq)) + One(Gone = Gone)
      BY <1>3
    <3>3. Times(Gone, Items(seq)) = 0 /\ Times(Gone, Items(u)) \in Nat
      BY <1>4
    <3> QED BY ONLY <3>1, <3>2, <3>3
  <2>2. (Holds(c) /\ ~ c.edited) => Items(u)[c.at + 1] = Gone
    BY <1>3
  <2>3. (c.op = "clear" /\ ~ c.edited) =>
          \A q \in 0 .. u.size - 1 :
            Items(u)[q + 1] = Gone <=> q < c.at \/ (q = c.at /\ c.phase = "destructor")
    BY <1>3
  <2> QED BY <2>1, <2>2, <2>3 DEF Emptied
<1> QED BY <1>2, <1>3, <1>5, <1>8, <1>9, <1>10, <1>11, InvParts, StepHolds

\* apply() and clear() release the value in the current cell.
LEMMA DestroyHolds ==
  ASSUME IInv, fault = "none", NEW next, Destroy(next),
         call.op \in {"apply", "clear"}, call.phase # "destructor", call.at < call.size,
         NEW vs \in Seq(Value), Len(vs) = One(call.op = "apply"),
         next = [call EXCEPT !.built = vs], call.built = << >>
  PROVE  IInv'
<1>1. CallShape(call) /\ call.op # "none"
  BY InvParts
<1>2. ~ call.edited => ~ call.freed /\ Current < seq.capacity /\ Live(Current)
  <2> SUFFICES ASSUME ~ call.edited
               PROVE  ~ call.freed /\ Current < seq.capacity /\ Live(Current)
    OBVIOUS
  <2>1. /\ call.at \in 0 .. seq.size - 1 /\ Current < seq.capacity /\ Current \in S!Window(seq)
        /\ seq.buffer[Current] = Items(seq)[call.at + 1]
        /\ Items(seq)[call.at + 1] \in Bits /\ ~ call.freed
    BY <1>1, CurrentCell
  <2>2. Items(seq)[call.at + 1] # Gone
    <3>1. CASE call.op = "apply"
      BY <2>1, <3>1, AllLive, GoneAssumption
    <3>2. CASE call.op = "clear"
      BY <2>1, <3>2, InvParts DEF Emptied
    <3> QED BY <3>1, <3>2
  <2> QED BY <2>1, <2>2 DEF Live, Bits
<1>3. CASE call.freed
  <2>1. Fails("freed") /\ "freed" \in Faults
    BY <1>3 DEF Destroy, Faults
  <2> QED BY <1>2, <1>3, <2>1, FailsHolds
<1>4. CASE ~ call.freed /\ Current >= seq.capacity
  <2>1. Fails("overrun") /\ "overrun" \in Faults
    BY <1>4 DEF Destroy, Faults
  <2>2. call.edited
    <3>1. ASSUME ~ call.edited PROVE FALSE
      <4>1. Current \in 0 .. seq.capacity - 1
        BY <1>1, <3>1, CurrentCell, InvParts, ItemAt
      <4> QED BY <1>4, <4>1, InvParts
    <3> QED BY <3>1
  <2> QED BY <2>1, <2>2, FailsHolds
<1>5. CASE ~ call.freed /\ ~ (Current >= seq.capacity) /\ ~ Live(Current)
  <2>1. Fails("astray") /\ "astray" \in Faults
    BY <1>5 DEF Destroy, Faults
  <2> QED BY <1>2, <1>5, <2>1, FailsHolds
<1>6. CASE ~ call.freed /\ ~ (Current >= seq.capacity) /\ Live(Current)
  <2>1. PICK c, i, w : /\ c = [next EXCEPT !.phase = "destructor", !.freed = FALSE]
                       /\ i = Current /\ w = seq.buffer[i]
    OBVIOUS
  <2>2. /\ seq' = [seq EXCEPT !.buffer[i] = Gone] /\ call' = c
        /\ counted' = [Counting(next.built) EXCEPT ![w] = @ - 1]
        /\ UNCHANGED <<lost, copies, fault>>
    BY <1>6, <2>1 DEF Destroy
  <2>3. i \in S!Window(seq) /\ w \in Value
    BY <1>6, <2>1 DEF Live
  <2>4. PICK p \in 0 .. seq.size - 1 : i = S!Cell(seq, p)
    BY <2>3, PositionOf
  <2>5. Items(seq)[p + 1] = w
    BY <2>1, <2>4, InvParts, ItemAt
  <2>6. /\ c.op = call.op /\ c.phase = "destructor" /\ c.at = call.at /\ c.head = call.head
        /\ c.size = call.size /\ c.capacity = call.capacity /\ c.built = vs
        /\ c.freed = FALSE /\ c.edited = call.edited
        /\ c = [f \in CallFields |-> c[f]] /\ next.built = vs
    BY <1>1, <2>1 DEF CallShape, CallFields, NoCall
  <2>7. CallShape(c)
    <3>1. Holds(c) <=> call.op = "apply"
      BY <2>6 DEF Holds
    <3>2. Len(c.built) = One(Holds(c))
      BY <2>6, <3>1 DEF One
    <3>3. /\ c.op \in Methods \union {"none", "set"} /\ c.size \in 0 .. MaxSize
          /\ c.at \in 0 .. c.size /\ c.at < c.size /\ c.edited \in BOOLEAN
          /\ c.edited => c.size > 0
      BY <1>1, <2>6 DEF CallShape
    <3> QED BY <2>6, <3>2, <3>3 DEF CallShape
  <2>8. Undisturbed(seq, c)
    BY <2>6, InvParts DEF Undisturbed
  <2>9. ~ c.edited => p = c.at
    BY <1>1, <2>1, <2>4, <2>6, CurrentCell, CellsDiffer, InvParts
  <2>10. c.op # "clear" => Times(Gone, Items(seq)) = 0
    BY <2>6, AllLive
  <2>11. (c.op = "clear" /\ ~ c.edited) =>
           \A q \in 0 .. seq.size - 1 : Items(seq)[q + 1] = Gone <=> q < c.at
    BY <2>6, InvParts DEF Emptied
  <2>12. counted' = [Counting(c.built) EXCEPT ![w] = @ - 1]
    BY <2>2, <2>6
  <2> QED BY <1>1, <2>2, <2>3, <2>4, <2>5, <2>6, <2>7, <2>8, <2>9, <2>10, <2>11, <2>12, ReleaseHolds
<1> QED BY <1>3, <1>4, <1>5, <1>6

LEMMA ApplyReturnsHolds ==
  ASSUME IInv, fault = "none", NEW v \in Value, ApplyReturns(v)
  PROVE  IInv'
<1>1. call.op = "apply" /\ call.phase = "callback" /\ CallShape(call)
  BY InvParts DEF ApplyReturns, Calling
<1>2. call.at < call.size
  BY <1>1 DEF CallShape
<1>3. call.built = << >>
  <2>1. call.built \in Seq(Value) /\ Len(call.built) = 0
    BY <1>1 DEF CallShape, Holds, One
  <2> QED BY <2>1
<1>4. PICK vs : vs = <<v>>
  OBVIOUS
<1>5. vs \in Seq(Value) /\ Len(vs) = One(call.op = "apply")
  BY <1>1, <1>4 DEF One
<1>6. Destroy([call EXCEPT !.built = vs])
  BY <1>4 DEF ApplyReturns
<1> QED BY <1>1, <1>2, <1>3, <1>5, <1>6, DestroyHolds

LEMMA ApplyThrowsHolds ==
  ASSUME IInv, fault = "none", ApplyThrows \/ ApplyEnds
  PROVE  IInv'
<1>1. /\ call.op = "apply" /\ call.phase \in {"callback", "walk"} /\ CallShape(call)
      /\ Finish /\ UNCHANGED <<seq, counted, lost, copies, fault>>
  BY InvParts DEF ApplyThrows, ApplyEnds, Calling
<1>2. Times(Gone, Items(seq)) = 0
  BY <1>1, AllLive
<1>3. call.built = << >>
  <2>1. call.built \in Seq(Value) /\ Len(call.built) = 0
    BY <1>1 DEF CallShape, Holds, One
  <2> QED BY <2>1
<1>4. ASSUME NEW v \in Value PROVE counted[v] = Times(v, Items(seq)) + lost[v]
  <2>1. counted[v] = Times(v, Items(seq)) + Times(v, call.built) + lost[v]
    BY InvParts DEF Balance
  <2>2. Times(v, call.built) = 0 /\ Times(v, Items(seq)) \in Nat
    BY <1>3, TimesEmpty, InvParts, TimesItems
  <2> QED BY <2>1, <2>2
<1>5. counted \in [Value -> Int] /\ lost \in [Value -> 0 .. MaxLost]
  BY InvParts DEF Counts
<1> QED BY <1>1, <1>2, <1>4, <1>5, FinishHolds

LEMMA SetReleasesHolds ==
  ASSUME IInv, fault = "none", NEW p \in 0 .. seq.size - 1, NEW v \in Value, SetReleases(p, v)
  PROVE  IInv'
<1>1. call.op = "none" /\ seq.size \in 0 .. MaxSize
  BY InvParts, SizeAssumption DEF SetReleases
<1>2. PICK vs, c, i, w :
        /\ vs = <<v>> /\ i = S!Cell(seq, p) /\ w = seq.buffer[i]
        /\ c = [Walk("set") EXCEPT !.at = p, !.built = vs, !.phase = "destructor"]
  OBVIOUS
<1>3. /\ seq' = [seq EXCEPT !.buffer[i] = Gone] /\ call' = c
      /\ counted' = [Counting(vs) EXCEPT ![w] = @ - 1]
      /\ UNCHANGED <<lost, copies, fault>>
  BY <1>2 DEF SetReleases
<1>4. vs \in Seq(Value) /\ Len(vs) = 1
  BY <1>2
<1>5. /\ c.op = "set" /\ c.phase = "destructor" /\ c.at = p /\ c.head = seq.head
      /\ c.size = seq.size /\ c.capacity = seq.capacity /\ c.built = vs
      /\ c.freed = FALSE /\ c.edited = FALSE
      /\ c = [f \in CallFields |-> c[f]]
  <2>1. PICK d : d = Walk("set")
    OBVIOUS
  <2>2. /\ d.op = "set" /\ d.head = seq.head /\ d.size = seq.size /\ d.capacity = seq.capacity
        /\ d.freed = FALSE /\ d.edited = FALSE /\ d = [f \in CallFields |-> d[f]]
    BY <1>1, <2>1, WalkShape
  <2>3. c = [d EXCEPT !.at = p, !.built = vs, !.phase = "destructor"]
    BY <1>2, <2>1
  <2> QED BY <2>2, <2>3 DEF CallFields, NoCall
<1>6. CallShape(c)
  <2>1. Holds(c) /\ One(Holds(c)) = 1
    BY <1>5 DEF Holds, One
  <2>2. c.at \in 0 .. c.size /\ c.at < c.size
    BY <1>1, <1>5
  <2> QED BY <1>1, <1>4, <1>5, <2>1, <2>2 DEF CallShape
<1>7. Undisturbed(seq, c)
  BY <1>5 DEF Undisturbed
<1>8. /\ Times(Gone, Items(seq)) = 0 /\ call.built = << >>
      /\ Items(seq)[p + 1] \in Value
  BY <1>1, NoneUnderWay, NoCallFits
<1>9. Items(seq)[p + 1] = w
  BY <1>2, InvParts, ItemAt
<1>10. w \in Value
  BY <1>8, <1>9
<1>11. counted' = [Counting(c.built) EXCEPT ![w] = @ - 1]
  BY <1>3, <1>5
<1>12. /\ UNCHANGED <<lost, copies, fault>> /\ call.built = << >> /\ i = S!Cell(seq, p)
       /\ seq' = [seq EXCEPT !.buffer[i] = Gone] /\ call' = c
       /\ c.phase = "destructor" /\ c.op = "set"
       /\ ~ c.edited => p = c.at
       /\ c.op # "clear" => Times(Gone, Items(seq)) = 0
  BY <1>2, <1>3, <1>5, <1>8
<1>13. c.op # "none" /\ ~ (c.op = "clear" /\ ~ c.edited)
  BY <1>12
<1> QED BY ONLY IInv, fault = "none", p \in 0 .. seq.size - 1, <1>6, <1>7, <1>9, <1>10, <1>11,
                <1>12, <1>13, ReleaseHolds

LEMMA StoreHolds ==
  ASSUME IInv, fault = "none", Store
  PROVE  IInv'
<1>1. /\ call.op \in {"apply", "set"} /\ call.phase = "destructor" /\ Holds(call)
      /\ CallShape(call) /\ call.at < call.size
  BY InvParts DEF Store, Holds, CallShape
<1>2. call.built \in Seq(Value) /\ Len(call.built) = 1
  BY <1>1 DEF CallShape, One
<1>3. ~ call.edited =>
        ~ call.freed /\ Current \in S!Window(seq) /\ seq.buffer[Current] = Gone
  <2> SUFFICES ASSUME ~ call.edited
               PROVE  ~ call.freed /\ Current \in S!Window(seq) /\ seq.buffer[Current] = Gone
    OBVIOUS
  <2>1. Items(seq)[call.at + 1] = Gone
    BY <1>1, InvParts DEF Emptied
  <2> QED BY <1>1, <2>1, CurrentCell
<1>4. CASE call.freed
  <2>1. Fails("freed") /\ "freed" \in Faults
    BY <1>4 DEF Store, Faults
  <2> QED BY <1>3, <1>4, <2>1, FailsHolds
<1>5. CASE ~ call.freed /\ (Current \notin S!Window(seq) \/ seq.buffer[Current] # Gone)
  <2>1. Fails("astray") /\ "astray" \in Faults
    BY <1>5 DEF Store, Faults
  <2> QED BY <1>3, <1>5, <2>1, FailsHolds
<1>6. CASE ~ call.freed /\ ~ (Current \notin S!Window(seq) \/ seq.buffer[Current] # Gone)
  <2>1. PICK i, w : i = Current /\ w = call.built[1]
    OBVIOUS
  <2>2. w \in Value /\ call.built = <<w>>
    BY <1>2, <2>1
  <2>3. w \in Bits /\ w # Gone
    BY <2>2, GoneAssumption DEF Bits
  <2>4. PICK u : u = [seq EXCEPT !.buffer[i] = w]
    OBVIOUS
  <2>5. PICK c : c = IF call.op = "set" THEN NoCall
                     ELSE [call EXCEPT !.phase = "walk", !.at = @ + 1, !.built = << >>]
    OBVIOUS
  <2>6. seq' = u /\ call' = c /\ UNCHANGED <<counted, lost, copies, fault>>
    BY <1>6, <2>1, <2>4, <2>5 DEF Store
  <2>7. PICK p \in 0 .. seq.size - 1 : i = S!Cell(seq, p)
    BY <1>6, <2>1, PositionOf
  <2>8. Items(seq)[p + 1] = Gone
    BY <1>6, <2>1, <2>7, InvParts, ItemAt
  <2>9. /\ Kept(u) /\ u.size = seq.size /\ u.head = seq.head /\ u.capacity = seq.capacity
        /\ \A v : Times(v, Items(u)) + One(Gone = v) = Times(v, Items(seq)) + One(w = v)
        /\ P!Clean(seq) => P!Clean(u)
    <3>1. Kept(seq)
      BY InvParts
    <3> QED BY <2>3, <2>4, <2>7, <2>8, <3>1, WriteMakes
  <2>10. \A v : Times(v, Items(u)) \in Nat /\ Times(v, Items(seq)) \in Nat
    BY <2>9, InvParts, TimesItems DEF Kept
  <2>11. /\ CallShape(c) /\ c.built = << >> /\ c.phase = "walk"
         /\ c.op = "none" \/ (/\ c.op = call.op /\ c.head = call.head /\ c.size = call.size
                              /\ c.capacity = call.capacity /\ c.freed = call.freed
                              /\ c.edited = call.edited)
         /\ c.op # "clear"
    <3>1. CASE call.op = "set"
      BY <2>5, <3>1, NoCallFits
    <3>2. CASE call.op = "apply"
      <4>1. /\ c.op = call.op /\ c.phase = "walk" /\ c.at = call.at + 1 /\ c.head = call.head
            /\ c.size = call.size /\ c.capacity = call.capacity /\ c.built = << >>
            /\ c.freed = call.freed /\ c.edited = call.edited
            /\ c = [f \in CallFields |-> c[f]]
        BY <1>1, <2>5, <3>2 DEF CallShape, CallFields, NoCall
      <4>2. One(Holds(c)) = 0
        BY <4>1 DEF Holds, One
      <4>3. << >> \in Seq(Value) /\ Len(<< >>) = 0
        OBVIOUS
      <4>4. call.at \in 0 .. call.size /\ call.size \in 0 .. MaxSize
        BY <1>1 DEF CallShape
      <4>5. c.at \in 0 .. c.size
        BY <1>1, <4>1, <4>4
      <4>6. CallShape(c)
        BY <1>1, <3>2, <4>1, <4>2, <4>3, <4>5 DEF CallShape
      <4> QED BY <3>2, <4>1, <4>6
    <3> QED BY <1>1, <3>1, <3>2
  <2>12. Undisturbed(u, c)
    BY <2>9, <2>11, InvParts DEF Undisturbed
  <2>13. Emptied(u, c)
    <3>1. Times(Gone, Items(seq)) = 1
      BY <1>1, InvParts DEF Emptied, One
    <3>2. One(Gone = Gone) = 1 /\ One(w = Gone) = 0
      BY <2>3 DEF One
    <3>3. Times(Gone, Items(u)) = 0
      BY <2>9, <2>10, <3>1, <3>2
    <3>4. One(c.phase = "destructor") = 0 /\ ~ Holds(c)
      BY <2>11 DEF One, Holds
    <3> QED BY <2>11, <3>3, <3>4 DEF Emptied
  <2>14. Balance(u, c, counted, lost)
    <3> SUFFICES ASSUME NEW v \in Value
                 PROVE  counted[v] = Times(v, Items(u)) + Times(v, c.built) + lost[v]
      BY DEF Balance
    <3>1. One(Gone = v) = 0 /\ Times(v, c.built) = 0
      BY <2>11, GoneAssumption, TimesEmpty DEF One
    <3>2. Times(v, call.built) = One(w = v)
      BY <2>2, TimesOneBuilt
    <3>3. PICK o \in Nat : o = One(w = v)
      BY OneNat
    <3>4. Times(v, Items(u)) = Times(v, Items(seq)) + o
      BY <2>9, <2>10, <3>1, <3>3
    <3>5. counted[v] = Times(v, Items(seq)) + o + lost[v]
      BY <3>2, <3>3, InvParts DEF Balance
    <3>6. lost[v] \in Int
      BY InvParts, SizeAssumption DEF Counts
    <3> QED BY <2>10, <3>1, <3>3, <3>4, <3>5, <3>6
  <2>15. counted \in [Value -> Int] /\ lost \in [Value -> 0 .. MaxLost]
    BY InvParts DEF Counts
  <2> QED BY <2>6, <2>9, <2>11, <2>12, <2>13, <2>14, <2>15, InvParts, StepHolds
<1> QED BY <1>4, <1>5, <1>6

\* clear() goes on with the next cell.
LEMMA ClearSteps ==
  ASSUME IInv, fault = "none", call.op = "clear", call.at < call.size,
         UNCHANGED <<seq, counted, lost, copies, fault>>,
         NEW c, call' = c, c = [f \in CallFields |-> c[f]],
         c.op = "clear", c.phase = "walk", c.at = call.at + 1, c.head = call.head,
         c.size = call.size, c.capacity = call.capacity, c.built = call.built,
         c.freed \in BOOLEAN, c.edited = call.edited, ~ c.edited => c.freed = call.freed,
         call.edited \/ call.phase = "destructor"
  PROVE  IInv'
<1>1. CallShape(call) /\ Emptied(seq, call)
  BY InvParts
<1>2. call.at \in 0 .. call.size /\ call.size \in 0 .. MaxSize /\ call.at \in Int
  BY <1>1 DEF CallShape
<1>3. CallShape(c)
  <2>1. One(Holds(c)) = 0 /\ One(Holds(call)) = 0
    BY DEF Holds, One
  <2>2. c.at \in 0 .. c.size
    BY <1>2
  <2> QED BY <1>1, <1>2, <2>1, <2>2 DEF CallShape
<1>4. Undisturbed(seq, c)
  BY InvParts DEF Undisturbed
<1>5. Emptied(seq, c)
  <2>1. ASSUME ~ c.edited, NEW q \in 0 .. seq.size - 1
        PROVE  Items(seq)[q + 1] = Gone <=> q < c.at
    <3>1. Items(seq)[q + 1] = Gone <=> q < call.at \/ q = call.at
      BY <1>1, <2>1 DEF Emptied
    <3>2. q < call.at \/ q = call.at <=> q < c.at
      BY <1>2
    <3> QED BY <3>1, <3>2
  <2>2. ~ Holds(c)
    BY DEF Holds
  <2> QED BY <2>1, <2>2 DEF Emptied
<1>6. Balance(seq, c, counted, lost)
  BY InvParts DEF Balance
<1>7. counted \in [Value -> Int] /\ lost \in [Value -> 0 .. MaxLost]
  BY InvParts DEF Counts
<1> QED BY <1>3, <1>4, <1>5, <1>6, <1>7, LeavesHolds

LEMMA ClearReleasesHolds ==
  ASSUME IInv, fault = "none", ClearReleases
  PROVE  IInv'
<1>1. /\ call.op = "clear" /\ call.phase = "walk" /\ call.at < call.size
      /\ CallShape(call) /\ call.op # "none"
  BY InvParts DEF ClearReleases
<1>2. call.built = << >>
  <2>1. call.built \in Seq(Value) /\ Len(call.built) = 0
    BY <1>1 DEF CallShape, Holds, One
  <2> QED BY <2>1
<1>3. ~ call.edited => seq.buffer[Current] \in Bits /\ seq.buffer[Current] # Gone
  <2> SUFFICES ASSUME ~ call.edited
               PROVE  seq.buffer[Current] \in Bits /\ seq.buffer[Current] # Gone
    OBVIOUS
  <2>1. /\ call.at \in 0 .. seq.size - 1 /\ seq.buffer[Current] = Items(seq)[call.at + 1]
        /\ Items(seq)[call.at + 1] \in Bits
    BY <1>1, CurrentCell
  <2>2. Items(seq)[call.at + 1] # Gone
    BY <1>1, <2>1, InvParts DEF Emptied
  <2> QED BY <2>1, <2>2
<1>4. CASE Current < seq.capacity /\ seq.buffer[Current] = Hole
  <2>1. PICK c : c = [call EXCEPT !.at = @ + 1]
    OBVIOUS
  <2>2. call' = c /\ UNCHANGED <<seq, counted, lost, copies, fault>>
    BY <1>4, <2>1 DEF ClearReleases
  <2>3. call.edited
    BY <1>3, <1>4, GoneAssumption DEF Bits
  <2>4. /\ c.op = "clear" /\ c.phase = "walk" /\ c.at = call.at + 1 /\ c.head = call.head
        /\ c.size = call.size /\ c.capacity = call.capacity /\ c.built = call.built
        /\ c.freed = call.freed /\ c.edited = call.edited /\ call.freed \in BOOLEAN
        /\ c = [f \in CallFields |-> c[f]]
    BY <1>1, <2>1 DEF CallShape, CallFields, NoCall
  <2> QED BY <1>1, <2>2, <2>3, <2>4, ClearSteps
<1>5. CASE /\ ~ (Current < seq.capacity /\ seq.buffer[Current] = Hole)
           /\ Current < seq.capacity /\ seq.buffer[Current] = Gone
  <2>1. Fails("twice") /\ "twice" \in Faults
    BY <1>5 DEF ClearReleases, Faults
  <2> QED BY <1>3, <1>5, <2>1, FailsHolds
<1>6. CASE /\ ~ (Current < seq.capacity /\ seq.buffer[Current] = Hole)
           /\ ~ (Current < seq.capacity /\ seq.buffer[Current] = Gone)
  <2>1. Destroy(call)
    BY <1>6 DEF ClearReleases
  <2>2. PICK vs : vs = << >>
    OBVIOUS
  <2>3. vs \in Seq(Value) /\ Len(vs) = One(call.op = "apply")
    BY <1>1, <2>2 DEF One
  <2>4. call = [call EXCEPT !.built = vs]
    BY <1>1, <1>2, <2>2 DEF CallShape
  <2> QED BY <1>1, <1>2, <2>1, <2>3, <2>4, DestroyHolds
<1> QED BY <1>4, <1>5, <1>6

LEMMA ClearGoesOnHolds ==
  ASSUME IInv, fault = "none", ClearGoesOn
  PROVE  IInv'
<1>1. call.op = "clear" /\ call.phase = "destructor" /\ CallShape(call)
  BY InvParts DEF ClearGoesOn
<1>2. call.at < call.size
  BY <1>1 DEF CallShape
<1>3. PICK c : c = [call EXCEPT !.phase = "walk", !.at = @ + 1, !.freed = FALSE]
  OBVIOUS
<1>4. call' = c /\ UNCHANGED <<seq, counted, lost, copies, fault>>
  BY <1>3 DEF ClearGoesOn
<1>5. /\ c.op = "clear" /\ c.phase = "walk" /\ c.at = call.at + 1 /\ c.head = call.head
      /\ c.size = call.size /\ c.capacity = call.capacity /\ c.built = call.built
      /\ c.freed = FALSE /\ c.edited = call.edited
      /\ c = [f \in CallFields |-> c[f]]
  BY <1>1, <1>3 DEF CallShape, CallFields, NoCall
<1>6. ~ c.edited => call.freed = FALSE
  BY <1>1, <1>5, InvParts DEF Undisturbed, CallShape
<1> QED BY <1>1, <1>2, <1>4, <1>5, <1>6, ClearSteps

LEMMA ClearEndsHolds ==
  ASSUME IInv, fault = "none", ClearEnds
  PROVE  IInv'
<1>1. /\ call.op = "clear" /\ call.phase = "walk" /\ call.at = call.size
      /\ CallShape(call) /\ call.op # "none"
  BY InvParts DEF ClearEnds
<1>2. CASE \E i \in S!Window(seq) : seq.buffer[i] \in Value
  <2>1. Fails("astray") /\ "astray" \in Faults
    BY <1>2 DEF ClearEnds, Faults
  <2>2. PICK i \in S!Window(seq) : seq.buffer[i] \in Value
    BY <1>2
  <2>3. PICK p \in 0 .. seq.size - 1 : i = S!Cell(seq, p)
    BY PositionOf
  <2>4. Items(seq)[p + 1] \in Value
    BY <2>2, <2>3, InvParts, ItemAt
  <2>5. call.edited
    <3>1. ASSUME ~ call.edited PROVE FALSE
      <4>1. call.size = seq.size
        BY <1>1, <3>1, InvParts DEF Undisturbed
      <4>2. p < call.at
        BY <1>1, <4>1, InvParts
      <4>3. Items(seq)[p + 1] = Gone
        BY <1>1, <3>1, <4>2, InvParts DEF Emptied
      <4> QED BY <2>4, <4>3, GoneAssumption
    <3> QED BY <3>1
  <2> QED BY <2>1, <2>5, FailsHolds
<1>3. CASE ~ \E i \in S!Window(seq) : seq.buffer[i] \in Value
  <2>1. PICK u : u = P!Cleared(seq)
    OBVIOUS
  <2>2. PICK k \in BOOLEAN : k = (copies \/ call.size > 0) /\ copies' = k
    BY <1>3, Zenon DEF ClearEnds
  <2>3. seq' = u /\ call' = NoCall /\ UNCHANGED <<counted, lost, fault>>
    BY <1>3, <2>1, SameFronts DEF ClearEnds, Finish
  <2>4. P!Sound(u)
    BY <2>1, Assumptions, P!ClearedSound
  <2>5. P!Typed(u) /\ (P!Clean(seq) /\ seq.size = 0 => P!Clean(u))
    <3>1. P!Sound(seq) /\ P!Typed(seq)
      BY InvParts DEF Kept
    <3> QED BY <2>1, <3>1, Assumptions, P!ClearedCells
  <2>6. u.size = 0
    BY <2>1 DEF P!Cleared
  <2>7. Items(u) = << >>
    <3>1. Items(u) \in Seq(Bits) /\ Len(Items(u)) = 0
      BY <2>4, <2>6, ItemsAre
    <3> QED BY <3>1
  <2>8. k \/ P!Clean(u)
    <3> SUFFICES ASSUME ~ k PROVE P!Clean(u)
      OBVIOUS
    <3>1. ~ copies /\ ~ (call.size > 0)
      BY <2>2
    <3>2. ~ call.edited /\ call.size \in 0 .. MaxSize
      BY <1>1, <3>1 DEF CallShape
    <3>3. call.size = seq.size /\ call.size = 0
      BY <1>1, <3>1, <3>2, InvParts, SizeAssumption DEF Undisturbed
    <3> QED BY <2>5, <3>1, <3>3, InvParts
  <2>9. ASSUME NEW v \in Value PROVE Times(v, Items(seq)) = 0
    <3>1. Items(seq) \in Seq(Bits) /\ Len(Items(seq)) = seq.size /\ seq.size \in Nat
      BY InvParts
    <3>2. ASSUME NEW j \in DOMAIN Items(seq) PROVE Items(seq)[j] # v
      <4>1. PICK p \in 0 .. seq.size - 1 : p + 1 = j
        <5>1. DOMAIN Items(seq) = 1 .. seq.size
          BY <3>1, LenProperties
        <5>2. j - 1 \in 0 .. seq.size - 1 /\ (j - 1) + 1 = j
          BY <3>1, <5>1
        <5> QED BY <5>2
      <4>2. Items(seq)[p + 1] = seq.buffer[S!Cell(seq, p)] /\ S!Cell(seq, p) \in S!Window(seq)
        BY InvParts, ItemAt
      <4> QED BY <1>3, <4>1, <4>2
    <3> QED BY <3>1, <3>2, TimesNat
  <2>10. Emptied(u, NoCall)
    <3>1. Times(Gone, Items(u)) = 0
      BY <2>7, TimesEmpty
    <3> QED BY <3>1, NoCallFits DEF Emptied, Holds, One
  <2>11. Balance(u, NoCall, counted, lost)
    <3> SUFFICES ASSUME NEW v \in Value
                 PROVE  counted[v] = Times(v, Items(u)) + Times(v, NoCall.built) + lost[v]
      BY DEF Balance
    <3>1. Times(v, Items(u)) = 0 /\ Times(v, NoCall.built) = 0 /\ Times(v, Items(seq)) = 0
      BY <2>7, <2>9, NoCallFits, TimesEmpty
    <3>2. call.built = << >>
      <4>1. call.built \in Seq(Value) /\ Len(call.built) = 0
        BY <1>1 DEF CallShape, Holds, One
      <4> QED BY <4>1
    <3>3. Times(v, call.built) = 0
      BY <3>2, TimesEmpty
    <3> QED BY <3>1, <3>3, InvParts DEF Balance
  <2>12. counted \in [Value -> Int] /\ lost \in [Value -> 0 .. MaxLost]
    BY InvParts DEF Counts
  <2>13. Kept(u) /\ u.size <= MaxSize
    BY <2>4, <2>5, <2>6, SizeAssumption DEF Kept
  <2>14. fault' = "none" /\ CallShape(NoCall) /\ Undisturbed(u, NoCall)
    BY <2>3, NoCallFits
  <2> QED BY <2>2, <2>3, <2>8, <2>10, <2>11, <2>12, <2>13, <2>14, StepHolds
<1> QED BY <1>2, <1>3

LEMMA InitHolds == Init => IInv
<1> SUFFICES ASSUME Init PROVE IInv
  OBVIOUS
<1>1. /\ seq = P!Fresh(MinCapacity) /\ counted = [v \in Value |-> 0]
      /\ lost = [v \in Value |-> 0] /\ copies = FALSE /\ call = NoCall /\ fault = "none"
  BY SameFronts DEF Init
<1>2. MinCapacity \in Capacities
  BY CapacityAssumption
<1>3. P!Sound(seq)
  BY <1>1, <1>2, Assumptions, P!FreshSound
<1>4. P!Typed(seq) /\ P!Clean(seq)
  BY <1>1, <1>2, Assumptions, P!FreshCells
<1>5. seq.size = 0
  BY <1>1 DEF P!Fresh, P!FromBuffer
<1>6. Items(seq) = << >>
  <2>1. Items(seq) \in Seq(Bits) /\ Len(Items(seq)) = 0
    BY <1>3, <1>5, ItemsAre
  <2> QED BY <2>1
<1>7. \A v : Times(v, Items(seq)) = 0 /\ Times(v, NoCall.built) = 0
  BY <1>6, NoCallFits, TimesEmpty
<1>8. Emptied(seq, NoCall)
  BY <1>7, NoCallFits DEF Emptied, Holds, One
<1>9. Balance(seq, NoCall, counted, lost) /\ Counts(counted, lost)
  BY <1>1, <1>7, SizeAssumption DEF Balance, Counts
<1>10. Kept(seq) /\ seq.size <= MaxSize
  BY <1>3, <1>4, <1>5, SizeAssumption DEF Kept
<1>11. CallShape(NoCall) /\ Undisturbed(seq, NoCall)
  BY NoCallFits
<1>12. Inv(seq, NoCall, counted, lost, FALSE, "none")
  BY <1>4, <1>8, <1>9, <1>10, <1>11 DEF Inv
<1> QED BY <1>1, <1>12 DEF IInv

LEMMA NextHolds == IInv /\ [Next]_vars => IInv'
<1> SUFFICES ASSUME IInv, [Next]_vars PROVE IInv'
  OBVIOUS
<1>1. CASE UNCHANGED vars \/ Stopped
  BY <1>1, SameInv DEF Stopped
<1>2. CASE fault = "none" /\ Edit
  <2>1. CASE \E v \in Value : Push(v) \/ Unshift(v)
    BY <1>2, <2>1, PushHolds, UnshiftHolds
  <2>2. CASE \E p \in 1 .. seq.size - 1, v \in Value : Insert(p, v)
    BY <1>2, <2>2, InsertHolds
  <2>3. CASE \E p \in Position : Remove(p)
    BY <1>2, <2>3, RemoveHolds DEF Position
  <2>4. CASE ResetHead
    BY <1>2, <2>4, ResetHeadHolds
  <2> QED BY <1>2, <2>1, <2>2, <2>3, <2>4 DEF Edit
<1>3. CASE fault = "none" /\ \E op \in Methods : Begin(op)
  BY <1>3, BeginHolds
<1>4. CASE fault = "none" /\ CallBack
  BY <1>4, CallBackHolds
<1>5. CASE fault = "none" /\ \E v \in Value : MapReturns(v) \/ ApplyReturns(v)
  BY <1>5, MapReturnsHolds, ApplyReturnsHolds
<1>6. CASE fault = "none" /\ \E keeps \in BOOLEAN : FilterReturns(keeps)
  BY <1>6, FilterReturnsHolds
<1>7. CASE fault = "none" /\ (BuildThrows \/ BuildEnds)
  BY <1>7, BuildThrowsHolds, BuildEndsHolds
<1>8. CASE fault = "none" /\ \E p \in Position, v \in Value : SetReleases(p, v)
  BY <1>8, SetReleasesHolds DEF Position
<1>9. CASE fault = "none" /\ (ApplyThrows \/ Store \/ ApplyEnds)
  BY <1>9, ApplyThrowsHolds, StoreHolds
<1>10. CASE fault = "none" /\ (ClearReleases \/ ClearGoesOn \/ ClearEnds)
  BY <1>10, ClearReleasesHolds, ClearGoesOnHolds, ClearEndsHolds
<1> QED BY <1>1, <1>2, <1>3, <1>4, <1>5, <1>6, <1>7, <1>8, <1>9, <1>10 DEF Next

\* The inductive invariant of a sequence and the method at work on it: what the
\* method has read of the sequence and holds of its values, where released
\* values lie, and the balance of the counts.
THEOREM OwnershipInductive == Spec => []IInv
BY InitHolds, NextHolds, PTL DEF Spec

-----------------------------------------------------------------------------
(* The properties.                                                         *)

\* A sequence keeps the shape of a ds_seq_t, and its window the room that its
\* capacity gives it, whatever callbacks and destructors do to it while map,
\* filter, apply, set and clear walk over it; no count of references is
\* negative (ds_seq.h:31-38, ds_seq.c:693-790).
THEOREM OwnerTyped == Spec => []TypeOK
<1>1. IInv => TypeOK
  <2> SUFFICES ASSUME IInv PROVE TypeOK
    OBVIOUS
  <2>1. /\ P!Sound(seq) /\ P!Typed(seq) /\ CallShape(call) /\ Counts(counted, lost)
        /\ copies \in BOOLEAN /\ fault \in Faults \union {"none"}
    BY DEF IInv, Inv, Kept
  <2>2. P!Shaped(seq) /\ seq.capacity \in Nat \ {0}
    BY <2>1, ItemsAre DEF P!Sound
  <2>3. seq.buffer \in [0 .. seq.capacity - 1 -> (Value \union {Gone}) \union {Hole}]
    BY <2>1 DEF P!Typed, P!Legible
  <2>4. S!Fields = P!Fields
    BY DEF S!Fields, P!Fields
  <2>5. S!TypeOK
    BY <2>2, <2>3, <2>4 DEF S!TypeOK, P!Shaped, P!Cells
  <2>6. call.at \in 0 .. MaxSize
    BY <2>1, SizeAssumption DEF CallShape
  <2> QED BY <2>1, <2>5, <2>6 DEF TypeOK, Counts, CallShape
<1> QED BY <1>1, OwnershipInductive, PTL

\* The cells of the window hold what the sequence's values are.
LEMMA WindowHolding ==
  ASSUME P!Sound(seq), NEW v
  PROVE  /\ Holding(S!Window(seq), v) = Times(v, Items(seq))
         /\ IsFiniteSet({i \in S!Window(seq) : seq.buffer[i] = v})
<1> DEFINE A == {j \in DOMAIN Items(seq) : Items(seq)[j] = v}
           B == {i \in S!Window(seq) : seq.buffer[i] = v}
           h == [j \in A |-> S!Cell(seq, j - 1)]
<1>1. DOMAIN Items(seq) = 1 .. seq.size /\ Items(seq) \in Seq(Bits) /\ seq.size \in Nat
  BY ItemsAre, LenProperties
<1>2. ASSUME NEW j \in 1 .. seq.size
      PROVE  /\ j - 1 \in 0 .. seq.size - 1 /\ (j - 1) + 1 = j
             /\ Items(seq)[j] = seq.buffer[S!Cell(seq, j - 1)]
             /\ S!Cell(seq, j - 1) \in S!Window(seq)
  <2>1. PICK p \in 0 .. seq.size - 1 : p = j - 1 /\ p + 1 = j
    BY <1>1
  <2>2. Items(seq)[p + 1] = seq.buffer[S!Cell(seq, p)] /\ S!Cell(seq, p) \in S!Window(seq)
    BY ItemAt
  <2> QED BY <2>1, <2>2
<1>3. h \in [A -> B]
  BY <1>1, <1>2
<1>4. ASSUME NEW x \in A, NEW y \in A, h[x] = h[y] PROVE x = y
  <2>1. x \in 1 .. seq.size /\ y \in 1 .. seq.size
    BY <1>1
  <2>2. x - 1 = y - 1
    BY <1>2, <1>4, <2>1, CellsDiffer
  <2> QED BY <2>1, <2>2
<1>5. ASSUME NEW i \in B PROVE \E j \in A : h[j] = i
  <2>1. PICK p \in 0 .. seq.size - 1 : i = S!Cell(seq, p)
    BY PositionOf
  <2>2. p + 1 \in 1 .. seq.size /\ (p + 1) - 1 = p
    BY <1>1
  <2>3. p + 1 \in A
    BY <1>1, <1>2, <2>1, <2>2
  <2> QED BY <2>1, <2>2, <2>3
<1>6. IsFiniteSet(A) /\ Times(v, Items(seq)) = Cardinality(A)
  BY <1>1, TimesNat DEF Times
<1>7. Holding(S!Window(seq), v) = Cardinality(B)
  BY DEF Holding
<1> HIDE DEF A, B, h
<1>8. IsFiniteSet(B) /\ Cardinality(B) = Cardinality(A)
  BY <1>3, <1>4, <1>5, <1>6, SameSize
<1> QED BY <1>6, <1>7, <1>8 DEF B

\* Every reference is that of a cell of the window, or one the method under way
\* holds, or was lost by a map() whose callback threw, however user code edits
\* the sequence in the midst of a walk; and what the methods do wrong needs such
\* an edit, or a tail left at the capacity (ds_seq.c:200-213, 693-790, 400).
THEOREM CountsBalanced == Spec => []CountsBalance
<1>1. IInv => CountsBalance
  <2> SUFFICES ASSUME IInv PROVE CountsBalance
    OBVIOUS
  <2>1. CASE fault = "none"
    <3>1. P!Sound(seq) /\ Balance(seq, call, counted, lost)
      BY <2>1, InvParts
    <3>2. ASSUME NEW v \in Value
          PROVE  counted[v] = Holding(S!Window(seq), v) + Times(v, call.built) + lost[v]
      <4>1. Holding(S!Window(seq), v) = Times(v, Items(seq))
        BY <3>1, WindowHolding
      <4> QED BY <3>1, <4>1 DEF Balance
    <3> QED BY <2>1, <3>2 DEF CountsBalance
  <2>2. CASE fault # "none"
    BY <2>2 DEF IInv, Inv, CountsBalance
  <2> QED BY <2>1, <2>2
<1> QED BY <1>1, OwnershipInductive, PTL

\* The cells that get_gc reports.
LEMMA Reported ==
  ASSUME IInv, fault = "none", seq.head = 0 \/ ~ copies
  PROVE  /\ S!Window(seq) \subseteq ReportedCells
         /\ \A i \in ReportedCells \ S!Window(seq) : seq.buffer[i] = Hole
<1>1. /\ P!Sound(seq) /\ P!Shaped(seq) /\ seq.size \in Nat /\ seq.head \in Nat
      /\ seq.capacity \in Nat \ {0} /\ seq.size <= seq.capacity
      /\ (copies \/ P!Clean(seq))
  BY InvParts, ItemsAre DEF P!Sound
<1>2. /\ \A i \in 0 .. seq.capacity - 1 : i \in S!Window(seq) <=> P!Covers(seq, i)
      /\ S!Window(seq) \subseteq 0 .. seq.capacity - 1
  <2>1. /\ \A i \in P!Cells(seq) : i \in P!Window(seq) <=> P!Covers(seq, i)
        /\ P!Window(seq) \subseteq P!Cells(seq)
    BY <1>1, Assumptions, P!WindowIsCovered
  <2>2. P!Cells(seq) = 0 .. seq.capacity - 1 /\ S!Window(seq) = P!Window(seq)
    BY SameCells DEF P!Cells
  <2> QED BY ONLY <2>1, <2>2
<1>3. CASE seq.head = 0
  <2>1. ReportedCells = 0 .. seq.size - 1
    BY <1>3 DEF ReportedCells
  <2>2. \A i \in 0 .. seq.capacity - 1 : P!Covers(seq, i) <=> i < seq.size
    BY <1>1, <1>3 DEF P!Covers, P!Around
  <2> QED BY <1>1, <1>2, <2>1, <2>2
<1>4. CASE seq.head # 0
  <2>1. ReportedCells = 0 .. seq.capacity - 1 /\ P!Clean(seq)
    BY <1>1, <1>4 DEF ReportedCells
  <2>2. \A i \in 0 .. seq.capacity - 1 : ~ P!Covers(seq, i) => seq.buffer[i] = Hole
    BY <2>1 DEF P!Clean, P!Bare, P!Covers
  <2> QED BY <1>2, <2>1, <2>2
<1> QED BY <1>3, <1>4

\* The cycle collector is told of exactly the references that the sequence owns,
\* unless moves or clear() have left copies in the cells of a buffer whose head
\* has moved, or a method has released a value that still lies in its cell
\* (php_seq_handlers.c:115-122, common.h:60-72).
THEOREM CollectorToldOfOwn == Spec => []CollectorSeesOwn
<1>1. IInv => CollectorSeesOwn
  <2> SUFFICES ASSUME IInv, fault = "none", call.phase # "destructor", call.op # "clear",
                      seq.head = 0 \/ ~ copies
               PROVE  /\ \A v \in Value : Holding(ReportedCells, v) = Holding(S!Window(seq), v)
                      /\ Holding(ReportedCells, Gone) = 0
    BY DEF CollectorSeesOwn
  <2>1. ASSUME NEW v, v # Hole PROVE Holding(ReportedCells, v) = Holding(S!Window(seq), v)
    <3>1. {i \in ReportedCells : seq.buffer[i] = v} = {i \in S!Window(seq) : seq.buffer[i] = v}
      BY <2>1, Reported
    <3> QED BY <3>1 DEF Holding
  <2>2. Holding(S!Window(seq), Gone) = 0
    BY AllLive, InvParts, WindowHolding
  <2> QED BY <2>1, <2>2, GoneAssumption
<1> QED BY <1>1, OwnershipInductive, PTL

=============================================================================
