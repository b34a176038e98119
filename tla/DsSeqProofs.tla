---------------------------- MODULE DsSeqProofs ----------------------------
(***************************************************************************)
(* The inductive invariant of DsSeq: the shape of the ring buffer and what *)
(* its window holds.  The first half is about buffers alone: what each     *)
(* operator that remakes a sequence does to one whose window is sound.     *)
(***************************************************************************)
EXTENDS DsSeq, ScanProofs, SequenceTheorems

-----------------------------------------------------------------------------
(* Arithmetic around the end of the buffer.                                *)

\* Of c cells, i is one of the n from h on, around the end.
Around(c, h, n, i) == (h <= i /\ i < h + n) \/ i + c < h + n

Covers(s, i) == Around(s.capacity, s.head, s.size, i)

Cells(s) == 0 .. s.capacity - 1

\* The fields of a sequence, but for what its cells hold.
Shaped(s) ==
  /\ s = [f \in Fields |-> s[f]]
  /\ s.capacity \in Capacities
  /\ s.head \in Cells(s)
  /\ s.tail \in 0 .. s.capacity
  /\ s.size \in 0 .. s.capacity
  /\ DOMAIN s.buffer = Cells(s)
  /\ Measured(s)

\* A sequence whose window holds values; other cells may hold anything.
Sound(s) ==
  /\ Shaped(s)
  /\ \A i \in Cells(s) : Covers(s, i) => s.buffer[i] \in Value

LEMMA PositiveCapacities == \A c \in Capacities : c \in Nat /\ c > 0
BY CapacityAssumption

LEMMA CellOfPosition ==
  ASSUME NEW s, Shaped(s), NEW p \in 0 .. s.size - 1
  PROVE  /\ Cell(s, p) = IF s.head + p < s.capacity THEN s.head + p
                         ELSE s.head + p - s.capacity
         /\ Cell(s, p) \in Cells(s) /\ Covers(s, Cell(s, p))
         /\ (Cell(s, p) - s.head) % s.capacity = p
<1> DEFINE c == s.capacity
           i == Cell(s, p)
<1>1. c \in Nat \ {0} /\ s.head \in 0 .. c - 1 /\ s.size \in 0 .. c
  BY PositiveCapacities DEF Shaped, Cells
<1>2. i = (s.head + p) % c
  BY DEF Cell
<1> HIDE DEF i
<1>3. i = IF s.head + p < c THEN s.head + p ELSE s.head + p - c
  <2>1. CASE s.head + p < c
    BY <1>1, <1>2, <2>1
  <2>2. CASE c <= s.head + p
    BY <1>1, <1>2, <2>2
  <2> QED BY <1>1, <2>1, <2>2
<1>4. i \in 0 .. c - 1
  BY <1>1, <1>3
<1>5. (i - s.head) % c = p
  <2>1. CASE s.head + p < c
    BY <1>1, <1>3, <2>1
  <2>2. CASE c <= s.head + p
    BY <1>1, <1>3, <2>2
  <2> QED BY <1>1, <2>1, <2>2
<1>6. Covers(s, i)
  BY <1>1, <1>3 DEF Covers, Around
<1> QED BY <1>3, <1>4, <1>5, <1>6 DEF Cells, i

LEMMA WindowIsCovered ==
  ASSUME NEW s, Shaped(s)
  PROVE  /\ \A i \in Cells(s) : i \in Window(s) <=> Covers(s, i)
         /\ Window(s) \subseteq Cells(s)
<1> DEFINE c == s.capacity
<1>1. c \in Nat \ {0} /\ s.head \in 0 .. c - 1 /\ s.size \in 0 .. c
  BY PositiveCapacities DEF Shaped, Cells
<1>2. ASSUME NEW i \in Window(s) PROVE i \in Cells(s) /\ Covers(s, i)
  BY CellOfPosition DEF Window
<1>3. ASSUME NEW i \in Cells(s), Covers(s, i) PROVE i \in Window(s)
  <2> DEFINE p == IF s.head <= i THEN i - s.head ELSE i + c - s.head
  <2>1. p \in 0 .. s.size - 1
    BY <1>1, <1>3 DEF Covers, Around, Cells
  <2>2. Cell(s, p) = IF s.head + p < c THEN s.head + p ELSE s.head + p - c
    BY <2>1, CellOfPosition
  <2>3. Cell(s, p) = i
    BY <1>1, <2>2 DEF Cells
  <2> QED BY <2>1, <2>3 DEF Window
<1> QED BY <1>2, <1>3

\* What an operation leaves in the variable seq is sound when what it makes is.
Settled(s) ==
  /\ Sound(s)
  /\ s.buffer \in [Cells(s) -> Value \union {Hole}]
  /\ \A i \in Cells(s) : s.buffer[i] # Hole <=> Covers(s, i)

LEMMA TidySettles ==
  ASSUME NEW s, Sound(s)
  PROVE  Settled(Tidy(s)) /\ Tidy(s).capacity = s.capacity
<1> DEFINE u == Tidy(s)
<1>1. /\ u = [f \in Fields |-> u[f]]
      /\ u.capacity = s.capacity /\ u.head = s.head
      /\ u.tail = s.tail /\ u.size = s.size
      /\ u.buffer = [i \in Cells(s) |-> IF i \in Window(s) THEN s.buffer[i] ELSE Hole]
  BY DEF Tidy, Sound, Shaped, Fields, Cells
<1> HIDE DEF u
<1>2. Cells(u) = Cells(s) /\ \A i : Covers(u, i) <=> Covers(s, i)
  BY <1>1 DEF Cells, Covers, Around
<1>3. Shaped(u)
  BY <1>1, <1>2 DEF Sound, Shaped, Measured
<1>4. \A i \in Cells(s) : u.buffer[i] = IF Covers(s, i) THEN s.buffer[i] ELSE Hole
  BY <1>1, WindowIsCovered DEF Sound
<1>5. \A i \in Cells(s) : Covers(s, i) => s.buffer[i] \in Value /\ s.buffer[i] # Hole
  BY HoleAssumption DEF Sound
<1>6. u.buffer \in [Cells(s) -> Value \union {Hole}]
  BY <1>1, <1>4, <1>5
<1> QED BY <1>1, <1>2, <1>3, <1>4, <1>5, <1>6 DEF Settled, Sound, u

-----------------------------------------------------------------------------
(* Moving and filling cells.                                               *)

\* The buffer g is b with n cells from src on copied to dst.
MovedTo(g, b, dst, src, n) ==
  /\ DOMAIN g = DOMAIN b
  /\ \A i \in DOMAIN b :
       /\ dst <= i /\ i < dst + n => g[i] = b[src + i - dst]
       /\ ~ (dst <= i /\ i < dst + n) => g[i] = b[i]

LEMMA MovedCells ==
  ASSUME NEW c \in Nat, NEW b, DOMAIN b = 0 .. c - 1,
         NEW dst \in Int, NEW src \in Int, NEW n \in Int
  PROVE  MovedTo(Move(b, dst, src, n), b, dst, src, n)
<1>1. \A i \in 0 .. c - 1 : i \in dst .. dst + n - 1 <=> dst <= i /\ i < dst + n
  OBVIOUS
<1> QED BY <1>1 DEF Move, MovedTo

\* The buffer g is b with values in the n cells from i on, around the end.
FilledAt(g, b, c, i, n) ==
  /\ DOMAIN g = 0 .. c - 1
  /\ \A j \in 0 .. c - 1 :
       /\ Around(c, i, n, j) => g[j] \in Value
       /\ ~ Around(c, i, n, j) => g[j] = b[j]

LEMMA FilledCells ==
  ASSUME NEW c \in Nat \ {0}, NEW b, DOMAIN b = 0 .. c - 1, NEW i \in 0 .. c - 1,
         NEW vs \in Seq(Value), NEW n \in 0 .. c, Len(vs) = n
  PROVE  FilledAt(Filled(b, i, vs, c), b, c, i, n)
<1>1. ASSUME NEW j \in 0 .. c - 1
      PROVE  /\ Around(c, i, n, j) => Filled(b, i, vs, c)[j] \in Value
             /\ ~ Around(c, i, n, j) => Filled(b, i, vs, c)[j] = b[j]
  <2>1. PICK r \in Int : r = (j - i) % c
    OBVIOUS
  <2>2. Filled(b, i, vs, c)[j] = IF r < n THEN vs[r + 1] ELSE b[j]
    BY <2>1 DEF Filled
  <2>3. CASE i <= j
    <3>1. r = j - i
      BY <2>1, <2>3
    <3> QED BY <2>2, <2>3, <3>1 DEF Around
  <2>4. CASE j < i
    <3>1. r = j - i + c
      BY <2>1, <2>4
    <3> QED BY <2>2, <2>4, <3>1 DEF Around
  <2> QED BY <2>3, <2>4
<1> QED BY <1>1 DEF Filled, FilledAt

-----------------------------------------------------------------------------
(* Buffers that move to the front, grow and shrink.                        *)

LEMMA Bounds ==
  ASSUME NEW s, Shaped(s)
  PROVE  /\ s.capacity \in Nat \ {0} /\ s.head \in 0 .. s.capacity - 1
         /\ s.tail \in 0 .. s.capacity /\ s.size \in 0 .. s.capacity
         /\ DOMAIN s.buffer = 0 .. s.capacity - 1
         /\ \/ s.head + s.size = s.tail
            \/ s.head + s.size = s.tail + s.capacity
            \/ s.size = 0 /\ s.head = 0 /\ s.tail = s.capacity
BY PositiveCapacities DEF Shaped, Cells, Measured

\* The values come first in the buffer.
Leading(b, n) == \A i \in 0 .. n - 1 : b[i] \in Value

LEMMA FrontHoldsValues ==
  ASSUME NEW s, Sound(s)
  PROVE  /\ DOMAIN FrontBuffer(s) = Cells(s)
         /\ Leading(FrontBuffer(s), s.size)
<1> DEFINE c == s.capacity
           h == s.head
           t == s.tail
           z == s.size
           b == s.buffer
           r == c - h
<1>1. /\ c \in Nat \ {0} /\ h \in 0 .. c - 1 /\ t \in 0 .. c /\ z \in 0 .. c
      /\ DOMAIN b = 0 .. c - 1
      /\ h + z = t \/ h + z = t + c \/ (z = 0 /\ h = 0 /\ t = c)
  BY Bounds DEF Sound
<1>2. \A i \in 0 .. c - 1 : (h <= i /\ i < h + z) \/ i + c < h + z => b[i] \in Value
  BY DEF Sound, Covers, Around, Cells
<1>3. CASE h < t
  <2>1. FrontBuffer(s) = Move(b, 0, h, z)
    BY <1>3 DEF FrontBuffer
  <2> HIDE DEF b, c, h, t, z
  <2>2. \A i \in 0 .. z - 1 : h + i \in 0 .. c - 1 /\ h + i < h + z /\ h <= h + i
    BY <1>1, <1>3
  <2>3. MovedTo(Move(b, 0, h, z), b, 0, h, z)
    BY <1>1, MovedCells
  <2>4. \A i \in 0 .. z - 1 : Move(b, 0, h, z)[i] = b[h + i]
    BY <1>1, <2>3 DEF MovedTo
  <2>5. \A i \in 0 .. z - 1 : b[h + i] \in Value
    BY <1>2, <2>2
  <2>6. DOMAIN FrontBuffer(s) = 0 .. c - 1
    BY <1>1, <2>1, <2>3 DEF MovedTo
  <2>7. Leading(FrontBuffer(s), z)
    BY <2>1, <2>4, <2>5 DEF Leading
  <2> QED BY <2>6, <2>7 DEF Cells, c, z
<1>4. CASE h >= t /\ RoomBetween(h, t, r)
  <2> DEFINE m == Move(b, r, 0, t)
  <2>1. FrontBuffer(s) = Move(m, 0, h, r) /\ r < h - t
    BY <1>1, <1>4 DEF FrontBuffer, RoomBetween
  <2>2. MovedTo(m, b, r, 0, t)
    <3> HIDE DEF b, c, h, t
    <3> QED BY <1>1, MovedCells
  <2>3. DOMAIN m = 0 .. c - 1
    BY <1>1, <2>2 DEF MovedTo
  <2> HIDE DEF m
  <2>9. MovedTo(Move(m, 0, h, r), m, 0, h, r)
    <3> HIDE DEF b, c, h, t
    <3> QED BY <1>1, <2>3, MovedCells
  <2> HIDE DEF b, c, h, t, z
  <2>4. ASSUME NEW i \in 0 .. z - 1, i < r PROVE Move(m, 0, h, r)[i] \in Value
    <3>1. h + i \in 0 .. c - 1 /\ ~ (r <= h + i /\ h + i < r + t)
      BY <1>1, <2>1, <2>4
    <3>2. Move(m, 0, h, r)[i] = m[h + i]
      BY <1>1, <2>3, <2>9, <2>4 DEF MovedTo
    <3>3. m[h + i] = b[h + i]
      BY <1>1, <2>2, <3>1 DEF MovedTo
    <3> QED BY <1>1, <1>2, <2>4, <3>1, <3>2, <3>3
  <2>5. ASSUME NEW i \in 0 .. z - 1, r <= i PROVE Move(m, 0, h, r)[i] \in Value
    <3>1. /\ i \in 0 .. c - 1 /\ r <= i /\ i < r + t
          /\ 0 + i - r = i - r /\ i - r \in 0 .. c - 1 /\ (i - r) + c < h + z
      BY <1>1, <1>4, <2>1, <2>5
    <3>2. Move(m, 0, h, r)[i] = m[i]
      BY <1>1, <2>3, <2>9, <3>1 DEF MovedTo
    <3>3. m[i] = b[i - r]
      BY <1>1, <2>2, <3>1 DEF MovedTo
    <3> QED BY <1>2, <3>1, <3>2, <3>3
  <2>6. DOMAIN FrontBuffer(s) = 0 .. c - 1
    BY <1>1, <2>1, <2>3, <2>9 DEF MovedTo
  <2>7. \A i \in 0 .. z - 1 : i < r \/ r <= i
    BY <1>1
  <2>8. Leading(FrontBuffer(s), z)
    BY <2>1, <2>4, <2>5, <2>7 DEF Leading
  <2> QED BY <2>6, <2>8 DEF Cells, c, z
<1>5. CASE h >= t /\ ~ RoomBetween(h, t, r)
  <2>1. FrontBuffer(s) = [i \in 0 .. c - 1 |->
              IF i < r THEN b[h + i] ELSE IF i < r + t THEN b[i - r] ELSE Hole]
    BY <1>1, <1>5 DEF FrontBuffer
  <2> HIDE DEF b, c, h, t, z
  <2>2. ASSUME NEW i \in 0 .. z - 1 PROVE FrontBuffer(s)[i] \in Value
    <3>0. i \in 0 .. c - 1
      BY <1>1
    <3>1. CASE i < r
      <4>1. h + i \in 0 .. c - 1 /\ h <= h + i /\ h + i < h + z
        BY <1>1, <3>1
      <4> QED BY <1>2, <2>1, <3>0, <3>1, <4>1
    <3>2. CASE r <= i
      <4>1. i - r \in 0 .. c - 1 /\ (i - r) + c < h + z /\ i < r + t /\ ~ (i < r)
        BY <1>1, <1>5, <3>2
      <4> QED BY <1>2, <2>1, <3>0, <4>1
    <3> QED BY <1>1, <3>1, <3>2
  <2>3. DOMAIN FrontBuffer(s) = 0 .. c - 1
    BY <2>1
  <2> QED BY <2>2, <2>3 DEF Leading, Cells, c, z
<1> QED BY <1>1, <1>3, <1>4, <1>5

\* A sequence laid out from cell 0, tail after its last value.
LEMMA LaidOutSound ==
  ASSUME NEW s, s = [f \in Fields |-> s[f]],
         s.capacity \in Capacities, s.size \in 0 .. s.capacity,
         s.head = 0, s.tail = s.size,
         DOMAIN s.buffer = Cells(s), Leading(s.buffer, s.size)
  PROVE  Sound(s)
<1>1. s.capacity \in Nat \ {0}
  BY PositiveCapacities
<1>2. Shaped(s)
  BY <1>1 DEF Shaped, Measured, Cells
<1>3. \A i \in Cells(s) : Covers(s, i) => i \in 0 .. s.size - 1
  BY <1>1 DEF Cells, Covers, Around
<1> QED BY <1>2, <1>3 DEF Sound, Leading

LEMMA ResetHeadSound ==
  ASSUME NEW s, Sound(s)
  PROVE  LET u == ResetHead(s) IN
         /\ Sound(u) /\ u.head = 0 /\ u.size = s.size /\ u.capacity = s.capacity
         /\ Leading(u.buffer, s.size) /\ DOMAIN u.buffer = Cells(s)
<1> DEFINE u == ResetHead(s)
<1>0. /\ s.capacity \in Nat \ {0} /\ s.size \in 0 .. s.capacity
      /\ s = [f \in Fields |-> s[f]] /\ s.capacity \in Capacities
  BY Bounds DEF Sound, Shaped
<1>1. CASE s.head = 0
  <2>1. u = s
    BY <1>1 DEF ResetHead
  <2>2. \A i \in 0 .. s.size - 1 : i \in Cells(s) /\ Covers(s, i)
    BY <1>0, <1>1 DEF Cells, Covers, Around
  <2> QED BY <1>1, <2>1, <2>2 DEF Sound, Shaped, Leading
<1>2. CASE s.head # 0
  <2>1. /\ u = [f \in Fields |-> u[f]]
        /\ u.buffer = FrontBuffer(s) /\ u.head = 0 /\ u.tail = s.size
        /\ u.size = s.size /\ u.capacity = s.capacity
    BY <1>0, <1>2 DEF ResetHead, Fields
  <2> HIDE DEF u
  <2>2. DOMAIN u.buffer = Cells(u) /\ Leading(u.buffer, u.size) /\ Cells(u) = Cells(s)
    BY <2>1, FrontHoldsValues DEF Cells
  <2>3. Sound(u)
    BY <1>0, <2>1, <2>2, LaidOutSound
  <2> QED BY <2>1, <2>2, <2>3 DEF u
<1> QED BY <1>1, <1>2

LEMMA ReallocateSound ==
  ASSUME NEW s, Sound(s), NEW c \in Capacities, s.size <= c
  PROVE  /\ Sound(Reallocate(s, c))
         /\ Reallocate(s, c).capacity = c /\ Reallocate(s, c).size = s.size
         /\ Reallocate(s, c).tail = s.size
<1> DEFINE u == Reallocate(s, c)
           b == ResetHead(s).buffer
<1>1. /\ u.buffer = [i \in 0 .. c - 1 |-> IF i < s.capacity THEN b[i] ELSE Hole]
      /\ u.capacity = c /\ u.head = 0 /\ u.tail = s.size /\ u.size = s.size
      /\ u = [f \in Fields |-> u[f]]
  BY DEF Reallocate, Fields
<1>2. Leading(b, s.size)
  BY ResetHeadSound
<1>3. s.capacity \in Nat \ {0} /\ s.size \in 0 .. s.capacity /\ c \in Nat \ {0}
  BY Bounds, PositiveCapacities DEF Sound
<1> HIDE DEF u, b
<1>4. DOMAIN u.buffer = Cells(u)
  BY <1>1 DEF Cells
<1>5. \A i \in 0 .. s.size - 1 : i \in 0 .. c - 1 /\ i < s.capacity
  BY <1>3
<1>6. Leading(u.buffer, u.size)
  BY <1>1, <1>2, <1>5 DEF Leading
<1>7. Sound(u)
  BY <1>1, <1>3, <1>4, <1>6, LaidOutSound
<1> QED BY <1>1, <1>7 DEF u

LEMMA CapacityForFits ==
  ASSUME NEW n, NEW c \in Capacities, n \in Nat, n <= c
  PROVE  CapacityFor(n) \in Capacities /\ n <= CapacityFor(n)
<1> DEFINE T == {d \in Capacities : n <= d}
<1>1. T \subseteq Nat /\ T # {}
  BY PositiveCapacities
<1>2. PICK x \in T : \A y \in T : x <= y
  BY <1>1, LeastNat
<1>3. \E d \in Capacities : n <= d /\ \A e \in Capacities : n <= e => d <= e
  BY <1>2
<1> QED BY <1>3 DEF CapacityFor

LEMMA AllocateSound ==
  ASSUME NEW s, Sound(s), NEW n \in 0 .. MaxSize
  PROVE  /\ Sound(Allocate(s, n))
         /\ Allocate(s, n).size = s.size /\ n <= Allocate(s, n).capacity
<1>1. PICK c \in Capacities : n <= c
  BY SizeAssumption
<1>2. n \in Nat
  BY SizeAssumption
<1>3. CapacityFor(n) \in Capacities /\ n <= CapacityFor(n)
  BY <1>1, <1>2, CapacityForFits
<1>4. PICK d \in Capacities : d = CapacityFor(n)
  BY <1>3
<1>5. s.capacity \in Nat \ {0} /\ s.size \in 0 .. s.capacity /\ d \in Nat \ {0}
  BY Bounds, PositiveCapacities DEF Sound
<1>6. CASE d > s.capacity
  <2>1. Allocate(s, n) = Reallocate(s, d)
    BY <1>4, <1>6 DEF Allocate
  <2>2. s.size <= d
    BY <1>5, <1>6
  <2> QED BY <1>3, <1>4, <2>1, <2>2, ReallocateSound
<1>7. CASE ~ (d > s.capacity)
  <2>1. Allocate(s, n) = s
    BY <1>4, <1>7 DEF Allocate
  <2> QED BY <1>2, <1>3, <1>4, <1>5, <1>7, <2>1
<1> QED BY <1>6, <1>7

LEMMA AutoTruncateSound ==
  ASSUME NEW s, Sound(s)
  PROVE  Sound(AutoTruncate(s)) /\ AutoTruncate(s).size = s.size
<1>1. CASE Truncates(s)
  <2>1. PICK d : d = s.capacity \div 2
    OBVIOUS
  <2>2. s.capacity \in Nat \ {0} /\ s.size \in Nat /\ s.capacity \in Capacities
    BY Bounds DEF Sound, Shaped
  <2>3. s.size <= s.capacity \div 4 /\ d >= MinCapacity
    BY <1>1, <2>1 DEF Truncates
  <2>4. s.capacity \div 4 <= s.capacity \div 2 /\ s.capacity \div 4 \in Int /\ d \in Int
    BY <2>1, <2>2
  <2>5. s.size <= d
    BY <2>1, <2>2, <2>3, <2>4
  <2>6. d \in Capacities
    BY <2>1, <2>2, <2>3, CapacityAssumption
  <2>7. AutoTruncate(s) = Reallocate(s, d)
    BY <1>1, <2>1 DEF AutoTruncate
  <2> QED BY <2>5, <2>6, <2>7, ReallocateSound
<1>2. CASE ~ Truncates(s)
  BY <1>2 DEF AutoTruncate
<1> QED BY <1>1, <1>2

LEMMA FromBufferSound ==
  ASSUME NEW c \in Capacities, NEW vs \in Seq(Value), Len(vs) <= c
  PROVE  /\ Sound(FromBuffer(c, vs))
         /\ FromBuffer(c, vs).capacity = c /\ FromBuffer(c, vs).size = Len(vs)
         /\ FromBuffer(c, vs).tail = Len(vs)
<1> DEFINE u == FromBuffer(c, vs)
<1>1. /\ u.buffer = [i \in 0 .. c - 1 |-> IF i < Len(vs) THEN vs[i + 1] ELSE Hole]
      /\ u.capacity = c /\ u.head = 0 /\ u.tail = Len(vs) /\ u.size = Len(vs)
      /\ u = [f \in Fields |-> u[f]]
  BY DEF FromBuffer, Fields
<1>2. c \in Nat \ {0} /\ Len(vs) \in Nat
  BY PositiveCapacities
<1> HIDE DEF u
<1>3. DOMAIN u.buffer = Cells(u)
  BY <1>1 DEF Cells
<1>4. \A i \in 0 .. Len(vs) - 1 : i \in 0 .. c - 1 /\ i < Len(vs) /\ vs[i + 1] \in Value
  BY <1>2
<1>5. Leading(u.buffer, u.size)
  BY <1>1, <1>4 DEF Leading
<1>6. Sound(u)
  BY <1>1, <1>2, <1>3, <1>5, LaidOutSound
<1> QED BY <1>1, <1>6 DEF u

-----------------------------------------------------------------------------
(* Values put in and taken out.                                            *)

\* Numbers that are the fields of s, fit each other, and name a window of b that
\* holds values.
Has(s, c, h, t, z) ==
  /\ s = [f \in Fields |-> s[f]]
  /\ c = s.capacity /\ h = s.head /\ t = s.tail /\ z = s.size

Fits(c, h, t, z) ==
  /\ h < c /\ t <= c /\ z <= c
  /\ h + z = t \/ h + z = t + c \/ (z = 0 /\ h = 0 /\ t = c)

Fills(b, c, h, z) ==
  /\ DOMAIN b = 0 .. c - 1
  /\ \A i \in 0 .. c - 1 : Around(c, h, z, i) => b[i] \in Value

LEMMA Parts ==
  ASSUME NEW s, Sound(s)
  PROVE  \E c \in Nat \ {0}, h \in Nat, t \in Nat, z \in Nat :
           /\ Has(s, c, h, t, z) /\ c \in Capacities
           /\ Fits(c, h, t, z) /\ Fills(s.buffer, c, h, z)
<1> USE DEF Sound
<1>1. /\ s.capacity \in Nat \ {0} /\ s.head \in Nat /\ s.tail \in Nat /\ s.size \in Nat
      /\ Fits(s.capacity, s.head, s.tail, s.size)
  BY Bounds DEF Fits
<1>2. Has(s, s.capacity, s.head, s.tail, s.size) /\ s.capacity \in Capacities
  BY DEF Shaped, Has
<1>3. Fills(s.buffer, s.capacity, s.head, s.size)
  BY Bounds DEF Fills, Covers, Cells
<1> USE <1>1
<1> WITNESS s.capacity \in Nat \ {0}, s.head \in Nat, s.tail \in Nat, s.size \in Nat
<1> QED BY <1>2, <1>3

\* The parts put together again.
LEMMA Whole ==
  ASSUME NEW u, NEW c \in Capacities, NEW h \in Nat, NEW t \in Nat, NEW z \in Nat,
         Has(u, c, h, t, z), Fits(c, h, t, z), Fills(u.buffer, c, h, z)
  PROVE  Sound(u)
BY PositiveCapacities DEF Has, Fits, Fills, Sound, Shaped, Measured, Covers, Cells

LEMMA PushedSound ==
  ASSUME NEW s, Sound(s), NEW vs \in Seq(Value),
         s.tail # s.capacity, s.size + Len(vs) <= s.capacity
  PROVE  Sound(Pushed(s, vs))
<1> DEFINE u == Pushed(s, vs)
           b == s.buffer
<1>1. PICK c \in Nat \ {0}, h \in Nat, t \in Nat, z \in Nat :
        /\ Has(s, c, h, t, z) /\ c \in Capacities
        /\ Fits(c, h, t, z) /\ Fills(b, c, h, z)
  BY Parts
<1>2. PICK n \in Nat : n = Len(vs)
  OBVIOUS
<1>3. t < c /\ z + n <= c
  BY <1>1, <1>2 DEF Has, Fits
<1>4. PICK k \in Int : k = (t + n) % c
  OBVIOUS
<1>5. k = IF t + n < c THEN t + n ELSE t + n - c
  <2>1. CASE t + n < c
    BY <1>3, <1>4, <2>1
  <2>2. CASE c <= t + n
    BY <1>3, <1>4, <2>2
  <2> QED BY <2>1, <2>2
<1>6. k \in Nat /\ z + n \in Nat /\ Fits(c, h, k, z + n)
  BY <1>1, <1>3, <1>5 DEF Fits
<1>7. Has(u, c, h, k, z + n) /\ u.buffer = Filled(b, t, vs, c)
  BY <1>1, <1>2, <1>4 DEF Pushed, Has, Fields
<1>8. FilledAt(u.buffer, b, c, t, n)
  <2>1. t \in 0 .. c - 1 /\ n \in 0 .. c /\ DOMAIN b = 0 .. c - 1
    BY <1>1, <1>3 DEF Fills
  <2> QED BY <1>2, <1>7, <2>1, FilledCells
<1> HIDE DEF u, b
<1>9. Fills(u.buffer, c, h, z + n)
  <2>1. ASSUME NEW j \in 0 .. c - 1, Around(c, h, z + n, j)
        PROVE  Around(c, t, n, j) \/ Around(c, h, z, j)
    BY <1>1, <1>3, <2>1 DEF Around, Fits
  <2> QED BY <1>1, <1>8, <2>1 DEF Fills, FilledAt
<1> QED BY <1>1, <1>6, <1>7, <1>9, Whole DEF u

LEMMA UnshiftedSound ==
  ASSUME NEW s, Sound(s), NEW vs \in Seq(Value),
         s.size + Len(vs) <= s.capacity
  PROVE  Sound(Unshifted(s, vs))
<1> DEFINE u == Unshifted(s, vs)
           b == s.buffer
<1>1. PICK c \in Nat \ {0}, h \in Nat, t \in Nat, z \in Nat :
        /\ Has(s, c, h, t, z) /\ c \in Capacities
        /\ Fits(c, h, t, z) /\ Fills(b, c, h, z)
  BY Parts
<1>2. PICK n \in Nat : n = Len(vs)
  OBVIOUS
<1>3. z + n <= c /\ h < c
  BY <1>1, <1>2 DEF Has, Fits
<1>4. PICK k \in Int : k = (h - n) % c
  OBVIOUS
<1>5. k = IF h < n THEN h - n + c ELSE h - n
  <2>1. CASE h < n
    BY <1>3, <1>4, <2>1
  <2>2. CASE n <= h
    BY <1>3, <1>4, <2>2
  <2> QED BY <2>1, <2>2
<1>6. k \in Nat /\ k < c /\ z + n \in Nat /\ Fits(c, k, t, z + n)
  BY <1>1, <1>3, <1>5 DEF Fits
<1>7. Has(u, c, k, t, z + n) /\ u.buffer = Filled(b, k, vs, c)
  BY <1>1, <1>2, <1>4 DEF Unshifted, Has, Fields
<1>8. FilledAt(u.buffer, b, c, k, n)
  <2>1. k \in 0 .. c - 1 /\ n \in 0 .. c /\ DOMAIN b = 0 .. c - 1
    BY <1>1, <1>3, <1>6 DEF Fills
  <2> QED BY <1>2, <1>7, <2>1, FilledCells
<1> HIDE DEF u, b
<1>9. Fills(u.buffer, c, k, z + n)
  <2>1. ASSUME NEW j \in 0 .. c - 1, Around(c, k, z + n, j)
        PROVE  Around(c, k, n, j) \/ Around(c, h, z, j)
    BY <1>3, <1>5, <2>1 DEF Around
  <2> QED BY <1>1, <1>8, <2>1 DEF Fills, FilledAt
<1> QED BY <1>1, <1>6, <1>7, <1>9, Whole DEF u

LEMMA ShiftedBefore ==
  ASSUME NEW s, Sound(s), s.size > 0
  PROVE  \E u : /\ Sound(u) /\ Shifted(s) = AutoTruncate(u)
                /\ u.capacity = s.capacity /\ u.head = (s.head + 1) % s.capacity
                /\ u.size = s.size - 1 /\ u.buffer = [s.buffer EXCEPT ![s.head] = Hole]
<1> DEFINE b == s.buffer
           u == [s EXCEPT !.buffer = [@ EXCEPT ![s.head] = Hole],
                          !.head = (s.head + 1) % s.capacity,
                          !.size = s.size - 1]
<1>1. PICK c \in Nat \ {0}, h \in Nat, t \in Nat, z \in Nat :
        /\ Has(s, c, h, t, z) /\ c \in Capacities
        /\ Fits(c, h, t, z) /\ Fills(b, c, h, z)
  BY Parts
<1>2. z > 0 /\ h < c
  BY <1>1 DEF Has, Fits
<1>3. PICK k \in Int : k = (h + 1) % c
  OBVIOUS
<1>4. k = IF h + 1 < c THEN h + 1 ELSE 0
  <2>1. CASE h + 1 < c
    BY <1>3, <2>1
  <2>2. CASE c = h + 1
    BY <1>3, <2>2
  <2> QED BY <1>2, <2>1, <2>2
<1>5. k \in Nat /\ z - 1 \in Nat /\ Fits(c, k, t, z - 1)
  BY <1>1, <1>2, <1>4 DEF Fits
<1>6. Has(u, c, k, t, z - 1) /\ u.buffer = [b EXCEPT ![h] = Hole]
  BY <1>1, <1>3 DEF Has, Fields
<1>7. AutoTruncate(u) = Shifted(s)
  BY DEF Shifted
<1> HIDE DEF u, b
<1>8. Fills(u.buffer, c, k, z - 1)
  <2>1. ASSUME NEW j \in 0 .. c - 1, Around(c, k, z - 1, j)
        PROVE  j # h /\ Around(c, h, z, j)
    BY <1>1, <1>2, <1>4, <2>1 DEF Around, Fits
  <2>2. DOMAIN u.buffer = 0 .. c - 1 /\ \A j \in 0 .. c - 1 : j # h => u.buffer[j] = b[j]
    BY <1>1, <1>6 DEF Fills
  <2> QED BY <1>1, <2>1, <2>2 DEF Fills
<1>9. Sound(u)
  BY <1>1, <1>5, <1>6, <1>8, Whole
<1> QED BY <1>1, <1>3, <1>6, <1>7, <1>9 DEF Has, b

LEMMA ShiftedSound ==
  ASSUME NEW s, Sound(s), s.size > 0
  PROVE  Sound(Shifted(s))
<1>1. PICK u : Sound(u) /\ Shifted(s) = AutoTruncate(u)
  BY ShiftedBefore
<1> QED BY <1>1, AutoTruncateSound

LEMMA PoppedBefore ==
  ASSUME NEW s, Sound(s), s.size > 0
  PROVE  \E u : /\ Sound(u) /\ Popped(s) = AutoTruncate(u)
                /\ u.capacity = s.capacity /\ u.head = s.head /\ u.size = s.size - 1
                /\ u.buffer = [s.buffer EXCEPT ![(s.tail - 1) % s.capacity] = Hole]
<1> DEFINE b == s.buffer
           u == [s EXCEPT !.buffer = [@ EXCEPT ![(s.tail - 1) % s.capacity] = Hole],
                          !.tail = (s.tail - 1) % s.capacity, !.size = s.size - 1]
<1>1. PICK c \in Nat \ {0}, h \in Nat, t \in Nat, z \in Nat :
        /\ Has(s, c, h, t, z) /\ c \in Capacities
        /\ Fits(c, h, t, z) /\ Fills(b, c, h, z)
  BY Parts
<1>2. z > 0 /\ t <= c
  BY <1>1 DEF Has, Fits
<1>3. PICK k \in Int : k = (t - 1) % c
  OBVIOUS
<1>4. k = IF t = 0 THEN c - 1 ELSE t - 1
  <2>1. CASE t = 0
    BY <1>3, <2>1
  <2>2. CASE t # 0
    BY <1>2, <1>3, <2>2
  <2> QED BY <2>1, <2>2
<1>5. k \in Nat /\ z - 1 \in Nat /\ Fits(c, h, k, z - 1)
  BY <1>1, <1>2, <1>4 DEF Fits
<1>6. Has(u, c, h, k, z - 1) /\ u.buffer = [b EXCEPT ![k] = Hole]
  BY <1>1, <1>3 DEF Has, Fields
<1>7. AutoTruncate(u) = Popped(s)
  BY DEF Popped
<1> HIDE DEF u, b
<1>8. Fills(u.buffer, c, h, z - 1)
  <2>1. ASSUME NEW j \in 0 .. c - 1, Around(c, h, z - 1, j)
        PROVE  j # k /\ Around(c, h, z, j)
    BY <1>1, <1>2, <1>4, <2>1 DEF Around, Fits
  <2>2. DOMAIN u.buffer = 0 .. c - 1 /\ \A j \in 0 .. c - 1 : j # k => u.buffer[j] = b[j]
    BY <1>1, <1>6 DEF Fills
  <2> QED BY <1>1, <2>1, <2>2 DEF Fills
<1>9. Sound(u)
  BY <1>1, <1>5, <1>6, <1>8, Whole
<1> QED BY <1>1, <1>3, <1>6, <1>7, <1>9 DEF Has, b

LEMMA PoppedSound ==
  ASSUME NEW s, Sound(s), s.size > 0
  PROVE  Sound(Popped(s))
<1>1. PICK u : Sound(u) /\ Popped(s) = AutoTruncate(u)
  BY PoppedBefore
<1> QED BY <1>1, AutoTruncateSound

LEMMA CellPicked ==
  ASSUME NEW s, NEW c \in Nat \ {0}, NEW h \in Nat, NEW t \in Nat, NEW z \in Nat,
         Has(s, c, h, t, z), Fits(c, h, t, z), NEW p \in 0 .. z - 1
  PROVE  \E i \in Nat : i = Cell(s, p) /\ i = IF h + p < c THEN h + p ELSE h + p - c
<1>1. PICK i \in Int : i = (h + p) % c
  OBVIOUS
<1>2. h < c /\ z <= c
  BY DEF Fits
<1>3. i = IF h + p < c THEN h + p ELSE h + p - c
  <2>1. CASE h + p < c
    BY <1>1, <2>1
  <2>2. CASE c <= h + p
    BY <1>1, <1>2, <2>2
  <2> QED BY <2>1, <2>2
<1>4. i \in Nat
  BY <1>3
<1>5. i = Cell(s, p)
  BY <1>1 DEF Cell, Has
<1> QED BY <1>3, <1>4, <1>5

LEMMA OpenedLeftSound ==
  ASSUME NEW s, Sound(s), NEW p \in 1 .. s.size - 1, NEW vs \in Seq(Value),
         s.size + Len(vs) <= s.capacity, Cell(s, p) > s.tail
  PROVE  Sound(OpenedLeft(s, Cell(s, p), vs))
<1> DEFINE b == s.buffer
           u == OpenedLeft(s, Cell(s, p), vs)
<1>1. PICK c \in Nat \ {0}, h \in Nat, t \in Nat, z \in Nat :
        /\ Has(s, c, h, t, z) /\ c \in Capacities
        /\ Fits(c, h, t, z) /\ Fills(b, c, h, z)
  BY Parts
<1>2. PICK n \in Nat : n = Len(vs)
  OBVIOUS
<1>3. p \in 1 .. z - 1 /\ p \in 0 .. z - 1 /\ z + n <= c /\ h < c /\ DOMAIN b = 0 .. c - 1
  BY <1>1, <1>2 DEF Has, Fits, Fills
<1>4. PICK i \in Nat : i = Cell(s, p) /\ i = IF h + p < c THEN h + p ELSE h + p - c
  <2>1. Has(s, c, h, t, z) /\ Fits(c, h, t, z) /\ p \in 0 .. z - 1
    BY <1>1, <1>3
  <2> QED BY <2>1, CellPicked
<1>5. i = h + p /\ h + p < c /\ h + z = t + c /\ n <= h
  <2>1. i > t
    BY <1>1, <1>4 DEF Has
  <2> QED BY <1>1, <1>3, <1>4, <2>1 DEF Fits
<1>6. h - n \in Nat /\ z + n \in Nat /\ Fits(c, h - n, t, z + n)
  BY <1>1, <1>3, <1>5 DEF Fits
<1>7. PICK m : m = Move(b, h - n, h, p)
  OBVIOUS
<1>8. MovedTo(m, b, h - n, h, p)
  <2>1. MovedTo(Move(b, h - n, h, p), b, h - n, h, p)
    BY <1>3, MovedCells
  <2> QED BY <1>7, <2>1
<1>9. Has(u, c, h - n, t, z + n) /\ u.buffer = Filled(m, i - n, vs, c)
  <2>1. i - h = p
    BY <1>5
  <2> QED BY <1>1, <1>2, <1>4, <1>7, <2>1 DEF OpenedLeft, Has, Fields
<1>10. FilledAt(u.buffer, m, c, i - n, n)
  <2>1. i - n \in 0 .. c - 1 /\ n \in 0 .. c /\ DOMAIN m = 0 .. c - 1
    BY <1>3, <1>5, <1>8 DEF MovedTo
  <2> QED BY <1>2, <1>9, <2>1, FilledCells
<1> HIDE DEF u, b
<1>11. ASSUME NEW j \in 0 .. c - 1, Around(c, h - n, z + n, j), ~ Around(c, i - n, n, j)
       PROVE  m[j] \in Value
  <2>1. CASE h - n <= j /\ j < h - n + p
    <3>1. h + j - (h - n) = j + n /\ j + n \in 0 .. c - 1 /\ Around(c, h, z, j + n)
      BY <1>3, <1>5, <2>1 DEF Around
    <3>2. m[j] = b[j + n]
      BY <1>3, <1>8, <2>1, <3>1 DEF MovedTo
    <3> QED BY <1>1, <3>1, <3>2 DEF Fills
  <2>2. CASE ~ (h - n <= j /\ j < h - n + p)
    <3>1. Around(c, h, z, j)
      BY <1>3, <1>5, <1>11, <2>2 DEF Around
    <3>2. m[j] = b[j]
      BY <1>3, <1>8, <2>2 DEF MovedTo
    <3> QED BY <1>1, <3>1, <3>2 DEF Fills
  <2> QED BY <2>1, <2>2
<1>12. Fills(u.buffer, c, h - n, z + n)
  BY <1>10, <1>11 DEF Fills, FilledAt
<1> QED BY <1>1, <1>6, <1>9, <1>12, Whole DEF u

\* The cells after the insertion point, from j to e, move right by n in the
\* buffer a, whose window begins at g.
LEMMA MovedRightSound ==
  ASSUME NEW u, NEW a, NEW m, NEW c \in Nat \ {0}, c \in Capacities,
         NEW g \in Nat, NEW e \in Nat, NEW z \in Nat, NEW n \in Nat, NEW j \in Nat,
         NEW p \in 1 .. z - 1, NEW vs \in Seq(Value), Len(vs) = n,
         Fits(c, g, e, z), Fills(a, c, g, z),
         j = (IF g + p < c THEN g + p ELSE g + p - c),
         j <= e, e + n <= c, z + n <= c,
         MovedTo(m, a, j + n, j, e - j),
         NEW y \in Nat, y = e + n, NEW w \in Nat, w = z + n,
         Has(u, c, g, y, w), u.buffer = Filled(m, j, vs, c)
  PROVE  Sound(u)
<1>1. DOMAIN a = 0 .. c - 1 /\ DOMAIN m = 0 .. c - 1 /\ g < c /\ n \in 0 .. c
  BY DEF Fills, Fits, MovedTo
<1>2. j \in 0 .. c - 1
  BY <1>1
<1>3. FilledAt(u.buffer, m, c, j, n)
  BY <1>1, <1>2, FilledCells
<1>4. (g + z = e /\ j = g + p) \/ (g + z = e + c /\ j = g + p - c)
  BY <1>1 DEF Fits
<1>5. Fits(c, g, y, w)
  BY <1>1, <1>4 DEF Fits
<1>6. ASSUME NEW x \in 0 .. c - 1, Around(c, g, w, x), ~ Around(c, j, n, x)
      PROVE  m[x] \in Value
  <2>1. CASE j + n <= x /\ x < j + n + (e - j)
    <3>1. j + x - (j + n) = x - n /\ x - n \in 0 .. c - 1 /\ Around(c, g, z, x - n)
      BY <1>1, <1>4, <1>6, <2>1 DEF Around
    <3>2. m[x] = a[x - n]
      BY <1>1, <2>1, <3>1 DEF MovedTo
    <3> QED BY <3>1, <3>2 DEF Fills
  <2>2. CASE ~ (j + n <= x /\ x < j + n + (e - j))
    <3>1. Around(c, g, z, x)
      BY <1>1, <1>4, <1>6, <2>2 DEF Around
    <3>2. m[x] = a[x]
      BY <1>1, <2>2 DEF MovedTo
    <3> QED BY <3>1, <3>2 DEF Fills
  <2> QED BY <2>1, <2>2
<1>7. Fills(u.buffer, c, g, w)
  BY <1>3, <1>6 DEF Fills, FilledAt
<1> QED BY <1>5, <1>7, Whole

LEMMA OpenedRightSound ==
  ASSUME NEW s, Sound(s), NEW p \in 1 .. s.size - 1, NEW vs \in Seq(Value),
         s.size + Len(vs) <= s.capacity, Cell(s, p) <= s.tail
  PROVE  Sound(OpenedRight(s, Cell(s, p), vs))
<1> DEFINE b == s.buffer
           u == OpenedRight(s, Cell(s, p), vs)
<1>1. PICK c \in Nat \ {0}, h \in Nat, t \in Nat, z \in Nat :
        /\ Has(s, c, h, t, z) /\ c \in Capacities
        /\ Fits(c, h, t, z) /\ Fills(b, c, h, z)
  BY Parts
<1>2. PICK n \in Nat : n = Len(vs)
  OBVIOUS
<1>3. p \in 1 .. z - 1 /\ p \in 0 .. z - 1 /\ z + n <= c /\ h < c /\ DOMAIN b = 0 .. c - 1
  <2>1. p \in 1 .. z - 1 /\ z + n <= c
    BY <1>1, <1>2 DEF Has
  <2>2. h < c /\ DOMAIN b = 0 .. c - 1
    BY <1>1 DEF Fits, Fills
  <2> QED BY ONLY <2>1, <2>2
<1>4. PICK i \in Nat : i = Cell(s, p) /\ i = IF h + p < c THEN h + p ELSE h + p - c
  <2>1. Has(s, c, h, t, z) /\ Fits(c, h, t, z) /\ p \in 0 .. z - 1
    BY <1>1, <1>3
  <2> QED BY <2>1, CellPicked
<1>5. i <= t
  BY <1>1, <1>4 DEF Has
<1>6. CASE t + n <= c
  <2>1. ~ OverflowsRight(s, Len(vs))
    BY <1>1, <1>2, <1>6 DEF OverflowsRight, Has
  <2>2. PICK m : m = Move(b, i + n, i, t - i)
    OBVIOUS
  <2>3. Has(u, c, h, t + n, z + n) /\ u.buffer = Filled(m, i, vs, c)
    BY <1>1, <1>2, <1>4, <2>1, <2>2 DEF OpenedRight, Has, Fields
  <2>4. MovedTo(m, b, i + n, i, t - i)
    <3>1. MovedTo(Move(b, i + n, i, t - i), b, i + n, i, t - i)
      BY <1>3, MovedCells
    <3> QED BY <2>2, <3>1
  <2> HIDE DEF u, b
  <2>5. PICK y \in Nat, w \in Nat : y = t + n /\ w = z + n
    OBVIOUS
  <2>6. Has(u, c, h, y, w)
    BY <2>3, <2>5
  <2>7. Sound(u)
    BY <1>1, <1>2, <1>3, <1>4, <1>5, <1>6, <2>3, <2>4, <2>5, <2>6, MovedRightSound
  <2> QED BY <2>7 DEF u
<1>7. CASE t + n > c
  <2>1. OverflowsRight(s, Len(vs))
    BY <1>1, <1>2, <1>7 DEF OverflowsRight, Has
  <2>2. h + z = t /\ i = h + p
    BY <1>1, <1>3, <1>4, <1>5, <1>7 DEF Fits
  <2>3. PICK a, m : a = Move(b, 0, h, z) /\ m = Move(a, p + n, p, z - p)
    OBVIOUS
  <2>4. MovedTo(a, b, 0, h, z)
    BY <1>3, <2>3, MovedCells
  <2>5. ASSUME NEW x \in 0 .. c - 1, Around(c, 0, z, x) PROVE a[x] \in Value
    <3>1. 0 <= x /\ x < 0 + z /\ h + x - 0 = h + x
          /\ h + x \in 0 .. c - 1 /\ Around(c, h, z, h + x)
      BY <1>1, <1>3, <2>2, <2>5 DEF Around, Fits
    <3>2. a[x] = b[h + x]
      BY <1>3, <2>4, <3>1 DEF MovedTo
    <3> QED BY <1>1, <3>1, <3>2 DEF Fills
  <2>6. DOMAIN a = 0 .. c - 1 /\ Fills(a, c, 0, z)
    BY <1>3, <2>4, <2>5 DEF Fills, MovedTo
  <2>7. MovedTo(m, a, p + n, p, z - p)
    BY <1>3, <2>3, <2>6, MovedCells
  <2>8. Has(u, c, 0, z + n, z + n) /\ u.buffer = Filled(m, p, vs, c)
    <3>1. i - h = p
      BY <2>2
    <3> QED BY <1>1, <1>2, <1>4, <2>1, <2>3, <3>1 DEF OpenedRight, Has, Fields
  <2> HIDE DEF u, b
  <2>9. Fits(c, 0, z, z) /\ p \in Nat /\ p <= z /\ p = IF 0 + p < c THEN 0 + p ELSE 0 + p - c
    BY <1>1, <1>3 DEF Fits
  <2>10. PICK w \in Nat : w = z + n
    OBVIOUS
  <2>11. Has(u, c, 0, w, w)
    BY <2>8, <2>10
  <2>12. Sound(u)
    BY <1>1, <1>2, <1>3, <2>6, <2>7, <2>8, <2>9, <2>10, <2>11, MovedRightSound
  <2> QED BY <2>12 DEF u
<1> QED BY <1>6, <1>7

LEMMA InsertedSound ==
  ASSUME NEW s, Sound(s), NEW p \in 1 .. s.size - 1, NEW vs \in Seq(Value),
         s.size + Len(vs) <= s.capacity
  PROVE  Sound(Inserted(s, p, vs))
<1>1. p \in 0 .. s.size - 1
  BY Bounds DEF Sound
<1>2. Cell(s, p) \in Int /\ s.tail \in Int
  BY <1>1, CellOfPosition, Bounds DEF Sound, Cells
<1> QED BY <1>2, OpenedLeftSound, OpenedRightSound DEF Inserted

LEMMA ClosedBefore ==
  ASSUME NEW s, Sound(s), NEW p \in 1 .. s.size - 2, ~ Overreads(s, Cell(s, p))
  PROVE  \E u : /\ Sound(u) /\ Closed(s, Cell(s, p)) = AutoTruncate(u)
                /\ u.capacity = s.capacity /\ u.size = s.size - 1
                /\ IF Cell(s, p) < s.tail
                   THEN /\ u.buffer = Move(s.buffer, Cell(s, p), Cell(s, p) + 1,
                                           s.tail - Cell(s, p))
                        /\ u.head = s.head
                   ELSE /\ u.buffer = Move(s.buffer, s.head + 1, s.head, Cell(s, p) - s.head)
                        /\ u.head = s.head + 1
<1> DEFINE b == s.buffer
<1>1. PICK c \in Nat \ {0}, h \in Nat, t \in Nat, z \in Nat :
        /\ Has(s, c, h, t, z) /\ c \in Capacities
        /\ Fits(c, h, t, z) /\ Fills(b, c, h, z)
  BY Parts
<1>2. p \in 1 .. z - 2 /\ p \in 0 .. z - 1 /\ h < c /\ DOMAIN b = 0 .. c - 1
  BY <1>1 DEF Has, Fits, Fills
<1>3. PICK i \in Nat : i = Cell(s, p) /\ i = IF h + p < c THEN h + p ELSE h + p - c
  BY <1>1, <1>2, CellPicked
<1>4. CASE i < t
  <2> DEFINE u == [s EXCEPT !.buffer = Move(s.buffer, i, i + 1, s.tail - i),
                            !.tail = s.tail - 1, !.size = s.size - 1]
  <2>1. t < c
    <3>1. t # c
      BY <1>1, <1>3, <1>4 DEF Overreads, Has
    <3> QED BY <1>1, <3>1 DEF Fits
  <2>2. (h + z = t /\ i = h + p) \/ (h + z = t + c /\ i = h + p - c)
    BY <1>1, <1>2, <1>3, <1>4, <2>1 DEF Fits
  <2>3. Closed(s, Cell(s, p)) = AutoTruncate(u)
    BY <1>1, <1>3, <1>4 DEF Closed, Has
  <2>4. Has(u, c, h, t - 1, z - 1) /\ u.buffer = Move(b, i, i + 1, t - i)
    BY <1>1 DEF Has, Fields
  <2>5. t - 1 \in Nat /\ z - 1 \in Nat /\ Fits(c, h, t - 1, z - 1)
    BY <1>1, <1>2, <1>4, <2>1, <2>2 DEF Fits
  <2> HIDE DEF u, b
  <2>6. MovedTo(u.buffer, b, i, i + 1, t - i)
    <3>1. MovedTo(Move(b, i, i + 1, t - i), b, i, i + 1, t - i)
      BY <1>2, MovedCells
    <3> QED BY <2>4, <3>1
  <2>7. ASSUME NEW j \in 0 .. c - 1, Around(c, h, z - 1, j) PROVE u.buffer[j] \in Value
    <3>1. CASE i <= j /\ j < i + (t - i)
      <4>1. (i + 1) + j - i = j + 1 /\ j + 1 \in 0 .. c - 1
        BY <2>1, <3>1
      <4>2. Around(c, h, z, j + 1)
        BY <1>2, <2>1, <2>2, <2>7, <3>1 DEF Around
      <4>3. u.buffer[j] = b[j + 1]
        BY <1>2, <2>6, <3>1, <4>1 DEF MovedTo
      <4> QED BY <1>1, <4>1, <4>2, <4>3 DEF Fills
    <3>2. CASE ~ (i <= j /\ j < i + (t - i))
      <4>1. Around(c, h, z, j)
        BY <2>7 DEF Around
      <4>2. u.buffer[j] = b[j]
        BY <1>2, <2>6, <3>2 DEF MovedTo
      <4> QED BY <1>1, <4>1, <4>2 DEF Fills
    <3> QED BY <3>1, <3>2
  <2>8. Fills(u.buffer, c, h, z - 1)
    BY <1>2, <2>6, <2>7 DEF Fills, MovedTo
  <2>9. Sound(u)
    BY <1>1, <2>4, <2>5, <2>8, Whole
  <2> QED BY <1>1, <1>3, <1>4, <2>3, <2>4, <2>9 DEF Has, b
<1>5. CASE ~ (i < t)
  <2> DEFINE u == [s EXCEPT !.buffer = Move(s.buffer, s.head + 1, s.head, i - s.head),
                            !.head = s.head + 1, !.size = s.size - 1]
  <2>1. h + z = t + c /\ i = h + p /\ h + p < c
    BY <1>1, <1>2, <1>3, <1>5 DEF Fits
  <2>2. Closed(s, Cell(s, p)) = AutoTruncate(u)
    BY <1>1, <1>3, <1>5 DEF Closed, Has
  <2>3. Has(u, c, h + 1, t, z - 1) /\ u.buffer = Move(b, h + 1, h, i - h)
    BY <1>1 DEF Has, Fields
  <2>4. h + 1 \in Nat /\ z - 1 \in Nat /\ Fits(c, h + 1, t, z - 1)
    BY <1>1, <1>2, <2>1 DEF Fits
  <2> HIDE DEF u, b
  <2>5. MovedTo(u.buffer, b, h + 1, h, i - h)
    <3>1. MovedTo(Move(b, h + 1, h, i - h), b, h + 1, h, i - h)
      BY <1>2, MovedCells
    <3> QED BY <2>3, <3>1
  <2>6. ASSUME NEW j \in 0 .. c - 1, Around(c, h + 1, z - 1, j) PROVE u.buffer[j] \in Value
    <3>1. CASE h + 1 <= j /\ j < h + 1 + (i - h)
      <4>1. h + j - (h + 1) = j - 1 /\ j - 1 \in 0 .. c - 1 /\ Around(c, h, z, j - 1)
        BY <1>2, <2>1, <3>1 DEF Around
      <4>2. u.buffer[j] = b[j - 1]
        BY <1>2, <2>5, <3>1, <4>1 DEF MovedTo
      <4> QED BY <1>1, <4>1, <4>2 DEF Fills
    <3>2. CASE ~ (h + 1 <= j /\ j < h + 1 + (i - h))
      <4>1. Around(c, h, z, j)
        BY <2>6 DEF Around
      <4>2. u.buffer[j] = b[j]
        BY <1>2, <2>5, <3>2 DEF MovedTo
      <4> QED BY <1>1, <4>1, <4>2 DEF Fills
    <3> QED BY <3>1, <3>2
  <2>7. Fills(u.buffer, c, h + 1, z - 1)
    BY <1>2, <2>5, <2>6 DEF Fills, MovedTo
  <2>8. Sound(u)
    BY <1>1, <2>3, <2>4, <2>7, Whole
  <2> QED BY <1>1, <1>3, <1>5, <2>2, <2>3, <2>8 DEF Has, b
<1> QED BY <1>4, <1>5

LEMMA ClosedSound ==
  ASSUME NEW s, Sound(s), NEW p \in 1 .. s.size - 2, ~ Overreads(s, Cell(s, p))
  PROVE  Sound(Closed(s, Cell(s, p)))
<1>1. PICK u : Sound(u) /\ Closed(s, Cell(s, p)) = AutoTruncate(u)
  BY ClosedBefore
<1> QED BY <1>1, AutoTruncateSound

LEMMA ClearedSound ==
  ASSUME NEW s
  PROVE  Sound(Cleared(s))
<1> DEFINE u == Cleared(s)
<1>1. /\ Has(u, MinCapacity, 0, 0, 0) /\ DOMAIN u.buffer = 0 .. MinCapacity - 1
  BY DEF Cleared, Has, Fields
<1>2. MinCapacity \in Capacities /\ MinCapacity \in Nat \ {0}
  BY CapacityAssumption
<1>3. Fits(MinCapacity, 0, 0, 0)
  BY <1>2 DEF Fits
<1> HIDE DEF u
<1>4. Fills(u.buffer, MinCapacity, 0, 0)
  BY <1>1, <1>2 DEF Fills, Around
<1> QED BY <1>1, <1>2, <1>3, <1>4, Whole DEF u

LEMMA ContentsAreValues ==
  ASSUME NEW s, Sound(s)
  PROVE  /\ Contents(s) \in Seq(Value) /\ Len(Contents(s)) = s.size
         /\ s.size \in Nat /\ s.size <= s.capacity /\ s.capacity \in Capacities
<1>1. s.size \in Nat /\ s.size <= s.capacity /\ s.capacity \in Capacities
  BY Bounds DEF Sound, Shaped
<1>2. ASSUME NEW p \in 1 .. s.size PROVE s.buffer[Cell(s, p - 1)] \in Value
  <2>1. p - 1 \in 0 .. s.size - 1
    BY <1>1
  <2>2. Cell(s, p - 1) \in Cells(s) /\ Covers(s, Cell(s, p - 1))
    BY <2>1, CellOfPosition DEF Sound
  <2> QED BY <2>2 DEF Sound
<1>3. Contents(s) \in [1 .. s.size -> Value]
  BY <1>2 DEF Contents
<1> QED BY <1>1, <1>3

-----------------------------------------------------------------------------
(* The inductive invariant.                                                *)

\* What the loops of reverse and rotate keep: the two ends of reverse stand for
\* mirrored cells, however far they have gone past each other.
LoopInv ==
  /\ pc \in {"idle", "reverse", "rotate"}
  /\ lo \in Cells(seq) /\ hi \in Cells(seq)
  /\ turns \in Int
  /\ fault \in {"none", "overrun"}
  /\ pc # "reverse" => lo = 0 /\ hi = 0
  /\ pc = "reverse" =>
       /\ seq.head >= seq.tail
       /\ \/ lo + hi = seq.head + seq.tail
          \/ lo + hi = seq.head + seq.tail + seq.capacity
          \/ lo + hi = seq.head + seq.tail - seq.capacity
  /\ pc = "rotate" => seq.size > 0

IInv == Settled(seq) /\ LoopInv

LEMMA InvGives == IInv => TypeOK /\ WindowHoldsValues
<1> SUFFICES ASSUME IInv PROVE TypeOK /\ WindowHoldsValues
  OBVIOUS
<1>1. Sound(seq) /\ Shaped(seq)
  BY DEF IInv, Settled, Sound
<1>2. TypeOK
  BY <1>1 DEF IInv, LoopInv, Settled, Shaped, Cells, TypeOK
<1>3. WindowHoldsValues
  BY <1>1, WindowIsCovered DEF IInv, Settled, Shaped, Cells, WindowHoldsValues
<1> QED BY <1>2, <1>3

LEMMA GoOnHolds ==
  ASSUME IInv, Idle, NEW s, Sound(s), GoOnWith(s)
  PROVE  IInv'
<1>1. seq' = Tidy(s) /\ pc' = "idle" /\ lo' = 0 /\ hi' = 0 /\ turns' = turns
      /\ fault' = fault
  BY DEF GoOnWith, loopVars, Idle, IInv, LoopInv
<1>2. Settled(seq')
  BY <1>1, TidySettles
<1>3. seq'.capacity \in Nat \ {0}
  BY <1>2, Bounds DEF Settled, Sound
<1>4. 0 \in Cells(seq')
  BY <1>3 DEF Cells
<1> QED BY <1>1, <1>2, <1>4 DEF IInv, LoopInv, Cells, Settled, Sound, Shaped, Measured, Covers, Around, Fields

LEMMA OverrunHolds ==
  ASSUME IInv, Overrun
  PROVE  IInv'
BY DEF Overrun, loopVars, IInv, LoopInv, Cells, Settled, Sound, Shaped, Measured, Covers, Around, Fields

LEMMA AppendHolds ==
  ASSUME IInv, Idle, NEW s, Sound(s), NEW vs \in Seq(Value),
         s.size + Len(vs) <= s.capacity, Append_(s, vs)
  PROVE  IInv'
<1>1. CASE s.tail = s.capacity
  BY <1>1, OverrunHolds DEF Append_
<1>2. CASE s.tail # s.capacity
  <2>1. Sound(Pushed(s, vs))
    BY <1>2, PushedSound
  <2> QED BY <1>2, <2>1, GoOnHolds DEF Append_
<1> QED BY <1>1, <1>2

LEMMA SeqSound ==
  ASSUME IInv
  PROVE  Sound(seq) /\ seq.capacity \in Capacities /\ seq.size \in Nat
         /\ seq.capacity \in Nat \ {0} /\ seq.size <= seq.capacity
BY Bounds DEF IInv, Settled, Sound, Shaped

LEMMA PushHolds ==
  ASSUME IInv, NEW v \in Value, Push(v)
  PROVE  IInv'
<1>1. <<v>> \in Seq(Value) /\ Len(<<v>>) = 1
  OBVIOUS
<1>2. CASE Full(seq)
  <2>1. 2 * seq.capacity \in Capacities /\ seq.size + 1 <= 2 * seq.capacity
    BY <1>2, SeqSound, SizeAssumption DEF Push, Full
  <2>2. PICK c \in Capacities : c = 2 * seq.capacity
    BY <2>1
  <2>3. seq.size <= c
    BY <2>1, <2>2, SeqSound
  <2>4. /\ Sound(Reallocate(seq, c))
        /\ Reallocate(seq, c).size + Len(<<v>>) <= Reallocate(seq, c).capacity
    BY <1>1, <2>1, <2>2, <2>3, SeqSound, ReallocateSound
  <2>5. Append_(Reallocate(seq, c), <<v>>) /\ Idle
    BY <1>2, <2>2 DEF Push
  <2> QED BY <1>1, <2>4, <2>5, AppendHolds
<1>3. CASE ~ Full(seq)
  <2>1. seq.size + Len(<<v>>) <= seq.capacity
    BY <1>1, <1>3, SeqSound DEF Full
  <2>2. Append_(seq, <<v>>) /\ Idle
    BY <1>3 DEF Push
  <2> QED BY <1>1, <2>1, <2>2, SeqSound, AppendHolds
<1> QED BY <1>2, <1>3

LEMMA InsertHolds ==
  ASSUME IInv, NEW p \in 0 .. seq.size, NEW vs \in Args, Insert(p, vs)
  PROVE  IInv'
<1>1. vs \in Seq(Value) /\ Len(vs) \in Nat
  BY DEF Args
<1>2. PICK n \in Nat : n = seq.size + Len(vs) /\ n \in 0 .. MaxSize
  BY <1>1, SeqSound, SizeAssumption DEF Insert
<1>3. PICK s : s = Allocate(seq, n)
  OBVIOUS
<1>4. Sound(s) /\ s.size = seq.size /\ n <= s.capacity
  BY <1>2, <1>3, SeqSound, AllocateSound
<1>5. s.size + Len(vs) <= s.capacity /\ Idle
  BY <1>2, <1>4 DEF Insert
<1>6. CASE p = seq.size
  <2>1. Append_(s, vs)
    BY <1>2, <1>3, <1>6 DEF Insert
  <2> QED BY <1>1, <1>4, <1>5, <2>1, AppendHolds
<1>7. CASE p # seq.size /\ p = 0
  <2>1. GoOnWith(Unshifted(s, vs))
    BY <1>2, <1>3, <1>7 DEF Insert
  <2>2. s.size > 0
    BY <1>4, <1>7, SeqSound
  <2>3. Sound(Unshifted(s, vs))
    BY <1>1, <1>4, <1>5, <2>2, UnshiftedSound
  <2> QED BY <1>5, <2>1, <2>3, GoOnHolds
<1>8. CASE p # seq.size /\ p # 0
  <2>1. GoOnWith(Inserted(s, p, vs))
    BY <1>2, <1>3, <1>8 DEF Insert
  <2>2. p \in 1 .. s.size - 1
    BY <1>4, <1>8, SeqSound
  <2>3. Sound(Inserted(s, p, vs))
    BY <1>1, <1>4, <1>5, <2>2, InsertedSound
  <2> QED BY <1>5, <2>1, <2>3, GoOnHolds
<1> QED BY <1>6, <1>7, <1>8

LEMMA RemoveHolds ==
  ASSUME IInv, NEW p \in Position, Remove(p)
  PROVE  IInv'
<1>1. seq.size > 0 /\ p \in 0 .. seq.size - 1 /\ Idle /\ Sound(seq)
  BY SeqSound DEF Position, Remove
<1>2. CASE p = 0
  BY <1>1, <1>2, ShiftedSound, GoOnHolds DEF Remove
<1>3. CASE p # 0 /\ p = seq.size - 1
  BY <1>1, <1>3, PoppedSound, GoOnHolds DEF Remove
<1>4. CASE p # 0 /\ p # seq.size - 1 /\ Overreads(seq, Cell(seq, p))
  BY <1>4, OverrunHolds DEF Remove
<1>5. CASE p # 0 /\ p # seq.size - 1 /\ ~ Overreads(seq, Cell(seq, p))
  <2>1. p \in 1 .. seq.size - 2
    BY <1>1, <1>5, SeqSound
  <2>2. Sound(Closed(seq, Cell(seq, p)))
    BY <1>1, <1>5, <2>1, ClosedSound
  <2> QED BY <1>1, <1>5, <2>2, GoOnHolds DEF Remove
<1> QED BY <1>2, <1>3, <1>4, <1>5

LEMMA PopLastHolds ==
  ASSUME IInv, PopLast
  PROVE  IInv'
<1>1. seq.size > 0 /\ Sound(seq)
  BY SeqSound DEF PopLast
<1> QED BY <1>1, PoppedSound, GoOnHolds DEF PopLast

LEMMA SetHolds ==
  ASSUME IInv, NEW p \in Position, NEW v \in Value, Set(p, v)
  PROVE  IInv'
<1>1. PICK i : i = Cell(seq, p)
  OBVIOUS
<1>2. PICK u : u = [seq EXCEPT !.buffer = [@ EXCEPT ![i] = v]]
  OBVIOUS
<1>3. Sound(seq) /\ Idle /\ GoOnWith(u)
  BY <1>1, <1>2, SeqSound DEF Set
<1>4. /\ u = [f \in Fields |-> u[f]]
      /\ u.buffer = [seq.buffer EXCEPT ![i] = v]
      /\ u.capacity = seq.capacity /\ u.head = seq.head
      /\ u.tail = seq.tail /\ u.size = seq.size
  BY <1>2, <1>3 DEF Sound, Shaped, Fields
<1>5. DOMAIN u.buffer = Cells(seq)
      /\ \A j \in Cells(seq) : u.buffer[j] \in {v, seq.buffer[j]}
  BY <1>3, <1>4 DEF Sound, Shaped
<1>6. \A j \in Cells(seq) : Covers(seq, j) => seq.buffer[j] \in Value /\ u.buffer[j] \in {v, seq.buffer[j]}
  BY <1>3, <1>5 DEF Sound
<1>7. \A j \in Cells(seq) : Covers(seq, j) => u.buffer[j] \in Value
  BY <1>6
<1>8. Sound(u)
  BY <1>3, <1>4, <1>5, <1>7 DEF Sound, Shaped, Measured, Covers, Cells
<1> QED BY <1>3, <1>8, GoOnHolds

LEMMA ClearHolds ==
  ASSUME IInv, Clear
  PROVE  IInv'
BY ClearedSound, GoOnHolds DEF Clear

LEMMA EnsureCapacityHolds ==
  ASSUME IInv, NEW n \in 0 .. MaxSize, EnsureCapacity(n)
  PROVE  IInv'
BY SeqSound, AllocateSound, GoOnHolds DEF EnsureCapacity

LEMMA JoinHolds ==
  ASSUME IInv, Join
  PROVE  IInv'
BY SeqSound, ResetHeadSound, GoOnHolds DEF Join

LEMMA SortHolds ==
  ASSUME IInv, NEW p \in Shuffles(seq.size), Sort(p)
  PROVE  IInv'
<1>1. PICK s : s = ResetHead(seq)
  OBVIOUS
<1>2. PICK u : u = [s EXCEPT !.buffer =
                      [i \in 0 .. s.capacity - 1 |->
                         IF i < s.size THEN s.buffer[p[i]] ELSE s.buffer[i]]]
  OBVIOUS
<1>3. Idle /\ GoOnWith(u)
  BY <1>1, <1>2 DEF Sort
<1>4. Sound(s) /\ s.head = 0 /\ s.size = seq.size /\ Leading(s.buffer, s.size)
  BY <1>1, SeqSound, ResetHeadSound
<1>5. /\ u = [f \in Fields |-> u[f]]
      /\ u.buffer = [i \in 0 .. s.capacity - 1 |->
                       IF i < s.size THEN s.buffer[p[i]] ELSE s.buffer[i]]
      /\ u.capacity = s.capacity /\ u.head = 0 /\ u.tail = s.tail /\ u.size = s.size
  BY <1>2, <1>4 DEF Sound, Shaped, Fields
<1>6. p \in [0 .. s.size - 1 -> 0 .. s.size - 1]
  BY <1>4 DEF Shuffles
<1>7. s.capacity \in Nat \ {0} /\ s.size \in 0 .. s.capacity
  BY <1>4, Bounds DEF Sound
<1>8. ASSUME NEW i \in 0 .. s.capacity - 1, i < s.size PROVE u.buffer[i] \in Value
  <2>1. i \in 0 .. s.size - 1
    BY <1>7, <1>8
  <2>2. p[i] \in 0 .. s.size - 1
    BY <1>6, <2>1
  <2>3. s.buffer[p[i]] \in Value
    BY <1>4, <2>2 DEF Leading
  <2> QED BY <1>5, <1>8, <2>3
<1>9. \A i \in 0 .. s.capacity - 1 : Around(s.capacity, 0, s.size, i) => i < s.size
  BY <1>7 DEF Around
<1>10. Sound(u)
  BY <1>4, <1>5, <1>8, <1>9 DEF Sound, Shaped, Measured, Covers, Cells
<1> QED BY <1>3, <1>10, GoOnHolds

LEMMA ApplyHolds ==
  ASSUME IInv, NEW f \in [Position -> Value], Apply(f)
  PROVE  IInv'
<1>1. PICK u : u = [seq EXCEPT !.buffer =
                 [i \in 0 .. seq.capacity - 1 |->
                    IF i \in Window(seq) THEN f[(i - seq.head) % seq.capacity]
                    ELSE seq.buffer[i]]]
  OBVIOUS
<1>2. Sound(seq) /\ Idle /\ GoOnWith(u)
  BY <1>1, SeqSound DEF Apply
<1>3. /\ u = [g \in Fields |-> u[g]]
      /\ u.buffer = [i \in Cells(seq) |->
                       IF i \in Window(seq) THEN f[(i - seq.head) % seq.capacity]
                       ELSE seq.buffer[i]]
      /\ u.capacity = seq.capacity /\ u.head = seq.head
      /\ u.tail = seq.tail /\ u.size = seq.size
  BY <1>1, <1>2 DEF Sound, Shaped, Fields, Cells
<1>4. ASSUME NEW i \in Cells(seq), Covers(seq, i) PROVE u.buffer[i] \in Value
  <2>1. i \in Window(seq)
    BY <1>2, <1>4, WindowIsCovered DEF Sound
  <2>2. PICK p \in 0 .. seq.size - 1 : i = Cell(seq, p)
    BY <2>1 DEF Window
  <2>3. (i - seq.head) % seq.capacity = p
    BY <1>2, <2>2, CellOfPosition DEF Sound
  <2>4. f[p] \in Value
    BY <2>2 DEF Position
  <2> QED BY <1>3, <1>4, <2>1, <2>3, <2>4
<1>5. Sound(u)
  BY <1>2, <1>3, <1>4 DEF Sound, Shaped, Measured, Covers, Cells
<1> QED BY <1>2, <1>5, GoOnHolds

LEMMA ReverseRangeHolds ==
  ASSUME IInv, ReverseRange
  PROVE  IInv'
<1>1. PICK u : u = [seq EXCEPT !.buffer =
                 [i \in 0 .. seq.capacity - 1 |->
                    IF i \in seq.head .. seq.tail - 1
                    THEN seq.buffer[seq.head + seq.tail - 1 - i]
                    ELSE seq.buffer[i]]]
  OBVIOUS
<1>2. Sound(seq) /\ Idle /\ GoOnWith(u) /\ seq.head < seq.tail
  BY <1>1, SeqSound DEF ReverseRange
<1>3. /\ u = [g \in Fields |-> u[g]]
      /\ u.buffer = [i \in 0 .. seq.capacity - 1 |->
                       IF i \in seq.head .. seq.tail - 1
                       THEN seq.buffer[seq.head + seq.tail - 1 - i]
                       ELSE seq.buffer[i]]
      /\ u.capacity = seq.capacity /\ u.head = seq.head
      /\ u.tail = seq.tail /\ u.size = seq.size
  BY <1>1, <1>2 DEF Sound, Shaped, Fields
<1>4. PICK c \in Nat \ {0}, h \in Nat, t \in Nat, z \in Nat :
        /\ Has(seq, c, h, t, z) /\ c \in Capacities
        /\ Fits(c, h, t, z) /\ Fills(seq.buffer, c, h, z)
  BY <1>2, Parts
<1>5. h < t /\ Has(u, c, h, t, z)
  BY <1>2, <1>3, <1>4 DEF Has
<1>6. u.buffer = [i \in 0 .. c - 1 |-> IF i \in h .. t - 1 THEN seq.buffer[h + t - 1 - i]
                                     ELSE seq.buffer[i]]
  BY <1>3, <1>4 DEF Has
<1>7. ASSUME NEW i \in 0 .. c - 1, Around(c, h, z, i) PROVE u.buffer[i] \in Value
  <2>1. /\ i \in h .. t - 1 /\ h + t - 1 - i \in 0 .. c - 1
        /\ Around(c, h, z, h + t - 1 - i)
    BY <1>4, <1>5, <1>7 DEF Around, Fits
  <2>2. u.buffer[i] = seq.buffer[h + t - 1 - i]
    BY <1>6, <2>1
  <2> QED BY <1>4, <2>1, <2>2 DEF Fills
<1>8. Fills(u.buffer, c, h, z)
  BY <1>6, <1>7 DEF Fills
<1>9. Sound(u)
  BY <1>4, <1>5, <1>8, Whole
<1> QED BY <1>2, <1>9, GoOnHolds

LEMMA TakeCloneHolds ==
  ASSUME IInv, TakeClone
  PROVE  IInv'
<1>1. Sound(FromBuffer(seq.capacity, Contents(seq)))
  BY SeqSound, ContentsAreValues, FromBufferSound
<1> QED BY <1>1, GoOnHolds DEF TakeClone

LEMMA TakeMapHolds ==
  ASSUME IInv, NEW f \in [Position -> Value], TakeMap(f)
  PROVE  IInv'
<1>1. PICK vs : vs = [p \in 1 .. seq.size |-> f[p - 1]]
  OBVIOUS
<1>2. \A p \in 1 .. seq.size : f[p - 1] \in Value
  <2>1. \A p \in 1 .. seq.size : p - 1 \in Position
    BY SeqSound DEF Position
  <2> QED BY <2>1
<1>3. PICK z \in Nat : z = seq.size
  BY SeqSound
<1>4. vs \in [1 .. z -> Value]
  BY <1>1, <1>2, <1>3
<1>5. vs \in Seq(Value) /\ Len(vs) = z
  BY <1>3, <1>4
<1>6. Sound(FromBuffer(seq.capacity, vs))
  BY <1>3, <1>5, SeqSound, FromBufferSound
<1> QED BY <1>1, <1>6, GoOnHolds DEF TakeMap

LEMMA TakeReversedHolds ==
  ASSUME IInv, TakeReversed
  PROVE  IInv'
<1>1. PICK vs : vs = [p \in 1 .. seq.size |-> Contents(seq)[seq.size + 1 - p]]
  OBVIOUS
<1>2. \A p \in 1 .. seq.size : seq.size + 1 - p \in 1 .. seq.size
  BY SeqSound
<1>3. \A p \in 1 .. seq.size : Contents(seq)[p] \in Value
  BY SeqSound, ContentsAreValues
<1>4. PICK z \in Nat : z = seq.size
  BY SeqSound
<1>5. vs \in [1 .. z -> Value]
  BY <1>1, <1>2, <1>3, <1>4
<1>6. vs \in Seq(Value) /\ Len(vs) = z
  BY <1>4, <1>5
<1>7. Sound(FromBuffer(seq.capacity, vs))
  BY <1>4, <1>6, SeqSound, FromBufferSound
<1> QED BY <1>1, <1>7, GoOnHolds DEF TakeReversed

LEMMA FreshSound == \A c \in Capacities : Sound(Fresh(c))
<1> SUFFICES ASSUME NEW c \in Capacities PROVE Sound(Fresh(c))
  OBVIOUS
<1>1. << >> \in Seq(Value) /\ Len(<< >>) = 0 /\ 0 <= c
  BY PositiveCapacities
<1> QED BY <1>1, FromBufferSound DEF Fresh

LEMMA TakeFilterHolds ==
  ASSUME IInv, NEW S \in SUBSET (1 .. seq.size), TakeFilter(S)
  PROVE  IInv'
<1>1. PICK n : n = Cardinality(S)
  OBVIOUS
<1>2. CASE seq.size = 0
  <2>1. Sound(Fresh(MinCapacity))
    BY FreshSound, CapacityAssumption
  <2> QED BY <1>2, <2>1, GoOnHolds DEF TakeFilter
<1>3. CASE seq.size # 0
  <2>1. S \subseteq 0 .. (seq.size + 1) - 1 /\ seq.size + 1 \in Nat
    BY SeqSound
  <2>2. n \in Nat /\ n <= seq.size
    <3>1. IsFiniteSet(1 .. seq.size) /\ Cardinality(1 .. seq.size) = seq.size
      <4>1. \A z \in Nat : IsFiniteSet(1 .. z) /\ Cardinality(1 .. z) = z
        BY ONLY FS_Interval
      <4>2. seq.size \in Nat
        BY SeqSound
      <4> QED BY ONLY <4>1, <4>2
    <3>2. Cardinality(S) <= Cardinality(1 .. seq.size)
      BY <3>1, FS_Subset
    <3>3. Cardinality(S) \in Nat
      BY <2>1, IndicesFinite
    <3> QED BY <1>1, <3>1, <3>2, <3>3
  <2>3. PICK vs : vs = [p \in 1 .. n |-> Contents(seq)[Nth(S, p - 1)]]
    OBVIOUS
  <2>4. ASSUME NEW p \in 1 .. n PROVE Contents(seq)[Nth(S, p - 1)] \in Value
    <3>1. p - 1 \in 0 .. Cardinality(S) - 1
      BY <1>1, <2>2
    <3>2. Nth(S, p - 1) \in S
      BY <2>1, <3>1, NthIsMember
    <3>3. Nth(S, p - 1) \in 1 .. seq.size
      BY <3>2
    <3> QED BY <3>3, SeqSound, ContentsAreValues
  <2>5. vs \in Seq(Value) /\ Len(vs) = n
    BY <2>2, <2>3, <2>4
  <2>6. PICK c : c = CapacityFor(n) /\ c \in Capacities /\ n <= c
    <3>1. n <= seq.capacity
      BY <2>2, SeqSound
    <3> QED BY <2>2, <3>1, SeqSound, CapacityForFits
  <2>7. Sound(FromBuffer(c, vs))
    BY <2>5, <2>6, FromBufferSound
  <2>8. GoOnWith(FromBuffer(c, vs)) /\ Idle
    BY <1>1, <1>3, <2>3, <2>6 DEF TakeFilter
  <2> QED BY <2>7, <2>8, GoOnHolds
<1> QED BY <1>2, <1>3

LEMMA TakeSliceHolds ==
  ASSUME IInv, NEW p \in 0 .. seq.size, NEW n \in 0 .. seq.size, TakeSlice(p, n)
  PROVE  IInv'
<1>1. CASE n = 0
  <2>1. Sound(Fresh(MinCapacity))
    BY FreshSound, CapacityAssumption
  <2> QED BY <1>1, <2>1, GoOnHolds DEF TakeSlice
<1>2. CASE n # 0
  <2>1. PICK vs : vs = SubSeq(Contents(seq), p + 1, p + n)
    OBVIOUS
  <2>2. vs \in Seq(Value) /\ Len(vs) = n
    <3>1. p + n <= seq.size /\ p + 1 \in 1 .. Len(Contents(seq)) + 1
          /\ p + n \in p + 1 - 1 .. Len(Contents(seq))
      BY SeqSound, ContentsAreValues DEF TakeSlice
    <3>2. Contents(seq) \in Seq(Value)
      BY SeqSound, ContentsAreValues
    <3>3. SubSeq(Contents(seq), p + 1, p + n) \in Seq(Value)
      BY <3>1, <3>2, SubSeqProperties
    <3>4. Len(SubSeq(Contents(seq), p + 1, p + n)) = p + n - (p + 1) + 1
      BY <1>2, <3>1, <3>2, SubSeqProperties
    <3>5. p + n - (p + 1) + 1 = n
      BY SeqSound
    <3> QED BY <2>1, <3>3, <3>4, <3>5
  <2>3. PICK c : c = CapacityFor(n) /\ c \in Capacities /\ n <= c
    <3>1. n <= seq.capacity /\ n \in Nat
      BY SeqSound
    <3> QED BY <3>1, SeqSound, CapacityForFits
  <2>4. PICK s : s = Fresh(c)
    OBVIOUS
  <2>5. Sound(s) /\ s.capacity = c /\ s.size = 0 /\ s.tail = 0
    BY <2>3, <2>4, FreshSound DEF Fresh, FromBuffer
  <2>6. s.tail # s.capacity /\ s.size + Len(vs) <= s.capacity
    BY <2>2, <2>3, <2>5, PositiveCapacities
  <2>7. Sound(Pushed(s, vs))
    BY <2>2, <2>5, <2>6, PushedSound
  <2>8. GoOnWith(Pushed(s, vs)) /\ Idle
    BY <1>2, <2>1, <2>3, <2>4 DEF TakeSlice
  <2> QED BY <2>7, <2>8, GoOnHolds
<1> QED BY <1>1, <1>2

-----------------------------------------------------------------------------
(* The loops of reverse and rotate, which show the buffer after each turn. *)

\* The cells of b that hold anything are those of the window.
Exact(b, c, h, z) ==
  /\ b \in [0 .. c - 1 -> Value \union {Hole}]
  /\ \A i \in 0 .. c - 1 : b[i] # Hole <=> Around(c, h, z, i)

LEMMA SettledParts ==
  ASSUME NEW s, Settled(s)
  PROVE  \E c \in Nat \ {0}, h \in Nat, t \in Nat, z \in Nat :
           /\ Has(s, c, h, t, z) /\ c \in Capacities
           /\ Fits(c, h, t, z) /\ Exact(s.buffer, c, h, z)
<1>1. PICK c \in Nat \ {0}, h \in Nat, t \in Nat, z \in Nat :
        Has(s, c, h, t, z) /\ c \in Capacities /\ Fits(c, h, t, z)
  BY Parts DEF Settled
<1>2. Exact(s.buffer, c, h, z)
  BY <1>1 DEF Settled, Exact, Has, Cells, Covers
<1> QED BY <1>1, <1>2

LEMMA SettledWhole ==
  ASSUME NEW u, NEW c \in Capacities, NEW h \in Nat, NEW t \in Nat, NEW z \in Nat,
         Has(u, c, h, t, z), Fits(c, h, t, z), Exact(u.buffer, c, h, z)
  PROVE  Settled(u)
<1>1. Fills(u.buffer, c, h, z)
  BY DEF Exact, Fills
<1>2. Sound(u)
  BY <1>1, Whole
<1> QED BY <1>2 DEF Settled, Exact, Has, Cells, Covers

\* Two cells exchange what they hold.
LEMMA SwappedCells ==
  ASSUME NEW c \in Nat, NEW b, b \in [0 .. c - 1 -> Value \union {Hole}],
         NEW i \in 0 .. c - 1, NEW j \in 0 .. c - 1
  PROVE  /\ Swapped(b, i, j) \in [0 .. c - 1 -> Value \union {Hole}]
         /\ Swapped(b, i, j)[i] = b[j] /\ Swapped(b, i, j)[j] = b[i]
         /\ \A x \in 0 .. c - 1 : x # i /\ x # j => Swapped(b, i, j)[x] = b[x]
BY DEF Swapped

LEMMA ReverseSwapHolds ==
  ASSUME IInv, ReverseSwap
  PROVE  IInv'
<1> DEFINE b == seq.buffer
<1>1. PICK c \in Nat \ {0}, h \in Nat, t \in Nat, z \in Nat :
        /\ Has(seq, c, h, t, z) /\ c \in Capacities
        /\ Fits(c, h, t, z) /\ Exact(b, c, h, z)
  BY SettledParts DEF IInv
<1>2. PICK l \in Nat, r \in Nat : l = lo /\ r = hi /\ l < c /\ r < c
  BY <1>1 DEF IInv, LoopInv, Cells, Has
<1>3. l # r /\ h >= t /\ (l + r = h + t \/ l + r = h + t + c \/ l + r = h + t - c)
  BY <1>1, <1>2 DEF IInv, LoopInv, ReverseSwap, Has
<1>4. PICK m \in Int : m = (r - 1) % c
  OBVIOUS
<1>5. PICK k \in Int : k = (l + 1) % c
  OBVIOUS
<1>6. m = IF r = 0 THEN c - 1 ELSE r - 1
  <2>1. CASE r = 0
    BY <1>4, <2>1
  <2>2. CASE r # 0
    BY <1>2, <1>4, <2>2
  <2> QED BY <2>1, <2>2
<1>7. k = IF l + 1 < c THEN l + 1 ELSE 0
  <2>1. CASE l + 1 < c
    BY <1>5, <2>1
  <2>2. CASE c = l + 1
    BY <1>5, <2>2
  <2> QED BY <1>2, <2>1, <2>2
<1>8. /\ seq' = [seq EXCEPT !.buffer = Swapped(@, l, m)]
      /\ lo' = k /\ hi' = m /\ UNCHANGED <<pc, turns, fault>>
  BY <1>1, <1>2, <1>4, <1>5 DEF ReverseSwap, Has
<1>9. Has(seq', c, h, t, z) /\ seq'.buffer = Swapped(b, l, m)
  BY <1>1, <1>8 DEF Has, Fields
<1>10. l \in 0 .. c - 1 /\ m \in 0 .. c - 1 /\ k \in 0 .. c - 1
  BY <1>2, <1>6, <1>7
<1>11. Around(c, h, z, l) <=> Around(c, h, z, m)
  BY <1>1, <1>2, <1>3, <1>6 DEF Around, Fits
<1> HIDE DEF b
<1>12. Exact(seq'.buffer, c, h, z)
  <2>1. /\ Swapped(b, l, m) \in [0 .. c - 1 -> Value \union {Hole}]
        /\ Swapped(b, l, m)[l] = b[m] /\ Swapped(b, l, m)[m] = b[l]
        /\ \A x \in 0 .. c - 1 : x # l /\ x # m => Swapped(b, l, m)[x] = b[x]
    BY <1>1, <1>10, SwappedCells DEF Exact
  <2> QED BY <1>1, <1>9, <1>10, <1>11, <2>1 DEF Exact
<1>13. Settled(seq')
  BY <1>1, <1>9, <1>12, SettledWhole
<1>14. k + m = h + t \/ k + m = h + t + c \/ k + m = h + t - c
  BY <1>1, <1>2, <1>3, <1>6, <1>7 DEF Fits
<1>15. LoopInv'
  BY <1>1, <1>3, <1>8, <1>9, <1>10, <1>14 DEF IInv, LoopInv, ReverseSwap, Cells, Has
<1> QED BY <1>13, <1>15 DEF IInv

LEMMA ReverseBeginHolds ==
  ASSUME IInv, ReverseBegin
  PROVE  IInv'
<1>1. /\ seq.capacity \in Nat \ {0} /\ seq.head \in 0 .. seq.capacity - 1
      /\ seq.tail \in 0 .. seq.capacity
  BY Bounds DEF IInv, Settled, Sound
<1>2. seq' = seq /\ pc' = "reverse" /\ lo' = seq.head /\ hi' = seq.tail
      /\ turns' = turns /\ fault' = fault /\ seq.head >= seq.tail
  BY DEF ReverseBegin
<1>3. seq.tail \in 0 .. seq.capacity - 1
  BY <1>1, <1>2
<1>4. LoopInv'
  BY <1>1, <1>2, <1>3 DEF IInv, LoopInv, Cells
<1> QED BY <1>2, <1>4 DEF IInv, Settled, Sound, Shaped, Measured, Cells, Covers, Around, Fields

LEMMA SeqKept ==
  ASSUME IInv, UNCHANGED seq
  PROVE  Settled(seq)' /\ 0 \in Cells(seq)'
<1>1. 0 \in Cells(seq)
  BY SeqSound DEF Cells
<1> QED BY <1>1 DEF IInv, Settled, Sound, Shaped, Measured, Cells, Covers, Around, Fields

LEMMA ReverseEndHolds ==
  ASSUME IInv, ReverseEnd
  PROVE  IInv'
<1>1. Settled(seq)' /\ 0 \in Cells(seq)'
  BY SeqKept DEF ReverseEnd
<1>2. LoopInv'
  BY <1>1 DEF IInv, LoopInv, ReverseEnd
<1> QED BY <1>1, <1>2 DEF IInv

LEMMA RotateBeginHolds ==
  ASSUME IInv, NEW n \in -MaxTurns .. MaxTurns, RotateBegin(n)
  PROVE  IInv'
<1>1. Settled(seq)' /\ 0 \in Cells(seq)'
  BY SeqKept DEF RotateBegin
<1>2. n \in Int
  BY SizeAssumption
<1>3. PICK z \in Nat \ {0} : z = seq.size
  BY SeqSound DEF RotateBegin
<1>4. -((-n) % z) \in Int /\ n % z \in Int
  BY <1>2
<1>5. turns' \in Int
  BY <1>3, <1>4 DEF RotateBegin
<1>6. LoopInv'
  BY <1>1, <1>3, <1>5 DEF IInv, LoopInv, RotateBegin, Idle
<1> QED BY <1>1, <1>6 DEF IInv

LEMMA RotateEndHolds ==
  ASSUME IInv, RotateEnd
  PROVE  IInv'
<1>1. Settled(seq)' /\ 0 \in Cells(seq)'
  BY SeqKept DEF RotateEnd
<1>2. LoopInv'
  BY <1>1 DEF IInv, LoopInv, RotateEnd, loopVars
<1> QED BY <1>1, <1>2 DEF IInv

LEMMA RotateLeftHolds ==
  ASSUME IInv, RotateLeft
  PROVE  IInv'
<1> DEFINE b == seq.buffer
<1>1. PICK c \in Nat \ {0}, h \in Nat, t \in Nat, z \in Nat :
        /\ Has(seq, c, h, t, z) /\ c \in Capacities
        /\ Fits(c, h, t, z) /\ Exact(b, c, h, z)
  BY SettledParts DEF IInv
<1>2. CASE seq.tail = seq.capacity
  BY <1>2, OverrunHolds DEF RotateLeft
<1>3. CASE seq.tail # seq.capacity
  <2>1. z > 0 /\ h < c /\ t < c /\ (h + z = t \/ h + z = t + c) /\ z <= c
    BY <1>1, <1>3 DEF IInv, LoopInv, RotateLeft, Has, Fits
  <2>2. PICK k \in Int, m \in Int : k = (h + 1) % c /\ m = (t + 1) % c
    OBVIOUS
  <2>3. k = IF h + 1 < c THEN h + 1 ELSE 0
    <3>1. CASE h + 1 < c
      BY <2>2, <3>1
    <3>2. CASE c = h + 1
      BY <2>2, <3>2
    <3> QED BY <2>1, <3>1, <3>2
  <2>4. m = IF t + 1 < c THEN t + 1 ELSE 0
    <3>1. CASE t + 1 < c
      BY <2>2, <3>1
    <3>2. CASE c = t + 1
      BY <2>2, <3>2
    <3> QED BY <2>1, <3>1, <3>2
  <2>5. /\ seq' = [seq EXCEPT !.buffer = Swapped(@, t, h), !.head = k, !.tail = m]
        /\ turns' = turns - 1 /\ UNCHANGED <<pc, lo, hi, fault>>
    BY <1>1, <1>3, <2>2 DEF RotateLeft, Has
  <2>6. Has(seq', c, k, m, z) /\ seq'.buffer = Swapped(b, t, h)
    BY <1>1, <2>5 DEF Has, Fields
  <2>7. k \in Nat /\ m \in Nat /\ Fits(c, k, m, z)
    BY <2>1, <2>3, <2>4 DEF Fits
  <2> HIDE DEF b
  <2>8. Exact(seq'.buffer, c, k, z)
    <3>1. t \in 0 .. c - 1 /\ h \in 0 .. c - 1
      BY <2>1
    <3>2. /\ Swapped(b, t, h) \in [0 .. c - 1 -> Value \union {Hole}]
          /\ Swapped(b, t, h)[t] = b[h] /\ Swapped(b, t, h)[h] = b[t]
          /\ \A x \in 0 .. c - 1 : x # t /\ x # h => Swapped(b, t, h)[x] = b[x]
      BY <1>1, <3>1, SwappedCells DEF Exact
    <3>3. Around(c, h, z, h) /\ Around(c, k, z, t)
      BY <2>1, <2>3 DEF Around
    <3>4. t # h => ~ Around(c, h, z, t) /\ ~ Around(c, k, z, h)
      BY <2>1, <2>3 DEF Around
    <3>5. ASSUME NEW x \in 0 .. c - 1, x # t, x # h
          PROVE  Around(c, h, z, x) <=> Around(c, k, z, x)
      BY <2>1, <2>3, <3>5 DEF Around
    <3> QED BY <1>1, <2>6, <3>1, <3>2, <3>3, <3>4, <3>5 DEF Exact
  <2>9. Settled(seq')
    BY <1>1, <2>6, <2>7, <2>8, SettledWhole
  <2>10. Cells(seq)' = Cells(seq) /\ seq'.size # 0
    BY <1>1, <2>1, <2>6 DEF Has, Cells
  <2>11. turns' \in Int
    BY <2>5 DEF IInv, LoopInv
  <2>12. LoopInv'
    BY <2>5, <2>10, <2>11 DEF IInv, LoopInv, RotateLeft
  <2> QED BY <2>9, <2>12 DEF IInv
<1> QED BY <1>2, <1>3

LEMMA RotateRightHolds ==
  ASSUME IInv, RotateRight
  PROVE  IInv'
<1> DEFINE b == seq.buffer
<1>1. PICK c \in Nat \ {0}, h \in Nat, t \in Nat, z \in Nat :
        /\ Has(seq, c, h, t, z) /\ c \in Capacities
        /\ Fits(c, h, t, z) /\ Exact(b, c, h, z)
  BY SettledParts DEF IInv
<1>2. z > 0 /\ h < c /\ t <= c /\ (h + z = t \/ h + z = t + c) /\ z <= c
  BY <1>1 DEF IInv, LoopInv, RotateRight, Has, Fits
<1>3. PICK k \in Int, m \in Int : k = (h - 1) % c /\ m = (t - 1) % c
  OBVIOUS
<1>4. k = IF h = 0 THEN c - 1 ELSE h - 1
  <2>1. CASE h = 0
    BY <1>3, <2>1
  <2>2. CASE h # 0
    BY <1>2, <1>3, <2>2
  <2> QED BY <2>1, <2>2
<1>5. m = IF t = 0 THEN c - 1 ELSE t - 1
  <2>1. CASE t = 0
    BY <1>3, <2>1
  <2>2. CASE t # 0
    BY <1>2, <1>3, <2>2
  <2> QED BY <2>1, <2>2
<1>6. /\ seq' = [seq EXCEPT !.buffer = Swapped(@, m, k), !.head = k, !.tail = m]
      /\ turns' = turns + 1 /\ UNCHANGED <<pc, lo, hi, fault>>
  BY <1>1, <1>3 DEF RotateRight, Has
<1>7. Has(seq', c, k, m, z) /\ seq'.buffer = Swapped(b, m, k)
  BY <1>1, <1>6 DEF Has, Fields
<1>8. k \in Nat /\ m \in Nat /\ Fits(c, k, m, z)
  BY <1>2, <1>4, <1>5 DEF Fits
<1> HIDE DEF b
<1>9. Exact(seq'.buffer, c, k, z)
  <2>1. m \in 0 .. c - 1 /\ k \in 0 .. c - 1
    BY <1>2, <1>4, <1>5
  <2>2. b \in [0 .. c - 1 -> Value \union {Hole}]
    BY <1>1 DEF Exact
  <2>3. /\ Swapped(b, m, k) \in [0 .. c - 1 -> Value \union {Hole}]
        /\ Swapped(b, m, k)[m] = b[k] /\ Swapped(b, m, k)[k] = b[m]
        /\ \A x \in 0 .. c - 1 : x # m /\ x # k => Swapped(b, m, k)[x] = b[x]
    BY <2>1, <2>2, SwappedCells
  <2>4. Around(c, h, z, m) /\ Around(c, k, z, k)
    BY <1>2, <1>4, <1>5 DEF Around
  <2>5. m # k => ~ Around(c, h, z, k) /\ ~ Around(c, k, z, m)
    BY <1>2, <1>4, <1>5 DEF Around
  <2>6. ASSUME NEW x \in 0 .. c - 1, x # m, x # k
        PROVE  Around(c, h, z, x) <=> Around(c, k, z, x)
    BY <1>2, <1>4, <1>5, <2>6 DEF Around
  <2> QED BY <1>1, <1>7, <2>1, <2>3, <2>4, <2>5, <2>6 DEF Exact
<1>10. Settled(seq')
  BY <1>1, <1>7, <1>8, <1>9, SettledWhole
<1>11. Cells(seq)' = Cells(seq) /\ seq'.size # 0
  BY <1>1, <1>2, <1>7 DEF Has, Cells
<1>12. turns' \in Int
  BY <1>6 DEF IInv, LoopInv
<1>13. LoopInv'
  BY <1>6, <1>11, <1>12 DEF IInv, LoopInv, RotateRight
<1> QED BY <1>10, <1>13 DEF IInv

-----------------------------------------------------------------------------
(* Every state.                                                            *)

LEMMA InitHolds == Init => IInv
<1> SUFFICES ASSUME Init PROVE IInv
  OBVIOUS
<1>1. PICK c \in Nat \ {0} : c = MinCapacity
  BY PositiveCapacities, CapacityAssumption
<1>2. Sound(seq)
  BY FreshSound, CapacityAssumption DEF Init
<1>3. /\ seq.capacity = c /\ seq.size = 0 /\ seq.head = 0
      /\ seq.buffer = [i \in 0 .. c - 1 |-> IF i < Len(<< >>) THEN << >>[i + 1] ELSE Hole]
  BY <1>1 DEF Init, Fresh, FromBuffer
<1>4. \A i \in 0 .. c - 1 : seq.buffer[i] = Hole /\ ~ Covers(seq, i)
  BY <1>3 DEF Covers, Around
<1>5. Settled(seq)
  BY <1>2, <1>3, <1>4 DEF Settled, Cells
<1>6. LoopInv
  BY <1>3 DEF Init, LoopInv, Cells
<1> QED BY <1>5, <1>6 DEF IInv

LEMMA StutterHolds ==
  ASSUME IInv, UNCHANGED vars
  PROVE  IInv'
<1>1. Settled(seq)' /\ 0 \in Cells(seq)'
  BY SeqKept DEF vars
<1>2. LoopInv'
  BY DEF vars, IInv, LoopInv, Cells
<1> QED BY <1>1, <1>2 DEF IInv

LEMMA LoopHolds ==
  ASSUME IInv, Loop
  PROVE  IInv'
BY ReverseSwapHolds, ReverseEndHolds, RotateLeftHolds, RotateRightHolds, RotateEndHolds
   DEF Loop

LEMMA NextHolds == IInv /\ [Next]_vars => IInv'
<1> SUFFICES ASSUME IInv, [Next]_vars PROVE IInv'
  OBVIOUS
<1>1. CASE \E v \in Value : Push(v)
  BY <1>1, PushHolds
<1>2. CASE \E p \in 0 .. seq.size, vs \in Args : Insert(p, vs)
  BY <1>2, InsertHolds
<1>3. CASE \E p \in Position : Remove(p)
  BY <1>3, RemoveHolds
<1>4. CASE PopLast
  BY <1>4, PopLastHolds
<1>5. CASE \E p \in Position, v \in Value : Set(p, v)
  BY <1>5, SetHolds
<1>6. CASE Clear
  BY <1>6, ClearHolds
<1>7. CASE \E n \in 0 .. MaxSize : EnsureCapacity(n)
  BY <1>7, EnsureCapacityHolds
<1>8. CASE Join
  BY <1>8, JoinHolds
<1>9. CASE \E p \in Shuffles(seq.size) : Sort(p)
  BY <1>9, SortHolds
<1>10. CASE \E f \in [Position -> Value] : Apply(f) \/ TakeMap(f)
  BY <1>10, ApplyHolds, TakeMapHolds
<1>11. CASE ReverseRange \/ ReverseBegin
  BY <1>11, ReverseRangeHolds, ReverseBeginHolds
<1>12. CASE \E n \in -MaxTurns .. MaxTurns : RotateBegin(n)
  BY <1>12, RotateBeginHolds
<1>13. CASE Loop
  BY <1>13, LoopHolds
<1>14. CASE TakeClone \/ TakeReversed
  BY <1>14, TakeCloneHolds, TakeReversedHolds
<1>15. CASE \E S \in SUBSET (1 .. seq.size) : TakeFilter(S)
  BY <1>15, TakeFilterHolds
<1>16. CASE \E p, n \in 0 .. seq.size : TakeSlice(p, n)
  BY <1>16, TakeSliceHolds
<1>17. CASE Stopped \/ UNCHANGED vars
  BY <1>17, StutterHolds DEF Stopped
<1> QED BY <1>1, <1>2, <1>3, <1>4, <1>5, <1>6, <1>7, <1>8, <1>9, <1>10, <1>11,
           <1>12, <1>13, <1>14, <1>15, <1>16, <1>17 DEF Next

LEMMA Invariant == Spec => []IInv
BY InitHolds, NextHolds, PTL DEF Spec

\* The sequence keeps the shape of a ds_seq_t (ds_seq.h:31-38) whatever the
\* capacities, the sizes and the arguments, powers of two or not, and the two
\* ends of reverse's loop stay inside the buffer for ever.
THEOREM TypeCorrect == Spec => []TypeOK
<1>1. IInv => TypeOK
  BY InvGives
<1> QED BY <1>1, Invariant, PTL

\* In a buffer of any capacity, no move, insertion, removal, reallocation or
\* turn of a loop leaves a value outside the window of head, tail and size, or
\* exposes a cell that was never set (ds_seq.c:126-198, 263-285, 341-489, 539-566).
THEOREM WindowKept == Spec => []WindowHoldsValues
<1>1. IInv => WindowHoldsValues
  BY InvGives
<1> QED BY <1>1, Invariant, PTL

-----------------------------------------------------------------------------
(* The values that a sequence holds, in order: what each operator does to  *)
(* its contents.                                                           *)

\* The cell of the value at position p, for a window from cell h of c.
Spot(c, h, p) == IF h + p < c THEN h + p ELSE h + p - c

\* The z cells from h on hold the values of f, in order.
Shows(b, c, h, z, f) == \A p \in 0 .. z - 1 : b[Spot(c, h, p)] = f[p + 1]

LEMMA ContentsShown ==
  ASSUME NEW s, Sound(s), NEW c \in Nat \ {0}, NEW h \in Nat, NEW t \in Nat,
         NEW z \in Nat, Has(s, c, h, t, z), Fits(c, h, t, z)
  PROVE  /\ Contents(s) \in Seq(Value) /\ Len(Contents(s)) = z
         /\ Shows(s.buffer, c, h, z, Contents(s))
<1>1. ASSUME NEW p \in 0 .. z - 1
      PROVE  s.buffer[Spot(c, h, p)] = Contents(s)[p + 1]
  <2>1. Cell(s, p) = Spot(c, h, p)
    BY CellPicked DEF Spot
  <2>2. p + 1 \in 1 .. s.size /\ (p + 1) - 1 = p
    BY DEF Has
  <2> QED BY <2>1, <2>2 DEF Contents
<1>2. Contents(s) \in Seq(Value) /\ Len(Contents(s)) = z
  BY ContentsAreValues DEF Has
<1> QED BY <1>1, <1>2 DEF Shows

LEMMA ShownContents ==
  ASSUME NEW s, Sound(s), NEW c \in Nat \ {0}, NEW h \in Nat, NEW t \in Nat,
         NEW z \in Nat, Has(s, c, h, t, z), Fits(c, h, t, z),
         NEW f \in Seq(Value), Len(f) = z, Shows(s.buffer, c, h, z, f)
  PROVE  Contents(s) = f
<1>1. PICK g : g = Contents(s)
  OBVIOUS
<1>2. g \in Seq(Value) /\ Len(g) = z /\ Shows(s.buffer, c, h, z, g)
  BY <1>1, ContentsShown
<1>3. ASSUME NEW k \in 1 .. z PROVE g[k] = f[k]
  <2>1. k - 1 \in 0 .. z - 1 /\ (k - 1) + 1 = k
    OBVIOUS
  <2> QED BY <1>2, <2>1 DEF Shows
<1>4. g = f
  BY <1>2, <1>3
<1> QED BY <1>1, <1>4

\* A sequence whose values are f, taken apart.
LEMMA PartsShown ==
  ASSUME NEW s, Sound(s)
  PROVE  \E c \in Nat \ {0}, h \in Nat, t \in Nat, z \in Nat, f \in Seq(Value) :
           /\ Has(s, c, h, t, z) /\ c \in Capacities
           /\ Fits(c, h, t, z) /\ DOMAIN s.buffer = 0 .. c - 1
           /\ f = Contents(s) /\ Len(f) = z /\ Shows(s.buffer, c, h, z, f)
<1>1. PICK c \in Nat \ {0}, h \in Nat, t \in Nat, z \in Nat :
        /\ Has(s, c, h, t, z) /\ c \in Capacities
        /\ Fits(c, h, t, z) /\ Fills(s.buffer, c, h, z)
  BY Parts
<1>2. DOMAIN s.buffer = 0 .. c - 1
  BY <1>1 DEF Fills
<1>3. PICK f \in Seq(Value) :
        f = Contents(s) /\ Len(f) = z /\ Shows(s.buffer, c, h, z, f)
  BY <1>1, ContentsShown
<1> QED BY <1>1, <1>2, <1>3

\* The values of a window lie in different cells of the buffer.
LEMMA SpotsDiffer ==
  ASSUME NEW c \in Nat \ {0}, NEW h \in Nat, NEW z \in Nat, h < c, z <= c
  PROVE  /\ \A p \in 0 .. z - 1 : Spot(c, h, p) \in 0 .. c - 1
                                  /\ Around(c, h, z, Spot(c, h, p))
         /\ \A p, q \in 0 .. z - 1 : Spot(c, h, p) = Spot(c, h, q) => p = q
BY DEF Spot, Around

LEMMA TidyShows ==
  ASSUME NEW s, Sound(s)
  PROVE  Contents(Tidy(s)) = Contents(s)
<1>1. PICK c \in Nat \ {0}, h \in Nat, t \in Nat, z \in Nat, f \in Seq(Value) :
        /\ Has(s, c, h, t, z) /\ c \in Capacities
        /\ Fits(c, h, t, z) /\ DOMAIN s.buffer = 0 .. c - 1
        /\ f = Contents(s) /\ Len(f) = z /\ Shows(s.buffer, c, h, z, f)
  BY PartsShown
<1>2. Sound(Tidy(s))
  BY TidySettles DEF Settled
<1>3. PICK u : u = Tidy(s)
  OBVIOUS
<1>4. /\ Has(u, c, h, t, z)
      /\ u.buffer = [i \in 0 .. c - 1 |-> IF i \in Window(s) THEN s.buffer[i] ELSE Hole]
  BY <1>1, <1>3 DEF Tidy, Has, Fields
<1>5. ASSUME NEW p \in 0 .. z - 1 PROVE u.buffer[Spot(c, h, p)] = f[p + 1]
  <2>1. Spot(c, h, p) \in 0 .. c - 1
    BY <1>1, SpotsDiffer DEF Fits
  <2>2. PICK i \in Nat : i = Cell(s, p) /\ i = IF h + p < c THEN h + p ELSE h + p - c
    BY <1>1, CellPicked
  <2>3. Spot(c, h, p) = Cell(s, p) /\ p \in 0 .. s.size - 1
    BY <1>1, <2>2 DEF Spot, Has
  <2>4. Spot(c, h, p) \in Window(s)
    BY <2>3 DEF Window
  <2> QED BY <1>1, <1>4, <2>1, <2>4 DEF Shows
<1>6. Shows(u.buffer, c, h, z, f)
  BY <1>5 DEF Shows
<1>7. Contents(u) = f
  BY <1>1, <1>2, <1>3, <1>4, <1>6, ShownContents
<1> QED BY <1>1, <1>3, <1>7

\* The first z cells of g hold, in order, what b holds from h on.
Fronts(g, b, c, h, z) == \A p \in 0 .. z - 1 : g[p] = b[Spot(c, h, p)]

\* What the front move does not disturb: the order of the values.
LEMMA FrontShows ==
  ASSUME NEW s, Sound(s), NEW c \in Nat \ {0}, NEW h \in Nat, NEW t \in Nat,
         NEW z \in Nat, Has(s, c, h, t, z), Fits(c, h, t, z),
         DOMAIN s.buffer = 0 .. c - 1
  PROVE  Fronts(FrontBuffer(s), s.buffer, c, h, z)
<1> USE DEF Fronts
<1>1. PICK b : b = s.buffer
  OBVIOUS
<1>2. PICK r \in Nat : r = c - h
  BY DEF Fits
<1>3. h < c /\ t <= c /\ z <= c /\ DOMAIN b = 0 .. c - 1
      /\ (h + z = t \/ h + z = t + c \/ (z = 0 /\ h = 0 /\ t = c))
  BY <1>1 DEF Fits
<1>4. CASE h < t
  <2>1. FrontBuffer(s) = Move(b, 0, h, z)
    BY <1>1, <1>4 DEF FrontBuffer, Has
  <2>2. MovedTo(Move(b, 0, h, z), b, 0, h, z)
    <3>1. 0 \in Int /\ h \in Int /\ z \in Int /\ c \in Nat
      OBVIOUS
    <3> QED BY <1>3, <3>1, MovedCells
  <2>3. ASSUME NEW p \in 0 .. z - 1 PROVE Move(b, 0, h, z)[p] = b[Spot(c, h, p)]
    <3>1. p \in 0 .. c - 1 /\ 0 <= p /\ p < 0 + z /\ h + p - 0 = Spot(c, h, p)
      BY <1>3, <1>4 DEF Spot
    <3> QED BY <1>3, <2>2, <3>1 DEF MovedTo
  <2> QED BY <1>1, <2>1, <2>3
<1>5. CASE h >= t /\ RoomBetween(h, t, r)
  <2>1. PICK m : m = Move(b, r, 0, t)
    OBVIOUS
  <2>2. FrontBuffer(s) = Move(m, 0, h, r) /\ r < h - t
    BY <1>1, <1>2, <1>3, <1>5, <2>1 DEF FrontBuffer, RoomBetween, Has
  <2>3. MovedTo(m, b, r, 0, t)
    BY <1>3, <2>1, MovedCells
  <2>4. DOMAIN m = 0 .. c - 1
    BY <1>3, <2>3 DEF MovedTo
  <2>5. MovedTo(Move(m, 0, h, r), m, 0, h, r)
    BY <1>3, <2>4, MovedCells
  <2>6. ASSUME NEW p \in 0 .. z - 1, p < r
        PROVE  Move(m, 0, h, r)[p] = b[Spot(c, h, p)]
    <3>1. /\ p \in 0 .. c - 1 /\ 0 <= p /\ p < 0 + r /\ h + p - 0 = h + p
          /\ h + p \in 0 .. c - 1 /\ ~ (r <= h + p /\ h + p < r + t)
          /\ Spot(c, h, p) = h + p
      BY <1>2, <1>3, <2>2, <2>6 DEF Spot
    <3>2. Move(m, 0, h, r)[p] = m[h + p]
      BY <2>4, <2>5, <3>1 DEF MovedTo
    <3>3. m[h + p] = b[h + p]
      BY <1>3, <2>3, <3>1 DEF MovedTo
    <3> QED BY <3>1, <3>2, <3>3
  <2>7. ASSUME NEW p \in 0 .. z - 1, r <= p
        PROVE  Move(m, 0, h, r)[p] = b[Spot(c, h, p)]
    <3>1. /\ p \in 0 .. c - 1 /\ ~ (0 <= p /\ p < 0 + r) /\ r <= p /\ p < r + t
          /\ 0 + p - r = Spot(c, h, p)
      BY <1>2, <1>3, <1>5, <2>2, <2>7 DEF Spot
    <3>2. Move(m, 0, h, r)[p] = m[p]
      BY <2>4, <2>5, <3>1 DEF MovedTo
    <3>3. m[p] = b[Spot(c, h, p)]
      BY <1>3, <2>3, <3>1 DEF MovedTo
    <3> QED BY <3>2, <3>3
  <2>8. \A p \in 0 .. z - 1 : p < r \/ r <= p
    OBVIOUS
  <2> QED BY <1>1, <2>2, <2>6, <2>7, <2>8
<1>6. CASE h >= t /\ ~ RoomBetween(h, t, r)
  <2>1. FrontBuffer(s) = [i \in 0 .. c - 1 |->
              IF i < r THEN b[h + i] ELSE IF i < r + t THEN b[i - r] ELSE Hole]
    BY <1>1, <1>2, <1>3, <1>6 DEF FrontBuffer, Has
  <2>2. ASSUME NEW p \in 0 .. z - 1 PROVE FrontBuffer(s)[p] = b[Spot(c, h, p)]
    <3>1. p \in 0 .. c - 1
      BY <1>3
    <3>2. CASE p < r
      <4>1. Spot(c, h, p) = h + p
        BY <1>2, <3>2 DEF Spot
      <4> QED BY <2>1, <3>1, <3>2, <4>1
    <3>3. CASE r <= p
      <4>1. Spot(c, h, p) = p - r /\ ~ (p < r) /\ p < r + t
        BY <1>2, <1>3, <1>6, <3>3 DEF Spot
      <4> QED BY <2>1, <3>1, <4>1
    <3> QED BY <3>2, <3>3
  <2> QED BY <1>1, <2>2
<1> QED BY <1>3, <1>4, <1>5, <1>6

LEMMA ResetHeadShows ==
  ASSUME NEW s, Sound(s)
  PROVE  /\ Contents(ResetHead(s)) = Contents(s)
         /\ \A p \in 0 .. s.size - 1 : ResetHead(s).buffer[p] = Contents(s)[p + 1]
<1>1. PICK c \in Nat \ {0}, h \in Nat, t \in Nat, z \in Nat, f \in Seq(Value) :
        /\ Has(s, c, h, t, z) /\ c \in Capacities
        /\ Fits(c, h, t, z) /\ DOMAIN s.buffer = 0 .. c - 1
        /\ f = Contents(s) /\ Len(f) = z /\ Shows(s.buffer, c, h, z, f)
  BY PartsShown
<1>2. PICK u : u = ResetHead(s)
  OBVIOUS
<1>3. Sound(u) /\ u.head = 0 /\ u.size = z /\ u.capacity = c
  BY <1>1, <1>2, ResetHeadSound DEF Has
<1>4. ASSUME NEW p \in 0 .. z - 1 PROVE u.buffer[p] = f[p + 1]
  <2>1. CASE h = 0
    <3>1. u = s
      BY <1>1, <1>2, <2>1 DEF ResetHead, Has
    <3>2. Spot(c, h, p) = p
      BY <1>1, <2>1 DEF Spot, Fits
    <3> QED BY <1>1, <3>1, <3>2 DEF Shows
  <2>2. CASE h # 0
    <3>1. u.buffer = FrontBuffer(s)
      BY <1>1, <1>2, <2>2 DEF ResetHead, Has, Fields
    <3>2. Fronts(FrontBuffer(s), s.buffer, c, h, z)
      <4>1. Has(s, c, h, t, z) /\ Fits(c, h, t, z) /\ DOMAIN s.buffer = 0 .. c - 1
        BY <1>1
      <4> QED BY <4>1, FrontShows, Zenon
    <3> QED BY <1>1, <3>1, <3>2 DEF Shows, Fronts
  <2> QED BY <2>1, <2>2
<1>5. PICK y \in Nat : y = u.tail
  BY <1>3, Bounds DEF Sound
<1>6. Has(u, c, 0, y, z) /\ Fits(c, 0, y, z)
  <2>1. Shaped(u)
    BY <1>3 DEF Sound
  <2>2. y \in 0 .. c /\ z \in 0 .. c
        /\ (0 + z = y \/ 0 + z = y + c \/ (z = 0 /\ 0 = 0 /\ y = c))
    BY <1>3, <1>5, <2>1, Bounds
  <2>3. Has(u, c, 0, y, z)
    BY <1>3, <1>5, <2>1 DEF Shaped, Has
  <2>4. Fits(c, 0, y, z)
    BY <2>2 DEF Fits
  <2> QED BY <2>3, <2>4
<1>7. \A p \in 0 .. z - 1 : Spot(c, 0, p) = p
  BY <1>1 DEF Spot, Fits
<1>8. Shows(u.buffer, c, 0, z, f)
  BY <1>4, <1>7 DEF Shows
<1>9. Contents(u) = f
  BY <1>1, <1>3, <1>6, <1>8, ShownContents
<1> QED BY <1>1, <1>2, <1>4, <1>9 DEF Has

\* A sequence laid out from cell 0 holds what its first cells hold.
LEMMA LaidOutShows ==
  ASSUME NEW u, Sound(u), u.head = 0, u.tail = u.size, NEW f \in Seq(Value),
         Len(f) = u.size, \A p \in 0 .. u.size - 1 : u.buffer[p] = f[p + 1]
  PROVE  Contents(u) = f
<1>1. PICK c \in Nat \ {0}, h \in Nat, t \in Nat, z \in Nat, g \in Seq(Value) :
        /\ Has(u, c, h, t, z) /\ c \in Capacities
        /\ Fits(c, h, t, z) /\ DOMAIN u.buffer = 0 .. c - 1
        /\ g = Contents(u) /\ Len(g) = z /\ Shows(u.buffer, c, h, z, g)
  BY PartsShown
<1>2. h = 0 /\ z = u.size
  BY <1>1 DEF Has
<1>3. \A p \in 0 .. z - 1 : Spot(c, h, p) = p
  BY <1>1, <1>2 DEF Spot, Fits
<1>4. Shows(u.buffer, c, h, z, f)
  BY <1>2, <1>3 DEF Shows
<1> QED BY <1>1, <1>2, <1>4, ShownContents

LEMMA ReallocateShows ==
  ASSUME NEW s, Sound(s), NEW c \in Capacities, s.size <= c
  PROVE  Contents(Reallocate(s, c)) = Contents(s)
<1>1. PICK u, b : u = Reallocate(s, c) /\ b = ResetHead(s).buffer
  OBVIOUS
<1>2. /\ u.buffer = [i \in 0 .. c - 1 |-> IF i < s.capacity THEN b[i] ELSE Hole]
      /\ u.head = 0 /\ u.tail = s.size /\ u.size = s.size
  BY <1>1 DEF Reallocate
<1>3. PICK f \in Seq(Value) : f = Contents(s) /\ Len(f) = s.size
  BY ContentsAreValues
<1>4. s.capacity \in Nat \ {0} /\ s.size \in 0 .. s.capacity /\ c \in Nat \ {0}
  BY Bounds, PositiveCapacities DEF Sound
<1>5. \A p \in 0 .. s.size - 1 : p \in 0 .. c - 1 /\ p < s.capacity
  BY <1>4
<1>6. \A p \in 0 .. s.size - 1 : b[p] = f[p + 1]
  BY <1>1, <1>3, ResetHeadShows
<1>7. \A p \in 0 .. u.size - 1 : u.buffer[p] = f[p + 1]
  BY <1>2, <1>5, <1>6
<1>8. Sound(u)
  BY <1>1, ReallocateSound
<1>9. Contents(u) = f
  BY <1>2, <1>3, <1>7, <1>8, LaidOutShows
<1> QED BY <1>1, <1>3, <1>9

LEMMA AllocateShows ==
  ASSUME NEW s, Sound(s), NEW n \in 0 .. MaxSize
  PROVE  Contents(Allocate(s, n)) = Contents(s)
<1>1. PICK c \in Capacities : n <= c
  BY SizeAssumption
<1>2. n \in Nat
  BY SizeAssumption
<1>3. PICK d \in Capacities : d = CapacityFor(n)
  BY <1>1, <1>2, CapacityForFits
<1>4. s.capacity \in Nat \ {0} /\ s.size \in 0 .. s.capacity /\ d \in Nat \ {0}
  BY Bounds, PositiveCapacities DEF Sound
<1>5. CASE d > s.capacity
  <2>1. Allocate(s, n) = Reallocate(s, d) /\ s.size <= d
    BY <1>3, <1>4, <1>5 DEF Allocate
  <2> QED BY <2>1, ReallocateShows
<1>6. CASE ~ (d > s.capacity)
  BY <1>3, <1>6 DEF Allocate
<1> QED BY <1>5, <1>6

LEMMA AutoTruncateShows ==
  ASSUME NEW s, Sound(s)
  PROVE  Contents(AutoTruncate(s)) = Contents(s)
<1>1. CASE Truncates(s)
  <2>1. PICK d : d = s.capacity \div 2
    OBVIOUS
  <2>2. s.capacity \in Nat \ {0} /\ s.size \in Nat /\ s.capacity \in Capacities
    BY Bounds DEF Sound, Shaped
  <2>3. s.size <= s.capacity \div 4 /\ d >= MinCapacity
    BY <1>1, <2>1 DEF Truncates
  <2>4. s.capacity \div 4 <= s.capacity \div 2 /\ s.capacity \div 4 \in Int /\ d \in Int
    BY <2>1, <2>2
  <2>5. s.size <= d
    BY <2>1, <2>2, <2>3, <2>4
  <2>6. d \in Capacities
    BY <2>1, <2>2, <2>3, CapacityAssumption
  <2>7. AutoTruncate(s) = Reallocate(s, d)
    BY <1>1, <2>1 DEF AutoTruncate
  <2> QED BY <2>5, <2>6, <2>7, ReallocateShows
<1>2. CASE ~ Truncates(s)
  BY <1>2 DEF AutoTruncate
<1> QED BY <1>1, <1>2

LEMMA FromBufferShows ==
  ASSUME NEW c \in Capacities, NEW vs \in Seq(Value), Len(vs) <= c
  PROVE  Contents(FromBuffer(c, vs)) = vs
<1>1. PICK u : u = FromBuffer(c, vs)
  OBVIOUS
<1>2. /\ u.buffer = [i \in 0 .. c - 1 |-> IF i < Len(vs) THEN vs[i + 1] ELSE Hole]
      /\ u.head = 0 /\ u.tail = Len(vs) /\ u.size = Len(vs)
  BY <1>1 DEF FromBuffer
<1>3. c \in Nat \ {0} /\ Len(vs) \in Nat
  BY PositiveCapacities
<1>4. \A p \in 0 .. u.size - 1 : p \in 0 .. c - 1 /\ p < Len(vs)
  BY <1>2, <1>3
<1>5. \A p \in 0 .. u.size - 1 : u.buffer[p] = vs[p + 1]
  BY <1>2, <1>4
<1>6. Sound(u)
  BY <1>1, FromBufferSound
<1>7. Len(vs) = u.size /\ u.tail = u.size
  BY <1>2
<1>8. Contents(u) = vs
  BY <1>2, <1>5, <1>6, <1>7, LaidOutShows
<1> QED BY <1>1, <1>8

-----------------------------------------------------------------------------
(* Values that go in.                                                      *)

\* h is the part of f from a to e.
IsSlice(h, f, a, e) ==
  Len(h) = e + 1 - a /\ \A k \in 1 .. e + 1 - a : h[k] = f[a + k - 1]

LEMMA SliceAt ==
  ASSUME NEW f \in Seq(Value), NEW z \in Nat, Len(f) = z,
         NEW a \in Nat \ {0}, NEW e \in Nat, a <= e + 1, e <= z
  PROVE  SubSeq(f, a, e) \in Seq(Value) /\ IsSlice(SubSeq(f, a, e), f, a, e)
<1>1. \A i \in a .. e : f[i] \in Value
  <2>1. \A i \in a .. e : i \in 1 .. Len(f)
    OBVIOUS
  <2> QED BY <2>1, ElementOfSeq
<1>2. /\ SubSeq(f, a, e) \in Seq(Value)
      /\ Len(SubSeq(f, a, e)) = IF a <= e THEN e - a + 1 ELSE 0
      /\ \A k \in 1 .. e - a + 1 : SubSeq(f, a, e)[k] = f[a + k - 1]
  BY <1>1, SubSeqProperties
<1>3. e - a + 1 = e + 1 - a /\ (~ (a <= e) => e + 1 - a = 0)
  OBVIOUS
<1> QED BY <1>2, <1>3 DEF IsSlice

\* h is f, of length x, and g after it.
IsJoin(h, f, x, g, y) ==
  /\ \A k \in 1 .. x : h[k] = f[k]
  /\ \A k \in 1 .. y : h[x + k] = g[k]

LEMMA JoinAt ==
  ASSUME NEW f \in Seq(Value), NEW x \in Nat, Len(f) = x,
         NEW g \in Seq(Value), NEW y \in Nat, Len(g) = y
  PROVE  f \o g \in Seq(Value) /\ Len(f \o g) = x + y /\ IsJoin(f \o g, f, x, g, y)
<1>1. /\ f \o g \in Seq(Value) /\ Len(f \o g) = x + y
      /\ \A i \in 1 .. x + y : (f \o g)[i] = IF i <= x THEN f[i] ELSE g[i - x]
  BY ConcatProperties
<1>2. ASSUME NEW k \in 1 .. x PROVE (f \o g)[k] = f[k]
  <2>1. k \in 1 .. x + y /\ k <= x
    OBVIOUS
  <2> QED BY <1>1, <2>1
<1>3. ASSUME NEW k \in 1 .. y PROVE (f \o g)[x + k] = g[k]
  <2>1. x + k \in 1 .. x + y /\ ~ (x + k <= x) /\ x + k - x = k
    OBVIOUS
  <2> QED BY <1>1, <2>1
<1> QED BY <1>1, <1>2, <1>3 DEF IsJoin

\* f with the values vs after its first p.
Spliced(f, p, vs) == SubSeq(f, 1, p) \o vs \o SubSeq(f, p + 1, Len(f))

\* g has at each position what f, of length z, has with the n values vs after p.
IsSpliced(g, f, z, p, vs, n) ==
  \A q \in 0 .. z + n - 1 :
    /\ q < p => g[q + 1] = f[q + 1]
    /\ p <= q /\ q < p + n => g[q + 1] = vs[q - p + 1]
    /\ p + n <= q => g[q + 1] = f[q - n + 1]

LEMMA SplicedAt ==
  ASSUME NEW f \in Seq(Value), NEW z \in Nat, Len(f) = z, NEW p \in Nat, p <= z,
         NEW vs \in Seq(Value), NEW n \in Nat, Len(vs) = n
  PROVE  /\ Spliced(f, p, vs) \in Seq(Value) /\ Len(Spliced(f, p, vs)) = z + n
         /\ IsSpliced(Spliced(f, p, vs), f, z, p, vs, n)
<1>1. PICK a \in Seq(Value) : a = SubSeq(f, 1, p) /\ IsSlice(a, f, 1, p)
  <2>1. 1 \in Nat \ {0} /\ 1 <= p + 1
    OBVIOUS
  <2> QED BY <2>1, SliceAt
<1>2. PICK m \in Nat : m = z - p
  OBVIOUS
<1>3. PICK d \in Seq(Value) : d = SubSeq(f, p + 1, z) /\ IsSlice(d, f, p + 1, z)
  <2>1. p + 1 \in Nat \ {0} /\ p + 1 <= z + 1 /\ z <= z
    BY <1>2
  <2> QED BY <2>1, SliceAt
<1>4. PICK e \in Nat : e = p + n
  OBVIOUS
<1>5. Len(a) = p /\ \A k \in 1 .. p : a[k] = f[k]
  BY <1>1 DEF IsSlice
<1>6. Len(d) = m /\ \A k \in 1 .. m : d[k] = f[p + k]
  <2>1. z + 1 - (p + 1) = m /\ \A k \in 1 .. m : p + 1 + k - 1 = p + k
    BY <1>2
  <2> QED BY <1>3, <2>1 DEF IsSlice
<1>7. Len(a) = p
  BY <1>5
<1>8. Len(d) = m
  BY <1>6
<1>9. PICK g \in Seq(Value) : g = a \o vs /\ Len(g) = p + n /\ IsJoin(g, a, p, vs, n)
  BY <1>7, JoinAt
<1>10. Len(g) = e
  BY <1>4, <1>9
<1>11. PICK r \in Seq(Value) : r = g \o d /\ Len(r) = e + m /\ IsJoin(r, g, e, d, m)
  BY <1>8, <1>10, JoinAt
<1>12. Spliced(f, p, vs) = r
  BY <1>1, <1>3, <1>9, <1>11 DEF Spliced
<1>13. Len(r) = z + n
  BY <1>2, <1>4, <1>11
<1>14. ASSUME NEW q \in 0 .. z + n - 1, q < p PROVE r[q + 1] = f[q + 1]
  <2>1. q + 1 \in 1 .. p /\ q + 1 \in 1 .. e
    BY <1>4, <1>14
  <2>2. r[q + 1] = g[q + 1] /\ g[q + 1] = a[q + 1]
    BY <1>9, <1>11, <2>1 DEF IsJoin
  <2> QED BY <1>5, <2>1, <2>2
<1>15. ASSUME NEW q \in 0 .. z + n - 1, p <= q, q < p + n PROVE r[q + 1] = vs[q - p + 1]
  <2>1. q - p + 1 \in 1 .. n /\ p + (q - p + 1) = q + 1 /\ q + 1 \in 1 .. e
    BY <1>4, <1>15
  <2>2. r[q + 1] = g[q + 1] /\ g[p + (q - p + 1)] = vs[q - p + 1]
    BY <1>9, <1>11, <2>1 DEF IsJoin
  <2> QED BY <2>1, <2>2
<1>16. ASSUME NEW q \in 0 .. z + n - 1, p + n <= q PROVE r[q + 1] = f[q - n + 1]
  <2>1. /\ q + 1 - e \in 1 .. m /\ e + (q + 1 - e) = q + 1
        /\ p + (q + 1 - e) = q - n + 1
    BY <1>2, <1>4, <1>16
  <2>2. r[e + (q + 1 - e)] = d[q + 1 - e] /\ d[q + 1 - e] = f[p + (q + 1 - e)]
    BY <1>6, <1>11, <2>1 DEF IsJoin
  <2> QED BY <2>1, <2>2
<1>17. IsSpliced(r, f, z, p, vs, n)
  BY <1>14, <1>15, <1>16 DEF IsSpliced
<1> QED BY <1>12, <1>13, <1>17

\* The buffer g is b with vs in its n cells from i on, around the end.
Holds(g, b, c, i, n, vs) ==
  /\ DOMAIN g = 0 .. c - 1
  /\ \A j \in 0 .. c - 1 :
       /\ i <= j /\ j < i + n => g[j] = vs[j - i + 1]
       /\ j + c < i + n => g[j] = vs[j + c - i + 1]
       /\ ~ Around(c, i, n, j) => g[j] = b[j]

LEMMA FilledHolds ==
  ASSUME NEW c \in Nat \ {0}, NEW b, DOMAIN b = 0 .. c - 1, NEW i \in 0 .. c - 1,
         NEW vs \in Seq(Value), NEW n \in 0 .. c, Len(vs) = n
  PROVE  Holds(Filled(b, i, vs, c), b, c, i, n, vs)
<1>1. ASSUME NEW j \in 0 .. c - 1
      PROVE  /\ i <= j /\ j < i + n => Filled(b, i, vs, c)[j] = vs[j - i + 1]
             /\ j + c < i + n => Filled(b, i, vs, c)[j] = vs[j + c - i + 1]
             /\ ~ Around(c, i, n, j) => Filled(b, i, vs, c)[j] = b[j]
  <2>1. PICK r \in Int : r = (j - i) % c
    OBVIOUS
  <2>2. Filled(b, i, vs, c)[j] = IF r < n THEN vs[r + 1] ELSE b[j]
    BY <2>1 DEF Filled
  <2>3. CASE i <= j
    <3>1. r = j - i
      BY <2>1, <2>3
    <3> QED BY <2>2, <2>3, <3>1 DEF Around
  <2>4. CASE j < i
    <3>1. r = j - i + c
      BY <2>1, <2>4
    <3>2. j + c - i + 1 = r + 1
      BY <3>1
    <3> QED BY <2>2, <2>4, <3>1, <3>2 DEF Around
  <2> QED BY <2>3, <2>4
<1> QED BY <1>1 DEF Filled, Holds

\* The n cells of g from i on, around the end, have the values vs.
Reads(g, c, i, n, vs) == \A k \in 0 .. n - 1 : g[Spot(c, i, k)] = vs[k + 1]

LEMMA HoldsAt ==
  ASSUME NEW g, NEW b, NEW c \in Nat \ {0}, NEW i \in Nat, i < c,
         NEW n \in Nat, n <= c, NEW vs, Holds(g, b, c, i, n, vs)
  PROVE  Reads(g, c, i, n, vs)
<1> SUFFICES ASSUME NEW k \in 0 .. n - 1 PROVE g[Spot(c, i, k)] = vs[k + 1]
  BY DEF Reads
<1>1. CASE i + k < c
  <2>1. i + k \in 0 .. c - 1 /\ i <= i + k /\ i + k < i + n /\ i + k - i + 1 = k + 1
        /\ Spot(c, i, k) = i + k
    BY <1>1 DEF Spot
  <2>2. g[i + k] = vs[i + k - i + 1]
    BY <2>1 DEF Holds
  <2> QED BY <2>1, <2>2
<1>2. CASE c <= i + k
  <2>1. /\ i + k - c \in 0 .. c - 1 /\ (i + k - c) + c < i + n
        /\ (i + k - c) + c - i + 1 = k + 1 /\ Spot(c, i, k) = i + k - c
    BY <1>2 DEF Spot
  <2>2. g[i + k - c] = vs[(i + k - c) + c - i + 1]
    BY <2>1 DEF Holds
  <2> QED BY <2>1, <2>2
<1> QED BY <1>1, <1>2

LEMMA PushedShows ==
  ASSUME NEW s, Sound(s), NEW vs \in Seq(Value),
         s.tail # s.capacity, s.size + Len(vs) <= s.capacity
  PROVE  Contents(Pushed(s, vs)) = Spliced(Contents(s), s.size, vs)
<1>1. PICK c \in Nat \ {0}, h \in Nat, t \in Nat, z \in Nat, f \in Seq(Value) :
        /\ Has(s, c, h, t, z) /\ c \in Capacities
        /\ Fits(c, h, t, z) /\ DOMAIN s.buffer = 0 .. c - 1
        /\ f = Contents(s) /\ Len(f) = z /\ Shows(s.buffer, c, h, z, f)
  BY PartsShown
<1>2. PICK n \in Nat : n = Len(vs)
  OBVIOUS
<1>3. PICK u, b : u = Pushed(s, vs) /\ b = s.buffer
  OBVIOUS
<1>4. t < c /\ z + n <= c /\ h < c /\ (h + z = t \/ h + z = t + c)
  BY <1>1, <1>2 DEF Has, Fits
<1>5. PICK k \in Int : k = (t + n) % c
  OBVIOUS
<1>6. k = IF t + n < c THEN t + n ELSE t + n - c
  <2>1. CASE t + n < c
    BY <1>4, <1>5, <2>1
  <2>2. CASE c <= t + n
    BY <1>4, <1>5, <2>2
  <2> QED BY <2>1, <2>2
<1>7. PICK w \in Nat : w = z + n
  OBVIOUS
<1>8. k \in Nat /\ Fits(c, h, k, w)
  BY ONLY <1>4, <1>6, <1>7, c \in Nat \ {0}, h \in Nat, t \in Nat, z \in Nat, n \in Nat
          DEF Fits
<1>9. Has(u, c, h, k, w) /\ u.buffer = Filled(b, t, vs, c)
  BY <1>1, <1>2, <1>3, <1>5, <1>7 DEF Pushed, Has, Fields
<1>10. Holds(u.buffer, b, c, t, n, vs)
  <2>1. t \in 0 .. c - 1 /\ n \in 0 .. c /\ DOMAIN b = 0 .. c - 1
    BY <1>1, <1>3, <1>4
  <2> QED BY <1>2, <1>9, <2>1, FilledHolds
<1>11. PICK g \in Seq(Value) :
         g = Spliced(f, z, vs) /\ Len(g) = w /\ IsSpliced(g, f, z, z, vs, n)
  <2>1. z <= z /\ Len(f) = z
    BY <1>1
  <2>2. Len(vs) = n
    BY <1>2
  <2>3. /\ Spliced(f, z, vs) \in Seq(Value) /\ Len(Spliced(f, z, vs)) = z + n
        /\ IsSpliced(Spliced(f, z, vs), f, z, z, vs, n)
    BY <2>1, <2>2, SplicedAt
  <2> QED BY <1>7, <2>3
<1>12. ASSUME NEW q \in 0 .. w - 1 PROVE u.buffer[Spot(c, h, q)] = g[q + 1]
  <2>1. CASE q < z
    <3>1. Spot(c, h, q) \in 0 .. c - 1 /\ ~ Around(c, t, n, Spot(c, h, q))
      BY <1>4, <1>7, <2>1 DEF Spot, Around
    <3>2. u.buffer[Spot(c, h, q)] = b[Spot(c, h, q)]
      BY <1>10, <3>1 DEF Holds
    <3>3. q \in 0 .. z - 1 /\ q \in 0 .. z + n - 1
      BY <1>7, <2>1
    <3> QED BY <1>1, <1>3, <1>11, <2>1, <3>2, <3>3 DEF Shows, IsSpliced
  <2>2. CASE z <= q
    <3>1. q - z \in 0 .. n - 1 /\ Spot(c, h, q) = Spot(c, t, q - z)
      BY <1>4, <1>7, <2>2 DEF Spot
    <3>2. t < c /\ n <= c
      BY <1>4
    <3>3. Reads(u.buffer, c, t, n, vs)
      BY <1>10, <3>2, HoldsAt
    <3>4. q \in 0 .. z + n - 1 /\ q < z + n
      BY <1>7
    <3> QED BY <1>11, <2>2, <3>1, <3>3, <3>4 DEF Reads, IsSpliced
  <2> QED BY <2>1, <2>2
<1>13. Shows(u.buffer, c, h, w, g)
  BY <1>12 DEF Shows
<1>14. Sound(u)
  BY <1>3, PushedSound
<1>15. Contents(u) = g
  BY <1>8, <1>9, <1>11, <1>13, <1>14, ShownContents
<1>16. z = s.size
  BY <1>1 DEF Has
<1> QED BY <1>1, <1>3, <1>11, <1>15, <1>16

LEMMA UnshiftedShows ==
  ASSUME NEW s, Sound(s), NEW vs \in Seq(Value),
         s.size + Len(vs) <= s.capacity
  PROVE  Contents(Unshifted(s, vs)) = Spliced(Contents(s), 0, vs)
<1>1. PICK c \in Nat \ {0}, h \in Nat, t \in Nat, z \in Nat, f \in Seq(Value) :
        /\ Has(s, c, h, t, z) /\ c \in Capacities
        /\ Fits(c, h, t, z) /\ DOMAIN s.buffer = 0 .. c - 1
        /\ f = Contents(s) /\ Len(f) = z /\ Shows(s.buffer, c, h, z, f)
  BY PartsShown
<1>2. PICK n \in Nat : n = Len(vs)
  OBVIOUS
<1>3. PICK u, b : u = Unshifted(s, vs) /\ b = s.buffer
  OBVIOUS
<1>4. z + n <= c /\ h < c
  BY <1>1, <1>2 DEF Has, Fits
<1>5. PICK k \in Int : k = (h - n) % c
  OBVIOUS
<1>6. k = IF h < n THEN h - n + c ELSE h - n
  <2>1. CASE h < n
    BY <1>4, <1>5, <2>1
  <2>2. CASE n <= h
    BY <1>4, <1>5, <2>2
  <2> QED BY <2>1, <2>2
<1>7. PICK w \in Nat : w = z + n
  OBVIOUS
<1>8. k \in Nat /\ k < c /\ Fits(c, k, t, w)
  BY <1>1, <1>4, <1>6, <1>7 DEF Fits
<1>9. Has(u, c, k, t, w) /\ u.buffer = Filled(b, k, vs, c)
  BY <1>1, <1>2, <1>3, <1>5, <1>7 DEF Unshifted, Has, Fields
<1>10. Holds(u.buffer, b, c, k, n, vs)
  <2>1. k \in 0 .. c - 1 /\ n \in 0 .. c /\ DOMAIN b = 0 .. c - 1
    BY <1>1, <1>3, <1>4, <1>8
  <2> QED BY <1>2, <1>9, <2>1, FilledHolds
<1>11. PICK g \in Seq(Value) :
         g = Spliced(f, 0, vs) /\ Len(g) = w /\ IsSpliced(g, f, z, 0, vs, n)
  <2>1. 0 \in Nat /\ 0 <= z /\ Len(f) = z
    BY <1>1
  <2>2. Len(vs) = n
    BY <1>2
  <2>3. /\ Spliced(f, 0, vs) \in Seq(Value) /\ Len(Spliced(f, 0, vs)) = z + n
        /\ IsSpliced(Spliced(f, 0, vs), f, z, 0, vs, n)
    BY <2>1, <2>2, SplicedAt
  <2> QED BY <1>7, <2>3
<1>12. ASSUME NEW q \in 0 .. w - 1 PROVE u.buffer[Spot(c, k, q)] = g[q + 1]
  <2>1. CASE n <= q
    <3>1. /\ Spot(c, k, q) \in 0 .. c - 1 /\ ~ Around(c, k, n, Spot(c, k, q))
          /\ q - n \in 0 .. z - 1 /\ Spot(c, k, q) = Spot(c, h, q - n)
      BY <1>4, <1>6, <1>7, <2>1 DEF Spot, Around
    <3>2. u.buffer[Spot(c, k, q)] = b[Spot(c, k, q)]
      BY <1>10, <3>1 DEF Holds
    <3>3. b[Spot(c, h, q - n)] = f[q - n + 1]
      BY <1>1, <1>3, <3>1 DEF Shows
    <3>4. q \in 0 .. z + n - 1 /\ 0 + n <= q
      BY <1>7, <2>1
    <3> QED BY <1>11, <3>1, <3>2, <3>3, <3>4 DEF IsSpliced
  <2>2. CASE q < n
    <3>1. q \in 0 .. n - 1 /\ k \in Nat /\ k < c /\ n <= c
      BY <1>4, <1>8, <2>2
    <3>2. Reads(u.buffer, c, k, n, vs)
      BY <1>10, <3>1, HoldsAt
    <3>3. q \in 0 .. z + n - 1 /\ 0 <= q /\ q < 0 + n /\ q - 0 + 1 = q + 1
      BY <1>7, <2>2
    <3> QED BY <1>11, <3>1, <3>2, <3>3 DEF Reads, IsSpliced
  <2> QED BY <2>1, <2>2
<1>13. Shows(u.buffer, c, k, w, g)
  BY <1>12 DEF Shows
<1>14. Sound(u)
  BY <1>3, UnshiftedSound
<1>15. Contents(u) = g
  BY <1>8, <1>9, <1>11, <1>13, <1>14, ShownContents
<1> QED BY <1>1, <1>3, <1>11, <1>15

LEMMA OpenedLeftShows ==
  ASSUME NEW s, Sound(s), NEW p \in 1 .. s.size - 1, NEW vs \in Seq(Value),
         s.size + Len(vs) <= s.capacity, Cell(s, p) > s.tail
  PROVE  Contents(OpenedLeft(s, Cell(s, p), vs)) = Spliced(Contents(s), p, vs)
<1>1. PICK c \in Nat \ {0}, h \in Nat, t \in Nat, z \in Nat, f \in Seq(Value) :
        /\ Has(s, c, h, t, z) /\ c \in Capacities
        /\ Fits(c, h, t, z) /\ DOMAIN s.buffer = 0 .. c - 1
        /\ f = Contents(s) /\ Len(f) = z /\ Shows(s.buffer, c, h, z, f)
  BY PartsShown
<1>2. PICK n \in Nat : n = Len(vs)
  OBVIOUS
<1>3. PICK u, b : u = OpenedLeft(s, Cell(s, p), vs) /\ b = s.buffer
  OBVIOUS
<1>4. p \in 1 .. z - 1 /\ p \in 0 .. z - 1 /\ z + n <= c /\ h < c /\ DOMAIN b = 0 .. c - 1
  BY <1>1, <1>2, <1>3 DEF Has, Fits
<1>5. PICK i \in Nat : i = Cell(s, p) /\ i = IF h + p < c THEN h + p ELSE h + p - c
  BY <1>1, <1>4, CellPicked
<1>6. i = h + p /\ h + p < c /\ h + z = t + c /\ n <= h
  <2>1. i > t
    BY <1>1, <1>5 DEF Has
  <2> QED BY <1>1, <1>4, <1>5, <2>1 DEF Fits
<1>7. PICK k \in Nat, o \in Nat, w \in Nat : k = h - n /\ o = i - n /\ w = z + n
  BY <1>6
<1>8. Fits(c, k, t, w)
  BY <1>1, <1>4, <1>6, <1>7 DEF Fits
<1>9. PICK m : m = Move(b, k, h, p)
  OBVIOUS
<1>10. MovedTo(m, b, k, h, p)
  <2>1. MovedTo(Move(b, k, h, p), b, k, h, p)
    BY <1>4, MovedCells
  <2> QED BY <1>9, <2>1
<1>11. Has(u, c, k, t, w) /\ u.buffer = Filled(m, o, vs, c)
  <2>1. i - h = p
    BY <1>6
  <2> QED BY <1>1, <1>2, <1>3, <1>5, <1>7, <1>9, <2>1 DEF OpenedLeft, Has, Fields
<1>12. Holds(u.buffer, m, c, o, n, vs)
  <2>1. o \in 0 .. c - 1 /\ n \in 0 .. c /\ DOMAIN m = 0 .. c - 1
    BY <1>4, <1>6, <1>7, <1>10 DEF MovedTo
  <2> QED BY <1>2, <1>11, <2>1, FilledHolds
<1>13. Reads(u.buffer, c, o, n, vs)
  <2>1. o < c /\ n <= c
    BY <1>4, <1>6, <1>7
  <2> QED BY <1>12, <2>1, HoldsAt
<1>14. PICK g \in Seq(Value) :
         g = Spliced(f, p, vs) /\ Len(g) = w /\ IsSpliced(g, f, z, p, vs, n)
  <2>1. p \in Nat /\ p <= z /\ Len(f) = z /\ Len(vs) = n
    BY <1>1, <1>2, <1>4
  <2>2. /\ Spliced(f, p, vs) \in Seq(Value) /\ Len(Spliced(f, p, vs)) = z + n
        /\ IsSpliced(Spliced(f, p, vs), f, z, p, vs, n)
    BY <2>1, SplicedAt
  <2> QED BY <1>7, <2>2
<1>15. ASSUME NEW q \in 0 .. w - 1 PROVE u.buffer[Spot(c, k, q)] = g[q + 1]
  <2>0. q \in 0 .. z + n - 1
    BY <1>7
  <2>1. CASE q < p
    <3>1. /\ Spot(c, k, q) \in 0 .. c - 1 /\ ~ Around(c, o, n, Spot(c, k, q))
          /\ k <= Spot(c, k, q) /\ Spot(c, k, q) < k + p
          /\ h + Spot(c, k, q) - k = Spot(c, h, q) /\ q \in 0 .. z - 1
      BY <1>4, <1>6, <1>7, <2>1 DEF Spot, Around
    <3>2. u.buffer[Spot(c, k, q)] = m[Spot(c, k, q)]
      BY <1>12, <3>1 DEF Holds
    <3>3. m[Spot(c, k, q)] = b[Spot(c, h, q)]
      BY <1>4, <1>10, <3>1 DEF MovedTo
    <3>4. b[Spot(c, h, q)] = f[q + 1]
      BY <1>1, <1>3, <3>1 DEF Shows
    <3> QED BY <1>14, <2>0, <2>1, <3>2, <3>3, <3>4 DEF IsSpliced
  <2>2. CASE p <= q /\ q < p + n
    <3>1. q - p \in 0 .. n - 1 /\ Spot(c, k, q) = Spot(c, o, q - p)
      BY <1>4, <1>6, <1>7, <2>2 DEF Spot
    <3> QED BY <1>13, <1>14, <2>0, <2>2, <3>1 DEF Reads, IsSpliced
  <2>3. CASE p + n <= q
    <3>1. /\ Spot(c, k, q) \in 0 .. c - 1 /\ ~ Around(c, o, n, Spot(c, k, q))
          /\ ~ (k <= Spot(c, k, q) /\ Spot(c, k, q) < k + p)
          /\ Spot(c, k, q) = Spot(c, h, q - n) /\ q - n \in 0 .. z - 1
      BY <1>4, <1>6, <1>7, <2>3 DEF Spot, Around
    <3>2. u.buffer[Spot(c, k, q)] = m[Spot(c, k, q)]
      BY <1>12, <3>1 DEF Holds
    <3>3. m[Spot(c, k, q)] = b[Spot(c, k, q)]
      BY <1>4, <1>10, <3>1 DEF MovedTo
    <3>4. b[Spot(c, h, q - n)] = f[q - n + 1]
      BY <1>1, <1>3, <3>1 DEF Shows
    <3> QED BY <1>14, <2>0, <2>3, <3>1, <3>2, <3>3, <3>4 DEF IsSpliced
  <2> QED BY <1>4, <2>1, <2>2, <2>3
<1>16. Shows(u.buffer, c, k, w, g)
  BY <1>15 DEF Shows
<1>17. Sound(u)
  BY <1>3, OpenedLeftSound
<1>18. Contents(u) = g
  BY <1>8, <1>11, <1>14, <1>16, <1>17, ShownContents
<1> QED BY <1>1, <1>3, <1>14, <1>18

\* The sequence u has the values of f, and vs after the first p.
Took(u, f, p, vs) == Contents(u) = Spliced(f, p, vs)

\* As in MovedRightSound: the buffer a shows f, from cell g on.
LEMMA MovedRightShows ==
  ASSUME NEW u, Sound(u), NEW a, NEW m, NEW c \in Nat \ {0},
         NEW g \in Nat, NEW e \in Nat, NEW z \in Nat, NEW n \in Nat, NEW j \in Nat,
         NEW p \in 1 .. z - 1, NEW vs \in Seq(Value), Len(vs) = n,
         NEW f \in Seq(Value), Len(f) = z, Shows(a, c, g, z, f),
         Fits(c, g, e, z), DOMAIN a = 0 .. c - 1,
         j = (IF g + p < c THEN g + p ELSE g + p - c),
         j <= e, e + n <= c, z + n <= c,
         MovedTo(m, a, j + n, j, e - j),
         NEW y \in Nat, y = e + n, NEW w \in Nat, w = z + n,
         Has(u, c, g, y, w), u.buffer = Filled(m, j, vs, c)
  PROVE  Took(u, f, p, vs)
<1>1. DOMAIN m = 0 .. c - 1 /\ g < c /\ n <= c /\ j < c
  BY DEF Fits, MovedTo
<1>2. Holds(u.buffer, m, c, j, n, vs)
  <2>1. j \in 0 .. c - 1 /\ n \in 0 .. c
    BY <1>1
  <2> QED BY <1>1, <2>1, FilledHolds
<1>3. Reads(u.buffer, c, j, n, vs)
  BY <1>1, <1>2, HoldsAt
<1>4. (g + z = e /\ j = g + p) \/ (g + z = e + c /\ j = g + p - c)
  BY <1>1 DEF Fits
<1>5. Fits(c, g, y, w)
  BY <1>1, <1>4 DEF Fits
<1>6. PICK r \in Seq(Value) :
        r = Spliced(f, p, vs) /\ Len(r) = w /\ IsSpliced(r, f, z, p, vs, n)
  <2>1. p \in Nat /\ p <= z
    OBVIOUS
  <2>2. /\ Spliced(f, p, vs) \in Seq(Value) /\ Len(Spliced(f, p, vs)) = z + n
        /\ IsSpliced(Spliced(f, p, vs), f, z, p, vs, n)
    BY <2>1, SplicedAt
  <2> QED BY <2>2
<1>7. ASSUME NEW q \in 0 .. w - 1 PROVE u.buffer[Spot(c, g, q)] = r[q + 1]
  <2>0. q \in 0 .. z + n - 1
    OBVIOUS
  <2>1. CASE q < p
    <3>1. /\ Spot(c, g, q) \in 0 .. c - 1 /\ ~ Around(c, j, n, Spot(c, g, q))
          /\ ~ (j + n <= Spot(c, g, q) /\ Spot(c, g, q) < j + n + (e - j))
          /\ q \in 0 .. z - 1
      BY <1>1, <1>4, <2>1 DEF Spot, Around
    <3>2. u.buffer[Spot(c, g, q)] = m[Spot(c, g, q)]
      BY <1>2, <3>1 DEF Holds
    <3>3. m[Spot(c, g, q)] = a[Spot(c, g, q)]
      BY <3>1 DEF MovedTo
    <3>4. a[Spot(c, g, q)] = f[q + 1]
      BY <3>1 DEF Shows
    <3> QED BY <1>6, <2>0, <2>1, <3>2, <3>3, <3>4 DEF IsSpliced
  <2>2. CASE p <= q /\ q < p + n
    <3>1. q - p \in 0 .. n - 1 /\ Spot(c, g, q) = Spot(c, j, q - p)
      BY <1>1, <1>4, <2>2 DEF Spot
    <3> QED BY <1>3, <1>6, <2>0, <2>2, <3>1 DEF Reads, IsSpliced
  <2>3. CASE p + n <= q
    <3>1. /\ Spot(c, g, q) \in 0 .. c - 1 /\ ~ Around(c, j, n, Spot(c, g, q))
          /\ j + n <= Spot(c, g, q) /\ Spot(c, g, q) < j + n + (e - j)
          /\ j + Spot(c, g, q) - (j + n) = Spot(c, g, q - n) /\ q - n \in 0 .. z - 1
      BY <1>1, <1>4, <2>3 DEF Spot, Around
    <3>2. u.buffer[Spot(c, g, q)] = m[Spot(c, g, q)]
      BY <1>2, <3>1 DEF Holds
    <3>3. m[Spot(c, g, q)] = a[Spot(c, g, q - n)]
      BY <3>1 DEF MovedTo
    <3>4. a[Spot(c, g, q - n)] = f[q - n + 1]
      BY <3>1 DEF Shows
    <3> QED BY <1>6, <2>0, <2>3, <3>2, <3>3, <3>4 DEF IsSpliced
  <2> QED BY <2>1, <2>2, <2>3
<1>8. Shows(u.buffer, c, g, w, r)
  BY <1>7 DEF Shows
<1>9. Contents(u) = r
  BY <1>5, <1>6, <1>8, ShownContents
<1> QED BY <1>6, <1>9 DEF Took

LEMMA OpenedRightShows ==
  ASSUME NEW s, Sound(s), NEW p \in 1 .. s.size - 1, NEW vs \in Seq(Value),
         s.size + Len(vs) <= s.capacity, Cell(s, p) <= s.tail
  PROVE  Contents(OpenedRight(s, Cell(s, p), vs)) = Spliced(Contents(s), p, vs)
<1>1. PICK c \in Nat \ {0}, h \in Nat, t \in Nat, z \in Nat, f \in Seq(Value) :
        /\ Has(s, c, h, t, z) /\ c \in Capacities
        /\ Fits(c, h, t, z) /\ DOMAIN s.buffer = 0 .. c - 1
        /\ f = Contents(s) /\ Len(f) = z /\ Shows(s.buffer, c, h, z, f)
  BY PartsShown
<1>2. PICK n \in Nat : n = Len(vs)
  OBVIOUS
<1>3. PICK u, b : u = OpenedRight(s, Cell(s, p), vs) /\ b = s.buffer
  OBVIOUS
<1>4. p \in 1 .. z - 1 /\ p \in 0 .. z - 1 /\ z + n <= c /\ h < c /\ DOMAIN b = 0 .. c - 1
  BY <1>1, <1>2, <1>3 DEF Has, Fits
<1>5. PICK i \in Nat : i = Cell(s, p) /\ i = IF h + p < c THEN h + p ELSE h + p - c
  BY <1>1, <1>4, CellPicked
<1>6. i <= t
  BY <1>1, <1>5 DEF Has
<1>7. Sound(u)
  BY <1>3, OpenedRightSound
<1>8. PICK y \in Nat, w \in Nat : y = t + n /\ w = z + n
  OBVIOUS
<1>9. Shows(b, c, h, z, f) /\ Len(vs) = n
  BY <1>1, <1>2, <1>3
<1>10. CASE t + n <= c
  <2>1. ~ OverflowsRight(s, Len(vs))
    BY <1>1, <1>2, <1>10 DEF OverflowsRight, Has
  <2>2. PICK m : m = Move(b, i + n, i, t - i)
    OBVIOUS
  <2>3. Has(u, c, h, y, w) /\ u.buffer = Filled(m, i, vs, c)
    BY <1>1, <1>2, <1>3, <1>5, <1>8, <2>1, <2>2 DEF OpenedRight, Has, Fields
  <2>4. MovedTo(m, b, i + n, i, t - i)
    <3>1. MovedTo(Move(b, i + n, i, t - i), b, i + n, i, t - i)
      BY <1>4, MovedCells
    <3> QED BY <2>2, <3>1
  <2>5. Fits(c, h, t, z) /\ Len(f) = z
    BY <1>1
  <2>6. p \in 1 .. z - 1 /\ z + n <= c /\ DOMAIN b = 0 .. c - 1
    BY <1>4
  <2>7. i = IF h + p < c THEN h + p ELSE h + p - c
    BY <1>5
  <2>8. Took(u, f, p, vs)
    BY <1>6, <1>7, <1>8, <1>9, <1>10, <2>3, <2>4, <2>5, <2>6, <2>7, MovedRightShows
  <2> QED BY <1>1, <1>3, <2>8 DEF Took
<1>11. CASE t + n > c
  <2>1. OverflowsRight(s, Len(vs))
    BY <1>1, <1>2, <1>11 DEF OverflowsRight, Has
  <2>2. h + z = t /\ i = h + p
    BY <1>1, <1>4, <1>5, <1>6, <1>11 DEF Fits
  <2>3. PICK a, m : a = Move(b, 0, h, z) /\ m = Move(a, p + n, p, z - p)
    OBVIOUS
  <2>4. MovedTo(a, b, 0, h, z)
    BY <1>4, <2>3, MovedCells
  <2>5. DOMAIN a = 0 .. c - 1
    BY <1>4, <2>4 DEF MovedTo
  <2>6. ASSUME NEW q \in 0 .. z - 1 PROVE a[Spot(c, 0, q)] = f[q + 1]
    <3>1. /\ Spot(c, 0, q) \in 0 .. c - 1 /\ 0 <= Spot(c, 0, q)
          /\ Spot(c, 0, q) < 0 + z /\ h + Spot(c, 0, q) - 0 = Spot(c, h, q)
      BY <1>1, <1>4, <2>2 DEF Spot, Fits
    <3>2. a[Spot(c, 0, q)] = b[Spot(c, h, q)]
      BY <1>4, <2>4, <3>1 DEF MovedTo
    <3> QED BY <1>9, <3>2 DEF Shows
  <2>7. Shows(a, c, 0, z, f)
    BY <2>6 DEF Shows
  <2>8. MovedTo(m, a, p + n, p, z - p)
    BY <1>4, <2>3, <2>5, MovedCells
  <2>9. Has(u, c, 0, w, w) /\ u.buffer = Filled(m, p, vs, c)
    <3>1. i - h = p
      BY <2>2
    <3> QED BY <1>1, <1>2, <1>3, <1>5, <1>8, <2>1, <2>3, <3>1 DEF OpenedRight, Has, Fields
  <2>10. Fits(c, 0, z, z) /\ p \in Nat /\ p <= z /\ p = IF 0 + p < c THEN 0 + p ELSE 0 + p - c
    BY <1>1, <1>4 DEF Fits
  <2>11. PICK o \in Nat, j \in Nat : o = 0 /\ j = p
    BY <2>10
  <2>12. Shows(a, c, o, z, f) /\ Fits(c, o, z, z) /\ Has(u, c, o, w, w)
    BY <2>7, <2>9, <2>10, <2>11
  <2>13. j = (IF o + p < c THEN o + p ELSE o + p - c) /\ j <= z
    BY <2>10, <2>11
  <2>14. MovedTo(m, a, j + n, j, z - j) /\ u.buffer = Filled(m, j, vs, c)
    BY <2>8, <2>9, <2>11
  <2>15. p \in 1 .. z - 1 /\ z + n <= c /\ Len(f) = z /\ Len(vs) = n /\ w = z + n
    BY <1>1, <1>4, <1>8, <1>9
  <2>16. Took(u, f, p, vs)
    BY <1>7, <2>5, <2>12, <2>13, <2>14, <2>15, MovedRightShows
  <2> QED BY <1>1, <1>3, <2>16 DEF Took
<1> QED BY <1>10, <1>11

LEMMA InsertedShows ==
  ASSUME NEW s, Sound(s), NEW p \in 1 .. s.size - 1, NEW vs \in Seq(Value),
         s.size + Len(vs) <= s.capacity
  PROVE  Contents(Inserted(s, p, vs)) = Spliced(Contents(s), p, vs)
<1>1. p \in 0 .. s.size - 1
  BY Bounds DEF Sound
<1>2. Cell(s, p) \in Int /\ s.tail \in Int
  BY <1>1, CellOfPosition, Bounds DEF Sound, Cells
<1> QED BY <1>2, OpenedLeftShows, OpenedRightShows DEF Inserted

-----------------------------------------------------------------------------
(* Values that come out.                                                   *)

\* f without the value after its first p.
Dropped(f, p) == SubSeq(f, 1, p) \o SubSeq(f, p + 2, Len(f))

IsDropped(g, f, z, p) ==
  \A q \in 0 .. z - 2 : /\ q < p => g[q + 1] = f[q + 1]
                        /\ p <= q => g[q + 1] = f[q + 2]

LEMMA DroppedAt ==
  ASSUME NEW f \in Seq(Value), NEW z \in Nat, Len(f) = z, NEW p \in Nat, p < z
  PROVE  /\ Dropped(f, p) \in Seq(Value) /\ Len(Dropped(f, p)) = z - 1
         /\ IsDropped(Dropped(f, p), f, z, p)
<1>1. PICK a \in Seq(Value) : a = SubSeq(f, 1, p) /\ IsSlice(a, f, 1, p)
  <2>1. 1 \in Nat \ {0} /\ 1 <= p + 1 /\ p <= z
    OBVIOUS
  <2> QED BY <2>1, SliceAt
<1>2. PICK m \in Nat : m = z - p - 1
  OBVIOUS
<1>3. PICK d \in Seq(Value) : d = SubSeq(f, p + 2, z) /\ IsSlice(d, f, p + 2, z)
  <2>1. p + 2 \in Nat \ {0} /\ p + 2 <= z + 1 /\ z <= z
    OBVIOUS
  <2> QED BY <2>1, SliceAt
<1>4. Len(a) = p /\ \A k \in 1 .. p : a[k] = f[k]
  BY <1>1 DEF IsSlice
<1>5. Len(d) = m /\ \A k \in 1 .. m : d[k] = f[p + 1 + k]
  <2>1. z + 1 - (p + 2) = m /\ \A k \in 1 .. m : p + 2 + k - 1 = p + 1 + k
    BY <1>2
  <2> QED BY <1>3, <2>1 DEF IsSlice
<1>6. Len(a) = p /\ Len(d) = m
  BY <1>4, <1>5
<1>7. PICK r \in Seq(Value) : r = a \o d /\ Len(r) = p + m /\ IsJoin(r, a, p, d, m)
  BY <1>6, JoinAt
<1>8. Dropped(f, p) = r
  BY <1>1, <1>3, <1>7 DEF Dropped
<1>9. Len(r) = z - 1
  BY <1>2, <1>7
<1>10. ASSUME NEW q \in 0 .. z - 2, q < p PROVE r[q + 1] = f[q + 1]
  <2>1. q + 1 \in 1 .. p
    BY <1>10
  <2> QED BY <1>4, <1>7, <2>1 DEF IsJoin
<1>11. ASSUME NEW q \in 0 .. z - 2, p <= q PROVE r[q + 1] = f[q + 2]
  <2>1. q + 1 - p \in 1 .. m /\ p + (q + 1 - p) = q + 1 /\ p + 1 + (q + 1 - p) = q + 2
    BY <1>2, <1>11
  <2>2. r[p + (q + 1 - p)] = d[q + 1 - p] /\ d[q + 1 - p] = f[p + 1 + (q + 1 - p)]
    BY <1>5, <1>7, <2>1 DEF IsJoin
  <2> QED BY <2>1, <2>2
<1>12. IsDropped(r, f, z, p)
  BY <1>10, <1>11 DEF IsDropped
<1> QED BY <1>8, <1>9, <1>12

\* A sequence is sound, and has the values of g, when its window shows them.
LEMMA WholeShows ==
  ASSUME NEW u, NEW c \in Nat \ {0}, c \in Capacities, NEW h \in Nat, NEW t \in Nat,
         NEW z \in Nat, Has(u, c, h, t, z), Fits(c, h, t, z),
         DOMAIN u.buffer = 0 .. c - 1,
         NEW g \in Seq(Value), Len(g) = z, Shows(u.buffer, c, h, z, g)
  PROVE  Sound(u) /\ Contents(u) = g
<1>1. ASSUME NEW i \in 0 .. c - 1, Around(c, h, z, i) PROVE u.buffer[i] \in Value
  <2>1. PICK p \in 0 .. z - 1 : i = Spot(c, h, p)
    <3> DEFINE p == IF h <= i THEN i - h ELSE i + c - h
    <3>1. p \in 0 .. z - 1 /\ i = Spot(c, h, p)
      BY <1>1 DEF Fits, Around, Spot
    <3> QED BY <3>1
  <2>2. p + 1 \in 1 .. Len(g)
    OBVIOUS
  <2>3. g[p + 1] \in Value
    BY <2>2, ElementOfSeq
  <2> QED BY <2>1, <2>3 DEF Shows
<1>2. Fills(u.buffer, c, h, z)
  BY <1>1 DEF Fills
<1>3. Sound(u)
  BY <1>2, Whole
<1> QED BY <1>3, ShownContents

LEMMA ShiftedShows ==
  ASSUME NEW s, Sound(s), s.size > 0
  PROVE  Contents(Shifted(s)) = Dropped(Contents(s), 0)
<1>1. PICK c \in Nat \ {0}, h \in Nat, t \in Nat, z \in Nat, f \in Seq(Value) :
        /\ Has(s, c, h, t, z) /\ c \in Capacities
        /\ Fits(c, h, t, z) /\ DOMAIN s.buffer = 0 .. c - 1
        /\ f = Contents(s) /\ Len(f) = z /\ Shows(s.buffer, c, h, z, f)
  BY PartsShown
<1>2. PICK u, b : b = s.buffer /\
        u = [s EXCEPT !.buffer = [@ EXCEPT ![s.head] = Hole],
                      !.head = (s.head + 1) % s.capacity,
                      !.size = s.size - 1]
  OBVIOUS
<1>3. z > 0 /\ h < c /\ z <= c
  BY <1>1 DEF Has, Fits
<1>4. PICK k \in Int : k = (h + 1) % c
  OBVIOUS
<1>5. k = IF h + 1 < c THEN h + 1 ELSE 0
  <2>1. CASE h + 1 < c
    BY <1>4, <2>1
  <2>2. CASE c = h + 1
    BY <1>4, <2>2
  <2> QED BY <1>3, <2>1, <2>2
<1>6. PICK w \in Nat : w = z - 1
  BY <1>3
<1>7. k \in Nat /\ Fits(c, k, t, w)
  BY <1>1, <1>3, <1>5, <1>6 DEF Fits
<1>8. Has(u, c, k, t, w) /\ u.buffer = [b EXCEPT ![h] = Hole]
  BY <1>1, <1>2, <1>4, <1>6 DEF Has, Fields
<1>9. DOMAIN u.buffer = 0 .. c - 1 /\ \A j \in 0 .. c - 1 : j # h => u.buffer[j] = b[j]
  BY <1>1, <1>2, <1>8
<1>10. PICK g \in Seq(Value) : g = Dropped(f, 0) /\ Len(g) = w /\ IsDropped(g, f, z, 0)
  <2>1. 0 \in Nat /\ 0 < z
    BY <1>3
  <2> QED BY <1>1, <1>6, <2>1, DroppedAt
<1>11. ASSUME NEW q \in 0 .. w - 1 PROVE u.buffer[Spot(c, k, q)] = g[q + 1]
  <2>1. /\ Spot(c, k, q) = Spot(c, h, q + 1) /\ Spot(c, k, q) \in 0 .. c - 1
        /\ Spot(c, k, q) # h /\ q + 1 \in 0 .. z - 1 /\ q + 1 + 1 = q + 2
        /\ q \in 0 .. z - 2 /\ 0 <= q
    BY <1>3, <1>5, <1>6 DEF Spot
  <2>2. u.buffer[Spot(c, k, q)] = b[Spot(c, h, q + 1)]
    BY <1>9, <2>1
  <2>3. b[Spot(c, h, q + 1)] = f[q + 1 + 1]
    BY <1>1, <1>2, <2>1 DEF Shows
  <2> QED BY <1>10, <2>1, <2>2, <2>3 DEF IsDropped
<1>12. Shows(u.buffer, c, k, w, g)
  BY <1>11 DEF Shows
<1>13. Sound(u) /\ Contents(u) = g
  BY <1>1, <1>7, <1>8, <1>9, <1>10, <1>12, WholeShows
<1>14. Shifted(s) = AutoTruncate(u)
  BY <1>2 DEF Shifted
<1> QED BY <1>1, <1>10, <1>13, <1>14, AutoTruncateShows

LEMMA PoppedShows ==
  ASSUME NEW s, Sound(s), s.size > 0
  PROVE  Contents(Popped(s)) = Dropped(Contents(s), s.size - 1)
<1>1. PICK c \in Nat \ {0}, h \in Nat, t \in Nat, z \in Nat, f \in Seq(Value) :
        /\ Has(s, c, h, t, z) /\ c \in Capacities
        /\ Fits(c, h, t, z) /\ DOMAIN s.buffer = 0 .. c - 1
        /\ f = Contents(s) /\ Len(f) = z /\ Shows(s.buffer, c, h, z, f)
  BY PartsShown
<1>2. PICK u, b : b = s.buffer /\
        u = [s EXCEPT !.buffer = [@ EXCEPT ![(s.tail - 1) % s.capacity] = Hole],
                      !.tail = (s.tail - 1) % s.capacity, !.size = s.size - 1]
  OBVIOUS
<1>3. /\ z > 0 /\ h < c /\ z <= c /\ t <= c
      /\ h + z = t \/ h + z = t + c
  BY <1>1 DEF Has, Fits
<1>4. PICK k \in Int : k = (t - 1) % c
  OBVIOUS
<1>5. k = IF t = 0 THEN c - 1 ELSE t - 1
  <2>1. CASE t = 0
    BY <1>4, <2>1
  <2>2. CASE t # 0
    BY <1>3, <1>4, <2>2
  <2> QED BY <2>1, <2>2
<1>6. PICK w \in Nat : w = z - 1
  BY <1>3
<1>7. k \in Nat /\ Fits(c, h, k, w)
  BY <1>1, <1>3, <1>5, <1>6 DEF Fits
<1>8. Has(u, c, h, k, w) /\ u.buffer = [b EXCEPT ![k] = Hole]
  BY <1>1, <1>2, <1>4, <1>6 DEF Has, Fields
<1>9. DOMAIN u.buffer = 0 .. c - 1 /\ \A j \in 0 .. c - 1 : j # k => u.buffer[j] = b[j]
  BY <1>1, <1>2, <1>8
<1>10. PICK g \in Seq(Value) : g = Dropped(f, w) /\ Len(g) = w /\ IsDropped(g, f, z, w)
  <2>1. w < z
    BY <1>6
  <2> QED BY <1>1, <1>6, <2>1, DroppedAt
<1>11. ASSUME NEW q \in 0 .. w - 1 PROVE u.buffer[Spot(c, h, q)] = g[q + 1]
  <2>1. /\ Spot(c, h, q) \in 0 .. c - 1 /\ Spot(c, h, q) # k
        /\ q \in 0 .. z - 1 /\ q \in 0 .. z - 2 /\ q < w
    BY <1>3, <1>5, <1>6 DEF Spot
  <2>2. u.buffer[Spot(c, h, q)] = b[Spot(c, h, q)]
    BY <1>9, <2>1
  <2>3. b[Spot(c, h, q)] = f[q + 1]
    BY <1>1, <1>2, <2>1 DEF Shows
  <2> QED BY <1>10, <2>1, <2>2, <2>3 DEF IsDropped
<1>12. Shows(u.buffer, c, h, w, g)
  BY <1>11 DEF Shows
<1>13. Sound(u) /\ Contents(u) = g
  BY <1>1, <1>7, <1>8, <1>9, <1>10, <1>12, WholeShows
<1>14. Popped(s) = AutoTruncate(u) /\ w = s.size - 1
  BY <1>1, <1>2, <1>6 DEF Popped, Has
<1> QED BY <1>1, <1>10, <1>13, <1>14, AutoTruncateShows

LEMMA ClosedShows ==
  ASSUME NEW s, Sound(s), NEW p \in 1 .. s.size - 2, ~ Overreads(s, Cell(s, p))
  PROVE  Contents(Closed(s, Cell(s, p))) = Dropped(Contents(s), p)
<1>1. PICK c \in Nat \ {0}, h \in Nat, t \in Nat, z \in Nat, f \in Seq(Value) :
        /\ Has(s, c, h, t, z) /\ c \in Capacities
        /\ Fits(c, h, t, z) /\ DOMAIN s.buffer = 0 .. c - 1
        /\ f = Contents(s) /\ Len(f) = z /\ Shows(s.buffer, c, h, z, f)
  BY PartsShown
<1>2. PICK b : b = s.buffer
  OBVIOUS
<1>3. p \in 1 .. z - 2 /\ p \in 0 .. z - 1 /\ h < c /\ z <= c /\ DOMAIN b = 0 .. c - 1
  BY <1>1, <1>2 DEF Has, Fits
<1>4. PICK i \in Nat : i = Cell(s, p) /\ i = IF h + p < c THEN h + p ELSE h + p - c
  <2>1. Has(s, c, h, t, z) /\ Fits(c, h, t, z) /\ p \in 0 .. z - 1
    BY <1>1, <1>3
  <2> QED BY <2>1, CellPicked
<1>5. PICK w \in Nat : w = z - 1
  BY <1>3
<1>6. PICK g \in Seq(Value) : g = Dropped(f, p) /\ Len(g) = w /\ IsDropped(g, f, z, p)
  <2>1. p \in Nat /\ p < z
    BY <1>3
  <2> QED BY <1>1, <1>5, <2>1, DroppedAt
<1>7. CASE i < t
  <2>1. t < c
    <3>1. t # c
      BY <1>1, <1>4, <1>7 DEF Overreads, Has
    <3> QED BY <1>1, <3>1 DEF Fits
  <2>2. (h + z = t /\ i = h + p) \/ (h + z = t + c /\ i = h + p - c)
    BY <1>1, <1>3, <1>4, <1>7, <2>1 DEF Fits
  <2>3. PICK u : u = [s EXCEPT !.buffer = Move(s.buffer, i, i + 1, s.tail - i),
                               !.tail = s.tail - 1, !.size = s.size - 1]
    OBVIOUS
  <2>4. Closed(s, Cell(s, p)) = AutoTruncate(u)
    BY <1>1, <1>4, <1>7, <2>3 DEF Closed, Has
  <2>5. PICK y \in Nat : y = t - 1
    BY <1>7
  <2>6. Has(u, c, h, y, w) /\ u.buffer = Move(b, i, i + 1, t - i)
    BY <1>1, <1>2, <1>5, <2>3, <2>5 DEF Has, Fields
  <2>7. Fits(c, h, y, w)
    BY <1>1, <1>3, <1>5, <1>7, <2>1, <2>2, <2>5 DEF Fits
  <2>8. MovedTo(u.buffer, b, i, i + 1, t - i)
    <3>1. MovedTo(Move(b, i, i + 1, t - i), b, i, i + 1, t - i)
      BY <1>3, MovedCells
    <3> QED BY <2>6, <3>1
  <2>9. ASSUME NEW q \in 0 .. w - 1 PROVE u.buffer[Spot(c, h, q)] = g[q + 1]
    <3>0. q \in 0 .. z - 2
      BY <1>5
    <3>1. CASE q < p
      <4>1. /\ Spot(c, h, q) \in 0 .. c - 1 /\ q \in 0 .. z - 1
            /\ ~ (i <= Spot(c, h, q) /\ Spot(c, h, q) < i + (t - i))
        BY <1>3, <1>5, <1>7, <2>1, <2>2, <3>1 DEF Spot
      <4>2. u.buffer[Spot(c, h, q)] = b[Spot(c, h, q)]
        BY <1>3, <2>8, <4>1 DEF MovedTo
      <4>3. b[Spot(c, h, q)] = f[q + 1]
        BY <1>1, <1>2, <4>1 DEF Shows
      <4> QED BY <1>6, <3>0, <3>1, <4>2, <4>3 DEF IsDropped
    <3>2. CASE p <= q
      <4>1. /\ Spot(c, h, q) \in 0 .. c - 1 /\ q + 1 \in 0 .. z - 1 /\ q + 1 + 1 = q + 2
            /\ i <= Spot(c, h, q) /\ Spot(c, h, q) < i + (t - i)
            /\ i + 1 + Spot(c, h, q) - i = Spot(c, h, q + 1)
        BY <1>3, <1>5, <1>7, <2>1, <2>2, <3>2 DEF Spot
      <4>2. u.buffer[Spot(c, h, q)] = b[Spot(c, h, q + 1)]
        BY <1>3, <2>8, <4>1 DEF MovedTo
      <4>3. b[Spot(c, h, q + 1)] = f[q + 1 + 1]
        BY <1>1, <1>2, <4>1 DEF Shows
      <4> QED BY <1>6, <3>0, <3>2, <4>1, <4>2, <4>3 DEF IsDropped
    <3> QED BY <1>3, <3>1, <3>2
  <2>10. Shows(u.buffer, c, h, w, g)
    BY <2>9 DEF Shows
  <2>11. DOMAIN u.buffer = 0 .. c - 1
    BY <1>3, <2>8 DEF MovedTo
  <2>12. Sound(u) /\ Contents(u) = g
    BY <1>1, <1>6, <2>6, <2>7, <2>10, <2>11, WholeShows
  <2> QED BY <1>1, <1>6, <2>4, <2>12, AutoTruncateShows
<1>8. CASE ~ (i < t)
  <2>1. h + z = t + c /\ i = h + p /\ h + p < c
    BY <1>1, <1>3, <1>4, <1>8 DEF Fits
  <2>2. PICK u : u = [s EXCEPT !.buffer = Move(s.buffer, s.head + 1, s.head, i - s.head),
                               !.head = s.head + 1, !.size = s.size - 1]
    OBVIOUS
  <2>3. Closed(s, Cell(s, p)) = AutoTruncate(u)
    BY <1>1, <1>4, <1>8, <2>2 DEF Closed, Has
  <2>4. PICK k \in Nat : k = h + 1
    OBVIOUS
  <2>5. Has(u, c, k, t, w) /\ u.buffer = Move(b, k, h, p)
    <3>1. i - h = p
      BY <2>1
    <3> QED BY <1>1, <1>2, <1>5, <2>2, <2>4, <3>1 DEF Has, Fields
  <2>6. Fits(c, k, t, w)
    BY <1>1, <1>3, <1>5, <2>1, <2>4 DEF Fits
  <2>7. MovedTo(u.buffer, b, k, h, p)
    <3>1. MovedTo(Move(b, k, h, p), b, k, h, p)
      BY <1>3, MovedCells
    <3> QED BY <2>5, <3>1
  <2>8. ASSUME NEW q \in 0 .. w - 1 PROVE u.buffer[Spot(c, k, q)] = g[q + 1]
    <3>0. q \in 0 .. z - 2
      BY <1>5
    <3>1. CASE q < p
      <4>1. /\ Spot(c, k, q) \in 0 .. c - 1 /\ q \in 0 .. z - 1
            /\ k <= Spot(c, k, q) /\ Spot(c, k, q) < k + p
            /\ h + Spot(c, k, q) - k = Spot(c, h, q)
        BY <1>3, <1>5, <2>1, <2>4, <3>1 DEF Spot
      <4>2. u.buffer[Spot(c, k, q)] = b[Spot(c, h, q)]
        BY <1>3, <2>7, <4>1 DEF MovedTo
      <4>3. b[Spot(c, h, q)] = f[q + 1]
        BY <1>1, <1>2, <4>1 DEF Shows
      <4> QED BY <1>6, <3>0, <3>1, <4>2, <4>3 DEF IsDropped
    <3>2. CASE p <= q
      <4>1. /\ Spot(c, k, q) \in 0 .. c - 1 /\ q + 1 \in 0 .. z - 1 /\ q + 1 + 1 = q + 2
            /\ ~ (k <= Spot(c, k, q) /\ Spot(c, k, q) < k + p)
            /\ Spot(c, k, q) = Spot(c, h, q + 1)
        <5>1. /\ q \in Nat /\ q + 1 \in 0 .. z - 1 /\ q + 1 + 1 = q + 2 /\ q + 1 < c
              /\ k + q = h + (q + 1)
          BY <1>3, <1>5, <2>4
        <5>2. Spot(c, k, q) = Spot(c, h, q + 1)
          BY <5>1 DEF Spot
        <5>3. CASE k + q < c
          BY <1>1, <1>3, <2>4, <3>2, <5>1, <5>2, <5>3 DEF Spot
        <5>4. CASE ~ (k + q < c)
          <6>1. Spot(c, k, q) = k + q - c
            BY <5>4 DEF Spot
          <6>2. k + q - c \in 0 .. c - 1 /\ k + q - c < k
            BY <1>1, <1>3, <2>4, <5>1, <5>4
          <6> QED BY <5>1, <5>2, <6>1, <6>2
        <5> QED BY <5>3, <5>4
      <4>2. u.buffer[Spot(c, k, q)] = b[Spot(c, k, q)]
        BY <1>3, <2>7, <4>1 DEF MovedTo
      <4>3. b[Spot(c, h, q + 1)] = f[q + 1 + 1]
        BY <1>1, <1>2, <4>1 DEF Shows
      <4> QED BY <1>6, <3>0, <3>2, <4>1, <4>2, <4>3 DEF IsDropped
    <3> QED BY <1>3, <3>1, <3>2
  <2>9. Shows(u.buffer, c, k, w, g)
    BY <2>8 DEF Shows
  <2>10. DOMAIN u.buffer = 0 .. c - 1
    BY <1>3, <2>7 DEF MovedTo
  <2>11. Sound(u) /\ Contents(u) = g
    BY <1>1, <1>6, <2>5, <2>6, <2>9, <2>10, WholeShows
  <2> QED BY <1>1, <1>6, <2>3, <2>11, AutoTruncateShows
<1> QED BY <1>3, <1>4, <1>7, <1>8

-----------------------------------------------------------------------------
(* Edits act at their position.                                            *)

LEMMA GoOnShows ==
  ASSUME NEW s, Sound(s), GoOnWith(s)
  PROVE  Contents(seq)' = Contents(s)
<1>1. seq' = Tidy(s)
  BY DEF GoOnWith
<1>2. Contents(seq)' = Contents(seq')
  BY DEF Contents, Cell
<1> QED BY <1>1, <1>2, TidyShows

LEMMA AppendShows ==
  ASSUME Idle, NEW s, Sound(s), NEW vs \in Seq(Value),
         s.size + Len(vs) <= s.capacity, Append_(s, vs), fault' = "none"
  PROVE  Contents(seq)' = Spliced(Contents(s), s.size, vs)
<1>1. s.tail # s.capacity
  BY DEF Append_, Overrun
<1>2. Sound(Pushed(s, vs)) /\ GoOnWith(Pushed(s, vs))
  BY <1>1, PushedSound DEF Append_
<1>3. Contents(seq)' = Contents(Pushed(s, vs))
  BY <1>2, GoOnShows
<1> QED BY <1>1, <1>3, PushedShows

LEMMA PushEdits ==
  ASSUME IInv, NEW v \in Value, Push(v), fault' = "none"
  PROVE  Contents(seq)' = Spliced(Contents(seq), seq.size, <<v>>)
<1>1. <<v>> \in Seq(Value) /\ Len(<<v>>) = 1
  OBVIOUS
<1>2. CASE Full(seq)
  <2>1. 2 * seq.capacity \in Capacities /\ seq.size + 1 <= 2 * seq.capacity
    BY <1>2, SeqSound, SizeAssumption DEF Push, Full
  <2>2. PICK c \in Capacities : c = 2 * seq.capacity
    BY <2>1
  <2>3. seq.size <= c
    BY <2>1, <2>2, SeqSound
  <2>4. PICK s : s = Reallocate(seq, c)
    OBVIOUS
  <2>5. /\ Sound(s) /\ s.size + Len(<<v>>) <= s.capacity /\ s.size = seq.size
        /\ Contents(s) = Contents(seq)
    BY <1>1, <2>1, <2>2, <2>3, <2>4, SeqSound, ReallocateSound, ReallocateShows
  <2>6. Append_(s, <<v>>) /\ Idle
    BY <1>2, <2>2, <2>4 DEF Push
  <2> QED BY <1>1, <2>5, <2>6, AppendShows
<1>3. CASE ~ Full(seq)
  <2>1. seq.size + Len(<<v>>) <= seq.capacity
    BY <1>1, <1>3, SeqSound DEF Full
  <2>2. Append_(seq, <<v>>) /\ Idle
    BY <1>3 DEF Push
  <2> QED BY <1>1, <2>1, <2>2, SeqSound, AppendShows
<1> QED BY <1>2, <1>3

LEMMA InsertEdits ==
  ASSUME IInv, NEW p \in 0 .. seq.size, NEW vs \in Args, Insert(p, vs), fault' = "none"
  PROVE  Contents(seq)' = Spliced(Contents(seq), p, vs)
<1>1. vs \in Seq(Value) /\ Len(vs) \in Nat
  BY DEF Args
<1>2. PICK n \in Nat : n = seq.size + Len(vs) /\ n \in 0 .. MaxSize
  BY <1>1, SeqSound, SizeAssumption DEF Insert
<1>3. PICK s : s = Allocate(seq, n)
  OBVIOUS
<1>4. Sound(s) /\ s.size = seq.size /\ n <= s.capacity /\ Contents(s) = Contents(seq)
  BY <1>2, <1>3, SeqSound, AllocateSound, AllocateShows
<1>5. s.size + Len(vs) <= s.capacity /\ Idle
  BY <1>2, <1>4 DEF Insert
<1>6. CASE p = seq.size
  <2>1. Append_(s, vs)
    BY <1>2, <1>3, <1>6 DEF Insert
  <2>2. Contents(seq)' = Spliced(Contents(s), s.size, vs)
    BY <1>1, <1>4, <1>5, <2>1, AppendShows
  <2> QED BY <1>4, <1>6, <2>2
<1>7. CASE p # seq.size /\ p = 0
  <2>1. GoOnWith(Unshifted(s, vs))
    BY <1>2, <1>3, <1>7 DEF Insert
  <2>2. s.size > 0
    BY <1>4, <1>7, SeqSound
  <2>3. Sound(Unshifted(s, vs))
    BY <1>1, <1>4, <1>5, <2>2, UnshiftedSound
  <2>4. Contents(seq)' = Contents(Unshifted(s, vs))
    BY <2>1, <2>3, GoOnShows
  <2>5. Contents(Unshifted(s, vs)) = Spliced(Contents(s), 0, vs)
    BY <1>1, <1>4, <1>5, <2>2, UnshiftedShows
  <2> QED BY <1>4, <1>7, <2>4, <2>5
<1>8. CASE p # seq.size /\ p # 0
  <2>1. GoOnWith(Inserted(s, p, vs))
    BY <1>2, <1>3, <1>8 DEF Insert
  <2>2. p \in 1 .. s.size - 1
    BY <1>4, <1>8, SeqSound
  <2>3. Sound(Inserted(s, p, vs))
    BY <1>1, <1>4, <1>5, <2>2, InsertedSound
  <2>4. Contents(seq)' = Contents(Inserted(s, p, vs))
    BY <2>1, <2>3, GoOnShows
  <2>5. Contents(Inserted(s, p, vs)) = Spliced(Contents(s), p, vs)
    BY <1>1, <1>4, <1>5, <2>2, InsertedShows
  <2> QED BY <1>4, <2>4, <2>5
<1> QED BY <1>6, <1>7, <1>8

LEMMA RemoveEdits ==
  ASSUME IInv, NEW p \in Position, Remove(p), fault' = "none"
  PROVE  Contents(seq)' = Dropped(Contents(seq), p)
<1>1. seq.size > 0 /\ p \in 0 .. seq.size - 1 /\ Idle /\ Sound(seq)
  BY SeqSound DEF Position, Remove
<1>2. CASE p = 0
  <2>1. Sound(Shifted(seq)) /\ GoOnWith(Shifted(seq))
    BY <1>1, <1>2, ShiftedSound DEF Remove
  <2> QED BY <1>1, <1>2, <2>1, GoOnShows, ShiftedShows
<1>3. CASE p # 0 /\ p = seq.size - 1
  <2>1. Sound(Popped(seq)) /\ GoOnWith(Popped(seq))
    BY <1>1, <1>3, PoppedSound DEF Remove
  <2> QED BY <1>1, <1>3, <2>1, GoOnShows, PoppedShows
<1>4. CASE p # 0 /\ p # seq.size - 1
  <2>1. ~ Overreads(seq, Cell(seq, p)) /\ GoOnWith(Closed(seq, Cell(seq, p)))
    BY <1>4 DEF Remove, Overrun
  <2>2. p \in 1 .. seq.size - 2
    BY <1>1, <1>4, SeqSound
  <2>3. Sound(Closed(seq, Cell(seq, p)))
    BY <1>1, <2>1, <2>2, ClosedSound
  <2>4. Contents(Closed(seq, Cell(seq, p))) = Dropped(Contents(seq), p)
    BY <1>1, <2>1, <2>2, ClosedShows
  <2> QED BY <2>1, <2>3, <2>4, GoOnShows
<1> QED BY <1>2, <1>3, <1>4

-----------------------------------------------------------------------------
(* A turn of rotate.                                                       *)

TurnedLeft(f) == Append(Tail(f), Head(f))

IsTurnedLeft(g, f, z) ==
  \A q \in 0 .. z - 1 : /\ q < z - 1 => g[q + 1] = f[q + 2]
                        /\ q = z - 1 => g[q + 1] = f[1]

LEMMA TurnedLeftAt ==
  ASSUME NEW f \in Seq(Value), NEW z \in Nat \ {0}, Len(f) = z
  PROVE  /\ TurnedLeft(f) \in Seq(Value) /\ Len(TurnedLeft(f)) = z
         /\ IsTurnedLeft(TurnedLeft(f), f, z)
<1>1. f # << >>
  OBVIOUS
<1>2. PICK a \in Seq(Value), x \in Value :
        /\ a = Tail(f) /\ x = Head(f) /\ x = f[1]
        /\ Len(a) = z - 1 /\ \A k \in 1 .. z - 1 : a[k] = f[k + 1]
  <2>1. /\ Head(f) \in Value /\ Tail(f) \in Seq(Value) /\ Len(Tail(f)) = Len(f) - 1
        /\ \A k \in 1 .. Len(Tail(f)) : Tail(f)[k] = f[k + 1]
    BY <1>1, HeadTailProperties
  <2>2. Head(f) = f[1]
    OBVIOUS
  <2> QED BY <2>1, <2>2
<1>3. PICK g : g = Append(a, x)
  OBVIOUS
<1>4. /\ g \in Seq(Value) /\ Len(g) = Len(a) + 1
      /\ \A k \in 1 .. Len(a) : g[k] = a[k]
      /\ g[Len(a) + 1] = x
  BY <1>3, AppendProperties
<1>5. ASSUME NEW q \in 0 .. z - 1, q < z - 1 PROVE g[q + 1] = f[q + 2]
  <2>1. q + 1 \in 1 .. z - 1 /\ q + 1 + 1 = q + 2
    BY <1>5
  <2> QED BY <1>2, <1>4, <2>1
<1>6. ASSUME NEW q \in 0 .. z - 1, q = z - 1 PROVE g[q + 1] = f[1]
  BY <1>2, <1>4, <1>6
<1>7. IsTurnedLeft(g, f, z)
  BY <1>5, <1>6 DEF IsTurnedLeft
<1>8. Len(g) = z
  BY <1>2, <1>4
<1>9. TurnedLeft(f) = g
  BY <1>2, <1>3 DEF TurnedLeft
<1> QED BY <1>4, <1>7, <1>8, <1>9

TurnedRight(f, z) == <<f[z]>> \o SubSeq(f, 1, z - 1)

IsTurnedRight(g, f, z) ==
  \A q \in 0 .. z - 1 : /\ q = 0 => g[q + 1] = f[z]
                        /\ q > 0 => g[q + 1] = f[q]

LEMMA TurnedRightAt ==
  ASSUME NEW f \in Seq(Value), NEW z \in Nat \ {0}, Len(f) = z
  PROVE  /\ TurnedRight(f, z) \in Seq(Value) /\ Len(TurnedRight(f, z)) = z
         /\ IsTurnedRight(TurnedRight(f, z), f, z)
<1>1. PICK w \in Nat : w = z - 1
  OBVIOUS
<1>2. PICK d \in Seq(Value) : d = SubSeq(f, 1, w) /\ IsSlice(d, f, 1, w)
  <2>1. 1 \in Nat \ {0} /\ 1 <= w + 1 /\ w <= z
    BY <1>1
  <2> QED BY <2>1, SliceAt
<1>3. Len(d) = w /\ \A k \in 1 .. w : d[k] = f[k]
  <2>1. w + 1 - 1 = w /\ \A k \in 1 .. w : 1 + k - 1 = k
    OBVIOUS
  <2> QED BY <1>2, <2>1 DEF IsSlice
<1>4. PICK x \in Value : x = f[z]
  <2>1. z \in 1 .. Len(f)
    OBVIOUS
  <2> QED BY <2>1, ElementOfSeq
<1>5. PICK e \in Seq(Value) : e = <<x>> /\ Len(e) = 1 /\ e[1] = x
  <2>1. <<x>> \in Seq(Value) /\ Len(<<x>>) = 1 /\ <<x>>[1] = x
    OBVIOUS
  <2> QED BY <2>1
<1>6. Len(d) = w /\ Len(e) = 1 /\ 1 \in Nat
  BY <1>3, <1>5
<1>7. PICK g \in Seq(Value) : g = e \o d /\ Len(g) = 1 + w /\ IsJoin(g, e, 1, d, w)
  BY <1>6, JoinAt
<1>8. TurnedRight(f, z) = g
  BY <1>1, <1>2, <1>4, <1>5, <1>7 DEF TurnedRight
<1>9. ASSUME NEW q \in 0 .. z - 1, q = 0 PROVE g[q + 1] = f[z]
  <2>1. g[1] = e[1]
    BY <1>7 DEF IsJoin
  <2> QED BY <1>4, <1>5, <1>9, <2>1
<1>10. ASSUME NEW q \in 0 .. z - 1, q > 0 PROVE g[q + 1] = f[q]
  <2>1. q \in 1 .. w /\ 1 + q = q + 1
    BY <1>1, <1>10
  <2> QED BY <1>3, <1>7, <2>1 DEF IsJoin
<1>11. IsTurnedRight(g, f, z)
  BY <1>9, <1>10 DEF IsTurnedRight
<1>12. Len(g) = z
  BY <1>1, <1>7
<1> QED BY <1>8, <1>11, <1>12

LEMMA NextContents == ASSUME NEW s, seq' = s PROVE Contents(seq)' = Contents(s)
BY DEF Contents, Cell

LEMMA RotateLeftEdits ==
  ASSUME IInv, RotateLeft, fault' = "none"
  PROVE  Contents(seq)' = TurnedLeft(Contents(seq))
<1>1. PICK c \in Nat \ {0}, h \in Nat, t \in Nat, z \in Nat, f \in Seq(Value) :
        /\ Has(seq, c, h, t, z) /\ c \in Capacities
        /\ Fits(c, h, t, z) /\ DOMAIN seq.buffer = 0 .. c - 1
        /\ f = Contents(seq) /\ Len(f) = z /\ Shows(seq.buffer, c, h, z, f)
  BY SeqSound, PartsShown
<1>2. PICK b : b = seq.buffer
  OBVIOUS
<1>3. seq.tail # seq.capacity
  BY DEF RotateLeft, Overrun
<1>4. z > 0 /\ h < c /\ t < c /\ (h + z = t \/ h + z = t + c) /\ z <= c
  BY <1>1, <1>3 DEF IInv, LoopInv, RotateLeft, Has, Fits
<1>5. PICK k \in Int, m \in Int : k = (h + 1) % c /\ m = (t + 1) % c
  OBVIOUS
<1>6. k = IF h + 1 < c THEN h + 1 ELSE 0
  <2>1. CASE h + 1 < c
    BY <1>5, <2>1
  <2>2. CASE c = h + 1
    BY <1>5, <2>2
  <2> QED BY <1>4, <2>1, <2>2
<1>7. m = IF t + 1 < c THEN t + 1 ELSE 0
  <2>1. CASE t + 1 < c
    BY <1>5, <2>1
  <2>2. CASE c = t + 1
    BY <1>5, <2>2
  <2> QED BY <1>4, <2>1, <2>2
<1>8. PICK u : u = [seq EXCEPT !.buffer = Swapped(@, t, h), !.head = k, !.tail = m]
  OBVIOUS
<1>9. seq' = u
  BY <1>1, <1>3, <1>5, <1>8 DEF RotateLeft, Has
<1>10. Has(u, c, k, m, z) /\ u.buffer = Swapped(b, t, h)
  BY <1>1, <1>2, <1>8 DEF Has, Fields
<1>11. k \in Nat /\ m \in Nat /\ Fits(c, k, m, z)
  BY <1>4, <1>6, <1>7 DEF Fits
<1>12. t \in 0 .. c - 1 /\ h \in 0 .. c - 1 /\ DOMAIN b = 0 .. c - 1
  BY <1>1, <1>2, <1>4
<1>13. /\ DOMAIN u.buffer = 0 .. c - 1 /\ u.buffer[t] = b[h]
       /\ \A x \in 0 .. c - 1 : x # t /\ x # h => u.buffer[x] = b[x]
  BY <1>10, <1>12 DEF Swapped
<1>14. PICK g \in Seq(Value) : g = TurnedLeft(f) /\ Len(g) = z /\ IsTurnedLeft(g, f, z)
  BY <1>1, <1>4, TurnedLeftAt
<1>15. ASSUME NEW q \in 0 .. z - 1 PROVE u.buffer[Spot(c, k, q)] = g[q + 1]
  <2>1. CASE q < z - 1
    <3>1. q + 1 \in 0 .. z - 1 /\ q + 1 + 1 = q + 2
      BY <2>1
    <3>2. Spot(c, k, q) = Spot(c, h, q + 1)
      BY <1>4, <1>6, <2>1 DEF Spot
    <3>3. Spot(c, k, q) \in 0 .. c - 1 /\ Spot(c, k, q) # h
      BY <1>4, <1>6, <2>1 DEF Spot
    <3>4. Spot(c, k, q) # t
      BY <1>4, <1>6, <2>1 DEF Spot
    <3>5. u.buffer[Spot(c, k, q)] = b[Spot(c, h, q + 1)]
      BY <1>13, <3>2, <3>3, <3>4
    <3>6. b[Spot(c, h, q + 1)] = f[q + 1 + 1]
      BY <1>1, <1>2, <3>1 DEF Shows
    <3> QED BY <1>14, <2>1, <3>1, <3>5, <3>6 DEF IsTurnedLeft
  <2>2. CASE q = z - 1
    <3>1. Spot(c, k, q) = t /\ Spot(c, h, 0) = h /\ 0 \in 0 .. z - 1
      BY <1>4, <1>6, <2>2 DEF Spot
    <3>2. b[Spot(c, h, 0)] = f[0 + 1]
      BY <1>1, <1>2, <3>1 DEF Shows
    <3>3. b[h] = f[1]
      BY <3>1, <3>2
    <3>4. g[q + 1] = f[1]
      BY <1>14, <2>2 DEF IsTurnedLeft
    <3> QED BY <1>13, <3>1, <3>3, <3>4
  <2> QED BY <2>1, <2>2
<1>16. Shows(u.buffer, c, k, z, g)
  BY <1>15 DEF Shows
<1>17. Contents(u) = g
  BY <1>1, <1>10, <1>11, <1>13, <1>14, <1>16, WholeShows
<1> QED BY <1>1, <1>9, <1>14, <1>17, NextContents

LEMMA RotateRightEdits ==
  ASSUME IInv, RotateRight
  PROVE  Contents(seq)' = TurnedRight(Contents(seq), seq.size)
<1>1. PICK c \in Nat \ {0}, h \in Nat, t \in Nat, z \in Nat, f \in Seq(Value) :
        /\ Has(seq, c, h, t, z) /\ c \in Capacities
        /\ Fits(c, h, t, z) /\ DOMAIN seq.buffer = 0 .. c - 1
        /\ f = Contents(seq) /\ Len(f) = z /\ Shows(seq.buffer, c, h, z, f)
  BY SeqSound, PartsShown
<1>2. PICK b : b = seq.buffer
  OBVIOUS
<1>3. z > 0 /\ h < c /\ t <= c /\ (h + z = t \/ h + z = t + c) /\ z <= c
  BY <1>1 DEF IInv, LoopInv, RotateRight, Has, Fits
<1>4. PICK k \in Int, m \in Int : k = (h - 1) % c /\ m = (t - 1) % c
  OBVIOUS
<1>5. k = IF h = 0 THEN c - 1 ELSE h - 1
  <2>1. CASE h = 0
    BY <1>4, <2>1
  <2>2. CASE h # 0
    BY <1>3, <1>4, <2>2
  <2> QED BY <2>1, <2>2
<1>6. m = IF t = 0 THEN c - 1 ELSE t - 1
  <2>1. CASE t = 0
    BY <1>4, <2>1
  <2>2. CASE t # 0
    BY <1>3, <1>4, <2>2
  <2> QED BY <2>1, <2>2
<1>7. PICK u : u = [seq EXCEPT !.buffer = Swapped(@, m, k), !.head = k, !.tail = m]
  OBVIOUS
<1>8. seq' = u
  BY <1>1, <1>4, <1>7 DEF RotateRight, Has
<1>9. Has(u, c, k, m, z) /\ u.buffer = Swapped(b, m, k)
  BY <1>1, <1>2, <1>7 DEF Has, Fields
<1>10. k \in Nat /\ m \in Nat /\ Fits(c, k, m, z)
  BY <1>3, <1>5, <1>6 DEF Fits
<1>11. m \in 0 .. c - 1 /\ k \in 0 .. c - 1 /\ DOMAIN b = 0 .. c - 1
  BY <1>1, <1>2, <1>3, <1>5, <1>6
<1>12. /\ DOMAIN u.buffer = 0 .. c - 1 /\ u.buffer[k] = b[m]
       /\ \A x \in 0 .. c - 1 : x # m /\ x # k => u.buffer[x] = b[x]
  BY <1>9, <1>11 DEF Swapped
<1>13. PICK g \in Seq(Value) : /\ g = TurnedRight(f, z) /\ Len(g) = z
                               /\ IsTurnedRight(g, f, z)
  BY <1>1, <1>3, TurnedRightAt
<1>14. ASSUME NEW q \in 0 .. z - 1 PROVE u.buffer[Spot(c, k, q)] = g[q + 1]
  <2>1. CASE q > 0
    <3>1. PICK r \in 0 .. z - 2 : r = q - 1 /\ r \in 0 .. z - 1 /\ r + 1 = q
      BY <2>1
    <3>2. Spot(c, k, q) = Spot(c, h, r)
      BY <1>3, <1>5, <3>1 DEF Spot
    <3>3. Spot(c, k, q) \in 0 .. c - 1 /\ Spot(c, k, q) # k
      BY <1>3, <1>5, <3>1 DEF Spot
    <3>4. Spot(c, h, r) # m
      BY <1>3, <1>6, <3>1 DEF Spot
    <3>5. u.buffer[Spot(c, k, q)] = b[Spot(c, h, r)]
      BY <1>12, <3>2, <3>3, <3>4
    <3>6. b[Spot(c, h, r)] = f[r + 1]
      BY <1>1, <1>2, <3>1 DEF Shows
    <3> QED BY <1>13, <2>1, <3>1, <3>5, <3>6 DEF IsTurnedRight
  <2>2. CASE q = 0
    <3>1. Spot(c, k, q) = k /\ Spot(c, h, z - 1) = m /\ z - 1 \in 0 .. z - 1
          /\ (z - 1) + 1 = z
      BY <1>3, <1>5, <1>6, <2>2 DEF Spot
    <3>2. b[Spot(c, h, z - 1)] = f[(z - 1) + 1]
      BY <1>1, <1>2, <3>1 DEF Shows
    <3> QED BY <1>12, <1>13, <2>2, <3>1, <3>2 DEF IsTurnedRight
  <2> QED BY <2>1, <2>2
<1>15. Shows(u.buffer, c, k, z, g)
  BY <1>14 DEF Shows
<1>16. Contents(u) = g
  BY <1>1, <1>9, <1>10, <1>12, <1>13, <1>15, WholeShows
<1>17. seq.size = z
  BY <1>1 DEF Has
<1> QED BY <1>1, <1>8, <1>13, <1>16, <1>17, NextContents

\* EditsArePositional: wherever the window lies, insertions and removals act at
\* their position and nowhere else, and a turn of rotate carries one value from
\* one end to the other (ds_seq.c:303-489, 539-566).
THEOREM EditsActInPlace == Spec => EditsArePositional
<1> DEFINE c == Contents(seq)
           Edits == fault' = "none" =>
             /\ \A p \in 0 .. seq.size, vs \in Args : Insert(p, vs) =>
                  Contents(seq)' = SubSeq(c, 1, p) \o vs \o SubSeq(c, p + 1, seq.size)
             /\ \A p \in Position : Remove(p) =>
                  Contents(seq)' = SubSeq(c, 1, p) \o SubSeq(c, p + 2, seq.size)
             /\ RotateLeft => Contents(seq)' = Append(Tail(c), Head(c))
             /\ RotateRight =>
                  Contents(seq)' = <<c[seq.size]>> \o SubSeq(c, 1, seq.size - 1)
<1>1. IInv /\ [Next]_vars => [Edits]_vars
  <2> SUFFICES ASSUME IInv, fault' = "none" PROVE Edits
    OBVIOUS
  <2>1. Len(c) = seq.size
    BY SeqSound, ContentsAreValues
  <2>2. ASSUME NEW p \in 0 .. seq.size, NEW vs \in Args, Insert(p, vs)
        PROVE  Contents(seq)' = SubSeq(c, 1, p) \o vs \o SubSeq(c, p + 1, seq.size)
    BY <2>1, <2>2, InsertEdits DEF Spliced
  <2>3. ASSUME NEW p \in Position, Remove(p)
        PROVE  Contents(seq)' = SubSeq(c, 1, p) \o SubSeq(c, p + 2, seq.size)
    BY <2>1, <2>3, RemoveEdits DEF Dropped
  <2>4. RotateLeft => Contents(seq)' = Append(Tail(c), Head(c))
    BY RotateLeftEdits DEF TurnedLeft
  <2>5. RotateRight => Contents(seq)' = <<c[seq.size]>> \o SubSeq(c, 1, seq.size - 1)
    BY RotateRightEdits DEF TurnedRight
  <2> QED BY <2>2, <2>3, <2>4, <2>5
<1> QED BY <1>1, Invariant, PTL DEF Spec, EditsArePositional

-----------------------------------------------------------------------------
(* The ring buffer implements a sequence of values: its operations.        *)

LEMMA ContentsKept == ASSUME UNCHANGED seq PROVE UNCHANGED Contents(seq)
BY DEF Contents, Cell

LEMMA NextSound == ASSUME IInv' PROVE Sound(seq')
BY DEF IInv, Settled, Sound, Shaped, Measured, Cells, Covers, Around, Fields

\* A run of values that goes in.
LEMMA SplicedInserts ==
  ASSUME IInv, NEW p \in 0 .. seq.size, NEW vs \in Seq(Value), Len(vs) > 0,
         Contents(seq)' = Spliced(Contents(seq), p, vs)
  PROVE  VS!Next
<1>1. PICK f \in Seq(Value), z \in Nat : f = Contents(seq) /\ Len(f) = z /\ z = seq.size
  BY SeqSound, ContentsAreValues
<1>2. PICK m \in Nat : m = Len(vs)
  OBVIOUS
<1>3. Contents(seq)' = Spliced(f, p, vs) /\ p \in Nat /\ p <= z
  BY <1>1
<1>4. Len(Spliced(f, p, vs)) = z + m
  BY <1>1, <1>2, <1>3, SplicedAt
<1>5. m \in 1 .. Len(Contents(seq)') /\ vs \in [1 .. m -> Value] /\ p \in 0 .. Len(f)
  BY <1>1, <1>2, <1>3, <1>4
<1>6. VS!Insert(p, vs)
  BY <1>1, <1>3 DEF VS!Insert, Spliced
<1> QED BY <1>1, <1>5, <1>6 DEF VS!Next

LEMMA DroppedRemoves ==
  ASSUME IInv, NEW p \in 0 .. seq.size - 1,
         Contents(seq)' = Dropped(Contents(seq), p)
  PROVE  VS!Next
<1>1. Len(Contents(seq)) = seq.size /\ seq.size \in Nat
  BY SeqSound, ContentsAreValues
<1>2. PICK n \in 1 .. Len(Contents(seq)) : n = p + 1 /\ n - 1 = p /\ n + 1 = p + 2
  BY <1>1
<1>3. VS!Remove(n)
  BY <1>2 DEF VS!Remove, Dropped
<1> QED BY <1>2, <1>3 DEF VS!Next

\* Whatever keeps the size is at most a change of the values.
LEMMA SizeKeptRevalues ==
  ASSUME IInv, IInv', seq'.size = seq.size
  PROVE  VS!Next
<1>1. PICK g \in Seq(Value) : g = Contents(seq') /\ Len(g) = seq.size
  BY NextSound, ContentsAreValues
<1>2. PICK f \in Seq(Value) : f = Contents(seq) /\ Len(f) = seq.size
  BY SeqSound, ContentsAreValues
<1>3. g \in [DOMAIN f -> Value]
  BY <1>1, <1>2
<1>4. Contents(seq)' = Contents(seq')
  BY DEF Contents, Cell
<1> QED BY <1>1, <1>2, <1>3, <1>4 DEF VS!Revalue, VS!Next

\* The values at the positions in S, in order.
Filtered(f, S, n) == [q \in 1 .. n |-> f[Nth(S, q - 1)]]

LEMMA FilteredKeeps ==
  ASSUME NEW S \in SUBSET DOMAIN Contents(seq),
         Contents(seq)' = Filtered(Contents(seq), S, Cardinality(S))
  PROVE  VS!Next
<1>1. \A T : VS!Cardinality(T) = Cardinality(T)
  BY DEF VS!Cardinality, Cardinality
<1>2. \A r : VS!Nth(S, r) = Nth(S, r)
  BY <1>1 DEF VS!Nth, Nth, VS!Rank, Rank
<1>3. VS!Keep(S)
  BY <1>1, <1>2 DEF VS!Keep, Filtered
<1> QED BY <1>3 DEF VS!Next

\* A sequence without values keeps none.
LEMMA EmptyKeeps ==
  ASSUME seq'.size = 0
  PROVE  VS!Next
<1>1. Contents(seq)' = [p \in 1 .. 0 |-> seq'.buffer[Cell(seq', p - 1)]]
  BY DEF Contents, Cell
<1>2. Cardinality({}) = 0 /\ 1 .. 0 = {}
  BY FS_EmptySet
<1>3. Contents(seq)' = Filtered(Contents(seq), {}, Cardinality({}))
  BY <1>1, <1>2 DEF Filtered
<1>4. {} \in SUBSET DOMAIN Contents(seq)
  OBVIOUS
<1> QED BY <1>3, <1>4, FilteredKeeps

LEMMA GoOnSize == ASSUME NEW s, GoOnWith(s) PROVE seq'.size = s.size
BY DEF GoOnWith, Tidy

LEMMA PushInserts ==
  ASSUME IInv, NEW v \in Value, Push(v)
  PROVE  VS!Next \/ UNCHANGED Contents(seq)
<1>1. CASE fault' = "none"
  <2>1. Contents(seq)' = Spliced(Contents(seq), seq.size, <<v>>)
    BY <1>1, PushEdits
  <2>2. <<v>> \in Seq(Value) /\ Len(<<v>>) > 0 /\ seq.size \in 0 .. seq.size
    BY SeqSound
  <2> QED BY <2>1, <2>2, SplicedInserts
<1>2. CASE fault' # "none"
  BY <1>2, ContentsKept DEF Push, Idle, Append_, GoOnWith, Overrun
<1> QED BY <1>1, <1>2

LEMMA InsertInserts ==
  ASSUME IInv, NEW p \in 0 .. seq.size, NEW vs \in Args, Insert(p, vs)
  PROVE  VS!Next \/ UNCHANGED Contents(seq)
<1>1. CASE fault' = "none"
  <2>1. Contents(seq)' = Spliced(Contents(seq), p, vs)
    BY <1>1, InsertEdits
  <2>2. vs \in Seq(Value) /\ Len(vs) > 0
    BY DEF Args
  <2> QED BY <2>1, <2>2, SplicedInserts
<1>2. CASE fault' # "none"
  BY <1>2, ContentsKept DEF Insert, Idle, Append_, GoOnWith, Overrun
<1> QED BY <1>1, <1>2

LEMMA RemoveRemoves ==
  ASSUME IInv, NEW p \in Position, Remove(p)
  PROVE  VS!Next \/ UNCHANGED Contents(seq)
<1>1. CASE fault' = "none"
  BY <1>1, RemoveEdits, DroppedRemoves DEF Position
<1>2. CASE fault' # "none"
  BY <1>2, ContentsKept DEF Remove, Idle, GoOnWith, Overrun
<1> QED BY <1>1, <1>2

LEMMA PopLastRemoves ==
  ASSUME IInv, PopLast
  PROVE  VS!Next
<1>1. Sound(seq) /\ seq.size = 1 /\ seq.size - 1 = 0 /\ GoOnWith(Popped(seq))
  BY SeqSound DEF PopLast
<1>2. Sound(Popped(seq)) /\ Contents(Popped(seq)) = Dropped(Contents(seq), seq.size - 1)
  BY <1>1, PoppedSound, PoppedShows
<1>3. Contents(seq)' = Dropped(Contents(seq), 0)
  BY <1>1, <1>2, GoOnShows
<1>4. 0 \in 0 .. seq.size - 1
  BY <1>1
<1> QED BY <1>3, <1>4, DroppedRemoves

\* set(), apply() and map().
LEMMA ValuesChange ==
  ASSUME IInv, IInv',
         \/ \E p \in Position, v \in Value : Set(p, v)
         \/ \E f \in [Position -> Value] : Apply(f) \/ TakeMap(f)
  PROVE  VS!Next
<1>1. CASE \E p \in Position, v \in Value : Set(p, v)
  <2>1. PICK u : GoOnWith(u) /\ u.size = seq.size
    BY <1>1, SeqSound DEF Set, Sound, Shaped, Fields
  <2> QED BY <2>1, GoOnSize, SizeKeptRevalues
<1>2. CASE \E f \in [Position -> Value] : Apply(f)
  <2>1. PICK u : GoOnWith(u) /\ u.size = seq.size
    BY <1>2, SeqSound DEF Apply, Sound, Shaped, Fields
  <2> QED BY <2>1, GoOnSize, SizeKeptRevalues
<1>3. CASE \E f \in [Position -> Value] : TakeMap(f)
  <2>1. PICK f : TakeMap(f)
    BY <1>3
  <2>2. PICK n \in Nat : n = seq.size
    BY SeqSound
  <2>3. PICK vs : vs = [p \in 1 .. n |-> f[p - 1]]
    OBVIOUS
  <2>4. GoOnWith(FromBuffer(seq.capacity, vs))
    BY <2>1, <2>2, <2>3 DEF TakeMap
  <2>5. Len(vs) = n
    BY <2>3
  <2>6. FromBuffer(seq.capacity, vs).size = seq.size
    BY <2>2, <2>5 DEF FromBuffer
  <2> QED BY <2>4, <2>6, GoOnSize, SizeKeptRevalues
<1> QED BY <1>1, <1>2, <1>3

LEMMA ClearKeepsNothing ==
  ASSUME Clear
  PROVE  VS!Next
<1>1. GoOnWith(Cleared(seq)) /\ Cleared(seq).size = 0
  BY DEF Clear, Cleared
<1> QED BY <1>1, GoOnSize, EmptyKeeps

\* Growing, resetting the head and cloning change no value.
LEMMA LayoutStutters ==
  ASSUME IInv,
         \/ \E n \in 0 .. MaxSize : EnsureCapacity(n)
         \/ Join
         \/ TakeClone
  PROVE  UNCHANGED Contents(seq)
<1>1. CASE \E n \in 0 .. MaxSize : EnsureCapacity(n)
  BY <1>1, SeqSound, AllocateSound, AllocateShows, GoOnShows DEF EnsureCapacity
<1>2. CASE Join
  BY <1>2, SeqSound, ResetHeadSound, ResetHeadShows, GoOnShows DEF Join
<1>3. CASE TakeClone
  <2>1. PICK f \in Seq(Value) : f = Contents(seq) /\ Len(f) <= seq.capacity
    BY SeqSound, ContentsAreValues
  <2>2. Sound(FromBuffer(seq.capacity, f)) /\ Contents(FromBuffer(seq.capacity, f)) = f
    BY <2>1, SeqSound, FromBufferSound, FromBufferShows
  <2> QED BY <1>3, <2>1, <2>2, GoOnShows DEF TakeClone
<1> QED BY <1>1, <1>2, <1>3

LEMMA BeginEndStutters ==
  ASSUME \/ ReverseBegin \/ ReverseEnd \/ RotateEnd \/ Stopped \/ UNCHANGED vars
         \/ \E n \in -MaxTurns .. MaxTurns : RotateBegin(n)
  PROVE  UNCHANGED Contents(seq)
BY ContentsKept DEF ReverseBegin, ReverseEnd, RotateEnd, Stopped, RotateBegin, vars

LEMMA TakeFilterKeeps ==
  ASSUME IInv, NEW S \in SUBSET (1 .. seq.size), TakeFilter(S)
  PROVE  VS!Next
<1>1. CASE seq.size = 0
  <2>1. Fresh(MinCapacity).size = 0
    BY DEF Fresh, FromBuffer
  <2> QED BY <1>1, <2>1, GoOnSize, EmptyKeeps DEF TakeFilter
<1>2. CASE seq.size # 0
  <2>1. PICK f \in Seq(Value), z \in Nat :
          f = Contents(seq) /\ Len(f) = z /\ z = seq.size /\ z <= seq.capacity
    BY SeqSound, ContentsAreValues
  <2>2. PICK n : n = Cardinality(S)
    OBVIOUS
  <2>3. S \subseteq 0 .. (z + 1) - 1 /\ z + 1 \in Nat
    BY <2>1
  <2>4. n \in Nat /\ n <= z
    <3>1. IsFiniteSet(1 .. z) /\ Cardinality(1 .. z) = z
      BY FS_Interval
    <3>2. Cardinality(S) <= Cardinality(1 .. z)
      BY <2>1, <3>1, FS_Subset
    <3>3. Cardinality(S) \in Nat
      BY <2>3, IndicesFinite
    <3> QED BY <2>2, <3>1, <3>2, <3>3
  <2>5. PICK vs : vs = Filtered(f, S, n)
    OBVIOUS
  <2>6. ASSUME NEW p \in 1 .. n PROVE f[Nth(S, p - 1)] \in Value
    <3>1. p - 1 \in 0 .. Cardinality(S) - 1
      BY <2>2, <2>4
    <3>2. Nth(S, p - 1) \in S
      BY <2>3, <3>1, NthIsMember
    <3>3. Nth(S, p - 1) \in 1 .. Len(f)
      BY <2>1, <3>2
    <3> QED BY <3>3, ElementOfSeq
  <2>7. vs \in Seq(Value) /\ Len(vs) = n
    BY <2>4, <2>5, <2>6 DEF Filtered
  <2>8. PICK c \in Capacities : c = CapacityFor(n) /\ n <= c
    <3>1. n <= seq.capacity
      BY <2>1, <2>4, SeqSound
    <3> QED BY <2>4, <3>1, SeqSound, CapacityForFits
  <2>9. GoOnWith(FromBuffer(c, vs))
    BY <1>2, <2>1, <2>2, <2>5, <2>8 DEF TakeFilter, Filtered
  <2>10. Sound(FromBuffer(c, vs)) /\ Contents(FromBuffer(c, vs)) = vs
    BY <2>7, <2>8, FromBufferSound, FromBufferShows
  <2>11. Contents(seq)' = Filtered(Contents(seq), S, Cardinality(S))
    BY <2>1, <2>2, <2>5, <2>9, <2>10, GoOnShows
  <2>12. S \in SUBSET DOMAIN Contents(seq)
    BY <2>1
  <2> QED BY <2>11, <2>12, FilteredKeeps
<1> QED BY <1>1, <1>2

\* A run of positions, in order.
LEMMA NthOfRun ==
  ASSUME NEW z \in Nat, NEW p \in Nat, NEW n \in Nat, p + n <= z
  PROVE  /\ Cardinality(p + 1 .. p + n) = n
         /\ \A r \in 0 .. n - 1 : Nth(p + 1 .. p + n, r) = p + 1 + r
<1>1. PICK S : S = p + 1 .. p + n
  OBVIOUS
<1>2. PICK g : g = [r \in 0 .. n - 1 |-> p + 1 + r]
  OBVIOUS
<1>3. S \subseteq 0 .. (z + 1) - 1 /\ z + 1 \in Nat
  BY <1>1
<1>4. g \in [0 .. n - 1 -> S]
  BY <1>1, <1>2
<1>5. Increasing(g, 0 .. n - 1)
  BY <1>2 DEF Increasing
<1>6. ASSUME NEW s \in S PROVE \E r \in 0 .. n - 1 : g[r] = s
  <2>1. s - p - 1 \in 0 .. n - 1 /\ p + 1 + (s - p - 1) = s
    BY <1>1
  <2> QED BY <1>2, <2>1
<1>7. Reaches(g, 0 .. n - 1, S)
  BY <1>6 DEF Reaches
<1>8. Cardinality(S) = n /\ \A r \in 0 .. n - 1 : Nth(S, r) = g[r]
  <2>1. PICK w \in Nat : S \subseteq 0 .. w - 1
    BY <1>3
  <2>2. n \in Nat
    OBVIOUS
  <2>3. /\ Cardinality(S) = n
        /\ \A r \in 0 .. n - 1 : Rank(S, g[r]) = r /\ Nth(S, r) = g[r]
    BY ONLY <2>1, <2>2, <1>4, <1>5, <1>7, NthUnique, Zenon
  <2> QED BY ONLY <2>3, Zenon
<1> QED BY <1>1, <1>2, <1>8

LEMMA TakeSliceKeeps ==
  ASSUME IInv, NEW p \in 0 .. seq.size, NEW n \in 0 .. seq.size, TakeSlice(p, n)
  PROVE  VS!Next
<1>1. CASE n = 0
  <2>1. Fresh(MinCapacity).size = 0
    BY DEF Fresh, FromBuffer
  <2> QED BY <1>1, <2>1, GoOnSize, EmptyKeeps DEF TakeSlice
<1>2. CASE n # 0
  <2>1. PICK f \in Seq(Value), z \in Nat :
          f = Contents(seq) /\ Len(f) = z /\ z = seq.size /\ z <= seq.capacity
    BY SeqSound, ContentsAreValues
  <2>2. p \in Nat /\ n \in Nat /\ p + n <= z /\ n <= z
    BY <2>1 DEF TakeSlice
  <2>3. PICK vs \in Seq(Value) :
          /\ vs = SubSeq(f, p + 1, p + n) /\ Len(vs) = n
          /\ \A q \in 1 .. n : vs[q] = f[p + q]
    <3>1. PICK a \in Nat \ {0}, e \in Nat : a = p + 1 /\ e = p + n /\ a <= e + 1 /\ e <= z
      BY <2>2
    <3>2. PICK y \in Seq(Value) : y = SubSeq(f, a, e) /\ IsSlice(y, f, a, e)
      BY <2>1, <3>1, SliceAt
    <3>3. e + 1 - a = n /\ \A q \in 1 .. n : a + q - 1 = p + q
      BY <2>2, <3>1
    <3>4. Len(y) = n /\ \A q \in 1 .. n : y[q] = f[p + q]
      BY <3>2, <3>3 DEF IsSlice
    <3>5. y = SubSeq(f, p + 1, p + n)
      BY <3>1, <3>2
    <3> QED BY <3>4, <3>5
  <2>4. PICK c \in Capacities : c = CapacityFor(n) /\ n <= c
    <3>1. n <= seq.capacity
      BY <2>1, <2>2, SeqSound
    <3> QED BY <2>2, <3>1, SeqSound, CapacityForFits
  <2>5. PICK s : s = Fresh(c)
    OBVIOUS
  <2>6. Sound(s) /\ s.capacity = c /\ s.size = 0 /\ s.tail = 0
    BY <2>4, <2>5, FreshSound DEF Fresh, FromBuffer
  <2>7. s.tail # s.capacity /\ s.size + Len(vs) <= s.capacity
    BY <2>2, <2>3, <2>4, <2>6, PositiveCapacities
  <2>8. Sound(Pushed(s, vs)) /\ Contents(Pushed(s, vs)) = Spliced(Contents(s), s.size, vs)
    BY <2>3, <2>6, <2>7, PushedSound, PushedShows
  <2>9. PICK e \in Seq(Value) : e = Contents(s) /\ Len(e) = 0
    BY <2>6, ContentsAreValues
  <2>10. PICK g \in Seq(Value) : g = Spliced(e, 0, vs) /\ Len(g) = 0 + n
                                 /\ IsSpliced(g, e, 0, 0, vs, n)
    <3>1. PICK o, m : o = 0 /\ m = n
      OBVIOUS
    <3>2. o \in Nat /\ m \in Nat /\ o <= o /\ Len(e) = o /\ Len(vs) = m
      BY <2>2, <2>3, <2>9, <3>1
    <3>3. /\ Spliced(e, o, vs) \in Seq(Value) /\ Len(Spliced(e, o, vs)) = o + m
          /\ IsSpliced(Spliced(e, o, vs), e, o, o, vs, m)
      BY <3>2, SplicedAt
    <3> QED BY <3>1, <3>3
  <2>11. ASSUME NEW q \in 1 .. n PROVE g[q] = f[p + q]
    <3>1. PICK r \in 0 .. 0 + n - 1 : r + 1 = q /\ 0 <= r /\ r < 0 + n /\ r - 0 + 1 = q
      <4>1. q - 1 \in 0 .. 0 + n - 1 /\ (q - 1) + 1 = q /\ (q - 1) - 0 + 1 = q
        BY <2>2
      <4> QED BY <2>2, <4>1
    <3>2. g[q] = vs[q]
      BY <2>10, <3>1 DEF IsSpliced
    <3> QED BY <2>3, <3>2
  <2>12. PICK S : S = p + 1 .. p + n
    OBVIOUS
  <2>13. /\ Cardinality(S) = n
         /\ \A q \in 1 .. n : q - 1 \in 0 .. n - 1 /\ Nth(S, q - 1) = p + q
    <3>1. \A q \in 1 .. n : q - 1 \in 0 .. n - 1 /\ p + 1 + (q - 1) = p + q
      BY <2>2
    <3> QED BY <2>2, <2>12, <3>1, NthOfRun
  <2>14. g = Filtered(f, S, n)
    <3>1. \A q \in 1 .. n : Filtered(f, S, n)[q] = g[q]
      BY <2>11, <2>13 DEF Filtered
    <3>2. DOMAIN Filtered(f, S, n) = 1 .. n /\ DOMAIN g = 1 .. n
      BY <2>2, <2>10 DEF Filtered
    <3> QED BY <2>10, <3>1, <3>2 DEF Filtered
  <2>15. GoOnWith(Pushed(s, vs))
    BY <1>2, <2>1, <2>3, <2>4, <2>5 DEF TakeSlice
  <2>16. Contents(seq)' = g
    BY <2>6, <2>8, <2>9, <2>10, <2>15, GoOnShows
  <2>17. S \in SUBSET DOMAIN Contents(seq)
    BY <2>1, <2>2, <2>12
  <2>18. Contents(seq)' = Filtered(Contents(seq), S, Cardinality(S))
    BY <2>1, <2>13, <2>14, <2>16
  <2> QED BY <2>17, <2>18, FilteredKeeps
<1> QED BY <1>1, <1>2

-----------------------------------------------------------------------------
(* The ring buffer implements a sequence of values: changes of order.      *)

Permutes(p, z) ==
  /\ p \in [1 .. z -> 1 .. z]
  /\ \A i, j \in 1 .. z : p[i] = p[j] => i = j

\* g has at each position i what f has at p[i].
IsPermuted(g, f, p, z) == \A i \in 1 .. z : g[i] = f[p[i]]

LEMMA PermutedRearranges ==
  ASSUME IInv, NEW z \in Nat, seq.size = z, NEW p, Permutes(p, z),
         NEW g \in Seq(Value), Len(g) = z,
         IsPermuted(g, Contents(seq), p, z), Contents(seq)' = g
  PROVE  VS!Next
<1>1. PICK f \in Seq(Value) : f = Contents(seq) /\ Len(f) = z
  BY SeqSound, ContentsAreValues
<1>2. DOMAIN f = 1 .. z
  BY <1>1
<1>3. PICK u : u = [i \in 1 .. z |-> f[p[i]]]
  OBVIOUS
<1>4. g = u
  <2>1. DOMAIN g = 1 .. z /\ \A i \in 1 .. z : g[i] = u[i]
    BY <1>1, <1>3 DEF IsPermuted
  <2> QED BY <1>3, <2>1
<1>5. VS!Rearrange
  <2>1. Contents(seq)' = [i \in DOMAIN Contents(seq) |-> Contents(seq)[p[i]]]
    BY <1>1, <1>2, <1>3, <1>4
  <2>2. /\ p \in [DOMAIN Contents(seq) -> DOMAIN Contents(seq)]
        /\ \A i, j \in DOMAIN Contents(seq) : p[i] = p[j] => i = j
    BY <1>1, <1>2 DEF Permutes
  <2> QED BY <2>1, <2>2, Zenon DEF VS!Rearrange
<1> QED BY <1>5 DEF VS!Next

LEMMA RotateRearranges ==
  ASSUME IInv, RotateLeft \/ RotateRight
  PROVE  VS!Next \/ UNCHANGED Contents(seq)
<1>1. PICK f \in Seq(Value), z \in Nat : f = Contents(seq) /\ Len(f) = z /\ z = seq.size
  BY SeqSound, ContentsAreValues
<1>2. z \in Nat \ {0}
  BY <1>1 DEF IInv, LoopInv, RotateLeft, RotateRight
<1>3. CASE RotateLeft /\ fault' = "none"
  <2>1. PICK g \in Seq(Value) : g = TurnedLeft(f) /\ Len(g) = z /\ IsTurnedLeft(g, f, z)
    BY <1>1, <1>2, TurnedLeftAt
  <2>2. PICK p : p = [i \in 1 .. z |-> IF i < z THEN i + 1 ELSE 1]
    OBVIOUS
  <2>3. Permutes(p, z)
    BY <1>2, <2>2 DEF Permutes
  <2>4. ASSUME NEW i \in 1 .. z PROVE g[i] = f[p[i]]
    <3>1. PICK q \in 0 .. z - 1 : i = q + 1 /\ q + 2 = i + 1
      <4>1. i - 1 \in 0 .. z - 1 /\ i = (i - 1) + 1 /\ (i - 1) + 2 = i + 1
        BY <1>2
      <4> QED BY <4>1
    <3>2. CASE i < z
      <4>1. q < z - 1 /\ p[i] = q + 2
        BY <1>2, <2>2, <3>1, <3>2
      <4> QED BY <2>1, <3>1, <4>1 DEF IsTurnedLeft
    <3>3. CASE ~ (i < z)
      <4>1. q = z - 1 /\ p[i] = 1
        BY <1>2, <2>2, <3>1, <3>3
      <4> QED BY <2>1, <3>1, <4>1 DEF IsTurnedLeft
    <3> QED BY <3>2, <3>3
  <2>5. IsPermuted(g, f, p, z) /\ Contents(seq)' = g
    BY <1>1, <1>3, <2>1, <2>4, RotateLeftEdits DEF IsPermuted
  <2> QED BY <1>1, <2>1, <2>3, <2>5, PermutedRearranges
<1>4. CASE RotateLeft /\ fault' # "none"
  BY <1>4, ContentsKept DEF RotateLeft, Overrun
<1>5. CASE RotateRight
  <2>1. PICK g \in Seq(Value) : g = TurnedRight(f, z) /\ Len(g) = z /\ IsTurnedRight(g, f, z)
    BY <1>1, <1>2, TurnedRightAt
  <2>2. PICK p : p = [i \in 1 .. z |-> IF i = 1 THEN z ELSE i - 1]
    OBVIOUS
  <2>3. Permutes(p, z)
    BY <1>2, <2>2 DEF Permutes
  <2>4. ASSUME NEW i \in 1 .. z PROVE g[i] = f[p[i]]
    <3>1. PICK q \in 0 .. z - 1 : i = q + 1
      <4>1. i - 1 \in 0 .. z - 1 /\ i = (i - 1) + 1
        BY <1>2
      <4> QED BY <4>1
    <3>2. CASE i = 1
      <4>1. q = 0 /\ p[i] = z
        BY <1>2, <2>2, <3>1, <3>2
      <4> QED BY <2>1, <3>1, <4>1 DEF IsTurnedRight
    <3>3. CASE i # 1
      <4>1. q > 0 /\ p[i] = q
        BY <1>2, <2>2, <3>1, <3>3
      <4> QED BY <2>1, <3>1, <4>1 DEF IsTurnedRight
    <3> QED BY <3>2, <3>3
  <2>5. IsPermuted(g, f, p, z) /\ Contents(seq)' = g
    BY <1>1, <1>5, <2>1, <2>4, RotateRightEdits DEF IsPermuted
  <2> QED BY <1>1, <2>1, <2>3, <2>5, PermutedRearranges
<1> QED BY <1>3, <1>4, <1>5

\* From the last value to the first.
LEMMA Mirrors ==
  ASSUME NEW z \in Nat
  PROVE  Permutes([i \in 1 .. z |-> z + 1 - i], z)
BY DEF Permutes

LEMMA TakeReversedRearranges ==
  ASSUME IInv, TakeReversed
  PROVE  VS!Next
<1>1. PICK f \in Seq(Value), z \in Nat :
        f = Contents(seq) /\ Len(f) = z /\ z = seq.size /\ z <= seq.capacity
  BY SeqSound, ContentsAreValues
<1>2. PICK p : p = [i \in 1 .. z |-> z + 1 - i]
  OBVIOUS
<1>3. PICK vs : vs = [i \in 1 .. z |-> f[z + 1 - i]]
  OBVIOUS
<1>4. ASSUME NEW i \in 1 .. z PROVE f[z + 1 - i] \in Value
  <2>1. z + 1 - i \in 1 .. Len(f)
    BY <1>1
  <2> QED BY <2>1, ElementOfSeq
<1>5. vs \in Seq(Value) /\ Len(vs) = z /\ IsPermuted(vs, f, p, z)
  BY <1>2, <1>3, <1>4 DEF IsPermuted
<1>6. Sound(FromBuffer(seq.capacity, vs)) /\ Contents(FromBuffer(seq.capacity, vs)) = vs
  BY <1>1, <1>5, SeqSound, FromBufferSound, FromBufferShows
<1>7. GoOnWith(FromBuffer(seq.capacity, vs))
  BY <1>1, <1>3 DEF TakeReversed
<1>8. Contents(seq)' = vs
  BY <1>6, <1>7, GoOnShows
<1> QED BY <1>1, <1>2, <1>5, <1>8, Mirrors, PermutedRearranges

LEMMA ReverseRangeRearranges ==
  ASSUME IInv, ReverseRange
  PROVE  VS!Next
<1>1. PICK c \in Nat \ {0}, h \in Nat, t \in Nat, z \in Nat, f \in Seq(Value) :
        /\ Has(seq, c, h, t, z) /\ c \in Capacities
        /\ Fits(c, h, t, z) /\ DOMAIN seq.buffer = 0 .. c - 1
        /\ f = Contents(seq) /\ Len(f) = z /\ Shows(seq.buffer, c, h, z, f)
  BY SeqSound, PartsShown
<1>2. PICK b, u : b = seq.buffer /\
        u = [seq EXCEPT !.buffer =
               [i \in 0 .. seq.capacity - 1 |->
                  IF i \in seq.head .. seq.tail - 1
                  THEN seq.buffer[seq.head + seq.tail - 1 - i]
                  ELSE seq.buffer[i]]]
  OBVIOUS
<1>3. GoOnWith(u) /\ h < t
  BY <1>1, <1>2 DEF ReverseRange, Has
<1>4. h + z = t /\ t <= c /\ h < c
  BY <1>1, <1>3 DEF Fits
<1>5. /\ Has(u, c, h, t, z)
      /\ u.buffer = [i \in 0 .. c - 1 |-> IF i \in h .. t - 1 THEN b[h + t - 1 - i] ELSE b[i]]
  BY <1>1, <1>2 DEF Has, Fields
<1>6. PICK p : p = [i \in 1 .. z |-> z + 1 - i]
  OBVIOUS
<1>7. PICK g : g = [i \in 1 .. z |-> f[z + 1 - i]]
  OBVIOUS
<1>8. ASSUME NEW i \in 1 .. z PROVE f[z + 1 - i] \in Value
  <2>1. z + 1 - i \in 1 .. Len(f)
    BY <1>1
  <2> QED BY <2>1, ElementOfSeq
<1>9. g \in Seq(Value) /\ Len(g) = z /\ IsPermuted(g, f, p, z)
  BY <1>6, <1>7, <1>8 DEF IsPermuted
<1>10. ASSUME NEW q \in 0 .. z - 1 PROVE u.buffer[Spot(c, h, q)] = g[q + 1]
  <2>1. /\ Spot(c, h, q) = h + q /\ h + q \in 0 .. c - 1 /\ h + q \in h .. t - 1
        /\ h + t - 1 - (h + q) = h + (z - 1 - q)
    BY <1>4 DEF Spot
  <2>2. PICK r \in 0 .. z - 1 : r = z - 1 - q /\ r + 1 = z + 1 - (q + 1) /\ q + 1 \in 1 .. z
    OBVIOUS
  <2>3. Spot(c, h, r) = h + r
    BY <1>4 DEF Spot
  <2>4. u.buffer[h + q] = b[h + r]
    BY <1>5, <2>1, <2>2
  <2>5. b[Spot(c, h, r)] = f[r + 1]
    BY <1>1, <1>2 DEF Shows
  <2>6. g[q + 1] = f[r + 1]
    BY <1>7, <2>2
  <2> QED BY <2>1, <2>3, <2>4, <2>5, <2>6
<1>11. Shows(u.buffer, c, h, z, g)
  BY <1>10 DEF Shows
<1>12. DOMAIN u.buffer = 0 .. c - 1
  BY <1>5
<1>13. Sound(u) /\ Contents(u) = g
  BY <1>1, <1>5, <1>9, <1>11, <1>12, WholeShows
<1>14. Contents(seq)' = g /\ seq.size = z
  BY <1>1, <1>3, <1>13, GoOnShows DEF Has
<1> QED BY <1>1, <1>6, <1>9, <1>14, Mirrors, PermutedRearranges

LEMMA SortRearranges ==
  ASSUME IInv, NEW p \in Shuffles(seq.size), Sort(p)
  PROVE  VS!Next
<1>1. PICK f \in Seq(Value), z \in Nat : f = Contents(seq) /\ Len(f) = z /\ z = seq.size
  BY SeqSound, ContentsAreValues
<1>2. PICK s : s = ResetHead(seq)
  OBVIOUS
<1>3. PICK b : b = s.buffer
  OBVIOUS
<1>4. /\ Sound(s) /\ s.head = 0 /\ s.size = z
      /\ \A q \in 0 .. z - 1 : b[q] = f[q + 1]
  BY <1>1, <1>2, <1>3, SeqSound, ResetHeadSound, ResetHeadShows
<1>5. PICK c \in Nat \ {0}, y \in Nat :
        Has(s, c, 0, y, z) /\ c \in Capacities /\ Fits(c, 0, y, z)
  BY <1>4, Parts DEF Has
<1>6. PICK u : u = [s EXCEPT !.buffer =
                      [i \in 0 .. s.capacity - 1 |->
                         IF i < s.size THEN s.buffer[p[i]] ELSE s.buffer[i]]]
  OBVIOUS
<1>7. GoOnWith(u)
  BY <1>2, <1>6 DEF Sort
<1>8. /\ Has(u, c, 0, y, z)
      /\ u.buffer = [i \in 0 .. c - 1 |-> IF i < z THEN b[p[i]] ELSE b[i]]
  BY <1>3, <1>5, <1>6 DEF Has, Fields
<1>9. /\ p \in [0 .. z - 1 -> 0 .. z - 1]
      /\ \A i, j \in 0 .. z - 1 : p[i] = p[j] => i = j
  BY <1>1 DEF Shuffles
<1>10. PICK o : o = [i \in 1 .. z |-> p[i - 1] + 1]
  OBVIOUS
<1>11. \A i \in 1 .. z : i - 1 \in 0 .. z - 1 /\ p[i - 1] \in 0 .. z - 1
  <2>1. \A i \in 1 .. z : i - 1 \in 0 .. z - 1
    OBVIOUS
  <2> QED BY <1>9, <2>1
<1>12. Permutes(o, z)
  <2>1. o \in [1 .. z -> 1 .. z]
    BY <1>10, <1>11
  <2>2. ASSUME NEW i \in 1 .. z, NEW j \in 1 .. z, o[i] = o[j] PROVE i = j
    <3>1. p[i - 1] = p[j - 1]
      BY <1>10, <1>11, <2>2
    <3>2. i - 1 = j - 1
      BY <1>9, <1>11, <3>1
    <3> QED BY <3>2
  <2> QED BY <2>1, <2>2 DEF Permutes
<1>13. PICK g : g = [i \in 1 .. z |-> f[o[i]]]
  OBVIOUS
<1>14. ASSUME NEW i \in 1 .. z PROVE f[o[i]] \in Value
  <2>1. o[i] \in 1 .. Len(f)
    BY <1>1, <1>12 DEF Permutes
  <2> QED BY <2>1, ElementOfSeq
<1>15. g \in Seq(Value) /\ Len(g) = z /\ IsPermuted(g, f, o, z)
  BY <1>13, <1>14 DEF IsPermuted
<1>16. ASSUME NEW q \in 0 .. z - 1 PROVE u.buffer[Spot(c, 0, q)] = g[q + 1]
  <2>1. Spot(c, 0, q) = q /\ q \in 0 .. c - 1 /\ q < z /\ q + 1 \in 1 .. z /\ (q + 1) - 1 = q
    BY <1>5 DEF Spot, Fits
  <2>2. u.buffer[q] = b[p[q]]
    BY <1>8, <2>1
  <2>3. p[q] \in 0 .. z - 1
    BY <1>9
  <2>4. b[p[q]] = f[p[q] + 1]
    BY <1>4, <2>3
  <2>5. g[q + 1] = f[p[q] + 1]
    BY <1>10, <1>13, <2>1
  <2> QED BY <2>1, <2>2, <2>4, <2>5
<1>17. Shows(u.buffer, c, 0, z, g)
  BY <1>16 DEF Shows
<1>18. DOMAIN u.buffer = 0 .. c - 1 /\ 0 \in Nat
  BY <1>8
<1>19. Sound(u) /\ Contents(u) = g
  BY <1>5, <1>8, <1>15, <1>17, <1>18, WholeShows
<1>20. Contents(seq)' = g
  BY <1>7, <1>19, GoOnShows
<1> QED BY <1>1, <1>12, <1>15, <1>20, PermutedRearranges

\* A swap of reverse exchanges two values of the window, or two cells that lie
\* outside it once the loop has gone past the gap.
LEMMA ReverseSwapRearranges ==
  ASSUME IInv, ReverseSwap
  PROVE  VS!Next \/ UNCHANGED Contents(seq)
<1>1. PICK c \in Nat \ {0}, h \in Nat, t \in Nat, z \in Nat, f \in Seq(Value) :
        /\ Has(seq, c, h, t, z) /\ c \in Capacities
        /\ Fits(c, h, t, z) /\ DOMAIN seq.buffer = 0 .. c - 1
        /\ f = Contents(seq) /\ Len(f) = z /\ Shows(seq.buffer, c, h, z, f)
  BY SeqSound, PartsShown
<1>2. PICK b : b = seq.buffer
  OBVIOUS
<1>3. PICK l \in Nat, r \in Nat : l = lo /\ r = hi /\ l < c /\ r < c
  BY <1>1 DEF IInv, LoopInv, Cells, Has
<1>4. l # r /\ h >= t /\ (l + r = h + t \/ l + r = h + t + c \/ l + r = h + t - c)
  BY <1>1, <1>3 DEF IInv, LoopInv, ReverseSwap, Has
<1>5. PICK m \in Int : m = (r - 1) % c
  OBVIOUS
<1>6. m = IF r = 0 THEN c - 1 ELSE r - 1
  <2>1. CASE r = 0
    BY <1>5, <2>1
  <2>2. CASE r # 0
    BY <1>3, <1>5, <2>2
  <2> QED BY <2>1, <2>2
<1>7. PICK u : u = [seq EXCEPT !.buffer = Swapped(@, l, m)]
  OBVIOUS
<1>8. seq' = u
  BY <1>1, <1>3, <1>5, <1>7 DEF ReverseSwap, Has
<1>9. Has(u, c, h, t, z) /\ u.buffer = Swapped(b, l, m)
  BY <1>1, <1>2, <1>7 DEF Has, Fields
<1>10. l \in 0 .. c - 1 /\ m \in 0 .. c - 1 /\ DOMAIN b = 0 .. c - 1
  BY <1>1, <1>2, <1>3, <1>6
<1>11. /\ DOMAIN u.buffer = 0 .. c - 1 /\ u.buffer[l] = b[m] /\ u.buffer[m] = b[l]
       /\ \A x \in 0 .. c - 1 : x # l /\ x # m => u.buffer[x] = b[x]
  BY <1>9, <1>10 DEF Swapped
<1>12. Around(c, h, z, l) <=> Around(c, h, z, m)
  <2>1. /\ h < c /\ t <= c /\ z <= c
        /\ h + z = t \/ h + z = t + c \/ (z = 0 /\ h = 0 /\ t = c)
    BY <1>1 DEF Fits
  <2> QED BY <1>3, <1>4, <1>6, <2>1 DEF Around
<1>13. \A q \in 0 .. z - 1 : Spot(c, h, q) \in 0 .. c - 1 /\ Around(c, h, z, Spot(c, h, q))
  BY <1>1, SpotsDiffer DEF Fits
<1>14. CASE ~ Around(c, h, z, l)
  <2>1. ASSUME NEW q \in 0 .. z - 1 PROVE u.buffer[Spot(c, h, q)] = f[q + 1]
    <3>1. Spot(c, h, q) # l /\ Spot(c, h, q) # m
      BY <1>12, <1>13, <1>14
    <3> QED BY <1>1, <1>2, <1>11, <1>13, <3>1 DEF Shows
  <2>2. Shows(u.buffer, c, h, z, f)
    BY <2>1 DEF Shows
  <2>3. Contents(u) = f
    BY <1>1, <1>9, <1>11, <2>2, WholeShows
  <2> QED BY <1>1, <1>8, <2>3, NextContents
<1>15. CASE Around(c, h, z, l)
  <2>1. PICK x \in 0 .. z - 1 : Spot(c, h, x) = l
    <3> DEFINE x == IF h <= l THEN l - h ELSE l + c - h
    <3>1. x \in 0 .. z - 1 /\ Spot(c, h, x) = l
      BY <1>1, <1>3, <1>15 DEF Fits, Around, Spot
    <3> QED BY <3>1
  <2>2. PICK y \in 0 .. z - 1 : Spot(c, h, y) = m
    <3> DEFINE y == IF h <= m THEN m - h ELSE m + c - h
    <3>1. y \in 0 .. z - 1 /\ Spot(c, h, y) = m
      BY <1>1, <1>10, <1>12, <1>15 DEF Fits, Around, Spot
    <3> QED BY <3>1
  <2>3. PICK o : o = [i \in 1 .. z |-> IF i = x + 1 THEN y + 1
                                       ELSE IF i = y + 1 THEN x + 1 ELSE i]
    OBVIOUS
  <2>4. Permutes(o, z)
    BY <2>3 DEF Permutes
  <2>5. PICK g : g = [i \in 1 .. z |-> f[o[i]]]
    OBVIOUS
  <2>6. ASSUME NEW i \in 1 .. z PROVE f[o[i]] \in Value
    <3>1. o[i] \in 1 .. Len(f)
      BY <1>1, <2>4 DEF Permutes
    <3> QED BY <3>1, ElementOfSeq
  <2>7. g \in Seq(Value) /\ Len(g) = z /\ IsPermuted(g, f, o, z)
    BY <2>5, <2>6 DEF IsPermuted
  <2>8. ASSUME NEW q \in 0 .. z - 1 PROVE u.buffer[Spot(c, h, q)] = g[q + 1]
    <3>0. \A k \in 0 .. z - 1 : b[Spot(c, h, k)] = f[k + 1]
      BY <1>1, <1>2 DEF Shows
    <3>1. q + 1 \in 1 .. z
      OBVIOUS
    <3>2. CASE q = x
      <4>1. g[q + 1] = f[y + 1]
        BY <2>3, <2>5, <3>1, <3>2
      <4> QED BY <1>11, <2>1, <2>2, <3>0, <3>2, <4>1
    <3>3. CASE q # x /\ q = y
      <4>1. g[q + 1] = f[x + 1]
        BY <2>3, <2>5, <3>1, <3>3
      <4> QED BY <1>11, <2>1, <2>2, <3>0, <3>3, <4>1
    <3>4. CASE q # x /\ q # y
      <4>1. g[q + 1] = f[q + 1]
        BY <2>3, <2>5, <3>1, <3>4
      <4>2. Spot(c, h, q) # l /\ Spot(c, h, q) # m
        BY <1>1, <2>1, <2>2, <3>4, SpotsDiffer DEF Fits
      <4> QED BY <1>11, <1>13, <3>0, <4>1, <4>2
    <3> QED BY <3>2, <3>3, <3>4
  <2>9. Shows(u.buffer, c, h, z, g)
    BY <2>8 DEF Shows
  <2>10. Contents(u) = g
    BY <1>1, <1>9, <1>11, <2>7, <2>9, WholeShows
  <2>11. Contents(seq)' = g /\ seq.size = z
    BY <1>1, <1>8, <2>10, NextContents DEF Has
  <2> QED BY <1>1, <2>4, <2>7, <2>11, PermutedRearranges
<1> QED BY <1>14, <1>15

-----------------------------------------------------------------------------
LEMMA InitEmpty == Init => VS!Init
<1> SUFFICES ASSUME Init PROVE VS!Init
  OBVIOUS
<1>1. Sound(seq) /\ seq.size = 0
  BY FreshSound, CapacityAssumption DEF Init, Fresh, FromBuffer
<1>2. PICK f \in Seq(Value) : f = Contents(seq) /\ Len(f) = 0
  BY <1>1, ContentsAreValues
<1>3. f = << >>
  BY <1>2
<1> QED BY <1>2, <1>3 DEF VS!Init

LEMMA LoopRearranges ==
  ASSUME IInv, Loop
  PROVE  VS!Next \/ UNCHANGED Contents(seq)
BY ReverseSwapRearranges, RotateRearranges, BeginEndStutters DEF Loop

\* ImplementsValueSequence: the ring buffer is a sequence of values, whatever
\* the capacities and the sizes: every operation, and every turn of the loops of
\* reverse and rotate, does to the values from head on what the abstract
\* operation does to a sequence, or nothing at all (ds_seq.c:126-566).
THEOREM RefinesValueSequence == Spec => ImplementsValueSequence
<1>1. ASSUME IInv, IInv', [Next]_vars
      PROVE  VS!Next \/ UNCHANGED Contents(seq)
  <2>1. CASE \E v \in Value : Push(v)
    BY <1>1, <2>1, PushInserts
  <2>2. CASE \E p \in 0 .. seq.size, vs \in Args : Insert(p, vs)
    BY <1>1, <2>2, InsertInserts
  <2>3. CASE \E p \in Position : Remove(p)
    BY <1>1, <2>3, RemoveRemoves
  <2>4. CASE PopLast
    BY <1>1, <2>4, PopLastRemoves
  <2>5. CASE \/ \E p \in Position, v \in Value : Set(p, v)
             \/ \E f \in [Position -> Value] : Apply(f) \/ TakeMap(f)
    BY <1>1, <2>5, ValuesChange
  <2>6. CASE Clear
    BY <2>6, ClearKeepsNothing
  <2>7. CASE (\E n \in 0 .. MaxSize : EnsureCapacity(n)) \/ Join \/ TakeClone
    BY <1>1, <2>7, LayoutStutters
  <2>8. CASE \E p \in Shuffles(seq.size) : Sort(p)
    BY <1>1, <2>8, SortRearranges
  <2>9. CASE ReverseRange \/ TakeReversed
    BY <1>1, <2>9, ReverseRangeRearranges, TakeReversedRearranges
  <2>10. CASE Loop
    BY <1>1, <2>10, LoopRearranges
  <2>11. CASE \E S \in SUBSET (1 .. seq.size) : TakeFilter(S)
    BY <1>1, <2>11, TakeFilterKeeps
  <2>12. CASE \E p, n \in 0 .. seq.size : TakeSlice(p, n)
    BY <1>1, <2>12, TakeSliceKeeps
  <2>13. CASE ReverseBegin \/ Stopped \/ UNCHANGED vars
              \/ (\E n \in -MaxTurns .. MaxTurns : RotateBegin(n))
    BY <2>13, BeginEndStutters
  <2> QED BY <1>1, <2>1, <2>2, <2>3, <2>4, <2>5, <2>6, <2>7, <2>8, <2>9, <2>10,
             <2>11, <2>12, <2>13 DEF Next
<1>2. IInv /\ [Next]_vars => [VS!Next]_(Contents(seq))
  BY <1>1, NextHolds
<1> QED BY <1>2, InitEmpty, Invariant, PTL DEF Spec, ImplementsValueSequence, VS!Spec

-----------------------------------------------------------------------------
(* The cells outside of the window: an operator fills them with Hole, or   *)
(* leaves there what lay in some cell before.                              *)

Legible(b, c) == b \in [0 .. c - 1 -> Value \union {Hole}]

Bare(b, c, h, z) == \A i \in 0 .. c - 1 : ~ Around(c, h, z, i) => b[i] = Hole

Typed(s) == Legible(s.buffer, s.capacity)

Clean(s) == Bare(s.buffer, s.capacity, s.head, s.size)

LEMMA MoveLegible ==
  ASSUME NEW c \in Nat, NEW b, Legible(b, c), NEW dst \in Int, NEW src \in Nat,
         NEW n \in Int, src + n <= c
  PROVE  Legible(Move(b, dst, src, n), c)
<1>1. PICK g : g = Move(b, dst, src, n)
  OBVIOUS
<1>2. MovedTo(g, b, dst, src, n) /\ DOMAIN b = 0 .. c - 1
  BY <1>1, MovedCells DEF Legible
<1>3. ASSUME NEW i \in 0 .. c - 1 PROVE g[i] \in Value \union {Hole}
  <2>1. CASE dst <= i /\ i < dst + n
    <3>1. src + i - dst \in 0 .. c - 1
      BY <2>1
    <3>2. g[i] = b[src + i - dst]
      BY <1>2, <2>1 DEF MovedTo
    <3> QED BY <3>1, <3>2 DEF Legible
  <2>2. CASE ~ (dst <= i /\ i < dst + n)
    BY <1>2, <2>2 DEF MovedTo, Legible
  <2> QED BY <2>1, <2>2
<1>4. g = [i \in DOMAIN g |-> g[i]] /\ DOMAIN g = 0 .. c - 1
  BY <1>1, <1>2 DEF Move
<1> QED BY <1>1, <1>3, <1>4 DEF Legible

LEMMA FillLegible ==
  ASSUME NEW c \in Nat \ {0}, NEW b, Legible(b, c), NEW i \in 0 .. c - 1,
         NEW vs \in Seq(Value), Len(vs) <= c
  PROVE  Legible(Filled(b, i, vs, c), c)
<1>1. PICK g : g = Filled(b, i, vs, c)
  OBVIOUS
<1>2. PICK n \in 0 .. c : n = Len(vs)
  OBVIOUS
<1>3. FilledAt(g, b, c, i, n)
  BY <1>1, <1>2, FilledCells DEF Legible
<1> QED BY <1>1, <1>3 DEF FilledAt, Legible

LEMMA FrontCells ==
  ASSUME NEW s, Sound(s), Typed(s), s.head # 0
  PROVE  /\ Legible(FrontBuffer(s), s.capacity)
         /\ (/\ s.head >= s.tail /\ ~ RoomBetween(s.head, s.tail, s.capacity - s.head)
             /\ s.size > 0 \/ Clean(s)) => Bare(FrontBuffer(s), s.capacity, 0, s.size)
<1>1. PICK c \in Nat \ {0}, h \in Nat, t \in Nat, z \in Nat :
        /\ Has(s, c, h, t, z) /\ c \in Capacities
        /\ Fits(c, h, t, z) /\ Fills(s.buffer, c, h, z)
  BY Parts
<1>2. PICK r \in Nat : r = c - h
  BY <1>1 DEF Fits
<1>3. PICK b : b = s.buffer
  OBVIOUS
<1>4. Legible(b, c) /\ h # 0 /\ h < c /\ t <= c /\ (h + z = t \/ h + z = t + c)
  BY <1>1, <1>3 DEF Has, Typed, Fits
<1>5. FrontBuffer(s) = IF h < t THEN Move(b, 0, h, z)
                       ELSE IF RoomBetween(h, t, r) THEN Move(Move(b, r, 0, t), 0, h, r)
                       ELSE [i \in 0 .. c - 1 |->
                               IF i < r THEN b[h + i] ELSE IF i < r + t THEN b[i - r] ELSE Hole]
  BY <1>1, <1>2, <1>3 DEF FrontBuffer, Has
<1>6. CASE h < t
  <2>1. h + z <= c
    BY <1>1, <1>4, <1>6 DEF Fits
  <2>2. Legible(FrontBuffer(s), c)
    BY <1>4, <1>5, <1>6, <2>1, MoveLegible
  <2> QED BY <1>1, <1>6, <2>2 DEF Has
<1>7. CASE ~ (h < t) /\ RoomBetween(h, t, r)
  <2>1. 0 + t <= c /\ h + r <= c
    BY <1>2, <1>4
  <2>2. PICK m : m = Move(b, r, 0, t)
    OBVIOUS
  <2>3. Legible(m, c)
    BY <1>4, <2>1, <2>2, MoveLegible
  <2>4. Legible(Move(m, 0, h, r), c)
    BY <2>1, <2>3, MoveLegible
  <2>5. Legible(FrontBuffer(s), c)
    BY <1>5, <1>7, <2>2, <2>4
  <2> QED BY <1>1, <1>2, <1>7, <2>5 DEF Has
<1>8. CASE ~ (h < t) /\ ~ RoomBetween(h, t, r)
  <2>1. PICK g : g = [i \in 0 .. c - 1 |->
                        IF i < r THEN b[h + i] ELSE IF i < r + t THEN b[i - r] ELSE Hole]
    OBVIOUS
  <2>2. \A i \in 0 .. c - 1 :
          /\ i < r => g[i] = b[h + i] /\ h + i \in 0 .. c - 1
          /\ r <= i /\ i < r + t => g[i] = b[i - r] /\ i - r \in 0 .. c - 1
          /\ r + t <= i => g[i] = Hole
    BY <1>2, <1>4, <2>1
  <2>3. Legible(g, c)
    BY <1>4, <2>1, <2>2 DEF Legible
  <2>4. ASSUME z > 0 PROVE Bare(g, c, 0, z)
    <3>1. z = r + t
      BY <1>2, <1>4, <1>8, <2>4
    <3>2. \A i \in 0 .. c - 1 : ~ Around(c, 0, z, i) => r + t <= i
      BY <3>1 DEF Around
    <3> QED BY <2>2, <3>2 DEF Bare
  <2>5. ASSUME ~ (z > 0), Bare(b, c, h, z) PROVE Bare(g, c, 0, z)
    <3>1. z = 0
      BY <2>5
    <3>2. \A i \in 0 .. c - 1 : ~ Around(c, h, z, i)
      BY <1>4, <3>1 DEF Around
    <3>3. \A i \in 0 .. c - 1 : b[i] = Hole
      BY <2>5, <3>2 DEF Bare
    <3>4. \A i \in 0 .. c - 1 : g[i] = Hole
      BY <2>2, <3>3
    <3> QED BY <3>4 DEF Bare
  <2>6. FrontBuffer(s) = g
    BY <1>5, <1>8, <2>1
  <2> QED BY <1>1, <1>2, <1>3, <1>8, <2>3, <2>4, <2>5, <2>6 DEF Has, Clean
<1> QED BY <1>6, <1>7, <1>8

LEMMA ResetHeadCells ==
  ASSUME NEW s, Sound(s), Typed(s)
  PROVE  /\ Typed(ResetHead(s))
         /\ IF s.head = 0 THEN Clean(s) => Clean(ResetHead(s))
            ELSE (/\ s.head >= s.tail /\ ~ RoomBetween(s.head, s.tail, s.capacity - s.head)
                  /\ s.size > 0 \/ Clean(s)) => Clean(ResetHead(s))
<1>1. CASE s.head = 0
  BY <1>1 DEF ResetHead
<1>2. CASE s.head # 0
  <2>1. PICK u : u = ResetHead(s)
    OBVIOUS
  <2>2. /\ u.buffer = FrontBuffer(s) /\ u.head = 0
        /\ u.size = s.size /\ u.capacity = s.capacity
    BY <1>2, <2>1 DEF ResetHead, Sound, Shaped, Fields
  <2> QED BY <1>2, <2>1, <2>2, FrontCells DEF Typed, Clean
<1> QED BY <1>1, <1>2

LEMMA ReallocateCells ==
  ASSUME NEW s, Sound(s), Typed(s), NEW c \in Capacities, s.size <= c
  PROVE  /\ Typed(Reallocate(s, c))
         /\ Full(s) => Clean(Reallocate(s, c))
<1>1. PICK u, b : u = Reallocate(s, c) /\ b = ResetHead(s).buffer
  OBVIOUS
<1>2. /\ u.buffer = [i \in 0 .. c - 1 |-> IF i < s.capacity THEN b[i] ELSE Hole]
      /\ u.capacity = c /\ u.head = 0 /\ u.size = s.size
  BY <1>1 DEF Reallocate
<1>3. Legible(b, s.capacity)
  <2>1. ResetHead(s).capacity = s.capacity
    BY ResetHeadSound
  <2> QED BY <1>1, <2>1, ResetHeadCells DEF Typed
<1>4. s.capacity \in Nat \ {0} /\ s.size \in Nat /\ c \in Nat \ {0}
  BY Bounds, PositiveCapacities DEF Sound
<1>5. Typed(u)
  BY <1>2, <1>3, <1>4 DEF Typed, Legible
<1>6. ASSUME Full(s) PROVE Clean(u)
  <2>1. \A i \in 0 .. c - 1 : ~ Around(c, 0, s.size, i) => ~ (i < s.capacity)
    BY <1>4, <1>6 DEF Full, Around
  <2> QED BY <1>2, <2>1 DEF Clean, Bare
<1> QED BY <1>1, <1>5, <1>6

LEMMA AutoTruncateCells ==
  ASSUME NEW s, Sound(s), Typed(s)
  PROVE  /\ Typed(AutoTruncate(s))
         /\ ~ Truncates(s) /\ Clean(s) => Clean(AutoTruncate(s))
<1>1. CASE Truncates(s)
  <2>1. PICK d : d = s.capacity \div 2
    OBVIOUS
  <2>2. s.capacity \in Nat \ {0} /\ s.size \in Nat /\ s.capacity \in Capacities
    BY Bounds DEF Sound, Shaped
  <2>3. s.size <= s.capacity \div 4 /\ d >= MinCapacity
    BY <1>1, <2>1 DEF Truncates
  <2>4. s.capacity \div 4 <= s.capacity \div 2 /\ s.capacity \div 4 \in Int /\ d \in Int
    BY <2>1, <2>2
  <2>5. s.size <= d
    BY <2>1, <2>2, <2>3, <2>4
  <2>6. d \in Capacities
    BY <2>1, <2>2, <2>3, CapacityAssumption
  <2>7. AutoTruncate(s) = Reallocate(s, d)
    BY <1>1, <2>1 DEF AutoTruncate
  <2> QED BY <1>1, <2>5, <2>6, <2>7, ReallocateCells
<1>2. CASE ~ Truncates(s)
  BY <1>2 DEF AutoTruncate
<1> QED BY <1>1, <1>2

LEMMA PushedCells ==
  ASSUME NEW s, Sound(s), Typed(s), NEW vs \in Seq(Value),
         s.tail # s.capacity, s.size + Len(vs) <= s.capacity
  PROVE  Typed(Pushed(s, vs)) /\ (Clean(s) => Clean(Pushed(s, vs)))
<1>0. PICK b, u : b = s.buffer /\ u = Pushed(s, vs)
  OBVIOUS
<1>1. PICK c \in Nat \ {0}, h \in Nat, t \in Nat, z \in Nat :
        /\ Has(s, c, h, t, z) /\ c \in Capacities
        /\ Fits(c, h, t, z) /\ Fills(s.buffer, c, h, z)
  BY Parts
<1>2. PICK n \in Nat : n = Len(vs)
  OBVIOUS
<1>3. Legible(b, c) /\ t < c /\ z + n <= c /\ h < c /\ (h + z = t \/ h + z = t + c)
  BY <1>0, <1>1, <1>2 DEF Has, Typed, Fits
<1>4. u.buffer = Filled(b, t, vs, c) /\ u.capacity = c /\ u.head = h /\ u.size = z + n
  BY <1>0, <1>1, <1>2 DEF Pushed, Has, Fields
<1>5. t \in 0 .. c - 1 /\ n \in 0 .. c /\ Len(vs) <= c /\ DOMAIN b = 0 .. c - 1
  BY <1>2, <1>3 DEF Legible
<1>6. Typed(u)
  BY <1>3, <1>4, <1>5, FillLegible DEF Typed
<1>7. FilledAt(u.buffer, b, c, t, n)
  BY <1>2, <1>4, <1>5, FilledCells
<1>8. ASSUME Bare(b, c, h, z) PROVE Clean(u)
  <2>1. ASSUME NEW j \in 0 .. c - 1, ~ Around(c, h, z + n, j)
        PROVE  ~ Around(c, t, n, j) /\ ~ Around(c, h, z, j)
    BY <1>3, <2>1 DEF Around
  <2> QED BY <1>4, <1>7, <1>8, <2>1 DEF Clean, Bare, FilledAt
<1> QED BY <1>0, <1>1, <1>2, <1>6, <1>8 DEF Clean, Has

LEMMA UnshiftedCells ==
  ASSUME NEW s, Sound(s), Typed(s), NEW vs \in Seq(Value),
         s.size + Len(vs) <= s.capacity
  PROVE  Typed(Unshifted(s, vs)) /\ (Clean(s) => Clean(Unshifted(s, vs)))
<1>0. PICK b, u : b = s.buffer /\ u = Unshifted(s, vs)
  OBVIOUS
<1>1. PICK c \in Nat \ {0}, h \in Nat, t \in Nat, z \in Nat :
        /\ Has(s, c, h, t, z) /\ c \in Capacities
        /\ Fits(c, h, t, z) /\ Fills(s.buffer, c, h, z)
  BY Parts
<1>2. PICK n \in Nat : n = Len(vs)
  OBVIOUS
<1>3. Legible(b, c) /\ z + n <= c /\ h < c
  BY <1>0, <1>1, <1>2 DEF Has, Typed, Fits
<1>4. PICK k \in Int : k = (h - n) % c
  OBVIOUS
<1>5. k = IF h < n THEN h - n + c ELSE h - n
  <2>1. CASE h < n
    BY <1>3, <1>4, <2>1
  <2>2. CASE n <= h
    BY <1>3, <1>4, <2>2
  <2> QED BY <2>1, <2>2
<1>6. u.buffer = Filled(b, k, vs, c) /\ u.capacity = c /\ u.head = k /\ u.size = z + n
  BY <1>0, <1>1, <1>2, <1>4 DEF Unshifted, Has, Fields
<1>7. k \in 0 .. c - 1 /\ n \in 0 .. c /\ Len(vs) <= c /\ DOMAIN b = 0 .. c - 1
  BY <1>2, <1>3, <1>5 DEF Legible
<1>8. Typed(u)
  BY <1>3, <1>6, <1>7, FillLegible DEF Typed
<1>9. FilledAt(u.buffer, b, c, k, n)
  BY <1>2, <1>6, <1>7, FilledCells
<1>10. ASSUME Bare(b, c, h, z) PROVE Clean(u)
  <2>1. ASSUME NEW j \in 0 .. c - 1, ~ Around(c, k, z + n, j)
        PROVE  ~ Around(c, k, n, j) /\ ~ Around(c, h, z, j)
    BY <1>3, <1>5, <2>1 DEF Around
  <2> QED BY <1>6, <1>9, <1>10, <2>1 DEF Clean, Bare, FilledAt
<1> QED BY <1>0, <1>1, <1>2, <1>8, <1>10 DEF Clean, Has

LEMMA ShiftedCells ==
  ASSUME NEW s, Sound(s), Typed(s), s.size > 0
  PROVE  /\ Typed(Shifted(s))
         /\ (Clean(s) /\ ~ Truncates([s EXCEPT !.size = @ - 1])) => Clean(Shifted(s))
<1>1. PICK c \in Nat \ {0}, h \in Nat, t \in Nat, z \in Nat :
        /\ Has(s, c, h, t, z) /\ c \in Capacities
        /\ Fits(c, h, t, z) /\ Fills(s.buffer, c, h, z)
  BY Parts
<1>2. PICK b, u : /\ b = s.buffer /\ Sound(u) /\ Shifted(s) = AutoTruncate(u)
                  /\ u.capacity = s.capacity /\ u.head = (s.head + 1) % s.capacity
                  /\ u.size = s.size - 1 /\ u.buffer = [b EXCEPT ![s.head] = Hole]
  BY ShiftedBefore
<1>3. PICK k \in Int : k = (h + 1) % c
  OBVIOUS
<1>4. h < c /\ z <= c /\ z > 0
  BY <1>1 DEF Fits, Has
<1>5. k = IF h + 1 < c THEN h + 1 ELSE 0
  <2>1. CASE h + 1 < c
    BY <1>3, <2>1
  <2>2. CASE c = h + 1
    BY <1>3, <2>2
  <2> QED BY <1>4, <2>1, <2>2
<1>6. /\ Legible(b, c) /\ u.buffer = [b EXCEPT ![h] = Hole]
      /\ u.capacity = c /\ u.head = k /\ u.size = z - 1
  BY <1>1, <1>2, <1>3 DEF Has, Typed
<1>7. Typed(u)
  BY <1>6 DEF Typed, Legible
<1>8. ASSUME Bare(b, c, h, z) PROVE Clean(u)
  <2>1. ASSUME NEW j \in 0 .. c - 1, ~ Around(c, k, z - 1, j)
        PROVE  j = h \/ ~ Around(c, h, z, j)
    BY <1>4, <1>5, <2>1 DEF Around
  <2> QED BY <1>6, <1>8, <2>1 DEF Clean, Bare, Legible
<1>9. Clean(s) <=> Bare(b, c, h, z)
  BY <1>1, <1>2 DEF Clean, Has
<1>10. Truncates(u) <=> Truncates([s EXCEPT !.size = @ - 1])
  BY <1>1, <1>2 DEF Truncates, Has, Fields
<1> QED BY <1>2, <1>7, <1>8, <1>9, <1>10, AutoTruncateCells

LEMMA PoppedCells ==
  ASSUME NEW s, Sound(s), Typed(s), s.size > 0
  PROVE  /\ Typed(Popped(s))
         /\ (Clean(s) /\ ~ Truncates([s EXCEPT !.size = @ - 1])) => Clean(Popped(s))
<1>1. PICK c \in Nat \ {0}, h \in Nat, t \in Nat, z \in Nat :
        /\ Has(s, c, h, t, z) /\ c \in Capacities
        /\ Fits(c, h, t, z) /\ Fills(s.buffer, c, h, z)
  BY Parts
<1>2. PICK b, u : /\ b = s.buffer /\ Sound(u) /\ Popped(s) = AutoTruncate(u)
                  /\ u.capacity = s.capacity /\ u.head = s.head /\ u.size = s.size - 1
                  /\ u.buffer = [b EXCEPT ![(s.tail - 1) % s.capacity] = Hole]
  BY PoppedBefore
<1>3. PICK k \in Int : k = (t - 1) % c
  OBVIOUS
<1>4. h < c /\ z <= c /\ z > 0 /\ t <= c /\ (h + z = t \/ h + z = t + c)
  BY <1>1 DEF Fits, Has
<1>5. k = IF t = 0 THEN c - 1 ELSE t - 1
  <2>1. CASE t = 0
    BY <1>3, <2>1
  <2>2. CASE t # 0
    BY <1>3, <1>4, <2>2
  <2> QED BY <2>1, <2>2
<1>6. /\ Legible(b, c) /\ u.buffer = [b EXCEPT ![k] = Hole]
      /\ u.capacity = c /\ u.head = h /\ u.size = z - 1
  BY <1>1, <1>2, <1>3 DEF Has, Typed
<1>7. Typed(u)
  BY <1>6 DEF Typed, Legible
<1>8. ASSUME Bare(b, c, h, z) PROVE Clean(u)
  <2>1. ASSUME NEW j \in 0 .. c - 1, ~ Around(c, h, z - 1, j)
        PROVE  j = k \/ ~ Around(c, h, z, j)
    BY <1>4, <1>5, <2>1 DEF Around
  <2> QED BY <1>6, <1>8, <2>1 DEF Clean, Bare, Legible
<1>9. Clean(s) <=> Bare(b, c, h, z)
  BY <1>1, <1>2 DEF Clean, Has
<1>10. Truncates(u) <=> Truncates([s EXCEPT !.size = @ - 1])
  BY <1>1, <1>2 DEF Truncates, Has, Fields
<1> QED BY <1>2, <1>7, <1>8, <1>9, <1>10, AutoTruncateCells

LEMMA ClosedCells ==
  ASSUME NEW s, Sound(s), Typed(s), NEW p \in 1 .. s.size - 2,
         ~ Overreads(s, Cell(s, p))
  PROVE  /\ Typed(Closed(s, Cell(s, p)))
         /\ (Clean(s) /\ Cell(s, p) < s.tail /\ ~ Full(s)
               /\ ~ Truncates([s EXCEPT !.size = @ - 1])) =>
              Clean(Closed(s, Cell(s, p)))
<1>1. PICK c \in Nat \ {0}, h \in Nat, t \in Nat, z \in Nat :
        /\ Has(s, c, h, t, z) /\ c \in Capacities
        /\ Fits(c, h, t, z) /\ Fills(s.buffer, c, h, z)
  BY Parts
<1>2. p \in 1 .. z - 2 /\ p \in 0 .. z - 1 /\ h < c /\ t <= c /\ z <= c
      /\ (h + z = t \/ h + z = t + c)
  BY <1>1 DEF Has, Fits
<1>3. PICK i \in Nat : i = Cell(s, p) /\ i = IF h + p < c THEN h + p ELSE h + p - c
  BY <1>1, <1>2, CellPicked
<1>4. PICK b, u : /\ b = s.buffer /\ Sound(u) /\ Closed(s, Cell(s, p)) = AutoTruncate(u)
                  /\ u.capacity = s.capacity /\ u.size = s.size - 1
                  /\ IF Cell(s, p) < s.tail
                     THEN /\ u.buffer = Move(b, Cell(s, p), Cell(s, p) + 1, s.tail - Cell(s, p))
                          /\ u.head = s.head
                     ELSE /\ u.buffer = Move(b, s.head + 1, s.head, Cell(s, p) - s.head)
                          /\ u.head = s.head + 1
  BY ClosedBefore
<1>5. Legible(b, c) /\ DOMAIN b = 0 .. c - 1 /\ u.capacity = c /\ u.size = z - 1
  BY <1>1, <1>4 DEF Has, Typed, Legible
<1>6. Truncates(u) <=> Truncates([s EXCEPT !.size = @ - 1])
  BY <1>1, <1>4 DEF Truncates, Has, Fields
<1>7. Clean(s) <=> Bare(b, c, h, z)
  BY <1>1, <1>4 DEF Clean, Has
<1>8. CASE i < t
  <2>1. t < c
    <3>1. t # c
      BY <1>1, <1>3, <1>8 DEF Overreads, Has
    <3> QED BY <1>2, <3>1
  <2>2. u.buffer = Move(b, i, i + 1, t - i) /\ u.head = h
    BY <1>1, <1>3, <1>4, <1>8 DEF Has
  <2>3. (i + 1) + (t - i) <= c /\ i + 1 \in Nat /\ t - i \in Int
    BY <2>1
  <2>4. Typed(u)
    BY <1>5, <2>2, <2>3, MoveLegible DEF Typed
  <2>5. MovedTo(u.buffer, b, i, i + 1, t - i)
    BY <1>5, <2>2, MovedCells
  <2>6. ASSUME Bare(b, c, h, z), z # c PROVE Clean(u)
    <3>1. ASSUME NEW j \in 0 .. c - 1, ~ Around(c, h, z - 1, j) PROVE u.buffer[j] = Hole
      <4>1. CASE i <= j /\ j < i + (t - i)
        <5>1. j + 1 \in 0 .. c - 1 /\ (i + 1) + j - i = j + 1 /\ ~ Around(c, h, z, j + 1)
          BY <1>2, <1>3, <1>8, <2>1, <2>6, <3>1, <4>1 DEF Around
        <5>2. u.buffer[j] = b[j + 1]
          BY <1>5, <2>5, <4>1, <5>1 DEF MovedTo
        <5> QED BY <2>6, <5>1, <5>2 DEF Bare
      <4>2. CASE ~ (i <= j /\ j < i + (t - i))
        <5>1. ~ Around(c, h, z, j)
          BY <1>2, <1>3, <1>8, <2>1, <2>6, <3>1, <4>2 DEF Around
        <5>2. u.buffer[j] = b[j]
          BY <1>5, <2>5, <4>2 DEF MovedTo
        <5> QED BY <2>6, <5>1, <5>2 DEF Bare
      <4> QED BY <4>1, <4>2
    <3> QED BY <1>5, <2>2, <3>1 DEF Clean, Bare
  <2>7. Full(s) <=> z = c
    BY <1>1 DEF Full, Has
  <2> QED BY <1>4, <1>6, <1>7, <2>4, <2>6, <2>7, AutoTruncateCells
<1>9. CASE ~ (i < t)
  <2>1. u.buffer = Move(b, h + 1, h, i - h)
    BY <1>1, <1>3, <1>4, <1>9 DEF Has
  <2>2. h + (i - h) <= c /\ h + 1 \in Int /\ i - h \in Int
    BY <1>2, <1>3
  <2>3. Typed(u)
    BY <1>5, <2>1, <2>2, MoveLegible DEF Typed
  <2>4. ~ (Cell(s, p) < s.tail)
    BY <1>1, <1>3, <1>9 DEF Has
  <2> QED BY <1>4, <2>3, <2>4, AutoTruncateCells
<1> QED BY <1>8, <1>9

LEMMA OpenedLeftCells ==
  ASSUME NEW s, Sound(s), Typed(s), NEW p \in 1 .. s.size - 1, NEW vs \in Seq(Value),
         s.size + Len(vs) <= s.capacity, Cell(s, p) > s.tail
  PROVE  LET u == OpenedLeft(s, Cell(s, p), vs) IN Typed(u) /\ (Clean(s) => Clean(u))
<1>1. PICK c \in Nat \ {0}, h \in Nat, t \in Nat, z \in Nat :
        /\ Has(s, c, h, t, z) /\ c \in Capacities
        /\ Fits(c, h, t, z) /\ Fills(s.buffer, c, h, z)
  BY Parts
<1>2. PICK n \in Nat : n = Len(vs)
  OBVIOUS
<1>3. p \in 1 .. z - 1 /\ p \in 0 .. z - 1 /\ z + n <= c /\ h < c
  BY <1>1, <1>2 DEF Has, Fits
<1>4. PICK i \in Nat : i = Cell(s, p) /\ i = IF h + p < c THEN h + p ELSE h + p - c
  BY <1>1, <1>3, CellPicked
<1>5. i = h + p /\ h + p < c /\ h + z = t + c /\ n <= h
  <2>1. i > t
    BY <1>1, <1>4 DEF Has
  <2> QED BY <1>1, <1>3, <1>4, <2>1 DEF Fits
<1>6. PICK b, u : b = s.buffer /\ u = OpenedLeft(s, Cell(s, p), vs)
  OBVIOUS
<1>7. PICK m : m = Move(b, h - n, h, p)
  OBVIOUS
<1>8. /\ u.buffer = Filled(m, i - n, vs, c) /\ u.capacity = c
      /\ u.head = h - n /\ u.size = z + n
  <2>1. i - h = p
    BY <1>5
  <2> QED BY <1>1, <1>2, <1>4, <1>6, <1>7, <2>1 DEF OpenedLeft, Has, Fields
<1>9. Legible(b, c) /\ DOMAIN b = 0 .. c - 1
  BY <1>1, <1>6 DEF Typed, Has, Legible
<1>10. Legible(m, c)
  <2>1. h + p <= c /\ h - n \in Int /\ p \in Int
    BY <1>5
  <2> QED BY <1>7, <1>9, <2>1, MoveLegible
<1>11. i - n \in 0 .. c - 1 /\ n \in 0 .. c /\ Len(vs) <= c /\ DOMAIN m = 0 .. c - 1
  BY <1>2, <1>3, <1>5, <1>10 DEF Legible
<1>12. Typed(u)
  BY <1>8, <1>10, <1>11, FillLegible DEF Typed
<1>13. FilledAt(u.buffer, m, c, i - n, n)
  BY <1>2, <1>8, <1>11, FilledCells
<1>14. MovedTo(m, b, h - n, h, p)
  <2>1. h - n \in Int /\ p \in Int
    BY <1>3
  <2> QED BY <1>7, <1>9, <2>1, MovedCells
<1>15. ASSUME Bare(b, c, h, z) PROVE Clean(u)
  <2>1. ASSUME NEW j \in 0 .. c - 1, ~ Around(c, h - n, z + n, j) PROVE u.buffer[j] = Hole
    <3>1. ~ Around(c, i - n, n, j) /\ ~ Around(c, h, z, j) /\ ~ (h - n <= j /\ j < h - n + p)
      BY <1>3, <1>5, <2>1 DEF Around
    <3>2. u.buffer[j] = m[j] /\ m[j] = b[j]
      BY <1>9, <1>13, <1>14, <3>1 DEF FilledAt, MovedTo
    <3> QED BY <1>15, <3>1, <3>2 DEF Bare
  <2> QED BY <1>8, <2>1 DEF Clean, Bare
<1>16. Clean(s) <=> Bare(b, c, h, z)
  BY <1>1, <1>6 DEF Clean, Has
<1> QED BY <1>6, <1>12, <1>15, <1>16

LEMMA OpenedRightCells ==
  ASSUME NEW s, Sound(s), Typed(s), NEW p \in 1 .. s.size - 1, NEW vs \in Seq(Value),
         s.size + Len(vs) <= s.capacity, Cell(s, p) <= s.tail
  PROVE  LET u == OpenedRight(s, Cell(s, p), vs) IN
         Typed(u) /\ (Clean(s) /\ ~ OverflowsRight(s, Len(vs)) => Clean(u))
<1>1. PICK c \in Nat \ {0}, h \in Nat, t \in Nat, z \in Nat :
        /\ Has(s, c, h, t, z) /\ c \in Capacities
        /\ Fits(c, h, t, z) /\ Fills(s.buffer, c, h, z)
  BY Parts
<1>2. PICK n \in Nat : n = Len(vs)
  OBVIOUS
<1>3. p \in 1 .. z - 1 /\ p \in 0 .. z - 1 /\ z + n <= c /\ h < c
  BY <1>1, <1>2 DEF Has, Fits
<1>4. PICK i \in Nat : i = Cell(s, p) /\ i = IF h + p < c THEN h + p ELSE h + p - c
  BY <1>1, <1>3, CellPicked
<1>5. i <= t /\ ((h + z = t /\ i = h + p) \/ (h + z = t + c /\ i = h + p - c))
  <2>1. i <= t
    BY <1>1, <1>4 DEF Has
  <2> QED BY <1>1, <1>3, <1>4, <2>1 DEF Fits
<1>6. PICK b, u : b = s.buffer /\ u = OpenedRight(s, Cell(s, p), vs)
  OBVIOUS
<1>7. Legible(b, c) /\ DOMAIN b = 0 .. c - 1
  BY <1>1, <1>6 DEF Typed, Has, Legible
<1>8. Clean(s) <=> Bare(b, c, h, z)
  BY <1>1, <1>6 DEF Clean, Has
<1>9. CASE t + n <= c
  <2>1. ~ OverflowsRight(s, Len(vs))
    BY <1>1, <1>2, <1>9 DEF OverflowsRight, Has
  <2>2. PICK m : m = Move(b, i + n, i, t - i)
    OBVIOUS
  <2>3. u.buffer = Filled(m, i, vs, c) /\ u.capacity = c /\ u.head = h /\ u.size = z + n
    BY <1>1, <1>2, <1>4, <1>6, <2>1, <2>2 DEF OpenedRight, Has, Fields
  <2>4. i + (t - i) <= c /\ i + n \in Int /\ t - i \in Int
    BY <1>9
  <2>5. Legible(m, c)
    BY <1>7, <2>2, <2>4, MoveLegible
  <2>6. i \in 0 .. c - 1 /\ n \in 0 .. c /\ Len(vs) <= c /\ DOMAIN m = 0 .. c - 1
    BY <1>2, <1>3, <1>4, <2>5 DEF Legible
  <2>7. Typed(u)
    BY <2>3, <2>5, <2>6, FillLegible DEF Typed
  <2>8. FilledAt(u.buffer, m, c, i, n) /\ MovedTo(m, b, i + n, i, t - i)
    BY <1>2, <1>7, <2>2, <2>3, <2>4, <2>6, FilledCells, MovedCells
  <2>9. ASSUME Bare(b, c, h, z) PROVE Clean(u)
    <3>1. ASSUME NEW j \in 0 .. c - 1, ~ Around(c, h, z + n, j) PROVE u.buffer[j] = Hole
      <4>1. ~ Around(c, i, n, j) /\ ~ Around(c, h, z, j)
            /\ ~ (i + n <= j /\ j < i + n + (t - i))
        BY <1>3, <1>5, <1>9, <2>6, <3>1 DEF Around
      <4>2. u.buffer[j] = m[j] /\ m[j] = b[j]
        BY <1>7, <2>8, <4>1 DEF FilledAt, MovedTo
      <4> QED BY <2>9, <4>1, <4>2 DEF Bare
    <3> QED BY <2>3, <3>1 DEF Clean, Bare
  <2> QED BY <1>6, <1>8, <2>7, <2>9
<1>10. CASE t + n > c
  <2>1. OverflowsRight(s, Len(vs))
    BY <1>1, <1>2, <1>10 DEF OverflowsRight, Has
  <2>2. h + z = t /\ i = h + p /\ t <= c
    BY <1>1, <1>3, <1>5, <1>10 DEF Fits
  <2>3. PICK a, m : a = Move(b, 0, h, z) /\ m = Move(a, p + n, p, z - p)
    OBVIOUS
  <2>4. u.buffer = Filled(m, p, vs, c) /\ u.capacity = c
    <3>1. i - h = p
      BY <2>2
    <3> QED BY <1>1, <1>2, <1>4, <1>6, <2>1, <2>3, <3>1 DEF OpenedRight, Has, Fields
  <2>5. Legible(a, c)
    <3>1. h + z <= c
      BY <2>2
    <3> QED BY <1>7, <2>3, <3>1, MoveLegible
  <2>6. Legible(m, c)
    <3>1. p + (z - p) <= c /\ p + n \in Int /\ z - p \in Int /\ p \in Nat
      BY <1>3
    <3> QED BY <2>3, <2>5, <3>1, MoveLegible
  <2>7. p \in 0 .. c - 1 /\ Len(vs) <= c
    BY <1>2, <1>3
  <2>8. Typed(u)
    BY <2>4, <2>6, <2>7, FillLegible DEF Typed
  <2> QED BY <1>6, <2>1, <2>8
<1> QED BY <1>9, <1>10

LEMMA InsertedCells ==
  ASSUME NEW s, Sound(s), Typed(s), NEW p \in 1 .. s.size - 1, NEW vs \in Seq(Value),
         s.size + Len(vs) <= s.capacity
  PROVE  /\ Typed(Inserted(s, p, vs))
         /\ (Clean(s) /\ ~ (Cell(s, p) <= s.tail /\ OverflowsRight(s, Len(vs)))) =>
              Clean(Inserted(s, p, vs))
<1>1. p \in 0 .. s.size - 1
  BY Bounds DEF Sound
<1>2. Cell(s, p) \in Int /\ s.tail \in Int
  BY <1>1, CellOfPosition, Bounds DEF Sound, Cells
<1> QED BY <1>2, OpenedLeftCells, OpenedRightCells DEF Inserted

LEMMA FreshCells ==
  ASSUME NEW c \in Capacities
  PROVE  Typed(Fresh(c)) /\ Clean(Fresh(c))
<1>1. PICK u : u = Fresh(c)
  OBVIOUS
<1>2. u.buffer = [i \in 0 .. c - 1 |-> Hole] /\ u.capacity = c
  <2>1. \A i \in 0 .. c - 1 : ~ (i < Len(<< >>))
    BY PositiveCapacities
  <2> QED BY <1>1, <2>1 DEF Fresh, FromBuffer
<1> QED BY <1>1, <1>2 DEF Typed, Legible, Clean, Bare

LEMMA ClearedCells ==
  ASSUME NEW s, Sound(s), Typed(s)
  PROVE  Typed(Cleared(s)) /\ (Clean(s) /\ s.size = 0 => Clean(Cleared(s)))
<1>1. PICK c \in Nat \ {0}, m \in Nat \ {0} : c = s.capacity /\ m = MinCapacity /\ m <= c
  BY Bounds, CapacityAssumption DEF Sound, Shaped
<1>2. PICK u : u = Cleared(s)
  OBVIOUS
<1>3. u.buffer = [i \in 0 .. m - 1 |-> s.buffer[i]] /\ u.capacity = m
  BY <1>1, <1>2 DEF Cleared
<1>4. Typed(u)
  <2>1. \A i \in 0 .. m - 1 : s.buffer[i] \in Value \union {Hole}
    BY <1>1 DEF Typed, Legible
  <2> QED BY <1>3, <2>1 DEF Typed, Legible
<1>5. ASSUME Clean(s), s.size = 0 PROVE Clean(u)
  <2>1. \A i \in 0 .. c - 1 : ~ Around(c, s.head, 0, i)
    BY <1>1, Bounds DEF Sound, Around
  <2> QED BY <1>1, <1>3, <1>5, <2>1 DEF Clean, Bare
<1> QED BY <1>2, <1>4, <1>5

=============================================================================
