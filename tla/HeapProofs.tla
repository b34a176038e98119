------------------------------ MODULE HeapProofs -----------------------------
(***************************************************************************)
(* Proofs about DsHeap, for every set of values and ranking of them: push  *)
(* and pop keep the heap order and lose no value, so that the root is a    *)
(* greatest value, unless a comparator throws.  And about the slot through *)
(* which a heap finds its comparator (Comparator), for any heaps,          *)
(* callables, iterators and depth of nesting.                              *)
(***************************************************************************)
EXTENDS DsHeap, Comparator, ScanProofs

\* Indices below m are indices below any n that is no smaller.
LEMMA IndicesWithin ==
  \A m, n \in Nat :
    m <= n => /\ m \in 0 .. n
              /\ \A i \in 0 .. m - 1 : i \in 0 .. n - 1
              /\ 0 < n => 0 \in 0 .. n - 1
  OBVIOUS

\* The first index of a buffer is one of its indices.
LEMMA ZeroWithin == \A n \in Nat : 0 < n => 0 \in 0 .. n /\ 0 \in 0 .. n - 1
  OBVIOUS

\* A node lies below its parent, on its left or on its right.
LEMMA ParentFacts ==
  ASSUME NEW i \in Nat \ {0}
  PROVE  /\ Parent(i) \in Nat /\ Parent(i) < i
         /\ i = Left(Parent(i)) \/ i = Right(Parent(i))
  BY DEF Parent, Left, Right

\* Both children of a node have it as their parent.
LEMMA ChildFacts ==
  ASSUME NEW x \in Nat
  PROVE  /\ Left(x) \in Nat \ {0} /\ Right(x) \in Nat \ {0}
         /\ Parent(Left(x)) = x /\ Parent(Right(x)) = x
         /\ Left(x) > x /\ Right(x) > x /\ Left(x) < Right(x)
  BY DEF Parent, Left, Right

\* Above is a strict weak order on values.
LEMMA AboveOrder ==
  ASSUME NEW u \in Value, NEW v \in Value, NEW w \in Value
  PROVE  /\ ~Above(v, v)
         /\ Above(v, w) => ~Above(w, v)
         /\ ~Above(u, v) /\ ~Above(v, w) => ~Above(u, w)
<1>1. Ranking[u] \in Int /\ Ranking[v] \in Int /\ Ranking[w] \in Int
  BY ValueAssumption
<1> QED BY <1>1 DEF Above

\* A capacity is a positive number, and half of one that is large enough to be
\* halved is a capacity.
LEMMA CapacityFacts ==
  ASSUME NEW c \in Capacities
  PROVE  /\ c \in Nat \ {0} /\ MinCapacity \in Nat \ {0}
         /\ c \div 2 >= MinCapacity => c \div 2 \in Capacities
         /\ c < MaxSize => 2 * c \in Capacities
  BY CapacityAssumption, SizeAssumption

\* The capacity for n values exists and holds them.
LEMMA CapacityForFacts ==
  ASSUME NEW n \in 0 .. MaxSize
  PROVE  CapacityFor(n) \in Capacities /\ n <= CapacityFor(n)
<1> DEFINE S == {c \in Capacities : n <= c}
<1>1. S \subseteq Nat /\ S # {}
  BY SizeAssumption, CapacityAssumption
<1>2. PICK x \in S : \A y \in S : x <= y
  BY <1>1, LeastNat
<1>3. \E c \in Capacities : n <= c /\ \A d \in Capacities : n <= d => c <= d
  BY <1>2
<1> QED BY <1>3 DEF CapacityFor

\* A resized buffer keeps the nodes that still fit.
LEMMA ResizedFacts ==
  ASSUME NEW m \in Nat, NEW b \in [0 .. m - 1 -> Value \union {Empty}],
         NEW c \in Nat
  PROVE  /\ Resized(b, c) \in [0 .. c - 1 -> Value \union {Empty}]
         /\ \A i \in 0 .. c - 1 : i < m => Resized(b, c)[i] = b[i]
  BY DEF Resized

\* Compacting keeps a type-correct buffer and the n values it is told of.
LEMMA CompactFacts ==
  ASSUME capacity \in Capacities, NEW b \in [0 .. capacity - 1 -> Value \union {Empty}],
         NEW n \in 0 .. capacity, Compact(b, n)
  PROVE  /\ capacity' \in Capacities /\ n <= capacity'
         /\ nodes' \in [0 .. capacity' - 1 -> Value \union {Empty}]
         /\ \A i \in 0 .. n - 1 : nodes'[i] = b[i]
<1>1. capacity \in Nat \ {0}
  BY CapacityFacts
<1>2. CASE Compacts(n)
  <2>1. capacity' = capacity \div 2 /\ nodes' = Resized(b, capacity \div 2)
    BY <1>2 DEF Compact
  <2>2. capacity \div 2 \in Capacities /\ n <= capacity \div 2
    BY <1>1, <1>2, CapacityFacts DEF Compacts
  <2>3. capacity \div 2 \in Nat
    BY <1>1
  <2>4. capacity \in Nat /\ n \in Nat
    BY <1>1
  <2> DEFINE h == capacity \div 2
  <2>5. /\ Resized(b, h) \in [0 .. h - 1 -> Value \union {Empty}]
        /\ \A i \in 0 .. h - 1 : i < capacity => Resized(b, h)[i] = b[i]
    BY <2>3, <2>4, ResizedFacts
  <2>6. nodes' = Resized(b, h) /\ capacity' = h /\ h \in Nat /\ n <= h
    BY <2>1, <2>2, <2>3
  <2> HIDE DEF h
  <2>7. \A i \in 0 .. n - 1 : i \in 0 .. h - 1 /\ i < capacity
    BY <2>4, <2>6
  <2> QED BY <2>1, <2>2, <2>5, <2>6, <2>7 DEF h
<1>3. CASE ~Compacts(n)
  <2>1. capacity' = capacity /\ nodes' = Resized(b, capacity)
    BY <1>3 DEF Compact
  <2> QED BY <1>1, <2>1, ResizedFacts
<1> QED BY <1>2, <1>3

-----------------------------------------------------------------------------
(* Types and values: one lemma per action.                                 *)

Sound == TypeOK /\ NodesHoldValues

\* The facts about the state that every step starts from.
LEMMA SoundFacts ==
  ASSUME Sound
  PROVE  /\ capacity \in Nat \ {0} /\ size \in Nat /\ index \in Nat
         /\ size <= capacity /\ index < capacity
         /\ \A i \in Occupied : i \in 0 .. capacity - 1 /\ nodes[i] \in Value
         /\ pc = "idle" => Occupied = 0 .. size - 1
         /\ pc = "up" => Occupied = (0 .. size) \ {index} /\ size < capacity
         /\ pc = "down" => Occupied = (0 .. size - 1) \ {index}
         /\ pc # "idle" => held \in Value /\ index <= size
<1>1. capacity \in Nat \ {0}
  BY CapacityFacts DEF Sound, TypeOK
<1>2. size \in Nat /\ index \in Nat /\ size <= capacity /\ index < capacity
  BY <1>1 DEF Sound, TypeOK
<1>3. \A i \in Occupied : i \in 0 .. capacity - 1 /\ nodes[i] \in Value
  BY DEF Sound, TypeOK, NodesHoldValues
<1>4. pc # "idle" => held \in Value /\ index <= size
  BY <1>2 DEF Sound, TypeOK, NodesHoldValues
<1>5. pc = "idle" => Occupied = 0 .. size - 1
  BY DEF Occupied
<1>6. pc = "down" => Occupied = (0 .. size - 1) \ {index}
  BY DEF Occupied
<1>7. ASSUME pc = "up" PROVE Occupied = (0 .. size) \ {index} /\ size < capacity
  <2>1. Occupied = (0 .. size) \ {index}
    BY <1>7 DEF Occupied
  <2>2. CASE index = size
    BY <1>2, <2>1, <2>2
  <2>3. CASE index # size
    <3>1. size \in Occupied
      BY <1>2, <2>1, <2>3
    <3> QED BY <1>1, <1>2, <1>3, <2>1, <3>1
  <2> QED BY <2>2, <2>3
<1> QED BY <1>1, <1>2, <1>3, <1>4, <1>5, <1>6, <1>7

\* A push makes room for one more node.
LEMMA PushBeginSound ==
  ASSUME Sound, NEW v \in Value, PushBegin(v)
  PROVE  /\ Sound'
         /\ \A i \in 0 .. size - 1 : nodes'[i] = nodes[i]
<1> USE DEF Sound
<1>1. /\ capacity \in Nat \ {0} /\ size \in Nat /\ size <= capacity
      /\ size < MaxSize /\ capacity \in Capacities /\ MaxSize \in Nat
      /\ Occupied = 0 .. size - 1
      /\ \A i \in Occupied : nodes[i] \in Value
  BY SoundFacts, SizeAssumption DEF PushBegin, TypeOK
<1>2. capacity' \in Capacities /\ size < capacity' /\ size <= capacity'
  BY <1>1, CapacityFacts DEF PushBegin
<1>3. capacity' \in Nat
  BY <1>2, CapacityFacts
<1>4. /\ nodes \in [0 .. capacity - 1 -> Value \union {Empty}]
      /\ nodes' = Resized(nodes, capacity')
  BY DEF TypeOK, PushBegin
<1>5. /\ nodes' \in [0 .. capacity' - 1 -> Value \union {Empty}]
      /\ \A i \in 0 .. capacity' - 1 : i < capacity => nodes'[i] = nodes[i]
  <2> DEFINE c == capacity'
             r == Resized(nodes, c)
  <2>1. c \in Nat /\ capacity \in Nat
    BY <1>1, <1>3
  <2> HIDE DEF c
  <2>2. /\ r \in [0 .. c - 1 -> Value \union {Empty}]
        /\ \A i \in 0 .. c - 1 : i < capacity => r[i] = nodes[i]
    BY <1>4, <2>1, ResizedFacts
  <2> QED BY <1>4, <2>2 DEF c
<1>6. \A i \in 0 .. size - 1 : nodes'[i] = nodes[i] /\ nodes[i] \in Value
                              /\ i \in 0 .. capacity' - 1
  <2>0. size \in Nat /\ capacity \in Nat /\ capacity' \in Nat /\ size <= capacity
    BY <1>1, <1>2, <1>3
  <2>1. \A i \in 0 .. size - 1 : i < capacity
    BY <2>0
  <2>2. size <= capacity'
    BY <1>2, <2>0
  <2>3. \A i \in 0 .. size - 1 : i \in 0 .. capacity' - 1
    BY <2>0, <2>2, IndicesWithin, Zenon
  <2> QED BY <1>1, <1>5, <2>1, <2>3
<1>7. TypeOK'
  BY <1>1, <1>2, <1>3, <1>5 DEF TypeOK, PushBegin
<1>8. Occupied' = 0 .. size - 1
  <2>1. Occupied' = (0 .. size) \ {size}
    BY DEF Occupied, PushBegin
  <2> QED BY <1>1, <2>1
<1>9. NodesHoldValues'
  BY <1>1, <1>6, <1>8, ValueAssumption DEF NodesHoldValues, PushBegin
<1> QED BY <1>6, <1>7, <1>9

\* The void node moves to the parent.
LEMMA SiftUpSound ==
  ASSUME Sound, SiftUp
  PROVE  /\ Sound'
         /\ Parent(index) \in Nat /\ Parent(index) < index
         /\ index \in 0 .. size /\ index' = Parent(index)
         /\ nodes'[index] = nodes[Parent(index)]
         /\ \A i \in 0 .. size : i # index => nodes'[i] = nodes[i]
<1> USE DEF Sound
<1> DEFINE p == Parent(index)
<1>1. /\ capacity \in Nat \ {0} /\ size \in Nat /\ size < capacity
      /\ index \in Nat \ {0} /\ index <= size
      /\ Occupied = (0 .. size) \ {index}
      /\ \A i \in Occupied : nodes[i] \in Value
      /\ held \in Value
  BY SoundFacts DEF SiftUp
<1>2. p \in Nat /\ p < index
  BY <1>1, ParentFacts
<1>3. /\ nodes \in [0 .. capacity - 1 -> Value \union {Empty}]
      /\ nodes' = [nodes EXCEPT ![index] = nodes[p]]
      /\ index \in 0 .. capacity - 1 /\ index' = p
      /\ UNCHANGED <<capacity, size, pc, held, spoiled>> /\ pc = "up"
  BY DEF TypeOK, SiftUp
<1> HIDE DEF p
<1>4. p \in Occupied /\ nodes[p] \in Value
  BY <1>1, <1>2
<1>5. nodes'[index] = nodes[p] /\ \A i \in 0 .. size : i # index => nodes'[i] = nodes[i]
  BY <1>1, <1>3
<1>6. TypeOK'
  BY <1>1, <1>2, <1>3, <1>4 DEF TypeOK
<1>7. Occupied' = (0 .. size) \ {p}
  BY <1>3 DEF Occupied
<1>8. \A i \in Occupied' : i \in 0 .. capacity - 1 /\ nodes'[i] \in Value
  BY <1>1, <1>4, <1>5, <1>7
<1>9. NodesHoldValues'
  BY <1>1, <1>2, <1>3, <1>8, ValueAssumption DEF NodesHoldValues
<1> QED BY <1>1, <1>2, <1>3, <1>5, <1>6, <1>9 DEF p

\* The pushed value fills the void node.
LEMMA PushPlaceSound ==
  ASSUME Sound, pc = "up", PushPlace, spoiled' \in BOOLEAN
  PROVE  /\ Sound'
         /\ nodes'[index] = held
         /\ \A i \in 0 .. size : i # index => nodes'[i] = nodes[i]
<1> USE DEF Sound
<1>1. /\ capacity \in Nat \ {0} /\ size \in Nat /\ size < capacity
      /\ index \in Nat /\ index <= size
      /\ Occupied = (0 .. size) \ {index}
      /\ \A i \in Occupied : nodes[i] \in Value
      /\ held \in Value
  BY SoundFacts
<1>2. /\ nodes \in [0 .. capacity - 1 -> Value \union {Empty}]
      /\ nodes' = [nodes EXCEPT ![index] = held]
      /\ index \in 0 .. capacity - 1 /\ index' = 0 /\ size' = size + 1
      /\ capacity' = capacity /\ pc' = "idle" /\ held' = Empty
  BY DEF TypeOK, PushPlace
<1>3. nodes'[index] = held /\ \A i \in 0 .. size : i # index => nodes'[i] = nodes[i]
  BY <1>1, <1>2
<1>4. TypeOK'
  BY <1>1, <1>2 DEF TypeOK
<1>5. Occupied' = 0 .. size
  BY <1>1, <1>2 DEF Occupied
<1>6. \A i \in 0 .. size : i \in 0 .. capacity - 1 /\ nodes'[i] \in Value
  BY <1>1, <1>3
<1>7. NodesHoldValues'
  BY <1>2, <1>5, <1>6, ValueAssumption DEF NodesHoldValues
<1> QED BY <1>3, <1>4, <1>7

\* The last value is taken up to be sifted down from the root.
LEMMA PopBeginSound ==
  ASSUME Sound, PopBegin
  PROVE  /\ Sound'
         /\ \A i \in 0 .. size - 2 : nodes'[i] = nodes[i]
<1> USE DEF Sound
<1>1. /\ capacity \in Nat \ {0} /\ size \in Nat /\ size <= capacity /\ size > 1
      /\ Occupied = 0 .. size - 1
      /\ \A i \in Occupied : nodes[i] \in Value
  BY SoundFacts DEF PopBegin
<1>2. /\ nodes \in [0 .. capacity - 1 -> Value \union {Empty}]
      /\ nodes' = [nodes EXCEPT ![size - 1] = Empty]
      /\ size' = size - 1 /\ capacity' = capacity /\ pc' = "down"
      /\ index' = 0 /\ held' = nodes[size - 1] /\ spoiled' = spoiled
  BY DEF TypeOK, PopBegin
<1>3. \A i \in 0 .. size - 2 : nodes'[i] = nodes[i]
  BY <1>1, <1>2
<1>4. held' \in Value
  BY <1>1, <1>2
<1>5. TypeOK'
  BY <1>1, <1>2, <1>4 DEF TypeOK
<1>6. Occupied' = (0 .. size - 2) \ {0}
  BY <1>1, <1>2 DEF Occupied
<1>7. \A i \in Occupied' : i \in 0 .. capacity - 1 /\ nodes'[i] \in Value
  BY <1>1, <1>3, <1>6
<1>8. NodesHoldValues'
  BY <1>1, <1>2, <1>4, <1>7, ValueAssumption DEF NodesHoldValues
<1> QED BY <1>3, <1>5, <1>8

\* The larger child is a child within the heap, and no smaller than the other.
LEMMA LargerChildFacts ==
  ASSUME Sound, pc = "down", HasChild
  PROVE  /\ LargerChild(index) \in 0 .. size - 1
         /\ LargerChild(index) > index
         /\ Parent(LargerChild(index)) = index
         /\ nodes[LargerChild(index)] \in Value
         /\ \A i \in 1 .. size - 1 :
              Parent(i) = index => ~Above(nodes[i], nodes[LargerChild(index)])
<1>1. /\ size \in Nat /\ index \in Nat /\ index < size \div 2
      /\ Occupied = (0 .. size - 1) \ {index}
      /\ \A i \in Occupied : nodes[i] \in Value
  BY SoundFacts DEF HasChild
<1> DEFINE l == Left(index)
           r == Right(index)
<1>2. /\ l \in Nat \ {0} /\ r \in Nat \ {0} /\ Parent(l) = index /\ Parent(r) = index
      /\ l > index /\ r > index /\ l < r
  BY <1>1, ChildFacts
<1>3. l < size
  BY <1>1 DEF Left
<1>4. \A i \in 1 .. size - 1 : Parent(i) = index => i = l \/ i = r
  BY <1>1, ParentFacts
<1>5. LargerChild(index) = IF r < size /\ Above(nodes[r], nodes[l]) THEN r ELSE l
  BY DEF LargerChild
<1> HIDE DEF l, r
<1>6. nodes[l] \in Value
  BY <1>1, <1>2, <1>3
<1>7. CASE r < size /\ Above(nodes[r], nodes[l])
  <2>1. nodes[r] \in Value
    BY <1>1, <1>2, <1>7
  <2>2. ~Above(nodes[l], nodes[r]) /\ ~Above(nodes[r], nodes[r])
    BY <1>6, <1>7, <2>1, AboveOrder
  <2> QED BY <1>1, <1>2, <1>4, <1>5, <1>7, <2>1, <2>2
<1>8. CASE ~(r < size /\ Above(nodes[r], nodes[l]))
  <2>1. ~Above(nodes[l], nodes[l])
    BY <1>6, AboveOrder
  <2>2. \A i \in 1 .. size - 1 : i = r => ~Above(nodes[i], nodes[l])
    BY <1>1, <1>8
  <2> QED BY <1>1, <1>2, <1>3, <1>4, <1>5, <1>6, <1>8, <2>1, <2>2
<1> QED BY <1>7, <1>8

\* The void node moves to the larger child.
LEMMA SiftDownSound ==
  ASSUME Sound, SiftDown
  PROVE  /\ Sound'
         /\ index' = LargerChild(index)
         /\ nodes'[index] = nodes[LargerChild(index)]
         /\ \A i \in 0 .. size - 1 : i # index => nodes'[i] = nodes[i]
<1> USE DEF Sound
<1> DEFINE s == LargerChild(index)
<1>1. /\ capacity \in Nat \ {0} /\ size \in Nat /\ size <= capacity
      /\ index \in Nat /\ index <= size /\ held \in Value
      /\ Occupied = (0 .. size - 1) \ {index}
      /\ \A i \in Occupied : nodes[i] \in Value
  BY SoundFacts DEF SiftDown
<1>2. s \in 0 .. size - 1 /\ s > index /\ nodes[s] \in Value
  BY LargerChildFacts DEF SiftDown
<1>3. /\ nodes \in [0 .. capacity - 1 -> Value \union {Empty}]
      /\ nodes' = [nodes EXCEPT ![index] = nodes[s]]
      /\ index \in 0 .. capacity - 1 /\ index' = s
      /\ UNCHANGED <<capacity, size, pc, held, spoiled>> /\ pc = "down"
  BY DEF TypeOK, SiftDown
<1> HIDE DEF s
<1>4. nodes'[index] = nodes[s] /\ \A i \in 0 .. size - 1 : i # index => nodes'[i] = nodes[i]
  BY <1>1, <1>3
<1>5. TypeOK'
  BY <1>1, <1>2, <1>3 DEF TypeOK
<1>6. Occupied' = (0 .. size - 1) \ {s}
  BY <1>3 DEF Occupied
<1>7. \A i \in Occupied' : i \in 0 .. capacity - 1 /\ nodes'[i] \in Value
  BY <1>1, <1>2, <1>4, <1>6
<1>8. NodesHoldValues'
  BY <1>1, <1>2, <1>3, <1>7, ValueAssumption DEF NodesHoldValues
<1> QED BY <1>3, <1>4, <1>5, <1>8 DEF s

\* The value that was sifted down fills the void node.
LEMMA PopPlaceSound ==
  ASSUME Sound, pc = "down", PopPlace, spoiled' \in BOOLEAN
  PROVE  /\ Sound'
         /\ index < size => nodes'[index] = held
         /\ \A i \in 0 .. size - 1 : i # index => nodes'[i] = nodes[i]
<1> USE DEF Sound
<1> DEFINE b == [nodes EXCEPT ![index] = held]
<1>1. /\ capacity \in Nat \ {0} /\ size \in Nat /\ size <= capacity
      /\ index \in Nat /\ held \in Value
      /\ Occupied = (0 .. size - 1) \ {index}
      /\ \A i \in Occupied : nodes[i] \in Value
  BY SoundFacts
<1>2. /\ nodes \in [0 .. capacity - 1 -> Value \union {Empty}]
      /\ index \in 0 .. capacity - 1 /\ index' = 0 /\ size' = size
      /\ capacity \in Capacities /\ pc' = "idle" /\ held' = Empty
      /\ Compact(b, size)
  BY DEF TypeOK, PopPlace
<1>3. /\ b \in [0 .. capacity - 1 -> Value \union {Empty}]
      /\ b[index] = held
      /\ \A i \in 0 .. size - 1 : i # index => b[i] = nodes[i]
  BY <1>1, <1>2
<1> HIDE DEF b
<1>4. /\ capacity' \in Capacities /\ size <= capacity'
      /\ nodes' \in [0 .. capacity' - 1 -> Value \union {Empty}]
      /\ \A i \in 0 .. size - 1 : nodes'[i] = b[i]
  <2>1. size \in 0 .. capacity
    BY <1>1
  <2> QED BY <1>2, <1>3, <2>1, CompactFacts
<1>5. capacity' \in Nat \ {0}
  BY <1>4, CapacityFacts
<1>6. TypeOK'
  <2>0. size \in Nat /\ capacity' \in Nat /\ 0 < capacity' /\ size <= capacity'
    BY <1>1, <1>4, <1>5
  <2>1. size' \in 0 .. capacity' /\ index' \in 0 .. capacity' - 1
    BY <1>2, <2>0, IndicesWithin, Zenon
  <2> QED BY <1>2, <1>4, <2>1 DEF TypeOK
<1>7. Occupied' = 0 .. size - 1
  BY <1>2 DEF Occupied
<1>8. \A i \in 0 .. size - 1 : i \in 0 .. capacity' - 1 /\ nodes'[i] \in Value
  <2>0. size \in Nat /\ capacity' \in Nat /\ size <= capacity'
    BY <1>1, <1>4, <1>5
  <2>1. \A i \in 0 .. size - 1 : i \in 0 .. capacity' - 1
    BY <2>0, IndicesWithin, Zenon
  <2>2. \A i \in 0 .. size - 1 : b[i] \in Value
    BY <1>1, <1>3
  <2> QED BY <1>4, <2>1, <2>2
<1>9. NodesHoldValues'
  BY <1>2, <1>7, <1>8, ValueAssumption DEF NodesHoldValues
<1> QED BY <1>1, <1>3, <1>4, <1>6, <1>9

-----------------------------------------------------------------------------
(* The order: what each step does to a buffer f of n nodes to make it g.   *)

\* The parent of a node is another node of the heap.
LEMMA ParentIn ==
  ASSUME NEW n \in Nat, NEW i \in 1 .. n - 1
  PROVE  /\ Parent(i) \in 0 .. n - 1 /\ Parent(i) < i /\ i \in 0 .. n - 1
         /\ i \in Nat \ {0}
<1>1. i \in Nat \ {0}
  OBVIOUS
<1>2. Parent(i) \in Nat /\ Parent(i) < i
  BY <1>1, ParentFacts
<1> HIDE DEF Parent
<1> QED BY <1>1, <1>2

\* A shorter buffer of the same nodes is in order too, whatever is left out.
LEMMA OrderKept ==
  ASSUME NEW n \in Nat, NEW m \in Nat, m <= n, NEW f, NEW g, NEW S,
         \A i \in 0 .. m - 1 : g[i] = f[i],
         OrderedBut(f, n, {})
  PROVE  OrderedBut(g, m, S)
<1> SUFFICES ASSUME NEW i \in 1 .. m - 1
             PROVE  ~Above(g[i], g[Parent(i)])
  BY DEF OrderedBut
<1>1. Parent(i) \in 0 .. m - 1 /\ i \in 0 .. m - 1 /\ i \in 1 .. n - 1
  BY ParentIn
<1>2. ~Above(f[i], f[Parent(i)])
  BY <1>1 DEF OrderedBut
<1> QED BY <1>1, <1>2

\* A push begins with the void node at the end.
LEMMA UpBegins ==
  ASSUME NEW n \in Nat, NEW f, NEW g, NEW v,
         \A i \in 0 .. n - 1 : g[i] = f[i],
         OrderedBut(f, n, {})
  PROVE  UpInv(g, n + 1, n, v)
<1>1. OrderedBut(g, n, {n})
  BY OrderKept
<1>2. \A i \in 1 .. n : Parent(i) # n
  BY ParentFacts
<1>3. OrderedBut(g, n + 1, {n})
  BY <1>1 DEF OrderedBut
<1>4. Bridged(g, n + 1, n) /\ ChildrenBelow(g, n + 1, n, v)
  BY <1>2 DEF Bridged, ChildrenBelow
<1> QED BY <1>3, <1>4 DEF UpInv

\* The parent p of the void node x moves into it.
LEMMA UpGoesOn ==
  ASSUME NEW n \in Nat, NEW f, NEW g, NEW x \in 1 .. n - 1, NEW p, p = Parent(x),
         NEW v \in Value,
         \A i \in 0 .. n - 1 : i # x => f[i] \in Value /\ g[i] = f[i],
         g[x] = f[p], Above(v, f[p]),
         UpInv(f, n, x, v)
  PROVE  UpInv(g, n, p, v)
<1>1. p \in 0 .. n - 1 /\ p < x /\ x \in 0 .. n - 1 /\ x > 0
  BY ParentIn
<1>2. f[p] \in Value /\ g[p] = f[p]
  BY <1>1
<1>3. ~Above(f[p], v)
  BY <1>2, AboveOrder
<1>4. ASSUME NEW i \in 1 .. n - 1, i # p, Parent(i) # p
      PROVE  ~Above(g[i], g[Parent(i)])
  <2>1. Parent(i) \in 0 .. n - 1 /\ Parent(i) < i /\ i \in 0 .. n - 1 /\ i # x
    BY <1>4, ParentIn
  <2>2. CASE Parent(i) = x
    <3>1. ~Above(f[i], f[Parent(x)])
      BY <1>1, <2>2 DEF UpInv, Bridged
    <3> QED BY <2>1, <2>2, <3>1
  <2>3. CASE Parent(i) # x
    <3>1. ~Above(f[i], f[Parent(i)])
      BY <2>1, <2>3 DEF UpInv, OrderedBut
    <3> QED BY <2>1, <2>3, <3>1
  <2> QED BY <2>2, <2>3
<1>5. ASSUME NEW i \in 1 .. n - 1, Parent(i) = p, i # x
      PROVE  /\ g[i] = f[i] /\ f[i] \in Value
             /\ ~Above(f[i], f[p])
  <2>1. i \in 0 .. n - 1
    OBVIOUS
  <2>2. ~Above(f[i], f[Parent(i)])
    BY <1>1, <1>5 DEF UpInv, OrderedBut
  <2> QED BY <1>5, <2>1, <2>2
<1>6. ASSUME NEW i \in 1 .. n - 1, Parent(i) = p, p > 0
      PROVE  ~Above(g[i], g[Parent(p)])
  <2>1. /\ p \in 1 .. n - 1 /\ Parent(p) \in 0 .. n - 1
        /\ Parent(p) # x
    <3>1. p \in 1 .. n - 1
      BY <1>1, <1>6
    <3>2. Parent(p) \in 0 .. n - 1 /\ Parent(p) < p
      BY <3>1, ParentIn
    <3> QED BY <1>1, <3>1, <3>2
  <2>2. ~Above(f[p], f[Parent(p)])
    BY <1>1, <2>1 DEF UpInv, OrderedBut
  <2>3. g[Parent(p)] = f[Parent(p)] /\ f[Parent(p)] \in Value
    BY <2>1
  <2>4. CASE i = x
    BY <2>2, <2>3, <2>4
  <2>5. CASE i # x
    BY <1>2, <1>5, <1>6, <2>2, <2>3, <2>5, AboveOrder
  <2> QED BY <2>4, <2>5
<1>7. ASSUME NEW i \in 1 .. n - 1, Parent(i) = p
      PROVE  ~Above(g[i], v)
  <2>1. CASE i = x
    BY <1>3, <2>1
  <2>2. CASE i # x
    BY <1>2, <1>3, <1>5, <1>7, <2>2, AboveOrder
  <2> QED BY <2>1, <2>2
<1> QED BY <1>4, <1>6, <1>7 DEF UpInv, OrderedBut, Bridged, ChildrenBelow

\* The pushed value settles in the void node x.
LEMMA UpEnds ==
  ASSUME NEW n \in Nat, NEW f, NEW g, NEW x \in 0 .. n - 1, NEW v,
         \A i \in 0 .. n - 1 : i # x => g[i] = f[i],
         g[x] = v, x > 0 => ~Above(v, f[Parent(x)]),
         UpInv(f, n, x, v)
  PROVE  OrderedBut(g, n, {})
<1> SUFFICES ASSUME NEW i \in 1 .. n - 1
             PROVE  ~Above(g[i], g[Parent(i)])
  BY DEF OrderedBut
<1>1. Parent(i) \in 0 .. n - 1 /\ Parent(i) < i /\ i \in 0 .. n - 1 /\ i > 0
  BY ParentIn
<1>2. CASE i = x
  <2>1. Parent(i) # x
    BY <1>1, <1>2
  <2> QED BY <1>1, <1>2, <2>1
<1>3. CASE i # x /\ Parent(i) = x
  BY <1>1, <1>3 DEF UpInv, ChildrenBelow
<1>4. CASE i # x /\ Parent(i) # x
  <2>1. ~Above(f[i], f[Parent(i)])
    BY <1>4 DEF UpInv, OrderedBut
  <2> QED BY <1>1, <1>4, <2>1
<1> QED BY <1>2, <1>3, <1>4

\* A pop begins with the void node at the root.
LEMMA DownBegins ==
  ASSUME NEW n \in Nat \ {0}, NEW f, NEW g, NEW v,
         \A i \in 0 .. n - 2 : g[i] = f[i],
         OrderedBut(f, n, {})
  PROVE  DownInv(g, n - 1, 0, v)
<1>1. OrderedBut(g, n - 1, {0})
  BY OrderKept
<1> QED BY <1>1 DEF DownInv, Bridged

\* The larger child s of the void node x moves into it.
LEMMA DownGoesOn ==
  ASSUME NEW n \in Nat, NEW f, NEW g, NEW x \in 0 .. n - 1, NEW s \in 1 .. n - 1,
         Parent(s) = x, NEW v \in Value,
         \A i \in 0 .. n - 1 : i # x => f[i] \in Value /\ g[i] = f[i],
         g[x] = f[s], Above(f[s], v),
         \A i \in 1 .. n - 1 : Parent(i) = x => ~Above(f[i], f[s]),
         DownInv(f, n, x, v)
  PROVE  DownInv(g, n, s, v)
<1>1. s \in 0 .. n - 1 /\ x < s
  BY ParentIn
<1>2. f[s] \in Value /\ ~Above(v, f[s])
  BY <1>1, AboveOrder
<1>3. ASSUME NEW i \in 1 .. n - 1, i # s, Parent(i) # s
      PROVE  ~Above(g[i], g[Parent(i)])
  <2>1. Parent(i) \in 0 .. n - 1 /\ Parent(i) < i /\ i \in 0 .. n - 1 /\ i > 0
    BY ParentIn
  <2>2. CASE i = x
    <3>1. ~Above(f[s], f[Parent(x)])
      BY <2>1, <2>2 DEF DownInv, Bridged
    <3>2. Parent(i) # x
      BY <2>1, <2>2
    <3> QED BY <2>1, <2>2, <3>1, <3>2
  <2>3. CASE i # x /\ Parent(i) = x
    BY <2>1, <2>3
  <2>4. CASE i # x /\ Parent(i) # x
    <3>1. ~Above(f[i], f[Parent(i)])
      BY <2>4 DEF DownInv, OrderedBut
    <3> QED BY <2>1, <2>4, <3>1
  <2> QED BY <2>2, <2>3, <2>4
<1>4. ASSUME NEW i \in 1 .. n - 1, Parent(i) = s
      PROVE  ~Above(g[i], g[Parent(s)])
  <2>1. i \in 0 .. n - 1 /\ i # x /\ Parent(i) # x
    <3>1. i \in 0 .. n - 1 /\ Parent(i) < i
      BY ParentIn
    <3> QED BY <1>1, <1>4, <3>1
  <2>2. ~Above(f[i], f[s])
    BY <1>4, <2>1 DEF DownInv, OrderedBut
  <2> QED BY <2>1, <2>2
<1> QED BY <1>2, <1>3, <1>4 DEF DownInv, OrderedBut, Bridged

\* The value sifted down settles in the void node x.
LEMMA DownEnds ==
  ASSUME NEW n \in Nat, NEW f, NEW g, NEW x \in Nat, NEW v,
         \A i \in 0 .. n - 1 : i # x => g[i] = f[i],
         x < n => g[x] = v,
         \A i \in 1 .. n - 1 : Parent(i) = x => ~Above(f[i], v),
         DownInv(f, n, x, v)
  PROVE  OrderedBut(g, n, {})
<1> SUFFICES ASSUME NEW i \in 1 .. n - 1
             PROVE  ~Above(g[i], g[Parent(i)])
  BY DEF OrderedBut
<1>1. Parent(i) \in 0 .. n - 1 /\ Parent(i) < i /\ i \in 0 .. n - 1 /\ i > 0
  BY ParentIn
<1>2. CASE i = x
  <2>1. Parent(i) # x /\ x < n
    BY <1>1, <1>2
  <2>2. ~Above(v, f[Parent(x)])
    BY <1>1, <1>2 DEF DownInv
  <2> QED BY <1>1, <1>2, <2>1, <2>2
<1>3. CASE i # x /\ Parent(i) = x
  <2>1. x < n
    BY <1>1, <1>3
  <2> QED BY <1>1, <1>3, <2>1
<1>4. CASE i # x /\ Parent(i) # x
  <2>1. ~Above(f[i], f[Parent(i)])
    BY <1>4 DEF DownInv, OrderedBut
  <2> QED BY <1>1, <1>4, <2>1
<1> QED BY <1>2, <1>3, <1>4

-----------------------------------------------------------------------------
(* The invariant: one lemma per action.                                    *)

\* A push puts the void node behind the values.
LEMMA PushBeginInv ==
  ASSUME IInv, NEW v \in Value, PushBegin(v)
  PROVE  IInv'
<1>1. Sound' /\ \A i \in 0 .. size - 1 : nodes'[i] = nodes[i]
  BY PushBeginSound DEF IInv, Sound
<1>2. pc = "idle" /\ pc' = "up" /\ size' = size /\ index' = size /\ held' = v
      /\ spoiled' = spoiled
  BY DEF PushBegin
<1>3. ASSUME ~spoiled PROVE UpInv(nodes', size + 1, size, v)
  <2>1. OrderedBut(nodes, size, {}) /\ size \in Nat
    BY <1>2, <1>3, SoundFacts DEF IInv, SiftInv, Sound
  <2> QED BY <1>1, <2>1, UpBegins
<1>4. SiftInv'
  BY <1>2, <1>3 DEF SiftInv
<1> QED BY <1>1, <1>4 DEF IInv, Sound

\* Sifting up keeps the order but for the void node.
LEMMA SiftUpInv ==
  ASSUME IInv, SiftUp
  PROVE  IInv'
<1> DEFINE p == Parent(index)
<1>1. /\ Sound' /\ p \in Nat /\ p < index /\ index \in 0 .. size
      /\ index' = p /\ nodes'[index] = nodes[p]
      /\ \A i \in 0 .. size : i # index => nodes'[i] = nodes[i]
  BY SiftUpSound DEF IInv, Sound
<1>2. pc = "up" /\ pc' = "up" /\ size' = size /\ held' = held /\ spoiled' = spoiled
      /\ index > 0 /\ Above(held, nodes[p])
  BY DEF SiftUp
<1>3. /\ size \in Nat /\ held \in Value /\ Occupied = (0 .. size) \ {index}
      /\ \A i \in Occupied : nodes[i] \in Value
  BY <1>2, SoundFacts DEF IInv, Sound
<1>4. ASSUME ~spoiled PROVE UpInv(nodes', size + 1, p, held)
  <2>1. UpInv(nodes, size + 1, index, held)
    BY <1>2, <1>4 DEF IInv, SiftInv
  <2> DEFINE n == size + 1
  <2>2. n \in Nat /\ index \in 1 .. n - 1
    BY <1>1, <1>2, <1>3
  <2>3. \A i \in 0 .. n - 1 : i # index => nodes[i] \in Value /\ nodes'[i] = nodes[i]
    BY <1>1, <1>3
  <2> HIDE DEF n
  <2>4. UpInv(nodes, n, index, held)
    BY <2>1 DEF n
  <2>5. UpInv(nodes', n, p, held)
    BY <1>1, <1>2, <1>3, <2>2, <2>3, <2>4, UpGoesOn
  <2> QED BY <2>5 DEF n
<1>5. SiftInv'
  BY <1>1, <1>2, <1>4 DEF SiftInv
<1> QED BY <1>1, <1>5 DEF IInv, Sound

\* The end of a push restores the order.
LEMMA PushEndInv ==
  ASSUME IInv, PushEnd
  PROVE  IInv'
<1>1. /\ Sound' /\ nodes'[index] = held
      /\ \A i \in 0 .. size : i # index => nodes'[i] = nodes[i]
  <2>1. pc = "up" /\ PushPlace /\ spoiled' \in BOOLEAN
    BY DEF PushEnd, IInv, TypeOK
  <2> QED BY <2>1, PushPlaceSound DEF IInv, Sound
<1>2. pc = "up" /\ pc' = "idle" /\ size' = size + 1 /\ spoiled' = spoiled
      /\ PushSettled
  BY DEF PushEnd, PushPlace
<1>3. size \in Nat /\ index \in Nat /\ index <= size
  BY <1>2, SoundFacts DEF IInv, Sound
<1>4. ASSUME ~spoiled PROVE OrderedBut(nodes', size + 1, {})
  <2> DEFINE n == size + 1
  <2>1. UpInv(nodes, n, index, held)
    BY <1>2, <1>4 DEF IInv, SiftInv
  <2>2. n \in Nat /\ index \in 0 .. n - 1
    BY <1>3
  <2>3. \A i \in 0 .. n - 1 : i # index => nodes'[i] = nodes[i]
    BY <1>1, <1>3
  <2>4. index > 0 => ~Above(held, nodes[Parent(index)])
    BY <1>2 DEF PushSettled
  <2> HIDE DEF n
  <2>5. OrderedBut(nodes', n, {})
    BY <1>1, <2>1, <2>2, <2>3, <2>4, UpEnds
  <2> QED BY <2>5 DEF n
<1>5. SiftInv'
  BY <1>2, <1>4 DEF SiftInv
<1> QED BY <1>1, <1>5 DEF IInv, Sound

\* A comparator that throws gives up the order, not the values.
LEMMA ThrowsInv ==
  ASSUME IInv, Throws
  PROVE  IInv'
<1>1. CASE PushThrows
  <2>1. pc = "up" /\ PushPlace /\ spoiled' = TRUE
    BY <1>1 DEF PushThrows
  <2>2. Sound'
    BY <2>1, PushPlaceSound DEF IInv, Sound
  <2> QED BY <2>1, <2>2 DEF IInv, Sound, SiftInv
<1>2. CASE PopThrows
  <2>1. pc = "down" /\ PopPlace /\ spoiled' = TRUE
    BY <1>2 DEF PopThrows
  <2>2. Sound'
    BY <2>1, PopPlaceSound DEF IInv, Sound
  <2> QED BY <2>1, <2>2 DEF IInv, Sound, SiftInv
<1> QED BY <1>1, <1>2 DEF Throws

\* A heap without values is in order.
LEMMA EmptyInv ==
  ASSUME Sound', pc' = "idle", size' = 0
  PROVE  IInv'
<1>1. OrderedBut(nodes', 0, {})
  BY DEF OrderedBut
<1>2. SiftInv'
  BY <1>1 DEF SiftInv
<1> QED BY <1>2 DEF IInv, Sound

\* The pop of the only value leaves none.
LEMMA PopOnlyInv ==
  ASSUME IInv, PopOnly
  PROVE  IInv'
<1> DEFINE b == [nodes EXCEPT ![0] = Empty]
<1>1. /\ capacity \in Capacities /\ capacity \in Nat \ {0}
      /\ nodes \in [0 .. capacity - 1 -> Value \union {Empty}]
  BY SoundFacts DEF IInv, Sound, TypeOK
<1>2. b \in [0 .. capacity - 1 -> Value \union {Empty}]
  BY <1>1
<1>3. /\ pc = "idle" /\ pc' = "idle" /\ size' = 0 /\ spoiled' = FALSE
      /\ index' = index /\ held' = held /\ Compact(b, 0)
  BY DEF PopOnly
<1>4. index = 0 /\ held = Empty
  BY <1>3 DEF IInv, TypeOK
<1> HIDE DEF b
<1>5. /\ capacity' \in Capacities
      /\ nodes' \in [0 .. capacity' - 1 -> Value \union {Empty}]
  <2>1. 0 \in 0 .. capacity
    BY <1>1
  <2> QED BY <1>1, <1>2, <1>3, <2>1, CompactFacts
<1>6. capacity' \in Nat /\ 0 < capacity'
  BY <1>5, CapacityFacts
<1>7. 0 \in 0 .. capacity' /\ 0 \in 0 .. capacity' - 1
  BY <1>6, ZeroWithin, Zenon
<1>8. TypeOK'
  BY <1>3, <1>4, <1>5, <1>7 DEF TypeOK
<1>9. NodesHoldValues'
  <2>1. Occupied' = {}
    BY <1>3 DEF Occupied
  <2> QED BY <1>3, <2>1 DEF NodesHoldValues
<1> QED BY <1>3, <1>8, <1>9, EmptyInv DEF Sound

\* A pop of one value among several puts the void node at the root.
LEMMA PopBeginInv ==
  ASSUME IInv, PopBegin
  PROVE  IInv'
<1>1. Sound' /\ \A i \in 0 .. size - 2 : nodes'[i] = nodes[i]
  BY PopBeginSound DEF IInv, Sound
<1>2. pc = "idle" /\ pc' = "down" /\ size' = size - 1 /\ index' = 0
      /\ spoiled' = spoiled /\ size > 1
  BY DEF PopBegin
<1>3. ASSUME ~spoiled PROVE DownInv(nodes', size - 1, 0, held')
  <2>1. OrderedBut(nodes, size, {}) /\ size \in Nat \ {0}
    BY <1>2, <1>3, SoundFacts DEF IInv, SiftInv, Sound
  <2> QED BY <1>1, <2>1, DownBegins
<1>4. SiftInv'
  BY <1>2, <1>3 DEF SiftInv
<1> QED BY <1>1, <1>4 DEF IInv, Sound

\* Sifting down keeps the order but for the void node.
LEMMA SiftDownInv ==
  ASSUME IInv, SiftDown
  PROVE  IInv'
<1> DEFINE s == LargerChild(index)
<1>1. /\ Sound' /\ index' = s /\ nodes'[index] = nodes[s]
      /\ \A i \in 0 .. size - 1 : i # index => nodes'[i] = nodes[i]
  BY SiftDownSound DEF IInv, Sound
<1>2. pc = "down" /\ pc' = "down" /\ size' = size /\ held' = held
      /\ spoiled' = spoiled /\ Above(nodes[s], held) /\ HasChild
  BY DEF SiftDown
<1>3. /\ size \in Nat /\ index \in Nat /\ held \in Value
      /\ Occupied = (0 .. size - 1) \ {index}
      /\ \A i \in Occupied : nodes[i] \in Value
  BY <1>2, SoundFacts DEF IInv, Sound
<1>4. /\ s \in 0 .. size - 1 /\ s > index /\ Parent(s) = index
      /\ \A i \in 1 .. size - 1 : Parent(i) = index => ~Above(nodes[i], nodes[s])
  BY <1>2, LargerChildFacts DEF IInv, Sound
<1> HIDE DEF s
<1>5. ASSUME ~spoiled PROVE DownInv(nodes', size, s, held)
  <2>1. DownInv(nodes, size, index, held)
    BY <1>2, <1>5 DEF IInv, SiftInv
  <2>2. index \in 0 .. size - 1 /\ s \in 1 .. size - 1
    BY <1>3, <1>4
  <2>3. \A i \in 0 .. size - 1 : i # index => nodes[i] \in Value /\ nodes'[i] = nodes[i]
    BY <1>1, <1>3
  <2> QED BY <1>1, <1>2, <1>3, <1>4, <2>1, <2>2, <2>3, DownGoesOn
<1>6. SiftInv'
  BY <1>1, <1>2, <1>5 DEF SiftInv
<1> QED BY <1>1, <1>6 DEF IInv, Sound

\* The end of a pop restores the order.
LEMMA PopEndInv ==
  ASSUME IInv, PopEnd
  PROVE  IInv'
<1>1. /\ Sound'
      /\ index < size => nodes'[index] = held
      /\ \A i \in 0 .. size - 1 : i # index => nodes'[i] = nodes[i]
  <2>1. pc = "down" /\ PopPlace /\ spoiled' \in BOOLEAN
    BY DEF PopEnd, IInv, TypeOK
  <2> QED BY <2>1, PopPlaceSound DEF IInv, Sound
<1>2. /\ pc = "down" /\ pc' = "idle" /\ size' = size /\ spoiled' = spoiled
      /\ HasChild => ~Above(nodes[LargerChild(index)], held)
  BY DEF PopEnd, PopPlace
<1>3. /\ size \in Nat /\ index \in Nat /\ held \in Value
      /\ Occupied = (0 .. size - 1) \ {index}
      /\ \A i \in Occupied : nodes[i] \in Value
  BY <1>2, SoundFacts DEF IInv, Sound
<1>4. ASSUME NEW i \in 1 .. size - 1, Parent(i) = index
      PROVE  ~Above(nodes[i], held)
  <2>1. i = Left(index) \/ i = Right(index)
    BY <1>4, ParentFacts
  <2>2. HasChild
    BY <1>3, <2>1 DEF HasChild, Left, Right
  <2>3. /\ ~Above(nodes[i], nodes[LargerChild(index)])
        /\ nodes[LargerChild(index)] \in Value
    BY <1>2, <1>4, <2>2, LargerChildFacts DEF IInv, Sound
  <2>4. nodes[i] \in Value
    <3>1. Parent(i) < i /\ i \in 0 .. size - 1
      BY <1>3, ParentIn
    <3> QED BY <1>3, <1>4, <3>1
  <2> QED BY <1>2, <1>3, <2>2, <2>3, <2>4, AboveOrder
<1>5. ASSUME ~spoiled PROVE OrderedBut(nodes', size, {})
  <2>1. DownInv(nodes, size, index, held)
    BY <1>2, <1>5 DEF IInv, SiftInv
  <2> QED BY <1>1, <1>3, <1>4, <2>1, DownEnds
<1>6. SiftInv'
  BY <1>2, <1>5 DEF SiftInv
<1> QED BY <1>1, <1>6 DEF IInv, Sound

\* A cleared heap is empty.
LEMMA ClearInv ==
  ASSUME IInv, Clear
  PROVE  IInv'
<1>1. MinCapacity \in Nat \ {0} /\ MinCapacity \in Capacities
  BY CapacityAssumption
<1>2. /\ pc = "idle" /\ pc' = "idle" /\ size' = 0 /\ spoiled' = FALSE
      /\ index' = index /\ held' = held /\ capacity' = MinCapacity
      /\ nodes' = [i \in 0 .. MinCapacity - 1 |-> Empty]
  BY DEF Clear
<1>3. index = 0 /\ held = Empty
  BY <1>2 DEF IInv, TypeOK
<1>4. TypeOK'
  <2>1. 0 \in 0 .. MinCapacity /\ 0 \in 0 .. MinCapacity - 1
    BY <1>1
  <2>2. nodes' \in [0 .. MinCapacity - 1 -> Value \union {Empty}]
    BY <1>2
  <2> QED BY <1>1, <1>2, <1>3, <2>1, <2>2 DEF TypeOK
<1>5. NodesHoldValues'
  <2>1. Occupied' = {}
    BY <1>2 DEF Occupied
  <2> QED BY <1>2, <2>1 DEF NodesHoldValues
<1> QED BY <1>2, <1>4, <1>5, EmptyInv DEF Sound

\* allocate() only makes room.
LEMMA EnsureCapacityInv ==
  ASSUME IInv, NEW n \in 0 .. MaxSize, EnsureCapacity(n)
  PROVE  IInv'
<1> DEFINE c == CapacityFor(n)
<1>1. c \in Capacities /\ c \in Nat \ {0} /\ c > capacity
  BY CapacityForFacts, CapacityFacts DEF EnsureCapacity
<1>2. /\ nodes \in [0 .. capacity - 1 -> Value \union {Empty}]
      /\ capacity \in Nat /\ size \in Nat /\ size <= capacity
      /\ pc = "idle" /\ Occupied = 0 .. size - 1
      /\ \A i \in Occupied : nodes[i] \in Value
      /\ index = 0 /\ held = Empty /\ spoiled \in BOOLEAN
  BY SoundFacts DEF IInv, Sound, TypeOK, EnsureCapacity
<1>3. /\ capacity' = c /\ nodes' = Resized(nodes, c)
      /\ UNCHANGED <<size, pc, index, held, spoiled>>
  BY DEF EnsureCapacity
<1> HIDE DEF c
<1>4. /\ nodes' \in [0 .. c - 1 -> Value \union {Empty}]
      /\ \A i \in 0 .. c - 1 : i < capacity => nodes'[i] = nodes[i]
  BY <1>1, <1>2, <1>3, ResizedFacts
<1>5. \A i \in 0 .. size - 1 : i \in 0 .. c - 1 /\ nodes'[i] = nodes[i]
  BY <1>1, <1>2, <1>4
<1>6. TypeOK'
  <2>1. size \in 0 .. c /\ 0 \in 0 .. c - 1
    BY <1>1, <1>2
  <2> QED BY <1>1, <1>2, <1>3, <1>4, <2>1 DEF TypeOK
<1>7. NodesHoldValues'
  <2>1. Occupied' = 0 .. size - 1
    BY <1>2, <1>3 DEF Occupied
  <2> QED BY <1>2, <1>3, <1>5, <2>1, ValueAssumption DEF NodesHoldValues
<1>8. SiftInv'
  <2>1. ASSUME ~spoiled PROVE OrderedBut(nodes', size, {})
    <3>1. OrderedBut(nodes, size, {})
      BY <1>2, <2>1 DEF IInv, SiftInv
    <3> QED BY <1>2, <1>5, <3>1, OrderKept
  <2> QED BY <1>2, <1>3, <2>1 DEF SiftInv
<1> QED BY <1>6, <1>7, <1>8 DEF IInv

\* An idle step changes nothing that the invariant speaks of.
LEMMA StutterInv ==
  ASSUME IInv, UNCHANGED vars
  PROVE  IInv'
<1>1. /\ nodes' = nodes /\ capacity' = capacity /\ size' = size /\ pc' = pc
      /\ index' = index /\ held' = held /\ spoiled' = spoiled
  BY DEF vars
<1>2. TypeOK'
  BY <1>1 DEF IInv, TypeOK
<1>3. NodesHoldValues'
  <2>1. Occupied' = Occupied
    BY <1>1 DEF Occupied
  <2> QED BY <1>1, <2>1 DEF IInv, NodesHoldValues
<1>4. SiftInv'
  BY <1>1 DEF IInv, SiftInv
<1> QED BY <1>2, <1>3, <1>4 DEF IInv

\* A new heap satisfies the invariant.
LEMMA InitInv == Init => IInv
<1> SUFFICES ASSUME Init PROVE IInv
  OBVIOUS
<1>1. MinCapacity \in Nat \ {0} /\ MinCapacity \in Capacities
  BY CapacityAssumption
<1>2. TypeOK
  <2>1. 0 \in 0 .. MinCapacity /\ 0 \in 0 .. MinCapacity - 1
    BY <1>1
  <2> QED BY <1>1, <2>1 DEF Init, TypeOK
<1>3. NodesHoldValues
  <2>1. Occupied = {}
    BY DEF Init, Occupied
  <2> QED BY <2>1 DEF Init, NodesHoldValues
<1>4. SiftInv
  BY DEF Init, SiftInv, OrderedBut
<1> QED BY <1>2, <1>3, <1>4 DEF IInv

-----------------------------------------------------------------------------
\* The inductive invariant holds in every reachable state, sifts included
\* (ds_heap.c:107-182).
THEOREM Invariant == Spec => []IInv
<1>1. ASSUME IInv, [Next]_vars PROVE IInv'
  <2>1. CASE \E v \in Value : PushBegin(v)
    BY <1>1, <2>1, PushBeginInv
  <2>2. CASE PopOnly
    BY <1>1, <2>2, PopOnlyInv
  <2>3. CASE PopBegin
    BY <1>1, <2>3, PopBeginInv
  <2>4. CASE Step
    BY <1>1, <2>4, SiftUpInv, PushEndInv, SiftDownInv, PopEndInv DEF Step
  <2>5. CASE Throws
    BY <1>1, <2>5, ThrowsInv
  <2>6. CASE Clear
    BY <1>1, <2>6, ClearInv
  <2>7. CASE \E n \in 0 .. MaxSize : EnsureCapacity(n)
    BY <1>1, <2>7, EnsureCapacityInv
  <2>8. CASE UNCHANGED vars
    BY <1>1, <2>8, StutterInv
  <2> QED BY <1>1, <2>1, <2>2, <2>3, <2>4, <2>5, <2>6, <2>7, <2>8 DEF Next
<1> QED BY <1>1, InitInv, PTL DEF Spec

\* The heap and the sift's locals keep their types (ds_heap.h:16-21).
THEOREM TypeCorrect == Spec => []TypeOK
<1>1. IInv => TypeOK
  BY DEF IInv
<1> QED BY <1>1, Invariant, PTL

\* No push or pop loses a value or leaves an unset node among the live ones,
\* even when a comparator throws (ds_heap.c:107-182).
THEOREM ValuesKept == Spec => []NodesHoldValues
<1>1. IInv => NodesHoldValues
  BY DEF IInv
<1> QED BY <1>1, Invariant, PTL

\* push and pop leave every value at or below its parent (ds_heap.c:107-182).
THEOREM Ordered == Spec => []HeapOrdered
<1>1. IInv => HeapOrdered
  BY DEF IInv, SiftInv, OrderedBut, HeapOrdered
<1> QED BY <1>1, Invariant, PTL

\* What is ordered along its parents is below the root.
LEMMA OrderReachesRoot ==
  ASSUME NEW n \in Nat, NEW f, \A i \in 0 .. n - 1 : f[i] \in Value,
         OrderedBut(f, n, {})
  PROVE  \A i \in 1 .. n - 1 : ~Above(f[i], f[0])
<1> DEFINE B == {i \in 1 .. n - 1 : Above(f[i], f[0])}
<1>1. SUFFICES ASSUME B # {} PROVE FALSE
  OBVIOUS
<1>2. B \subseteq Nat
  OBVIOUS
<1>3. PICK x \in B : \A y \in B : x <= y
  BY <1>1, <1>2, LeastNat
<1>4. /\ x \in 1 .. n - 1 /\ Parent(x) \in 0 .. n - 1 /\ Parent(x) < x
      /\ ~Above(f[x], f[Parent(x)])
  BY ParentIn DEF OrderedBut
<1>5. Above(f[x], f[0])
  OBVIOUS
<1>6. CASE Parent(x) = 0
  BY <1>4, <1>5, <1>6
<1>7. CASE Parent(x) # 0
  <2>1. Parent(x) \notin B /\ Parent(x) \in 1 .. n - 1
    BY <1>3, <1>4, <1>7
  <2>2. ~Above(f[Parent(x)], f[0])
    BY <2>1
  <2>3. f[x] \in Value /\ f[0] \in Value /\ f[Parent(x)] \in Value
    BY <1>4
  <2> QED BY <1>4, <1>5, <2>2, <2>3, AboveOrder
<1> QED BY <1>6, <1>7

\* peek and pop return a greatest value (ds_heap.c:97-105, 144-147).
THEOREM GreatestFirst == Spec => []RootIsGreatest
<1>1. ASSUME IInv, pc = "idle", ~spoiled
      PROVE  \A i \in 1 .. size - 1 : ~Above(nodes[i], nodes[0])
  <2>1. /\ size \in Nat /\ \A i \in 0 .. size - 1 : nodes[i] \in Value
        /\ OrderedBut(nodes, size, {})
    BY <1>1, SoundFacts DEF IInv, Sound, SiftInv
  <2> QED BY <2>1, OrderReachesRoot
<1>2. IInv => RootIsGreatest
  BY <1>1 DEF RootIsGreatest
<1> QED BY <1>2, Invariant, PTL

-----------------------------------------------------------------------------
(* The heap as a priority bag: how often each value lies in the nodes, and   *)
(* how that changes when one node is filled, emptied or moved.               *)

Tally(S, f, v) == Cardinality({i \in S : f[i] = v})

One(b) == IF b THEN 1 ELSE 0

LEMMA TallyNat ==
  ASSUME NEW S, IsFiniteSet(S), NEW f, NEW v
  PROVE  /\ Tally(S, f, v) \in Nat
         /\ Tally(S, f, v) = 0 <=> \A i \in S : f[i] # v
<1> DEFINE T == {i \in S : f[i] = v}
<1>1. IsFiniteSet(T)
  BY FS_Subset
<1>2. Cardinality(T) \in Nat /\ (Cardinality(T) = 0 <=> T = {})
  BY <1>1, FS_CardinalityType, FS_EmptySet
<1>3. T = {} <=> \A i \in S : f[i] # v
  OBVIOUS
<1> QED BY <1>2, <1>3 DEF Tally

LEMMA TallySame ==
  ASSUME NEW S, NEW f, NEW g, \A i \in S : g[i] = f[i], NEW v
  PROVE  Tally(S, g, v) = Tally(S, f, v)
<1>1. {i \in S : g[i] = v} = {i \in S : f[i] = v}
  OBVIOUS
<1> QED BY <1>1 DEF Tally

\* One node more.
LEMMA TallyWith ==
  ASSUME NEW S, IsFiniteSet(S), NEW x, x \notin S, NEW f, NEW g,
         \A i \in S : g[i] = f[i], NEW v
  PROVE  Tally(S \union {x}, g, v) = Tally(S, f, v) + One(g[x] = v)
<1> DEFINE T == {i \in S : f[i] = v}
           U == {i \in S \union {x} : g[i] = v}
<1>0. Tally(S \union {x}, g, v) = Cardinality(U) /\ Tally(S, f, v) = Cardinality(T)
  BY DEF Tally
<1>1. IsFiniteSet(T) /\ Cardinality(T) \in Nat
  BY FS_Subset, FS_CardinalityType
<1>2. CASE g[x] = v
  <2>1. U = T \union {x} /\ x \notin T
    BY <1>2
  <2> HIDE DEF T, U
  <2>2. Cardinality(U) = Cardinality(T) + 1
    BY <1>1, <2>1, FS_AddElement
  <2> QED BY <1>0, <1>2, <2>2 DEF One
<1>3. CASE g[x] # v
  <2>1. U = T
    BY <1>3
  <2> HIDE DEF T, U
  <2> QED BY <1>0, <1>1, <1>3, <2>1 DEF One
<1> QED BY <1>2, <1>3

\* A value that moves from node p to node x.
LEMMA TallyMoved ==
  ASSUME NEW S, IsFiniteSet(S), NEW p, p \notin S, NEW x, x \notin S,
         NEW f, NEW g, \A i \in S : g[i] = f[i], g[x] = f[p], NEW v
  PROVE  Tally(S \union {x}, g, v) = Tally(S \union {p}, f, v)
<1>1. Tally(S \union {x}, g, v) = Tally(S, f, v) + One(g[x] = v)
  BY TallyWith
<1>2. Tally(S \union {p}, f, v) = Tally(S, f, v) + One(f[p] = v)
  BY TallyWith
<1> QED BY <1>1, <1>2

\* The bag of the values in the nodes S of f, and of the one held.
CountOf(S, f, h) == [v \in Value |-> Tally(S, f, v) + One(h = v)]

LEMMA CountIs ==
  /\ Count = CountOf(Occupied, nodes, held)
  /\ Count' = CountOf(Occupied', nodes', held')
BY DEF Count, CountOf, Tally, One

LEMMA CountNat ==
  ASSUME NEW S, IsFiniteSet(S), NEW f, NEW h
  PROVE  /\ CountOf(S, f, h) \in [Value -> Nat]
         /\ \A v \in Value : /\ CountOf(S, f, h)[v] = Tally(S, f, v) + One(h = v)
                             /\ Tally(S, f, v) \in Nat
         /\ \A v \in Value : CountOf(S, f, Empty)[v] = Tally(S, f, v)
<1>1. \A v : Tally(S, f, v) \in Nat
  BY TallyNat
<1>3. \A v \in Value : One(Empty = v) = 0
  BY ValueAssumption DEF One
<1>4. \A v \in Value : CountOf(S, f, h)[v] = Tally(S, f, v) + One(h = v)
  BY DEF CountOf
<1>5. \A v \in Value : CountOf(S, f, Empty)[v] = Tally(S, f, v) + One(Empty = v)
  BY DEF CountOf
<1>6. ASSUME NEW v \in Value PROVE Tally(S, f, v) + One(h = v) \in Nat
  <2>1. Tally(S, f, v) \in Nat /\ One(h = v) \in Nat
    BY <1>1 DEF One
  <2> QED BY <2>1
<1>7. CountOf(S, f, h) \in [Value -> Nat]
  BY <1>6 DEF CountOf
<1>8. \A v \in Value : CountOf(S, f, Empty)[v] = Tally(S, f, v)
  BY <1>1, <1>3, <1>5
<1> QED BY <1>1, <1>4, <1>7, <1>8

\* g has the values of f in the nodes S, and a has one v more than b.
Agree(f, g, S) == \A i \in S : g[i] = f[i]

OneMore(a, b, v) == a = [b EXCEPT ![v] = @ + 1] /\ b = [a EXCEPT ![v] = @ - 1]

\* U is S with the node x filled.
Filled(S, x, U) == x \notin S /\ U = S \union {x}

\* The bag does not see where a value lies.
LEMMA CountMoved ==
  ASSUME NEW S, IsFiniteSet(S), NEW p, NEW T, Filled(S, p, T),
         NEW x, NEW U, Filled(S, x, U),
         NEW f, NEW g, Agree(f, g, S), g[x] = f[p], NEW h
  PROVE  CountOf(U, g, h) = CountOf(T, f, h)
<1>1. \A v : Tally(U, g, v) = Tally(T, f, v)
  BY TallyMoved DEF Agree, Filled
<1> QED BY <1>1 DEF CountOf

\* The held value may as well lie in a node.
LEMMA CountPlaced ==
  ASSUME NEW S, IsFiniteSet(S), NEW x, NEW U, Filled(S, x, U),
         NEW f, NEW g, Agree(f, g, S), NEW h, g[x] = h
  PROVE  CountOf(U, g, Empty) = CountOf(S, f, h)
<1>1. ASSUME NEW v \in Value
      PROVE  Tally(U, g, v) + One(Empty = v) = Tally(S, f, v) + One(h = v)
  <2>1. Tally(U, g, v) = Tally(S, f, v) + One(h = v)
    BY TallyWith DEF Agree, Filled
  <2>2. One(Empty = v) = 0
    BY ValueAssumption DEF One
  <2>3. Tally(S, f, v) \in Nat /\ One(h = v) \in Nat
    BY TallyNat DEF One
  <2> QED BY <2>1, <2>2, <2>3
<1> QED BY <1>1 DEF CountOf

\* A value that is taken up counts once more.
LEMMA CountTaken ==
  ASSUME NEW S, IsFiniteSet(S), NEW f, NEW g, Agree(f, g, S), NEW v \in Value
  PROVE  OneMore(CountOf(S, g, v), CountOf(S, f, Empty), v)
<1> DEFINE a == CountOf(S, f, Empty)
           b == CountOf(S, g, v)
<1>1. a \in [Value -> Nat] /\ b \in [Value -> Nat]
  BY CountNat
<1>2. ASSUME NEW w \in Value PROVE b[w] = a[w] + One(v = w)
  <2>1. b[w] = Tally(S, g, w) + One(v = w) /\ a[w] = Tally(S, f, w)
    BY CountNat
  <2>2. Tally(S, g, w) = Tally(S, f, w)
    BY TallySame DEF Agree
  <2> QED BY <2>1, <2>2
<1> HIDE DEF a, b
<1>3. \A w \in Value : b[w] = IF w = v THEN a[v] + 1 ELSE a[w]
  BY <1>1, <1>2 DEF One
<1>4. b = [a EXCEPT ![v] = @ + 1]
  BY <1>1, <1>3
<1>5. a = [b EXCEPT ![v] = @ - 1]
  BY <1>1, <1>3
<1> QED BY <1>4, <1>5 DEF a, b, OneMore

\* No values, no bag; and a value that is held makes one.
LEMMA CountEmpty ==
  /\ \A f : CountOf({}, f, Empty) = PB!NoValues
  /\ \A S, f : \A v \in Value : IsFiniteSet(S) => CountOf(S, f, v) # PB!NoValues
<1>1. ASSUME NEW f PROVE CountOf({}, f, Empty) = PB!NoValues
  <2>1. IsFiniteSet({})
    BY FS_EmptySet
  <2>2. \A v \in Value : CountOf({}, f, Empty)[v] = 0
    BY <2>1, CountNat, TallyNat
  <2>3. CountOf({}, f, Empty) \in [Value -> Nat]
    BY <2>1, CountNat
  <2> QED BY <2>2, <2>3 DEF PB!NoValues
<1>2. ASSUME NEW S, NEW f, NEW v \in Value, IsFiniteSet(S)
      PROVE  CountOf(S, f, v) # PB!NoValues
  <2>1. CountOf(S, f, v)[v] = Tally(S, f, v) + 1 /\ Tally(S, f, v) \in Nat
    BY <1>2, CountNat DEF One
  <2>2. PB!NoValues[v] = 0
    BY DEF PB!NoValues
  <2> QED BY <2>1, <2>2
<1> QED BY <1>1, <1>2

LEMMA IntervalFacts ==
  \A m, n \in Int : IsFiniteSet(m .. n)
BY FS_Interval

-----------------------------------------------------------------------------
(* Each action of the heap is one of the bag's, or nothing to it.            *)

LEMMA PushBeginPushes ==
  ASSUME Sound, NEW v \in Value, PushBegin(v)
  PROVE  PB!Push(v)
<1>1. /\ Sound' /\ \A i \in 0 .. size - 1 : nodes'[i] = nodes[i]
  BY PushBeginSound
<1>2. /\ pc = "idle" /\ pc' = "up" /\ size' = size /\ index' = size /\ held' = v
      /\ spoiled' = spoiled /\ size \in Nat /\ held = Empty
      /\ Occupied = 0 .. size - 1
  BY SoundFacts DEF PushBegin, Sound, TypeOK
<1>3. Occupied' = 0 .. size - 1
  BY <1>2 DEF Occupied
<1>4. IsFiniteSet(0 .. size - 1)
  BY <1>2, IntervalFacts
<1>5. Agree(nodes, nodes', 0 .. size - 1)
  BY <1>1 DEF Agree
<1>6. OneMore(CountOf(0 .. size - 1, nodes', v), CountOf(0 .. size - 1, nodes, Empty), v)
  BY ONLY <1>4, <1>5, v \in Value, CountTaken, Zenon
<1>7. OneMore(Count', Count, v)
  BY <1>2, <1>3, <1>6, CountIs
<1> QED BY <1>2, <1>7 DEF PB!Push, OneMore

LEMMA SiftUpStutters ==
  ASSUME Sound, SiftUp
  PROVE  UNCHANGED <<Count, spoiled>>
<1> DEFINE p == Parent(index)
           S == (0 .. size) \ {index, p}
<1>1. /\ p \in Nat /\ p < index /\ index \in 0 .. size /\ index' = p
      /\ nodes'[index] = nodes[p]
      /\ \A i \in 0 .. size : i # index => nodes'[i] = nodes[i]
  BY SiftUpSound
<1>2. /\ pc = "up" /\ pc' = "up" /\ size' = size /\ held' = held
      /\ spoiled' = spoiled /\ size \in Nat /\ Occupied = (0 .. size) \ {index}
  BY SoundFacts DEF SiftUp
<1>3. Occupied' = (0 .. size) \ {p}
  BY <1>1, <1>2 DEF Occupied
<1> HIDE DEF p
<1>4. /\ p \in 0 .. size /\ p # index
      /\ Filled(S, p, Occupied) /\ Filled(S, index, Occupied')
  BY <1>1, <1>2, <1>3 DEF Filled
<1>5. IsFiniteSet(S) /\ Agree(nodes, nodes', S)
  <2>1. IsFiniteSet(0 .. size) /\ S \subseteq 0 .. size
    BY <1>2, IntervalFacts
  <2> QED BY <1>1, <2>1, FS_Subset DEF Agree
<1> HIDE DEF S
<1>6. CountOf(Occupied', nodes', held) = CountOf(Occupied, nodes, held)
  BY ONLY <1>1, <1>4, <1>5, CountMoved
<1> QED BY <1>2, <1>4, <1>6, CountIs

LEMMA PushPlaceStutters ==
  ASSUME Sound, pc = "up", PushPlace, spoiled' \in BOOLEAN
  PROVE  Count' = Count
<1> DEFINE S == (0 .. size) \ {index}
<1>1. /\ nodes'[index] = held
      /\ \A i \in 0 .. size : i # index => nodes'[i] = nodes[i]
  BY PushPlaceSound
<1>2. /\ pc' = "idle" /\ size' = size + 1 /\ held' = Empty
      /\ size \in Nat /\ Occupied = S /\ index \in 0 .. size
  BY SoundFacts DEF PushPlace
<1>3. Filled(S, index, Occupied')
  BY <1>2 DEF Occupied, Filled
<1>4. IsFiniteSet(S) /\ Agree(nodes, nodes', S)
  <2>1. IsFiniteSet(0 .. size) /\ S \subseteq 0 .. size
    BY <1>2, IntervalFacts
  <2> QED BY <1>1, <2>1, FS_Subset DEF Agree
<1> HIDE DEF S
<1>5. CountOf(Occupied', nodes', Empty) = CountOf(S, nodes, held)
  BY ONLY <1>1, <1>3, <1>4, CountPlaced
<1> QED BY <1>2, <1>3, <1>5, CountIs

\* The only value is the greatest.
LEMMA PopOnlyPops ==
  ASSUME Sound, PopOnly
  PROVE  nodes[0] \in Value /\ PB!Pop(nodes[0])
<1> DEFINE v == nodes[0]
<1>1. /\ pc = "idle" /\ pc' = "idle" /\ size = 1 /\ size' = 0
      /\ spoiled' = FALSE /\ held = Empty /\ held' = Empty
  BY DEF PopOnly, Sound, TypeOK
<1>2. Occupied = {0} /\ Occupied' = {} /\ v \in Value
  <2>1. Occupied = 0 .. 0 /\ Occupied' = 0 .. 0 - 1
    BY <1>1 DEF Occupied
  <2>2. 0 \in Occupied /\ Occupied = {0} /\ Occupied' = {}
    BY <2>1
  <2> QED BY <2>2, SoundFacts
<1>3. IsFiniteSet({}) /\ Filled({}, 0, {0})
  BY FS_EmptySet DEF Filled
<1>4. CountOf({0}, nodes, Empty) = CountOf({}, nodes', v)
  BY <1>3, CountPlaced DEF Agree
<1>5. OneMore(CountOf({}, nodes', v), CountOf({}, nodes', Empty), v)
  <2>1. Agree(nodes', nodes', {})
    BY DEF Agree
  <2> HIDE DEF v
  <2> QED BY ONLY <1>2, <1>3, <2>1, CountTaken, Zenon
<1>6. /\ Count = CountOf({}, nodes', v)
      /\ Count' = CountOf({}, nodes', Empty) /\ Count' = PB!NoValues
  BY <1>1, <1>2, <1>3, <1>4, CountIs, CountEmpty
<1> HIDE DEF v
<1>7. \A w \in Value : Count[w] = IF w = v THEN 1 ELSE 0
  BY <1>2, <1>5, <1>6 DEF PB!NoValues, OneMore
<1>8. Ranking[v] \in Int
  BY <1>2, ValueAssumption
<1>9. Count' = [Count EXCEPT ![v] = @ - 1]
  BY <1>5, <1>6 DEF OneMore
<1>10. Count[v] > 0 /\ \A w \in Value : Count[w] > 0 => Ranking[w] <= Ranking[v]
  BY <1>2, <1>7, <1>8
<1>11. PB!Pop(v)
  BY <1>1, <1>6, <1>9, <1>10 DEF PB!Pop
<1> QED BY <1>2, <1>11 DEF v

\* The root goes; the last value, taken up in its place, still counts.
LEMMA PopBeginPops ==
  ASSUME IInv, PopBegin
  PROVE  nodes[0] \in Value /\ PB!Pop(nodes[0])
<1> DEFINE v == nodes[0]
           u == nodes[size - 1]
           S == 1 .. size - 2
           T == 1 .. size - 1
<1>0. Sound
  BY DEF IInv, Sound
<1>1. \A i \in 0 .. size - 2 : nodes'[i] = nodes[i]
  BY <1>0, PopBeginSound
<1>2. /\ pc = "idle" /\ pc' = "down" /\ size > 1 /\ size' = size - 1 /\ index' = 0
      /\ spoiled' = spoiled /\ held = Empty /\ held' = u /\ size \in Nat
      /\ Occupied = 0 .. size - 1
      /\ \A i \in Occupied : nodes[i] \in Value
  BY <1>0, SoundFacts DEF PopBegin, Sound, TypeOK
<1>3. v \in Value /\ u \in Value
  BY <1>2
<1>4. /\ Filled(T, 0, Occupied) /\ Filled(S, size - 1, T)
      /\ Agree(nodes', nodes, S)
  BY <1>1, <1>2 DEF Filled, Agree
<1>5. Occupied' = S
  <2>1. Occupied' = (0 .. (size - 1) - 1) \ {0}
    BY <1>2 DEF Occupied
  <2> QED BY <1>2, <2>1
<1>6. IsFiniteSet(S) /\ IsFiniteSet(T) /\ IsFiniteSet(Occupied)
  <2>1. size - 1 \in Int /\ size - 2 \in Int
    BY <1>2
  <2>2. IsFiniteSet(S) /\ IsFiniteSet(T) /\ IsFiniteSet(0 .. size - 1)
    BY <2>1, FS_Interval
  <2> QED BY <1>2, <2>2
<1>7. ASSUME ~spoiled, NEW w \in Value, Count[w] > 0
      PROVE  Ranking[w] <= Ranking[v]
  <2>0. Count = CountOf(Occupied, nodes, Empty) /\ IsFiniteSet(Occupied)
    BY <1>2, <1>4, <1>6, CountIs
  <2>1. Count[w] = Tally(Occupied, nodes, w)
    BY <2>0, CountNat
  <2>2. PICK i \in Occupied : nodes[i] = w
    BY <1>7, <2>0, <2>1, TallyNat
  <2>3. Ranking[w] \in Int /\ Ranking[v] \in Int
    BY <1>3, ValueAssumption
  <2>4. CASE i = 0
    BY <2>2, <2>3, <2>4
  <2>5. CASE i # 0
    <3>1. i \in 1 .. size - 1
      BY <1>2, <2>2, <2>5
    <3>2. OrderedBut(nodes, size, {})
      BY <1>2, <1>7 DEF IInv, SiftInv
    <3>3. ~Above(nodes[i], nodes[0])
      BY <1>2, <3>1, <3>2, OrderReachesRoot
    <3> QED BY <2>2, <2>3, <3>3 DEF Above
  <2> QED BY <2>4, <2>5
<1> HIDE DEF S, T, u
<1>8. CountOf(T, nodes, Empty) = CountOf(S, nodes', u)
  BY <1>4, <1>6, CountPlaced DEF u
<1>9. CountOf(Occupied, nodes, Empty) = CountOf(T, nodes, v)
  <2>1. Agree(nodes, nodes, T)
    BY DEF Agree
  <2> QED BY ONLY <1>4, <1>6, <2>1, CountPlaced
<1>10. OneMore(CountOf(T, nodes, v), CountOf(T, nodes, Empty), v)
  <2>1. Agree(nodes, nodes, T)
    BY DEF Agree
  <2> HIDE DEF v
  <2> QED BY ONLY <1>3, <1>6, <2>1, CountTaken, Zenon
<1>11. /\ Count = CountOf(T, nodes, v) /\ Count' = CountOf(T, nodes, Empty)
       /\ Count' = CountOf(S, nodes', u)
  BY <1>2, <1>4, <1>5, <1>8, <1>9, CountIs
<1> HIDE DEF v
<1>12. Count' = [Count EXCEPT ![v] = @ - 1] /\ Count' # PB!NoValues
  BY <1>3, <1>6, <1>10, <1>11, CountEmpty DEF OneMore
<1>13. Count[v] > 0
  <2>1. Count[v] = Tally(T, nodes, v) + 1 /\ Tally(T, nodes, v) \in Nat
    BY <1>3, <1>6, <1>11, CountNat DEF One
  <2> QED BY <2>1
<1>14. spoiled' = (spoiled /\ Count' # PB!NoValues)
  BY <1>0, <1>2, <1>12 DEF Sound, TypeOK
<1>15. PB!Pop(v)
  BY <1>7, <1>12, <1>13, <1>14 DEF PB!Pop
<1> QED BY <1>3, <1>15 DEF v

LEMMA SiftDownStutters ==
  ASSUME Sound, SiftDown
  PROVE  UNCHANGED <<Count, spoiled>>
<1> DEFINE c == LargerChild(index)
           S == (0 .. size - 1) \ {index, c}
<1>1. /\ index' = c /\ nodes'[index] = nodes[c]
      /\ \A i \in 0 .. size - 1 : i # index => nodes'[i] = nodes[i]
  BY SiftDownSound
<1>2. /\ pc = "down" /\ pc' = "down" /\ size' = size /\ held' = held
      /\ spoiled' = spoiled /\ size \in Nat /\ Occupied = (0 .. size - 1) \ {index}
      /\ index \in Nat
  BY SoundFacts DEF SiftDown
<1>3. c \in 0 .. size - 1 /\ c > index
  BY LargerChildFacts DEF SiftDown
<1>4. Occupied' = (0 .. size - 1) \ {c}
  BY <1>1, <1>2 DEF Occupied
<1> HIDE DEF c
<1>5. /\ index \in 0 .. size - 1 /\ c # index
      /\ Filled(S, c, Occupied) /\ Filled(S, index, Occupied')
  BY <1>2, <1>3, <1>4 DEF Filled
<1>6. IsFiniteSet(S) /\ Agree(nodes, nodes', S)
  <2>1. IsFiniteSet(0 .. size - 1) /\ S \subseteq 0 .. size - 1
    BY <1>2, IntervalFacts
  <2> QED BY <1>1, <2>1, FS_Subset DEF Agree
<1> HIDE DEF S
<1>7. CountOf(Occupied', nodes', held) = CountOf(Occupied, nodes, held)
  BY ONLY <1>1, <1>5, <1>6, CountMoved
<1> QED BY <1>2, <1>5, <1>7, CountIs

LEMMA PopPlaceStutters ==
  ASSUME Sound, pc = "down", PopPlace, spoiled' \in BOOLEAN
  PROVE  Count' = Count
<1> DEFINE S == (0 .. size - 1) \ {index}
<1>1. /\ index < size
      /\ index < size => nodes'[index] = held
      /\ \A i \in 0 .. size - 1 : i # index => nodes'[i] = nodes[i]
  BY PopPlaceSound DEF Sound, NodesHoldValues
<1>2. /\ pc' = "idle" /\ size' = size /\ held' = Empty
      /\ size \in Nat /\ Occupied = S /\ index \in Nat
  BY SoundFacts DEF PopPlace
<1>3. Filled(S, index, Occupied')
  BY <1>1, <1>2 DEF Occupied, Filled
<1>4. IsFiniteSet(S) /\ Agree(nodes, nodes', S)
  <2>1. IsFiniteSet(0 .. size - 1) /\ S \subseteq 0 .. size - 1
    BY <1>2, IntervalFacts
  <2> QED BY <1>1, <2>1, FS_Subset DEF Agree
<1> HIDE DEF S
<1>5. CountOf(Occupied', nodes', Empty) = CountOf(S, nodes, held)
  BY ONLY <1>1, <1>3, <1>4, CountPlaced
<1> QED BY <1>2, <1>3, <1>5, CountIs

\* A comparator that throws ends the sift; the bag only loses its order.
LEMMA ThrowsSpoils ==
  ASSUME Sound, Throws
  PROVE  PB!Spoil
BY PushPlaceStutters, PopPlaceStutters DEF Throws, PushThrows, PopThrows, PB!Spoil

LEMMA ClearClears ==
  ASSUME Sound, Clear
  PROVE  PB!Clear
<1>1. /\ Occupied' = 0 .. 0 - 1 /\ held' = Empty /\ spoiled' = FALSE
  BY DEF Clear, Occupied, Sound, TypeOK
<1>2. Occupied' = {}
  BY <1>1
<1> QED BY <1>1, <1>2, CountIs, CountEmpty DEF PB!Clear

LEMMA EnsureCapacityStutters ==
  ASSUME Sound, NEW n \in 0 .. MaxSize, EnsureCapacity(n)
  PROVE  UNCHANGED <<Count, spoiled>>
<1> DEFINE c == CapacityFor(n)
           S == 0 .. size - 1
<1>1. c \in Nat /\ c > capacity
  BY CapacityForFacts, CapacityFacts DEF EnsureCapacity
<1>2. /\ nodes \in [0 .. capacity - 1 -> Value \union {Empty}]
      /\ capacity \in Nat /\ size \in Nat /\ size <= capacity
      /\ pc = "idle" /\ Occupied = S /\ held = Empty
  BY SoundFacts DEF Sound, TypeOK, EnsureCapacity
<1>3. /\ nodes' = Resized(nodes, c)
      /\ UNCHANGED <<size, pc, index, held, spoiled>>
  BY DEF EnsureCapacity
<1> HIDE DEF c
<1>4. \A i \in 0 .. c - 1 : i < capacity => nodes'[i] = nodes[i]
  BY <1>1, <1>2, <1>3, ResizedFacts
<1>5. \A i \in S : nodes'[i] = nodes[i]
  BY <1>1, <1>2, <1>4
<1>6. Occupied' = S
  BY <1>2, <1>3 DEF Occupied
<1> HIDE DEF S
<1>7. CountOf(S, nodes', held) = CountOf(S, nodes, held)
  <2>1. {i \in S : nodes'[i] = nodes[i]} = S
    BY <1>5
  <2>2. \A v : {i \in S : nodes'[i] = v} = {i \in S : nodes[i] = v}
    BY <1>5
  <2> QED BY <2>2 DEF CountOf, Tally
<1> QED BY <1>2, <1>3, <1>6, <1>7, CountIs

LEMMA BagStutters ==
  ASSUME UNCHANGED vars
  PROVE  UNCHANGED <<Count, spoiled>>
<1>1. Occupied' = Occupied /\ nodes' = nodes /\ held' = held /\ spoiled' = spoiled
  BY DEF Occupied, vars
<1> QED BY <1>1, CountIs

LEMMA StepStutters ==
  ASSUME Sound, Step
  PROVE  UNCHANGED <<Count, spoiled>>
<1>1. CASE PushEnd
  BY <1>1, PushPlaceStutters DEF PushEnd, Sound, TypeOK
<1>2. CASE PopEnd
  BY <1>2, PopPlaceStutters DEF PopEnd, Sound, TypeOK
<1> QED BY <1>1, <1>2, SiftUpStutters, SiftDownStutters DEF Step

LEMMA InitBag == Init => PB!Init
<1> SUFFICES ASSUME Init PROVE PB!Init
  OBVIOUS
<1>1. /\ Occupied = 0 .. 0 - 1 /\ held = Empty /\ spoiled = FALSE
  BY DEF Init, Occupied
<1>2. Occupied = {}
  BY <1>1
<1> QED BY <1>1, <1>2, CountIs, CountEmpty DEF PB!Init

\* The heap implements a priority bag: the first step of a push adds its value,
\* the first step of a pop takes out a greatest one, the sifts only move values
\* about, and a comparator that throws gives up the order until the heap is empty
\* (ds_heap.c:107-183).
THEOREM RefinesPriorityBag == Spec => ImplementsPriorityBag
<1>1. ASSUME IInv, [Next]_vars
      PROVE  PB!Next \/ UNCHANGED <<Count, spoiled>>
  <2>0. Sound
    BY <1>1 DEF IInv, Sound
  <2>1. CASE \E v \in Value : PushBegin(v)
    BY <2>0, <2>1, PushBeginPushes DEF PB!Next
  <2>2. CASE PopOnly
    BY <2>0, <2>2, PopOnlyPops DEF PB!Next
  <2>3. CASE PopBegin
    BY <1>1, <2>3, PopBeginPops DEF PB!Next
  <2>4. CASE Step
    BY <2>0, <2>4, StepStutters
  <2>5. CASE Throws
    BY <2>0, <2>5, ThrowsSpoils DEF PB!Next
  <2>6. CASE Clear
    BY <2>0, <2>6, ClearClears DEF PB!Next
  <2>7. CASE \E n \in 0 .. MaxSize : EnsureCapacity(n)
    BY <2>0, <2>7, EnsureCapacityStutters
  <2>8. CASE UNCHANGED vars
    BY <2>8, BagStutters
  <2> QED BY <1>1, <2>1, <2>2, <2>3, <2>4, <2>5, <2>6, <2>7, <2>8 DEF Next
<1>2. IInv /\ [Next]_vars => [PB!Next]_<<Count, spoiled>>
  BY <1>1
<1> QED BY <1>2, InitBag, Invariant, PTL DEF Spec, ImplementsPriorityBag, PB!Spec

-----------------------------------------------------------------------------
(* The three changes to the methods under way, element by element.          *)

\* The same method, but for the disturbed flag (Disturbed and Finish).
SameMethod(s, m) ==
  /\ s.uses = m.uses /\ s.by = m.by /\ s.sorts = m.sorts
  /\ s.saved = m.saved /\ s.calling = m.calling

\* Entered puts one method on top.
LEMMA EnteredOnTop ==
  ASSUME NEW ms \in Seq(Method), NEW m \in Method, NEW es, es = Append(ms, m)
  PROVE  /\ es \in Seq(Method)
         /\ Len(es) = Len(ms) + 1
         /\ \A n \in 1 .. Len(ms) : es[n] = ms[n]
         /\ es[Len(ms) + 1] = m
  OBVIOUS

\* Disturbed may set the flag of the innermost method, and nothing else; the
\* flag is set unless that method goes on with its callable.
LEMMA DisturbedAtTop ==
  ASSUME NEW ms \in Seq(Method), NEW c
  PROVE  LET ds == Disturbed(ms, c)
         IN  /\ ds \in Seq(Method)
             /\ Len(ds) = Len(ms)
             /\ \A n \in 1 .. Len(ms) : SameMethod(ds[n], ms[n])
             /\ \A n \in 1 .. Len(ms) : n < Len(ms) => ds[n] = ms[n]
             /\ ms # << >> /\ ~ds[Len(ms)].disturbed =>
                  ~ms[Len(ms)].disturbed /\ ms[Len(ms)].uses = c
<1>1. CASE ms = << >>
  BY <1>1 DEF Disturbed, SameMethod
<1>2. CASE ms # << >>
  <2> DEFINE l == Len(ms)
             m == ms[l]
             d == [m EXCEPT !.disturbed = @ \/ m.uses # c]
  <2>1. l \in 1 .. Len(ms) /\ m \in Method
    BY <1>2
  <2>2. Disturbed(ms, c) = [ms EXCEPT ![l] = d]
    BY <1>2 DEF Disturbed
  <2>3. /\ d \in Method
        /\ SameMethod(d, m)
        /\ ~d.disturbed => ~m.disturbed /\ m.uses = c
    BY <2>1 DEF Method, SameMethod
  <2> HIDE DEF d
  <2>4. /\ [ms EXCEPT ![l] = d] \in Seq(Method)
        /\ Len([ms EXCEPT ![l] = d]) = Len(ms)
        /\ \A n \in 1 .. Len(ms) : [ms EXCEPT ![l] = d][n] = IF n = l THEN d ELSE ms[n]
    BY <2>1, <2>3
  <2> HIDE DEF l, m
  <2>5. \A n \in 1 .. Len(ms) : SameMethod(ms[n], ms[n])
    BY DEF SameMethod
  <2> QED
    BY <2>1, <2>2, <2>3, <2>4, <2>5 DEF l, m
<1> QED
  BY <1>1, <1>2

\* Below are all methods but the innermost.
LEMMA BelowIsPrefix ==
  ASSUME methods \in Seq(Method), methods # << >>
  PROVE  /\ Below \in Seq(Method)
         /\ Len(Below) = Len(methods) - 1
         /\ \A n \in 1 .. Len(methods) - 1 : Below[n] = methods[n]
  BY DEF Below

\* A method's ending may set the flag of its caller, and nothing else; the
\* flag is set unless neither was disturbed, or the method was a sort.
LEMMA FinishedAtTop ==
  ASSUME SlotTypeOK, Finish
  PROVE  LET l == Len(methods) - 1
         IN  /\ methods' \in Seq(Method)
             /\ Len(methods') = l
             /\ \A n \in 1 .. l : SameMethod(methods'[n], methods[n])
             /\ \A n \in 1 .. l : n < l => methods'[n] = methods[n]
             /\ l > 0 /\ ~methods'[l].disturbed =>
                  ~methods[l].disturbed /\ (Top.sorts \/ ~Top.disturbed)
<1> DEFINE l == Len(methods) - 1
<1>1. methods \in Seq(Method) /\ methods # << >>
  BY DEF SlotTypeOK, Finish
<1>2. /\ Below \in Seq(Method)
      /\ Len(Below) = l
      /\ \A n \in 1 .. l : Below[n] = methods[n]
  BY <1>1, BelowIsPrefix
<1>3. \A n \in 1 .. l : SameMethod(methods[n], methods[n])
  BY DEF SameMethod
<1>4. CASE Below = << >> \/ Top.sorts
  <2>1. methods' = Below
    BY <1>4 DEF Finish
  <2>2. l > 0 => Below # << >>
    BY <1>2
  <2> HIDE DEF l
  <2>3. l > 0 => l \in 1 .. l
    BY <1>1 DEF l
  <2> QED
    BY <1>2, <1>3, <1>4, <2>1, <2>2, <2>3 DEF l
<1>5. CASE Below # << >> /\ ~Top.sorts
  <2> DEFINE m == Below[l]
             d == [m EXCEPT !.disturbed = @ \/ Top.disturbed]
  <2>1. l \in 1 .. l /\ m \in Method
    BY <1>2, <1>5
  <2>2. methods' = [Below EXCEPT ![l] = d]
    BY <1>2, <1>5 DEF Finish
  <2>3. /\ d \in Method
        /\ SameMethod(d, m)
        /\ ~d.disturbed => ~m.disturbed /\ ~Top.disturbed
    BY <2>1 DEF Method, SameMethod
  <2> HIDE DEF d
  <2>4. /\ [Below EXCEPT ![l] = d] \in Seq(Method)
        /\ Len([Below EXCEPT ![l] = d]) = l
        /\ \A n \in 1 .. l : [Below EXCEPT ![l] = d][n] = IF n = l THEN d ELSE Below[n]
    BY <1>2, <2>1, <2>3
  <2> HIDE DEF l, m
  <2>5. m = methods[l]
    BY <1>2, <2>1 DEF m
  <2> QED
    BY <1>2, <1>3, <2>1, <2>2, <2>3, <2>4, <2>5 DEF l
<1> QED
  BY <1>4, <1>5

\* A change of the top method's calling flag.
LEMMA CallingAtTop ==
  ASSUME methods \in Seq(Method), methods # << >>, NEW c \in BOOLEAN,
         methods' = [methods EXCEPT ![Len(methods)].calling = c]
  PROVE  LET l == Len(methods)
         IN  /\ methods' \in Seq(Method)
             /\ Len(methods') = l
             /\ methods' # << >>
             /\ \A n \in 1 .. l :
                  /\ methods'[n].uses = methods[n].uses
                  /\ methods'[n].by = methods[n].by
                  /\ methods'[n].sorts = methods[n].sorts
                  /\ methods'[n].saved = methods[n].saved
                  /\ methods'[n].disturbed = methods[n].disturbed
             /\ \A n \in 1 .. l : n < l => methods'[n] = methods[n]
<1> DEFINE l == Len(methods)
           m == methods[l]
           d == [m EXCEPT !.calling = c]
<1>1. l \in 1 .. l /\ m \in Method
  OBVIOUS
<1>2. methods' = [methods EXCEPT ![l] = d]
  OBVIOUS
<1>3. /\ d \in Method
      /\ d.uses = m.uses /\ d.by = m.by /\ d.sorts = m.sorts
      /\ d.saved = m.saved /\ d.disturbed = m.disturbed
  BY <1>1 DEF Method
<1> HIDE DEF d
<1>4. /\ [methods EXCEPT ![l] = d] \in Seq(Method)
      /\ Len([methods EXCEPT ![l] = d]) = l
      /\ \A n \in 1 .. l : [methods EXCEPT ![l] = d][n] = IF n = l THEN d ELSE methods[n]
  BY <1>1, <1>3
<1> QED
  BY <1>1, <1>2, <1>3, <1>4

-----------------------------------------------------------------------------
(* The inductive invariant, by the three things that happen to the stack.   *)

\* A call that starts a method which compares with what is then in the slot.
LEMMA EnteringKeepsSlotIInv ==
  ASSUME SlotIInv, UserRuns,
         NEW by \in Iterator \union {None}, NEW sorts \in BOOLEAN, NEW saved \in Callable,
         slot' \in Callable,
         methods' \in Seq(Method),
         Len(methods') = Len(methods) + 1,
         \A n \in 1 .. Len(methods) : SameMethod(methods'[n], methods[n]),
         \A n \in 1 .. Len(methods) : n < Len(methods) => methods'[n] = methods[n],
         methods'[Len(methods) + 1] = [uses |-> slot', by |-> by, sorts |-> sorts,
                                       saved |-> saved, calling |-> FALSE, disturbed |-> FALSE],
         methods # << >> /\ ~methods'[Len(methods)].disturbed =>
           /\ ~Top.disturbed
           /\ IF sorts THEN saved = Top.uses ELSE slot' = Top.uses,
         over' = over,
         by # None => by \notin running /\ over[by] # None,
         running' = running \union ({by} \ {None})
  PROVE  SlotIInv'
<1> DEFINE l == Len(methods)
           m == methods'[l + 1]
<1>1. /\ methods \in Seq(Method) /\ l \in Nat
      /\ DOMAIN methods = 1 .. l /\ DOMAIN methods' = 1 .. l + 1
      /\ l > 0 <=> methods # << >>
      /\ Top = methods[l]
  BY DEF SlotIInv, SlotTypeOK, Top
<1>2. /\ m.uses = slot' /\ m.by = by /\ m.sorts = sorts /\ m.saved = saved
      /\ ~m.disturbed
  OBVIOUS
<1>3. l + 1 \in 1 .. l + 1 /\ methods'[l + 1] = m
  BY <1>1
<1>4. \A n \in 1 .. l : methods'[n].by = methods[n].by /\ methods'[n].calling = methods[n].calling
  BY DEF SameMethod
<1>0. \A n \in 1 .. l : n < l \/ n = l
  OBVIOUS
<1> HIDE DEF m
<1>5. SlotTypeOK'
  <2>1. \A n \in DOMAIN methods' : n < Len(methods') => methods'[n].calling
    <3> SUFFICES ASSUME NEW n \in 1 .. l
                 PROVE  methods[n].calling
      BY <1>1, <1>4
    <3>1. CASE n < l
      BY <1>1, <3>1 DEF SlotIInv, SlotTypeOK
    <3>2. CASE n = l
      BY <1>1, <3>2 DEF UserRuns
    <3> QED
      BY <1>0, <3>1, <3>2
  <2>2. {methods'[n].by : n \in 1 .. l + 1} = {methods[n].by : n \in 1 .. l} \union {by}
    <3>1. 1 .. l + 1 = (1 .. l) \union {l + 1}
      BY <1>1
    <3> QED
      BY <1>2, <1>3, <1>4, <3>1
  <2>3. running = {methods[n].by : n \in 1 .. l} \ {None}
    BY <1>1 DEF SlotIInv, SlotTypeOK
  <2>4. running' = {methods'[n].by : n \in DOMAIN methods'} \ {None}
    BY <1>1, <2>2, <2>3
  <2>5. \A i \in running' : over'[i] # None
    BY DEF SlotIInv, SlotTypeOK
  <2> QED
    BY <2>1, <2>4, <2>5 DEF SlotIInv, SlotTypeOK
<1>6. Nested'
  <2> SUFFICES ASSUME NEW n \in 1 .. l, ~methods'[n].disturbed
               PROVE  IF methods'[n + 1].sorts
                      THEN methods'[n + 1].saved = methods'[n].uses
                      ELSE \/ methods'[n + 1].disturbed
                           \/ methods'[n + 1].uses = methods'[n].uses
    BY <1>1 DEF Nested
  <2>1. CASE n = l
    <3>1. l > 0
      BY <1>1, <2>1
    <3>2. methods'[l].uses = Top.uses
      BY <1>1, <2>1 DEF SameMethod
    <3> QED
      BY <1>1, <1>2, <1>3, <2>1, <3>1, <3>2
  <2>2. CASE n < l
    <3>1. n + 1 \in 1 .. l
      BY <1>1, <2>2
    <3>2. methods'[n] = methods[n]
      BY <2>2
    <3>3. SameMethod(methods'[n + 1], methods[n + 1])
      BY <3>1
    <3>4. methods[n + 1].disturbed => methods'[n + 1].disturbed
      <4>1. CASE n + 1 < l
        BY <3>1, <4>1
      <4>2. CASE n + 1 = l
        BY <1>1, <3>1, <4>2
      <4> QED
        BY <1>0, <3>1, <4>1, <4>2
    <3>5. IF methods[n + 1].sorts
          THEN methods[n + 1].saved = methods[n].uses
          ELSE methods[n + 1].disturbed \/ methods[n + 1].uses = methods[n].uses
      BY <1>1, <2>2, <3>2 DEF SlotIInv, Nested
    <3> QED
      BY <3>2, <3>3, <3>4, <3>5 DEF SameMethod
  <2> QED
    BY <1>0, <2>1, <2>2
<1>7. UndisturbedKeepTheirs'
  BY <1>1, <1>2, <1>3 DEF UndisturbedKeepTheirs, Top
<1>8. IteratorsNotReentered'
  <2> SUFFICES ASSUME NEW j \in 1 .. l + 1, NEW k \in 1 .. l + 1,
                      methods'[j].by = methods'[k].by, methods'[j].by # None
               PROVE  j = k
    BY <1>1 DEF IteratorsNotReentered
  <2>1. \A n \in 1 .. l : methods[n].by = by => by = None
    BY <1>1 DEF SlotIInv, SlotTypeOK
  <2>2. CASE j \in 1 .. l /\ k \in 1 .. l
    BY <1>1, <1>4, <2>2 DEF SlotIInv, IteratorsNotReentered
  <2>3. CASE j = l + 1 /\ k \in 1 .. l
    BY <1>2, <1>3, <1>4, <2>1, <2>3
  <2>4. CASE k = l + 1 /\ j \in 1 .. l
    BY <1>2, <1>3, <1>4, <2>1, <2>4
  <2> QED
    BY <1>1, <2>2, <2>3, <2>4
<1> QED
  BY <1>5, <1>6, <1>7, <1>8 DEF SlotIInv

\* A step that starts and ends no method.
LEMMA StayingKeepsSlotIInv ==
  ASSUME SlotIInv,
         slot' \in Callable,
         methods' \in Seq(Method),
         Len(methods') = Len(methods),
         \A n \in 1 .. Len(methods) :
           /\ methods'[n].uses = methods[n].uses
           /\ methods'[n].by = methods[n].by
           /\ methods'[n].sorts = methods[n].sorts
           /\ methods'[n].saved = methods[n].saved,
         \A n \in 1 .. Len(methods) : n < Len(methods) => methods'[n] = methods[n],
         methods # << >> /\ ~methods'[Len(methods)].disturbed =>
           ~Top.disturbed /\ slot' = Top.uses,
         over' \in [Iterator -> Heap \union {None}],
         \A i \in running : over'[i] # None,
         running' = running
  PROVE  SlotIInv'
<1> DEFINE l == Len(methods)
<1>1. /\ methods \in Seq(Method) /\ l \in Nat
      /\ DOMAIN methods = 1 .. l /\ DOMAIN methods' = 1 .. l
      /\ l > 0 <=> methods # << >>
      /\ l > 0 <=> methods' # << >>
      /\ Top = methods[l]
  BY DEF SlotIInv, SlotTypeOK, Top
<1>2. \A n \in 1 .. l : n < l \/ n = l
  OBVIOUS
<1>3. SlotTypeOK'
  <2>1. \A n \in DOMAIN methods' : n < Len(methods') => methods'[n].calling
    BY <1>1 DEF SlotIInv, SlotTypeOK
  <2>2. {methods'[n].by : n \in DOMAIN methods'} = {methods[n].by : n \in DOMAIN methods}
    BY <1>1
  <2> QED
    BY <2>1, <2>2 DEF SlotIInv, SlotTypeOK
<1>4. Nested'
  <2> SUFFICES ASSUME NEW n \in 1 .. l, n < l, ~methods'[n].disturbed
               PROVE  IF methods'[n + 1].sorts
                      THEN methods'[n + 1].saved = methods'[n].uses
                      ELSE \/ methods'[n + 1].disturbed
                           \/ methods'[n + 1].uses = methods'[n].uses
    BY <1>1 DEF Nested
  <2>1. n + 1 \in 1 .. l
    BY <1>1
  <2>2. methods'[n] = methods[n]
    OBVIOUS
  <2>3. methods[n + 1].disturbed => methods'[n + 1].disturbed
    <3>1. CASE n + 1 < l
      BY <2>1, <3>1
    <3>2. CASE n + 1 = l
      BY <1>1, <2>1, <3>2
    <3> QED
      BY <1>2, <2>1, <3>1, <3>2
  <2>4. IF methods[n + 1].sorts
        THEN methods[n + 1].saved = methods[n].uses
        ELSE methods[n + 1].disturbed \/ methods[n + 1].uses = methods[n].uses
    BY <1>1, <2>2 DEF SlotIInv, Nested
  <2> QED
    BY <2>1, <2>2, <2>3, <2>4
<1>5. UndisturbedKeepTheirs'
  <2> SUFFICES ASSUME methods' # << >>, ~methods'[l].disturbed
               PROVE  slot' = methods'[l].uses
    BY DEF UndisturbedKeepTheirs, Top
  <2>1. l \in 1 .. l
    BY <1>1
  <2> QED
    BY <1>1, <2>1
<1>6. IteratorsNotReentered'
  BY <1>1 DEF SlotIInv, IteratorsNotReentered
<1> QED
  BY <1>3, <1>4, <1>5, <1>6 DEF SlotIInv

\* The end of a method.
LEMMA FinishKeepsSlotIInv ==
  ASSUME SlotIInv, Finish
  PROVE  SlotIInv'
<1> DEFINE l == Len(methods) - 1
<1>1. /\ methods \in Seq(Method) /\ methods # << >> /\ l \in Nat
      /\ DOMAIN methods = 1 .. l + 1
      /\ Top = methods[l + 1] /\ Top \in Method
      /\ slot' = (IF Top.sorts THEN Top.saved ELSE slot)
      /\ running' = running \ {Top.by}
      /\ over' = over
  BY DEF SlotIInv, SlotTypeOK, Top, Finish, Restored, StillRunning
<1>2. /\ methods' \in Seq(Method)
      /\ Len(methods') = l
      /\ \A n \in 1 .. l : SameMethod(methods'[n], methods[n])
      /\ \A n \in 1 .. l : n < l => methods'[n] = methods[n]
      /\ l > 0 /\ ~methods'[l].disturbed =>
           ~methods[l].disturbed /\ (Top.sorts \/ ~Top.disturbed)
  BY FinishedAtTop DEF SlotIInv
<1>3. DOMAIN methods' = 1 .. l /\ (l > 0 <=> methods' # << >>)
  BY <1>2
<1> HIDE DEF l
<1>4. \A n \in 1 .. l : n < l \/ n = l
  BY <1>1
<1>5. SlotTypeOK'
  <2>1. slot' \in Callable
    BY <1>1 DEF SlotIInv, SlotTypeOK, Method
  <2>2. \A n \in DOMAIN methods' : n < Len(methods') => methods'[n].calling
    BY <1>1, <1>2, <1>3 DEF SlotIInv, SlotTypeOK
  <2>3. running' = {methods'[n].by : n \in DOMAIN methods'} \ {None}
    <3>1. 1 .. l + 1 = (1 .. l) \union {l + 1} /\ l + 1 \notin 1 .. l
      BY <1>1
    <3>2. running = {methods[n].by : n \in 1 .. l + 1} \ {None}
      BY <1>1 DEF SlotIInv, SlotTypeOK
    <3>3. \A n \in 1 .. l : methods[n].by = methods[l + 1].by => methods[n].by = None
      BY <1>1, <3>1 DEF SlotIInv, IteratorsNotReentered
    <3>4. \A n \in 1 .. l : methods'[n].by = methods[n].by
      BY <1>2 DEF SameMethod
    <3> QED
      BY <1>1, <1>3, <3>1, <3>2, <3>3, <3>4
  <2> QED
    BY <1>1, <1>2, <2>1, <2>2, <2>3 DEF SlotIInv, SlotTypeOK
<1>6. Nested'
  <2> SUFFICES ASSUME NEW n \in 1 .. l, n < l, ~methods'[n].disturbed
               PROVE  IF methods'[n + 1].sorts
                      THEN methods'[n + 1].saved = methods'[n].uses
                      ELSE \/ methods'[n + 1].disturbed
                           \/ methods'[n + 1].uses = methods'[n].uses
    BY <1>2, <1>3 DEF Nested
  <2>1. n + 1 \in 1 .. l /\ n \in 1 .. l + 1 /\ n < l + 1
    BY <1>1
  <2>2. methods'[n] = methods[n] /\ SameMethod(methods'[n + 1], methods[n + 1])
    BY <1>2, <2>1
  <2>3. methods[n + 1].disturbed => methods'[n + 1].disturbed
    <3>1. CASE n + 1 < l
      BY <1>2, <2>1, <3>1
    <3>2. CASE n + 1 = l
      BY <1>1, <1>2, <2>1, <3>2
    <3> QED
      BY <1>4, <2>1, <3>1, <3>2
  <2>4. IF methods[n + 1].sorts
        THEN methods[n + 1].saved = methods[n].uses
        ELSE methods[n + 1].disturbed \/ methods[n + 1].uses = methods[n].uses
    <3>1. n < Len(methods) /\ n \in DOMAIN methods
      BY <1>1, <2>1 DEF l
    <3> QED
      BY <2>2, <3>1 DEF SlotIInv, Nested
  <2> QED
    BY <2>2, <2>3, <2>4 DEF SameMethod
<1>7. UndisturbedKeepTheirs'
  <2> SUFFICES ASSUME methods' # << >>, ~methods'[l].disturbed
               PROVE  slot' = methods'[l].uses
    BY <1>2 DEF UndisturbedKeepTheirs, Top
  <2>1. l \in 1 .. l /\ l > 0 /\ l \in 1 .. l + 1
    BY <1>1, <1>3
  <2>2. ~methods[l].disturbed /\ (Top.sorts \/ ~Top.disturbed)
    BY <1>2, <2>1
  <2>3. methods'[l].uses = methods[l].uses
    BY <1>2, <2>1 DEF SameMethod
  <2>4. IF Top.sorts THEN Top.saved = methods[l].uses
        ELSE Top.disturbed \/ Top.uses = methods[l].uses
    <3>1. l \in DOMAIN methods /\ l < Len(methods)
      BY <1>1, <2>1 DEF l
    <3> QED
      BY <1>1, <2>2, <3>1 DEF SlotIInv, Nested
  <2>5. ~Top.disturbed => slot = Top.uses
    BY <1>1 DEF SlotIInv, UndisturbedKeepTheirs
  <2> QED
    BY <1>1, <2>2, <2>3, <2>4, <2>5
<1>8. IteratorsNotReentered'
  <2> SUFFICES ASSUME NEW j \in 1 .. l, NEW k \in 1 .. l,
                      methods'[j].by = methods'[k].by, methods'[j].by # None
               PROVE  j = k
    BY <1>3 DEF IteratorsNotReentered
  <2>1. methods'[j].by = methods[j].by /\ methods'[k].by = methods[k].by
    BY <1>2 DEF SameMethod
  <2>2. j \in 1 .. l + 1 /\ k \in 1 .. l + 1
    BY <1>1
  <2> QED
    BY <1>1, <2>1, <2>2 DEF SlotIInv, IteratorsNotReentered
<1> QED
  BY <1>5, <1>6, <1>7, <1>8 DEF SlotIInv

-----------------------------------------------------------------------------
(* The theorems.                                                           *)

LEMMA InitSlotIInv == SlotInit => SlotIInv
  BY ComparatorAssumption
  DEF SlotInit, SlotIInv, SlotTypeOK, Callable, Nested, UndisturbedKeepTheirs, IteratorsNotReentered

LEMMA NextKeepsSlotIInv == SlotIInv /\ [SlotNext]_slotVars => SlotIInv'
<1> SUFFICES ASSUME SlotIInv, [SlotNext]_slotVars
             PROVE  SlotIInv'
  OBVIOUS
<1>1. methods \in Seq(Method) /\ slot \in Callable /\ over \in [Iterator -> Heap \union {None}]
  BY DEF SlotIInv, SlotTypeOK
<1>2. ASSUME NEW h \in Heap, HeapMethod(h)
      PROVE  SlotIInv'
  <2> DEFINE ds == Disturbed(methods, h)
  <2>1. /\ ds \in Seq(Method) /\ Len(ds) = Len(methods)
        /\ \A n \in 1 .. Len(methods) : SameMethod(ds[n], methods[n])
        /\ \A n \in 1 .. Len(methods) : n < Len(methods) => ds[n] = methods[n]
        /\ methods # << >> /\ ~ds[Len(methods)].disturbed => ~Top.disturbed /\ Top.uses = h
    BY <1>1, DisturbedAtTop DEF Top
  <2>2. /\ methods' = Entered(ds, h, None, FALSE, None)
        /\ slot' = h /\ h \in Callable /\ None \in Callable
        /\ over' = over /\ running' = running /\ UserRuns
    BY <1>2 DEF HeapMethod, Callable
  <2> HIDE DEF ds
  <2> DEFINE m == [uses |-> h, by |-> None, sorts |-> FALSE,
                   saved |-> None, calling |-> FALSE, disturbed |-> FALSE]
  <2>m. m \in Method
    BY <1>1, <2>2 DEF Method
  <2>e. methods' = Append(ds, m)
    BY <2>2 DEF Entered
  <2> HIDE DEF m
  <2>3. /\ methods' \in Seq(Method)
        /\ Len(methods') = Len(ds) + 1
        /\ \A n \in 1 .. Len(ds) : methods'[n] = ds[n]
        /\ methods'[Len(ds) + 1] = m
    BY <1>1, <2>1, <2>m, <2>e, EnteredOnTop
  <2>4. methods # << >> => Len(methods) \in 1 .. Len(methods)
    BY <1>1
  <2> QED
    BY <2>1, <2>2, <2>3, <2>4, EnteringKeepsSlotIInv DEF m
<1>3. ASSUME NEW h \in Heap, NEW i \in Iterator, GetIterator(h, i)
      PROVE  SlotIInv'
  <2>1. /\ slot' = h /\ h \in Callable /\ methods' = Disturbed(methods, h)
        /\ over' = [over EXCEPT ![i] = h] /\ over[i] = None /\ running' = running
    BY <1>3 DEF GetIterator, Callable
  <2>2. over' \in [Iterator -> Heap \union {None}] /\ \A j \in running : over'[j] # None
    BY <1>1, <2>1 DEF SlotIInv, SlotTypeOK
  <2> QED
    BY <1>1, <2>1, <2>2, DisturbedAtTop, StayingKeepsSlotIInv DEF SameMethod, Top
<1>4. ASSUME NEW i \in Iterator, DropIterator(i)
      PROVE  SlotIInv'
  <2>1. /\ slot' = slot /\ methods' = methods /\ running' = running
        /\ over' = [over EXCEPT ![i] = None] /\ i \notin running
    BY <1>4 DEF DropIterator
  <2>2. over' \in [Iterator -> Heap \union {None}] /\ \A j \in running : over'[j] # None
    BY <1>1, <2>1 DEF SlotIInv, SlotTypeOK
  <2> QED
    BY <1>1, <2>1, <2>2, StayingKeepsSlotIInv DEF SlotIInv, UndisturbedKeepTheirs, Top
<1>5. ASSUME NEW i \in Iterator, Move(i)
      PROVE  SlotIInv'
  <2>1. /\ methods' = Entered(methods, slot, i, FALSE, None)
        /\ slot' = slot /\ over' = over /\ running' = running \union {i}
        /\ over[i] # None /\ i \notin running /\ UserRuns /\ None \in Callable
        /\ i # None
    BY <1>5, ComparatorAssumption DEF Move, Callable
  <2> DEFINE m == [uses |-> slot, by |-> i, sorts |-> FALSE,
                   saved |-> None, calling |-> FALSE, disturbed |-> FALSE]
  <2>m. m \in Method
    BY <1>1, <2>1 DEF Method
  <2>e. methods' = Append(methods, m)
    BY <2>1 DEF Entered
  <2> HIDE DEF m
  <2>2. /\ methods' \in Seq(Method)
        /\ Len(methods') = Len(methods) + 1
        /\ \A n \in 1 .. Len(methods) : methods'[n] = methods[n]
        /\ methods'[Len(methods) + 1] = m
    BY <1>1, <2>1, <2>m, <2>e, EnteredOnTop
  <2>3. methods # << >> /\ ~methods'[Len(methods)].disturbed => ~Top.disturbed /\ slot' = Top.uses
    <3>1. methods # << >> => Len(methods) \in 1 .. Len(methods)
      BY <1>1
    <3> QED
      BY <2>1, <2>2, <3>1 DEF SlotIInv, UndisturbedKeepTheirs, Top
  <2>4. \A n \in 1 .. Len(methods) : SameMethod(methods'[n], methods[n])
    BY <2>2 DEF SameMethod
  <2>5. running' = running \union ({i} \ {None})
    BY <2>1
  <2> QED
    BY <1>1, <2>1, <2>2, <2>3, <2>4, <2>5, EnteringKeepsSlotIInv DEF m
<1>6. ASSUME NEW c \in Sorter \union {None}, Sort(c)
      PROVE  SlotIInv'
  <2>1. /\ methods' = Entered(methods, c, None, TRUE, slot)
        /\ slot' = c /\ c \in Callable /\ over' = over /\ running' = running /\ UserRuns
    BY <1>6 DEF Sort, Callable
  <2> DEFINE m == [uses |-> c, by |-> None, sorts |-> TRUE,
                   saved |-> slot, calling |-> FALSE, disturbed |-> FALSE]
  <2>m. m \in Method
    BY <1>1, <2>1 DEF Method
  <2>e. methods' = Append(methods, m)
    BY <2>1 DEF Entered
  <2> HIDE DEF m
  <2>2. /\ methods' \in Seq(Method)
        /\ Len(methods') = Len(methods) + 1
        /\ \A n \in 1 .. Len(methods) : methods'[n] = methods[n]
        /\ methods'[Len(methods) + 1] = m
    BY <1>1, <2>1, <2>m, <2>e, EnteredOnTop
  <2>3. methods # << >> /\ ~methods'[Len(methods)].disturbed => ~Top.disturbed /\ slot = Top.uses
    <3>1. methods # << >> => Len(methods) \in 1 .. Len(methods)
      BY <1>1
    <3> QED
      BY <2>2, <3>1 DEF SlotIInv, UndisturbedKeepTheirs, Top
  <2>4. \A n \in 1 .. Len(methods) : SameMethod(methods'[n], methods[n])
    BY <2>2 DEF SameMethod
  <2> QED
    BY <1>1, <2>1, <2>2, <2>3, <2>4, EnteringKeepsSlotIInv DEF m
<1>7. ASSUME SortRefused
      PROVE  SlotIInv'
  <2>1. /\ slot' = None /\ None \in Callable /\ methods' = Disturbed(methods, None)
        /\ over' = over /\ running' = running
    BY <1>7 DEF SortRefused, Callable
  <2> QED
    BY <1>1, <2>1, DisturbedAtTop, StayingKeepsSlotIInv DEF SameMethod, Top, SlotIInv, SlotTypeOK
<1>8. ASSUME NEW c \in BOOLEAN, methods # << >>,
             methods' = [methods EXCEPT ![Len(methods)].calling = c],
             UNCHANGED <<slot, over, running>>
      PROVE  SlotIInv'
  <2>1. methods # << >> => Len(methods) \in 1 .. Len(methods)
    BY <1>1
  <2> QED
    BY <1>1, <1>8, <2>1, CallingAtTop, StayingKeepsSlotIInv
    DEF SlotIInv, SlotTypeOK, UndisturbedKeepTheirs, Top
<1>9. CASE Compare
  BY <1>8, <1>9 DEF Compare
<1>10. CASE CallableReturns
  BY <1>8, <1>10 DEF CallableReturns
<1>11. CASE Finish
  BY <1>11, FinishKeepsSlotIInv
<1>12. CASE UNCHANGED slotVars
  BY <1>12 DEF slotVars, SlotIInv, SlotTypeOK, Nested, UndisturbedKeepTheirs, IteratorsNotReentered, Top
<1> QED
  BY <1>2, <1>3, <1>4, <1>5, <1>6, <1>7, <1>9, <1>10, <1>11, <1>12 DEF SlotNext

\* Each method under way stays in the relation to its caller that the ends of
\* the methods rely on (parameters.h:85-91, php_heap_iterator.c:56-90).
THEOREM SlotInvariant == SlotSpec => []SlotIInv
<1> QED
  BY InitSlotIInv, NextKeepsSlotIInv, PTL DEF SlotSpec

\* The stack, the slot and the iterators' flags keep their types and agree.
THEOREM SlotTypeCorrect == SlotSpec => []SlotTypeOK
<1>1. SlotIInv => SlotTypeOK
  BY DEF SlotIInv
<1> QED
  BY <1>1, SlotInvariant, PTL

\* A sort, a heap's method or an iterator's compares throughout with the
\* callable that it began with, to whatever depth its callables nest further
\* sorts and iterators, unless another heap was called (php_seq_ce.c:111-138).
THEOREM SortsNest == SlotSpec => []UndisturbedKeepTheirs
<1>1. SlotIInv => UndisturbedKeepTheirs
  BY DEF SlotIInv
<1> QED
  BY <1>1, SlotInvariant, PTL

\* An iterator is never moved from its own comparator, through however many
\* other methods (README.md:25).
THEOREM NoReentry == SlotSpec => []IteratorsNotReentered
<1>1. SlotIInv => IteratorsNotReentered
  BY DEF SlotIInv
<1> QED
  BY <1>1, SlotInvariant, PTL
=============================================================================
