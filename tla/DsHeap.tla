------------------------------- MODULE DsHeap -------------------------------
(***************************************************************************)
(* The binary heap under Ds\Heap (src/ds/ds_heap.c).  push and pop sift a  *)
(* value up or down past others; each comparison may call the user's       *)
(* comparator, so each is a step, and a comparator that throws compares as *)
(* 0 and ends the sift where it stands.                                    *)
(***************************************************************************)
EXTENDS Integers, FiniteSets

CONSTANTS
  Value,
  Ranking,       \* compare(v, w) has the sign of Ranking[v] - Ranking[w]
  Empty,         \* a node that holds no value
  MinCapacity,   \* DS_HEAP_MIN_CAPACITY
  Capacities,    \* the powers of two that a capacity can be
  MaxSize        \* bound of the model: no heap is larger

ASSUME ValueAssumption == Empty \notin Value /\ Ranking \in [Value -> Int]
ASSUME CapacityAssumption ==
  /\ Capacities \subseteq Nat \ {0}
  /\ MinCapacity \in Capacities
  /\ \A c \in Capacities : c >= MinCapacity
  /\ \A c \in Capacities : c \div 2 >= MinCapacity => c \div 2 \in Capacities
ASSUME SizeAssumption ==
  /\ MaxSize \in Nat
  /\ \A n \in 0 .. MaxSize : \E c \in Capacities : n <= c
  /\ \A c \in Capacities : c < MaxSize => 2 * c \in Capacities

VARIABLES
  nodes, capacity, size,    \* the ds_heap_t
  pc,        \* "idle", or the direction of the sift under way
  index,     \* the node the sift has come to; what is there is void
  held,      \* the value that is sifted
  spoiled    \* a comparator threw since the heap was last empty

heap == <<nodes, capacity, size>>
vars == <<nodes, capacity, size, pc, index, held, spoiled>>

-----------------------------------------------------------------------------
Left(x) == 2 * x + 1
Right(x) == 2 * x + 2
Parent(x) == (x - 1) \div 2

Above(v, w) == Ranking[v] > Ranking[w]

\* erealloc to c nodes
Resized(b, c) == [i \in 0 .. c - 1 |-> IF i \in DOMAIN b THEN b[i] ELSE Empty]

\* ds_next_power_of_2(n, DS_HEAP_MIN_CAPACITY)
CapacityFor(n) ==
  CHOOSE c \in Capacities : n <= c /\ \A d \in Capacities : n <= d => c <= d

\* A mistake: the capacity is halved whatever the minimum.
CompactsAny(n) == n <= capacity \div 4

Compacts(n) == n <= capacity \div 4 /\ capacity \div 2 >= MinCapacity

\* ds_heap_compact, when n values are left in the nodes b.
Compact(b, n) ==
  LET c == IF Compacts(n) THEN capacity \div 2 ELSE capacity
  IN  capacity' = c /\ nodes' = Resized(b, c)

\* A mistake: the left child is taken without a look at the right one.
LeftChild(i) == Left(i)

\* The child of i to compare with: the right one if it is the larger.
LargerChild(i) ==
  IF Right(i) < size /\ Above(nodes[Right(i)], nodes[Left(i)])
  THEN Right(i) ELSE Left(i)

-----------------------------------------------------------------------------
(* push.                                                                   *)

PushBegin(v) ==
  /\ pc = "idle"
  /\ size < MaxSize
  /\ capacity' = IF size = capacity THEN 2 * capacity ELSE capacity
  /\ nodes' = Resized(nodes, capacity')
  /\ pc' = "up" /\ index' = size /\ held' = v
  /\ UNCHANGED <<size, spoiled>>

\* A mistake: the void node stays where it was.
SiftUpInPlace ==
  /\ pc = "up" /\ index > 0
  /\ Above(held, nodes[Parent(index)])
  /\ nodes' = [nodes EXCEPT ![index] = nodes[Parent(index)]]
  /\ UNCHANGED <<capacity, size, pc, index, held, spoiled>>

\* Move parent down.
SiftUp ==
  /\ pc = "up" /\ index > 0
  /\ Above(held, nodes[Parent(index)])
  /\ nodes' = [nodes EXCEPT ![index] = nodes[Parent(index)]]
  /\ index' = Parent(index)
  /\ UNCHANGED <<capacity, size, pc, held, spoiled>>

PushPlace ==
  /\ nodes' = [nodes EXCEPT ![index] = held]
  /\ size' = size + 1
  /\ pc' = "idle" /\ index' = 0 /\ held' = Empty
  /\ UNCHANGED capacity

\* A mistake: the value settles below any parent that it does not equal.
PushSettlesEarly == index > 0 => held # nodes[Parent(index)]

PushSettled == index > 0 => ~Above(held, nodes[Parent(index)])

PushEnd ==
  /\ pc = "up"
  /\ PushSettled
  /\ PushPlace
  /\ UNCHANGED spoiled

PushThrows ==
  /\ pc = "up" /\ index > 0
  /\ PushPlace
  /\ spoiled' = TRUE

-----------------------------------------------------------------------------
(* pop.                                                                    *)

PopOnly ==
  /\ pc = "idle" /\ size = 1
  /\ size' = 0
  /\ Compact([nodes EXCEPT ![0] = Empty], 0)
  /\ spoiled' = FALSE
  /\ UNCHANGED <<pc, index, held>>

\* A mistake: the last node still counts once its value is taken.
PopBeginCounted ==
  /\ pc = "idle" /\ size > 1
  /\ held' = nodes[size - 1]
  /\ nodes' = [nodes EXCEPT ![size - 1] = Empty]
  /\ pc' = "down" /\ index' = 0
  /\ UNCHANGED <<capacity, size, spoiled>>

\* Move last element to root position and sift down.
PopBegin ==
  /\ pc = "idle" /\ size > 1
  /\ size' = size - 1
  /\ held' = nodes[size - 1]
  /\ nodes' = [nodes EXCEPT ![size - 1] = Empty]
  /\ pc' = "down" /\ index' = 0
  /\ UNCHANGED <<capacity, spoiled>>

HasChild == index < size \div 2

SiftDown ==
  /\ pc = "down" /\ HasChild
  /\ LET swap == LargerChild(index)
     IN  /\ Above(nodes[swap], held)
         /\ nodes' = [nodes EXCEPT ![index] = nodes[swap]]
         /\ index' = swap
  /\ UNCHANGED <<capacity, size, pc, held, spoiled>>

PopPlace ==
  /\ Compact([nodes EXCEPT ![index] = held], size)
  /\ pc' = "idle" /\ index' = 0 /\ held' = Empty
  /\ UNCHANGED size

PopEnd ==
  /\ pc = "down"
  /\ HasChild => ~Above(nodes[LargerChild(index)], held)
  /\ PopPlace
  /\ UNCHANGED spoiled

PopThrows ==
  /\ pc = "down" /\ HasChild
  /\ PopPlace
  /\ spoiled' = TRUE

-----------------------------------------------------------------------------
Clear ==
  /\ pc = "idle"
  /\ size' = 0
  /\ capacity' = MinCapacity
  /\ nodes' = [i \in 0 .. MinCapacity - 1 |-> Empty]
  /\ spoiled' = FALSE
  /\ UNCHANGED <<pc, index, held>>

EnsureCapacity(n) ==
  /\ pc = "idle"
  /\ CapacityFor(n) > capacity
  /\ capacity' = CapacityFor(n)
  /\ nodes' = Resized(nodes, capacity')
  /\ UNCHANGED <<size, pc, index, held, spoiled>>

Init ==
  /\ nodes = [i \in 0 .. MinCapacity - 1 |-> Empty]
  /\ capacity = MinCapacity
  /\ size = 0
  /\ pc = "idle" /\ index = 0 /\ held = Empty
  /\ spoiled = FALSE

Step == SiftUp \/ PushEnd \/ SiftDown \/ PopEnd

Throws == PushThrows \/ PopThrows

Next ==
  \/ \E v \in Value : PushBegin(v)
  \/ PopOnly \/ PopBegin
  \/ Step \/ Throws
  \/ Clear
  \/ \E n \in 0 .. MaxSize : EnsureCapacity(n)

\* A sift is a loop of the calling thread.
Spec == Init /\ [][Next]_vars /\ WF_vars(Step)

-----------------------------------------------------------------------------
(* Properties.                                                             *)

\* The nodes a heap holds, without the void one that a sift moves about.
Occupied ==
  CASE pc = "idle" -> 0 .. size - 1
    [] pc = "up"   -> (0 .. size) \ {index}
    [] pc = "down" -> (0 .. size - 1) \ {index}

\* The shape of a ds_heap_t and of the locals of push and pop: a sift stays
\* within the nodes and meets no unset one (ds_heap.h:16-21, ds_heap.c:107-182).
TypeOK ==
  /\ capacity \in Capacities
  /\ nodes \in [0 .. capacity - 1 -> Value \union {Empty}]
  /\ size \in 0 .. capacity
  /\ pc \in {"idle", "up", "down"}
  /\ index \in 0 .. capacity - 1
  /\ held \in Value \union {Empty}
  /\ pc = "idle" => index = 0 /\ held = Empty
  /\ spoiled \in BOOLEAN

\* No value is lost, doubled or exposed unset while the sift moves parents down
\* or children up (ds_heap.c:115-130, 152-181).
NodesHoldValues ==
  /\ Occupied \subseteq 0 .. capacity - 1
  /\ \A i \in Occupied : nodes[i] # Empty
  /\ pc # "idle" => held # Empty /\ index \in 0 .. size
  /\ pc = "down" => index < size

\* Whenever no sift is under way, no value is above its parent: push and pop
\* restore the order along one path (ds_heap.c:107-182).
HeapOrdered ==
  pc = "idle" /\ ~spoiled =>
    \A i \in 1 .. size - 1 : ~Above(nodes[i], nodes[Parent(i)])

\* So peek and pop return a greatest value (ds_heap.c:97-105, 144-147).
RootIsGreatest ==
  pc = "idle" /\ ~spoiled => \A i \in 1 .. size - 1 : ~Above(nodes[i], nodes[0])

\* Every sift ends, whatever the comparator makes of ties (ds_heap.c:116, 165).
SiftEnds == pc # "idle" ~> pc = "idle"

Count ==
  [v \in Value |->
     Cardinality({i \in Occupied : nodes[i] = v}) + IF held = v THEN 1 ELSE 0]

PB == INSTANCE PriorityBag WITH count <- Count

\* The heap is a priority bag: a push adds its value and a pop takes out a
\* greatest one, from the first step of each on; once a comparator has thrown,
\* only the order is given up (ds_heap.c:107-183).
ImplementsPriorityBag == PB!Spec

-----------------------------------------------------------------------------
(* The inductive strengthening of HeapOrdered: during a sift the order holds *)
(* but around the void node, whose children are below what is above it.      *)

OrderedBut(b, n, S) ==
  \A i \in 1 .. n - 1 :
    i \notin S /\ Parent(i) \notin S => ~Above(b[i], b[Parent(i)])

Bridged(b, n, x) ==
  \A i \in 1 .. n - 1 : x > 0 /\ Parent(i) = x => ~Above(b[i], b[Parent(x)])

ChildrenBelow(b, n, x, v) ==
  \A i \in 1 .. n - 1 : Parent(i) = x => ~Above(b[i], v)

UpInv(b, n, x, v) ==
  OrderedBut(b, n, {x}) /\ Bridged(b, n, x) /\ ChildrenBelow(b, n, x, v)

DownInv(b, n, x, v) ==
  /\ OrderedBut(b, n, {x}) /\ Bridged(b, n, x)
  /\ x > 0 => ~Above(v, b[Parent(x)])

SiftInv ==
  ~spoiled => /\ pc = "idle" => OrderedBut(nodes, size, {})
              /\ pc = "up" => UpInv(nodes, size + 1, index, held)
              /\ pc = "down" => DownInv(nodes, size, index, held)

IInv == TypeOK /\ NodesHoldValues /\ SiftInv
=============================================================================
